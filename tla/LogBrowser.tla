------------------------------- MODULE LogBrowser -------------------------------
(* `pm2 logs monitor': the tree of log files, the viewer and the confirmed   *)
(* delete, over a directory that changes and scans and reads that answer     *)
(* late (logbrowser.Model).                                                  *)
EXTENDS Integers, FiniteSets, Sequences, SequencesExt

CONSTANTS
  Logs,          \* tasks that may have log files, in the order of their names
  Files,         \* file numbers, in the order they are listed
  InitialTarget, \* the task named on the command line, or 0
  MaxLines,      \* bound: lines in a file
  PageLines,     \* lines a page key moves
  MaxWork,       \* bound: scans, reads and deletions under way
  MaxPresses,    \* bound: keys pressed
  MaxWrites      \* bound: changes made to the directory by others

ASSUME BrowserAssumption ==
  /\ Logs \subseteq Nat \ {0} /\ IsFiniteSet(Logs)
  /\ Files \subseteq Nat \ {0} /\ IsFiniteSet(Files)
  /\ InitialTarget \in Nat /\ PageLines \in Nat

VARIABLES
  disk,          \* the number of lines of each log file there is
  work,          \* what runs in the background; each delivers one message
  browser,       \* the model
  presses, writes

browserVars == <<disk, work, browser, presses, writes>>

NoPath == <<0, 0>>
NoLines == [path |-> NoPath, count |-> 0]
Path(log, file) == <<log, file>>

BrowserInit ==
  /\ disk = [p \in {Path(l, f) : l \in Logs, f \in Files} |-> 1]
  /\ work = {[n |-> 1, kind |-> "scan", path |-> NoPath, stage |-> "started"]}
  /\ presses = 0 /\ writes = 0
  /\ browser = [screen |-> "tree", tasks |-> <<>>, expanded |-> {}, target |-> InitialTarget,
                cursor |-> 1, viewer |-> NoPath, lines |-> NoLines, line |-> 1, loading |-> TRUE]

-------------------------------------------------------------------------------
ClampIndex(index, length) ==
  IF length = 0 \/ index < 1 THEN 1 ELSE IF index > length THEN length ELSE index

\* ListTasks: tasks and files in the order of their names.
Ascending(S) == CHOOSE s \in SetToSeqs(S) : \A i, j \in DOMAIN s : i < j => s[i] <= s[j]
FilesOf(d, l) == Ascending({f \in Files : Path(l, f) \in DOMAIN d})
Listing(d) ==
  LET order == Ascending({l \in Logs : FilesOf(d, l) # <<>>})
  IN  [i \in DOMAIN order |-> [log |-> order[i], files |-> FilesOf(d, order[i])]]

\* visibleTreeRows: a task's row, then the rows of its files if it is expanded.
TreeRows(b) ==
  FlattenSeq([i \in DOMAIN b.tasks |->
    LET t == b.tasks[i]
    IN  <<Path(t.log, 0)>> \o
        (IF t.log \in b.expanded THEN [j \in DOMAIN t.files |-> Path(t.log, t.files[j])]
                                 ELSE <<>>)])

\* selectedTreeRow clamps what the renderer highlights as it stands.
Selected(b) ==
  IF TreeRows(b) = <<>> THEN NoPath ELSE TreeRows(b)[ClampIndex(b.cursor, Len(TreeRows(b)))]
SelectedFile(b) == IF Selected(b)[2] = 0 THEN NoPath ELSE Selected(b)
RowOf(b, log) == CHOOSE i \in DOMAIN TreeRows(b) : TreeRows(b)[i] = Path(log, 0)

\* applyInitialTarget, once; then the cursor is put back into range.
Targeted(b) ==
  LET opened == [b EXCEPT !.target = 0, !.expanded = @ \union {b.target}]
  IN  IF b.target = 0 THEN b
      ELSE IF \A i \in DOMAIN b.tasks : b.tasks[i].log # b.target THEN [b EXCEPT !.target = 0]
      ELSE [opened EXCEPT !.cursor = RowOf(opened, b.target)]
InRange(b) == [b EXCEPT !.cursor = ClampIndex(@, Len(TreeRows(b)))]

-------------------------------------------------------------------------------
FreeWork == {n \in 1..MaxWork : \A w \in work : w.n # n}
Started(kind, path) ==
  [n |-> CHOOSE n \in FreeWork : TRUE, kind |-> kind, path |-> path, stage |-> "started"]
Begin(kind, path) == FreeWork # {} /\ work' = work \union {Started(kind, path)}

Without(p) == [q \in DOMAIN disk \ {p} |-> disk[q]]

\* loadTasks, loadFile and deleteFile touch the directory; each may fail.
Perform(w) ==
  /\ w.stage = "started"
  /\ \E ok \in BOOLEAN :
       LET done == ok /\ (w.kind = "scan" \/ w.path \in DOMAIN disk)
       IN  /\ disk' = IF done /\ w.kind = "delete" THEN Without(w.path) ELSE disk
           /\ work' = (work \ {w}) \union
                {[n |-> w.n, kind |-> w.kind, path |-> w.path, stage |-> "done", ok |-> done,
                  tasks |-> IF done /\ w.kind = "scan" THEN Listing(disk) ELSE <<>>,
                  count |-> IF done /\ w.kind = "read" THEN disk[w.path] ELSE 0]}
  /\ UNCHANGED <<browser, presses, writes>>

\* tasksMsg.
Scanned(w) ==
  /\ w.stage = "done" /\ w.kind = "scan" /\ work' = work \ {w}
  /\ LET b == [browser EXCEPT !.loading = FALSE]
     IN  browser' = IF w.ok THEN InRange(Targeted([b EXCEPT !.tasks = w.tasks])) ELSE b
  /\ UNCHANGED <<disk, presses, writes>>

\* fileMsg: a file the viewer has left is dropped.
Read(w) ==
  /\ w.stage = "done" /\ w.kind = "read" /\ work' = work \ {w}
  /\ LET b == [browser EXCEPT !.loading = FALSE]
     IN  browser' = IF w.path # browser.viewer THEN browser
                    ELSE IF ~w.ok THEN b
                    ELSE [b EXCEPT !.lines = [path |-> w.path, count |-> w.count],
                                   !.line = ClampIndex(w.count, w.count)]
  /\ UNCHANGED <<disk, presses, writes>>

DeletedClears(b, path) ==
  IF b.viewer = path THEN [b EXCEPT !.viewer = NoPath, !.lines = NoLines, !.line = 1] ELSE b

\* deletedMsg: back to the tree, and another scan.
Deleted(w) ==
  /\ w.stage = "done" /\ w.kind = "delete"
  /\ LET b == [browser EXCEPT !.screen = "tree", !.loading = w.ok]
     IN  IF w.ok
         THEN /\ browser' = DeletedClears(b, w.path)
              /\ work' = (work \ {w}) \union
                   {[n |-> w.n, kind |-> "scan", path |-> NoPath, stage |-> "started"]}
         ELSE browser' = b /\ work' = work \ {w}
  /\ UNCHANGED <<disk, presses, writes>>

-------------------------------------------------------------------------------
Press == presses < MaxPresses /\ presses' = presses + 1 /\ UNCHANGED <<disk, writes>>
Silent == Press /\ UNCHANGED work

MoveRow ==
  /\ Silent /\ browser.screen = "tree"
  /\ \E i \in {browser.cursor - 1, browser.cursor + 1, 1, Len(TreeRows(browser))} :
       browser' = [browser EXCEPT !.cursor = ClampIndex(i, Len(TreeRows(browser)))]

MoveLine ==
  /\ Silent /\ browser.screen = "viewer"
  /\ \E i \in {browser.line + d : d \in {-1, 1, -PageLines, PageLines}}
              \union {1, browser.lines.count} :
       browser' = [browser EXCEPT !.line = ClampIndex(i, browser.lines.count)]

\* moveIn on a task: expand it, or step to its first file.
Expand ==
  /\ Silent /\ browser.screen = "tree" /\ Selected(browser) # NoPath
  /\ SelectedFile(browser) = NoPath
  /\ browser' = IF Selected(browser)[1] \in browser.expanded
                THEN [browser EXCEPT !.cursor = @ + 1]
                ELSE [browser EXCEPT !.expanded = @ \union {Selected(browser)[1]}]

\* moveOut: collapse the task, or the task of the file, and go to its row.
Collapse ==
  /\ Silent /\ browser.screen = "tree" /\ Selected(browser) # NoPath
  /\ LET log == Selected(browser)[1]
     IN  browser' = [browser EXCEPT !.expanded = @ \ {log}, !.cursor = RowOf(browser, log)]

CloseViewer ==
  /\ Silent /\ browser.screen = "viewer" /\ browser' = [browser EXCEPT !.screen = "tree"]

OpenFile ==
  /\ Press /\ browser.screen = "tree" /\ SelectedFile(browser) # NoPath
  /\ browser' = [browser EXCEPT !.screen = "viewer", !.viewer = SelectedFile(browser),
                                !.lines = NoLines, !.line = 1, !.loading = TRUE]
  /\ Begin("read", SelectedFile(browser))

AskDelete ==
  /\ Silent /\ browser.screen = "tree" /\ SelectedFile(browser) # NoPath
  /\ browser' = [browser EXCEPT !.screen = "confirm"]

\* `y' deletes the file the prompt names now, a rescan may have changed it;
\* the prompt stays until the deletion is reported.
ConfirmDelete ==
  /\ Press /\ browser.screen = "confirm"
  /\ IF SelectedFile(browser) = NoPath
     THEN browser' = [browser EXCEPT !.screen = "tree"] /\ UNCHANGED work
     ELSE /\ browser' = [browser EXCEPT !.loading = TRUE]
          /\ Begin("delete", SelectedFile(browser))

CancelDelete ==
  /\ Silent /\ browser.screen = "confirm" /\ browser' = [browser EXCEPT !.screen = "tree"]

\* Tasks write, rotation and others remove.
DiskChanges ==
  /\ writes < MaxWrites /\ writes' = writes + 1
  /\ \E p \in DOMAIN disk :
       \/ disk' = Without(p)
       \/ disk[p] < MaxLines /\ disk' = [disk EXCEPT ![p] = @ + 1]
  /\ UNCHANGED <<work, browser, presses>>

BrowserNext ==
  \/ \E w \in work : Perform(w) \/ Scanned(w) \/ Read(w) \/ Deleted(w)
  \/ MoveRow \/ MoveLine \/ Expand \/ Collapse \/ CloseViewer \/ OpenFile
  \/ AskDelete \/ ConfirmDelete \/ CancelDelete \/ DiskChanges

-------------------------------------------------------------------------------
(* The row that is highlighted is the row the keys act on, whatever a       *)
(* rescan took away (Update against selectedTreeRow); the lines shown under *)
(* a path are that file's, however late they came (fileMsg); and `loading'  *)
(* never outlives the work that would end it, so the screen cannot stay on  *)
(* it for good (focusSelectedFile, deletedMsg).                             *)
BrowserHolds ==
  /\ browser.cursor = ClampIndex(browser.cursor, Len(TreeRows(browser)))
  /\ browser.lines.path \in {NoPath, browser.viewer}
  /\ browser.line = ClampIndex(browser.line, browser.lines.count)
  /\ browser.screen = "viewer" => browser.viewer # NoPath
  /\ browser.loading =>
       \E w \in work : w.kind \in {"scan", "delete"} \/ w.path = browser.viewer
===============================================================================
