-------------------------------- MODULE Monitor --------------------------------
(* `pm2 monitor': the list of tasks it shows, the cursor on it and the      *)
(* commands its keys send, while the daemon answers late, out of order or   *)
(* not at all (tui.Model).  The log pane and the error and notice lines,    *)
(* which nothing reads back, are left out.                                  *)
EXTENDS Integers, FiniteSets, Sequences, SequencesExt

CONSTANTS
  TaskName,      \* the name of each task, by ID: one name may be two tasks'; 0 is no task
  TaskSpace,     \* its namespace; 0 when the application set none
  WorkflowRows,  \* workflows declared in the daemon
  MaxCalls,      \* bound: commands in flight
  MaxChanges,    \* bound: changes made to the tasks by others
  MaxKeys        \* bound: keys pressed

ASSUME MonitorAssumption ==
  /\ DOMAIN TaskSpace = DOMAIN TaskName /\ IsFiniteSet(DOMAIN TaskName)
  /\ DOMAIN TaskName \subseteq Nat \ {0} /\ \A id \in DOMAIN TaskName : TaskSpace[id] \in Nat
  /\ WorkflowRows \in Nat /\ MaxCalls \in Nat /\ MaxChanges \in Nat /\ MaxKeys \in Nat

VARIABLES
  tasks,         \* what the daemon would list
  calls,         \* refreshes and actions under way
  screen,        \* the model
  changes, keys

monitorVars == <<tasks, calls, screen, changes, keys>>

IDs == DOMAIN TaskName
Row(id) == [id |-> id, name |-> TaskName[id], ns |-> TaskSpace[id], paused |-> FALSE, load |-> 0]

Default == 1
All == 0
Tab == -1                               \* the trailing chip of the strip
Chip(row) == IF row.ns = 0 THEN Default ELSE row.ns
Fields == <<"name", "namespace", "cpu", "memory", "status">>

Clamped(index, length) == IF length = 0 THEN 1 ELSE IF index > length THEN length ELSE index

InWorkflowScope(s) == s.chips # <<>> /\ s.chip = Len(s.chips)
Cursor(s) == IF s.selected \in DOMAIN s.procs THEN s.procs[s.selected].id ELSE 0

MonitorInit ==
  /\ tasks = {Row(id) : id \in IDs} /\ calls = {[n |-> 1, cmd |-> "list", id |-> 0, stage |-> "ask"]}
  /\ changes = 0 /\ keys = 0
  /\ screen = [all |-> {}, procs |-> <<>>, workflows |-> 0, chips |-> <<>>, chip |-> 1,
               selected |-> 1, wfSelected |-> 1, sort |-> 1]

-------------------------------------------------------------------------------
(* Sorting and filtering.  sort.Slice is not stable: rows whose keys are     *)
(* equal may come out in any order.                                         *)
Key(field, row) ==
  CASE field = "name" -> <<row.name, row.id>>
    [] field = "namespace" -> <<row.ns, row.name, row.id>>
    [] field \in {"cpu", "memory"} -> <<-row.load, row.name>>
    [] field = "status" -> <<IF row.paused THEN 1 ELSE 0, row.name>>

KeyLess(a, b) == \E i \in DOMAIN a : a[i] < b[i] /\ \A j \in 1..(i - 1) : a[j] = b[j]
InOrder(s, field) ==
  \A i, j \in DOMAIN s : i < j => ~KeyLess(Key(field, s[j]), Key(field, s[i]))
Orders(rows, field) == {s \in SetToSeqs(rows) : InOrder(s, field)}

\* applyNamespaceFilter, as the daemon's list is ordered: by ID.
Filtered(s) ==
  IF InWorkflowScope(s) THEN {}
  ELSE IF s.chips[s.chip] = All THEN s.all
  ELSE {row \in s.all : Chip(row) = s.chips[s.chip]}
ByID(rows) ==
  CHOOSE s \in SetToSeqs(rows) : \A i, j \in DOMAIN s : i < j => s[i].id <= s[j].id

\* Sorted, without the ID to find again.
Sorted_index(s, id) == {[s EXCEPT !.procs = o] : o \in Orders(ToSet(s.procs), Fields[s.sort])}

\* sortProcs: the cursor goes where the task it was on goes.
Sorted(s, id) ==
  LET held == IF id = 0 THEN Cursor(s) ELSE id
      At(o) == {i \in DOMAIN o : o[i].id = held}
  IN  {[s EXCEPT !.procs = o,
                 !.selected = IF At(o) = {} THEN @ ELSE CHOOSE i \in At(o) : TRUE] :
         o \in Orders(ToSet(s.procs), Fields[s.sort])}

ApplyFilter(s) ==
  LET rows == ByID(Filtered(s))
  IN  [s EXCEPT !.procs = rows,
                !.selected = IF InWorkflowScope(s) THEN @ ELSE Clamped(@, Len(rows))]

\* The namespaces of the rows, in order.
Spaces(rows) ==
  CHOOSE s \in SetToSeqs({Chip(row) : row \in rows}) :
    \A i, j \in DOMAIN s : i < j => s[i] <= s[j]

\* recomputeNamespaces: the chip stays on its namespace while that has tasks.
Recompute(s) ==
  LET chips == <<All>> \o Spaces(s.all) \o <<Tab>>
      kept == {i \in 1..(Len(chips) - 1) : s.chips # <<>> /\ chips[i] = s.chips[s.chip]}
  IN  [s EXCEPT !.chips = chips,
                !.chip = IF InWorkflowScope(s) THEN Len(chips)
                         ELSE IF kept = {} THEN 1 ELSE CHOOSE i \in kept : TRUE]

-------------------------------------------------------------------------------
(* Commands: each runs in a goroutine of its own and delivers one message.  *)
FreeCall == {n \in 1..MaxCalls : \A c \in calls : c.n # n}
Call(cmd, id) ==
  /\ FreeCall # {}
  /\ calls' = calls \union {[n |-> CHOOSE n \in FreeCall : TRUE, cmd |-> cmd, id |-> id,
                             stage |-> IF cmd = "list" THEN "ask" ELSE "act"]}

\* The daemon serves the command of a key: by ID, so no other task is met.
Serve(c) ==
  /\ c.stage = "act"
  /\ \/ UNCHANGED tasks                  \* the daemon was not reached, or refuses
     \/ tasks' = {[row EXCEPT !.paused =
                      IF row.id = c.id /\ c.cmd \in {"pause", "resume"}
                      THEN c.cmd = "pause" ELSE @] :
                     row \in {r \in tasks : ~(r.id = c.id /\ c.cmd = "delete")}}
  /\ calls' = (calls \ {c}) \union {[c EXCEPT !.stage = "ask"]}
  /\ UNCHANGED <<screen, changes, keys>>

\* doRefresh: no answer at all, or tasks with or without workflows.
Answer(c) ==
  /\ c.stage = "ask"
  /\ \E reached \in BOOLEAN, w \in {0, WorkflowRows} :
       calls' = (calls \ {c}) \union
         {[n |-> c.n, cmd |-> c.cmd, id |-> c.id, stage |-> "answered",
           ok |-> reached, list |-> IF reached THEN tasks ELSE {}, workflows |-> IF reached THEN w ELSE 0]}
  /\ UNCHANGED <<tasks, screen, changes, keys>>

\* applyRefresh, for refreshMsg and actionMsg.
Deliver(c) ==
  /\ c.stage = "answered" /\ calls' = calls \ {c}
  /\ LET listed == [screen EXCEPT !.all = c.list, !.workflows = c.workflows,
                                  !.wfSelected = Clamped(@, c.workflows)]
     IN  IF c.ok THEN screen' \in Sorted(ApplyFilter(Recompute(listed)), Cursor(screen))
         ELSE UNCHANGED screen
  /\ UNCHANGED <<tasks, changes, keys>>

\* tickMsg re-arms itself whether or not the refresh before it was answered.
Refresh == Call("list", 0) /\ UNCHANGED <<tasks, screen, changes, keys>>

-------------------------------------------------------------------------------
Pressed == keys < MaxKeys /\ keys' = keys + 1 /\ UNCHANGED <<tasks, changes>>

KeySort ==
  /\ Pressed
  /\ screen' \in Sorted([screen EXCEPT !.sort = (@ % Len(Fields)) + 1], 0)
  /\ UNCHANGED calls

\* cycleNamespace wraps at both ends, and clamps the row under the workflow
\* tab too, where there are none: the cursor comes back on the first.
KeyChip(delta) ==
  /\ Pressed /\ screen.chips # <<>>
  /\ LET next == ((screen.chip - 1 + delta) % Len(screen.chips)) + 1
     IN  \E s \in Sorted(ApplyFilter([screen EXCEPT !.chip = next]), 0) :
           screen' = [s EXCEPT !.selected = Clamped(@, Len(s.procs))]
  /\ UNCHANGED calls

KeyWorkflow(delta) ==
  /\ Pressed /\ InWorkflowScope(screen)
  /\ screen.wfSelected + delta \in 1..screen.workflows
  /\ screen' = [screen EXCEPT !.wfSelected = @ + delta]
  /\ UNCHANGED calls

KeyMove(delta) ==
  /\ Pressed /\ screen.selected + delta \in DOMAIN screen.procs
  /\ screen' = [screen EXCEPT !.selected = @ + delta]
  /\ UNCHANGED calls

\* `p' reads the status the last answer showed.
KeyAction(cmd) ==
  /\ Pressed /\ screen.procs # <<>>
  /\ LET row == screen.procs[screen.selected]
     IN  /\ cmd = "resume" => row.paused
         /\ cmd = "pause" => ~row.paused
         /\ Call(cmd, row.id)
  /\ UNCHANGED screen

\* Others start, delete and pause tasks, and their load changes.
Change ==
  /\ changes < MaxChanges /\ changes' = changes + 1
  /\ \E id \in IDs :
       \/ tasks' = {row \in tasks : row.id # id}
       \/ tasks' = tasks \union {Row(id)} /\ \A row \in tasks : row.id # id
       \/ tasks' = {IF row.id = id THEN [row EXCEPT !.load = 1 - @] ELSE row : row \in tasks}
  /\ UNCHANGED <<calls, screen, keys>>

MonitorNext ==
  \/ \E c \in calls : Serve(c) \/ Answer(c) \/ Deliver(c)
  \/ Refresh \/ KeySort \/ Change
  \/ \E delta \in {-1, 1} : KeyChip(delta) \/ KeyWorkflow(delta) \/ KeyMove(delta)
  \/ \E cmd \in {"restart", "pause", "resume", "delete"} : KeyAction(cmd)

-------------------------------------------------------------------------------
(* Whatever order answers come in and whatever is pressed between them, the *)
(* keys act on a row that is there, and the list shows every task of the    *)
(* last answer in the chip's scope, once, in the order asked for - none     *)
(* under the workflow tab (applyNamespaceFilter, sortProcs, handleKey).     *)
MonitorHolds ==
  /\ screen.procs # <<>> => screen.selected \in DOMAIN screen.procs
  /\ screen.workflows # 0 => screen.wfSelected \in 1..screen.workflows
  /\ screen.chips # <<>> =>
       /\ screen.chip \in DOMAIN screen.chips
       /\ ToSet(screen.procs) = Filtered(screen)
       /\ Len(screen.procs) = Cardinality(Filtered(screen))
       /\ InOrder(screen.procs, Fields[screen.sort])
       /\ \A row \in screen.all : \E i \in DOMAIN screen.chips : screen.chips[i] = Chip(row)

(* An answer, however stale, and a change of the sort order leave the       *)
(* cursor on its task while that task is listed: a `d' pressed at the       *)
(* moment a refresh lands deletes no neighbour (applyRefresh, sortProcs).   *)
MonitorCursorStays ==
  [][KeySort \/ (\E c \in calls : Deliver(c)) =>
       \/ Cursor(screen') = Cursor(screen)
       \/ \A row \in ToSet(screen'.procs) : row.id # Cursor(screen)]_monitorVars
===============================================================================
