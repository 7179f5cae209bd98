------------------------------- MODULE Dashboard -------------------------------
(* `pm2 taskmanager': a list of managed tasks or of the machine's processes *)
(* that every collection ranks anew, the cursor anchored in it, and the     *)
(* confirmed kill of the row under the cursor (dashboard.Model).            *)
EXTENDS Integers, FiniteSets, Sequences, SequencesExt

CONSTANTS
  Managed,       \* the name of each task of the daemon, by ID
  Processes,     \* PIDs of the machine; 1 is init
  Self,          \* the PID of the dashboard
  MaxEvents,     \* bound: things that happen on the machine
  MaxStrokes     \* bound: keys pressed

ASSUME DashboardAssumption ==
  /\ Self \in Processes /\ Processes \subseteq Nat \ {0} /\ IsFiniteSet(Processes)
  /\ DOMAIN Managed \subseteq Nat /\ IsFiniteSet(DOMAIN Managed)

VARIABLES
  machine,       \* the processes and tasks there are, each with its load
  chain,         \* collections under way and timers armed for the next one
  board,         \* the model
  sent,          \* confirmed kills under way
  prompted,      \* history: whom the prompt was raised for, and those agreed to
  events, strokes

boardVars == <<machine, chain, board, sent, prompted, events, strokes>>

NoTarget == [system |-> FALSE, subject |-> 0, pid |-> 0]
TaskIDs == DOMAIN Managed

\* A process is known by its PID, a task by its ID; both carry a name to rank by.
Proc(pid, load) == [subject |-> pid, name |-> pid, pid |-> pid, load |-> load]
Task(id, load) == [subject |-> id, name |-> Managed[id], pid |-> 100 + id, load |-> load]

BoardInit ==
  /\ machine = [procs |-> {Proc(p, 0) : p \in Processes}, tasks |-> {Task(id, 0) : id \in TaskIDs}]
  /\ chain = <<"collect">> /\ sent = {} /\ events = 0 /\ strokes = 0
  /\ prompted = [subject |-> NoTarget, agreed |-> {}]
  /\ board = [procs |-> <<>>, tasks |-> <<>>, scope |-> "tasks", sort |-> 1, selected |-> 1,
              anchorPID |-> 0, anchorTask |-> 0, confirm |-> NoTarget]

-------------------------------------------------------------------------------
Rankings == <<"cpu", "memory", "name">>

\* By load, or by name alone; memory is taken to follow the processor.
Ranked(rows, by) ==
  {s \in SetToSeqs(rows) :
     \A i, j \in DOMAIN s : i < j =>
       IF by # "name" /\ s[i].load # s[j].load THEN s[i].load > s[j].load
       ELSE s[i].name <= s[j].name}

Rows(b) == IF b.scope = "system" THEN b.procs ELSE b.tasks
ClampedRow(b) ==
  IF b.selected > Len(Rows(b)) THEN IF Rows(b) = <<>> THEN 1 ELSE Len(Rows(b))
  ELSE IF b.selected < 1 THEN 1 ELSE b.selected

\* rememberSelection: the subject under the cursor, by PID or by name.
Remembered(b) ==
  LET row == IF b.selected \in DOMAIN Rows(b) THEN Rows(b)[b.selected] ELSE Proc(0, 0)
  IN  IF b.scope = "system" THEN [b EXCEPT !.anchorPID = row.pid, !.anchorTask = 0]
      ELSE [b EXCEPT !.anchorPID = 0, !.anchorTask = row.name]

Anchor(b) == IF b.scope = "system" THEN b.anchorPID ELSE b.anchorTask
Anchored(b) == {i \in DOMAIN Rows(b) : Anchor(b) # 0 /\ Rows(b)[i].name = Anchor(b)}

\* restoreSelection: the first row that is the anchored subject.
Restored(b) ==
  [b EXCEPT !.selected =
     IF Anchored(b) = {} THEN ClampedRow(b)
     ELSE CHOOSE i \in Anchored(b) : \A j \in Anchored(b) : i <= j]

\* applySort ranks both lists.
Resorted(b, procs, tasks) ==
  UNION {{[b EXCEPT !.procs = p, !.tasks = t] : p \in Ranked(procs, Rankings[b.sort])} :
           t \in Ranked(tasks, Rankings[b.sort])}

-------------------------------------------------------------------------------
(* One chain: a collection, the timer armed when it is shown, the next one. *)
Observe ==
  /\ \E i \in DOMAIN chain :
       /\ chain[i] = "collect" /\ chain' = [chain EXCEPT ![i] = "timer"]
       /\ \E reached \in BOOLEAN :
            \E b \in Resorted(board, machine.procs, IF reached THEN machine.tasks ELSE {}) :
              board' = Restored(b)
  /\ UNCHANGED <<machine, sent, prompted, events, strokes>>

TimerFires ==
  /\ \E i \in DOMAIN chain :
       chain[i] = "timer" /\ chain' = [chain EXCEPT ![i] = "collect"]
  /\ UNCHANGED <<machine, board, sent, prompted, events, strokes>>

\* SIGTERM to a process, `stop' to the daemon for a task; a notice, no refresh.
KillResult(k) ==
  /\ sent' = sent \ {k} /\ prompted' = [prompted EXCEPT !.agreed = @ \ {k}]
  /\ machine' = [machine EXCEPT
       !.procs = {p \in @ : ~(k.system /\ p.pid = k.pid)},
       !.tasks = {IF ~k.system /\ t.subject = k.subject THEN [t EXCEPT !.pid = 0] ELSE t : t \in @}]
  /\ UNCHANGED <<chain, board, events, strokes>>

-------------------------------------------------------------------------------
Stroke ==
  /\ strokes < MaxStrokes /\ strokes' = strokes + 1
  /\ UNCHANGED <<machine, chain, events>>
Free == Stroke /\ board.confirm = NoTarget /\ UNCHANGED sent
Browse == Free /\ UNCHANGED prompted

Move(delta) ==
  /\ Browse
  /\ LET moved == [board EXCEPT !.selected = @ + delta]
     IN  board' = Remembered([moved EXCEPT !.selected = ClampedRow(moved)])

Jump ==
  /\ Browse
  /\ \E i \in {1, IF Rows(board) = <<>> THEN 1 ELSE Len(Rows(board))} :
       board' = Remembered([board EXCEPT !.selected = i])

ToggleScope ==
  /\ Browse
  /\ board' = Remembered([board EXCEPT
       !.scope = IF @ = "tasks" THEN "system" ELSE "tasks", !.selected = 1])

CycleSort ==
  /\ Browse
  /\ \E b \in Resorted([board EXCEPT !.sort = (@ % 3) + 1], ToSet(board.procs),
                       ToSet(board.tasks)) : board' = Restored(b)

\* killTargetForSelection refuses init, the dashboard and a task without a child.
Refused(row) ==
  IF board.scope = "system" THEN row.pid \in {0, 1, Self} ELSE row.pid = 0

ArmKill ==
  /\ Free /\ board.selected \in DOMAIN Rows(board)
  /\ LET row == Rows(board)[board.selected]
         target == [system |-> board.scope = "system", subject |-> row.subject, pid |-> row.pid]
     IN  /\ ~Refused(row)
         /\ board' = [board EXCEPT !.confirm = target]
         /\ prompted' = [prompted EXCEPT !.subject = target]

\* The user answers the prompt they were shown.
Dismissed == prompted' = [prompted EXCEPT !.subject = NoTarget]
Agreed == prompted' = [subject |-> NoTarget, agreed |-> prompted.agreed \union {prompted.subject}]

\* Confirm, with the row under the cursor now.
Confirm_live ==
  /\ Stroke /\ board.confirm # NoTarget /\ board.selected \in DOMAIN Rows(board)
  /\ sent' = sent \union {[board.confirm EXCEPT !.subject = Rows(board)[board.selected].subject,
                                                !.pid = Rows(board)[board.selected].pid]}
  /\ board' = [board EXCEPT !.confirm = NoTarget] /\ Agreed

\* While a confirmation is pending every other key is swallowed.
Confirm ==
  /\ Stroke /\ board.confirm # NoTarget
  /\ sent' = sent \union {board.confirm}
  /\ board' = [board EXCEPT !.confirm = NoTarget] /\ Agreed

Cancel ==
  /\ Stroke /\ board.confirm # NoTarget
  /\ board' = [board EXCEPT !.confirm = NoTarget] /\ Dismissed /\ UNCHANGED sent

\* Processes start and end and their load changes; a stopped task starts again.
Happens ==
  /\ events < MaxEvents /\ events' = events + 1
  /\ \/ \E p \in machine.procs : machine' = [machine EXCEPT !.procs = @ \ {p}]
     \/ \E p \in machine.procs : machine' = [machine EXCEPT !.procs =
          (@ \ {p}) \union {[p EXCEPT !.load = 1 - @]}]
     \/ \E t \in machine.tasks, pid \in {0, 100} : machine' = [machine EXCEPT !.tasks =
          (@ \ {t}) \union {[t EXCEPT !.load = 1 - @, !.pid = IF pid = 0 THEN 0 ELSE pid + t.subject]}]
     \/ \E t \in machine.tasks : machine' = [machine EXCEPT !.tasks = @ \ {t}]
  /\ UNCHANGED <<chain, board, sent, prompted, strokes>>

BoardNext ==
  \/ Observe \/ TimerFires \/ Jump \/ ToggleScope \/ CycleSort
  \/ ArmKill \/ Confirm \/ Cancel \/ Happens
  \/ \E delta \in {-10, -1, 1, 10} : Move(delta)
  \/ \E k \in sent : KillResult(k)

-------------------------------------------------------------------------------
(* However the list is re-ranked under it, the cursor is on a row and on    *)
(* the subject it was put on while that is listed; one chain of collections *)
(* runs, whatever keys and kills come between (restoreSelection,            *)
(* killResultMsg).  A kill under way is of a subject the user agreed to     *)
(* when the prompt named it, not of the row that took its place meanwhile,  *)
(* and of neither init nor the dashboard (handleKey, killTarget).           *)
BoardHolds ==
  /\ Rows(board) # <<>> => board.selected \in DOMAIN Rows(board)
  /\ Anchored(board) # {} => Rows(board)[board.selected].name = Anchor(board)
  /\ Len(chain) = 1
  /\ sent \subseteq prompted.agreed
  /\ \A k \in sent : k.system => k.pid \notin {0, 1, Self}
===============================================================================
