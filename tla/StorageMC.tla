------------------------------ MODULE StorageMC ------------------------------
(* What the daemon keeps on disk, for model checking: a task's log in one  *)
(* half of the behaviours, the run journal in the other.                   *)
EXTENDS TaskLogProps, RunJournalProps

VARIABLE part

vars == <<logVars, journalVars, part>>

\* The journal's half ignores the log, so one log and one environment do.
Init ==
  /\ LogInit /\ JournalInit
  /\ \/ part = "log"
     \/ part = "journal" /\ current = Nil /\ "disk" \in environment

Next ==
  \/ part = "log" /\ LogNext /\ UNCHANGED <<journalVars, part>>
  \/ part = "journal" /\ JournalNext /\ UNCHANGED <<logVars, part>>

Spec == Init /\ [][Next]_vars

\* What is on disk and in the writers' hands is well formed.
TypeOK == LogTypeOK /\ JournalTypeOK
=============================================================================
