---------------------------- MODULE TaskIdentity ----------------------------
(***************************************************************************)
(* What the registry promises of IDs: a task gets the next number when it  *)
(* is first registered, keeps it through every restart and when it moves   *)
(* to another namespace, and nobody gets it again while the daemon runs.   *)
(***************************************************************************)
EXTENDS Integers

CONSTANTS TaskKeys

VARIABLES
  id,       \* the ID of each key, None when it is not registered
  issued    \* IDs 0 .. issued - 1 have been given out

None == -1

IdentityInit == id = [k \in TaskKeys |-> None] /\ issued = 0

Admit(k) ==
  /\ id[k] = None
  /\ id' = [id EXCEPT ![k] = issued]
  /\ issued' = issued + 1

Move(j, k) ==
  /\ id[j] # None /\ id[k] = None
  /\ id' = [id EXCEPT ![j] = None, ![k] = id[j]]
  /\ UNCHANGED issued

Forget(k) ==
  /\ id[k] # None
  /\ id' = [id EXCEPT ![k] = None]
  /\ UNCHANGED issued

\* Another daemon process starts numbering at 0.
Reset == id' = [k \in TaskKeys |-> None] /\ issued' = 0

IdentityNext ==
  \/ \E k \in TaskKeys : Admit(k) \/ Forget(k)
  \/ \E j, k \in TaskKeys : Move(j, k)
  \/ Reset

IdentitySpec == IdentityInit /\ [][IdentityNext]_<<id, issued>>
=============================================================================
