---------------------------- MODULE ProjectQueue ----------------------------
(***************************************************************************)
(* What the job engine promises its clients, without workers, locks or     *)
(* rows: a submitted job waits, runs alone in its project, and is over     *)
(* once and for all.  A run may be interrupted (a stop of the process, a   *)
(* result that could not be written); the job then waits to run again.     *)
(* JobEngine is shown to implement this.                                   *)
(***************************************************************************)
CONSTANTS
  Jobs,     \* job identities
  Projects  \* what jobs are serialized by

VARIABLES
  st,       \* "none", "waiting", "active" or "over"
  project   \* the project of each job

qvars == <<st, project>>

Active == {j \in Jobs : st[j] = "active"}

Init ==
  /\ st = [j \in Jobs |-> "none"]
  /\ project \in [Jobs -> Projects]

Submit(j) ==
  /\ st[j] = "none"
  /\ st' = [st EXCEPT ![j] = "waiting"]
  /\ UNCHANGED project

\* A job starts only while no job of its project is active.
Start(j) ==
  /\ st[j] = "waiting"
  /\ \A i \in Active : project[i] # project[j]
  /\ st' = [st EXCEPT ![j] = "active"]
  /\ UNCHANGED project

\* A job ends its run: over, or back to waiting when the result was not kept.
End(j) ==
  /\ st[j] = "active"
  /\ \E s \in {"over", "waiting"} : st' = [st EXCEPT ![j] = s]
  /\ UNCHANGED project

\* The process stops: nothing stays active, nothing else changes.
Interrupt ==
  /\ \E over \in SUBSET Active :
       st' = [j \in Jobs |-> IF j \in over THEN "over"
                             ELSE IF j \in Active THEN "waiting" ELSE st[j]]
  /\ UNCHANGED project

Next ==
  \/ \E j \in Jobs : Submit(j) \/ Start(j) \/ End(j)
  \/ Interrupt

Spec == Init /\ [][Next]_qvars
=============================================================================
