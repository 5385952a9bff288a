-------------------------- MODULE StandaloneApplier --------------------------
(***************************************************************************)
(* Recreating a standalone container (internal/job/standalone.go over      *)
(* internal/docker/recreate.go and lifecycle.go).  There is no compose     *)
(* file to fall back on: the handler stops the container, renames it       *)
(* aside, creates its successor under the freed name, and undoes all of    *)
(* that when a step fails.  Every Docker call is one step here, may be     *)
(* refused by the daemon, and the process may die after any of them; the   *)
(* engine then runs the same job again from its start.                     *)
(*                                                                         *)
(* Update rows are module UpdateLifecycle's; here a job simply finds an    *)
(* applicable update or does not.                                          *)
(***************************************************************************)
EXTENDS Naturals, FiniteSets

CONSTANTS
  MaxJobs,         \* bound: jobs for the service
  MaxFaults,       \* bound: Docker calls the daemon refuses
  MaxSoloCrashes   \* bound: crashes of the process

ASSUME StandaloneAssumption ==
  MaxJobs \in Nat /\ MaxFaults \in Nat /\ MaxSoloCrashes \in Nat

\* Every run of a job creates at most one container.
Ids == 1..(1 + MaxJobs + MaxSoloCrashes)
NoId == 0

VARIABLES
  box,        \* the containers: name, state and image by id
  nextBox,    \* the id the next container gets
  svc,        \* the service row: container id and digest
  snap,       \* the image of the newest snapshot, "none" without one
  pending,    \* jobs in the queue, by type
  soloJob,    \* the handler that runs
  seen,       \* what a reconcile pass has collected, NoSight when idle
  botched,    \* a clean-up call was refused, a create half succeeded, or a
              \* rollback set out from a container id that was gone (history)
  good,       \* containers that were healthy: the first, and what passed a gate (history)
  torn,       \* a recreate was cut off by a crash and not redone yet (history)
  soloSpent   \* what is used of each bound

vars == <<box, nextBox, svc, snap, pending, soloJob, seen, botched, good, torn, soloSpent>>
dockerVars == <<box, nextBox>>
historyVars == <<botched, good, torn>>

Names == {"main", "aside"}        \* <name> and <name>-dockbrr-old
Images == {"prev", "target"}
Kinds == {"apply", "rollback"}
Gone == [name |-> "none", state |-> "none", img |-> "none"]
Boxes == [name : Names, state : {"running", "stopped"}, img : Images] \union {Gone}
Steps == {"idle", "check", "snapshot", "pull", "clearAside", "clearMain", "stop",
          "rename", "create", "start", "health", "dispose", "back", "revive",
          "drop", "runtime"}
\* cur, from: the container and digest the job loaded; new: the id recreate
\* knows of; img: the image to run; done: how the last job ended.
NoJob == [at |-> "idle", kind |-> "apply", cur |-> NoId, from |-> "none", new |-> NoId,
          img |-> "none", done |-> "none"]
NoSight == [id |-> NoId, img |-> "none"]

Init ==
  /\ box = [i \in Ids |-> IF i = 1 THEN [name |-> "main", state |-> "running", img |-> "prev"]
                          ELSE Gone]
  /\ nextBox = 2
  /\ svc = [id |-> 1, img |-> "prev"]
  /\ snap = "none"
  /\ pending = [k \in Kinds |-> 0]
  /\ soloJob = NoJob
  /\ seen = NoSight
  /\ botched = FALSE /\ good = {1} /\ torn = FALSE
  /\ soloSpent = [jobs |-> 0, faults |-> 0, crashes |-> 0]

-----------------------------------------------------------------------------
(* Docker, as the handler uses it.                                         *)

Exists(i) == i \in Ids /\ box[i] # Gone
Holder(n) == IF \E i \in Ids : box[i].name = n
             THEN CHOOSE i \in Ids : box[i].name = n ELSE NoId

SoloSpend(what, max) ==
  /\ soloSpent[what] < max
  /\ soloSpent' = [soloSpent EXCEPT ![what] = @ + 1]

\* The daemon refuses a call.
Fault == SoloSpend("faults", MaxFaults)
NoFault == UNCHANGED soloSpent

\* Rename refuses a name that is taken, by the container itself too.
CanRename(i, n) == Exists(i) /\ Holder(n) = NoId
\* Remove without force refuses a running container.
CanRemove(i) == Exists(i) /\ box[i].state = "stopped"

Stopped(i) == [box EXCEPT ![i].state = "stopped"]

-----------------------------------------------------------------------------
(* The rest of the process.                                                *)

Request(k) ==
  /\ SoloSpend("jobs", MaxJobs)
  /\ pending' = [pending EXCEPT ![k] = @ + 1]
  /\ UNCHANGED <<dockerVars, svc, snap, soloJob, seen, historyVars>>

\* The reconcile loop writes what it collected earlier; without a container of
\* that name the service is marked gone and its id and digest stay.
SoloCollect ==
  /\ seen = NoSight
  /\ Holder("main") # NoId
  /\ seen' = [id |-> Holder("main"), img |-> box[Holder("main")].img]
  /\ UNCHANGED <<dockerVars, svc, snap, pending, soloJob, historyVars, soloSpent>>

SoloWrite ==
  /\ seen # NoSight
  /\ svc' = seen
  /\ seen' = NoSight
  /\ UNCHANGED <<dockerVars, snap, pending, soloJob, historyVars, soloSpent>>

\* Between the first Docker call of recreate and the last of the job.
Recreating == soloJob.at \in {"clearMain", "stop", "rename", "create", "start", "health",
                          "dispose", "back", "revive"}

\* The process dies; ResumeRunning queues the job again.
Crash ==
  /\ SoloSpend("crashes", MaxSoloCrashes)
  /\ pending' = IF soloJob.at = "idle" THEN pending ELSE [pending EXCEPT ![soloJob.kind] = @ + 1]
  /\ torn' = (torn \/ Recreating)
  /\ soloJob' = NoJob
  /\ seen' = NoSight
  /\ UNCHANGED <<dockerVars, svc, snap, botched, good>>

-----------------------------------------------------------------------------
(* The handler.                                                            *)

soloUnchanged == <<svc, snap, pending, seen>>
Goto(s) == soloJob' = [soloJob EXCEPT !.at = s]
SoloQuit(outcome) ==
  soloJob' = [NoJob EXCEPT !.done = outcome, !.cur = soloJob.cur, !.kind = soloJob.kind]

\* runApply / runRollback load the service (and, for a rollback, the snapshot).
Load(k) ==
  /\ soloJob.at = "idle"
  /\ pending[k] > 0
  /\ pending' = [pending EXCEPT ![k] = @ - 1]
  /\ soloJob' = IF k = "rollback" /\ snap = "none" THEN [NoJob EXCEPT !.done = "refused"]
            ELSE [NoJob EXCEPT !.at = IF k = "apply" THEN "check" ELSE "pull",
                               !.kind = k, !.cur = svc.id, !.from = svc.img,
                               !.img = IF k = "apply" THEN "target" ELSE snap]
  /\ botched' = (botched \/ (k = "rollback" /\ ~Exists(svc.id)))
  /\ UNCHANGED <<dockerVars, svc, snap, seen, good, torn, soloSpent>>

\* runApply's prechecks: no open update, registry error, moved digest, or the
\* container cannot be inspected: the job fails and nothing was touched.
Check ==
  /\ soloJob.at = "check"
  /\ \/ SoloQuit("refused")
     \/ Exists(soloJob.cur) /\ Goto("snapshot")
  /\ UNCHANGED <<dockerVars, soloUnchanged, historyVars, soloSpent>>

\* Snapshot BEFORE any mutation; without one the job fails.
Snapshot ==
  /\ soloJob.at = "snapshot"
  /\ \/ SoloQuit("refused") /\ UNCHANGED snap
     \/ snap' = soloJob.from /\ Goto("pull")
  /\ UNCHANGED <<dockerVars, svc, pending, seen, historyVars, soloSpent>>

Pull ==
  /\ soloJob.at = "pull"
  /\ \/ Goto("clearAside") /\ NoFault
     \/ SoloQuit("refused") /\ Fault
  /\ UNCHANGED <<dockerVars, soloUnchanged, historyVars>>

\* Mutant: clearNameConflict removes whoever holds the name.
ClearBlind(name, here, next) ==
  /\ soloJob.at = here
  /\ Goto(next)
  /\ box' = IF Holder(name) = NoId THEN box ELSE [box EXCEPT ![Holder(name)] = Gone]
  /\ UNCHANGED <<nextBox, soloUnchanged, historyVars, soloSpent>>

\* clearNameConflict: stop and remove a leftover that holds the name, unless it
\* is the container of this job; errors are ignored.
Clear(name, here, next) ==
  LET i == Holder(name) IN
  /\ soloJob.at = here
  /\ Goto(next)
  /\ \/ i \in {NoId, soloJob.cur} /\ UNCHANGED <<box, botched, soloSpent>>
     \/ i \notin {NoId, soloJob.cur} /\ box' = [box EXCEPT ![i] = Gone]
        /\ UNCHANGED <<botched, soloSpent>>
     \/ i \notin {NoId, soloJob.cur} /\ Fault /\ box' \in {box, Stopped(i)} /\ botched' = TRUE
  /\ UNCHANGED <<nextBox, soloUnchanged, good, torn>>

StopOld ==
  /\ soloJob.at = "stop"
  /\ \/ Exists(soloJob.cur) /\ box' = Stopped(soloJob.cur) /\ Goto("rename") /\ NoFault
     \/ ~Exists(soloJob.cur) /\ Goto("dispose") /\ UNCHANGED box /\ NoFault
     \/ Fault /\ Goto("dispose") /\ UNCHANGED box
  /\ UNCHANGED <<nextBox, soloUnchanged, historyVars>>

RenameOld ==
  /\ soloJob.at = "rename"
  /\ \/ /\ CanRename(soloJob.cur, "aside") /\ NoFault
        /\ box' = [box EXCEPT ![soloJob.cur].name = "aside"] /\ Goto("create")
     \/ ~CanRename(soloJob.cur, "aside") /\ Goto("dispose") /\ UNCHANGED box /\ NoFault
     \/ Fault /\ Goto("dispose") /\ UNCHANGED box
  /\ UNCHANGED <<nextBox, soloUnchanged, historyVars>>

\* ContainerCreateFromInspect: create, then connect the other networks.  When
\* a connect is refused the container exists, and the caller is told "".
CreateNew ==
  /\ soloJob.at = "create"
  /\ LET made == [name |-> "main", state |-> "stopped", img |-> soloJob.img] IN
     \/ /\ Holder("main") = NoId /\ NoFault
        /\ box' = [box EXCEPT ![nextBox] = made]
        /\ nextBox' = nextBox + 1
        /\ soloJob' = [soloJob EXCEPT !.at = "start", !.new = nextBox]
        /\ UNCHANGED botched
     \/ /\ Holder("main") = NoId /\ Fault
        /\ box' = [box EXCEPT ![nextBox] = made]
        /\ nextBox' = nextBox + 1
        /\ Goto("dispose")
        /\ botched' = TRUE
     \/ /\ Holder("main") # NoId /\ NoFault
        /\ Goto("dispose") /\ UNCHANGED <<dockerVars, botched>>
     \/ /\ Fault
        /\ Goto("dispose") /\ UNCHANGED <<dockerVars, botched>>
  /\ UNCHANGED <<soloUnchanged, good, torn>>

StartNew ==
  /\ soloJob.at = "start"
  /\ \/ box' = [box EXCEPT ![soloJob.new].state = "running"] /\ Goto("health") /\ NoFault
     \/ Fault /\ Goto("dispose") /\ UNCHANGED box
  /\ UNCHANGED <<nextBox, soloUnchanged, historyVars>>

\* healthGate on the new id; an unhealthy container may have exited.
Health ==
  /\ soloJob.at = "health"
  /\ \/ Goto("drop") /\ good' = good \union {soloJob.new} /\ UNCHANGED box
     \/ Goto("dispose") /\ box' \in {box, Stopped(soloJob.new)} /\ UNCHANGED good
  /\ UNCHANGED <<nextBox, soloUnchanged, botched, torn, soloSpent>>

\* Mutant: restoreOld leaves the new container where it is.
DisposeNothing ==
  /\ soloJob.at = "dispose"
  /\ Goto("back")
  /\ UNCHANGED <<dockerVars, soloUnchanged, historyVars, soloSpent>>

\* restoreOld, first half: stop and remove the new container it was told of.
DisposeNew ==
  /\ soloJob.at = "dispose"
  /\ Goto("back")
  /\ \/ soloJob.new = NoId /\ UNCHANGED <<box, botched, soloSpent>>
     \/ soloJob.new # NoId /\ box' = [box EXCEPT ![soloJob.new] = Gone]
        /\ UNCHANGED <<botched, soloSpent>>
     \/ soloJob.new # NoId /\ Fault /\ box' \in {box, Stopped(soloJob.new)} /\ botched' = TRUE
  /\ UNCHANGED <<nextBox, soloUnchanged, good, torn>>

\* Mutant: the old container is started again under its aside name.
RenameBackForgotten ==
  /\ soloJob.at = "back"
  /\ Goto("revive")
  /\ UNCHANGED <<dockerVars, soloUnchanged, historyVars, soloSpent>>

\* restoreOld: rename the old container back (refused when it never lost its
\* name, or when the name is taken) ...
RenameBack ==
  /\ soloJob.at = "back"
  /\ Goto("revive")
  /\ \/ CanRename(soloJob.cur, "main") /\ box' = [box EXCEPT ![soloJob.cur].name = "main"]
        /\ UNCHANGED <<botched, soloSpent>>
     \/ ~CanRename(soloJob.cur, "main") /\ UNCHANGED <<box, botched, soloSpent>>
     \/ Fault /\ botched' = TRUE /\ UNCHANGED box
  /\ UNCHANGED <<nextBox, soloUnchanged, good, torn>>

\* ... and start it; the job has failed.
Revive ==
  /\ soloJob.at = "revive"
  /\ SoloQuit("failed")
  /\ torn' = FALSE
  /\ \/ Exists(soloJob.cur) /\ box' = [box EXCEPT ![soloJob.cur].state = "running"]
        /\ UNCHANGED <<botched, soloSpent>>
     \/ ~Exists(soloJob.cur) /\ UNCHANGED <<box, botched, soloSpent>>
     \/ Fault /\ botched' = TRUE /\ UNCHANGED box
  /\ UNCHANGED <<nextBox, soloUnchanged, good>>

\* Success: the old container goes (a refusal is only logged) ...
DropOld ==
  /\ soloJob.at = "drop"
  /\ Goto("runtime")
  /\ \/ CanRemove(soloJob.cur) /\ box' = [box EXCEPT ![soloJob.cur] = Gone] /\ NoFault
     \/ ~CanRemove(soloJob.cur) /\ UNCHANGED box /\ NoFault
     \/ Fault /\ UNCHANGED box
  /\ UNCHANGED <<nextBox, soloUnchanged, historyVars>>

\* ... and UpdateRuntime records its successor (an error is only logged).
Runtime ==
  /\ soloJob.at = "runtime"
  /\ \/ svc' = [id |-> soloJob.new, img |-> soloJob.img] /\ NoFault
     \/ Fault /\ UNCHANGED svc
  /\ torn' = FALSE
  /\ SoloQuit("success")
  /\ UNCHANGED <<dockerVars, snap, pending, seen, botched, good>>

HandlerStep ==
  \/ \E k \in Kinds : Load(k)
  \/ Check \/ Snapshot \/ Pull
  \/ Clear("aside", "clearAside", "clearMain")
  \/ Clear("main", "clearMain", "stop")
  \/ StopOld \/ RenameOld \/ CreateNew \/ StartNew \/ Health
  \/ DisposeNew \/ RenameBack \/ Revive
  \/ DropOld \/ Runtime

Next ==
  \/ \E k \in Kinds : Request(k)
  \/ SoloCollect
  \/ SoloWrite
  \/ Crash
  \/ HandlerStep

Spec == Init /\ [][Next]_vars

-----------------------------------------------------------------------------
(* Properties.                                                             *)

TypeOK ==
  /\ box \in [Ids -> Boxes]
  /\ nextBox \in Nat
  /\ svc.id \in Ids /\ svc.img \in Images
  /\ snap \in Images \union {"none"}
  /\ pending \in [Kinds -> Nat]
  /\ soloJob.at \in Steps /\ soloJob.kind \in Kinds
  /\ {soloJob.cur, soloJob.new} \subseteq Ids \union {NoId}
  /\ seen \in {NoSight} \union [id : Ids, img : Images]
  /\ botched \in BOOLEAN /\ torn \in BOOLEAN

Running(i) == Exists(i) /\ box[i].state = "running"

\* Between jobs a container runs under the service's name, although any call of
\* the last job but a clean-up one may have been refused.  Excepted are four
\* things the code does not recover from: a refused clean-up call; a create
\* that half succeeded; a rollback whose service row held the id of a container
\* that is gone (it clears the serving one away and then has nothing to
\* recreate from; no refused call and no crash is needed, only a reconcile pass
\* that writes late, see OnlyLeftoversCleared); and a crash that cut a recreate
\* off until a later job redoes it.
ServedUnderItsName ==
  soloJob.at = "idle" /\ ~botched /\ ~torn => Running(Holder("main"))

\* A failed apply or rollback leaves the very container it found, under its
\* name and running ("the current container is restored in place"), whatever a
\* crash left before it, unless a clean-up call was refused, a create half
\* succeeded or a rollback set out from a container id that was gone.
FailedJobKeepsContainer ==
  soloJob.done = "failed" /\ soloJob.at = "idle" /\ ~botched
    => Holder("main") = soloJob.cur /\ Running(soloJob.cur)

\* A container that was once healthy still exists, unless a clean-up call was
\* refused, a create half succeeded, a rollback started from an id that was
\* gone, or a crash cut a job off (the resumed job may take the unproven
\* successor for its own and clear the healthy one away as a leftover).
LastGoodKept ==
  ~botched /\ soloSpent.crashes = 0 => \E i \in good : Exists(i)

\* "only a genuinely stale container from a prior interrupted attempt is ever
\* removed" (standalone.go, clearNameConflict): what it removes is never the
\* container that serves.
OnlyLeftoversCleared ==
  [][soloJob.at \in {"clearAside", "clearMain"} =>
       \A i \in good : Running(i) => box'[i] # Gone]_vars
=============================================================================
