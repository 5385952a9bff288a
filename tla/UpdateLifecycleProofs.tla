------------------------- MODULE UpdateLifecycleProofs -------------------------
(***************************************************************************)
(* Proofs about UpdateLifecycle, for any set of images and any number of   *)
(* moves, requests, crashes and queued jobs.                               *)
(*                                                                         *)
(* A job writes at its end what it decided at its start.  LedgerInv says   *)
(* what is still true, at each step of the handler, of the row, the        *)
(* snapshot and the image it decided on, although the scanner, the         *)
(* reconcile loop and the user have gone on meanwhile.                     *)
(***************************************************************************)
EXTENDS UpdateLifecycle, FiniteSetTheorems, WellFoundedInduction, TLAPS

Maybe == Digests \union {None}

JobShape ==
  job \in [at : JobSteps, origin : Origins, svc : Maybe, upd : Maybe, img : Maybe, found : Maybe,
           quiet : BOOLEAN]

LedgerShape ==
  /\ remote \in Digests /\ running \in Digests /\ digest \in Digests /\ undoTo \in Maybe
  /\ row \in [Digests -> RowStatus]
  /\ recon \in Maybe
  /\ spent \in [{"moves", "clicks", "crashes"} -> Nat]

\* A job works on images, and an apply on a row that is not rolled back: a row
\* it has picked was open, and only another job of the project could mark it.
\* A rollback has no precheck, no snapshot and no health gate.
PickedNotReverted ==
  /\ job.at # "idle" => job.svc \in Digests /\ job.upd \in Digests
  /\ job.at # "idle" /\ job.origin # "rollback" => row[job.upd] # "rolled_back"
  /\ job.at = "up" => job.img \in Digests
  /\ job.at \in {"health", "runtime"} => job.found \in Digests
  /\ job.at \in {"resolve", "snapshot", "health"} => job.origin # "rollback"

\* From the pull on, the newest snapshot is the one the apply took.
SnapshotTaken ==
  job.origin # "rollback" /\ job.at \in {"pull", "up"} => undoTo = job.svc

\* While nobody else has moved the tag or the container, the apply's target is
\* what the tag serves, then what was pulled, then what runs.
OnTarget ==
  job.origin # "rollback" /\ job.quiet =>
    /\ job.at \in {"snapshot", "pull"} => remote = job.upd
    /\ job.at = "up" => job.img = job.upd
    /\ job.at \in {"locate", "health", "runtime", "mark"} => running = job.upd

LedgerInv == JobShape /\ LedgerShape /\ PickedNotReverted /\ SnapshotTaken /\ OnTarget

\* A job that is not there.
LEMMA NoJobInv ==
  ASSUME job' = NoHandler, LedgerShape'
  PROVE  LedgerInv'
<1>1. JobShape' /\ job'.at = "idle" BY DEF JobShape, NoHandler, Maybe, JobSteps, Origins
<1> QED BY <1>1 DEF LedgerInv, PickedNotReverted, SnapshotTaken, OnTarget

-----------------------------------------------------------------------------
(* The statements of store.Updates keep the rows in shape, and lift no     *)
(* mark of a rollback or a dismissal that the user did not ask to lift.    *)

Spared == \A d \in Digests : row[d] \in {"rolled_back", "dismissed"} => row'[d] = row[d]

\* A row becomes rolled back, or applied, in the marks of jobs only.
Unmarked == \A d \in Digests : row'[d] \in {"rolled_back", "applied"} => row'[d] = row[d]

\* RecordDrift leaves the rows of users' decisions alone.
LEMMA DriftRows ==
  ASSUME LedgerShape, NEW t, RecordDrift(t)
  PROVE  row' \in [Digests -> RowStatus] /\ Spared /\ Unmarked
BY DEF LedgerShape, RecordDrift, Reopened, RowStatus, Visible, Spared, Unmarked

\* Superseding spares them too.
LEMMA SupersedeRows ==
  ASSUME LedgerShape, SupersedeAllOpen
  PROVE  row' \in [Digests -> RowStatus] /\ Spared /\ Unmarked
BY DEF LedgerShape, SupersedeAllOpen, RowStatus, Visible, Spared, Unmarked

\* So does the baseline upsert.
LEMMA BaselineRows ==
  ASSUME LedgerShape, NEW v, EnsureBaseline(v)
  PROVE  row' \in [Digests -> RowStatus] /\ Spared /\ Unmarked
<1> DEFINE stale == {d \in Digests : row[d] = "current" /\ d # v}
           insert == ~(\E d \in Digests : row[d] \in Visible \union {"applied"}) /\ row[v] = "none"
<1>1. row' = [d \in Digests |-> IF d \in stale THEN "none"
                                ELSE IF d = v /\ insert THEN "current" ELSE row[d]]
  BY DEF EnsureBaseline
<1>2. insert => row[v] = "none" OBVIOUS
<1> HIDE DEF insert
<1> QED BY <1>1, <1>2 DEF LedgerShape, RowStatus, Visible, Spared, Unmarked

\* The scanner's steps are these statements or none.
LEMMA ScanRows ==
  ASSUME LedgerInv, ScanTick \/ ScanStep
  PROVE  /\ row' \in [Digests -> RowStatus] /\ Spared /\ Unmarked
         /\ UNCHANGED <<remote, running, digest, undoTo, job, recon, reverted, spent>>
<1> USE DEF LedgerInv
<1>1. CASE UNCHANGED row /\ UNCHANGED <<remote, running, digest, undoTo, job, recon, reverted, spent>>
  BY <1>1 DEF LedgerShape, Spared, Unmarked
<1>2. CASE ScanTick BY <1>1, <1>2 DEF ScanTick, envVars, updateRows
<1>3. CASE ScanResolve \/ ScanResolveFails
  BY <1>1, <1>3 DEF ScanResolve, ScanResolveFails, envVars, updateRows
<1>4. CASE ScanRecord BY <1>4, DriftRows, SupersedeRows DEF ScanRecord, envVars
<1>5. CASE ScanBaseline BY <1>5, BaselineRows DEF ScanBaseline, envVars
<1>6. ASSUME NEW c \in BOOLEAN, ScanEnd(c)
      PROVE  UNCHANGED row /\ UNCHANGED <<remote, running, digest, undoTo, job, recon, reverted, spent>>
  BY <1>6 DEF ScanEnd, envVars, updateRows
<1> QED BY <1>1, <1>2, <1>3, <1>4, <1>5, <1>6 DEF ScanStep

\* Writes to rows that mark nothing rolled back leave a running job as it was.
LEMMA RowsMove ==
  ASSUME LedgerInv, row' \in [Digests -> RowStatus],
         \A d \in Digests : row'[d] = "rolled_back" => row[d] = "rolled_back",
         UNCHANGED <<remote, running, digest, undoTo, job, recon>>,
         spent' \in [{"moves", "clicks", "crashes"} -> Nat]
  PROVE  LedgerInv'
<1> USE DEF LedgerInv
<1>1. JobShape' /\ LedgerShape' BY DEF JobShape, LedgerShape
<1>2. PickedNotReverted' BY DEF PickedNotReverted
<1>3. SnapshotTaken' /\ OnTarget' BY DEF SnapshotTaken, OnTarget
<1> QED BY <1>1, <1>2, <1>3

-----------------------------------------------------------------------------
(* The steps.                                                              *)

\* Counting against a bound keeps the counters' type.
LEMMA Spending ==
  ASSUME LedgerShape, NEW what \in {"moves", "clicks", "crashes"}, NEW max \in Nat, Spend(what, max)
  PROVE  spent' \in [{"moves", "clicks", "crashes"} -> Nat] /\ spent'[what] # spent[what]
BY DEF LedgerShape, Spend

\* Others move the tag or the container: a job that runs is not quiet any more.
LEMMA EnvInv == ASSUME LedgerInv, EnvStep PROVE LedgerInv'
<1> USE LifecycleAssumption DEF LedgerInv
<1>1. CASE RegistryPush \/ ExternalRecreate
  <2>1. /\ job' = [job EXCEPT !.quiet = job.at = "idle"]
        /\ UNCHANGED <<digest, row, undoTo, recon>> /\ remote' \in Digests /\ running' \in Digests
        /\ spent' \in [{"moves", "clicks", "crashes"} -> Nat]
    BY <1>1, Spending DEF RegistryPush, ExternalRecreate, updateRows, LedgerShape
  <2> DEFINE q == job.at = "idle"
  <2>2. q \in BOOLEAN /\ job' = [job EXCEPT !.quiet = q] BY <2>1
  <2>3. JobShape' BY <2>2 DEF JobShape
  <2>4. /\ job'.at = job.at /\ job'.origin = job.origin /\ job'.svc = job.svc /\ job'.upd = job.upd
        /\ job'.img = job.img /\ job'.found = job.found /\ (job'.quiet => job.at = "idle")
    BY <2>1 DEF JobShape
  <2>5. LedgerShape' BY <2>1 DEF LedgerShape
  <2>6. PickedNotReverted' BY <2>1, <2>4 DEF PickedNotReverted
  <2>7. SnapshotTaken' /\ OnTarget' BY <2>1, <2>4 DEF SnapshotTaken, OnTarget
  <2> QED BY <2>3, <2>5, <2>6, <2>7
<1>2. CASE LedgerCrash
  <2>1. LedgerShape' BY <1>2, Spending DEF LedgerCrash, LedgerShape, envVars, updateRows, Maybe
  <2> QED BY <1>2, <2>1, NoJobInv DEF LedgerCrash
<1> QED BY <1>1, <1>2 DEF EnvStep

\* The user's own writes.
LEMMA UserInv == ASSUME LedgerInv, UserStep PROVE LedgerInv' /\ ByUser
<1> USE LifecycleAssumption DEF LedgerInv
<1>1. /\ spent' \in [{"moves", "clicks", "crashes"} -> Nat] /\ ByUser
      /\ UNCHANGED <<remote, running, digest, undoTo, job, recon>>
  BY Spending DEF UserStep, UserApply, UserRollback, UserDismiss, UserRestore, UserCheck,
                  handlerUnchanged, envVars, ByUser
<1>2. /\ row' \in [Digests -> RowStatus]
      /\ \A d \in Digests : row'[d] = "rolled_back" => row[d] = "rolled_back"
  <2>1. CASE UNCHANGED row BY <2>1 DEF LedgerShape
  <2>2. CASE UserApply \/ UserRollback BY <2>1, <2>2 DEF UserApply, UserRollback, updateRows
  <2>3. CASE UserDismiss \/ UserRestore
    BY <2>3 DEF UserDismiss, UserRestore, SetStatus, LedgerShape, RowStatus, Visible
  <2>4. CASE UserCheck BY <2>4 DEF UserCheck, ReopenRolledBack, LedgerShape, RowStatus, Visible
  <2> QED BY <2>2, <2>3, <2>4 DEF UserStep
<1> QED BY <1>1, <1>2, RowsMove

\* A scan writes verdicts about what it read before its network call.
LEMMA ScanInv == ASSUME LedgerInv, ScanTick \/ ScanStep PROVE LedgerInv'
<1>1. /\ row' \in [Digests -> RowStatus] /\ Unmarked
      /\ UNCHANGED <<remote, running, digest, undoTo, job, recon, spent>>
  BY ScanRows
<1> QED BY <1>1, RowsMove DEF Unmarked, LedgerInv, LedgerShape

\* A pass writes the digest it collected.
LEMMA ReconcileInv == ASSUME LedgerInv, ReconcileStep PROVE LedgerInv'
<1> USE LifecycleAssumption DEF LedgerInv
<1>1. UNCHANGED <<remote, running, row, undoTo, job, spent>>
  BY DEF ReconcileStep, ReconcileCollect, ReconcileWrite, envVars, updateRows
<1>2. LedgerShape'
  BY <1>1 DEF ReconcileStep, ReconcileCollect, ReconcileWrite, LedgerShape, Maybe
<1>3. JobShape' /\ PickedNotReverted' /\ SnapshotTaken' /\ OnTarget'
  BY <1>1 DEF JobShape, PickedNotReverted, SnapshotTaken, OnTarget
<1> QED BY <1>2, <1>3

\* A job picks its row, which is open, or its rollback target.
LEMMA LoadInv == ASSUME LedgerInv, JobLoad PROVE LedgerInv'
<1> USE LifecycleAssumption DEF LedgerInv
<1>1. UNCHANGED <<remote, running, digest, row, undoTo, recon, spent>>
  BY DEF JobLoad, RollbackLoad, ApplyLoad, jobUnchanged, updateRows
<1>2. LedgerShape' BY <1>1 DEF LedgerShape
<1>3. CASE job' = NoHandler BY <1>2, <1>3, NoJobInv
<1>4. ASSUME NEW o \in Origins \ {"rollback"}, NEW d \in Digests, row[d] = "available",
             job' = [NoHandler EXCEPT !.at = "resolve", !.origin = o, !.svc = digest, !.upd = d]
      PROVE  LedgerInv'
  <2>1. JobShape' BY <1>4 DEF JobShape, LedgerShape, NoHandler, JobSteps, Maybe
  <2>2. job'.at = "resolve" /\ job'.origin = o /\ job'.svc = digest /\ job'.upd = d BY <1>4 DEF NoHandler
  <2>3. PickedNotReverted' BY <1>1, <1>4, <2>2 DEF PickedNotReverted, LedgerShape
  <2>4. SnapshotTaken' /\ OnTarget' BY <2>2 DEF SnapshotTaken, OnTarget
  <2> QED BY <1>2, <2>1, <2>3, <2>4
<1>5. CASE undoTo # None /\ job' = [NoHandler EXCEPT !.at = "pull", !.origin = "rollback", !.svc = digest, !.upd = undoTo]
  <2>1. undoTo \in Digests BY <1>5 DEF LedgerShape, Maybe
  <2>2. JobShape' BY <1>5, <2>1 DEF JobShape, LedgerShape, NoHandler, JobSteps, Origins, Maybe
  <2>3. job'.at = "pull" /\ job'.origin = "rollback" /\ job'.svc = digest /\ job'.upd = undoTo
    BY <1>5 DEF NoHandler
  <2>4. PickedNotReverted' BY <2>1, <2>3 DEF PickedNotReverted, LedgerShape
  <2>5. SnapshotTaken' /\ OnTarget' BY <2>3 DEF SnapshotTaken, OnTarget
  <2> QED BY <1>2, <2>2, <2>4, <2>5
<1> QED BY <1>3, <1>4, <1>5 DEF JobLoad, RollbackLoad, ApplyLoad, LatestOpen, Open

-----------------------------------------------------------------------------
(* The handler.                                                            *)

\* SetStatus and MarkRolledBack on the row of a job.
LEMMA MarkRows ==
  ASSUME LedgerInv, NEW d \in Digests, NEW w \in RowStatus, SetStatus(d, w) \/ MarkRolledBack(d)
  PROVE  /\ row' \in [Digests -> RowStatus]
         /\ \A e \in Digests \ {d} : row'[e] = row[e]
         /\ SetStatus(d, w) => row'[d] = w
         /\ MarkRolledBack(d) => row'[d] = IF row[d] = "applied" THEN "rolled_back" ELSE row[d]
<1> USE DEF LedgerInv, LedgerShape
<1>1. CASE SetStatus(d, w) BY <1>1 DEF SetStatus, MarkRolledBack
<1>2. CASE MarkRolledBack(d) BY <1>2 DEF SetStatus, MarkRolledBack, RowStatus, Visible
<1> QED BY <1>1, <1>2

\* The handler returns, with or without a mark on its row.
LEMMA QuitInv ==
  ASSUME LedgerInv, job.at # "idle", Quit, row' \in [Digests -> RowStatus],
         UNCHANGED <<remote, digest, undoTo, recon, spent>>, running' \in Digests
  PROVE  LedgerInv'
<1>1. LedgerShape' BY DEF LedgerInv, LedgerShape
<1> QED BY <1>1, NoJobInv DEF Quit

\* The image compose is about to bring up is one.
LEMMA StepFacts ==
  ASSUME LedgerInv, ApplyStep \/ RollbackStep
  PROVE  /\ job.at # "idle" /\ job.svc \in Digests /\ job.upd \in Digests
         /\ remote \in Digests /\ running \in Digests
         /\ UNCHANGED <<remote, recon, spent>>
BY DEF LedgerInv, LedgerShape, PickedNotReverted, ApplyStep, RollbackStep, ApplyPrecheck, ApplySnapshot,
       ApplyPull, ApplyUp, Locate, ApplyHealth, UpdateRuntime, ApplyMark, RollbackPull, RollbackUp,
       RollbackMark, jobUnchanged

\* The steps of an apply.
LEMMA ApplyInv == ASSUME LedgerInv, ApplyStep PROVE LedgerInv'
<1> USE LifecycleAssumption
<1>1. /\ job.at # "idle" /\ job.svc \in Digests /\ job.upd \in Digests
      /\ remote \in Digests /\ running \in Digests
      /\ UNCHANGED <<remote, recon, spent>>
  BY StepFacts
<1>2. {"failed", "superseded", "applied"} \subseteq RowStatus BY DEF RowStatus
<1>3. CASE ApplyPrecheck
  <2> USE <1>3 DEF ApplyPrecheck, updateRows
  <2>1. CASE Quit
    <3>1. row' \in [Digests -> RowStatus] BY <1>1, <1>2, <2>1, MarkRows DEF LedgerInv, LedgerShape
    <3> QED BY <1>1, <2>1, <3>1, QuitInv
  <2>2. CASE remote = job.upd /\ job' = [job EXCEPT !.at = "snapshot"] /\ UNCHANGED updateRows
    <3>1. JobShape' BY <2>2 DEF LedgerInv, JobShape, JobSteps
    <3>2. /\ job'.at = "snapshot" /\ job'.origin = job.origin /\ job'.svc = job.svc
          /\ job'.upd = job.upd /\ job.at = "resolve"
      BY <2>2 DEF LedgerInv, JobShape
    <3>3. LedgerShape' BY <1>1, <2>2 DEF LedgerInv, LedgerShape
    <3>4. PickedNotReverted' BY <2>2, <3>2 DEF LedgerInv, PickedNotReverted
    <3>5. SnapshotTaken' /\ OnTarget' BY <1>1, <2>2, <3>2 DEF SnapshotTaken, OnTarget
    <3> QED BY <3>1, <3>3, <3>4, <3>5 DEF LedgerInv
  <2> QED BY <2>1, <2>2
<1>4. CASE ApplySnapshot
  <2> USE <1>4 DEF ApplySnapshot, updateRows
  <2>1. CASE Quit /\ UNCHANGED undoTo BY <1>1, <2>1, QuitInv DEF LedgerInv, LedgerShape
  <2>2. CASE undoTo' = job.svc /\ job' = [job EXCEPT !.at = "pull"]
    <3>1. JobShape' BY <2>2 DEF LedgerInv, JobShape, JobSteps
    <3>2. /\ job'.at = "pull" /\ job'.origin = job.origin /\ job'.svc = job.svc
          /\ job'.upd = job.upd /\ job'.quiet = job.quiet /\ job.at = "snapshot"
      BY <2>2 DEF LedgerInv, JobShape
    <3>3. LedgerShape' BY <1>1, <2>2 DEF LedgerInv, LedgerShape, Maybe
    <3>4. PickedNotReverted' BY <3>2 DEF LedgerInv, PickedNotReverted
    <3>5. SnapshotTaken' /\ OnTarget' BY <1>1, <2>2, <3>2 DEF LedgerInv, SnapshotTaken, OnTarget
    <3> QED BY <3>1, <3>3, <3>4, <3>5 DEF LedgerInv
  <2> QED BY <2>1, <2>2
<1>5. CASE ApplyPull
  <2> USE <1>5 DEF ApplyPull, updateRows
  <2>1. CASE FailApply
    BY <1>1, <1>2, <2>1, MarkRows, QuitInv DEF FailApply
  <2>2. CASE job' = [job EXCEPT !.at = "up", !.img = remote] /\ UNCHANGED updateRows
    <3>1. JobShape' BY <1>1, <2>2 DEF LedgerInv, JobShape, JobSteps, Maybe
    <3>2. /\ job'.at = "up" /\ job'.origin = job.origin /\ job'.svc = job.svc /\ job'.img = remote
          /\ job'.upd = job.upd /\ job'.quiet = job.quiet /\ job.at = "pull"
      BY <2>2 DEF LedgerInv, JobShape
    <3>3. LedgerShape' BY <1>1, <2>2 DEF LedgerInv, LedgerShape
    <3>4. PickedNotReverted' BY <1>1, <2>2, <3>2 DEF LedgerInv, PickedNotReverted
    <3>5. SnapshotTaken' /\ OnTarget' BY <1>1, <3>2 DEF LedgerInv, SnapshotTaken, OnTarget
    <3> QED BY <3>1, <3>3, <3>4, <3>5 DEF LedgerInv
  <2> QED BY <2>1, <2>2
<1>6. CASE ApplyUp
  <2> USE <1>6 DEF ApplyUp, updateRows
  <2>0. job.img \in Digests BY DEF LedgerInv, PickedNotReverted
  <2>1. CASE FailApply /\ running' \in {running, job.img}
    BY <1>1, <1>2, <2>0, <2>1, MarkRows, QuitInv DEF FailApply
  <2>2. CASE running' = job.img /\ job' = [job EXCEPT !.at = "locate", !.img = None] /\ UNCHANGED updateRows
    <3>1. JobShape' BY <2>2 DEF LedgerInv, JobShape, JobSteps, Maybe
    <3>2. /\ job'.at = "locate" /\ job'.origin = job.origin /\ job'.svc = job.svc
          /\ job'.upd = job.upd /\ job'.quiet = job.quiet /\ job.at = "up"
      BY <2>2 DEF LedgerInv, JobShape
    <3>3. LedgerShape' BY <1>1, <2>0, <2>2 DEF LedgerInv, LedgerShape
    <3>4. PickedNotReverted' BY <2>2, <3>2 DEF LedgerInv, PickedNotReverted
    <3>5. SnapshotTaken' /\ OnTarget' BY <2>2, <3>2 DEF LedgerInv, SnapshotTaken, OnTarget
    <3> QED BY <3>1, <3>3, <3>4, <3>5 DEF LedgerInv
  <2> QED BY <2>1, <2>2
<1>7. CASE Locate
  <2> USE <1>7 DEF Locate, updateRows
  <2> DEFINE at == IF job.origin = "rollback" THEN "runtime" ELSE "health"
  <2>1. PICK f \in {running, job.upd} : job' = [job EXCEPT !.found = f, !.at = at] OBVIOUS
  <2>2. at \in {"runtime", "health"} /\ (at = "health" => job.origin # "rollback") OBVIOUS
  <2> HIDE DEF at
  <2>3. JobShape' BY <1>1, <2>1, <2>2 DEF LedgerInv, JobShape, JobSteps, Maybe
  <2>4. /\ job'.at = at /\ job'.origin = job.origin /\ job'.svc = job.svc /\ job'.found = f
        /\ job'.upd = job.upd /\ job'.quiet = job.quiet /\ job.at = "locate"
    BY <2>1 DEF LedgerInv, JobShape
  <2>5. LedgerShape' BY <1>1 DEF LedgerInv, LedgerShape
  <2>6. PickedNotReverted' BY <1>1, <2>2, <2>4 DEF LedgerInv, PickedNotReverted
  <2>7. SnapshotTaken' /\ OnTarget' BY <2>2, <2>4 DEF LedgerInv, SnapshotTaken, OnTarget
  <2> QED BY <2>3, <2>5, <2>6, <2>7 DEF LedgerInv
<1>8. CASE ApplyHealth
  <2> USE <1>8 DEF ApplyHealth, updateRows
  <2>1. CASE FailApply BY <1>1, <1>2, <2>1, MarkRows, QuitInv DEF FailApply
  <2>2. CASE job' = [job EXCEPT !.at = "runtime"] /\ UNCHANGED updateRows
    <3>1. JobShape' BY <2>2 DEF LedgerInv, JobShape, JobSteps
    <3>2. /\ job'.at = "runtime" /\ job'.origin = job.origin /\ job'.svc = job.svc
          /\ job'.found = job.found /\ job'.upd = job.upd /\ job'.quiet = job.quiet /\ job.at = "health"
      BY <2>2 DEF LedgerInv, JobShape
    <3>3. LedgerShape' BY <1>1, <2>2 DEF LedgerInv, LedgerShape
    <3>4. PickedNotReverted' BY <2>2, <3>2 DEF LedgerInv, PickedNotReverted
    <3>5. SnapshotTaken' /\ OnTarget' BY <3>2 DEF LedgerInv, SnapshotTaken, OnTarget
    <3> QED BY <3>1, <3>3, <3>4, <3>5 DEF LedgerInv
  <2> QED BY <2>1, <2>2
<1>9. CASE UpdateRuntime
  <2> USE <1>9 DEF UpdateRuntime, updateRows
  <2>1. JobShape' BY DEF LedgerInv, JobShape, JobSteps
  <2>2. /\ job'.at = "mark" /\ job'.origin = job.origin /\ job'.svc = job.svc
        /\ job'.upd = job.upd /\ job'.quiet = job.quiet /\ job.at = "runtime"
    BY DEF LedgerInv, JobShape
  <2>3. LedgerShape' BY <1>1 DEF LedgerInv, LedgerShape, PickedNotReverted
  <2>4. PickedNotReverted' BY <2>2 DEF LedgerInv, PickedNotReverted
  <2>5. SnapshotTaken' /\ OnTarget' BY <2>2 DEF LedgerInv, SnapshotTaken, OnTarget
  <2> QED BY <2>1, <2>3, <2>4, <2>5 DEF LedgerInv
<1>10. CASE ApplyMark
  BY <1>1, <1>2, <1>10, MarkRows, QuitInv DEF ApplyMark
<1> QED BY <1>3, <1>4, <1>5, <1>6, <1>7, <1>8, <1>9, <1>10 DEF ApplyStep

\* The steps of a rollback.
LEMMA RollbackInv == ASSUME LedgerInv, RollbackStep PROVE LedgerInv'
<1> USE LifecycleAssumption
<1>1. /\ job.at # "idle" /\ job.svc \in Digests /\ job.upd \in Digests
      /\ remote \in Digests /\ running \in Digests
      /\ UNCHANGED <<remote, recon, spent>>
  BY StepFacts
<1>2. CASE RollbackPull
  <2> USE <1>2 DEF RollbackPull, updateRows
  <2>1. CASE Quit BY <1>1, <2>1, QuitInv DEF LedgerInv, LedgerShape
  <2>2. CASE job' = [job EXCEPT !.at = "up", !.img = job.upd]
    <3>1. JobShape' BY <1>1, <2>2 DEF LedgerInv, JobShape, JobSteps, Maybe
    <3>2. /\ job'.at = "up" /\ job'.origin = "rollback" /\ job'.svc = job.svc /\ job'.img = job.upd
          /\ job'.upd = job.upd
      BY <2>2 DEF LedgerInv, JobShape
    <3>3. LedgerShape' BY <1>1 DEF LedgerInv, LedgerShape
    <3>4. PickedNotReverted' BY <1>1, <3>2 DEF PickedNotReverted
    <3>5. SnapshotTaken' /\ OnTarget' BY <3>2 DEF SnapshotTaken, OnTarget
    <3> QED BY <3>1, <3>3, <3>4, <3>5 DEF LedgerInv
  <2> QED BY <2>1, <2>2
<1>3. CASE RollbackUp
  <2> USE <1>3 DEF RollbackUp, updateRows
  <2>0. job.img \in Digests BY DEF LedgerInv, PickedNotReverted
  <2>1. CASE Quit /\ running' \in {running, job.img}
    BY <1>1, <2>0, <2>1, QuitInv DEF LedgerInv, LedgerShape
  <2>2. CASE running' = job.img /\ job' = [job EXCEPT !.at = "locate", !.img = running]
    <3>1. JobShape' BY <1>1, <2>2 DEF LedgerInv, JobShape, JobSteps, Maybe
    <3>2. /\ job'.at = "locate" /\ job'.origin = "rollback" /\ job'.svc = job.svc /\ job'.upd = job.upd
      BY <2>2 DEF LedgerInv, JobShape
    <3>3. LedgerShape' BY <1>1, <2>0, <2>2 DEF LedgerInv, LedgerShape
    <3>4. PickedNotReverted' BY <1>1, <3>2 DEF PickedNotReverted
    <3>5. SnapshotTaken' /\ OnTarget' BY <3>2 DEF SnapshotTaken, OnTarget
    <3> QED BY <3>1, <3>3, <3>4, <3>5 DEF LedgerInv
  <2> QED BY <2>1, <2>2
<1>4. CASE RollbackMark
  <2>1. row' \in [Digests -> RowStatus] BY <1>1, <1>4, MarkRows DEF RollbackMark, RowStatus
  <2> QED BY <1>1, <1>4, <2>1, QuitInv DEF RollbackMark
<1> QED BY <1>2, <1>3, <1>4 DEF RollbackStep

-----------------------------------------------------------------------------
(* The theorems.                                                           *)

\* Every initial state satisfies the inductive invariant.
LEMMA LedgerInitInv == LedgerInit => LedgerInv
<1> SUFFICES ASSUME LedgerInit PROVE LedgerInv OBVIOUS
<1> USE LifecycleAssumption DEF LedgerInit
<1>1. JobShape /\ job.at = "idle" BY DEF JobShape, NoHandler, Maybe, JobSteps, Origins
<1>2. LedgerShape BY DEF LedgerShape, Maybe, RowStatus
<1> QED BY <1>1, <1>2 DEF LedgerInv, PickedNotReverted, SnapshotTaken, OnTarget

\* Every reachable state has the inductive invariant, whatever the four actors
\* do between the steps of a job.
THEOREM LedgerInvariant == LedgerSpec => []LedgerInv
<1>1. LedgerInv /\ [LedgerNext]_ledgerVars => LedgerInv'
  <2> SUFFICES ASSUME LedgerInv, [LedgerNext]_ledgerVars PROVE LedgerInv' OBVIOUS
  <2>1. CASE UNCHANGED ledgerVars
    BY <2>1 DEF ledgerVars, LedgerInv, JobShape, LedgerShape, PickedNotReverted, SnapshotTaken, OnTarget
  <2>2. CASE EnvStep BY <2>2, EnvInv
  <2>3. CASE UserStep BY <2>3, UserInv
  <2>4. CASE ScanTick \/ ScanStep BY <2>4, ScanInv
  <2>5. CASE ReconcileStep BY <2>5, ReconcileInv
  <2>6. CASE JobLoad BY <2>6, LoadInv
  <2>7. CASE ApplyStep BY <2>7, ApplyInv
  <2>8. CASE RollbackStep BY <2>8, RollbackInv
  <2> QED BY <2>1, <2>2, <2>3, <2>4, <2>5, <2>6, <2>7, <2>8 DEF LedgerNext
<1> QED BY <1>1, LedgerInitInv, PTL DEF LedgerSpec

\* Which steps write rows at all: the user's, the scanner's, and the marks of
\* the job on the row it works on.
LEMMA WhoWritesRows ==
  ASSUME LedgerInv, [LedgerNext]_ledgerVars
  PROVE  \/ UNCHANGED row
         \/ UserStep /\ ByUser
         \/ Spared /\ Unmarked
         \/ /\ job.at # "idle" /\ job.origin # "rollback" /\ job.upd \in Digests
            /\ \E w \in {"failed", "superseded"} : row' = [row EXCEPT ![job.upd] = w]
         \/ /\ job.at = "mark" /\ job.origin # "rollback" /\ job.upd \in Digests
            /\ row' = [row EXCEPT ![job.upd] = "applied"]
         \/ row' = [row EXCEPT ![job.svc] = IF @ = "applied" THEN "rolled_back" ELSE @]
<1>1. CASE UNCHANGED ledgerVars BY <1>1 DEF ledgerVars
<1>2. CASE EnvStep BY <1>2 DEF EnvStep, RegistryPush, ExternalRecreate, LedgerCrash, updateRows
<1>3. CASE UserStep BY <1>3, UserInv
<1>4. CASE ScanTick \/ ScanStep BY <1>4, ScanRows
<1>5. CASE ReconcileStep BY <1>5 DEF ReconcileStep, ReconcileCollect, ReconcileWrite, updateRows
<1>6. CASE JobLoad BY <1>6 DEF JobLoad, RollbackLoad, ApplyLoad, updateRows
<1>7. CASE ApplyStep
  <2>1. job.at # "idle" /\ job.upd \in Digests BY <1>7, StepFacts
  <2>2. CASE ApplyPrecheck
    <3>1. job.origin # "rollback" BY <2>2 DEF ApplyPrecheck, LedgerInv, PickedNotReverted
    <3> QED BY <2>1, <2>2, <3>1 DEF ApplyPrecheck, updateRows, SetStatus
  <2>3. CASE ApplySnapshot \/ Locate \/ UpdateRuntime
    BY <2>3 DEF ApplySnapshot, Locate, UpdateRuntime, updateRows
  <2>4. CASE ApplyPull \/ ApplyUp BY <2>1, <2>4 DEF ApplyPull, ApplyUp, FailApply, SetStatus, updateRows
  <2>5. CASE ApplyHealth
    <3>1. job.origin # "rollback" BY <2>5 DEF ApplyHealth, LedgerInv, PickedNotReverted
    <3> QED BY <2>1, <2>5, <3>1 DEF ApplyHealth, FailApply, SetStatus, updateRows
  <2>6. CASE ApplyMark BY <2>1, <2>6 DEF ApplyMark, SetStatus
  <2> QED BY <1>7, <2>2, <2>3, <2>4, <2>5, <2>6 DEF ApplyStep
<1>8. CASE RollbackStep
  BY <1>8 DEF RollbackStep, RollbackPull, RollbackUp, RollbackMark, MarkRolledBack, updateRows
<1> QED BY <1>1, <1>2, <1>3, <1>4, <1>5, <1>6, <1>7, <1>8 DEF LedgerNext

\* No scan, pass, late mark or restart lifts the suppression a rollback left
\* (RecordDrift's CASE, MarkRolledBack, failApply, MarkApplied).
THEOREM SuppressionIsTheUsers == LedgerSpec => RolledBackStays
<1>1. LedgerInv /\ [LedgerNext]_ledgerVars =>
        [\A d \in Digests : row[d] = "rolled_back" /\ row'[d] # "rolled_back" => ByUser]_ledgerVars
  <2> SUFFICES ASSUME LedgerInv, [LedgerNext]_ledgerVars, NEW d \in Digests, row[d] = "rolled_back", ~ByUser
               PROVE  row'[d] = "rolled_back"
    OBVIOUS
  <2>1. job.at # "idle" /\ job.origin # "rollback" => d # job.upd
    BY DEF LedgerInv, PickedNotReverted
  <2>2. row \in [Digests -> RowStatus] BY DEF LedgerInv, LedgerShape
  <2> QED BY <2>1, <2>2, WhoWritesRows DEF Spared
<1> QED BY <1>1, LedgerInvariant, PTL DEF LedgerSpec, RolledBackStays

\* A dismissal stands until the user asks again, except against the outcome of
\* an apply that had picked the update before.
THEOREM DismissalStands == LedgerSpec => DismissedStays
<1>1. LedgerInv /\ [LedgerNext]_ledgerVars =>
        [\A d \in Digests : row[d] = "dismissed" /\ row'[d] # "dismissed" =>
           ByUser \/ (job.at # "idle" /\ job.origin # "rollback" /\ job.upd = d)]_ledgerVars
  <2> SUFFICES ASSUME LedgerInv, [LedgerNext]_ledgerVars, NEW d \in Digests, row[d] = "dismissed", ~ByUser,
                      ~(job.at # "idle" /\ job.origin # "rollback" /\ job.upd = d)
               PROVE  row'[d] = "dismissed"
    OBVIOUS
  <2>1. row \in [Digests -> RowStatus] BY DEF LedgerInv, LedgerShape
  <2> QED BY <2>1, WhoWritesRows DEF Spared
<1> QED BY <1>1, LedgerInvariant, PTL DEF LedgerSpec, DismissedStays

\* No apply reaches its up without a snapshot of what it took for the running
\* image (snapshot() before the first compose command of runApply).
THEOREM SnapshotPrecedesUp == LedgerSpec => SnapshotBeforeMutation
<1>1. LedgerInv /\ [LedgerNext]_ledgerVars =>
        [running' # running => \/ spent'.moves # spent.moves
                               \/ job.at = "up" /\ (job.origin = "rollback" \/ undoTo = job.svc)]_ledgerVars
  <2> SUFFICES ASSUME LedgerInv, [LedgerNext]_ledgerVars, running' # running
               PROVE  \/ spent'.moves # spent.moves
                      \/ job.at = "up" /\ (job.origin = "rollback" \/ undoTo = job.svc)
    OBVIOUS
  <2>1. ~UNCHANGED ledgerVars BY DEF ledgerVars
  <2>2. CASE EnvStep
    <3>1. ExternalRecreate
      BY <2>2 DEF EnvStep, RegistryPush, LedgerCrash, envVars
    <3> QED BY <3>1, Spending, LifecycleAssumption DEF ExternalRecreate, LedgerInv
  <2>3. CASE UserStep BY <2>3 DEF UserStep, UserApply, UserRollback, UserDismiss, UserRestore,
                                  UserCheck, handlerUnchanged, envVars
  <2>4. CASE ScanTick \/ ScanStep BY <2>4, ScanRows
  <2>5. CASE ReconcileStep BY <2>5 DEF ReconcileStep, ReconcileCollect, ReconcileWrite, envVars
  <2>6. CASE JobLoad BY <2>6 DEF JobLoad, RollbackLoad, ApplyLoad
  <2>7. CASE ApplyStep
    <3>1. ApplyUp BY <2>7 DEF ApplyStep, ApplyPrecheck, ApplySnapshot, ApplyPull, Locate, ApplyHealth,
                              UpdateRuntime, ApplyMark
    <3> QED BY <3>1 DEF ApplyUp, LedgerInv, SnapshotTaken
  <2>8. CASE RollbackStep BY <2>8 DEF RollbackStep, RollbackPull, RollbackUp, RollbackMark
  <2> QED BY <2>1, <2>2, <2>3, <2>4, <2>5, <2>6, <2>7, <2>8 DEF LedgerNext
<1> QED BY <1>1, LedgerInvariant, PTL DEF LedgerSpec, SnapshotBeforeMutation

\* Without interference, an update marked applied is what the container runs:
\* the precheck, the pull, the up and the mark agree on one image.
THEOREM AppliedMeansRunning == LedgerSpec => AppliedIsDelivered
<1>1. LedgerInv /\ [LedgerNext]_ledgerVars =>
        [\A d \in Digests : row[d] # "applied" /\ row'[d] = "applied" /\ job.quiet => running = d]_ledgerVars
  <2> SUFFICES ASSUME LedgerInv, [LedgerNext]_ledgerVars, NEW d \in Digests, row[d] # "applied",
                      row'[d] = "applied", job.quiet
               PROVE  running = d
    OBVIOUS
  <2>1. row \in [Digests -> RowStatus] BY DEF LedgerInv, LedgerShape
  <2>2. ~UserStep
    BY <2>1 DEF UserStep, UserApply, UserRollback, UserDismiss, UserRestore, UserCheck, updateRows,
                SetStatus, ReopenRolledBack
  <2>3. job.at = "mark" /\ job.origin # "rollback" /\ job.upd = d
    BY <2>1, <2>2, WhoWritesRows DEF Unmarked
  <2> QED BY <2>3 DEF LedgerInv, OnTarget
<1> QED BY <1>1, LedgerInvariant, PTL DEF LedgerSpec, AppliedIsDelivered
-----------------------------------------------------------------------------
(* The type invariant: besides LedgerInv, what a scan carries, how far the *)
(* queues grow, the order of the rows and the images rollbacks moved away  *)
(* from.                                                                   *)

ScanShape ==
  /\ scan \in [at : ScanSteps, manual : BOOLEAN, svc : Maybe, target : Maybe]
  /\ scan.at \in {"resolve", "record", "baseline"} => scan.svc \in Digests
  /\ scan.at = "record" => scan.target \in Digests

\* Requests stop at MaxQueued; each crash can put one running job back on top.
QueueBound ==
  /\ queued \in [Origins -> Nat]
  /\ \A o \in Origins : queued[o] <= MaxQueued + spent.crashes
  /\ spent.crashes <= MaxCrashes

\* Once a rollback is up, its img is what it replaced.
RevertedImages ==
  /\ reverted \subseteq Digests
  /\ job.origin = "rollback" /\ job.at \in {"locate", "runtime", "mark"} => job.img \in Digests

\* The row an apply works on is not deleted under it: DeleteStaleCurrent takes
\* baseline rows only, and a row that was offered never becomes one.
PickedKept ==
  job.at # "idle" /\ job.origin # "rollback" => row[job.upd] \notin {"none", "current"}

TypeInv == LedgerInv /\ ScanShape /\ QueueBound /\ OrderOK /\ RevertedImages /\ PickedKept

\* A scan that is not there.
LEMMA NoScanShape == ASSUME scan' = NoScan PROVE ScanShape'
BY DEF ScanShape, NoScan, ScanSteps, Maybe

\* The scanner's steps keep what it carries.
LEMMA ScanShapeStep == ASSUME TypeInv, ScanTick \/ UserCheck \/ ScanStep PROVE ScanShape'
<1> USE LifecycleAssumption DEF TypeInv
<1>0. digest \in Digests /\ remote \in Digests BY DEF LedgerInv, LedgerShape
<1>1. CASE ScanTick \/ UserCheck
  <2>1. PICK m \in BOOLEAN : scan' = [at |-> "resolve", manual |-> m, svc |-> digest, target |-> None]
    BY <1>1 DEF ScanTick, UserCheck, NoScan
  <2> QED BY <1>0, <2>1 DEF ScanShape, ScanSteps, Maybe
<1>2. CASE ScanResolve BY <1>0, <1>2 DEF ScanResolve, ScanShape, ScanSteps, Maybe
<1>3. CASE ScanResolveFails BY <1>3 DEF ScanResolveFails, ScanShape, ScanSteps
<1>4. CASE scan' = [scan EXCEPT !.at = "baseline"] /\ scan.at = "record"
  BY <1>4 DEF ScanShape, ScanSteps
<1>5. CASE scan' = [NoScan EXCEPT !.at = "gate", !.manual = scan.manual]
  <2>1. scan' = [at |-> "gate", manual |-> scan.manual, svc |-> None, target |-> None]
    BY <1>5 DEF NoScan
  <2> QED BY <2>1 DEF ScanShape, ScanSteps, Maybe
<1>6. CASE ScanRecord BY <1>4, <1>5, <1>6 DEF ScanRecord
<1>7. CASE ScanBaseline BY <1>5, <1>7 DEF ScanBaseline
<1>8. ASSUME NEW c \in BOOLEAN, ScanEnd(c) PROVE ScanShape' BY <1>8, NoScanShape DEF ScanEnd
<1> QED BY <1>1, <1>2, <1>3, <1>6, <1>7, <1>8 DEF ScanStep

\* Nobody else touches it, except that a crash forgets it.
LEMMA ScanShapeElse ==
  ASSUME TypeInv, [LedgerNext]_ledgerVars, ~(ScanTick \/ UserCheck \/ ScanStep)
  PROVE  ScanShape'
<1>1. CASE UNCHANGED scan BY <1>1 DEF TypeInv, ScanShape
<1>2. CASE LedgerCrash BY <1>2, NoScanShape DEF LedgerCrash
<1>3. CASE UNCHANGED ledgerVars \/ RegistryPush \/ ExternalRecreate BY <1>1, <1>3 DEF ledgerVars, RegistryPush, ExternalRecreate
<1>4. CASE UserStep
  BY <1>1, <1>4 DEF UserStep, UserApply, UserRollback, UserDismiss, UserRestore, handlerUnchanged
<1>5. CASE ReconcileStep BY <1>1, <1>5 DEF ReconcileStep, ReconcileCollect, ReconcileWrite
<1>6. CASE JobLoad BY <1>1, <1>6 DEF JobLoad, RollbackLoad, ApplyLoad, jobUnchanged
<1>7. CASE ApplyStep
  BY <1>1, <1>7 DEF ApplyStep, ApplyPrecheck, ApplySnapshot, ApplyPull, ApplyUp, Locate, ApplyHealth,
                    UpdateRuntime, ApplyMark, jobUnchanged
<1>8. CASE RollbackStep
  BY <1>1, <1>8 DEF RollbackStep, RollbackPull, RollbackUp, RollbackMark, jobUnchanged
<1> QED BY <1>2, <1>3, <1>4, <1>5, <1>6, <1>7, <1>8 DEF LedgerNext, EnvStep

\* A queue grows by a request below MaxQueued, or by one at a crash.
LEMMA QueueStep == ASSUME TypeInv, [LedgerNext]_ledgerVars PROVE QueueBound'
<1> USE LifecycleAssumption DEF TypeInv
<1>0. /\ spent \in [{"moves", "clicks", "crashes"} -> Nat] /\ job.origin \in Origins
      /\ spent.crashes \in Nat
  BY DEF LedgerInv, LedgerShape, JobShape
<1>1. CASE UNCHANGED queued /\ spent'.crashes = spent.crashes BY <1>1 DEF QueueBound
<1>2. ASSUME NEW o \in Origins, queued[o] < MaxQueued, queued' = [queued EXCEPT ![o] = @ + 1],
             spent'.crashes = spent.crashes
      PROVE  QueueBound'
  BY <1>0, <1>2 DEF QueueBound
<1>3. ASSUME NEW o \in Origins, queued[o] > 0, queued' = [queued EXCEPT ![o] = @ - 1],
             spent'.crashes = spent.crashes
      PROVE  QueueBound'
  BY <1>0, <1>3 DEF QueueBound
<1>4. CASE LedgerCrash
  <2>1. spent'.crashes = spent.crashes + 1 /\ spent.crashes < MaxCrashes BY <1>0, <1>4 DEF LedgerCrash, Spend
  <2>2. CASE queued' = queued BY <1>0, <2>1, <2>2 DEF QueueBound
  <2>3. CASE queued' = [queued EXCEPT ![job.origin] = @ + 1] BY <1>0, <2>1, <2>3 DEF QueueBound
  <2> QED BY <1>4, <2>2, <2>3 DEF LedgerCrash
<1>5. CASE RegistryPush \/ ExternalRecreate
  BY <1>0, <1>1, <1>5 DEF RegistryPush, ExternalRecreate, Spend
<1>6. CASE UserStep
  <2>1. spent'.crashes = spent.crashes
    BY <1>0, <1>6 DEF UserStep, UserApply, UserRollback, UserDismiss, UserRestore, UserCheck, Spend
  <2>2. CASE UserApply BY <1>2, <2>1, <2>2 DEF UserApply, Origins
  <2>3. CASE UserRollback BY <1>2, <2>1, <2>3 DEF UserRollback, Origins
  <2>4. CASE UserDismiss \/ UserRestore \/ UserCheck
    BY <1>1, <2>1, <2>4 DEF UserDismiss, UserRestore, UserCheck
  <2> QED BY <1>6, <2>2, <2>3, <2>4 DEF UserStep
<1>7. CASE ScanTick \/ ScanResolve \/ ScanResolveFails \/ ScanRecord \/ ScanBaseline
  BY <1>1, <1>7 DEF ScanTick, ScanResolve, ScanResolveFails, ScanRecord, ScanBaseline
<1>8. ASSUME NEW c \in BOOLEAN, ScanEnd(c) PROVE QueueBound'
  BY <1>1, <1>2, <1>8 DEF ScanEnd, Origins
<1>9. CASE ReconcileStep \/ UNCHANGED ledgerVars
  BY <1>1, <1>9 DEF ReconcileStep, ReconcileCollect, ReconcileWrite, ledgerVars
<1>10. CASE JobLoad
  <2>1. spent'.crashes = spent.crashes BY <1>10 DEF JobLoad, RollbackLoad, ApplyLoad, jobUnchanged
  <2>2. PICK o \in Origins : queued[o] > 0 /\ queued' = [queued EXCEPT ![o] = @ - 1]
    BY <1>10 DEF JobLoad, RollbackLoad, ApplyLoad, Origins
  <2> QED BY <1>3, <2>1, <2>2
<1>11. CASE ApplyStep
  BY <1>1, <1>11 DEF ApplyStep, ApplyPrecheck, ApplySnapshot, ApplyPull, ApplyUp, Locate, ApplyHealth,
                     UpdateRuntime, ApplyMark, jobUnchanged
<1>12. CASE RollbackStep
  BY <1>1, <1>12 DEF RollbackStep, RollbackPull, RollbackUp, RollbackMark, jobUnchanged
<1> QED BY <1>4, <1>5, <1>6, <1>7, <1>8, <1>9, <1>10, <1>11, <1>12 DEF LedgerNext, EnvStep, ScanStep

\* A rollback remembers what it replaced until it reports it.
LEMMA RevertedStep == ASSUME TypeInv, [LedgerNext]_ledgerVars PROVE RevertedImages'
<1> USE DEF TypeInv
<1>0. JobShape /\ running \in Digests BY DEF LedgerInv, LedgerShape
<1>1. CASE UNCHANGED job /\ reverted' \subseteq Digests BY <1>1 DEF RevertedImages
<1>2. CASE job'.at \in {"idle", "resolve", "snapshot", "pull", "up", "health"} /\ UNCHANGED reverted
  BY <1>2 DEF RevertedImages
<1>3. CASE /\ job'.img = job.img /\ job'.origin = job.origin /\ UNCHANGED reverted
           /\ job'.at = job.at \/ job.at \in {"locate", "runtime"} \/ job.origin # "rollback"
  BY <1>3 DEF RevertedImages
<1>4. CASE Quit /\ UNCHANGED reverted BY <1>2, <1>4 DEF Quit, NoHandler
<1>5. CASE RegistryPush \/ ExternalRecreate
  <2>1. job'.img = job.img /\ job'.origin = job.origin /\ job'.at = job.at
    BY <1>0, <1>5 DEF RegistryPush, ExternalRecreate, JobShape
  <2> QED BY <1>3, <1>5, <2>1 DEF RegistryPush, ExternalRecreate
<1>6. CASE LedgerCrash BY <1>4, <1>6 DEF LedgerCrash, Quit
<1>7. CASE UserStep
  BY <1>1, <1>7 DEF UserStep, UserApply, UserRollback, UserDismiss, UserRestore, UserCheck,
                    handlerUnchanged, RevertedImages
<1>8. CASE ScanTick \/ ScanStep BY <1>1, <1>8, ScanRows DEF RevertedImages
<1>9. CASE ReconcileStep \/ UNCHANGED ledgerVars
  BY <1>1, <1>9 DEF ReconcileStep, ReconcileCollect, ReconcileWrite, RevertedImages, ledgerVars
<1>10. CASE JobLoad
  <2>1. UNCHANGED reverted BY <1>10 DEF JobLoad, RollbackLoad, ApplyLoad
  <2>2. CASE job' = NoHandler BY <1>4, <2>1, <2>2 DEF Quit
  <2>3. ASSUME NEW o, NEW d, job' = [NoHandler EXCEPT !.at = "resolve", !.origin = o, !.svc = digest, !.upd = d]
        PROVE  RevertedImages'
    BY <1>2, <2>1, <2>3 DEF NoHandler
  <2>4. CASE job' = [NoHandler EXCEPT !.at = "pull", !.origin = "rollback", !.svc = digest, !.upd = undoTo]
    BY <1>2, <2>1, <2>4 DEF NoHandler
  <2> QED BY <1>10, <2>2, <2>3, <2>4 DEF JobLoad, RollbackLoad, ApplyLoad
<1>11. CASE ApplyStep
  <2>1. UNCHANGED reverted
    BY <1>11 DEF ApplyStep, ApplyPrecheck, ApplySnapshot, ApplyPull, ApplyUp, Locate, ApplyHealth,
                 UpdateRuntime, ApplyMark
  <2>2. CASE ApplyPrecheck \/ ApplySnapshot \/ ApplyPull
    BY <1>0, <1>2, <1>4, <2>1, <2>2 DEF ApplyPrecheck, ApplySnapshot, ApplyPull, FailApply, JobShape
  <2>3. CASE ApplyUp
    <3>1. CASE FailApply BY <1>4, <2>1, <3>1 DEF FailApply
    <3>2. CASE job' = [job EXCEPT !.at = "locate", !.img = None]
      <4>1. job'.origin # "rollback" BY <1>0, <2>3, <3>2 DEF ApplyUp, JobShape
      <4> QED BY <2>1, <4>1 DEF RevertedImages
    <3> QED BY <2>3, <3>1, <3>2 DEF ApplyUp
  <2>4. CASE Locate
    <3>1. job'.img = job.img /\ job'.origin = job.origin /\ job.at = "locate"
      BY <1>0, <2>4 DEF Locate, JobShape
    <3> QED BY <1>3, <2>1, <3>1
  <2>5. CASE ApplyHealth
    <3>1. CASE FailApply BY <1>4, <2>1, <3>1 DEF FailApply
    <3>2. CASE job' = [job EXCEPT !.at = "runtime"]
      <4>1. job'.img = job.img /\ job'.origin = job.origin /\ job.origin # "rollback"
        BY <1>0, <2>5, <3>2 DEF ApplyHealth, JobShape, LedgerInv, PickedNotReverted
      <4> QED BY <1>3, <2>1, <4>1
    <3> QED BY <2>5, <3>1, <3>2 DEF ApplyHealth
  <2>6. CASE UpdateRuntime
    <3>1. job'.img = job.img /\ job'.origin = job.origin /\ job.at = "runtime"
      BY <1>0, <2>6 DEF UpdateRuntime, JobShape
    <3> QED BY <1>3, <2>1, <3>1
  <2>7. CASE ApplyMark BY <1>4, <2>1, <2>7 DEF ApplyMark
  <2> QED BY <1>11, <2>2, <2>3, <2>4, <2>5, <2>6, <2>7 DEF ApplyStep
<1>12. CASE RollbackPull BY <1>0, <1>2, <1>4, <1>12 DEF RollbackPull, JobShape
<1>13. CASE RollbackUp
  <2>1. CASE job' = [job EXCEPT !.at = "locate", !.img = running]
    <3>1. job'.img \in Digests BY <1>0, <2>1 DEF JobShape
    <3> QED BY <1>13, <3>1 DEF RollbackUp, RevertedImages
  <2> QED BY <1>4, <1>13, <2>1 DEF RollbackUp
<1>14. CASE RollbackMark
  <2>1. job.img \in Digests BY <1>14 DEF RollbackMark, RevertedImages
  <2>2. job'.at = "idle" BY <1>14 DEF RollbackMark, Quit, NoHandler
  <2> QED BY <1>14, <2>1, <2>2 DEF RollbackMark, RevertedImages
<1> QED BY <1>5, <1>6, <1>7, <1>8, <1>9, <1>10, <1>11, <1>12, <1>13, <1>14 DEF LedgerNext, EnvStep, RollbackStep

\* A row that is there, and is no baseline, stays and becomes none.
Kept == \A d \in Digests : row'[d] \in {"none", "current"} => row[d] \in {"none", "current"}

\* A status written to a row that exists moves no row.
LEMMA SetKeeps ==
  ASSUME row \in [Digests -> RowStatus], NEW d \in Digests, NEW w, SetStatus(d, w),
         row[d] # "none", w \notin {"none", "current"}
  PROVE  UNCHANGED older /\ Rows' = Rows /\ Kept
BY DEF SetStatus, Rows, Kept

\* A step records a drift, writes the baseline, or moves no row.
LEMMA RowStatements ==
  ASSUME TypeInv, [LedgerNext]_ledgerVars
  PROVE  \/ UNCHANGED older /\ Rows' = Rows /\ Kept
         \/ \E t \in Digests : RecordDrift(t)
         \/ \E v \in Digests : EnsureBaseline(v)
<1> USE DEF TypeInv
<1>0. row \in [Digests -> RowStatus] BY DEF LedgerInv, LedgerShape
<1>1. UNCHANGED updateRows => UNCHANGED older /\ Rows' = Rows /\ Kept BY DEF updateRows, Rows, Kept
<1>2. CASE UNCHANGED ledgerVars BY <1>1, <1>2 DEF ledgerVars, updateRows
<1>3. CASE EnvStep BY <1>1, <1>3 DEF EnvStep, RegistryPush, ExternalRecreate, LedgerCrash
<1>4. CASE UserStep
  <2>1. CASE UserApply \/ UserRollback BY <1>1, <2>1 DEF UserApply, UserRollback
  <2>2. CASE UserDismiss \/ UserRestore BY <1>0, <2>2, SetKeeps DEF UserDismiss, UserRestore
  <2>3. CASE UserCheck BY <1>0, <2>3 DEF UserCheck, ReopenRolledBack, Rows, Kept
  <2> QED BY <1>4, <2>1, <2>2, <2>3 DEF UserStep
<1>5. CASE ScanTick \/ ScanResolve \/ ScanResolveFails
  BY <1>1, <1>5 DEF ScanTick, ScanResolve, ScanResolveFails
<1>6. CASE ScanRecord
  <2>1. scan.target \in Digests BY <1>6 DEF ScanRecord, ScanShape
  <2>2. SupersedeAllOpen => UNCHANGED older /\ Rows' = Rows /\ Kept
    BY <1>0 DEF SupersedeAllOpen, Rows, Kept
  <2> QED BY <1>6, <2>1, <2>2 DEF ScanRecord
<1>7. CASE ScanBaseline BY <1>7 DEF ScanBaseline, ScanShape
<1>8. ASSUME NEW c \in BOOLEAN, ScanEnd(c) PROVE UNCHANGED updateRows BY <1>8 DEF ScanEnd
<1>9. CASE ReconcileStep BY <1>1, <1>9 DEF ReconcileStep, ReconcileCollect, ReconcileWrite
<1>10. CASE JobLoad BY <1>1, <1>10 DEF JobLoad, RollbackLoad, ApplyLoad
<1>11. CASE ApplyStep
  <2>1. job.at # "idle" /\ job.upd \in Digests BY <1>11, StepFacts
  <2>2. CASE ApplySnapshot \/ Locate \/ UpdateRuntime
    BY <1>1, <2>2 DEF ApplySnapshot, Locate, UpdateRuntime
  <2>3. CASE ApplyPrecheck \/ ApplyPull \/ ApplyUp \/ ApplyHealth \/ ApplyMark
    <3>1. job.origin # "rollback"
      BY <2>3 DEF ApplyPrecheck, ApplyPull, ApplyUp, ApplyHealth, ApplyMark, LedgerInv, PickedNotReverted
    <3>2. UNCHANGED updateRows \/ \E w \in {"superseded", "failed", "applied"} : SetStatus(job.upd, w)
      BY <2>3 DEF ApplyPrecheck, ApplyPull, ApplyUp, ApplyHealth, ApplyMark, FailApply
    <3>3. row[job.upd] # "none" BY <2>1, <3>1 DEF PickedKept
    <3> QED BY <1>0, <1>1, <2>1, <3>2, <3>3, SetKeeps
  <2> QED BY <1>11, <2>2, <2>3 DEF ApplyStep
<1>12. CASE RollbackStep
  <2>1. CASE RollbackPull \/ RollbackUp BY <1>1, <2>1 DEF RollbackPull, RollbackUp
  <2>2. CASE RollbackMark
    <3>1. MarkRolledBack(job.svc) BY <2>2 DEF RollbackMark
    <3> QED BY <1>0, <3>1 DEF MarkRolledBack, Rows, Kept
  <2> QED BY <1>12, <2>1, <2>2 DEF RollbackStep
<1> QED BY <1>1, <1>2, <1>3, <1>4, <1>5, <1>6, <1>7, <1>8, <1>9, <1>10, <1>11, <1>12 DEF LedgerNext, ScanStep

\* A new row is put after the ones there are.
LEMMA DriftOrder ==
  ASSUME TypeInv, NEW t \in Digests, RecordDrift(t)
  PROVE  OrderOK' /\ Kept
<1>0. row \in [Digests -> RowStatus] BY DEF TypeInv, LedgerInv, LedgerShape
<1>1. Rows' = Rows \union {t}
  BY <1>0 DEF RecordDrift, Rows, Reopened
<1>2. Kept BY <1>0 DEF RecordDrift, Kept, Reopened
<1>3. OrderOK BY DEF TypeInv
<1>4. CASE row[t] = "none"
  <2>1. older' = older \union (Rows \X {t}) /\ t \notin Rows BY <1>4 DEF RecordDrift, Insert, Rows
  <2> HIDE DEF Rows
  <2> QED BY <1>1, <1>2, <1>3, <2>1 DEF OrderOK
<1>5. CASE row[t] # "none"
  <2>1. older' = older /\ Rows' = Rows BY <1>1, <1>5 DEF RecordDrift, Rows
  <2> QED BY <1>2, <1>3, <2>1 DEF OrderOK
<1> QED BY <1>4, <1>5

\* Deleting rows leaves the order of the others, and the baseline comes last.
LEMMA BaselineOrder ==
  ASSUME TypeInv, NEW v \in Digests, EnsureBaseline(v)
  PROVE  OrderOK' /\ Kept
<1> DEFINE stale == {d \in Digests : row[d] = "current" /\ d # v}
           insert == ~(\E d \in Digests : row[d] \in Visible \union {"applied"}) /\ row[v] = "none"
           left == Rows \ stale
<1>0. row \in [Digests -> RowStatus] BY DEF TypeInv, LedgerInv, LedgerShape
<1>1. /\ row' = [d \in Digests |-> IF d \in stale THEN "none"
                                   ELSE IF d = v /\ insert THEN "current" ELSE row[d]]
      /\ older' = (older \intersect (left \X left)) \union (IF insert THEN left \X {v} ELSE {})
  BY DEF EnsureBaseline
<1>2. insert => v \notin left BY DEF Rows
<1>3. Kept
  <2>1. insert => row[v] = "none" OBVIOUS
  <2> HIDE DEF insert
  <2> QED BY <1>1, <2>1 DEF Kept
<1>4. OrderOK /\ left \subseteq Rows BY DEF TypeInv
<1> HIDE DEF insert
<1>5. CASE insert
  <2>1. Rows' = left \union {v} BY <1>0, <1>1, <1>5 DEF Rows
  <2>2. older' = (older \intersect (left \X left)) \union (left \X {v}) BY <1>1, <1>5
  <2> HIDE DEF left
  <2> QED BY <1>2, <1>3, <1>4, <1>5, <2>1, <2>2 DEF OrderOK
<1>6. CASE ~insert
  <2>1. Rows' = left BY <1>0, <1>1, <1>6 DEF Rows
  <2>2. older' = older \intersect (left \X left) BY <1>1, <1>6
  <2> HIDE DEF left
  <2> QED BY <1>3, <1>4, <2>1, <2>2 DEF OrderOK
<1> QED BY <1>5, <1>6

\* So every step keeps the order total.
LEMMA OrderStep == ASSUME TypeInv, [LedgerNext]_ledgerVars PROVE OrderOK' /\ Kept
<1>1. CASE UNCHANGED older /\ Rows' = Rows /\ Kept BY <1>1 DEF TypeInv, OrderOK
<1> QED BY <1>1, RowStatements, DriftOrder, BaselineOrder

\* The row of a running apply stays a row.
LEMMA PickedStep == ASSUME TypeInv, [LedgerNext]_ledgerVars PROVE PickedKept'
<1> SUFFICES ASSUME job'.at # "idle", job'.origin # "rollback"
             PROVE  row'[job'.upd] \notin {"none", "current"}
  BY DEF PickedKept
<1>0. Kept /\ JobShape /\ LedgerInv BY OrderStep DEF TypeInv, LedgerInv
<1>1. ASSUME job.at # "idle", job.origin # "rollback", job'.upd = job.upd
      PROVE  row'[job'.upd] \notin {"none", "current"}
  BY <1>0, <1>1 DEF TypeInv, PickedKept, Kept, LedgerInv, PickedNotReverted
<1>2. CASE UNCHANGED job BY <1>1, <1>2
<1>3. job' # NoHandler BY DEF NoHandler
<1>4. CASE RegistryPush \/ ExternalRecreate
  <2>1. job'.at = job.at /\ job'.origin = job.origin /\ job'.upd = job.upd
    BY <1>0, <1>4 DEF RegistryPush, ExternalRecreate, JobShape
  <2> QED BY <1>1, <2>1
<1>5. CASE UserStep
  BY <1>2, <1>5 DEF UserStep, UserApply, UserRollback, UserDismiss, UserRestore, UserCheck, handlerUnchanged
<1>6. CASE ScanTick \/ ScanStep \/ ReconcileStep \/ UNCHANGED ledgerVars
  BY <1>0, <1>2, <1>6, ScanRows DEF ReconcileStep, ReconcileCollect, ReconcileWrite, ledgerVars
<1>7. CASE JobLoad
  <2>1. ASSUME NEW o, NEW d \in Digests, row[d] = "available",
               job' = [NoHandler EXCEPT !.at = "resolve", !.origin = o, !.svc = digest, !.upd = d]
        PROVE  row'[job'.upd] \notin {"none", "current"}
    BY <1>0, <2>1 DEF NoHandler, Kept
  <2>2. job' # [NoHandler EXCEPT !.at = "pull", !.origin = "rollback", !.svc = digest, !.upd = undoTo]
    BY DEF NoHandler
  <2>3. ~RollbackLoad BY <1>3, <2>2 DEF RollbackLoad
  <2>4. ASSUME NEW o \in Origins, ApplyLoad(o) PROVE row'[job'.upd] \notin {"none", "current"}
    BY <1>3, <2>1, <2>4 DEF ApplyLoad, LatestOpen, Open
  <2> QED BY <1>7, <2>3, <2>4 DEF JobLoad
<1>8. CASE ApplyStep \/ RollbackStep
  <2>1. job.at # "idle" BY <1>0, <1>8, StepFacts
  <2>2. job'.origin = job.origin /\ job'.upd = job.upd
    BY <1>0, <1>3, <1>8 DEF ApplyStep, ApplyPrecheck, ApplySnapshot, ApplyPull, ApplyUp, Locate,
                     ApplyHealth, UpdateRuntime, ApplyMark, RollbackStep, RollbackPull, RollbackUp,
                     RollbackMark, FailApply, Quit, JobShape
  <2> QED BY <1>1, <2>1, <2>2
<1> QED BY <1>3, <1>4, <1>5, <1>6, <1>7, <1>8 DEF LedgerNext, EnvStep, LedgerCrash

\* Types, with the order of the rows: each update row exists once and the rows
\* are totally ordered by insertion, whatever upserts, baselines and deletions
\* interleave; the queues stay within the request bound plus one job per crash.
THEOREM LedgerTypes == LedgerSpec => [](TypeInv /\ LedgerTypeOK)
<1>1. LedgerInit => TypeInv
  <2> SUFFICES ASSUME LedgerInit PROVE TypeInv OBVIOUS
  <2>1. LedgerInv BY LedgerInitInv
  <2>2. ScanShape BY DEF LedgerInit, ScanShape, NoScan, ScanSteps, Maybe
  <2>3. QueueBound BY LifecycleAssumption DEF LedgerInit, QueueBound
  <2>4. OrderOK BY DEF LedgerInit, OrderOK, Rows
  <2>5. RevertedImages /\ PickedKept BY DEF LedgerInit, RevertedImages, PickedKept, NoHandler
  <2> QED BY <2>1, <2>2, <2>3, <2>4, <2>5 DEF TypeInv
<1>2. TypeInv /\ LedgerInv' /\ [LedgerNext]_ledgerVars => TypeInv'
  BY ScanShapeStep, ScanShapeElse, QueueStep, RevertedStep, OrderStep, PickedStep DEF TypeInv
<1>3. TypeInv => LedgerTypeOK
  <2> SUFFICES ASSUME TypeInv PROVE LedgerTypeOK OBVIOUS
  <2>1. queued \in [Origins -> 0..(MaxQueued + MaxCrashes)]
    BY LifecycleAssumption DEF TypeInv, QueueBound, LedgerInv, LedgerShape
  <2> QED BY <2>1 DEF LedgerTypeOK, TypeInv, LedgerInv, LedgerShape, JobShape, ScanShape, RevertedImages, Maybe
<1> QED BY <1>1, <1>2, <1>3, LedgerInvariant, PTL DEF LedgerSpec

-----------------------------------------------------------------------------
(* What GetLatestOpenByService returns.                                    *)

\* A nonempty set of numbers has a least one.
LEMMA SmallestCount ==
  ASSUME NEW T, T \subseteq Nat, T # {}
  PROVE  \E x \in T : \A y \in T : x <= y
<1> DEFINE R == OpToRel(<, Nat)
<1>1. IsWellFoundedOn(R, Nat) BY NatLessThanWellFounded
<1> HIDE DEF R
<1>2. PICK x \in T : \A y \in T : ~(<<y, x>> \in R) BY <1>1, WFMin
<1>3. ASSUME NEW y \in T PROVE x <= y
  <2>1. <<y, x>> \notin R BY <1>2
  <2>2. ~(y < x) BY <2>1 DEF R, OpToRel
  <2> QED BY <2>2
<1> QED BY <1>2, <1>3

\* In a total order of finitely many rows the open ones have exactly one newest.
OnePick ==
  Open # {} => \E d \in Digests : LatestOpen(d) /\ \A e \in Digests : LatestOpen(e) => e = d

\* The newest is the one with the fewest open rows after it.
LEMMA NewestIsPicked == ASSUME OrderOK PROVE OnePick
<1> SUFFICES ASSUME Open # {}
             PROVE  \E d \in Digests : LatestOpen(d) /\ \A e \in Digests : LatestOpen(e) => e = d
  BY DEF OnePick
<1>0. Open \subseteq Rows /\ Open \subseteq Digests BY DEF Open, Rows
<1>1. IsFiniteSet(Open) BY <1>0, LifecycleAssumption, FS_Subset
<1> DEFINE after == [d \in Open |-> {e \in Open : <<d, e>> \in older}]
           counts == {Cardinality(after[d]) : d \in Open}
<1>2. \A d \in Open : after[d] \subseteq Open /\ IsFiniteSet(after[d]) /\ Cardinality(after[d]) \in Nat
  BY <1>1, FS_Subset, FS_CardinalityType
<1>3. PICK n \in counts : \A m \in counts : n <= m
  <2>1. counts \subseteq Nat /\ counts # {} BY <1>2
  <2> HIDE DEF counts
  <2> QED BY <2>1, SmallestCount
<1>4. PICK d \in Open : \A e \in Open : Cardinality(after[d]) <= Cardinality(after[e])
  <2>1. PICK d \in Open : n = Cardinality(after[d]) BY <1>3
  <2> QED BY <1>3, <2>1
<1>5. ASSUME NEW e \in Open \ {d} PROVE <<e, d>> \in older
  <2> SUFFICES ASSUME <<e, d>> \notin older PROVE FALSE OBVIOUS
  <2>1. <<d, e>> \in older BY <1>0 DEF OrderOK
  <2>2. e \in after[d] /\ e \notin after[e] BY <1>0, <2>1 DEF OrderOK
  <2>3. after[e] \subseteq after[d] BY <1>0, <2>1 DEF OrderOK
  <2> HIDE DEF after
  <2>4. Cardinality(after[e]) <= Cardinality(after[d]) /\ Cardinality(after[e]) # Cardinality(after[d])
    BY <1>2, <2>2, <2>3, FS_Subset
  <2> QED BY <1>2, <1>4, <2>4
<1>6. LatestOpen(d) BY <1>5 DEF LatestOpen
<1>7. ASSUME NEW e \in Digests, LatestOpen(e) PROVE e = d
  BY <1>0, <1>5, <1>7 DEF LatestOpen, OrderOK
<1> QED BY <1>0, <1>6, <1>7

\* Whenever updates are open, the query an apply starts from names exactly one:
\* a job of an open update never stops for want of a row, and what it works on
\* does not depend on the order in which SQLite returns rows.
THEOREM ExactlyOnePicked == LedgerSpec => []OnePick
<1>1. TypeInv => OnePick BY NewestIsPicked DEF TypeInv
<1> QED BY <1>1, LedgerTypes, PTL
===============================================================================
