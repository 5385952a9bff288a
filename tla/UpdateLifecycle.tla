--------------------------- MODULE UpdateLifecycle ---------------------------
(***************************************************************************)
(* The life of the update rows of one compose service that tracks a        *)
(* floating tag (internal/store/updates.go, internal/detect/detect.go,     *)
(* internal/scan/scan.go, the apply and rollback handlers of               *)
(* internal/job/worker.go, internal/httpapi/updates.go, autoApply).        *)
(*                                                                         *)
(* Four actors touch the same rows without a common lock: the scanner      *)
(* (single-flight), the job handler (one at a time for a project, see      *)
(* JobEngine!OneInFlightPerProject), the reconcile loop and the user.      *)
(* Every SQL statement or transaction is atomic; what an actor read before *)
(* a network or Docker call may be stale when it writes.                   *)
(***************************************************************************)
EXTENDS Naturals, FiniteSets

CONSTANTS
  Digests,     \* image digests the tag may serve
  First,       \* the one it serves, and the container runs, at the start
  None,        \* no digest
  MaxMoves,    \* bound: moves of the tag, and of the container by hand
  MaxClicks,   \* bound: user requests
  MaxCrashes,  \* bound: crashes of the process
  MaxQueued    \* bound: queued jobs of one origin

ASSUME LifecycleAssumption ==
  /\ First \in Digests /\ IsFiniteSet(Digests)
  /\ None \notin Digests
  /\ MaxMoves \in Nat /\ MaxClicks \in Nat
  /\ MaxCrashes \in Nat /\ MaxQueued \in Nat \ {0}

VARIABLES
  remote,    \* what the registry serves for the tag
  running,   \* the image the container really runs
  digest,    \* services.current_digest
  row,       \* updates.status by to_digest; "none" when there is no row
  older,     \* pairs of to_digests, the row of the first inserted before that of the second
  undoTo,    \* prev_digest of the newest snapshot, None without one
  queued,    \* queued jobs by origin
  job,       \* the job handler that runs for the project
  scan,      \* the scan that is in flight
  recon,     \* digest a reconcile pass has collected, None when idle
  reverted,  \* images a rollback moved away from, until the user asks again (history)
  spent      \* what is used of each bound

envVars == <<remote, running>>
updateRows == <<row, older>>
ledgerVars == <<remote, running, digest, row, older, undoTo, queued, job, scan, recon,
          reverted, spent>>

Visible == {"available", "dismissed", "rolled_back"}
RowStatus == Visible \union {"none", "applied", "failed", "superseded", "current"}
Origins == {"user", "scheduler", "rollback"}
JobSteps == {"idle", "resolve", "snapshot", "pull", "up", "locate", "health", "runtime", "mark"}
ScanSteps == {"idle", "resolve", "record", "baseline", "gate"}

\* origin: who asked; svc: current_digest as loaded; upd: the to_digest picked
\* (for a rollback, the digest to go back to); img: what pull fetched, and once
\* a rollback is up, what it replaced; found:
\* what LocateService answered; quiet: neither the registry nor anybody else
\* has touched the image since the job was loaded.
NoHandler == [at |-> "idle", origin |-> "user", svc |-> None, upd |-> None,
          img |-> None, found |-> None, quiet |-> TRUE]
NoScan == [at |-> "idle", manual |-> FALSE, svc |-> None, target |-> None]

LedgerInit ==
  /\ remote = First /\ running = First /\ digest = First
  /\ row = [d \in Digests |-> "none"]
  /\ older = {}
  /\ undoTo = None
  /\ queued = [o \in Origins |-> 0]
  /\ job = NoHandler
  /\ scan = NoScan
  /\ recon = None
  /\ reverted = {}
  /\ spent = [moves |-> 0, clicks |-> 0, crashes |-> 0]

-----------------------------------------------------------------------------
(* The statements of store.Updates.                                        *)

Open == {d \in Digests : row[d] = "available"}
Rows == {d \in Digests : row[d] # "none"}

\* GetLatestOpenByService: newest detected_at, then highest id.
LatestOpen(d) == d \in Open /\ \A e \in Open \ {d} : <<e, d>> \in older

\* A row that is inserted gets the highest id.
Insert(t) == older \union (Rows \X {t})

\* Mutant: a failed update is not offered again.
ReopenedNotFailed(s) == IF s \in {"superseded", "applied"} THEN "available" ELSE s

\* Mutant: re-detection lifts a dismissal.
ReopenedDismissed(s) ==
  IF s \in {"failed", "superseded", "applied", "dismissed"} THEN "available" ELSE s

\* Mutant: re-detection lifts the suppression a rollback left.
ReopenedRolledBack(s) ==
  IF s \in {"failed", "superseded", "applied", "rolled_back"} THEN "available" ELSE s

\* RecordDrift's CASE: the drift is pending again unless the user decided on it.
Reopened(s) == IF s \in {"failed", "superseded", "applied"} THEN "available" ELSE s

\* Mutant: the upsert forgets its conflict target and inserts a second row.
RecordDriftTwice(t) ==
  /\ row' = [d \in Digests |->
               IF d = t THEN "available"
               ELSE IF row[d] = "available" THEN "superseded" ELSE row[d]]
  /\ older' = Insert(t)

\* RecordDrift: upsert the row of t, supersede the other open rows, one
\* transaction.
RecordDrift(t) ==
  /\ row' = [d \in Digests |->
               IF d = t
               THEN IF row[t] = "none" THEN "available" ELSE Reopened(row[t])
               ELSE IF row[d] = "available" THEN "superseded" ELSE row[d]]
  /\ older' = IF row[t] = "none" THEN Insert(t) ELSE older

\* SupersedeAllOpen.
SupersedeAllOpen ==
  /\ row' = [d \in Digests |-> IF row[d] = "available" THEN "superseded" ELSE row[d]]
  /\ UNCHANGED older

\* SetStatus / MarkApplied: unguarded, by id.
SetStatus(d, s) ==
  /\ row' = [row EXCEPT ![d] = s]
  /\ UNCHANGED older

\* MarkRolledBack: only a row that says applied.
MarkRolledBack(d) ==
  /\ row' = [row EXCEPT ![d] = IF @ = "applied" THEN "rolled_back" ELSE @]
  /\ UNCHANGED older

\* ReopenRolledBack.
ReopenRolledBack ==
  /\ row' = [d \in Digests |-> IF row[d] = "rolled_back" THEN "available" ELSE row[d]]
  /\ UNCHANGED older

\* ensureCurrentChangelog: DeleteStaleCurrent, HasSurfacedByService, then an
\* Upsert whose conflict clause keeps the status of an existing row.
\* (HasResolvedCurrentAtDigest only saves the changelog request.)
EnsureBaseline(svc) ==
  LET stale == {d \in Digests : row[d] = "current" /\ d # svc}
      surfaced == \E d \in Digests : row[d] \in Visible \union {"applied"}
      insert == ~surfaced /\ row[svc] = "none"
      left == Rows \ stale
  IN  /\ row' = [d \in Digests |->
                   IF d \in stale THEN "none"
                   ELSE IF d = svc /\ insert THEN "current" ELSE row[d]]
      /\ older' = (older \intersect (left \X left))
                   \union (IF insert THEN left \X {svc} ELSE {})

-----------------------------------------------------------------------------
(* The world outside.                                                      *)

Spend(what, max) ==
  /\ spent[what] < max
  /\ spent' = [spent EXCEPT ![what] = @ + 1]

\* The tag is moved to another image.
RegistryPush ==
  /\ Spend("moves", MaxMoves)
  /\ remote' \in Digests \ {remote}
  /\ job' = [job EXCEPT !.quiet = job.at = "idle"]
  /\ UNCHANGED <<running, digest, updateRows, undoTo, queued, scan, recon, reverted>>

\* Somebody pulls and recreates the container without dockbrr (or dockbrr's
\* own container is swapped by the self-update helper).
ExternalRecreate ==
  /\ running # remote
  /\ Spend("moves", MaxMoves)
  /\ running' = remote
  /\ job' = [job EXCEPT !.quiet = job.at = "idle"]
  /\ UNCHANGED <<remote, digest, updateRows, undoTo, queued, scan, recon, reverted>>

\* The process dies; a running job's row goes back to queued (ResumeRunning),
\* scan and reconcile pass are forgotten.
LedgerCrash ==
  /\ Spend("crashes", MaxCrashes)
  /\ queued' = IF job.at = "idle" THEN queued ELSE [queued EXCEPT ![job.origin] = @ + 1]
  /\ job' = NoHandler
  /\ scan' = NoScan
  /\ recon' = None
  /\ UNCHANGED <<envVars, digest, updateRows, undoTo, reverted>>

-----------------------------------------------------------------------------
(* The user (httpapi handlers).  A request names a row or a job by id; the *)
(* handlers check that it exists and nothing about its status.             *)

handlerUnchanged == <<envVars, digest, undoTo, job, scan, recon>>

\* handleApply: any existing update leads to a job for its service.
UserApply ==
  /\ \E d \in Digests : row[d] # "none"
  /\ queued["user"] < MaxQueued
  /\ Spend("clicks", MaxClicks)
  /\ queued' = [queued EXCEPT !["user"] = @ + 1]
  /\ reverted' = {}
  /\ UNCHANGED <<handlerUnchanged, updateRows>>

\* handleRollback: the request names a job of the service, in any status.
UserRollback ==
  /\ undoTo # None \/ job.at # "idle" \/ \E o \in Origins : queued[o] > 0
  /\ queued["rollback"] < MaxQueued
  /\ Spend("clicks", MaxClicks)
  /\ queued' = [queued EXCEPT !["rollback"] = @ + 1]
  /\ UNCHANGED <<handlerUnchanged, updateRows, reverted>>

\* handleDismiss.
UserDismiss ==
  /\ Spend("clicks", MaxClicks)
  /\ \E d \in Digests : row[d] # "none" /\ SetStatus(d, "dismissed")
  /\ UNCHANGED <<handlerUnchanged, queued, reverted>>

\* handleRestore.
UserRestore ==
  /\ Spend("clicks", MaxClicks)
  /\ \E d \in Digests :
       /\ row[d] # "none"
       /\ SetStatus(d, "available")
       /\ reverted' = reverted \ {d}
  /\ UNCHANGED <<handlerUnchanged, queued>>

-----------------------------------------------------------------------------
(* The scanner: checkService for this service, then the scheduler's        *)
(* autoApply.  tryBegin makes it single-flight.                            *)

\* The scheduler's tick: all-scope, so nothing is reopened; services.Get.
ScanTick ==
  /\ scan.at = "idle"
  /\ scan' = [NoScan EXCEPT !.at = "resolve", !.svc = digest]
  /\ UNCHANGED <<envVars, digest, updateRows, undoTo, queued, job, recon, reverted, spent>>

\* A manual check of the service: checkServiceFresh lifts rolled_back first.
UserCheck ==
  /\ scan.at = "idle"
  /\ Spend("clicks", MaxClicks)
  /\ ReopenRolledBack
  /\ reverted' = {}
  /\ scan' = [NoScan EXCEPT !.at = "resolve", !.manual = TRUE, !.svc = digest]
  /\ UNCHANGED <<envVars, digest, undoTo, queued, job, recon>>

\* resolver.Resolve (or the HEAD shortcut, which reaches the same verdict).
ScanResolve ==
  /\ scan.at = "resolve"
  /\ scan' = [scan EXCEPT !.at = "record", !.target = remote]
  /\ UNCHANGED <<envVars, digest, updateRows, undoTo, queued, job, recon, reverted, spent>>

\* The registry does not answer (or the run is aborted): Detect returns nil,
\* which checkService treats like "up to date".
ScanResolveFails ==
  /\ scan.at = "resolve"
  /\ scan' = [scan EXCEPT !.at = "baseline"]
  /\ UNCHANGED <<envVars, digest, updateRows, undoTo, queued, job, recon, reverted, spent>>

\* Detect's comparison and its write: drift is recorded, otherwise open rows
\* are closed.  Both use the digest loaded before the registry was asked.
ScanRecord ==
  /\ scan.at = "record"
  /\ \/ /\ scan.target # scan.svc
        /\ RecordDrift(scan.target)
        /\ scan' = [NoScan EXCEPT !.at = "gate", !.manual = scan.manual]
     \/ /\ scan.target = scan.svc
        /\ SupersedeAllOpen
        /\ scan' = [scan EXCEPT !.at = "baseline"]
  /\ UNCHANGED <<envVars, digest, undoTo, queued, job, recon, reverted, spent>>

ScanBaseline ==
  /\ scan.at = "baseline"
  /\ EnsureBaseline(scan.svc)
  /\ scan' = [NoScan EXCEPT !.at = "gate", !.manual = scan.manual]
  /\ UNCHANGED <<envVars, digest, undoTo, queued, job, recon, reverted, spent>>

\* The sweep ends.  A completed scheduled sweep is followed by autoApply, which
\* enqueues whenever there is an open row (it does not look for queued jobs).
\* A manual sweep, or one that was aborted or timed out, is not.
ScanEnd(completed) ==
  /\ scan.at = "gate"
  /\ scan' = NoScan
  /\ queued' =
       IF completed /\ ~scan.manual /\ Open # {} /\ queued["scheduler"] < MaxQueued
       THEN [queued EXCEPT !["scheduler"] = @ + 1] ELSE queued
  /\ UNCHANGED <<envVars, digest, updateRows, undoTo, job, recon, reverted, spent>>

-----------------------------------------------------------------------------
(* The reconcile loop.                                                     *)

\* collector.Collect: what the container runs now.
ReconcileCollect ==
  /\ recon = None
  /\ recon' = running
  /\ UNCHANGED <<envVars, digest, updateRows, undoTo, queued, job, scan, reverted, spent>>

\* services.Upsert writes what was collected, however old it is by now.
ReconcileWrite ==
  /\ recon # None
  /\ digest' = recon
  /\ recon' = None
  /\ UNCHANGED <<envVars, updateRows, undoTo, queued, job, scan, reverted, spent>>

-----------------------------------------------------------------------------
(* The job handler: Applier.runApply and runRollback.                      *)

jobUnchanged == <<remote, scan, recon, spent>>

\* The handler returns; rows, digest and container stay as they are.
Quit == job' = NoHandler

\* runApply loads the service and its newest open update; without one the job
\* just fails (so a duplicate apply is harmless).
ApplyLoad(o) ==
  /\ o # "rollback"
  /\ job.at = "idle"
  /\ queued[o] > 0
  /\ queued' = [queued EXCEPT ![o] = @ - 1]
  /\ \/ Open = {} /\ job' = NoHandler
     \/ \E d \in Digests :
          /\ LatestOpen(d)
          /\ job' = [NoHandler EXCEPT !.at = "resolve", !.origin = o, !.svc = digest, !.upd = d]
  /\ UNCHANGED <<jobUnchanged, running, digest, updateRows, undoTo, reverted>>

\* Mutant: the precheck does not compare the re-resolved digest.
ApplyPrecheckBlind ==
  /\ job.at = "resolve"
  /\ job' = [job EXCEPT !.at = "snapshot"]
  /\ UNCHANGED <<jobUnchanged, running, digest, updateRows, undoTo, queued, reverted>>

\* Re-resolve the tag: a moved target is superseded and the job fails; a
\* registry (or compose parse) error fails the job and leaves the row open.
ApplyPrecheck ==
  /\ job.at = "resolve"
  /\ \/ Quit /\ UNCHANGED updateRows
     \/ remote # job.upd /\ SetStatus(job.upd, "superseded") /\ Quit
     \/ /\ remote = job.upd
        /\ job' = [job EXCEPT !.at = "snapshot"]
        /\ UNCHANGED updateRows
  /\ UNCHANGED <<jobUnchanged, running, digest, undoTo, queued, reverted>>

\* Mutant: a failing snapshot is only logged.
ApplySnapshotBestEffort ==
  /\ job.at = "snapshot"
  /\ undoTo' \in {undoTo, job.svc}
  /\ job' = [job EXCEPT !.at = "pull"]
  /\ UNCHANGED <<jobUnchanged, running, digest, updateRows, queued, reverted>>

\* snapshot(): must succeed before anything is mutated.
ApplySnapshot ==
  /\ job.at = "snapshot"
  /\ \/ Quit /\ UNCHANGED undoTo
     \/ undoTo' = job.svc /\ job' = [job EXCEPT !.at = "pull"]
  /\ UNCHANGED <<jobUnchanged, running, digest, updateRows, queued, reverted>>

\* failApply: the update is marked failed whatever it says by now.
FailApply == SetStatus(job.upd, "failed") /\ Quit

\* compose pull fetches what the tag serves at this moment.
ApplyPull ==
  /\ job.at = "pull" /\ job.origin # "rollback"
  /\ \/ FailApply
     \/ job' = [job EXCEPT !.at = "up", !.img = remote] /\ UNCHANGED updateRows
  /\ UNCHANGED <<jobUnchanged, running, digest, undoTo, queued, reverted>>

\* compose up; a failing one may or may not have recreated the container.
ApplyUp ==
  /\ job.at = "up" /\ job.origin # "rollback"
  /\ \/ FailApply /\ running' \in {running, job.img}
     \/ /\ running' = job.img
        /\ job' = [job EXCEPT !.at = "locate", !.img = None]
        /\ UNCHANGED updateRows
  /\ UNCHANGED <<jobUnchanged, digest, undoTo, queued, reverted>>

\* LocateService, for apply and rollback; on an error the handler falls back
\* to the digest it aimed at.
Locate ==
  /\ job.at = "locate"
  /\ \E f \in {running, job.upd} :
       job' = [job EXCEPT !.found = f,
                          !.at = IF job.origin = "rollback" THEN "runtime" ELSE "health"]
  /\ UNCHANGED <<jobUnchanged, running, digest, updateRows, undoTo, queued, reverted>>

\* healthGate: healthy, or unhealthy / exited / timed out.
ApplyHealth ==
  /\ job.at = "health"
  /\ \/ FailApply
     \/ job' = [job EXCEPT !.at = "runtime"] /\ UNCHANGED updateRows
  /\ UNCHANGED <<jobUnchanged, running, digest, undoTo, queued, reverted>>

\* services.UpdateRuntime; its failure is only logged.
UpdateRuntime ==
  /\ job.at = "runtime"
  /\ digest' \in {digest, job.found}
  /\ job' = [job EXCEPT !.at = "mark"]
  /\ UNCHANGED <<jobUnchanged, running, updateRows, undoTo, queued, reverted>>

\* MarkApplied and the end of a successful apply.
ApplyMark ==
  /\ job.at = "mark" /\ job.origin # "rollback"
  /\ SetStatus(job.upd, "applied")
  /\ Quit
  /\ UNCHANGED <<jobUnchanged, running, digest, undoTo, queued, reverted>>

\* runRollback: the newest snapshot of the service, whichever job took it.
RollbackLoad ==
  /\ job.at = "idle"
  /\ queued["rollback"] > 0
  /\ queued' = [queued EXCEPT !["rollback"] = @ - 1]
  /\ job' = IF undoTo = None THEN NoHandler
            ELSE [NoHandler EXCEPT !.at = "pull", !.origin = "rollback",
                               !.svc = digest, !.upd = undoTo]
  /\ UNCHANGED <<jobUnchanged, running, digest, updateRows, undoTo, reverted>>

\* The pin override names the digest, so the pull cannot fetch another one.
RollbackPull ==
  /\ job.at = "pull" /\ job.origin = "rollback"
  /\ \/ Quit
     \/ job' = [job EXCEPT !.at = "up", !.img = job.upd]
  /\ UNCHANGED <<jobUnchanged, running, digest, updateRows, undoTo, queued, reverted>>

\* compose up with the override.  No health gate follows a rollback.
RollbackUp ==
  /\ job.at = "up" /\ job.origin = "rollback"
  /\ \/ Quit /\ running' \in {running, job.img}
     \/ running' = job.img /\ job' = [job EXCEPT !.at = "locate", !.img = running]
  /\ UNCHANGED <<jobUnchanged, digest, updateRows, undoTo, queued, reverted>>

\* MarkRolledBack with the digest loaded at the start; the job succeeds.
RollbackMark ==
  /\ job.at = "mark" /\ job.origin = "rollback"
  /\ MarkRolledBack(job.svc)
  /\ Quit
  /\ reverted' = (reverted \union {job.img}) \ {job.upd}
  /\ UNCHANGED <<jobUnchanged, running, digest, undoTo, queued>>

EnvStep == RegistryPush \/ ExternalRecreate \/ LedgerCrash
UserStep == UserApply \/ UserRollback \/ UserDismiss \/ UserRestore \/ UserCheck
ScanStep == ScanResolve \/ ScanResolveFails \/ ScanRecord \/ ScanBaseline
            \/ (\E c \in BOOLEAN : ScanEnd(c))
ReconcileStep == ReconcileCollect \/ ReconcileWrite
ApplyStep == ApplyPrecheck \/ ApplySnapshot \/ ApplyPull \/ ApplyUp \/ Locate
             \/ ApplyHealth \/ UpdateRuntime \/ ApplyMark
RollbackStep == RollbackPull \/ RollbackUp \/ RollbackMark
JobLoad == RollbackLoad \/ (\E o \in Origins : ApplyLoad(o))

LedgerNext ==
  \/ EnvStep
  \/ UserStep
  \/ ScanTick
  \/ ScanStep
  \/ ReconcileStep
  \/ JobLoad
  \/ ApplyStep
  \/ RollbackStep

LedgerSpec == LedgerInit /\ [][LedgerNext]_ledgerVars

\* The poll ticker and the reconcile ticker keep going and a scan runs to its
\* end; the registry is not unreachable for ever.  Nothing is assumed of jobs:
\* one that hangs in a Docker call must not keep drift from being listed.
LedgerFairness ==
  /\ WF_ledgerVars(ScanTick \/ ScanStep)
  /\ SF_ledgerVars(ScanResolve)
  /\ WF_ledgerVars(ReconcileStep)

LedgerFairSpec == LedgerSpec /\ LedgerFairness

-----------------------------------------------------------------------------
(* Properties.                                                             *)

\* The rows are totally ordered by their insertion, each of them once.
OrderOK ==
  /\ older \subseteq Rows \X Rows
  /\ \A d \in Rows : <<d, d>> \notin older
  /\ \A d, e \in Rows : d # e => <<d, e>> \in older \/ <<e, d>> \in older
  /\ \A d, e, f \in Rows : <<d, e>> \in older /\ <<e, f>> \in older => <<d, f>> \in older

LedgerTypeOK ==
  /\ remote \in Digests /\ running \in Digests /\ digest \in Digests
  /\ row \in [Digests -> RowStatus]
  /\ OrderOK
  /\ undoTo \in Digests \union {None}
  /\ queued \in [Origins -> 0..(MaxQueued + MaxCrashes)]
  /\ job.at \in JobSteps /\ job.origin \in Origins /\ job.quiet \in BOOLEAN
  /\ {job.svc, job.upd, job.img, job.found} \subseteq Digests \union {None}
  /\ scan.at \in ScanSteps /\ scan.manual \in BOOLEAN
  /\ {scan.svc, scan.target} \subseteq Digests \union {None}
  /\ recon \in Digests \union {None}
  /\ reverted \subseteq Digests
  /\ spent \in [{"moves", "clicks", "crashes"} -> Nat]

\* A user request is being handled in this step.
ByUser == spent'.clicks # spent.clicks

\* rolled_back is lifted by an explicit user request only ("the suppression
\* can only be lifted by an explicit user action", ReopenRolledBack): no scan,
\* reconcile pass, late job mark or restart makes the update open again.
RolledBackStays ==
  [][\A d \in Digests :
       row[d] = "rolled_back" /\ row'[d] # "rolled_back" => ByUser]_ledgerVars

\* A dismissed update leaves that status only on a user request, or because an
\* apply that had picked it before it was dismissed records its outcome.
DismissedStays ==
  [][\A d \in Digests :
       row[d] = "dismissed" /\ row'[d] # "dismissed" =>
         ByUser \/ (job.at # "idle" /\ job.origin # "rollback" /\ job.upd = d)]_ledgerVars

\* The container changes only by hand or in the up of a job, and an apply's up
\* finds the newest snapshot holding what the job took for the running image
\* ("A snapshot is taken before every mutation", README).
SnapshotBeforeMutation ==
  [][running' # running =>
       \/ spent'.moves # spent.moves
       \/ job.at = "up" /\ (job.origin = "rollback" \/ undoTo = job.svc)]_ledgerVars

\* An update that gets the mark applied is what the container runs, unless the
\* tag or the container was moved by somebody else while the job ran.
AppliedIsDelivered ==
  [][\A d \in Digests :
       row[d] # "applied" /\ row'[d] = "applied" /\ job.quiet => running = d]_ledgerVars

\* The record and the dashboard catch up with the world, again and again:
\* current_digest is what runs, nothing is offered to a service that is up to
\* date, and a service that is not has its drift listed, unless the tag moved
\* back to an image whose baseline row is still there (DriftNeverHidden below).
DriftSurfaces ==
  []<>(/\ digest = running
       /\ running = remote => Open = {}
       /\ running # remote => row[remote] \in Visible \union {"current"})

\* "flipped to 'available' so a still-current drift is never hidden, while
\* 'dismissed' and 'rolled_back' (both user intent) are deliberately kept"
\* (updates.go, RecordDrift): a drift that lasts is listed in the end.
DriftNeverHidden ==
  []<>(digest = running /\ (running # remote => row[remote] \in Visible))

\* "auto-update never silently re-applies the update this rollback just
\* reverted" (worker.go, rollbackPullUp): a job of the scheduler never brings
\* back an image a rollback moved away from before the user asked again.
NoSilentReapply ==
  job.origin = "scheduler" /\ job.at = "locate" => running \notin reverted

\* "it only demotes the row the rollback actually reverted" (updates.go,
\* MarkRolledBack): the update marked rolled_back is not what still runs.
RollbackReverts ==
  [][\A d \in Digests :
       row[d] # "rolled_back" /\ row'[d] = "rolled_back" /\ job.quiet => running # d]_ledgerVars
=============================================================================
