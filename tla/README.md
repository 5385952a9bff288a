# A TLA+ model of dockbrr

dockbrr watches containers, detects newer images, and applies or rolls back
updates through a persisted job queue. This directory holds TLA+ models of its
core, the TLC configurations that check them on small instances, and TLAPS
proofs of their safety properties for all values of the constants. `PROJECT.json` lists the runs, the definitions with
the source lines they translate, the hazards, the findings and the theorems.

To check everything by hand, in this directory:

    tlc -workers 2 -config MCUpdates.cfg MCUpdates         # any run of PROJECT.json
    tlapm JobEngineProofs.tla                              # any *Proofs module

## 1. Inventory

| Component | State | Operations | What must hold |
|---|---|---|---|
| Job engine (`internal/job/queue.go`, `lock.go`, `store/jobs.go`) | `jobs` rows (persistent); workers, keyed mutex (memory) | Enqueue, ClaimNext, dispatch, Finish, ResumeRunning, DeleteFinished | one handler per project at a time; a job is claimed once, never orphaned, never run again once finished; every queued job ends |
| Log streams (`queue.go` Emit/Stream/closeStreams, `httpapi/sse.go`) | `subs`, `finished`, channels (memory) | subscribe, emit, close | no send on a closed channel, no forgotten subscriber, every stream closes |
| Update ledger (`store/updates.go`, `snapshots.go`) | `updates`, `snapshots` rows | RecordDrift, Supersede*, MarkApplied, MarkRolledBack, Reopen, Dismiss, Restore | a user's decision survives re-detection; drift is never hidden; nothing is offered to a service that is up to date |
| Detector and scanner (`detect/`, `scan/`, `store/images.go`, `tag_digests.go`) | names of images, cached tag digests, a notification cache | Detect, CheckService(s)Fresh, baseline row | verdicts from stale reads do no lasting harm; an exact pin is offered the newest tag of its stream; a failed lookup leaves no wrong name |
| Scan runner, scheduler, autoApply (`httpapi/scanrun.go`, `cmd/dockbrr/main.go`) | single-flight flag, progress, cancel function | Start, RunScheduled, Abort, tick | one sweep at a time, given back whatever ends it; auto-apply only after a complete sweep; an abort hits the sweep it was meant for |
| Compose applier (`job/worker.go`, `compose/`) | the containers, the compose file, snapshots, rows it marks | apply, rollback, at service or project scope | snapshot before mutation; "applied" is what runs; rollback reverts, the file too; namespace dependents rejoin |
| Standalone applier (`job/standalone.go`, `docker/recreate.go`, `lifecycle.go`) | containers and their names | apply, rollback | the service is served whatever fails |
| Discovery (`discovery/`, `docker/collect.go`) | `projects`, `services` rows | Reconcile: upsert, mark gone, prune | rows converge to what runs; user-owned rows are kept |
| Lifecycle jobs (`job/lifecycle.go`, `httpapi/lifecycle.go`) | containers, the row's ids and state | start, stop, restart, remove | dependency order; rows catch up |
| Dispatcher, self-update (`job/dispatch.go`, `job/selfupdate.go`, `docker/selfupdate.go`) | dockbrr's own container | guard, spawn helper, swap, swap rollback | dockbrr never mutates itself in-process; a failed swap leaves one version running |
| Event bus, dashboard (`httpapi/events_stream.go`, `web/src/hooks/useEventStream.ts`) | subscriber buffers; what the page shows | publish, deliver, poll, reconnect | a dropped or late event never leaves the page wrong for good |
| HTTP API, auth, login limiter (`httpapi/`) | sessions, limiter windows | handlers | requests become jobs; limiter windows expire |
| Registry client, changelog resolver, compose parser, settings, web UI | I/O, text | | not about update state |

How they interact. HTTP handlers and the scheduler only insert job rows. Workers
claim rows and run a handler under the project's lock. Scanner, reconcile loop
and job handlers share the `services` and `updates` tables **without** a common
lock; each SQL statement is atomic, and what was read before a registry or Docker
call may be stale at the write after it. Docker and the registry change on their
own. The process may die between any two steps; rows and containers survive,
memory does not, and a running job starts over.

The hard part is therefore: claims before locks; channel close against send and
subscribe; reads before a network call used after it; recreate sequences with
undo steps that can fail too; and the resumption of half-done jobs. The
`hazards` of `PROJECT.json` list each at its line.

## 2. Modules

| Module | Models | Variables ↔ code |
|---|---|---|
| `ProjectQueue` | what the engine promises its clients (abstract) | a job is none, waiting, active or over |
| `JobEngine` | queue, worker pool, keyed mutex, crash, boot, shutdown, purge | `status`/`key` = jobs rows; `pc`/`cur` = a worker's place in `worker`/`dispatch`; `holder` = keyedMutex |
| `LogStreams` | extends `JobEngine` with Emit/Stream/closeStreams | `subs`, `finished` = the maps; `buf` = channel contents; `snap` = the slice an Emit copied; `closing` = what closeStreams took |
| `UpdateLifecycle` | one floating-tag compose service: ledger, scanner, reconcile, autoApply, user, apply and rollback handlers | `row` = updates.status by to_digest; `older` = insertion order, as pairs; `digest` = services.current_digest; `running`, `remote` = the container and the registry; `job`, `scan`, `recon` = locals of the three activities |
| `StandaloneApplier` | the recreate of a standalone container, one step per Docker call | `box` = containers; `svc` = the service row; `soloJob` = the handler's locals; `seen` = a reconcile pass's collection |
| `Inventory` | the projects and services tables, the reconcile pass step by step, registration of a project | `box` = Docker's containers; `projRow`, `svcRow` = the tables; `pass` = locals of `Reconcile` (what it collected, the project list it read); `onDisk` = whether compose files are found |
| `ContainerJobs` | extends `Inventory` with the start, stop, restart and remove jobs, crash and boot | `queue`, `job` = the lifecycle jobs and the handler's locals (`todo` = Docker calls left) |
| `ComposeStack` | apply and rollback in a compose project of several services, the compose file, namespace dependents, siblings, the self guard | `line` = the versions the file names; `pulled` = what a floating tag means on the host; `con` = containers; `record` = service rows; `offer` = the open update; `snaps` = snapshots with the file's blob; `task` = the handler's locals |
| `SelfUpdate` | the release check, the self_update job, the helper container, the swap and its rollback | `tagged`, `pushed` = GitHub and the registry; `cached` = the checker's verdict; `dock` = the container with dockbrr's name; `errand` = the job, the requests that have passed the single-flight check (`passed`) and further jobs queued (`more`); `helper` = the helper's place in `swapContainer` |
| `ScanRunner` | the scan-run, its abort and timeout, the scheduler's loop and its auto-apply gate, the event bus, one dashboard | `sweep` = goroutines in `execute`; `scan`, `cancelOf` = `sr.state`, `sr.cancel`; `aborting` = the func an `Abort` has read; `inbox` = the bus; `view`, `resync` = the page |
| `Detection` | one scan call by call: HEAD shortcut, resolve, tag list, newer tag, compare, the lookups that name an image | `serves`, `catalog` = the registry; `pin` = the service row; `byPlatform` = its digest is the platform's, not the served one; `found` = its open update; `named` = images.resolved_version; `tagCache` = tag_digest_cache; `look` = locals of `Detect` |
| `JobEngineProofs` (with `LogStreams`), `UpdateLifecycleProofs`, `StandaloneApplierProofs`, `ContainerJobsProofs`, `ComposeStackProofs`, `SelfUpdateProofs`, `ScanRunnerProofs`, `DetectionProofs` | theorems about the module of that name and the inductive invariant they rest on (section 5) | |
| `MC*` | instances for TLC; `MCUpdates` explores `UpdateLifecycle` and `StandaloneApplier`, `MCHost` the six modules from `Inventory` to `Detection`, side by side; the others are one module each | |

`UpdateLifecycle`, `StandaloneApplier`, `ContainerJobs`, `ComposeStack` and
`SelfUpdate` take from `JobEngine` that one handler runs per project
(`OneInFlightPerProject`, proved) and that an interrupted job starts over
(`Boot`). That a boot may fail to resume is modelled in `JobEngine` alone;
the others assume a resume that succeeds. `ContainerJobs` composes jobs and passes over one pair of tables.

`MCHost` declares the variables of `ContainerJobs`, `ComposeStack`, `SelfUpdate`,
`ScanRunner` and `Detection` together and a variable `focus` that never changes: a
behaviour moves the part `focus` names and leaves the others as they started. The
five parts share no state in the models, so exploring them side by side loses nothing
and their state spaces add up instead of multiplying. `MCUpdates` does the same with `part`. Operators that begin with a comment "Mutant:" are faulty
variants of the definition after them; no specification uses them. They document
which mistake each property would catch.

What is abstracted. Digests are model values; versions, severity, changelogs,
log text and events are left out. In `JobEngine` a handler is one step with four
outcomes (result written, result lost, panic, cut off by a crash). In
`UpdateLifecycle` a row is identified by its digest (the table's unique key is
service and digest), the HEAD shortcut and the full resolve are one action (same
verdict), and the tag compared is always the tracked one. `detected_at` order is
insertion order. In `StandaloneApplier` two images stand for the snapshot's and
the target's; stop-and-remove of a leftover is one step with its two partial
outcomes as alternatives. Docker's rules (a name is unique, a running container
is not removed without force, a rename onto one's own name is refused) are
modelled from how the code uses them.

In `Inventory` a container has a service label and a state; digests and image
references are `UpdateLifecycle`'s. Upserts are one step per service, in the
order of `Group`; mark-gone is one step and so is the prune, which may stop
after any project when a store call fails; in the code both read and then write
row by row (`discovery.go:326-391`), and so does a registration
(`settings.go:393-421`), which is one step here. `auto_remove_gone` is on. In
`ContainerJobs` a container that is restarting counts as running (the handler
treats both alike, `lifecycle.go:170`); that a remove spares a container started
in the meantime is the daemon's refusal and no property of this code. In
`ComposeStack` an image is a version number: an exact tag names one for ever, a
floating tag the newest; a reconcile pass is one step; override files are no
state of their own. In `SelfUpdate` releases are numbered, tagged first and
pushed later. In `ScanRunner` a check of a service either ends under a live
context or not; resolving the scope and `tryBegin` are one step (the list is
only the sweep's length here); the dashboard is a flag, its event buffer and the
answers under way to it. In `Detection` a tag is its numeric core, whether it is
written in full, and its flavor (the text around the core). An image has one
number; whether the service row holds its platform digest or the served one is
`byPlatform`, and with the platform digest no `images` row is found: nothing is
ever named and the HEAD shortcut is never taken. A run of `matchVersionByDigest`
is one step with its failures as alternatives, at both ends of a drift and for
the name of an up-to-date image. Services without an image reference or digest
and locally built ones are not scanned. The descriptive columns of an update
(versions, severity) are left out. That a published exact tag keeps its image is
assumed, as `tag_digests.go` does.

History variables, never read by a guard: `lost` (in part; it also carries the
`MaxLost` bound), `reverted`, `job.quiet` (two modules), `botched`, `good`,
`torn`, `lastSeen`, `last`, `ahead`, `task.calm`, `task.warned`, `task.moved`,
`excuse`, `best`, `autos`, `stamped`, `heeded`, `wanted`.

## 3. Runs

| Run | Result | Distinct states | Shows |
|---|---|---|---|
| `engine` | pass | 135,160 | 2 workers, 2 jobs on 2 keys, 1 crash or shutdown and a boot whose resume may fail, 1 lost write, 1 subscriber with a 1-line buffer, 2 pipes: mutual exclusion, single claim, no orphan, finality, progress, refinement of `ProjectQueue`; no send on a closed channel, no forgotten subscriber, streams close |
| `updates` | pass | 976,334 | ledger: 2 digests, 1 outside move, 1 user request, 1 crash: user decisions survive, snapshot before mutation, applied is delivered, the ledger keeps catching up with the world. Standalone: 3 jobs, 2 refused calls, 1 crash: served under its name, failed jobs keep the container, a healthy container remains |
| `host` | pass | 595,060 | inventory with lifecycle jobs, compose stack, self-update, scan-run and detection: see below |
| `late_subscriber` | violation | | after a restart a subscriber of an old job hangs |
| `silent_reapply` | violation | | rollback of a failed apply is undone by auto-update |
| `rollback_target` | violation | | a resumed apply snapshots its own result |
| `standalone_leftovers` | violation | | a stale reconcile write makes a rollback remove the serving container |
| `self_guard` | violation | | a project-scope apply recreates dockbrr's own container |
| `hidden_drift` | violation | | drift back to a baseline image is never listed |
| `rollback_digest` | violation | | a rollback succeeds at another image than its snapshot's digest |
| `latest_rollback` | violation | | the rollback of a failed swap starts the new release again |
| `name_poisoned` | violation | | one failed lookup fixes a fallback name for good |

What the run `host` shows, part by part. *Inventory and lifecycle jobs:* a row is
pruned only after a full grace period in which no pass saw the service
(`PrunedOnlyAfterGrace`); a manual project's rows are neither marked gone nor
pruned by a pass that still took it for discovered (`ManualKept`); a provider
goes down after its dependents and comes up before them (`ProviderOrder`); the
tables agree with Docker again and again (`TablesCatchUp`). *Compose stack:* a rewritten
file can be undone (`FileUndoable`), dependents join the new container
(`DependentsJoined`), rollback returns (`RollbackReturns`), applied is what runs
(`AppliedRuns`), siblings moved by a project-scope up are closed
(`SiblingsClosed`). *Self-update:* dockbrr is not left dead (`NotLeftDead`), a swap
moves forward (`SwapMovesForward`). *Scan-run:* auto-apply and the last-scan stamp only after a
full sweep (`FullSweepFirst`), an abort ends the sweep it was meant for
(`AbortHeeded`), one sweep owns the state (`OneSweep`), every sweep gives it back
(`ScanEnds`), the dashboard's view settles (`ViewSettles`). *Detection:* again and
again the open update is the newest tag of the pin's stream, found by a
definition that is not the loop of the code, or there is rightly none
(`FindsSettle`).

### Why the bounds are enough

*Job engine.* Two workers and two keys give every overlap of claim, lock and
finish, including two claimed jobs of one key. With a third job (the engine
without streams, 140,820 states), which lets a purge, a claim and a resume meet,
and with two stops (16,736) it was checked once as well. One stop suffices for crash, drain and resume in any
state; counters only limit how often it happens.
Where section 5 proves a safety result, it holds for all bounds, and the run only
shows that it is not empty.
*Log streams.* One subscriber is enough because subscribers do not interact; a
buffer of one line is full after one send; two pipes give concurrent emits.
*Updates.* Two digests give drift and supersession; one outside move lets the tag
move or the container be recreated by hand; one user request is combined with
whatever scheduler and scans do by themselves (their number is unbounded). A
second move lets the tag flap: the safety properties passed once with
`MaxMoves = 2` as well (2,375,251 states of the ledger alone), and are proved for
any number. `MaxQueued` caps the copies of one origin's job in the queue at one,
plus the resumed one: the scheduler's further duplicates would find no open row.
The violation runs use the smallest budgets that show the behaviour; the moves
that hide a drift (`hidden_drift`) are two.
*Standalone.* Three jobs allow apply, rollback and a job that meets their
leftovers; two faults let an undo step fail after the step it undoes.
`CHECK_DEADLOCK FALSE`: once the jobs are used up the service may rest.
*Host.* Three services: `b` in `a`'s namespace, both in a compose project, and
the standalone `c`, which starts exited so that a remove job is possible at once.
Two upsets (a container moved by others, a request, a registration, a failing
call, a crash) put any two of them into any places of a pass and a job; the
clock reaches the grace period of one second exactly, which is the boundary of
`Expired`. *Compose stack.* A namespace pair and a sibling, with exact, floating
or mixed references; one release each and two jobs give apply then rollback,
apply of two services of one file, and retry; one failing command or crash lets
the second job meet what the first left. *Self-update.* Three releases let the
tag, the image and the cache all differ; two requests let two jobs queue at once and a
second one meet a helper at work (with three: 662,182 states of the whole run); two refusals let a rollback call fail after the call it undoes.
*Scan-run.* Two services make a sweep that is begun and not finished; two sweeps
let one overtake the other's abort and events; a buffer of one event is full
after one. *Detection.* A word, full versions, a partial one with the core of a
full one, a version newer by number and older as text, and another flavor; two
pushes put two newer tags into the list in either order; two shifts give a new
pin and an apply; one failing call. `CHECK_DEADLOCK FALSE`: when the bounds are used up nothing need move.
*Self guard.* The same stack with dockbrr as the sibling.

### Fairness

*Job engine.* A worker goroutine keeps running (WF on its own steps); `sync.Mutex`
switches to FIFO hand-over for a starved waiter (SF on `Acquire`); handlers
return, since compose calls run under a context and health gates have a timeout
(WF on `Finish`); a stopped process is started again (WF on `Boot`). Clients owe
nothing, neither more jobs nor reading their stream. *Updates.* The poll and
reconcile tickers never stop (WF), and the registry is not unreachable for ever
(SF on `ScanResolve`). Jobs get no fairness. *Host.* The sync ticker and Docker's
event stream keep starting passes and a pass goes on (WF on `ReconcileStep`);
its failing is not fair and bounded. A supervisor restarts the process (WF on
`Boot`; the compose file of the repository's README has `restart: unless-stopped`). A sweep's
goroutine runs and its checks end, since the registry client and the five-minute
context bound them (WF on `SomeSweepStep`). A page that shows a scan polls every
five seconds (WF on `ViewStep`). The scheduler keeps scanning (WF on
`DetectStep`); failing registry calls are bounded. Delivery of events, jobs, users and the helper
get no fairness.

### Exceptions stated in the properties

- `RunningHasOwner`, `QueuedEventuallyEnds`: a job whose `Finish` write failed
  stays running until the next boot; so does one that the last boot failed to
  resume (`main.go:256-257` logs the error and starts the workers).
- `DismissedStays`: an apply that had already picked the update writes its
  outcome over a dismissal made meanwhile (`failApply` and `MarkApplied` are
  unguarded).
- `AppliedIsDelivered`: not when the tag or container moved while the job ran;
  pull and up follow the tag after the precheck.
- `DriftSurfaces`: a row with status `current` is accepted as listed. RecordDrift
  keeps `current`, so drift back to a digest that once was the baseline stays
  unlisted; that is the finding `hidden_drift`.
- `ServedUnderItsName`: not after a clean-up call was refused or a create succeeded
  halfway (`ContainerCreateFromInspect` returns no id when a network connect
  fails, so `restoreOld` leaves a container holding the name); not after a
  rollback that set out from the id of a container that is gone, which needs no
  refused call and no crash, only a reconcile pass that writes late: it clears the
  serving container away and has nothing to recreate from (`standalone_leftovers`);
  and not between a crash inside a recreate and the job that redoes it. A resumed
  job that fails its precheck never redoes it.
- `FailedJobKeepsContainer`: not after an undo call was refused, a create half
  succeeded or a rollback set out from an id that was gone. It does hold after
  crashes.
- `LastGoodKept`: additionally not across a crash. A reconcile pass may record the
  unproven successor, and the resumed job then clears the renamed healthy
  container away as a leftover.
- `ProviderOrder`: only while the rows the job read named the containers there
  were and nobody else moved one; the job acts on stored ids.
- `FileUndoable`: not for a service whose file an apply found apart from the row
  (it pins instead of rewriting, and its snapshot has no file) or from the
  container (a rollback restored it and then failed), nor for a line that another
  service's rollback changed (`ahead`).
- `RollbackReturns`: not when the snapshot's file named another version than the
  container ran when it was taken; compose then follows the file
  (`rollback_digest`). It looks at the job's own service: what the restored file
  does to the others is left out.
- `AppliedRuns`: not when the row's `image_ref` already named the target. A
  pin-override apply that is resumed after its own `up` and a pass takes the
  update for drift of the tag and lets `up` return to the file's version.
- `SiblingsClosed`: not when a pass or a scan comes between `up` and the refresh;
  the row then equals the container and the sibling's update is not looked at.
  For the same reason not for the namespace dependents that were forced.
- `NotLeftDead`: not when the removal of the stopped container or one of the three
  calls of the rollback is refused, or when a second job removed the helper at
  work (`excuse`).
- `AbortHeeded`: an abort between `tryBegin` and the store of the cancel function
  finds nil and is lost, although the page already shows the scan and
  `scanrun.go:38` calls the function "non-nil while a run is in flight".
- `ViewSettles`: the view may be wrong in between. An answer to the poll that is
  older than the sweep shown clears it, against `useEventStream.ts:20-22` ("it can
  never falsely clear an in-progress scan"), until the sweep's next event.
- `FindsSettle`: a scan whose tag list fails closes a real open update until a
  later scan (section 4).

Several of these exceptions are the hazard itself: a dismissal during an apply
(`DismissedStays`), a tag that moves after the precheck (`AppliedIsDelivered`), a
scan between `up` and the siblings (`SiblingsClosed`), a whole-file restore
(`FileUndoable`), a second self_update job (`NotLeftDead`). The models have these
behaviours, the code does what they show, and no sentence of the repository says
otherwise; the `hazards` of `PROJECT.json` note them as not covered.

## 4. Findings

Nine sentences of the repository that the code does not keep; each has a run
with a counterexample and is quoted in `PROJECT.json`.

1. `late_subscriber`: `Stream` closes a late subscriber's channel only if the job
   finished in this process.
2. `silent_reapply`: a rollback suppresses an update only if its row says
   `applied`; after a failed apply it says `failed`, is reopened by the next scan
   and applied again by the scheduler.
3. `rollback_target`: a crash after `up` lets the resumed apply snapshot the new
   image; the rollback is then a no-op that marks the running update rolled back.
4. `standalone_leftovers`: a reconcile pass that overlaps an apply restores a
   removed id; the next rollback removes the serving container.
5. `self_guard`: the apply endpoint always names a service, so the guard's project
   branch is never reached; a project-scope apply of a sibling recreates
   dockbrr's own container from inside the job.
6. `hidden_drift`: RecordDrift reopens failed, superseded and applied rows. A
   baseline row keeps `current`; when the tag moves on, the update is applied, and
   the tag moves back, the drift is recorded on that row and never listed.
7. `rollback_digest`: a rollback restores the file and then fails; the next apply
   snapshots the restored file beside the digest of the container that was not
   replaced. A rollback to that snapshot ends at what the file names.
8. `latest_rollback`: the swap's rollback recreates the container from its
   configured reference. With `:latest` that is the image the job has just pulled.
9. `name_poisoned`: a lookup that fails for one tag is skipped and the walk still
   counts as conclusive; when it was the tag that serves the image, the fallback
   label is stored and the image is never looked up again.

Weaknesses met while modelling, not contradicted by a sentence that a run could
quote; the models have them as behaviours unless said otherwise:

- *Inventory.* `UpdateState` leaves `gone_since` alone, and `MarkGone` keeps an
  older timestamp (`services.go:118`). Registering a project that was discovered
  keeps its source `discovered` and blanks ids and state of its rows until the
  next pass. A project registered after a pass read the project list has its
  files overwritten by that pass. A prune followed by a store error loses its
  change hint (not modelled). A compose container without a service label has
  its project created and deleted by every pass (not modelled).
- *Lifecycle jobs.* Stop and restart act on dependents' ids without the self
  guard (not modelled: dockbrr's container is not in that model).
- *Scanner.* The baseline upsert meets the `superseded` row of the same digest (an
  update that was detected and then reached outside dockbrr) and keeps that
  status, so no baseline is written (`scan.go:178`), although `scan.go:110-111`
  says "superseded rows do not count, so a self-updated service still gets a
  baseline". The model has it; it has no run of its own.
- *Compose applier.* A retry after a failed write-back pins, and its snapshot has
  no file, so rollback never restores it. A rollback restores the whole file:
  other services' rewrites and the user's edits since are lost
  (`ComposeFileHash` is recorded and never checked). `forceRecreateNamespaceDependents` refreshes the
  dependents' digests before the sibling loop compares them, so the loop finds
  nothing new and leaves their updates open. A project-scope `up` reverts
  services held by a pin or a rollback, and recreates a sibling that provides a
  namespace without rejoining its dependents. An applied row's ids include the
  dependents' until the next pass (`worker.go:276`). An edit of the file between
  its reading and its rewriting is lost (not modelled).
- *Self-update.* A remove
  refused after the stop leaves dockbrr stopped; a second self_update job
  force-removes the helper in the middle of its swap.
- *Detection.* A tag list that cannot be read closes the open update of a real
  newer tag until the next scan (`detect.go:136`), although the comment on
  `closeStaleUpdates` calls "up to date" authoritative there. An exact pin may be
  offered a partial tag ("2", or a date), which makes it a floating one. An image
  whose release tag is pushed after its first scan keeps its fallback name. A
  service whose row holds the platform digest is looked up by every scan and
  never named: `SetResolvedVersion` finds no row under that digest. An open update that the user has overtaken by
  hand can be applied until the next scan, which may be a step back.
- *Scan-run.* `scan_finished` of one sweep may arrive after `scan_progress` of the
  next (`scanrun.go:164`); the poll heals it.

## 5. Proofs

Every safety property of the passing runs is a theorem. The theorems hold for every value of the constants that the named
assumptions of the modules allow: any number of workers, jobs, services,
containers, images, clients, buffers, crashes and failing calls. The assumptions
say what kind of thing a constant is, that the "nobody" values are none of the
real ones (`NoRowAssumption` and its like), and in `ContainerJobs` that no service
borrows its own namespace (`NamespaceDependents` leaves the target out).

None of the properties is inductive. Each speaks of the moment a job, a pass or a
sweep writes or ends, and is true because of something read or decided several
steps before, while others went on writing. Each proof module therefore defines
one invariant that says what an activity may still rely on *at each of its
steps*; a lemma per action shows it inductive, and the properties follow from it.
TLC checked each invariant before it was proved.

**`JobEngineProofs`** (`EngineAssumption`). `EngineInvariant`, `TypeCorrect`,
`MutualExclusion`, `NoDoubleClaim`, `NoOrphans`, `FinishedIsFinal`, `Refinement`.
`OneInFlightPerProject` needs to know that the holder recorded for a key *is* the
worker in the handler (`LockMatches`, both directions); that needs to know that a
worker has a job exactly while it is busy and that this job's row says running
until the handler ends (`WorkerJob`); a claim keeps that only because a queued row
belongs to nobody, which follows from `WorkerJob` again; a crash and boot keep it
because nobody works in a process that is down (`DownIsQuiet`). `FreshIds` makes
Enqueue safe (the new id has no row), `LostNotQueued` separates lost results, and
the rows a failed resume leaves, from queued rows. The refinement maps a job to `active` while a worker is inside its
handler, to `over` once its row is terminal or purged, else to `waiting`;
`StepRefines` shows each action to be a step of `ProjectQueue` or a stutter. A
purge while a handler is returning stays `active` until the unlock, which is why
the map looks at workers before it looks at the row.

The second half of the module is about `LogStreams` (`StreamAssumption`).
`StreamsKeepEngine` first: a behaviour with streams is a behaviour of the engine,
so `EngineInv` comes for free. `NeverSendsOnClosed` and `NoStreamDropped` then need
that whoever an `Emit` copied is still subscribed to the job its worker handles
(`EmitsToSubscribers`), and that what closeStreams has yet to close belongs to a
job that is in `finished` already (`ClosesOwn`).

**`UpdateLifecycleProofs`** (`LifecycleAssumption`). `SuppressionIsTheUsers`,
`DismissalStands`, `SnapshotPrecedesUp`, `AppliedMeansRunning`, `LedgerTypes`,
`ExactlyOnePicked`. The row an apply
picked is not rolled back by the time it is marked, because only another job of
the project could have done so (`PickedNotReverted`); the newest snapshot is its
own from the pull on (`SnapshotTaken`); and its target is what the tag serves, then
what was pulled, then what runs, as long as nobody else moved either (`OnTarget`).
`LedgerTypeOK` needs more than types: a crash puts a running job back on a queue that may
be full, so its length is bounded by `MaxQueued` and the crashes so far
(`QueueBound`); the update an apply holds is not deleted under it, because
`DeleteStaleCurrent` takes baseline rows only and a row once offered never becomes
one (`PickedKept`); and the order of insertion stays a strict total order of the
rows there are, through deletes and re-inserts (`OrderOK`). From the last follows,
by the least number of younger open rows, that the query for the latest open
update returns exactly one row whenever there is one.

**`StandaloneApplierProofs`** (`StandaloneAssumption`). `StandaloneTypeCorrect`,
`NameIsServed`, `FailureRestores`, `HealthyOneRemains`. The handler keeps no record
of how far it got; `JobKnows` and `CanGoBack` say which container has which name
at each step, so that the undo always finds the old container and its name free.
`AllProven` says that without a crash every container but the one on trial was
healthy. `IdsSuffice` shows that the ids of the model never run out.

**`ContainerJobsProofs`** (`InventoryAssumption`, `NoRowAssumption`,
`ContainerJobsAssumption`). `InventoryTypeCorrect` (with the foreign key),
`PruneWaitsForGrace`, `ManualIsKept`, `ProviderComesFirst`.
`ListHolds`: the source of a project that a pass has listed is still what it
believes, because no upsert changes a source; so a stale list never costs a manual
row. `GoneAfterSeen`: a row is marked gone no earlier than it was last seen, so
its grace period is a full one. `Covered` is the induction behind
`ProviderComesFirst`: before each stop of the target that is still to come, every
dependent container is stopped or its stop comes earlier in the list; before each
start of a dependent, the target's containers run and stay so, or their start
comes earlier. Each call moves one of them from "will be" to "is".

**`ComposeStackProofs`** (`ComposeStackAssumption`). `StackTypeCorrect`,
`FileCanBeUndone`, `BorrowersFollow`, `RollbackReachesSnapshot`,
`AppliedVersionRuns`, `SiblingUpdatesClose`, for a project of any size.
`RollbackAims`, `Delivered`, `Joined` and `SiblingsPending` carry what the load,
the plan, the `up` and the forced recreate established to the end of the job.
`FileGoverns` is the reason a rewritten file can be undone: a service with an
exact tag that no apply found astray is only ever moved by its file, and its
snapshots carry the file.

**`SelfUpdateProofs`** (`SelfUpdateAssumption`). `SelfTypeCorrect`,
`SwapNeverLeavesDead`, `SwapIsForward`. `DockAtStep` says
where the container can be at each step of the helper; `DecisionHolds` and
`SwapHolds` that the release chosen stays newer than anything that ran, whatever
GitHub, the registry and the host's tag do until it is started.

**`ScanRunnerProofs`** (`ScanRunnerAssumption`). `ScanTypeCorrect`, `SingleFlight`,
`AbortIsHeeded`, `AppliesAfterFullSweep`. The shared state is that of the sweep in
flight (`StateIsTheSweeps`); every check that ended under a live context was
sound, and completion is claimed only when all were (`SweepProgress`); a cancel
function an `Abort` still holds belongs to a sweep it was meant for, and a
cancelled sweep is past the point where contexts are made (`AbortsAreMeant`).

**`DetectionProofs`** (`DetectionAssumption`). `NewestTagIsFound`: for every list of
tags, `NewerSemverTag` returns a newest of the tags of the stream that are ahead of
the current one, or the current one when there is none. The induction over the list
is a search for a least counterexample, with the well-foundedness theorems of the
library. `DetectTypeCorrect` rests on `RegistryShape` (the list of tags names
exactly what is served), `CacheRight` (only exact tags are cached, and those keep
their image, so a row that never expires stays right) and `NamesOwn`; `MatchInv`
shows them kept by every outcome of a lookup, cut short or not. From the same
invariant: `ListIsDecisive`, an answered list sends the scan to a newest newer tag
exactly when the registry has one at that moment; and `NeverOffersAStepBack`, what
a scan records is another image under the tag it loaded or a greater version of
the same stream, whatever calls failed (`TargetAhead`). Both are about the row as
the scan loaded it; the user may have moved the pin since (section 4).

What the attempts changed. Two properties of the compose stack were true only of
the instance TLC explored: `RollbackReturns` without its exception, which is now
the finding `rollback_digest`, and `SiblingsClosed` with the forced dependents
(section 3, exceptions). `FileUndoable` and
`FailedJobKeepsContainer` turned out to hold more often than they were stated, and
are stronger now: the one in the middle of jobs, the other after crashes. In
`SelfUpdate` the history variable `best` missed what a rollback had started
(`Ran`).

Only model-checked: liveness (`QueuedEventuallyEnds`, `LiveStreamCloses`,
`DriftSurfaces`, `TablesCatchUp`, `ScanEnds`, `ViewSettles`, `FindsSettle`), since
the prover has no rules for fairness. `PartsTypeOK` of the run `host` is by
definition the type invariant of the part a behaviour moves; all five are proved,
each of its own specification (`InventoryTypeCorrect`, `StackTypeCorrect`,
`SelfTypeCorrect`, `ScanTypeCorrect`, `DetectTypeCorrect`).

## 6. Plan

Done, in this order: job engine, its abstraction and proofs; log streams; update
life cycle of one service; standalone recreate; inventory and lifecycle jobs;
compose stack and self guard; self-update; scan-run, event bus and dashboard;
detection; proofs of the safety properties of all of these. Worth doing next:

1. The login limiter's window; the choice of release notes
   (`changelog/github.go`) against a reference definition.
2. `ComposeStack`'s apply and rollback as a refinement of `UpdateLifecycle`'s.

## 7. Not modelled

Registry and GitHub clients, changelog text, compose parsing (library), password
hashing, sessions, the login limiter, settings storage, logging, migrations and
the web UI beyond the scan indicator: I/O or text whose outcome appears in the
models as a nondeterministic answer, or state no property here depends on.
Partly modelled, as `PROJECT.json` notes: the ledger without its severities and
changelog columns; the standalone applier
without the image reference of a cross-tag apply; the dispatcher's guard for
compose jobs only.
