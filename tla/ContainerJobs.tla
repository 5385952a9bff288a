---------------------------- MODULE ContainerJobs ----------------------------
(***************************************************************************)
(* Start, stop, restart and remove jobs (internal/job/lifecycle.go,        *)
(* internal/httpapi/lifecycle.go), composed with Inventory: the handler    *)
(* acts on container ids read from rows that passes rewrite at any time,   *)
(* and writes back to the same rows.                                       *)
(*                                                                         *)
(* dockbrr's own container is not among these (the self guard is module    *)
(* ComposeStack's).  Jobs of different projects share neither rows nor     *)
(* containers, so one handler at a time is enough here (JobEngine has the  *)
(* concurrency).                                                           *)
(***************************************************************************)
EXTENDS Inventory

CONSTANT
  Dependents    \* per service: those declared to share its network, ipc or pid namespace

ASSUME ContainerJobsAssumption ==
  /\ Dependents \in [Services -> SUBSET Services]
  /\ \A s \in Services : s \notin Dependents[s]

VARIABLES
  alive,   \* the process runs
  queue,   \* jobs waiting, oldest first
  job      \* the job that runs

jobVars == <<alive, queue, job>>
hostVars == <<inventoryVars, jobVars>>

JobTypes == {"start", "stop", "restart", "remove"}
Calls == {"start", "stop", "inspect", "remove"}

\* todo: Docker calls to make, <<call, id>>; found: what LocateService
\* answered; state: what InspectStatus answered; quiet: the rows it read named
\* exactly the containers there are, and nobody else has moved one since.
NoJob == [at |-> "idle", type |-> "start", svc |-> NoRow, todo |-> << >>, found |-> {},
          state |-> "none", quiet |-> TRUE]

HostInit ==
  /\ InventoryInit
  /\ alive = TRUE
  /\ queue = << >>
  /\ job = NoJob

-----------------------------------------------------------------------------
(* Requests: handleLifecycle and handleRemove.                             *)

Request(t, s) ==
  /\ alive
  /\ svcRow[s] # NoRow
  /\ t = "remove" => ProjectOf[s] \in Standalone /\ svcRow[s].state = "exited"
  /\ Upset
  /\ queue' = Append(queue, [type |-> t, svc |-> s])
  /\ UNCHANGED <<box, nextBox, onDisk, rowVars, pass, clock, lastSeen, alive, job>>

-----------------------------------------------------------------------------
(* The handler.                                                            *)

jobUnchanged == <<onDisk, pass, clock, lastSeen>>

\* An enumeration of a set of ids; the code keeps the order of the row.
Listed(ids) ==
  CHOOSE f \in [1..Cardinality(ids) -> ids] : \A i \in ids : \E n \in 1..Cardinality(ids) : f[n] = i

CallAll(call, ids) == [n \in 1..Cardinality(ids) |-> <<call, Listed(ids)[n]>>]

\* dependentContainerIDs: the stored ids of the namespace dependents, none
\* when the project has no compose file that parses.
DependentIds(s) ==
  IF ProjectOf[s] \notin onDisk THEN {}
  ELSE UNION {svcRow[d].ids : d \in {e \in Dependents[s] : svcRow[e] # NoRow}}

\* Mutant: the target is stopped before its dependents.
StopOrderTargetFirst(s) == CallAll("stop", svcRow[s].ids) \o CallAll("stop", DependentIds(s))

\* runOrderedWithDeps.
StopOrder(s) == CallAll("stop", DependentIds(s)) \o CallAll("stop", svcRow[s].ids)

StartOrder(s) == CallAll("start", svcRow[s].ids) \o CallAll("start", DependentIds(s))

\* What Handle is going to call.  runRemove refuses anything but a standalone
\* container whose stored state is stopped, and inspects every id first.
Plan(t, s) ==
  CASE t = "stop"    -> StopOrder(s)
    [] t = "start"   -> StartOrder(s)
    [] t = "restart" -> StopOrder(s) \o StartOrder(s)
    [] t = "remove"  -> CallAll("inspect", svcRow[s].ids) \o CallAll("remove", svcRow[s].ids)

Removable(s) == ProjectOf[s] \in Standalone /\ svcRow[s].state = "exited"

\* Lifecycle.Handle reads the rows; without one the job fails.
Load ==
  /\ alive /\ job.at = "idle" /\ queue # << >>
  /\ LET t == Head(queue).type
         s == Head(queue).svc
         refused == svcRow[s] = NoRow \/ (t = "remove" /\ ~Removable(s))
     IN  job' = IF refused THEN NoJob
                ELSE [NoJob EXCEPT !.at = "act", !.type = t, !.svc = s, !.todo = Plan(t, s),
                                   !.quiet = /\ Dependents[s] # {} => ProjectOf[s] \in onDisk
                                             /\ \A d \in {s} \union Dependents[s] :
                                                  svcRow[d] # NoRow /\ svcRow[d].ids = BoxesOf(d)]
  /\ queue' = Tail(queue)
  /\ UNCHANGED <<jobUnchanged, box, nextBox, rowVars, alive, used>>

\* Whether the next call succeeds.  The daemon refuses to remove a running
\* container, and runRemove goes no further when an inspect finds one.  A
\* container that restarts counts as running: both refuse it alike.
Can(call, i) ==
  CASE call \in {"start", "stop"} -> box[i] # NoBox
    [] call = "inspect" -> box[i].state # "running"
    [] call = "remove"  -> box[i] # NoBox /\ box[i].state # "running"

After(call, i) ==
  CASE call = "stop"    -> [box EXCEPT ![i].state = "exited"]
    [] call = "start"   -> [box EXCEPT ![i].state = "running"]
    [] call = "inspect" -> box
    [] call = "remove"  -> [box EXCEPT ![i] = NoBox]

\* One Docker call; the first error fails the job, but a failing inspect leaves
\* the verdict to the daemon.
Act ==
  /\ alive /\ job.at = "act" /\ job.todo # << >>
  /\ LET call == Head(job.todo)[1]
         i == Head(job.todo)[2]
     IN  \/ /\ Can(call, i)
            /\ box' = After(call, i)
            /\ job' = [job EXCEPT !.todo = Tail(@)]
            /\ UNCHANGED used
         \/ ~Can(call, i) /\ job' = NoJob /\ UNCHANGED <<box, used>>
         \/ call # "inspect" /\ Upset /\ job' = NoJob /\ UNCHANGED box
         \/ call = "inspect" /\ Upset /\ job' = [job EXCEPT !.todo = Tail(@)] /\ UNCHANGED box
  /\ UNCHANGED <<jobUnchanged, nextBox, rowVars, queue, alive>>

\* All calls made.  rediscover, unless the container is gone for good:
\* LocateService looks the service up by name.
Locate ==
  /\ alive /\ job.at = "act" /\ job.todo = << >>
  /\ LET found == IF job.type = "remove" THEN {} ELSE BoxesOf(job.svc) IN
     \/ /\ job' = IF found = {} THEN NoJob ELSE [job EXCEPT !.at = "runtime", !.found = found]
        /\ UNCHANGED used
     \/ found # {} /\ Upset /\ job' = NoJob
  /\ UNCHANGED <<jobUnchanged, box, nextBox, rowVars, queue, alive>>

\* services.UpdateRuntime; no row, no effect, and an error is only logged.
Runtime ==
  /\ alive /\ job.at = "runtime"
  /\ \/ /\ svcRow' = IF svcRow[job.svc] = NoRow THEN svcRow
                     ELSE [svcRow EXCEPT ![job.svc].ids = job.found]
        /\ UNCHANGED used
     \/ Upset /\ UNCHANGED svcRow
  /\ job' = [job EXCEPT !.at = "inspect"]
  /\ UNCHANGED <<jobUnchanged, box, nextBox, projRow, queue, alive>>

\* InspectStatus of the first container found; an error is ignored.
InspectState ==
  /\ alive /\ job.at = "inspect"
  /\ LET i == CHOOSE j \in job.found : \A k \in job.found : k <= j IN
     \/ /\ job' = IF box[i] = NoBox THEN NoJob ELSE [job EXCEPT !.at = "state", !.state = box[i].state]
        /\ UNCHANGED used
     \/ Upset /\ job' = NoJob
  /\ UNCHANGED <<jobUnchanged, box, nextBox, rowVars, queue, alive>>

\* services.UpdateState: the state only, gone_since stays; an error is only
\* logged.
StampState ==
  /\ alive /\ job.at = "state"
  /\ \/ /\ svcRow' = IF svcRow[job.svc] = NoRow THEN svcRow
                     ELSE [svcRow EXCEPT ![job.svc].state = job.state]
        /\ UNCHANGED used
     \/ Upset /\ UNCHANGED svcRow
  /\ job' = NoJob
  /\ UNCHANGED <<jobUnchanged, box, nextBox, projRow, queue, alive>>

JobStep == Load \/ Act \/ Locate \/ Runtime \/ InspectState \/ StampState

-----------------------------------------------------------------------------
(* The process, and everything together.                                   *)

Crash ==
  /\ alive /\ Upset
  /\ alive' = FALSE
  /\ pass' = NoPass
  /\ UNCHANGED <<box, nextBox, onDisk, rowVars, clock, lastSeen, queue, job>>

\* ResumeInterrupted queues the interrupted job again.
Boot ==
  /\ ~alive
  /\ alive' = TRUE
  /\ queue' = IF job.at = "idle" THEN queue
              ELSE <<[type |-> job.type, svc |-> job.svc]>> \o queue
  /\ job' = NoJob
  /\ UNCHANGED inventoryVars

HostStep ==
  /\ HostMoves
  /\ job' = [job EXCEPT !.quiet = job.at = "idle"]
  /\ UNCHANGED <<alive, queue>>

FilesStep == FilesMove /\ UNCHANGED jobVars
ClockStep == Tick /\ UNCHANGED jobVars
RegisterStep == alive /\ (\E p \in Projects : Register(p)) /\ UNCHANGED jobVars
ReconcileStep == alive /\ (PassCollect \/ PassStep) /\ UNCHANGED jobVars
ReconcileFails == alive /\ PassAborts /\ UNCHANGED jobVars

HostNext ==
  \/ HostStep
  \/ FilesStep
  \/ ClockStep
  \/ RegisterStep
  \/ ReconcileStep
  \/ ReconcileFails
  \/ \E t \in JobTypes, s \in Services : Request(t, s)
  \/ JobStep
  \/ Crash
  \/ Boot

HostSpec == HostInit /\ [][HostNext]_hostVars

\* The sync ticker and the Docker events keep passes coming, and a supervisor
\* starts the process again.
HostFairness == WF_hostVars(ReconcileStep) /\ WF_hostVars(Boot)

FairHostSpec == HostSpec /\ HostFairness

-----------------------------------------------------------------------------
(* Properties.                                                             *)

\* The values Docker's containers, the two tables, the pass and the job take,
\* and the foreign key: no service row without its project's.
InventoryTypeOK ==
  /\ box \in [Ids -> {NoBox} \union [svc : Services, state : BoxStates]]
  /\ nextBox \in 1..(Len(ServiceSeq) + MaxUpsets + 1)
  /\ onDisk \subseteq Projects
  /\ projRow \in [Projects -> {NoRow} \union ProjectRows]
  /\ svcRow \in [Services -> {NoRow} \union ServiceRows]
  /\ \A s \in Services : svcRow[s] # NoRow => projRow[ProjectOf[s]] # NoRow
  /\ pass.at \in {"idle", "upsert", "gone", "prune"}
  /\ alive \in BOOLEAN
  /\ job.type \in JobTypes /\ job.svc \in Services \union {NoRow}

\* A service row, and with it the service's updates, snapshots and history, is
\* deleted only when no pass within the grace period had recorded the service
\* as present: a blink of the container, a failed inspect, an aborted pass or
\* an earlier absence never cost the row.
PrunedOnlyAfterGrace ==
  [][\A s \in Services :
       svcRow[s] # NoRow /\ svcRow'[s] = NoRow => lastSeen[s] + Grace <= clock]_hostVars

\* "Manual-source projects are never subject to mark-gone" (Reconcile), however
\* old the list is that the pass works from, and they are never pruned.
ManualKept ==
  [][\A s \in Services :
       svcRow[s] # NoRow /\ projRow[ProjectOf[s]].source = "manual" =>
         svcRow'[s] # NoRow /\ (svcRow'[s].state = "gone" => svcRow[s].state = "gone")]_hostVars

\* A lifecycle job takes the provider of a shared namespace down only after
\* its dependents, and brings a dependent up only after its provider, as long
\* as the rows it read were right and nobody else moved a container.
ProviderOrder ==
  [][Act /\ job.quiet =>
       \A i \in Ids : box[i] # NoBox /\ box'[i] # box[i] =>
         /\ box[i].svc = job.svc /\ box'[i].state = "exited" =>
              \A d \in Dependents[job.svc] : \A k \in BoxesOf(d) : box[k].state = "exited"
         /\ box[i].svc \in Dependents[job.svc] /\ box'[i].state = "running" =>
              \A k \in BoxesOf(job.svc) : box[k].state = "running"]_hostVars

\* The tables agree with Docker: containers are recorded as they are, rows
\* without one say so (a manual project's may keep what they last said), and
\* the unmanaged flag of a compose project that runs is right.
Agrees ==
  \A s \in Services :
    LET p == ProjectOf[s] IN
    IF BoxesOf(s) # {}
    THEN /\ svcRow[s] = [ids |-> BoxesOf(s), state |-> Seen(s, {}).state, gone |-> Never]
         /\ p \in Standalone \/ projRow[p].unmanaged = (p \notin onDisk)
    ELSE \/ svcRow[s] = NoRow
         \/ svcRow[s].state = "gone" \/ projRow[p].source = "manual"

\* While the process runs, the tables catch up with Docker again and again,
\* whatever jobs, failing passes and registrations wrote in between.
InventoryCatchesUp == []<>(alive => Agrees)
=============================================================================
