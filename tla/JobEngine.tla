----------------------------- MODULE JobEngine -----------------------------
(***************************************************************************)
(* The persisted job queue and its worker pool (internal/job/queue.go,     *)
(* internal/job/lock.go, internal/store/jobs.go).                          *)
(*                                                                         *)
(* The jobs table survives a crash; workers, the keyed mutex and what a    *)
(* worker holds do not.  A worker claims a job (one atomic UPDATE) BEFORE  *)
(* it takes the project lock, runs the handler under the lock, releases    *)
(* the lock and only then closes the job's log streams.  The log streams   *)
(* themselves are added by module LogStreams.                              *)
(***************************************************************************)
EXTENDS Naturals, FiniteSets

CONSTANTS
  Workers,      \* the goroutines of the pool (setting "concurrency")
  Keys,         \* lock keys: project ids, and 0 for jobs without a project
  NoWorker,     \* the holder of a free lock
  MaxJobs,      \* bound: number of Enqueue calls
  MaxStops,     \* bound: number of crashes and shutdowns
  MaxLost       \* bound: number of jobs.Finish writes that fail

ASSUME EngineAssumption ==
  /\ Workers # {} /\ IsFiniteSet(Workers)
  /\ Keys # {}
  /\ NoWorker \notin Workers
  /\ MaxJobs \in Nat /\ MaxStops \in Nat /\ MaxLost \in Nat

\* Job ids come from an AUTOINCREMENT column: never reused, even after a delete.
JobIds == 1..MaxJobs
NoJob == 0

VARIABLES
  status,   \* jobs.status per id; "none" before Enqueue, "deleted" after a purge
  key,      \* the job's lock key (its project id, 0 without one)
  nextId,   \* the id the next Enqueue returns
  up,       \* the process: "up", "draining" (ctx cancelled) or "down"
  pc,       \* where each worker stands in worker/dispatch
  cur,      \* the job each worker has claimed
  holder,   \* keyedMutex: the worker that holds each key
  stops,    \* crashes and shutdowns so far
  lost      \* jobs that nobody will end before the next boot, as their
            \* terminal write or the last boot's resume failed (history)

rowVars == <<status, key, nextId>>
workerVars == <<pc, cur, holder>>
vars == <<status, key, nextId, up, pc, cur, holder, stops, lost>>

Terminal == {"success", "failed"}
Statuses == {"none", "queued", "running", "deleted"} \union Terminal
PCs == {"idle", "locking", "handling", "returning", "closing", "exited"}

Queued == {j \in JobIds : status[j] = "queued"}

\* Mutant: a claim that does not flip away from running rows
\* (status IN ('queued','running')).
OldestUnfinished(j) ==
  /\ status[j] \in {"queued", "running"}
  /\ \A i \in JobIds : status[i] \in {"queued", "running"} => j <= i

\* SELECT id FROM jobs WHERE status='queued' ORDER BY id LIMIT 1.
Oldest(j) == j \in Queued /\ \A i \in Queued : j <= i

Init ==
  /\ status = [j \in JobIds |-> "none"]
  /\ key \in [JobIds -> Keys]
  /\ nextId = 1
  /\ up = "up"
  /\ pc = [w \in Workers |-> "idle"]
  /\ cur = [w \in Workers |-> NoJob]
  /\ holder = [k \in Keys |-> NoWorker]
  /\ stops = 0
  /\ lost = {}

-----------------------------------------------------------------------------
(* The queue's clients: HTTP handlers, the scheduler, the history pruner.  *)

\* Engine.Enqueue: insert a queued row.  The row's key was drawn in Init.
\* HTTP keeps serving until the process is gone, so draining does not block it.
Enqueue ==
  /\ up # "down"
  /\ nextId <= MaxJobs
  /\ status' = [status EXCEPT ![nextId] = "queued"]
  /\ nextId' = nextId + 1
  /\ UNCHANGED <<key, up, workerVars, stops, lost>>

\* Which rows a purge removes: terminal ones only.
Purgeable(j) == status[j] \in Terminal

\* Jobs.DeleteFinished (all of them) and DeleteFinishedBefore (the older ones):
\* a DELETE of some non-empty set of purgeable rows, the worker side untouched.
DeleteFinished ==
  /\ up # "down"
  /\ \E last \in JobIds :
       LET doomed == {j \in JobIds : j <= last /\ Purgeable(j)} IN
         /\ doomed # {}
         /\ status' = [j \in JobIds |-> IF j \in doomed THEN "deleted" ELSE status[j]]
  /\ UNCHANGED <<key, nextId, up, workerVars, stops, lost>>

-----------------------------------------------------------------------------
(* One worker: worker() and dispatch().                                    *)

\* ClaimNext: flip the oldest queued row to running.  No lock is held yet.
Claim(w) ==
  /\ up = "up"
  /\ pc[w] = "idle"
  /\ \E j \in JobIds :
       /\ Oldest(j)
       /\ status' = [status EXCEPT ![j] = "running"]
       /\ cur' = [cur EXCEPT ![w] = j]
  /\ pc' = [pc EXCEPT ![w] = "locking"]
  /\ UNCHANGED <<key, nextId, up, holder, stops, lost>>

\* ClaimNext found nothing (or failed): sleep for the poll interval and loop.
Poll(w) ==
  /\ up = "up"
  /\ pc[w] = "idle"
  /\ UNCHANGED vars

\* The worker loop sees the cancelled context at its top and returns.
Exit(w) ==
  /\ up = "draining"
  /\ pc[w] = "idle"
  /\ pc' = [pc EXCEPT ![w] = "exited"]
  /\ UNCHANGED <<rowVars, up, cur, holder, stops, lost>>

\* Mutant: one mutex per worker pool slot instead of per key; Lock never waits.
AcquireNoWait(w) ==
  /\ pc[w] = "locking"
  /\ holder' = [holder EXCEPT ![key[cur[w]]] = w]
  /\ pc' = [pc EXCEPT ![w] = "handling"]
  /\ UNCHANGED <<rowVars, up, cur, stops, lost>>

\* keyedMutex.Lock(key): blocks while another worker holds the key.
Acquire(w) ==
  /\ pc[w] = "locking"
  /\ holder[key[cur[w]]] = NoWorker
  /\ holder' = [holder EXCEPT ![key[cur[w]]] = w]
  /\ pc' = [pc EXCEPT ![w] = "handling"]
  /\ UNCHANGED <<rowVars, up, cur, stops, lost>>

\* Jobs.Finish: an unguarded UPDATE ... WHERE id=?; it hits nothing when the
\* row is gone.
Recorded(j, s) == [status EXCEPT ![j] = IF @ \in {"none", "deleted"} THEN @ ELSE s]

\* The handler records the terminal result.
Finish(w, s) ==
  /\ pc[w] = "handling"
  /\ status' = Recorded(cur[w], s)
  /\ pc' = [pc EXCEPT ![w] = "returning"]
  /\ UNCHANGED <<key, nextId, up, cur, holder, stops, lost>>

\* The handler's Finish write fails; every caller drops or only logs the error.
FinishLost(w) ==
  /\ pc[w] = "handling"
  /\ Cardinality(lost) < MaxLost
  /\ lost' = lost \union {cur[w]}
  /\ pc' = [pc EXCEPT ![w] = "returning"]
  /\ UNCHANGED <<rowVars, up, cur, holder, stops>>

\* Mutant: the panic path records a status of its own.
PanicStatus(w) ==
  /\ pc[w] \in {"handling", "returning"}
  /\ status' = Recorded(cur[w], "panicked")
  /\ pc' = [pc EXCEPT ![w] = "returning"]
  /\ UNCHANGED <<key, nextId, up, cur, holder, stops, lost>>

\* A panic before or after the handler's own Finish: the deferred recover()
\* records "failed".
Panic(w) ==
  /\ pc[w] \in {"handling", "returning"}
  /\ status' = Recorded(cur[w], "failed")
  /\ pc' = [pc EXCEPT ![w] = "returning"]
  /\ UNCHANGED <<key, nextId, up, cur, holder, stops, lost>>

\* Mutant: the lock is released on the success path only, not in a defer.
UnlockOnSuccess(w) ==
  /\ pc[w] = "returning"
  /\ holder' = [holder EXCEPT ![key[cur[w]]] =
                  IF status[cur[w]] = "failed" THEN @ ELSE NoWorker]
  /\ pc' = [pc EXCEPT ![w] = "closing"]
  /\ UNCHANGED <<rowVars, up, cur, stops, lost>>

\* The deferred Unlock(key).
Unlock(w) ==
  /\ pc[w] = "returning"
  /\ holder' = [holder EXCEPT ![key[cur[w]]] = NoWorker]
  /\ pc' = [pc EXCEPT ![w] = "closing"]
  /\ UNCHANGED <<rowVars, up, cur, stops, lost>>

\* closeStreams and OnFinish, after the lock is released; back to the loop.
Done(w) ==
  /\ pc[w] = "closing"
  /\ pc' = [pc EXCEPT ![w] = "idle"]
  /\ cur' = [cur EXCEPT ![w] = NoJob]
  /\ UNCHANGED <<rowVars, up, holder, stops, lost>>

-----------------------------------------------------------------------------
(* The process.                                                            *)

\* SIGTERM: the signal context is cancelled; claimed jobs still run to an end.
Shutdown ==
  /\ up = "up"
  /\ stops < MaxStops
  /\ up' = "draining"
  /\ stops' = stops + 1
  /\ UNCHANGED <<rowVars, workerVars, lost>>

\* wg.Wait returned: every worker has exited and the process ends.
Stopped ==
  /\ up = "draining"
  /\ \A w \in Workers : pc[w] = "exited"
  /\ up' = "down"
  /\ UNCHANGED <<rowVars, workerVars, stops, lost>>

\* The process dies anywhere; only the rows remain.
Crash ==
  /\ up # "down"
  /\ stops < MaxStops
  /\ up' = "down"
  /\ stops' = stops + 1
  /\ pc' = [w \in Workers |-> "exited"]
  /\ cur' = [w \in Workers |-> NoJob]
  /\ holder' = [k \in Keys |-> NoWorker]
  /\ UNCHANGED <<rowVars, lost>>

\* Mutant: the boot-time resume also re-queues failed jobs.
ResumedFailed ==
  [j \in JobIds |-> IF status[j] \in {"running", "failed"} THEN "queued" ELSE status[j]]

\* Mutant: no boot-time resume.
ResumedNone == status

\* ResumeRunning: running -> queued, for every row.
Resumed == [j \in JobIds |-> IF status[j] = "running" THEN "queued" ELSE status[j]]

\* Boot: ResumeInterrupted runs before Start launches any worker.  main only
\* logs its error: the workers start, and the rows found running stay so.
Boot ==
  /\ up = "down"
  /\ up' = "up"
  /\ \/ status' = Resumed /\ lost' = {}
     \/ status' = status /\ lost' = {j \in JobIds : status[j] = "running"}
  /\ pc' = [w \in Workers |-> "idle"]
  /\ UNCHANGED <<key, nextId, cur, holder, stops>>

WorkerStep(w) ==
  \/ Claim(w)
  \/ Poll(w)
  \/ Exit(w)
  \/ Acquire(w)
  \/ \E s \in Terminal : Finish(w, s)
  \/ FinishLost(w)
  \/ Panic(w)
  \/ Unlock(w)
  \/ Done(w)

Next ==
  \/ Enqueue
  \/ DeleteFinished
  \/ \E w \in Workers : WorkerStep(w)
  \/ Shutdown
  \/ Stopped
  \/ Crash
  \/ Boot

Spec == Init /\ [][Next]_vars

\* A live worker goroutine keeps being scheduled; sync.Mutex hands a starved
\* waiter the lock (starvation mode), hence SF on Acquire; handlers return
\* (WF on Finish); a stopped process is started again.
Fairness ==
  /\ \A w \in Workers :
       /\ WF_vars(Claim(w))
       /\ WF_vars(Exit(w))
       /\ SF_vars(Acquire(w))
       /\ WF_vars(\E s \in Terminal : Finish(w, s))
       /\ WF_vars(Unlock(w))
       /\ WF_vars(Done(w))
  /\ WF_vars(Stopped)
  /\ WF_vars(Boot)

FairSpec == Spec /\ Fairness

-----------------------------------------------------------------------------
(* Properties.                                                             *)

TypeOK ==
  /\ status \in [JobIds -> Statuses]
  /\ key \in [JobIds -> Keys]
  /\ nextId \in 1..(MaxJobs + 1)
  /\ up \in {"up", "draining", "down"}
  /\ pc \in [Workers -> PCs]
  /\ cur \in [Workers -> JobIds \union {NoJob}]
  /\ holder \in [Keys -> Workers \union {NoWorker}]
  /\ stops \in 0..MaxStops
  /\ lost \in SUBSET JobIds

\* A worker is inside a handler from Acquire until Unlock.
InHandler(w) == pc[w] \in {"handling", "returning"}

\* "one in-flight job per project" (lock.go, queue.go): two workers never run
\* handlers of the same key at once, although both may have claimed such jobs.
OneInFlightPerProject ==
  \A v, w \in Workers :
    InHandler(v) /\ InHandler(w) /\ key[cur[v]] = key[cur[w]] => v = w

\* No job is claimed by two workers, across crashes and resumes too
\* ("guarantees no job is claimed twice", jobs.go).
ClaimedOnce ==
  \A v, w \in Workers : cur[v] # NoJob /\ cur[v] = cur[w] => v = w

\* A row says running exactly as long as some worker is responsible for it.
\* What the code leaves running with nobody to finish it are the rows of a
\* process that is down, those whose terminal write failed, and those the last
\* boot failed to resume (main.go only logs that); the next boot whose resume
\* succeeds leaves none.
RunningHasOwner ==
  \A j \in JobIds :
    status[j] = "running" =>
      \/ up = "down"
      \/ j \in lost
      \/ \E w \in Workers : cur[w] = j /\ pc[w] # "closing"

\* A finished job never runs again: not by a late worker step, a panic, a
\* purge or the boot-time resume.
FinishedStaysFinished ==
  [][\A j \in JobIds :
       status[j] \in Terminal \union {"deleted"} =>
         status'[j] \in Terminal \union {"deleted"}]_vars

\* Every queued job is eventually finished, whatever the interleaving of claims
\* and locks and across restarts, as long as the database takes its writes: a
\* job whose terminal write is lost, or that a crash interrupts and the next
\* boot fails to resume, stays running until a boot whose resume succeeds.
QueuedEventuallyEnds ==
  \A j \in JobIds :
    status[j] = "queued" ~> (status[j] \in Terminal \union {"deleted"} \/ j \in lost)

-----------------------------------------------------------------------------
(* The inductive invariant behind the properties above.                    *)

Busy(w) == pc[w] \in {"locking", "handling", "returning", "closing"}

\* A job whose handler ended: its result is in the row, or the write was lost.
Ended(j) == status[j] \in Terminal \union {"deleted"} \/ (status[j] = "running" /\ j \in lost)

\* Ids from nextId on have no row yet.
FreshIds == \A j \in JobIds : j >= nextId => status[j] = "none"

\* A job whose result was lost is not queued again before the next boot.
LostNotQueued == \A j \in lost : status[j] \notin {"none", "queued"}

\* A worker has a job exactly while it is busy, and the row agrees with how
\* far the worker has got.
WorkerJob ==
  \A w \in Workers :
    /\ Busy(w) <=> cur[w] # NoJob
    /\ pc[w] \in {"locking", "handling"} => status[cur[w]] = "running" /\ cur[w] \notin lost
    /\ pc[w] \in {"returning", "closing"} => Ended(cur[w])

\* A key is held by the worker inside a handler of that key, and by no other.
LockMatches ==
  /\ \A w \in Workers : InHandler(w) => holder[key[cur[w]]] = w
  /\ \A k \in Keys : holder[k] # NoWorker => InHandler(holder[k]) /\ key[cur[holder[k]]] = k

\* Nobody works in a process that is down.
DownIsQuiet == up = "down" => \A w \in Workers : pc[w] = "exited"

EngineInv ==
  /\ TypeOK
  /\ FreshIds
  /\ LostNotQueued
  /\ WorkerJob
  /\ ClaimedOnce
  /\ LockMatches
  /\ DownIsQuiet
  /\ RunningHasOwner

-----------------------------------------------------------------------------
(* The abstraction: what a client can observe of a job.                    *)

ClientView(j) ==
  IF status[j] = "none" THEN "none"
  ELSE IF \E w \in Workers : InHandler(w) /\ cur[w] = j THEN "active"
  ELSE IF status[j] \in Terminal \union {"deleted"} THEN "over"
  ELSE "waiting"

PQ == INSTANCE ProjectQueue WITH
        Jobs <- JobIds, Projects <- Keys,
        st <- [j \in JobIds |-> ClientView(j)], project <- key

\* The engine implements ProjectQueue: each of its steps is a step of the
\* abstract queue or leaves it alone, so jobs of a project run one at a time
\* and a job that is over never runs again.
ImplementsProjectQueue == PQ!Spec

=============================================================================
