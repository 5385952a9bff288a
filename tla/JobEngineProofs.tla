-------------------------- MODULE JobEngineProofs --------------------------
(***************************************************************************)
(* Proofs about the job engine for every number of workers, projects,      *)
(* jobs and stops, and about the live log streams for any number of        *)
(* clients, pipes, lines and buffers.  EngineInv is inductive; the safety  *)
(* properties and the refinement of ProjectQueue follow from it.  The      *)
(* streams never change what the engine does, and StreamInv is inductive   *)
(* together with EngineInv.                                                *)
(***************************************************************************)
EXTENDS LogStreams, TLAPS

USE DEF JobIds, NoJob, Terminal

\* Adding a member of S to a subset of S gives a subset of S.
LEMMA AddElement == ASSUME NEW S, NEW T \in SUBSET S, NEW x \in S
                    PROVE  T \union {x} \in SUBSET S
  OBVIOUS

\* Every initial state of the engine satisfies the inductive invariant.
LEMMA InitInv == Init => EngineInv
  BY EngineAssumption
     DEF Init, EngineInv, TypeOK, FreshIds, LostNotQueued, WorkerJob, ClaimedOnce, LockMatches,
         DownIsQuiet, RunningHasOwner, Busy, InHandler, Ended, Statuses, PCs

\* Every step of the engine (one case per action) preserves the invariant.
LEMMA StepInv == EngineInv /\ [Next]_vars => EngineInv'
  <1> SUFFICES ASSUME EngineInv, [Next]_vars PROVE EngineInv'
    OBVIOUS
  <1> USE EngineAssumption
      DEF EngineInv, TypeOK, FreshIds, LostNotQueued, WorkerJob, ClaimedOnce, LockMatches,
          DownIsQuiet, RunningHasOwner, Busy, InHandler, Ended, Statuses, PCs,
          vars, rowVars, workerVars
  <1>1. CASE Enqueue
    BY <1>1 DEF Enqueue
  <1>2. CASE DeleteFinished
    BY <1>2 DEF DeleteFinished, Purgeable
  <1>3. ASSUME NEW w \in Workers, Claim(w) PROVE EngineInv'
    <2>1. PICK j \in JobIds : /\ status[j] = "queued"
                              /\ status' = [status EXCEPT ![j] = "running"]
                              /\ cur' = [cur EXCEPT ![w] = j]
      BY <1>3 DEF Claim, Oldest, Queued
    <2>2. /\ pc[w] = "idle" /\ up = "up" /\ pc' = [pc EXCEPT ![w] = "locking"]
          /\ UNCHANGED <<key, nextId, up, holder, stops, lost>>
      BY <1>3 DEF Claim
    <2>3. \A v \in Workers : cur[v] # j   \* an owned job is not queued
      BY <2>1
    <2>4. TypeOK'
      BY <2>1, <2>2
    <2>5. FreshIds' /\ LostNotQueued' /\ DownIsQuiet'
      BY <2>1, <2>2
    <2>6. WorkerJob' /\ ClaimedOnce'
      BY <2>1, <2>2, <2>3
    <2>7. LockMatches'
      BY <2>1, <2>2, <2>3
    <2>8. RunningHasOwner'
      BY <2>1, <2>2, <2>3
    <2>. QED
      BY <2>4, <2>5, <2>6, <2>7, <2>8
  <1>4. ASSUME NEW w \in Workers, Poll(w) PROVE EngineInv'
    BY <1>4 DEF Poll
  <1>5. ASSUME NEW w \in Workers, Exit(w) PROVE EngineInv'
    BY <1>5 DEF Exit
  <1>6. ASSUME NEW w \in Workers, Acquire(w) PROVE EngineInv'
    BY <1>6 DEF Acquire
  <1>7. ASSUME NEW w \in Workers, NEW s \in Terminal, Finish(w, s) PROVE EngineInv'
    BY <1>7 DEF Finish, Recorded
  <1>8. ASSUME NEW w \in Workers, FinishLost(w) PROVE EngineInv'
    <2>1. /\ pc[w] = "handling" /\ cur[w] \in JobIds /\ status[cur[w]] = "running"
          /\ lost' = lost \union {cur[w]} /\ pc' = [pc EXCEPT ![w] = "returning"]
          /\ UNCHANGED <<rowVars, up, cur, holder, stops>>
      BY <1>8 DEF FinishLost
    <2>2. \A v \in Workers : v # w => cur[v] # cur[w]
      BY <2>1
    <2>3. TypeOK' /\ FreshIds' /\ LostNotQueued' /\ ClaimedOnce' /\ DownIsQuiet'
      <3>1. lost' \in SUBSET JobIds
        <4>1. lost \in SUBSET JobIds
          OBVIOUS
        <4>. QED
          BY ONLY <2>1, <4>1, AddElement
      <3>2. TypeOK'
        BY <2>1, <3>1
      <3>3. \A i \in lost' : i \in lost \/ i = cur[w]
        BY <2>1
      <3>4. LostNotQueued'
        BY <2>1, <3>3
      <3>. QED
        BY <2>1, <3>2, <3>4
    <2>4. WorkerJob'
      <3> SUFFICES ASSUME NEW v \in Workers
                   PROVE  /\ (Busy(v) <=> cur[v] # NoJob)'
                          /\ (pc[v] \in {"locking", "handling"} =>
                                status[cur[v]] = "running" /\ cur[v] \notin lost)'
                          /\ (pc[v] \in {"returning", "closing"} => Ended(cur[v]))'
        BY DEF WorkerJob
      <3>1. CASE v = w
        BY <2>1, <3>1
      <3>2. CASE v # w
        BY <2>1, <2>2, <3>2
      <3>. QED
        BY <3>1, <3>2
    <2>5. LockMatches'
      BY <2>1
    <2>6. RunningHasOwner'
      BY <2>1, <2>2
    <2>. QED
      BY <2>3, <2>4, <2>5, <2>6
  <1>9. ASSUME NEW w \in Workers, Panic(w) PROVE EngineInv'
    BY <1>9 DEF Panic, Recorded
  <1>10. ASSUME NEW w \in Workers, Unlock(w) PROVE EngineInv'
    BY <1>10 DEF Unlock
  <1>11. ASSUME NEW w \in Workers, Done(w) PROVE EngineInv'
    BY <1>11 DEF Done
  <1>12. CASE Shutdown
    BY <1>12 DEF Shutdown
  <1>13. CASE Stopped
    BY <1>13 DEF Stopped
  <1>14. CASE Crash
    BY <1>14 DEF Crash
  <1>15. CASE Boot
    BY <1>15 DEF Boot, Resumed
  <1>16. CASE UNCHANGED vars
    BY <1>16
  <1>. QED
    BY <1>1, <1>2, <1>3, <1>4, <1>5, <1>6, <1>7, <1>8, <1>9, <1>10, <1>11, <1>12, <1>13, <1>14, <1>15, <1>16 DEF Next, WorkerStep

\* The engine's rows, workers and locks always have the values and the
\* relations EngineInv states, TypeOK among them.
THEOREM EngineInvariant == Spec => []EngineInv
  BY InitInv, StepInv, PTL DEF Spec

\* Type correctness of the engine's state.
THEOREM TypeCorrect == Spec => []TypeOK
  BY EngineInvariant, PTL DEF EngineInv

\* The keyed mutex does its job although jobs are claimed before it is taken:
\* at most one handler per project, for any number of workers and restarts.
THEOREM MutualExclusion == Spec => []OneInFlightPerProject
  <1>1. EngineInv => OneInFlightPerProject
    BY DEF EngineInv, LockMatches, OneInFlightPerProject
  <1>. QED
    BY <1>1, EngineInvariant, PTL

\* ClaimNext never gives one job to two workers.
THEOREM NoDoubleClaim == Spec => []ClaimedOnce
  BY EngineInvariant, PTL DEF EngineInv

\* No row is left running without a worker or a coming boot, unless a write of
\* its end was lost or a boot could not resume it (ResumeInterrupted's error is
\* only logged, main.go:256-257).
THEOREM NoOrphans == Spec => []RunningHasOwner
  BY EngineInvariant, PTL DEF EngineInv

\* A finished or purged job never becomes queued or running again.
THEOREM FinishedIsFinal == Spec => FinishedStaysFinished
  <1> DEFINE Kept == \A j \in JobIds :
                       status[j] \in Terminal \union {"deleted"} =>
                         status'[j] \in Terminal \union {"deleted"}
  <1>1. EngineInv /\ [Next]_vars => [Kept]_vars
    <2> SUFFICES ASSUME EngineInv, Next PROVE Kept
      OBVIOUS
    <2> USE DEF EngineInv, TypeOK, Statuses
    <2>1. CASE Enqueue
      BY <2>1 DEF Enqueue, FreshIds
    <2>2. CASE DeleteFinished
      BY <2>2 DEF DeleteFinished
    <2>3. ASSUME NEW w \in Workers, WorkerStep(w) PROVE Kept
      <3>1. CASE Claim(w)
        BY <3>1 DEF Claim, Oldest, Queued
      <3>2. CASE Panic(w) \/ \E s \in Terminal : Finish(w, s)
        BY <3>2 DEF Panic, Finish, Recorded
      <3>3. CASE Poll(w) \/ Exit(w) \/ Acquire(w) \/ FinishLost(w) \/ Unlock(w) \/ Done(w)
        BY <3>3 DEF Poll, Exit, Acquire, FinishLost, Unlock, Done, vars, rowVars
      <3>. QED
        BY <2>3, <3>1, <3>2, <3>3 DEF WorkerStep
    <2>4. CASE Shutdown \/ Stopped \/ Crash
      BY <2>4 DEF Shutdown, Stopped, Crash, rowVars
    <2>5. CASE Boot
      BY <2>5 DEF Boot, Resumed
    <2>. QED
      BY <2>1, <2>2, <2>3, <2>4, <2>5 DEF Next
  <1>. QED
    BY <1>1, EngineInvariant, PTL DEF Spec, FinishedStaysFinished

-----------------------------------------------------------------------------
(* The refinement of ProjectQueue.                                         *)

View == [j \in JobIds |-> ClientView(j)]

\* A step that changes no job's view and no project is a stutter of the
\* abstract queue.
LEMMA SameView ==
  ASSUME EngineInv, UNCHANGED key, \A j \in JobIds : ClientView(j)' = ClientView(j)
  PROVE  UNCHANGED PQ!qvars
  BY DEF PQ!qvars

\* A step that changes the view of one job only updates the abstract state
\* at that job.
LEMMA OneView ==
  ASSUME NEW j \in JobIds, NEW r, ClientView(j)' = r,
         \A i \in JobIds : i # j => ClientView(i)' = ClientView(i)
  PROVE  View' = [View EXCEPT ![j] = r]
  BY DEF View

\* Each action of the engine is a step of the abstract queue or a stutter:
\* Enqueue submits, Acquire starts, Unlock ends, a crash interrupts.
LEMMA StepRefines == EngineInv /\ EngineInv' /\ [Next]_vars => [PQ!Next]_PQ!qvars
  <1> SUFFICES ASSUME EngineInv, EngineInv', [Next]_vars PROVE [PQ!Next]_PQ!qvars
    OBVIOUS
  <1> USE EngineAssumption DEF EngineInv, TypeOK, WorkerJob, Busy, InHandler, Ended, Statuses, PCs,
          ClientView
  <1>1. CASE Enqueue
    <2>1. PICK j \in JobIds : j = nextId /\ status[j] = "none"
      BY <1>1 DEF Enqueue, FreshIds
    <2>2. \A w \in Workers : InHandler(w) => cur[w] # j
      BY <2>1
    <2>3. /\ UNCHANGED <<key, pc, cur>> /\ status'[j] = "queued"
          /\ \A i \in JobIds : i # j => status'[i] = status[i]
      BY <1>1, <2>1 DEF Enqueue, workerVars
    <2>4. ClientView(j) = "none" /\ ClientView(j)' = "waiting"
      BY <2>1, <2>2, <2>3
    <2>5. \A i \in JobIds : i # j => ClientView(i)' = ClientView(i)
      BY <2>3
    <2> HIDE DEF ClientView
    <2>6. View' = [View EXCEPT ![j] = "waiting"]
      BY ONLY <2>4, <2>5, OneView
    <2>7. View[j] = "none"
      BY <2>4 DEF View
    <2>8. PQ!Submit(j)
      BY <2>3, <2>6, <2>7 DEF PQ!Submit, View
    <2>. QED
      BY <2>8 DEF PQ!Next
  <1>2. ASSUME NEW w \in Workers, Acquire(w) PROVE [PQ!Next]_PQ!qvars
    <2>1. PICK j \in JobIds : j = cur[w] /\ status[j] = "running" /\ pc[w] = "locking"
      BY <1>2 DEF Acquire
    <2>2. \A v \in Workers : InHandler(v) => key[cur[v]] # key[j]
      BY <1>2, <2>1 DEF Acquire, LockMatches
    <2>3. ClientView(j) = "waiting"
      BY <2>1, <2>2
    <2>4. \A i \in PQ!Active : key[i] # key[j]
      BY <2>2 DEF PQ!Active
    <2>5. UNCHANGED <<key, status, cur>> /\ pc' = [pc EXCEPT ![w] = "handling"]
      BY <1>2 DEF Acquire, rowVars
    <2>6. ClientView(j)' = "active"
      BY <2>1, <2>5
    <2>7. \A i \in JobIds : i # j => ClientView(i)' = ClientView(i)
      BY <2>1, <2>5
    <2> HIDE DEF ClientView
    <2>8. View' = [View EXCEPT ![j] = "active"]
      BY ONLY <2>6, <2>7, OneView
    <2>9. View[j] = "waiting"
      BY <2>3 DEF View
    <2>10. PQ!Start(j)
      BY <2>4, <2>5, <2>8, <2>9 DEF PQ!Start, View
    <2>. QED
      BY <2>10 DEF PQ!Next
  <1>3. ASSUME NEW w \in Workers, Unlock(w) PROVE [PQ!Next]_PQ!qvars
    <2>0. cur[w] \in JobIds /\ pc[w] = "returning" /\ status[cur[w]] # "none"
      BY <1>3 DEF Unlock
    <2>1. PICK j \in JobIds : j = cur[w] /\ pc[w] = "returning" /\ status[j] # "none"
      BY <2>0
    <2>2. ClientView(j) = "active"
      BY <2>1
    <2>3. \A v \in Workers : v # w => cur[v] # j
      BY <2>1 DEF ClaimedOnce
    <2>4. UNCHANGED <<key, status, cur>> /\ pc' = [pc EXCEPT ![w] = "closing"]
      BY <1>3 DEF Unlock, rowVars
    <2>5. PICK r \in {"over", "waiting"} : ClientView(j)' = r
      BY <2>1, <2>3, <2>4
    <2>6. \A i \in JobIds : i # j => ClientView(i)' = ClientView(i)
      BY <2>1, <2>4
    <2> HIDE DEF ClientView
    <2>7. View' = [View EXCEPT ![j] = r]
      BY ONLY <2>5, <2>6, OneView
    <2>8. View[j] = "active"
      BY <2>2 DEF View
    <2>9. PQ!End(j)
      BY <2>4, <2>7, <2>8 DEF PQ!End, View
    <2>. QED
      BY <2>9 DEF PQ!Next
  <1>4. CASE Crash
    <2> DEFINE O == {j \in PQ!Active : status[j] # "running"}
    <2>1. O \in SUBSET PQ!Active
      OBVIOUS
    <2>2. View' = [j \in JobIds |-> IF j \in O THEN "over"
                                    ELSE IF j \in PQ!Active THEN "waiting" ELSE View[j]]
      BY <1>4 DEF Crash, View, PQ!Active, rowVars
    <2>3. UNCHANGED key
      BY <1>4 DEF Crash, rowVars
    <2>4. PQ!Interrupt
      <3> HIDE DEF O, ClientView
      <3>. QED
        BY <2>1, <2>2, <2>3 DEF PQ!Interrupt, View
    <2>. QED
      BY <2>4 DEF PQ!Next
  <1>5. CASE DeleteFinished
    <2>1. \A j \in JobIds : ClientView(j)' = ClientView(j)
      BY <1>5 DEF DeleteFinished, Purgeable, workerVars
    <2>. QED
      BY <1>5, <2>1, SameView DEF DeleteFinished
  <1>6. CASE Shutdown \/ Stopped \/ UNCHANGED vars
    <2>1. \A j \in JobIds : ClientView(j)' = ClientView(j)
      BY <1>6 DEF Shutdown, Stopped, vars, rowVars, workerVars
    <2>. QED
      BY <1>6, <2>1, SameView DEF Shutdown, Stopped, vars, rowVars
  <1>7. CASE Boot
    <2>1. \A j \in JobIds : ClientView(j)' = ClientView(j)
      BY <1>7 DEF Boot, Resumed, DownIsQuiet
    <2>. QED
      BY <1>7, <2>1, SameView DEF Boot
  <1>8. ASSUME NEW w \in Workers, Claim(w) PROVE [PQ!Next]_PQ!qvars
    <2>1. PICK j \in JobIds : /\ status[j] = "queued"
                              /\ status' = [status EXCEPT ![j] = "running"]
                              /\ cur' = [cur EXCEPT ![w] = j]
      BY <1>8 DEF Claim, Oldest, Queued
    <2>2. \A i \in JobIds : ClientView(i)' = ClientView(i)
      BY <1>8, <2>1 DEF Claim
    <2>. QED
      BY <1>8, <2>2, SameView DEF Claim
  <1>9. ASSUME NEW w \in Workers, Poll(w) \/ Exit(w) \/ Done(w) PROVE [PQ!Next]_PQ!qvars
    <2>1. /\ UNCHANGED <<status, key>>
          /\ \A v \in Workers : InHandler(v)' <=> InHandler(v)
          /\ \A v \in Workers : InHandler(v) => cur'[v] = cur[v]
      BY <1>9 DEF Poll, Exit, Done, vars, rowVars
    <2>2. \A j \in JobIds : ClientView(j)' = ClientView(j)
      BY <2>1
    <2>. QED
      BY <2>1, <2>2, SameView
  <1>10. ASSUME NEW w \in Workers,
                FinishLost(w) \/ Panic(w) \/ \E s \in Terminal : Finish(w, s)
         PROVE  [PQ!Next]_PQ!qvars
    <2>1. /\ cur[w] \in JobIds /\ InHandler(w) /\ status[cur[w]] \notin {"none"}
          /\ pc' = [pc EXCEPT ![w] = "returning"] /\ UNCHANGED <<cur, key>>
      BY <1>10 DEF FinishLost, Panic, Finish, rowVars
    <2>2. \A j \in JobIds : j # cur[w] => status'[j] = status[j]
      BY <1>10, <2>1 DEF FinishLost, Panic, Finish, Recorded, rowVars
    <2>3. status'[cur[w]] # "none"
      BY <1>10, <2>1 DEF FinishLost, Panic, Finish, Recorded, rowVars
    <2>4. \A v \in Workers : InHandler(v)' <=> InHandler(v)
      BY <2>1
    <2>5. \A j \in JobIds : ClientView(j)' = ClientView(j)
      BY <2>1, <2>2, <2>3, <2>4
    <2>. QED
      BY <2>1, <2>5, SameView
  <1>. QED
    BY <1>1, <1>2, <1>3, <1>4, <1>5, <1>6, <1>7, <1>8, <1>9, <1>10 DEF Next, WorkerStep

\* The engine implements the abstract queue: per project, jobs run one at a
\* time, and a job that is over is never run again.
THEOREM Refinement == Spec => ImplementsProjectQueue
  <1>1. Init => PQ!Init
    BY EngineAssumption DEF Init, PQ!Init, ClientView
  <1>. QED
    BY <1>1, StepRefines, EngineInvariant, PTL DEF Spec, PQ!Spec, ImplementsProjectQueue

-----------------------------------------------------------------------------
(* The live log streams, on top of the engine.                             *)

StreamShape ==
  /\ chan \in [Chans -> {"unused", "checked", "open", "closed"}]
  /\ chanJob \in [Chans -> JobIds \union {NoJob}]
  /\ \A c \in Chans : chan[c] \in {"checked", "open"} => chanJob[c] \in JobIds
  /\ subs \in [JobIds -> SUBSET Chans]
  /\ snap \in [Workers -> [Pipes -> SUBSET Chans]]
  /\ closing \in [Workers -> SUBSET Chans]

\* A registered channel is open and its job is not finished.
Subscribed ==
  \A j \in JobIds : \A c \in subs[j] : chan[c] = "open" /\ chanJob[c] = j /\ j \notin finished

\* An Emit in progress serves subscribers of the job its worker still handles.
EmitsToSubscribers ==
  \A w \in Workers, p \in Pipes : \A c \in snap[w][p] :
    pc[w] = "handling" /\ c \in subs[cur[w]]

\* A channel closeStreams has yet to close belongs to the job that worker ends.
ClosesOwn ==
  \A w \in Workers : \A c \in closing[w] :
    /\ pc[w] = "closing" /\ chan[c] = "open"
    /\ chanJob[c] = cur[w] /\ cur[w] \in finished

StreamInv ==
  /\ EngineInv
  /\ StreamShape /\ Subscribed /\ EmitsToSubscribers /\ ClosesOwn /\ OpenStreamIsTracked

\* Every step of the composition is a step of the engine or leaves it alone.
LEMMA StreamStepIsEngineStep == [StreamNext]_allVars => [Next]_vars
  BY DEF StreamNext, StreamWorkerStep, HandlerEnd, CloseStreams, Finished, CloseChan, EmitSnapshot, EmitSend,
         StreamGet, StreamRegister, Receive, allVars, Next, WorkerStep

\* Every initial state of the streams satisfies the inductive invariant.
LEMMA StreamInitInv == StreamInit => StreamInv
  <1> SUFFICES ASSUME StreamInit PROVE StreamInv
    OBVIOUS
  <1>1. EngineInv
    BY InitInv DEF StreamInit
  <1>2. StreamShape
    BY DEF StreamInit, StreamShape, NoEmit, JobIds, NoJob
  <1>3. Subscribed /\ EmitsToSubscribers /\ ClosesOwn /\ OpenStreamIsTracked
    BY DEF StreamInit, NoEmit, Subscribed, EmitsToSubscribers, ClosesOwn, OpenStreamIsTracked
  <1>. QED
    BY <1>1, <1>2, <1>3 DEF StreamInv

\* Every step of the composition preserves the invariant.
LEMMA StreamStepInv == StreamInv /\ [StreamNext]_allVars => StreamInv'
  <1> SUFFICES ASSUME StreamInv, [StreamNext]_allVars PROVE StreamInv'
    OBVIOUS
  <1>0. EngineInv /\ EngineInv'
    BY StreamStepIsEngineStep, StepInv DEF StreamInv
  <1>00. /\ cur \in [Workers -> JobIds \union {NoJob}] /\ pc \in [Workers -> PCs]
         /\ \A w \in Workers : pc[w] \in {"handling", "returning", "closing"} => cur[w] \in JobIds
         /\ \A v, w \in Workers : cur[v] # NoJob /\ cur[v] = cur[w] => v = w
    BY <1>0 DEF EngineInv, TypeOK, WorkerJob, ClaimedOnce, Busy
  <1> SUFFICES (StreamShape /\ Subscribed /\ EmitsToSubscribers /\ ClosesOwn /\ OpenStreamIsTracked)'
    BY <1>0 DEF StreamInv
  <1>. USE StreamAssumption DEF StreamInv
  <1>1. ASSUME UNCHANGED streamVars,
               \A w \in Workers : /\ pc[w] = "closing" => pc'[w] = "closing" /\ cur'[w] = cur[w]
                                  /\ pc[w] = "handling" => \/ pc'[w] = "handling" /\ cur'[w] = cur[w]
                                                           \/ snap[w] = NoEmit
        PROVE  (StreamShape /\ Subscribed /\ EmitsToSubscribers /\ ClosesOwn /\ OpenStreamIsTracked)'
    <2>1. StreamShape' /\ Subscribed'
      BY <1>1 DEF streamVars, StreamShape, Subscribed
    <2>2. EmitsToSubscribers'
      BY <1>1 DEF streamVars, EmitsToSubscribers, NoEmit
    <2>3. ClosesOwn' /\ OpenStreamIsTracked'
      BY <1>1 DEF streamVars, ClosesOwn, OpenStreamIsTracked
    <2>. QED
      BY <2>1, <2>2, <2>3
  <1>2. CASE (Enqueue \/ DeleteFinished \/ Shutdown \/ Boot) /\ UNCHANGED streamVars
    <2>1. CASE Boot
      <3>1. \A w \in Workers : pc[w] \notin {"handling", "closing"}
        BY <1>0, <2>1 DEF Boot, EngineInv, DownIsQuiet, Busy, WorkerJob
      <3>. QED
        BY <1>1, <1>2, <3>1
    <2>2. CASE ~Boot
      BY <1>1, <1>2, <2>2 DEF Enqueue, DeleteFinished, Shutdown, workerVars
    <2>. QED
      BY <2>1, <2>2
  <1>3. CASE (Stopped \/ Crash) /\ Wiped
    <2>1. Wiped
      BY <1>3
    <2>2. StreamShape'
      BY <2>1 DEF Wiped, StreamShape, NoEmit, JobIds, NoJob
    <2>. QED
      BY <2>1, <2>2 DEF Wiped, NoEmit, Subscribed, EmitsToSubscribers, ClosesOwn, OpenStreamIsTracked
  <1>4. ASSUME NEW w \in Workers, Claim(w) \/ Poll(w) \/ Exit(w) \/ Acquire(w), UNCHANGED streamVars
        PROVE  (StreamShape /\ Subscribed /\ EmitsToSubscribers /\ ClosesOwn /\ OpenStreamIsTracked)'
    <2>1. \A v \in Workers : pc[v] \in {"handling", "closing"} => pc'[v] = pc[v] /\ cur'[v] = cur[v]
      BY <1>4, <1>00 DEF Claim, Poll, Exit, Acquire, vars
    <2>. QED
      BY <1>1, <1>4, <2>1
  <1>5. ASSUME NEW w \in Workers, HandlerEnd(w)
        PROVE  (StreamShape /\ Subscribed /\ EmitsToSubscribers /\ ClosesOwn /\ OpenStreamIsTracked)'
    <2>1. /\ cur' = cur /\ snap[w] = NoEmit /\ UNCHANGED streamVars
          /\ pc[w] # "closing" /\ \A v \in Workers : v # w => pc'[v] = pc[v]
      BY <1>5, <1>00 DEF HandlerEnd, Joined, Finish, FinishLost, Panic
    <2>. QED
      BY <1>1, <2>1
  <1>6. ASSUME NEW w \in Workers, CloseStreams(w)
        PROVE  (StreamShape /\ Subscribed /\ EmitsToSubscribers /\ ClosesOwn /\ OpenStreamIsTracked)'
    <2>1. /\ pc[w] = "returning" /\ pc' = [pc EXCEPT ![w] = "closing"] /\ cur' = cur
          /\ closing' = [closing EXCEPT ![w] = subs[cur[w]]]
          /\ subs' = [subs EXCEPT ![cur[w]] = {}]
          /\ finished' = finished \union {cur[w]}
          /\ UNCHANGED <<chan, chanJob, snap>>
      BY <1>6 DEF CloseStreams, Unlock
    <2>2. cur[w] \in JobIds /\ \A v \in Workers : v # w => cur[v] # cur[w]
      BY <1>00, <2>1 DEF JobIds, NoJob
    <2>3. StreamShape'
      BY <2>1, <2>2 DEF StreamShape
    <2>4. Subscribed'
      BY <2>1, <2>2 DEF StreamShape, Subscribed
    <2>5. EmitsToSubscribers'
      <3> SUFFICES ASSUME NEW v \in Workers, NEW p \in Pipes, NEW c \in snap'[v][p]
                   PROVE  pc'[v] = "handling" /\ c \in subs'[cur'[v]]
        BY DEF EmitsToSubscribers
      <3>1. pc[v] = "handling" /\ c \in subs[cur[v]] /\ v # w /\ cur[v] \in JobIds
        BY <1>00, <2>1 DEF EmitsToSubscribers
      <3>. QED
        BY <1>00, <2>1, <2>2, <3>1 DEF StreamShape
    <2>6. ClosesOwn'
      <3> SUFFICES ASSUME NEW v \in Workers, NEW c \in closing'[v]
                   PROVE  /\ pc'[v] = "closing" /\ chan'[c] = "open"
                          /\ chanJob'[c] = cur'[v] /\ cur'[v] \in finished'
        BY DEF ClosesOwn
      <3>1. CASE v = w
        BY <1>00, <2>1, <2>2, <3>1 DEF Subscribed, StreamShape
      <3>2. CASE v # w
        BY <1>00, <2>1, <3>2 DEF ClosesOwn, StreamShape
      <3>. QED
        BY <3>1, <3>2
    <2>7. OpenStreamIsTracked'
      <3> SUFFICES ASSUME NEW c \in Chans, chan[c] = "open"
                   PROVE  \/ c \in subs'[chanJob[c]] /\ chanJob[c] \notin finished'
                          \/ \E v \in Workers : c \in closing'[v] /\ cur'[v] = chanJob[c]
        BY <2>1 DEF OpenStreamIsTracked
      <3>0. chanJob[c] \in JobIds
        BY DEF StreamShape
      <3>1. CASE c \in subs[chanJob[c]] /\ chanJob[c] \notin finished
        <4>1. CASE chanJob[c] = cur[w]
          BY <2>1, <3>1, <4>1 DEF StreamShape
        <4>2. CASE chanJob[c] # cur[w]
          BY <2>1, <3>0, <3>1, <4>2 DEF StreamShape
        <4>. QED
          BY <4>1, <4>2
      <3>2. ASSUME NEW v \in Workers, c \in closing[v], cur[v] = chanJob[c]
            PROVE  c \in closing'[v] /\ cur'[v] = chanJob[c]
        BY <2>1, <3>2 DEF ClosesOwn, StreamShape
      <3>. QED
        BY <3>1, <3>2 DEF OpenStreamIsTracked
    <2>. QED
      BY <2>3, <2>4, <2>5, <2>6, <2>7
  <1>7. ASSUME NEW w \in Workers, Finished(w)
        PROVE  (StreamShape /\ Subscribed /\ EmitsToSubscribers /\ ClosesOwn /\ OpenStreamIsTracked)'
    <2>1. /\ pc[w] = "closing" /\ closing[w] = {}
          /\ pc' = [pc EXCEPT ![w] = "idle"] /\ cur' = [cur EXCEPT ![w] = NoJob]
          /\ UNCHANGED <<chan, chanJob, subs, finished, snap, closing>>
      BY <1>7 DEF Finished, Done
    <2>2. \A v \in Workers : v # w => pc'[v] = pc[v] /\ cur'[v] = cur[v]
      BY <1>00, <2>1
    <2>3. StreamShape' /\ Subscribed'
      BY <2>1 DEF StreamShape, Subscribed
    <2>4. EmitsToSubscribers'
      BY <2>1, <2>2 DEF EmitsToSubscribers
    <2>5. ClosesOwn' /\ OpenStreamIsTracked'
      BY <2>1, <2>2 DEF ClosesOwn, OpenStreamIsTracked
    <2>. QED
      BY <2>3, <2>4, <2>5
  <1>8. ASSUME NEW w \in Workers, NEW c \in Chans, CloseChan(w, c)
        PROVE  (StreamShape /\ Subscribed /\ EmitsToSubscribers /\ ClosesOwn /\ OpenStreamIsTracked)'
    <2>1. /\ c \in closing[w] /\ chan' = [chan EXCEPT ![c] = "closed"]
          /\ closing' = [closing EXCEPT ![w] = @ \ {c}]
          /\ UNCHANGED <<pc, cur, chanJob, subs, finished, snap>>
      BY <1>8 DEF CloseChan, vars
    <2>2. chanJob[c] = cur[w] /\ cur[w] \in finished /\ cur[w] \in JobIds
      BY <1>00, <2>1 DEF ClosesOwn
    <2>3. (\A j \in JobIds : c \notin subs[j]) /\ \A v \in Workers : v # w => c \notin closing[v]
      BY <1>00, <2>2 DEF Subscribed, ClosesOwn, JobIds, NoJob
    <2>4. StreamShape'
      BY <2>1 DEF StreamShape
    <2>5. Subscribed' /\ EmitsToSubscribers'
      BY <2>1, <2>3 DEF Subscribed, EmitsToSubscribers, StreamShape
    <2>6. ClosesOwn'
      BY <2>1, <2>3 DEF ClosesOwn, StreamShape
    <2>7. OpenStreamIsTracked'
      BY <2>1 DEF OpenStreamIsTracked, StreamShape
    <2>. QED
      BY <2>4, <2>5, <2>6, <2>7
  <1>9. ASSUME NEW w \in Workers, NEW p \in Pipes, EmitSnapshot(w, p)
        PROVE  (StreamShape /\ Subscribed /\ EmitsToSubscribers /\ ClosesOwn /\ OpenStreamIsTracked)'
    <2>1. /\ pc[w] = "handling" /\ snap' = [snap EXCEPT ![w][p] = subs[cur[w]]]
          /\ UNCHANGED <<pc, cur, chan, chanJob, subs, finished, closing>>
      BY <1>9 DEF EmitSnapshot, vars
    <2>2. subs[cur[w]] \in SUBSET Chans
      BY <1>00, <2>1 DEF StreamShape
    <2>3. StreamShape'
      BY <2>1, <2>2 DEF StreamShape
    <2>4. EmitsToSubscribers'
      BY <2>1 DEF EmitsToSubscribers, StreamShape
    <2>. QED
      BY <2>1, <2>3, <2>4 DEF Subscribed, ClosesOwn, OpenStreamIsTracked
  <1>10. ASSUME NEW w \in Workers, NEW p \in Pipes, NEW c \in Chans, EmitSend(w, p, c)
         PROVE  (StreamShape /\ Subscribed /\ EmitsToSubscribers /\ ClosesOwn /\ OpenStreamIsTracked)'
    <2>1. /\ snap' = [snap EXCEPT ![w][p] = @ \ {c}]
          /\ UNCHANGED <<pc, cur, chan, chanJob, subs, finished, closing>>
      BY <1>10 DEF EmitSend, vars
    <2>2. StreamShape'
      BY <2>1 DEF StreamShape
    <2>3. EmitsToSubscribers'
      BY <2>1 DEF EmitsToSubscribers, StreamShape
    <2>. QED
      BY <2>1, <2>2, <2>3 DEF Subscribed, ClosesOwn, OpenStreamIsTracked
  <1>11. ASSUME NEW c \in Chans, NEW j \in JobIds, StreamGet(c, j)
         PROVE  (StreamShape /\ Subscribed /\ EmitsToSubscribers /\ ClosesOwn /\ OpenStreamIsTracked)'
    <2>1. /\ chan[c] = "unused" /\ chan' = [chan EXCEPT ![c] = "checked"] /\ chanJob' = [chanJob EXCEPT ![c] = j]
          /\ UNCHANGED <<pc, cur, subs, finished, snap, closing>>
      BY <1>11 DEF StreamGet, vars
    <2>2. StreamShape'
      BY <2>1 DEF StreamShape
    <2>3. Subscribed'
      BY <2>1 DEF Subscribed, StreamShape
    <2>4. ClosesOwn'
      BY <2>1 DEF ClosesOwn, StreamShape
    <2>5. OpenStreamIsTracked'
      BY <2>1 DEF OpenStreamIsTracked, StreamShape
    <2>. QED
      BY <2>1, <2>2, <2>3, <2>4, <2>5 DEF EmitsToSubscribers
  <1>12. ASSUME NEW c \in Chans, StreamRegister(c)
         PROVE  (StreamShape /\ Subscribed /\ EmitsToSubscribers /\ ClosesOwn /\ OpenStreamIsTracked)'
    <2>1. chan[c] = "checked" /\ chanJob[c] \in JobIds /\ UNCHANGED <<pc, cur, chanJob, finished, snap, closing>>
      BY <1>12 DEF StreamRegister, StreamShape, vars
    <2>2. (\A j \in JobIds : c \notin subs[j]) /\ \A v \in Workers : c \notin closing[v]
      BY <2>1 DEF Subscribed, ClosesOwn
    <2>3. CASE chanJob[c] \in finished
      <3>1. chan' = [chan EXCEPT ![c] = "closed"] /\ subs' = subs
        BY <1>12, <2>3 DEF StreamRegister
      <3>2. StreamShape' /\ Subscribed'
        BY <2>1, <2>2, <3>1 DEF StreamShape, Subscribed
      <3>3. ClosesOwn' /\ OpenStreamIsTracked'
        BY <2>1, <2>2, <3>1 DEF StreamShape, ClosesOwn, OpenStreamIsTracked
      <3>. QED
        BY <2>1, <3>1, <3>2, <3>3 DEF EmitsToSubscribers
    <2>4. CASE chanJob[c] \notin finished
      <3>1. /\ chan' = [chan EXCEPT ![c] = "open"]
            /\ subs' = [subs EXCEPT ![chanJob[c]] = @ \union {c}]
        BY <1>12, <2>4 DEF StreamRegister
      <3>2. StreamShape'
        BY <2>1, <3>1 DEF StreamShape
      <3>3. Subscribed'
        BY <2>1, <2>4, <3>1 DEF StreamShape, Subscribed
      <3>4. EmitsToSubscribers'
        BY <1>00, <2>1, <3>1 DEF StreamShape, EmitsToSubscribers
      <3>5. ClosesOwn'
        BY <2>1, <2>2, <3>1 DEF StreamShape, ClosesOwn
      <3>6. OpenStreamIsTracked'
        BY <2>1, <2>4, <3>1 DEF StreamShape, OpenStreamIsTracked
      <3>. QED
        BY <3>2, <3>3, <3>4, <3>5, <3>6
    <2>. QED
      BY <2>3, <2>4
  <1>13. CASE (\E c \in Chans : Receive(c)) \/ UNCHANGED allVars
    <2>1. UNCHANGED <<pc, cur, chan, chanJob, subs, finished, snap, closing>>
      BY <1>13 DEF Receive, allVars, streamVars, vars
    <2>. QED
      BY <2>1 DEF StreamShape, Subscribed, EmitsToSubscribers, ClosesOwn, OpenStreamIsTracked
  <1>. QED
    BY <1>2, <1>3, <1>4, <1>5, <1>6, <1>7, <1>8, <1>9, <1>10, <1>11, <1>12, <1>13
       DEF StreamNext, StreamWorkerStep

\* The streams are an observer: with them the engine still behaves as
\* JobEngine says, so every theorem about Spec holds of the composition.
THEOREM StreamsKeepEngine == StreamSpec => Spec
  <1>1. StreamInit => Init
    BY DEF StreamInit
  <1>. QED
    BY <1>1, StreamStepIsEngineStep, PTL DEF StreamSpec, Spec

\* The maps of the running process, its emitters and its closers always have
\* the relations StreamInv states.
THEOREM StreamInvariant == StreamSpec => []StreamInv
  BY StreamInitInv, StreamStepInv, PTL DEF StreamSpec

\* No goroutine of a handler ever sends on a channel closeStreams has closed,
\* although it sends outside the mutex from a snapshot of the subscribers.
THEOREM NeverSendsOnClosed == StreamSpec => []NoSendOnClosedChannel
  <1>1. ASSUME StreamInv PROVE NoSendOnClosedChannel
    <2>1. \A w \in Workers : pc[w] = "handling" => cur[w] \in JobIds
      BY <1>1 DEF StreamInv, EngineInv, TypeOK, WorkerJob, Busy
    <2>. QED
      BY <1>1, <2>1 DEF StreamInv, Subscribed, EmitsToSubscribers, NoSendOnClosedChannel
  <1>. QED
    BY <1>1, StreamInvariant, PTL

\* No subscriber is dropped by the race between Stream and closeStreams.
THEOREM NoStreamDropped == StreamSpec => []OpenStreamIsTracked
  BY StreamInvariant, PTL DEF StreamInv

=============================================================================
