----------------------------- MODULE LogStreams -----------------------------
(***************************************************************************)
(* The live log streams of the job engine (Emit, Stream and closeStreams   *)
(* in internal/job/queue.go, handleJobLogs in internal/httpapi/sse.go),    *)
(* composed with JobEngine: every action of the engine is extended with    *)
(* what it does to the streams.                                            *)
(*                                                                         *)
(* subs and finished are maps of the running process: a restart empties    *)
(* both, while the jobs table keeps every row.                             *)
(***************************************************************************)
EXTENDS JobEngine

CONSTANTS
  Chans,    \* stream requests of clients, each with its own channel
  Pipes,    \* goroutines of one handler that emit at once (stdout, stderr)
  BufCap,   \* capacity of a subscriber's channel (256 in the code)
  MaxLines  \* bound: lines one handler emits to subscribers

ASSUME StreamAssumption == /\ IsFiniteSet(Chans) /\ Pipes # {} /\ BufCap \in Nat \ {0}
                           /\ MaxLines \in Nat

VARIABLES
  chan,     \* each client: "unused", "checked" (Get passed), "open" or "closed"
  chanJob,  \* the job it subscribes to
  buf,      \* lines waiting in its channel
  subs,     \* Engine.subs
  finished, \* Engine.finished
  lines,    \* per worker: lines its handler has emitted so far
  snap,     \* per worker and pipe: subscribers an Emit in progress has yet to serve
  closing   \* per worker: channels closeStreams has yet to close

streamVars == <<chan, chanJob, buf, subs, finished, lines, snap, closing>>
allVars == <<vars, streamVars>>

NoEmit == [p \in Pipes |-> {}]

StreamInit ==
  /\ Init
  /\ chan = [c \in Chans |-> "unused"]
  /\ chanJob = [c \in Chans |-> NoJob]
  /\ buf = [c \in Chans |-> 0]
  /\ subs = [j \in JobIds |-> {}]
  /\ finished = {}
  /\ lines = [w \in Workers |-> 0]
  /\ snap = [w \in Workers |-> NoEmit]
  /\ closing = [w \in Workers |-> {}]

-----------------------------------------------------------------------------
(* Clients.                                                                *)

\* Stream, first half: jobs.Get finds the row.  No mutex is held.
StreamGet(c, j) ==
  /\ up = "up"
  /\ chan[c] = "unused"
  /\ status[j] \notin {"none", "deleted"}
  /\ chan' = [chan EXCEPT ![c] = "checked"]
  /\ chanJob' = [chanJob EXCEPT ![c] = j]
  /\ UNCHANGED <<vars, buf, subs, finished, lines, snap, closing>>

\* Mutant: registration that does not look at finished.
StreamRegisterBlind(c) ==
  /\ chan[c] = "checked"
  /\ chan' = [chan EXCEPT ![c] = "open"]
  /\ subs' = [subs EXCEPT ![chanJob[c]] = @ \union {c}]
  /\ UNCHANGED <<vars, chanJob, buf, finished, lines, snap, closing>>

\* Stream, second half, under e.mu: a closed channel for a job in finished,
\* otherwise register a fresh one.
StreamRegister(c) ==
  /\ chan[c] = "checked"
  /\ \/ /\ chanJob[c] \in finished
        /\ chan' = [chan EXCEPT ![c] = "closed"]
        /\ UNCHANGED subs
     \/ /\ chanJob[c] \notin finished
        /\ chan' = [chan EXCEPT ![c] = "open"]
        /\ subs' = [subs EXCEPT ![chanJob[c]] = @ \union {c}]
  /\ UNCHANGED <<vars, chanJob, buf, finished, lines, snap, closing>>

\* handleJobLogs reads a line.  A client that left never reads again; its
\* channel stays registered until the job ends.
Receive(c) ==
  /\ chan[c] \in {"open", "closed"}
  /\ buf[c] > 0
  /\ buf' = [buf EXCEPT ![c] = @ - 1]
  /\ UNCHANGED <<vars, chan, chanJob, subs, finished, lines, snap, closing>>

-----------------------------------------------------------------------------
(* Emitters: the handler's pipe goroutines.                                *)

\* Emit, under e.mu: read the subscriber slice.
EmitSnapshot(w, p) ==
  /\ pc[w] = "handling"
  /\ snap[w][p] = {}
  /\ subs[cur[w]] # {}
  /\ lines[w] < MaxLines
  /\ lines' = [lines EXCEPT ![w] = @ + 1]
  /\ snap' = [snap EXCEPT ![w][p] = subs[cur[w]]]
  /\ UNCHANGED <<vars, chan, chanJob, buf, subs, finished, closing>>

\* Mutant: a plain send, which waits for room in the buffer.
EmitSendBlocking(w, p, c) ==
  /\ c \in snap[w][p]
  /\ buf[c] < BufCap
  /\ buf' = [buf EXCEPT ![c] = @ + 1]
  /\ snap' = [snap EXCEPT ![w][p] = @ \ {c}]
  /\ UNCHANGED <<vars, chan, chanJob, subs, finished, lines, closing>>

\* Emit, outside e.mu: one non-blocking send; the line is dropped when full.
EmitSend(w, p, c) ==
  /\ c \in snap[w][p]
  /\ buf' = [buf EXCEPT ![c] = IF @ < BufCap THEN @ + 1 ELSE @]
  /\ snap' = [snap EXCEPT ![w][p] = @ \ {c}]
  /\ UNCHANGED <<vars, chan, chanJob, subs, finished, lines, closing>>

\* Mutant: Run returns without waiting for the pipe goroutines.
JoinedNever(w) == w \in Workers

\* ExecRunner.Run waits for both pipe goroutines (wg.Wait) before the handler
\* goes on, so no Emit of the job is in progress when the handler ends.
Joined(w) == snap[w] = NoEmit

-----------------------------------------------------------------------------
(* The engine's actions with their effect on the streams.                  *)

HandlerEnd(w) ==
  /\ \/ \E s \in Terminal : Finish(w, s)
     \/ FinishLost(w)
     \/ Panic(w)
  /\ Joined(w)
  /\ UNCHANGED streamVars

\* Unlock, then closeStreams' critical section: take the subscribers and mark
\* the job finished in one step.  Nothing of the streams can tell the release
\* of the project lock apart from the section that follows it.
CloseStreams(w) ==
  /\ Unlock(w)
  /\ closing' = [closing EXCEPT ![w] = subs[cur[w]]]
  /\ subs' = [subs EXCEPT ![cur[w]] = {}]
  /\ finished' = finished \union {cur[w]}
  /\ UNCHANGED <<chan, chanJob, buf, lines, snap>>

\* closeStreams, outside e.mu: close one channel.
CloseChan(w, c) ==
  /\ c \in closing[w]
  /\ chan' = [chan EXCEPT ![c] = "closed"]
  /\ closing' = [closing EXCEPT ![w] = @ \ {c}]
  /\ UNCHANGED <<vars, chanJob, buf, subs, finished, lines, snap>>

\* OnFinish; the worker goes back to its loop.
Finished(w) ==
  /\ Done(w)
  /\ closing[w] = {}
  /\ lines' = [lines EXCEPT ![w] = 0]
  /\ UNCHANGED <<chan, chanJob, buf, subs, finished, snap, closing>>

\* The process is gone, with its connections and both maps.
Wiped ==
  /\ chan' = [c \in Chans |-> "unused"]
  /\ chanJob' = [c \in Chans |-> NoJob]
  /\ buf' = [c \in Chans |-> 0]
  /\ subs' = [j \in JobIds |-> {}]
  /\ finished' = {}
  /\ lines' = [w \in Workers |-> 0]
  /\ snap' = [w \in Workers |-> NoEmit]
  /\ closing' = [w \in Workers |-> {}]

StreamWorkerStep(w) ==
  \/ (Claim(w) \/ Poll(w) \/ Exit(w) \/ Acquire(w)) /\ UNCHANGED streamVars
  \/ HandlerEnd(w)
  \/ CloseStreams(w)
  \/ Finished(w)
  \/ \E c \in Chans : CloseChan(w, c)
  \/ \E p \in Pipes : EmitSnapshot(w, p) \/ \E c \in Chans : EmitSend(w, p, c)

StreamNext ==
  \/ (Enqueue \/ DeleteFinished \/ Shutdown \/ Boot) /\ UNCHANGED streamVars
  \/ (Stopped \/ Crash) /\ Wiped
  \/ \E w \in Workers : StreamWorkerStep(w)
  \/ \E c \in Chans : \/ \E j \in JobIds : StreamGet(c, j)
                      \/ StreamRegister(c)
                      \/ Receive(c)

StreamSpec == StreamInit /\ [][StreamNext]_allVars

\* The fairness of JobEngine, and of the emitting goroutines.  Clients owe
\* nothing: a subscriber may stop reading at any time.
StreamFairness ==
  /\ \A w \in Workers :
       /\ WF_allVars(Claim(w) /\ UNCHANGED streamVars)
       /\ WF_allVars(Exit(w) /\ UNCHANGED streamVars)
       /\ SF_allVars(Acquire(w) /\ UNCHANGED streamVars)
       /\ WF_allVars(HandlerEnd(w))
       /\ WF_allVars(CloseStreams(w))
       /\ WF_allVars(Finished(w))
       /\ \A c \in Chans : WF_allVars(CloseChan(w, c))
       /\ \A p \in Pipes, c \in Chans : WF_allVars(EmitSend(w, p, c))
  /\ WF_allVars(Stopped /\ Wiped)
  /\ WF_allVars(Boot /\ UNCHANGED streamVars)

FairStreamSpec == StreamSpec /\ StreamFairness

-----------------------------------------------------------------------------
(* Properties.                                                             *)

\* No Emit in progress can meet a closed channel (a send on one panics, in a
\* goroutine no recover() guards): snapshots are taken outside the mutex that
\* closeStreams holds, so this rests on handlers joining their emitters.
NoSendOnClosedChannel ==
  \A w \in Workers, p \in Pipes : \A c \in snap[w][p] : chan[c] # "closed"

\* Every open channel is still known to whoever will close it: no subscriber
\* is dropped by the race between Stream and closeStreams.
OpenStreamIsTracked ==
  \A c \in Chans :
    chan[c] = "open" =>
      \/ c \in subs[chanJob[c]] /\ chanJob[c] \notin finished
      \/ \E w \in Workers : c \in closing[w] /\ cur[w] = chanJob[c]

\* A subscriber of a job that has yet to end sees its stream close, whether
\* or not it reads.  A row left running with no worker (lost: a failed terminal
\* write, a boot whose resume failed) has nobody to close its streams.
LiveStreamCloses ==
  \A c \in Chans :
    (chan[c] = "open" /\ status[chanJob[c]] \in {"queued", "running"} /\ chanJob[c] \notin lost)
      ~> (chan[c] # "open")

\* What Stream's comment promises of a late subscriber: "If the job has
\* already finished [...] the returned channel is already closed so a late
\* subscriber's range loop exits immediately instead of hanging forever."
LateSubscriberSeesClosed ==
  \A c \in Chans :
    chan[c] = "open" =>
      \/ status[chanJob[c]] \in {"queued", "running"}
      \/ \E w \in Workers : cur[w] = chanJob[c]

=============================================================================
