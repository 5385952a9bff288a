------------------------------ MODULE ScanRunner ------------------------------
(***************************************************************************)
(* The process-wide scan-run (internal/httpapi/scanrun.go), the scheduler  *)
(* that drives it and auto-applies after it (cmd/dockbrr/main.go), the     *)
(* event bus that reports it (internal/httpapi/events_stream.go) and one   *)
(* dashboard (web/src/hooks/useEventStream.ts).                            *)
(*                                                                         *)
(* A sweep runs in its own goroutine, or in the scheduler's; an abort, the *)
(* five-minute limit, a shutdown, another start and the dashboard's polls  *)
(* fall between any two of its steps.  What a check of a service finds is  *)
(* UpdateLifecycle's; here a check only ends under a live context or not.  *)
(***************************************************************************)
EXTENDS Naturals, Sequences

CONSTANTS
  AllServices,   \* how many services an all-scope sweep covers
  MaxSweeps,     \* bound: sweeps ever begun
  MaxMeddling,   \* bound: aborts, timeouts, shutdowns and broken streams
  BufferSize     \* events the bus keeps for a subscriber (16 in the code)

ASSUME ScanRunnerAssumption ==
  /\ AllServices \in Nat \ {0} /\ MaxSweeps \in Nat \ {0} /\ MaxMeddling \in Nat /\ BufferSize \in Nat \ {0}

NoSweep == 0

VARIABLES
  sweep,      \* the sweeps' goroutines
  begun,      \* how many sweeps have begun
  scan,       \* sr.state: is a run in flight, and its progress
  cancelOf,   \* sr.cancel: the sweep it cancels, NoSweep for nil
  aborting,   \* the cancel func an Abort has read and not called yet
  scheduler,  \* the scheduler's loop, and the sweep it waits for
  stopped,    \* the process's context is cancelled
  stamped,    \* the sweeps that wrote last_check_all
  autos,      \* the sweeps after which the scheduler auto-applied (history)
  heeded,     \* the sweeps an Abort cancelled before their verdict (history)
  wanted,     \* the sweeps an Abort was meant for (history)
  inbox,      \* the dashboard's events on the bus
  view,       \* the dashboard shows a running scan
  meddled,    \* how much of MaxMeddling is used
  resync      \* answers of GET /api/scan under way to the dashboard

serverVars == <<sweep, begun, scan, cancelOf, scheduler, stamped, autos>>
abortVars == <<aborting, heeded, wanted>>
clientVars == <<inbox, view, resync>>
scanVars == <<serverVars, stopped, abortVars, clientVars, meddled>>

\* The steps of execute: before the cancel is stored, at the head of the loop,
\* in a check, after the verdict, after the state is cleared, returned.
SweepSteps == {"arm", "head", "check", "judged", "cleared", "over"}
Idle == [running |-> FALSE, done |-> 0, total |-> 0]

ScanInit ==
  /\ sweep = << >> /\ begun = 0
  /\ scan = Idle
  /\ cancelOf = NoSweep /\ aborting = NoSweep
  /\ scheduler = [at |-> "boot", run |-> NoSweep] /\ stopped = FALSE
  /\ stamped = {} /\ autos = {} /\ heeded = {} /\ wanted = {}
  /\ inbox = << >> /\ view = FALSE /\ resync = {}
  /\ meddled = 0

Meddle == meddled < MaxMeddling /\ meddled' = meddled + 1

-----------------------------------------------------------------------------
(* The bus.                                                                *)

\* Publish never blocks: a full buffer drops the event.
Publish(event) ==
  /\ inbox' = IF Len(inbox) < BufferSize THEN Append(inbox, event) ELSE inbox
  /\ UNCHANGED <<view, resync>>

-----------------------------------------------------------------------------
(* Starting a sweep.                                                       *)

\* Mutant: tryBegin without its test.
FreeAlways == begun < MaxSweeps

\* The test of tryBegin.
Free == begun < MaxSweeps /\ ~scan.running

\* resolve and tryBegin; the goroutine starts execute later.
Begin(scope, manual) ==
  /\ Free
  /\ LET total == IF scope = "all" THEN AllServices ELSE 1
     IN  /\ begun' = begun + 1
         /\ sweep' = Append(sweep, [at |-> "arm", scope |-> scope, manual |-> manual,
                                    total |-> total, checked |-> 0, sound |-> 0,
                                    live |-> TRUE, completed |-> FALSE])
         /\ scan' = [running |-> TRUE, done |-> 0, total |-> total]
  /\ UNCHANGED <<cancelOf, stamped, autos, stopped, abortVars, clientVars, meddled>>

\* Start, from the dashboard or a script; busy is a 409 and changes nothing.
Start(scope) == Begin(scope, TRUE) /\ UNCHANGED scheduler

\* The startup check, and every tick: RunScheduled on the scheduler's goroutine.
\* A cancelled context does not prevent one more: waitForDiscovery returns and
\* the startup check runs, and a select with a tick ready may take the tick.
SchedulerTick ==
  /\ scheduler.at \in {"boot", "idle"}
  /\ \/ Begin("all", FALSE) /\ scheduler' = [at |-> "sweep", run |-> begun + 1]
     \/ /\ scan.running /\ scheduler.at = "boot"
        /\ scheduler' = [scheduler EXCEPT !.at = "idle"]
        /\ UNCHANGED <<sweep, begun, scan, cancelOf, stamped, autos, stopped, abortVars, clientVars, meddled>>

-----------------------------------------------------------------------------
(* execute.                                                                *)

Move(n, step) == sweep' = [sweep EXCEPT ![n].at = step]

\* The context is derived from the parent's: a cancelled scheduler context
\* makes a scheduled sweep's dead from the start.
Arm(n) ==
  /\ sweep[n].at = "arm"
  /\ sweep' = [sweep EXCEPT ![n].at = "head", ![n].live = sweep[n].manual \/ ~stopped]
  /\ cancelOf' = n
  /\ Publish("progress")
  /\ UNCHANGED <<begun, scan, scheduler, stamped, autos, stopped, abortVars, meddled>>

Check(n) ==
  /\ sweep[n].at = "head"
  /\ sweep[n].live /\ sweep[n].checked < sweep[n].total
  /\ Move(n, "check")
  /\ UNCHANGED <<begun, scan, cancelOf, scheduler, stamped, autos, stopped, abortVars, clientVars, meddled>>

\* A check that fails counts like one that succeeds; one whose context died
\* under it is not sound.  onDone reports the progress.
Checked(n) ==
  /\ sweep[n].at = "check"
  /\ sweep' = [sweep EXCEPT ![n].at = "head", ![n].checked = @ + 1,
                            ![n].sound = IF sweep[n].live THEN @ + 1 ELSE @]
  /\ scan' = [scan EXCEPT !.done = sweep[n].checked + 1]
  /\ Publish("progress")
  /\ UNCHANGED <<begun, cancelOf, scheduler, stamped, autos, stopped, abortVars, meddled>>

\* ctx.Err() == nil after the loop.
Completed(s) == s.live

\* The loop ends, the verdict is read, and a completed all-scope sweep is
\* stamped and announced.
Judge(n) ==
  /\ sweep[n].at = "head"
  /\ ~sweep[n].live \/ sweep[n].checked = sweep[n].total
  /\ LET done == Completed(sweep[n])
         all == sweep[n].scope = "all"
     IN  /\ sweep' = [sweep EXCEPT ![n].at = "judged", ![n].completed = done]
         /\ stamped' = IF done /\ all THEN stamped \union {n} ELSE stamped
         /\ IF done /\ all THEN Publish("scanned") ELSE UNCHANGED clientVars
  /\ UNCHANGED <<begun, scan, cancelOf, scheduler, autos, stopped, abortVars, meddled>>

\* Mutant: only a completed run gives the state back.
ClearedIfCompleted(n) == IF sweep[n].completed THEN Idle ELSE scan

\* The state execute leaves.
Cleared(n) == Idle

Clear(n) ==
  /\ sweep[n].at = "judged"
  /\ Move(n, "cleared")
  /\ cancelOf' = NoSweep
  /\ scan' = Cleared(n)
  /\ UNCHANGED <<begun, scheduler, stamped, autos, stopped, abortVars, clientVars, meddled>>

\* scan_finished is published outside the lock, so the next sweep may have
\* begun, and reported, before it.
Finish(n) ==
  /\ sweep[n].at = "cleared"
  /\ Move(n, "over")
  /\ Publish("finished")
  /\ UNCHANGED <<begun, scan, cancelOf, scheduler, stamped, autos, stopped, abortVars, meddled>>

-----------------------------------------------------------------------------
(* The scheduler and the context.                                          *)

\* Mutant: the scheduler applies after every sweep it ran.
AppliesAlways(n) == TRUE

\* RunScheduled's answer.
Applies(n) == sweep[n].completed

\* runCheck returns; autoApply enqueues its jobs.
Return ==
  /\ scheduler.at = "sweep" /\ sweep[scheduler.run].at = "over"
  /\ autos' = IF Applies(scheduler.run) THEN autos \union {scheduler.run} ELSE autos
  /\ scheduler' = [at |-> "idle", run |-> NoSweep]
  /\ UNCHANGED <<sweep, begun, scan, cancelOf, stamped, stopped, abortVars, clientVars, meddled>>

Unjudged(n) == sweep[n].at \in {"head", "check"}

\* scanRunTimeout.
TimeOut(n) ==
  /\ Unjudged(n) /\ sweep[n].live
  /\ sweep' = [sweep EXCEPT ![n].live = FALSE]
  /\ Meddle
  /\ UNCHANGED <<begun, scan, cancelOf, scheduler, stamped, autos, stopped, abortVars, clientVars>>

\* SIGTERM: the scheduler's context dies and its sweep's with it; a manual
\* sweep has a context of its own and runs until the process exits.
ShutDown ==
  /\ ~stopped
  /\ stopped' = TRUE
  /\ sweep' = [n \in DOMAIN sweep |->
                 IF Unjudged(n) /\ ~sweep[n].manual THEN [sweep[n] EXCEPT !.live = FALSE] ELSE sweep[n]]
  /\ Meddle
  /\ UNCHANGED <<begun, scan, cancelOf, scheduler, stamped, autos, abortVars, clientVars>>

SchedulerExits ==
  /\ stopped /\ scheduler.at \in {"boot", "idle"}
  /\ scheduler' = [scheduler EXCEPT !.at = "stopped"]
  /\ UNCHANGED <<sweep, begun, scan, cancelOf, stamped, autos, stopped, abortVars, clientVars, meddled>>

-----------------------------------------------------------------------------
(* Abort reads the cancel func under the lock and calls it after.          *)

AbortRead ==
  /\ scan.running /\ aborting = NoSweep
  /\ aborting' = cancelOf
  /\ wanted' = wanted \union {n \in DOMAIN sweep : sweep[n].at \notin {"cleared", "over"}}
  /\ Meddle
  /\ UNCHANGED <<serverVars, stopped, heeded, clientVars>>

\* Mutant: the func is read again when it is called.
CalledLate == cancelOf

\* The func an Abort calls.
Called == aborting

AbortCall ==
  /\ aborting # NoSweep
  /\ aborting' = NoSweep
  /\ LET hit == {n \in DOMAIN sweep : n = Called /\ Unjudged(n)}
     IN  /\ sweep' = [n \in DOMAIN sweep |->
                        IF n \in hit THEN [sweep[n] EXCEPT !.live = FALSE] ELSE sweep[n]]
         /\ heeded' = heeded \union hit
  /\ UNCHANGED <<begun, scan, cancelOf, scheduler, stamped, autos, stopped, wanted, clientVars, meddled>>

-----------------------------------------------------------------------------
(* The dashboard.                                                          *)

\* What an event makes of the view (handleMessage); the refetches of the other
\* queries are left out.
Shown(event) ==
  CASE event = "progress" -> TRUE
    [] event = "finished" -> FALSE
    [] OTHER -> view

\* The stream hands an event on and the page handles it.
Deliver ==
  /\ inbox # << >>
  /\ inbox' = Tail(inbox)
  /\ view' = Shown(Head(inbox))
  /\ UNCHANGED <<serverVars, stopped, abortVars, resync, meddled>>

\* Mutant: events alone keep the view.
PollsNever == FALSE

\* The five-second poll runs while the view shows a scan.
Polls == view

\* GET /api/scan is answered from the state of that moment and arrives later.
AskState ==
  /\ Polls /\ resync = {}
  /\ resync' = {scan.running}
  /\ UNCHANGED <<serverVars, stopped, abortVars, inbox, view, meddled>>

Resynced ==
  /\ resync # {}
  /\ view' \in resync
  /\ resync' = {}
  /\ UNCHANGED <<serverVars, stopped, abortVars, inbox, meddled>>

\* The stream breaks; the new one starts empty and asks for the state.
Reconnect ==
  /\ inbox' = << >>
  /\ resync' = {scan.running}
  /\ Meddle
  /\ UNCHANGED <<serverVars, stopped, abortVars, view>>

-----------------------------------------------------------------------------

SweepStep(n) == Arm(n) \/ Check(n) \/ Checked(n) \/ Judge(n) \/ Clear(n) \/ Finish(n)

ScanNext ==
  \/ \E scope \in {"all", "scoped"} : Start(scope)
  \/ SchedulerTick
  \/ \E n \in DOMAIN sweep : SweepStep(n) \/ TimeOut(n)
  \/ Return
  \/ ShutDown \/ SchedulerExits
  \/ AbortRead \/ AbortCall
  \/ Deliver \/ AskState \/ Resynced \/ Reconnect

SomeSweepStep == \E n \in DOMAIN sweep : SweepStep(n)

ViewStep == AskState \/ Resynced

\* Goroutines run, checks end (the registry client and the context bound them),
\* and a dashboard that shows a scan polls.
ScanFairness == WF_scanVars(SomeSweepStep) /\ WF_scanVars(ViewStep)

ScanSpec == ScanInit /\ [][ScanNext]_scanVars /\ ScanFairness

-----------------------------------------------------------------------------
(* Properties.                                                             *)

\* The values the runner's state, the sweeps' goroutines and the dashboard take;
\* the progress never passes its total and nil is the cancel func of an idle
\* runner.
ScanTypeOK ==
  /\ begun \in 0..MaxSweeps /\ Len(sweep) = begun
  /\ \A n \in DOMAIN sweep : /\ sweep[n].at \in SweepSteps
                             /\ sweep[n].sound <= sweep[n].checked
                             /\ sweep[n].checked <= sweep[n].total
  /\ scan.done <= scan.total
  /\ ~scan.running => cancelOf = NoSweep /\ scan = Idle
  /\ scheduler.at \in {"boot", "idle", "sweep", "stopped"} /\ scheduler.run \in 0..begun
  /\ Len(inbox) <= BufferSize

\* The scheduler auto-applies, and "last scan" is stamped, only after a sweep
\* that checked every service under a live context (scanrun.go:75-79,
\* main.go:612-617): not after an aborted, timed-out, shut-down or skipped one.
FullSweepFirst ==
  \A n \in autos \union stamped :
    sweep[n].scope = "all" /\ sweep[n].sound = AllServices

\* An Abort that finds a cancel func ends the sweep it was meant for, and only
\* that one: the sweep does not report completion, and a later sweep never pays
\* for a call that was still on its way (scanrun.go:94-101).  An Abort between
\* tryBegin and the store of the cancel finds nil and is lost: the code's window.
AbortHeeded ==
  /\ heeded \subseteq wanted
  /\ \A n \in heeded : ~sweep[n].completed

\* One sweep at a time owns the state: whatever clears it, reports into it or
\* stores its cancel is the sweep that runs (the single-flight guard).
OneSweep ==
  /\ \A n, m \in DOMAIN sweep :
       sweep[n].at \notin {"cleared", "over"} /\ sweep[m].at \notin {"cleared", "over"} => n = m
  /\ cancelOf # NoSweep => sweep[cancelOf].at \in {"head", "check", "judged"}

\* Every sweep gives the runner back, whatever ended it.
ScanEnds == []<>~scan.running

\* The dashboard does not show a scan for ever: though the bus drops events and
\* an answer may be older than the events around it, its polls settle the view
\* (useEventStream.ts:17-23).
ViewSettles == []<>~view
=============================================================================
