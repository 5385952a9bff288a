-------------------------- MODULE ScanRunnerProofs --------------------------
(***************************************************************************)
(* Proofs about the scan-run for any number of services, sweeps, aborts,   *)
(* timeouts, shutdowns and broken streams, and any size of the bus's       *)
(* buffer.  ScanInv is inductive; what the run checks follows from it.     *)
(***************************************************************************)
EXTENDS ScanRunner, SequenceTheorems, TLAPS

Sweeps == [at : SweepSteps, scope : {"all", "scoped"}, manual : BOOLEAN,
           total : Nat, checked : Nat, sound : Nat, live : BOOLEAN, completed : BOOLEAN]

Events == {"progress", "scanned", "finished"}

\* A sweep that has begun and not given the state back.
InFlight(n) == sweep[n].at \notin {"cleared", "over"}

\* The values of the state: every index is that of a sweep that has begun.
ScanShape ==
  /\ begun \in 0..MaxSweeps /\ sweep \in Seq(Sweeps) /\ Len(sweep) = begun
  /\ scan \in [running : BOOLEAN, done : Nat, total : Nat]
  /\ cancelOf \in 0..begun /\ aborting \in 0..begun
  /\ scheduler \in [at : {"boot", "idle", "sweep", "stopped"}, run : 0..begun]
  /\ autos \subseteq 1..begun /\ stamped \subseteq 1..begun
  /\ heeded \subseteq 1..begun /\ wanted \subseteq 1..begun
  /\ inbox \in Seq(Events) /\ Len(inbox) <= BufferSize

\* The shared state is that of the sweep in flight; an idle runner has none.
StateIsTheSweeps ==
  /\ \A n \in 1..begun : InFlight(n) => /\ scan.running
                                        /\ scan.total = sweep[n].total
                                        /\ scan.done = sweep[n].checked
  /\ scan.done <= scan.total
  /\ ~scan.running => cancelOf = NoSweep /\ scan = Idle

\* How far sweep n is: every check that ended so far was sound while the
\* context lives, and completion is claimed only when all of them were.
Progress(n) ==
  /\ sweep[n].total = IF sweep[n].scope = "all" THEN AllServices ELSE 1
  /\ sweep[n].sound <= sweep[n].checked /\ sweep[n].checked <= sweep[n].total
  /\ sweep[n].at = "check" => sweep[n].checked < sweep[n].total
  /\ sweep[n].at = "arm" => sweep[n].live /\ sweep[n].checked = 0
  /\ sweep[n].live => sweep[n].sound = sweep[n].checked
  /\ sweep[n].completed => sweep[n].sound = sweep[n].total /\ ~Unjudged(n) /\ sweep[n].at # "arm"

SweepProgress == \A n \in 1..begun : Progress(n)

\* Only completed all-scope sweeps are stamped or auto-applied after, and the
\* scheduler waits for all-scope sweeps only.
AppliedAfterAll ==
  /\ \A n \in autos \union stamped : sweep[n].scope = "all" /\ sweep[n].completed
  /\ scheduler.run # NoSweep => sweep[scheduler.run].scope = "all"
  /\ scheduler.at = "sweep" => scheduler.run # NoSweep

\* A cancel func an Abort holds is that of a sweep it was meant for, and a
\* sweep whose context it cancelled stays dead: it is past the arming, where a
\* context is made.
AbortsAreMeant ==
  /\ aborting # NoSweep => aborting \in wanted
  /\ heeded \subseteq wanted
  /\ \A n \in heeded : ~sweep[n].live /\ ~sweep[n].completed /\ sweep[n].at # "arm"

ScanInv ==
  ScanShape /\ StateIsTheSweeps /\ OneSweep /\ SweepProgress /\ AppliedAfterAll /\ AbortsAreMeant

USE DEF NoSweep

\* Replacing one sweep's record leaves the others alone.
LEMMA OneMoves ==
  ASSUME ScanShape, NEW n \in 1..begun, NEW r \in Sweeps, sweep' = [sweep EXCEPT ![n] = r]
  PROVE  /\ sweep' \in Seq(Sweeps) /\ Len(sweep') = begun
         /\ sweep'[n] = r /\ \A m \in 1..begun : m # n => sweep'[m] = sweep[m]
  BY ExceptSeq DEF ScanShape

\* The bus's buffer keeps its bound.
LEMMA PublishKeepsBound ==
  ASSUME ScanShape, NEW e \in Events, Publish(e)
  PROVE  inbox' \in Seq(Events) /\ Len(inbox') <= BufferSize
  BY ScanRunnerAssumption DEF ScanShape, Publish

\* Every initial state of the runner satisfies the inductive invariant.
LEMMA ScanInitInv == ScanInit => ScanInv
  <1> SUFFICES ASSUME ScanInit PROVE ScanInv
    OBVIOUS
  <1> USE ScanRunnerAssumption DEF ScanInit
  <1>1. ScanShape
    <2>1. sweep \in Seq(Sweeps) /\ Len(sweep) = 0 /\ inbox \in Seq(Events) /\ Len(inbox) = 0
      OBVIOUS
    <2>2. scan \in [running : BOOLEAN, done : Nat, total : Nat]
      BY DEF Idle
    <2>. QED
      BY <2>1, <2>2 DEF ScanShape
  <1>2. StateIsTheSweeps /\ OneSweep /\ SweepProgress /\ AppliedAfterAll /\ AbortsAreMeant
    BY DEF StateIsTheSweeps, OneSweep, SweepProgress, AppliedAfterAll, AbortsAreMeant, Idle
  <1>. QED
    BY <1>1, <1>2 DEF ScanInv

\* A sweep that begins finds the runner idle, so it is the only one in flight.
LEMMA BeginInv ==
  ASSUME ScanInv, NEW scope \in {"all", "scoped"}, NEW manual \in BOOLEAN, Begin(scope, manual),
         \/ scheduler' = scheduler
         \/ scope = "all" /\ scheduler' = [at |-> "sweep", run |-> begun + 1]
  PROVE  ScanInv'
  <1> USE ScanRunnerAssumption DEF ScanInv
  <1> DEFINE total == IF scope = "all" THEN AllServices ELSE 1
             r == [at |-> "arm", scope |-> scope, manual |-> manual,
                   total |-> total, checked |-> 0, sound |-> 0,
                   live |-> TRUE, completed |-> FALSE]
  <1>1. /\ ~scan.running /\ begun < MaxSweeps /\ begun' = begun + 1 /\ sweep' = Append(sweep, r)
        /\ scan' = [running |-> TRUE, done |-> 0, total |-> total]
        /\ UNCHANGED <<cancelOf, stamped, autos, stopped, aborting, heeded, wanted, inbox>>
    BY DEF Begin, Free, abortVars, clientVars
  <1>2. r \in Sweeps /\ total \in Nat /\ r.total = total /\ r.at = "arm" /\ r.scope = scope
        /\ r.live /\ ~r.completed /\ r.checked = 0 /\ r.sound = 0
    BY DEF Sweeps, SweepSteps
  <1> HIDE DEF r
  <1>3. /\ sweep' \in Seq(Sweeps) /\ Len(sweep') = begun'
        /\ \A n \in 1..begun : sweep'[n] = sweep[n]
        /\ sweep'[begun'] = r
        /\ begun' \in 0..MaxSweeps
    BY <1>1, <1>2 DEF ScanShape
  <1>4. \A n \in 1..begun : ~InFlight(n)
    BY <1>1 DEF StateIsTheSweeps
  <1>5. ScanShape'
    BY <1>1, <1>2, <1>3 DEF ScanShape
  <1>6. StateIsTheSweeps'
    BY <1>1, <1>2, <1>3, <1>4 DEF ScanShape, StateIsTheSweeps, InFlight
  <1>7. OneSweep'
    BY <1>1, <1>2, <1>3, <1>4 DEF ScanShape, OneSweep, InFlight, StateIsTheSweeps
  <1>8. SweepProgress'
    <2>1. \A n \in 1..begun : Progress(n)'
      BY <1>3 DEF SweepProgress, Progress, Unjudged
    <2>2. ASSUME NEW n, n = begun' PROVE Progress(n)'
      BY <1>2, <1>3, <2>2 DEF Progress, Unjudged
    <2>3. \A n \in 1..begun' : n \in 1..begun \/ n = begun'
      BY <1>1 DEF ScanShape
    <2>. QED
      BY <2>1, <2>2, <2>3 DEF SweepProgress
  <1>9. AppliedAfterAll'
    <2>1. \A n \in autos' \union stamped' : sweep'[n].scope = "all" /\ sweep'[n].completed
      BY <1>1, <1>3 DEF ScanShape, AppliedAfterAll
    <2>2. CASE scheduler' = scheduler
      BY <1>1, <1>3, <2>1, <2>2 DEF ScanShape, AppliedAfterAll
    <2>3. CASE scope = "all" /\ scheduler' = [at |-> "sweep", run |-> begun + 1]
      <3>1. scheduler'.run = begun' /\ scheduler'.at = "sweep" /\ begun' # 0
        BY <1>1, <2>3 DEF ScanShape
      <3>. QED
        BY <1>2, <1>3, <2>1, <2>3, <3>1 DEF AppliedAfterAll
    <2>. QED
      BY <2>2, <2>3
  <1>10. AbortsAreMeant'
    BY <1>1, <1>2, <1>3 DEF ScanShape, AbortsAreMeant
  <1>. QED
    BY <1>5, <1>6, <1>7, <1>8, <1>9, <1>10

\* Every step of execute preserves the invariant.
LEMMA ExecuteInv == ASSUME ScanInv, NEW n \in 1..begun, SweepStep(n) PROVE ScanInv'
  <1> USE ScanRunnerAssumption DEF ScanInv
  <1>00. DOMAIN sweep = 1..begun
    BY DEF ScanShape
  <1>0. sweep[n] \in Sweeps
    BY DEF ScanShape
  <1>1. CASE Arm(n)
    <2> DEFINE r == [sweep[n] EXCEPT !.at = "head", !.live = sweep[n].manual \/ ~stopped]
    <2>1. r \in Sweeps /\ sweep' = [sweep EXCEPT ![n] = r] /\ sweep[n].at = "arm" /\ cancelOf' = n
      BY <1>0, <1>1 DEF Arm, Sweeps, SweepSteps
    <2>2. /\ sweep' \in Seq(Sweeps) /\ Len(sweep') = begun
          /\ sweep'[n] = r /\ \A m \in 1..begun : m # n => sweep'[m] = sweep[m]
      BY <2>1, OneMoves
    <2>3. inbox' \in Seq(Events) /\ Len(inbox') <= BufferSize
      BY <1>1, PublishKeepsBound DEF Arm, Events
    <2>4. UNCHANGED <<begun, scan, scheduler, stamped, autos, stopped, aborting, heeded, wanted>>
      BY <1>1 DEF Arm, abortVars
    <2>5. r.at = "head" /\ r.scope = sweep[n].scope /\ r.total = sweep[n].total
          /\ r.checked = sweep[n].checked /\ r.sound = sweep[n].sound /\ r.completed = sweep[n].completed
      BY <1>0 DEF Sweeps
    <2> HIDE DEF r
    <2>6. ScanShape'
      BY <2>1, <2>2, <2>3, <2>4 DEF ScanShape
    <2>7. StateIsTheSweeps'
      BY <2>1, <2>2, <2>4, <2>5 DEF StateIsTheSweeps, InFlight
    <2>8. OneSweep'
      BY <2>1, <2>2, <2>4, <2>5 DEF OneSweep, ScanShape
    <2>9. SweepProgress'
      BY <2>1, <2>2, <2>4, <2>5 DEF SweepProgress, Progress, Unjudged
    <2>10. AppliedAfterAll'
      BY <2>1, <2>2, <2>4, <2>5 DEF ScanShape, AppliedAfterAll
    <2>11. AbortsAreMeant'
      BY <2>1, <2>2, <2>4, <2>5 DEF ScanShape, AbortsAreMeant
    <2>. QED
      BY <2>6, <2>7, <2>8, <2>9, <2>10, <2>11
  <1>2. CASE Check(n)
    <2> DEFINE r == [sweep[n] EXCEPT !.at = "check"]
    <2>1. r \in Sweeps /\ sweep' = [sweep EXCEPT ![n] = r] /\ sweep[n].at = "head" /\ sweep[n].checked < sweep[n].total
      BY <1>0, <1>2 DEF Check, Move, Sweeps, SweepSteps
    <2>2. /\ sweep' \in Seq(Sweeps) /\ Len(sweep') = begun
          /\ sweep'[n] = r /\ \A m \in 1..begun : m # n => sweep'[m] = sweep[m]
      BY <2>1, OneMoves
    <2>3. inbox' \in Seq(Events) /\ Len(inbox') <= BufferSize
      BY <1>2 DEF Check, clientVars, ScanShape
    <2>4. UNCHANGED <<begun, scan, cancelOf, scheduler, stamped, autos, stopped, aborting, heeded, wanted>>
      BY <1>2 DEF Check, abortVars
    <2>5. /\ r.scope = sweep[n].scope /\ r.total = sweep[n].total
          /\ r.at = "check" /\ r.checked = sweep[n].checked /\ r.sound = sweep[n].sound
          /\r.live = sweep[n].live /\ r.completed = sweep[n].completed
      BY <1>0 DEF Sweeps
    <2> HIDE DEF r
    <2>6. ScanShape'
      BY <2>1, <2>2, <2>3, <2>4 DEF ScanShape
    <2>7. StateIsTheSweeps'
      BY <2>1, <2>2, <2>4, <2>5 DEF ScanShape, StateIsTheSweeps, InFlight, OneSweep, SweepProgress, Progress, Idle
    <2>8. OneSweep'
      BY <2>1, <2>2, <2>4, <2>5 DEF OneSweep, ScanShape
    <2>9. SweepProgress'
      BY <2>1, <2>2, <2>4, <2>5 DEF SweepProgress, Progress, Unjudged
    <2>10. AppliedAfterAll'
      BY <2>1, <2>2, <2>4, <2>5 DEF ScanShape, AppliedAfterAll, SweepProgress, Progress, Unjudged
    <2>11. AbortsAreMeant'
      BY <2>1, <2>2, <2>4, <2>5 DEF ScanShape, AbortsAreMeant
    <2>. QED
      BY <2>6, <2>7, <2>8, <2>9, <2>10, <2>11
  <1>3. CASE Checked(n)
    <2> DEFINE now == IF sweep[n].live THEN sweep[n].sound + 1 ELSE sweep[n].sound
               r == [sweep[n] EXCEPT !.at = "head", !.checked = sweep[n].checked + 1, !.sound = now]
    <2>0. /\ now \in Nat /\ now <= sweep[n].checked + 1
          /\ sweep[n].live => now = sweep[n].checked + 1
      <3>1. sweep[n].sound <= sweep[n].checked /\ (sweep[n].live => sweep[n].sound = sweep[n].checked)
        BY DEF SweepProgress, Progress
      <3>. QED
        BY <1>0, <3>1 DEF Sweeps
    <2>1. /\ r \in Sweeps /\ sweep' = [sweep EXCEPT ![n] = r] /\ sweep[n].at = "check"
          /\ scan' = [scan EXCEPT !.done = sweep[n].checked + 1]
          /\ scan' \in [running : BOOLEAN, done : Nat, total : Nat]
      <3>1. sweep' = [sweep EXCEPT ![n] = r] /\ sweep[n].at = "check"
        BY <1>3 DEF Checked
      <3>2. r \in Sweeps
        <4>1. sweep[n].checked + 1 \in Nat
          BY <1>0 DEF Sweeps
        <4> HIDE DEF now
        <4>. QED
          BY <1>0, <2>0, <4>1 DEF Sweeps, SweepSteps
      <3>3. scan' = [scan EXCEPT !.done = sweep[n].checked + 1] /\ sweep[n].checked + 1 \in Nat
        BY <1>0, <1>3 DEF Checked, Sweeps
      <3>4. scan' \in [running : BOOLEAN, done : Nat, total : Nat]
        BY <3>3 DEF ScanShape
      <3>. QED
        BY <3>1, <3>2, <3>3, <3>4
    <2>2. /\ sweep' \in Seq(Sweeps) /\ Len(sweep') = begun
          /\ sweep'[n] = r /\ \A m \in 1..begun : m # n => sweep'[m] = sweep[m]
      BY <2>1, OneMoves
    <2>3. inbox' \in Seq(Events) /\ Len(inbox') <= BufferSize
      BY <1>3, PublishKeepsBound DEF Checked, Events
    <2>4. UNCHANGED <<begun, cancelOf, scheduler, stamped, autos, stopped, aborting, heeded, wanted>>
      BY <1>3 DEF Checked, abortVars
    <2>5. /\ r.scope = sweep[n].scope /\ r.total = sweep[n].total
          /\ r.at = "head" /\ r.checked = sweep[n].checked + 1
          /\ r.sound = now
          /\r.live = sweep[n].live /\ r.completed = sweep[n].completed
      BY <1>0 DEF Sweeps
    <2> HIDE DEF now, r
    <2>6. ScanShape'
      BY <2>1, <2>2, <2>3, <2>4 DEF ScanShape
    <2>7. StateIsTheSweeps'
      <3>1. /\ scan.running /\ scan.total = sweep[n].total /\ sweep[n].checked < sweep[n].total
            /\ \A m \in 1..begun : m # n => ~InFlight(m)
        BY <2>1, <1>00 DEF StateIsTheSweeps, InFlight, OneSweep, SweepProgress, Progress
      <3>2. scan'.running = scan.running /\ scan'.total = scan.total /\ scan'.done = sweep[n].checked + 1
        BY <2>1 DEF ScanShape
      <3>3. \A m \in 1..begun : m # n => ~InFlight(m)'
        BY <2>2, <3>1 DEF InFlight
      <3>4. scan'.done <= scan'.total
        BY <1>0, <3>1, <3>2 DEF Sweeps
      <3>. QED
        BY <2>2, <2>4, <2>5, <3>1, <3>2, <3>3, <3>4 DEF StateIsTheSweeps, InFlight
    <2>8. OneSweep'
      BY <2>1, <2>2, <2>4, <2>5 DEF OneSweep, ScanShape
    <2>9. SweepProgress'
      <3>1. Progress(n)'
        <4>1. Progress(n) /\ sweep[n].checked < sweep[n].total
          BY <2>1 DEF SweepProgress, Progress
        <4>2. sweep[n].checked \in Nat /\ sweep[n].total \in Nat
          BY <1>0 DEF Sweeps
        <4>. QED
          BY <2>0, <2>1, <2>2, <2>5, <4>1, <4>2 DEF Progress, Unjudged
      <3>2. \A m \in 1..begun : m # n => Progress(m)'
        BY <2>2 DEF SweepProgress, Progress, Unjudged
      <3>. QED
        BY <2>4, <3>1, <3>2 DEF SweepProgress
    <2>10. AppliedAfterAll'
      BY <2>1, <2>2, <2>4, <2>5 DEF ScanShape, AppliedAfterAll, SweepProgress, Progress, Unjudged
    <2>11. AbortsAreMeant'
      BY <2>1, <2>2, <2>4, <2>5 DEF ScanShape, AbortsAreMeant
    <2>. QED
      BY <2>6, <2>7, <2>8, <2>9, <2>10, <2>11
  <1>4. CASE Judge(n)
    <2> DEFINE r == [sweep[n] EXCEPT !.at = "judged", !.completed = sweep[n].live]
    <2>1. r \in Sweeps /\ sweep' = [sweep EXCEPT ![n] = r] /\ sweep[n].at = "head"
          /\ (sweep[n].live => sweep[n].checked = sweep[n].total)
          /\ stamped' = IF sweep[n].live /\ sweep[n].scope = "all" THEN stamped \union {n} ELSE stamped
      BY <1>0, <1>4 DEF Judge, Move, Sweeps, SweepSteps, Completed
    <2>2. /\ sweep' \in Seq(Sweeps) /\ Len(sweep') = begun
          /\ sweep'[n] = r /\ \A m \in 1..begun : m # n => sweep'[m] = sweep[m]
      BY <2>1, OneMoves
    <2>3. inbox' \in Seq(Events) /\ Len(inbox') <= BufferSize
      BY <1>4, PublishKeepsBound DEF Judge, Events, clientVars, ScanShape
    <2>4. UNCHANGED <<begun, scan, cancelOf, scheduler, autos, stopped, aborting, heeded, wanted>>
      BY <1>4 DEF Judge, abortVars
    <2>5. /\ r.scope = sweep[n].scope /\ r.total = sweep[n].total
          /\ r.at = "judged" /\ r.checked = sweep[n].checked /\ r.sound = sweep[n].sound
          /\ r.live = sweep[n].live /\ r.completed = sweep[n].live
      BY <1>0 DEF Sweeps
    <2> HIDE DEF r
    <2>6. ScanShape'
      BY <2>1, <2>2, <2>3, <2>4 DEF ScanShape
    <2>7. StateIsTheSweeps'
      BY <2>1, <2>2, <2>4, <2>5 DEF ScanShape, StateIsTheSweeps, InFlight, OneSweep, SweepProgress, Progress, Idle
    <2>8. OneSweep'
      BY <2>1, <2>2, <2>4, <2>5 DEF OneSweep, ScanShape
    <2>9. SweepProgress'
      BY <2>1, <2>2, <2>4, <2>5 DEF SweepProgress, Progress, Unjudged
    <2>10. AppliedAfterAll'
      BY <2>1, <2>2, <2>4, <2>5 DEF ScanShape, AppliedAfterAll, SweepProgress, Progress, Unjudged
    <2>11. AbortsAreMeant'
      BY <2>1, <2>2, <2>4, <2>5 DEF ScanShape, AbortsAreMeant
    <2>. QED
      BY <2>6, <2>7, <2>8, <2>9, <2>10, <2>11
  <1>5. CASE Clear(n)
    <2> DEFINE r == [sweep[n] EXCEPT !.at = "cleared"]
    <2>1. r \in Sweeps /\ sweep' = [sweep EXCEPT ![n] = r] /\ sweep[n].at = "judged" /\ cancelOf' = NoSweep /\ scan' = Idle
          /\ scan' \in [running : BOOLEAN, done : Nat, total : Nat]
      BY <1>0, <1>5 DEF Clear, Move, Sweeps, SweepSteps, Cleared, Idle
    <2>2. /\ sweep' \in Seq(Sweeps) /\ Len(sweep') = begun
          /\ sweep'[n] = r /\ \A m \in 1..begun : m # n => sweep'[m] = sweep[m]
      BY <2>1, OneMoves
    <2>3. inbox' \in Seq(Events) /\ Len(inbox') <= BufferSize
      BY <1>5 DEF Clear, clientVars, ScanShape
    <2>4. UNCHANGED <<begun, scheduler, stamped, autos, stopped, aborting, heeded, wanted>>
      BY <1>5 DEF Clear, abortVars
    <2>5. /\ r.scope = sweep[n].scope /\ r.total = sweep[n].total
          /\ r.at = "cleared" /\ r.checked = sweep[n].checked /\ r.sound = sweep[n].sound
          /\r.live = sweep[n].live /\ r.completed = sweep[n].completed
      BY <1>0 DEF Sweeps
    <2> HIDE DEF r
    <2>6. ScanShape'
      BY <2>1, <2>2, <2>3, <2>4 DEF ScanShape
    <2>7. StateIsTheSweeps'
      <3>1. \A m \in 1..begun : m # n => ~InFlight(m)
        BY <2>1, <1>00 DEF OneSweep, InFlight
      <3>2. \A m \in 1..begun' : ~InFlight(m)'
        BY <2>2, <2>4, <2>5, <3>1 DEF InFlight
      <3>. QED
        BY <2>1, <3>2 DEF StateIsTheSweeps, Idle
    <2>8. OneSweep'
      BY <2>1, <2>2, <2>4, <2>5 DEF OneSweep, ScanShape
    <2>9. SweepProgress'
      BY <2>1, <2>2, <2>4, <2>5 DEF SweepProgress, Progress, Unjudged
    <2>10. AppliedAfterAll'
      BY <2>1, <2>2, <2>4, <2>5 DEF ScanShape, AppliedAfterAll, SweepProgress, Progress, Unjudged
    <2>11. AbortsAreMeant'
      BY <2>1, <2>2, <2>4, <2>5 DEF ScanShape, AbortsAreMeant
    <2>. QED
      BY <2>6, <2>7, <2>8, <2>9, <2>10, <2>11
  <1>6. CASE Finish(n)
    <2> DEFINE r == [sweep[n] EXCEPT !.at = "over"]
    <2>1. r \in Sweeps /\ sweep' = [sweep EXCEPT ![n] = r] /\ sweep[n].at = "cleared"
      BY <1>0, <1>6 DEF Finish, Move, Sweeps, SweepSteps
    <2>2. /\ sweep' \in Seq(Sweeps) /\ Len(sweep') = begun
          /\ sweep'[n] = r /\ \A m \in 1..begun : m # n => sweep'[m] = sweep[m]
      BY <2>1, OneMoves
    <2>3. inbox' \in Seq(Events) /\ Len(inbox') <= BufferSize
      BY <1>6, PublishKeepsBound DEF Finish, Events
    <2>4. UNCHANGED <<begun, scan, cancelOf, scheduler, stamped, autos, stopped, aborting, heeded, wanted>>
      BY <1>6 DEF Finish, abortVars
    <2>5. /\ r.scope = sweep[n].scope /\ r.total = sweep[n].total
          /\ r.at = "over" /\ r.checked = sweep[n].checked /\ r.sound = sweep[n].sound
          /\r.live = sweep[n].live /\ r.completed = sweep[n].completed
      BY <1>0 DEF Sweeps
    <2> HIDE DEF r
    <2>6. ScanShape'
      BY <2>1, <2>2, <2>3, <2>4 DEF ScanShape
    <2>7. StateIsTheSweeps'
      BY <2>1, <2>2, <2>4, <2>5 DEF ScanShape, StateIsTheSweeps, InFlight, OneSweep, SweepProgress, Progress, Idle
    <2>8. OneSweep'
      BY <2>1, <2>2, <2>4, <2>5 DEF OneSweep, ScanShape
    <2>9. SweepProgress'
      BY <2>1, <2>2, <2>4, <2>5 DEF SweepProgress, Progress, Unjudged
    <2>10. AppliedAfterAll'
      BY <2>1, <2>2, <2>4, <2>5 DEF ScanShape, AppliedAfterAll, SweepProgress, Progress, Unjudged
    <2>11. AbortsAreMeant'
      BY <2>1, <2>2, <2>4, <2>5 DEF ScanShape, AbortsAreMeant
    <2>. QED
      BY <2>6, <2>7, <2>8, <2>9, <2>10, <2>11
  <1>. QED
    BY <1>1, <1>2, <1>3, <1>4, <1>5, <1>6 DEF SweepStep

\* Every step of the runner (one case per action) preserves the invariant.
LEMMA ScanStepInv == ScanInv /\ [ScanNext]_scanVars => ScanInv'
  <1> SUFFICES ASSUME ScanInv, [ScanNext]_scanVars PROVE ScanInv'
    OBVIOUS
  <1> USE ScanRunnerAssumption DEF ScanInv
  <1>00. DOMAIN sweep = 1..begun
    BY DEF ScanShape
  <1>1. ASSUME NEW scope \in {"all", "scoped"}, Start(scope) PROVE ScanInv'
    BY <1>1, BeginInv DEF Start
  <1>2. CASE SchedulerTick
    <2>1. CASE Begin("all", FALSE) /\ scheduler' = [at |-> "sweep", run |-> begun + 1]
      BY <2>1, BeginInv
    <2>2. CASE /\ scan.running /\ scheduler.at = "boot"
               /\ scheduler' = [scheduler EXCEPT !.at = "idle"]
               /\ UNCHANGED <<sweep, begun, scan, cancelOf, stamped, autos, stopped, abortVars, clientVars, meddled>>
      <3>1. scheduler' \in [at : {"boot", "idle", "sweep", "stopped"}, run : 0..begun]
            /\ scheduler'.run = scheduler.run /\ scheduler'.at = "idle"
        BY <2>2 DEF ScanShape
      <3>2. ScanShape'
        BY <2>2, <3>1 DEF ScanShape, abortVars, clientVars
      <3>3. AppliedAfterAll'
        BY <2>2, <3>1 DEF AppliedAfterAll
      <3>. QED
        BY <2>2, <3>2, <3>3 DEF abortVars, clientVars, StateIsTheSweeps, OneSweep, SweepProgress,
           Progress, Unjudged, InFlight, AbortsAreMeant
    <2>. QED
      BY <1>2, <2>1, <2>2 DEF SchedulerTick
  <1>3. ASSUME NEW n \in 1..begun, SweepStep(n) PROVE ScanInv'
    BY <1>3, ExecuteInv
  <1>4. CASE Return
    <2>1. /\ scheduler.at = "sweep" /\ scheduler' = [at |-> "idle", run |-> NoSweep]
          /\ autos' = IF sweep[scheduler.run].completed THEN autos \union {scheduler.run} ELSE autos
          /\ UNCHANGED <<sweep, begun, scan, cancelOf, stamped, stopped, abortVars, clientVars, meddled>>
      BY <1>4 DEF Return, Applies
    <2>2. /\ scheduler.run \in 1..begun /\ sweep[scheduler.run].scope = "all"
          /\ scheduler' \in [at : {"boot", "idle", "sweep", "stopped"}, run : 0..begun]
          /\ scheduler'.run = NoSweep /\ scheduler'.at = "idle"
      BY <2>1 DEF ScanShape, AppliedAfterAll
    <2>3. /\ autos' \subseteq 1..begun
          /\ \A n \in autos' : n \in autos \/ (n = scheduler.run /\ sweep[n].completed)
      BY <2>1, <2>2 DEF ScanShape
    <2>4. ScanShape'
      BY <2>1, <2>2, <2>3 DEF ScanShape, abortVars, clientVars
    <2>5. AppliedAfterAll'
      BY <2>1, <2>2, <2>3 DEF AppliedAfterAll
    <2>. QED
      BY <2>1, <2>4, <2>5 DEF abortVars, StateIsTheSweeps, OneSweep, SweepProgress, Progress, Unjudged,
         InFlight, AbortsAreMeant
  <1>5. CASE SchedulerExits
    <2>1. /\ scheduler' = [scheduler EXCEPT !.at = "stopped"]
          /\ UNCHANGED <<sweep, begun, scan, cancelOf, stamped, autos, stopped, abortVars, clientVars, meddled>>
      BY <1>5 DEF SchedulerExits
    <2>2. /\ scheduler' \in [at : {"boot", "idle", "sweep", "stopped"}, run : 0..begun]
          /\ scheduler'.run = scheduler.run /\ scheduler'.at = "stopped"
      BY <2>1 DEF ScanShape
    <2>3. ScanShape'
      BY <2>1, <2>2 DEF ScanShape, abortVars, clientVars
    <2>4. AppliedAfterAll'
      BY <2>1, <2>2 DEF AppliedAfterAll
    <2>. QED
      BY <2>1, <2>3, <2>4 DEF abortVars, StateIsTheSweeps, OneSweep, SweepProgress, Progress, Unjudged,
         InFlight, AbortsAreMeant
  <1>6. ASSUME NEW hit \in SUBSET (1..begun), \A n \in hit : Unjudged(n),
               sweep' = [n \in 1..begun |-> IF n \in hit THEN [sweep[n] EXCEPT !.live = FALSE] ELSE sweep[n]],
               UNCHANGED <<begun, scan, cancelOf, scheduler, stamped, autos, wanted, inbox>>,
               aborting' \in {NoSweep, aborting}, heeded \subseteq heeded', heeded' \subseteq heeded \union hit,
               heeded' \subseteq wanted
        PROVE  ScanInv'
    <2>1. \A n \in 1..begun : sweep[n] \in Sweeps /\ [sweep[n] EXCEPT !.live = FALSE] \in Sweeps
      <3>1. \A n \in 1..begun : sweep[n] \in Sweeps
        BY DEF ScanShape
      <3>. QED
        BY <3>1 DEF Sweeps
    <2>2. sweep' \in Seq(Sweeps) /\ Len(sweep') = begun
      <3>1. sweep' \in [1..begun -> Sweeps] /\ begun \in Nat
        BY <1>6, <2>1 DEF ScanShape
      <3>2. sweep' \in Seq(Sweeps)
        BY <3>1, SeqDef
      <3>. QED
        BY <3>1, <3>2, LenProperties
    <2>3. \A n \in 1..begun : /\ sweep'[n].at = sweep[n].at /\ sweep'[n].scope = sweep[n].scope
                              /\ sweep'[n].total = sweep[n].total /\ sweep'[n].checked = sweep[n].checked
                              /\ sweep'[n].sound = sweep[n].sound /\ sweep'[n].completed = sweep[n].completed
      BY <1>6, <2>1 DEF Sweeps
    <2>4. \A n \in 1..begun : /\ n \in hit => ~sweep'[n].live
                              /\ n \notin hit => sweep'[n] = sweep[n]
      BY <1>6, <2>1 DEF Sweeps
    <2>5. ScanShape'
      BY <1>6, <2>2 DEF ScanShape
    <2>6. StateIsTheSweeps' /\ OneSweep'
      BY <1>6, <1>00, <2>2, <2>3 DEF StateIsTheSweeps, OneSweep, InFlight, ScanShape
    <2>7. SweepProgress'
      <3> SUFFICES ASSUME NEW n \in 1..begun PROVE Progress(n)'
        BY <1>6 DEF SweepProgress
      <3>1. Progress(n)
        BY DEF SweepProgress
      <3>2. CASE n \in hit
        BY <1>6, <2>3, <2>4, <3>1, <3>2 DEF Progress, Unjudged
      <3>3. CASE n \notin hit
        BY <1>6, <2>4, <3>1, <3>3 DEF Progress, Unjudged
      <3>. QED
        BY <3>2, <3>3
    <2>8. AppliedAfterAll'
      BY <1>6, <2>3 DEF AppliedAfterAll, ScanShape
    <2>9. AbortsAreMeant'
      <3>1. \A n \in heeded' : ~sweep'[n].live /\ ~sweep'[n].completed /\ sweep'[n].at # "arm"
        <4> SUFFICES ASSUME NEW n \in heeded' PROVE ~sweep'[n].live /\ ~sweep'[n].completed /\ sweep'[n].at # "arm"
          OBVIOUS
        <4>1. CASE n \in hit
          <5>1. Progress(n) /\ Unjudged(n)
            BY <1>6, <4>1 DEF SweepProgress
          <5>. QED
            BY <2>3, <2>4, <4>1, <5>1 DEF Progress, Unjudged
        <4>2. CASE n \notin hit
          <5>1. n \in heeded /\ n \in 1..begun
            BY <1>6, <4>2 DEF ScanShape
          <5>. QED
            BY <2>4, <4>2, <5>1 DEF AbortsAreMeant
        <4>. QED
          BY <4>1, <4>2
      <3>. QED
        BY <1>6, <3>1 DEF AbortsAreMeant
    <2>. QED
      BY <2>5, <2>6, <2>7, <2>8, <2>9
  <1>7. ASSUME NEW n \in 1..begun, TimeOut(n) PROVE ScanInv'
    <2>1. sweep' = [m \in 1..begun |-> IF m \in {n} THEN [sweep[m] EXCEPT !.live = FALSE] ELSE sweep[m]]
      BY <1>00, <1>7 DEF TimeOut, ScanShape
    <2>. QED
      BY <1>6, <1>7, <2>1 DEF TimeOut, abortVars, clientVars, AbortsAreMeant
  <1>8. CASE ShutDown
    <2> DEFINE hit == {n \in 1..begun : Unjudged(n) /\ ~sweep[n].manual}
    <2>1. sweep' = [n \in 1..begun |-> IF n \in hit THEN [sweep[n] EXCEPT !.live = FALSE] ELSE sweep[n]]
      BY <1>00, <1>8 DEF ShutDown
    <2>2. hit \in SUBSET (1..begun) /\ \A n \in hit : Unjudged(n)
      OBVIOUS
    <2> HIDE DEF hit
    <2>. QED
      BY <1>6, <1>8, <2>1, <2>2 DEF ShutDown, abortVars, clientVars, AbortsAreMeant
  <1>9. CASE AbortCall
    <2> DEFINE hit == {n \in 1..begun : n = aborting /\ Unjudged(n)}
    <2>1. /\ sweep' = [n \in 1..begun |-> IF n \in hit THEN [sweep[n] EXCEPT !.live = FALSE] ELSE sweep[n]]
          /\ heeded' = heeded \union hit /\ aborting # NoSweep
      BY <1>00, <1>9 DEF AbortCall, Called
    <2>2. hit \in SUBSET (1..begun) /\ (\A n \in hit : Unjudged(n)) /\ hit \subseteq wanted
      BY <2>1 DEF AbortsAreMeant
    <2> HIDE DEF hit
    <2>. QED
      BY <1>6, <1>9, <2>1, <2>2 DEF AbortCall, clientVars, AbortsAreMeant
  <1>10. CASE AbortRead
    <2>1. /\ aborting' = cancelOf
          /\ wanted' = wanted \union {n \in 1..begun : sweep[n].at \notin {"cleared", "over"}}
          /\ UNCHANGED <<serverVars, stopped, heeded, clientVars>>
      BY <1>00, <1>10 DEF AbortRead
    <2>2. wanted' \subseteq 1..begun /\ (cancelOf # NoSweep => cancelOf \in wanted')
      <3>1. cancelOf # NoSweep => cancelOf \in 1..begun /\ sweep[cancelOf].at \in {"head", "check", "judged"}
        BY DEF ScanShape, OneSweep
      <3>2. cancelOf # NoSweep => cancelOf \in wanted'
        BY <2>1, <3>1
      <3>. QED
        BY <2>1, <3>2 DEF ScanShape
    <2>. QED
      BY <2>1, <2>2 DEF serverVars, clientVars, ScanShape, StateIsTheSweeps, OneSweep, SweepProgress, Progress,
         Unjudged, InFlight, AppliedAfterAll, AbortsAreMeant
  <1>11. CASE Deliver \/ AskState \/ Resynced \/ Reconnect \/ UNCHANGED scanVars
    <2>1. UNCHANGED <<serverVars, abortVars>>
      BY <1>11 DEF Deliver, AskState, Resynced, Reconnect, scanVars
    <2>2. inbox' \in Seq(Events) /\ Len(inbox') <= BufferSize
      <3>1. CASE Deliver
        BY <3>1 DEF ScanShape, Deliver
      <3>2. CASE Reconnect
        BY <3>2 DEF ScanShape, Reconnect
      <3>3. CASE AskState \/ Resynced \/ UNCHANGED scanVars
        BY <3>3 DEF ScanShape, AskState, Resynced, scanVars, clientVars
      <3>. QED
        BY <1>11, <3>1, <3>2, <3>3
    <2>. QED
      BY <2>1, <2>2 DEF serverVars, abortVars, ScanShape, StateIsTheSweeps, OneSweep, SweepProgress, Progress,
         Unjudged, InFlight, AppliedAfterAll, AbortsAreMeant
  <1>. QED
    BY <1>00, <1>1, <1>2, <1>3, <1>4, <1>5, <1>7, <1>8, <1>9, <1>10, <1>11 DEF ScanNext

\* The runner's state, the sweeps' goroutines and the bus always have the
\* values and the relations ScanInv states.
THEOREM ScanInvariant == ScanSpec => []ScanInv
  BY ScanInitInv, ScanStepInv, PTL DEF ScanSpec

\* Type correctness: the progress never passes its total, an idle runner has
\* no cancel func, the bus's buffer is bounded.
THEOREM ScanTypeCorrect == ScanSpec => []ScanTypeOK
  <1>1. ASSUME ScanInv PROVE ScanTypeOK
    <2>1. DOMAIN sweep = 1..begun /\ \A n \in 1..begun : sweep[n] \in Sweeps /\ Progress(n)
      BY <1>1 DEF ScanInv, ScanShape, SweepProgress
    <2>2. \A n \in DOMAIN sweep : /\ sweep[n].at \in SweepSteps
                                  /\ sweep[n].sound <= sweep[n].checked
                                  /\ sweep[n].checked <= sweep[n].total
      BY <2>1 DEF Sweeps, Progress
    <2>. QED
      BY <1>1, <2>2 DEF ScanInv, ScanShape, StateIsTheSweeps, ScanTypeOK
  <1>. QED
    BY <1>1, ScanInvariant, PTL

\* tryBegin's guard is enough: however many starts, aborts and shutdowns fall
\* between the steps of execute, one sweep at a time owns the shared state.
THEOREM SingleFlight == ScanSpec => []OneSweep
  BY ScanInvariant, PTL DEF ScanInv

\* An Abort that found a cancel func ends the sweep it was meant for and no
\* later one, although it calls the func outside the lock.
THEOREM AbortIsHeeded == ScanSpec => []AbortHeeded
  <1>1. ScanInv => AbortHeeded
    BY DEF ScanInv, AbortsAreMeant, AbortHeeded
  <1>. QED
    BY <1>1, ScanInvariant, PTL

\* Auto-apply and the "last scan" stamp follow only a sweep that checked every
\* service under a live context.
THEOREM AppliesAfterFullSweep == ScanSpec => []FullSweepFirst
  <1>1. ScanInv => FullSweepFirst
    BY DEF ScanInv, ScanShape, SweepProgress, Progress, AppliedAfterAll, FullSweepFirst
  <1>. QED
    BY <1>1, ScanInvariant, PTL

=============================================================================
