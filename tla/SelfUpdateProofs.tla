-------------------------- MODULE SelfUpdateProofs --------------------------
(***************************************************************************)
(* Proofs about the self-update for any number of releases, requests and   *)
(* refused calls, and either way of naming the image.  SelfInv is          *)
(* inductive; it says where the container can be at every step of the      *)
(* helper, and what the versions in the job and on the helper's command    *)
(* line are worth when they are used.                                      *)
(***************************************************************************)
EXTENDS SelfUpdate, TLAPS

\* What the job's record may hold.
Errands == [at : ErrandSteps, latest : Nat, passed : Nat, more : Nat]

\* The values of the state.
SelfShape ==
  /\ kind \in {"latest", "pinned"}
  /\ tagged \in 1..MaxRelease /\ pushed \in 1..tagged /\ cached \in 0..tagged /\ local \in 1..pushed
  /\ dock \in [id : Nat, ver : Nat, state : DockStates] /\ dock.ver \in 1..pushed
  /\ errand \in Errands
  /\ helper \in [at : HelperSteps, target : Nat, image : Nat, old : Nat]
  /\ best \in 1..pushed

\* The container at every step of the helper.  A helper is spawned by the
\* process it replaces, so nothing boots under it; what ran is stopped, then
\* removed, then replaced under the same name.
DockAtStep ==
  /\ dock.state = "booting" => ~Swapping
  /\ helper.at = "launch" => dock.state = "created"
  /\ Swapping => helper.target <= dock.id
  /\ helper.at \in {"delay", "inspect", "stop", "wait", "remove"} => dock.state \notin {"created", "gone"}
  /\ ~excuse =>
       /\ helper.at = "wait" => dock.state \in {"stopping", "stopped"}
       /\ helper.at = "remove" => dock.state = "stopped"
       /\ helper.at \in {"make", "remake"} => dock.state = "gone"
       /\ helper.at = "relaunch" => dock.state = "created"
       /\ helper.at \in {"none", "created", "exited", "delay", "inspect", "stop"} =>
            dock.state \in {"booting", "running"}

\* The spawning steps of the job work on the helper they cleared or created.
SpawnOrder ==
  /\ errand.at = "create" => helper.at = "none"
  /\ errand.at = "start" => helper.at = "created" /\ helper.target <= dock.id
                            /\ helper.image = errand.latest

\* The process of dock still knows what its job decided.
Remembers == dock.state \in {"running", "stopping", "stopped"}

\* What the job decided stays worth it while its process lives: the release is
\* newer than anything that ran, and from the verification on the reference
\* means that release or a newer one.
DecisionHolds ==
  errand.at \notin {"none", "queued", "check"} /\ Remembers =>
    /\ errand.latest > best
    /\ errand.at \in {"verify", "clear", "create", "start"} /\ kind = "pinned" => errand.latest <= pushed
    /\ errand.at \in {"clear", "create", "start"} => Means(errand.latest) >= errand.latest

\* So does what the helper was told, and what it read of the old container.
SwapHolds ==
  /\ helper.at \in {"delay", "inspect", "stop", "wait", "remove", "make"} =>
       /\ helper.image > best /\ Means(helper.image) >= helper.image
       /\ kind = "pinned" => helper.image <= pushed
  /\ helper.at = "launch" => dock.ver > best
  /\ helper.at \in {"stop", "wait", "remove", "make", "launch", "undo", "remake", "relaunch"} =>
       helper.old = best
  /\ helper.at = "relaunch" => dock.ver >= best

\* A container that was started runs the newest release that ever ran.
RunsBest ==
  /\ dock.state \in {"booting", "running", "stopping", "stopped"} => dock.ver = best
  /\ kind = "latest" => local >= best /\ local >= dock.ver

SelfInv == SelfShape /\ DockAtStep /\ SpawnOrder /\ DecisionHolds /\ SwapHolds /\ RunsBest
\* Every initial state satisfies the inductive invariant.
LEMMA SelfInitInv == SelfInit => SelfInv
  <1> SUFFICES ASSUME SelfInit PROVE SelfInv
    OBVIOUS
  <1> USE SelfUpdateAssumption DEF SelfInit, NoErrand, NoHelper
  <1>1. SelfShape
    BY DEF SelfShape, Errands, DockStates, ErrandSteps, HelperSteps
  <1>2. DockAtStep /\ SpawnOrder /\ DecisionHolds /\ SwapHolds /\ RunsBest
    BY DEF DockAtStep, SpawnOrder, DecisionHolds, SwapHolds, RunsBest, Swapping
  <1>. QED
    BY <1>1, <1>2 DEF SelfInv

\* A job that ends leaves an idle record or the next job in the queue.
LEMMA OverShape ==
  ASSUME errand \in Errands
  PROVE  Over \in Errands /\ Over.at \in {"none", "queued"}
  <1>1. CASE errand.more > 0
    <2>1. Over = [at |-> "queued", latest |-> 0, passed |-> errand.passed, more |-> errand.more - 1]
      BY <1>1 DEF Over, NoErrand
    <2>2. errand.passed \in Nat /\ errand.more - 1 \in Nat
      BY <1>1 DEF Errands
    <2>. QED
      BY <2>1, <2>2 DEF Errands, ErrandSteps
  <1>2. CASE ~(errand.more > 0)
    <2>1. Over = [at |-> "none", latest |-> 0, passed |-> errand.passed, more |-> 0]
      BY <1>2 DEF Over, NoErrand
    <2>. QED
      BY <2>1 DEF Errands, ErrandSteps
  <1>. QED
    BY <1>1, <1>2

\* What a request does to the job's record.
LEMMA AskShape ==
  ASSUME errand \in Errands, Ask \/ AskEnqueue
  PROVE  /\ errand' \in Errands
         /\ errand'.at # errand.at => errand'.at = "queued"
         /\ errand'.latest = errand.latest
  <1>1. CASE Ask
    <2>1. errand' = [errand EXCEPT !.passed = errand.passed + 1]
      BY <1>1 DEF Ask
    <2>. QED
      BY <2>1 DEF Errands
  <1>2. CASE AskEnqueue
    <2>1. errand.passed - 1 \in Nat /\ errand.more + 1 \in Nat
      BY <1>2 DEF AskEnqueue, Errands
    <2>2. CASE errand' = [errand EXCEPT !.passed = errand.passed - 1, !.more = errand.more + 1]
      BY <2>1, <2>2 DEF Errands
    <2>3. CASE errand' = [errand EXCEPT !.passed = errand.passed - 1, !.at = "queued"]
      BY <2>1, <2>3 DEF Errands, ErrandSteps
    <2>. QED
      BY <1>2, <2>2, <2>3 DEF AskEnqueue
  <1>. QED
    BY <1>1, <1>2

\* What the start-up does to it.
LEMMA BootShape ==
  ASSUME errand \in Errands, BootSelf
  PROVE  errand' \in Errands /\ errand'.at \in {"none", "queued"}
  <1>1. errand' = [at |-> IF Active THEN "queued" ELSE "none", latest |-> 0, passed |-> 0, more |-> errand.more]
    BY DEF BootSelf, NoErrand
  <1>. QED
    BY <1>1 DEF Errands, ErrandSteps

\* The release check either ends the job or hands it a release that is newer
\* than the one that runs.
LEMMA CheckShape ==
  ASSUME errand \in Errands, cached \in 0..tagged, tagged \in Nat, ErrandCheck
  PROVE  /\ cached' \in 0..tagged
         /\ \/ errand' = Over
            \/ /\ errand' \in Errands /\ errand'.at = "pull"
               /\ errand'.latest > dock.ver
  <1>1. PICK verdict \in 0..MaxRelease :
               /\ cached' \in {cached, tagged}
               /\ errand' = IF verdict # 0 /\ IsNewer(verdict)
                            THEN [errand EXCEPT !.at = "pull", !.latest = verdict] ELSE Over
    BY DEF ErrandCheck, Fetched
  <1>2. cached' \in 0..tagged
    BY <1>1
  <1>3. verdict \in Nat
    BY SelfUpdateAssumption
  <1>4. CASE IsNewer(verdict) /\ errand' = [errand EXCEPT !.at = "pull", !.latest = verdict]
    BY <1>2, <1>3, <1>4 DEF Errands, ErrandSteps, IsNewer
  <1>. QED
    BY <1>1, <1>2, <1>4

\* Every step preserves the invariant.
LEMMA SelfStepInv == SelfInv /\ [SelfNext]_selfVars => SelfInv'
  <1> SUFFICES ASSUME SelfInv, [SelfNext]_selfVars PROVE SelfInv'
    OBVIOUS
  <1> USE SelfUpdateAssumption DEF SelfInv, SelfShape, DockAtStep, SpawnOrder, DecisionHolds, SwapHolds, RunsBest,
          Swapping, Alive, Remembers, Means, DockStates, ErrandSteps, HelperSteps, NoHelper,
          worldVars, errandRest, helperRest, HelperGoes, Made, Ran, selfVars
  <1>0. Over \in Errands /\ Over.at \in {"none", "queued"}
    BY OverShape
  <1>1. CASE TagRelease \/ PushImage \/ UNCHANGED selfVars
    <2>1. CASE TagRelease
      BY <2>1 DEF TagRelease
    <2>2. CASE PushImage
      <3>1. pushed' = pushed + 1 /\ pushed < tagged /\ UNCHANGED <<kind, tagged, cached, local, dock, errand, helper, excuse, best>>
        BY <2>2 DEF PushImage
      <3>2. SelfShape'
        BY <3>1
      <3>3. DockAtStep' /\ SpawnOrder' /\ RunsBest'
        BY <3>1
      <3>4. DecisionHolds' /\ SwapHolds'
        BY <3>1 DEF Errands
      <3>. QED
        BY <3>2, <3>3, <3>4
    <2>3. CASE UNCHANGED selfVars
      BY <2>3
    <2>. QED
      BY <1>1, <2>1, <2>2, <2>3
  <1>2. CASE Ask \/ AskEnqueue \/ Poll
    <2>1. CASE Poll
      BY <2>1 DEF Poll
    <2>2. CASE Ask \/ AskEnqueue
      <3>1. /\ errand' \in Errands /\ (errand'.at # errand.at => errand'.at = "queued")
            /\ errand'.latest = errand.latest
        BY <2>2, AskShape
      <3>2. UNCHANGED <<errandRest, local>> /\ cached' \in 0..tagged
        BY <2>2 DEF Ask, AskEnqueue
      <3>. QED
        BY <3>1, <3>2
    <2>. QED
      BY <1>2, <2>1, <2>2
  <1>3. CASE ErrandStart \/ ErrandFinish
    BY <1>0, <1>3 DEF ErrandStart, ErrandFinish, Errands
  <1>4. CASE ErrandCheck
    <2>1. UNCHANGED <<errandRest, local>> /\ Alive
      BY <1>4 DEF ErrandCheck
    <2>2. cached' \in 0..tagged
      BY <1>4, CheckShape
    <2>3. CASE errand' = Over
      BY <1>0, <2>1, <2>2, <2>3
    <2>4. CASE errand' \in Errands /\ errand'.at = "pull" /\ errand'.latest > dock.ver
      BY <2>1, <2>2, <2>4
    <2>. QED
      BY <1>4, <2>3, <2>4, CheckShape
  <1>5. CASE ErrandPull
    BY <1>0, <1>5 DEF Errands, ErrandPull
  <1>6. CASE ErrandVerify
    BY <1>0, <1>6 DEF Errands, ErrandVerify, Verified
  <1>7. CASE ErrandClear
    <2>1. CASE helper' = helper /\ excuse' = excuse
      BY <1>0, <1>7, <2>1 DEF ErrandClear, Errands
    <2>2. CASE helper' = NoHelper /\ errand' = [errand EXCEPT !.at = "create"]
      <3>1. errand.at = "clear" /\ UNCHANGED <<worldVars, cached, local, dock, best>>
        BY <1>7 DEF ErrandClear
      <3>2. excuse' = (excuse \/ Swapping)
        <4>1. errand'.at = "create"
          BY <2>2, <3>1
        <4>. QED
          BY <1>0, <1>7, <4>1 DEF ErrandClear
      <3>3. ~excuse' => ~excuse /\ ~Swapping
        <4> HIDE DEF Swapping
        <4>. QED
          BY <3>2, Zenon
      <3>. QED
        BY <2>2, <3>1, <3>3 DEF Errands
    <2>. QED
      BY <1>7, <2>1, <2>2 DEF ErrandClear
  <1>8. CASE ErrandCreate
    <2>1. CASE helper' = helper /\ errand' = Over
      BY <1>0, <1>8, <2>1 DEF ErrandCreate
    <2>2. CASE /\ helper' = [NoHelper EXCEPT !.at = "created", !.target = dock.id, !.image = errand.latest]
               /\ errand' = [errand EXCEPT !.at = "start"]
      <3>1. helper' = [at |-> "created", target |-> dock.id, image |-> errand.latest, old |-> 0]
        BY <2>2
      <3>2. UNCHANGED <<worldVars, cached, local, dock, excuse, best>> /\ errand.at = "create"
        BY <1>8 DEF ErrandCreate
      <3>3. errand'.at = "start" /\ errand'.latest = errand.latest
        BY <2>2
      <3>. QED
        BY <2>2, <3>1, <3>2, <3>3 DEF Errands
    <2>. QED
      BY <1>8, <2>1, <2>2 DEF ErrandCreate
  <1>9. CASE ErrandSpawn
    BY <1>0, <1>9 DEF ErrandSpawn, Errands
  <1>10. CASE Exits \/ BootSelf
    <2>1. CASE Exits
      BY <2>1 DEF Exits
    <2>2. CASE BootSelf
      <3>1. errand' \in Errands /\ errand'.at \in {"none", "queued"}
        BY <2>2, BootShape
      <3>. QED
        BY <2>2, <3>1 DEF BootSelf
    <2>. QED
      BY <1>10, <2>1, <2>2
  <1>11. CASE SwapDelay \/ SwapWait
    BY <1>11 DEF SwapDelay, SwapWait
  <1>12. CASE SwapInspect
    BY <1>12 DEF SwapInspect
  <1>13. CASE SwapStop
    BY <1>13 DEF SwapStop
  <1>14. CASE SwapRemove
    BY <1>14 DEF SwapRemove
  <1>15. CASE SwapCreate
    BY <1>15 DEF SwapCreate
  <1>16. CASE SwapStart
    <2>1. CASE dock' = [dock EXCEPT !.state = "booting"] /\ HelperGoes("exited") /\ Ran
      <3>1. best' = dock.ver
        BY <1>16, <2>1 DEF SwapStart
      <3>2. UNCHANGED <<helperRest, excuse>>
        BY <1>16 DEF SwapStart
      <3>3. SelfShape'
        BY <2>1, <3>1, <3>2
      <3>4. /\ dock'.state = "booting" /\ dock'.ver = dock.ver /\ helper.at = "launch" /\ helper'.at = "exited"
            /\ UNCHANGED <<errand, kind, local>>
        BY <1>16, <2>1, <3>2 DEF SwapStart
      <3>5. DockAtStep' /\ SpawnOrder'
        BY <3>2, <3>4
      <3>6. DecisionHolds' /\ SwapHolds' /\ RunsBest'
        BY <3>1, <3>4
      <3>. QED
        BY <3>3, <3>5, <3>6
    <2>2. CASE /\ HelperGoes("undo") /\ UNCHANGED best
               /\ dock' \in {dock, [dock EXCEPT !.state = "gone"]}
      BY <1>16, <2>2 DEF SwapStart
    <2>. QED
      BY <1>16, <2>1, <2>2 DEF SwapStart
  <1>17. CASE UndoClear
    BY <1>17 DEF UndoClear, Freed
  <1>18. CASE UndoCreate
    BY <1>18 DEF UndoCreate, UndoImage
  <1>19. CASE UndoStart
    <2>1. CASE dock' = [dock EXCEPT !.state = "booting"] /\ Ran /\ UNCHANGED excuse
      <3>1. best' = dock.ver
        BY <1>19, <2>1 DEF UndoStart
      <3>2. UNCHANGED helperRest /\ HelperGoes("exited")
        BY <1>19 DEF UndoStart
      <3>3. SelfShape'
        BY <2>1, <3>1, <3>2
      <3>4. /\ dock'.state = "booting" /\ dock'.ver = dock.ver /\ helper.at = "relaunch" /\ helper'.at = "exited"
            /\ UNCHANGED <<errand, kind, local>>
        BY <1>19, <2>1, <3>2 DEF UndoStart
      <3>5. DockAtStep' /\ SpawnOrder'
        BY <3>2, <3>4
      <3>6. DecisionHolds' /\ SwapHolds' /\ RunsBest'
        BY <3>1, <3>4
      <3>. QED
        BY <3>3, <3>5, <3>6
    <2>2. CASE excuse' = TRUE /\ UNCHANGED <<dock, best>>
      BY <1>19, <2>2 DEF UndoStart
    <2>. QED
      BY <1>19, <2>1, <2>2 DEF UndoStart
  <1>. QED
    BY <1>1, <1>2, <1>3, <1>4, <1>5, <1>6, <1>7, <1>8, <1>9, <1>10, <1>11, <1>12, <1>13, <1>14, <1>15, <1>16,
       <1>17, <1>18, <1>19 DEF SelfNext, ErrandStep, SwapStep

\* The container, the job and the helper always have the relations SelfInv
\* states.
THEOREM SelfInvariant == SelfSpec => []SelfInv
  BY SelfInitInv, SelfStepInv, PTL DEF SelfSpec

\* Type correctness: among others the image that runs was pushed.
THEOREM SelfTypeCorrect == SelfSpec => []SelfTypeOK
  <1>1. SelfInv => SelfTypeOK
    BY DEF SelfInv, SelfShape, Errands, DockAtStep, SelfTypeOK
  <1>. QED
    BY <1>1, SelfInvariant, PTL

\* Whatever call of the swap is refused, dockbrr runs when the helper is done,
\* but for the exceptions NotLeftDead names.
THEOREM SwapNeverLeavesDead == SelfSpec => []NotLeftDead
  <1>1. SelfInv => NotLeftDead
    BY DEF SelfInv, SelfShape, DockAtStep, NotLeftDead, Swapping, HelperSteps
  <1>. QED
    BY <1>1, SelfInvariant, PTL

\* A swap starts only a release newer than anything that ran.
THEOREM SwapIsForward == SelfSpec => SwapMovesForward
  <1>1. SelfInv /\ [SelfNext]_selfVars => [SwapStart /\ dock'.state = "booting" => dock.ver > best]_selfVars
    BY DEF SelfInv, SwapHolds, SwapStart
  <1>. QED
    BY <1>1, SelfInvariant, PTL DEF SelfSpec, SwapMovesForward

=============================================================================
