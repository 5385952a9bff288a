-------------------------------- MODULE MCHost --------------------------------
(***************************************************************************)
(* One instance of each of five parts that share no state in the models:   *)
(* the inventory with the container jobs, the Compose applier, the self-   *)
(* update, the scan-run and the detection.  They are explored side by      *)
(* side, not together: a behaviour moves one part, the others stay as they *)
(* started, so the state spaces add up instead of multiplying.             *)
(***************************************************************************)
EXTENDS ContainerJobs, ComposeStack, SelfUpdate, ScanRunner, MCDetection, TLC

CONSTANTS a, b, c, stack, solo, app, side, aux

\* b lives in a's network namespace; c is a standalone container.
MCServiceSeq == <<c, a, b>>
MCProjectOf == [s \in {a, b, c} |-> IF s = c THEN solo ELSE stack]
MCDependents == [s \in {a, b, c} |-> IF s = a THEN {b} ELSE {}]

\* side lives in app's namespace and never moves; app and aux name their images
\* by an exact tag, by a floating tag, or one of each.
MCProvider == [s \in {app, side, aux} |-> IF s = side THEN app ELSE Nobody]
MCStyle(x, z) == (app :> x) @@ (side :> "fixed") @@ (aux :> z)
MCStyles == {MCStyle("exact", "exact"), MCStyle("floating", "floating"), MCStyle("fixed", "floating")}

VARIABLE focus

MCInit ==
  /\ focus \in {"host", "stack", "self", "scan", "detect"}
  /\ HostInit /\ StackInit /\ SelfInit /\ ScanInit /\ DetectInit
  /\ box[1].state = "exited"   \* c, so that it can be removed
  /\ focus # "stack" => style = MCStyle("exact", "exact")
  /\ focus # "self" => kind = "latest"
  /\ focus # "detect" => pin.tag = 1 /\ byPlatform = FALSE

HostMovesOnly == focus = "host" /\ UNCHANGED <<focus, stackVars, selfVars, scanVars, detectVars>>
StackMovesOnly == focus = "stack" /\ UNCHANGED <<focus, hostVars, selfVars, scanVars, detectVars>>
SelfMovesOnly == focus = "self" /\ UNCHANGED <<focus, hostVars, stackVars, scanVars, detectVars>>
ScanMovesOnly == focus = "scan" /\ UNCHANGED <<focus, hostVars, stackVars, selfVars, detectVars>>
DetectMovesOnly == focus = "detect" /\ UNCHANGED <<focus, hostVars, stackVars, selfVars, scanVars>>

MCNext ==
  \/ HostMovesOnly /\ HostNext
  \/ StackMovesOnly /\ StackNext
  \/ SelfMovesOnly /\ SelfNext
  \/ ScanMovesOnly /\ ScanNext
  \/ DetectMovesOnly /\ DetectNext

MCVars == <<focus, hostVars, stackVars, selfVars, scanVars, detectVars>>

\* The fairness of three parts, each for the behaviours that move its part;
\* focus is constant, so one condition can speak of all.
MCFairness ==
  /\ WF_MCVars(\/ HostMovesOnly /\ ReconcileStep
               \/ ScanMovesOnly /\ SomeSweepStep
               \/ DetectMovesOnly /\ DetectStep)
  /\ WF_MCVars((HostMovesOnly /\ Boot) \/ (ScanMovesOnly /\ ViewStep))

MCSpec == MCInit /\ [][MCNext]_MCVars /\ MCFairness

\* The type invariants of the five parts.
PartsTypeOK ==
  CASE focus = "host"  -> InventoryTypeOK
    [] focus = "stack" -> StackTypeOK
    [] focus = "self"  -> SelfTypeOK
    [] focus = "scan"  -> ScanTypeOK
    [] focus = "detect" -> DetectTypeOK

\* ContainerJobs' liveness, of the behaviours that move that part: whatever
\* jobs, failing passes and registrations wrote, the tables agree with Docker
\* again and again while the process runs.
TablesCatchUp == []<>(focus = "host" /\ alive => Agrees)

\* Detection's liveness, of the behaviours that move that part: whatever calls
\* fail and whatever moves while a scan runs, the open update is the newest tag
\* of the pin's stream again and again, or there is rightly none.  In between a
\* scan whose list of tags failed may have closed it (closeStaleUpdates).
FindsSettle == []<>(focus = "detect" => Discovered)
===============================================================================
