------------------------------ MODULE SelfUpdate ------------------------------
(***************************************************************************)
(* dockbrr replacing its own container (internal/job/selfupdate.go,        *)
(* internal/docker/selfupdate.go, cmd/dockbrr/selfupdate_swap.go,          *)
(* internal/selfupdate/checker.go, internal/httpapi/selfupdate.go).        *)
(*                                                                         *)
(* The job pulls the new image and starts a helper container, which stops  *)
(* dockbrr, removes it and creates its successor under the same name.  The *)
(* job ends when the helper starts, so for the two seconds of its delay,   *)
(* and while Docker waits for dockbrr to stop, the old process still takes *)
(* requests and runs jobs.  Any Docker call may be refused.                *)
(*                                                                         *)
(* Releases are numbered.  A release is tagged on GitHub first, its image  *)
(* is pushed later.                                                        *)
(***************************************************************************)
EXTENDS Naturals

CONSTANTS
  Kinds,         \* how the container names its image: subset of {"latest", "pinned"}
  MaxRelease,    \* bound: releases
  MaxAsks,       \* bound: requests to update
  MaxRefusals    \* bound: calls that fail

ASSUME SelfUpdateAssumption ==
  /\ Kinds \subseteq {"latest", "pinned"}
  /\ MaxRelease \in Nat \ {0} /\ MaxAsks \in Nat /\ MaxRefusals \in Nat

VARIABLES
  kind,      \* how this container names its image
  tagged,    \* the newest release on GitHub
  pushed,    \* the newest image in the registry
  cached,    \* the checker's cached verdict, 0 without one
  local,     \* the release the host's "latest" tag means
  dock,      \* the container that has dockbrr's name
  errand,    \* the self_update job
  helper,    \* the helper container
  excuse,    \* why dockbrr may be down (history)
  best,      \* the newest release that ever ran (history)
  spending   \* what is used of the bounds

selfVars == <<kind, tagged, pushed, cached, local, dock, errand, helper, excuse, best, spending>>
worldVars == <<kind, tagged, pushed>>

\* id tells a container from its successor.  "booting": started, the process is
\* not up yet; "stopping": told to stop, the process still runs.
DockStates == {"booting", "running", "stopping", "stopped", "created", "gone"}
\* The steps of the job; "queued" and "none" are not running.
ErrandSteps == {"none", "queued", "check", "pull", "verify", "clear", "create", "start", "finish"}
\* The steps of the helper; "created" and "exited" do not run.
HelperSteps == {"none", "created", "exited", "delay", "inspect", "stop", "wait", "remove", "make",
                "launch", "undo", "remake", "relaunch"}

\* passed: requests that found no active job and have yet to enqueue theirs;
\* more: jobs queued behind this one (they all wait for lock key 0).
NoErrand == [at |-> "none", latest |-> 0, passed |-> 0, more |-> 0]
\* target, image: the command line; old: the release of the inspected container.
NoHelper == [at |-> "none", target |-> 0, image |-> 0, old |-> 0]

SelfInit ==
  /\ kind \in Kinds
  /\ tagged = 1 /\ pushed = 1 /\ cached = 0 /\ local = 1
  /\ dock = [id |-> 1, ver |-> 1, state |-> "running"]
  /\ errand = NoErrand
  /\ helper = NoHelper
  /\ excuse = FALSE
  /\ best = 1
  /\ spending = [asks |-> 0, refusals |-> 0]

Charge(what, max) ==
  spending[what] < max /\ spending' = [spending EXCEPT ![what] = @ + 1]
Refusal == Charge("refusals", MaxRefusals)

-----------------------------------------------------------------------------
(* GitHub and the registry.                                                *)

TagRelease ==
  /\ tagged < MaxRelease
  /\ tagged' = tagged + 1
  /\ UNCHANGED <<kind, pushed, cached, local, dock, errand, helper, excuse, best, spending>>

PushImage ==
  /\ pushed < tagged
  /\ pushed' = pushed + 1
  /\ UNCHANGED <<kind, tagged, cached, local, dock, errand, helper, excuse, best, spending>>

-----------------------------------------------------------------------------
(* The process: checker, request, job.                                     *)

Alive == dock.state \in {"running", "stopping"}
errandRest == <<worldVars, helper, dock, excuse, best>>

\* isNewer; the cores of releases compare like their numbers.
IsNewer(latest) == dock.ver < latest

\* CheckFresh refetches; when GitHub fails the cached verdict is served, and
\* without one the caller gets an error (0).
Fetched(verdict) ==
  \/ verdict = tagged /\ cached' = tagged /\ UNCHANGED spending
  \/ verdict = cached /\ UNCHANGED cached /\ Refusal

\* A self_update job is queued or running.
Active == errand.at # "none"

\* enqueueSelfUpdate: CheckFresh, then ActiveByType finds no job queued or
\* running.  (It answers with the active one otherwise.)
Ask ==
  /\ dock.state = "running" /\ ~Active
  /\ spending.asks < MaxAsks
  /\ \/ /\ cached' = tagged
        /\ IsNewer(tagged)
        /\ spending' = [spending EXCEPT !.asks = @ + 1]
     \/ /\ cached # 0 /\ IsNewer(cached)
        /\ UNCHANGED cached
        /\ spending.refusals < MaxRefusals
        /\ spending' = [asks |-> spending.asks + 1, refusals |-> spending.refusals + 1]
  /\ errand' = [errand EXCEPT !.passed = @ + 1]
  /\ UNCHANGED <<errandRest, local>>

\* ... Enqueue, a statement of its own: requests that both found no active job
\* queue one each.
AskEnqueue ==
  /\ Alive /\ errand.passed > 0
  /\ errand' = IF Active THEN [errand EXCEPT !.passed = @ - 1, !.more = @ + 1]
               ELSE [errand EXCEPT !.passed = @ - 1, !.at = "queued"]
  /\ UNCHANGED <<errandRest, cached, local, spending>>

\* The dashboard's own checks keep the cache; nothing else depends on them.
Poll ==
  /\ dock.state = "running" /\ cached # tagged
  /\ cached' = tagged
  /\ UNCHANGED <<errandRest, local, errand, spending>>

\* What a job leaves that ends, well or not: the next one that is queued.
Over ==
  IF errand.more > 0
  THEN [NoErrand EXCEPT !.at = "queued", !.passed = errand.passed, !.more = errand.more - 1]
  ELSE [NoErrand EXCEPT !.passed = errand.passed]

ErrandStart ==
  /\ Alive /\ errand.at = "queued"
  /\ errand' = [errand EXCEPT !.at = "check"]
  /\ UNCHANGED <<errandRest, cached, local, spending>>

\* Check: the cache while it is young, otherwise a fetch; nothing newer ends
\* the job as a success.
ErrandCheck ==
  /\ Alive /\ errand.at = "check"
  /\ \E verdict \in 0..MaxRelease :
       /\ \/ verdict = cached /\ cached # 0 /\ UNCHANGED <<cached, spending>>
          \/ Fetched(verdict)
       /\ errand' = IF verdict # 0 /\ IsNewer(verdict)
                    THEN [errand EXCEPT !.at = "pull", !.latest = verdict] ELSE Over
  /\ UNCHANGED <<errandRest, local>>

\* ContainerImageRef, targetSelfImage and ImagePull.  "latest" is pulled again
\* as it stands; a pinned reference becomes the new release's, which must exist.
ErrandPull ==
  /\ Alive /\ errand.at = "pull"
  /\ \/ /\ kind = "latest" \/ errand.latest <= pushed
        /\ local' = IF kind = "latest" THEN pushed ELSE local
        /\ errand' = [errand EXCEPT !.at = "verify"]
        /\ UNCHANGED spending
     \/ /\ kind = "pinned" /\ errand.latest > pushed
        /\ errand' = Over /\ UNCHANGED <<local, spending>>
     \/ Refusal /\ errand' = Over /\ UNCHANGED local
  /\ UNCHANGED <<errandRest, cached>>

\* The release that a reference of ours means on this host.
Means(wanted) == IF kind = "latest" THEN local ELSE wanted

\* Mutant: whatever was pulled is taken.
VerifiedAny(latest) == TRUE

\* verifyPulledVersion.
Verified(latest) == Means(latest) >= latest

ErrandVerify ==
  /\ Alive /\ errand.at = "verify"
  /\ \/ /\ errand' = IF Verified(errand.latest) THEN [errand EXCEPT !.at = "clear"] ELSE Over
        /\ UNCHANGED spending
     \/ Refusal /\ errand' = Over
  /\ UNCHANGED <<errandRest, cached, local>>

Swapping == helper.at \notin {"none", "created", "exited"}

\* SpawnUpdater: a container with the helper's name is removed by force ...
ErrandClear ==
  /\ Alive /\ errand.at = "clear"
  /\ \/ /\ helper' = NoHelper
        /\ excuse' = (excuse \/ Swapping)
        /\ errand' = [errand EXCEPT !.at = "create"] /\ UNCHANGED spending
     \/ Refusal /\ errand' = Over /\ UNCHANGED <<helper, excuse>>
  /\ UNCHANGED <<worldVars, cached, local, dock, best>>

\* ... a new one is created ...
ErrandCreate ==
  /\ Alive /\ errand.at = "create"
  /\ \/ /\ helper' = [NoHelper EXCEPT !.at = "created", !.target = dock.id, !.image = errand.latest]
        /\ errand' = [errand EXCEPT !.at = "start"] /\ UNCHANGED spending
     \/ Refusal /\ errand' = Over /\ UNCHANGED helper
  /\ UNCHANGED <<worldVars, cached, local, dock, excuse, best>>

\* ... and started.
ErrandSpawn ==
  /\ Alive /\ errand.at = "start"
  /\ \/ /\ helper' = [helper EXCEPT !.at = "delay"]
        /\ errand' = [errand EXCEPT !.at = "finish"] /\ UNCHANGED spending
     \/ Refusal /\ errand' = Over /\ UNCHANGED helper
  /\ UNCHANGED <<worldVars, cached, local, dock, excuse, best>>

\* jobs.Finish, which the helper may overtake.
ErrandFinish ==
  /\ Alive /\ errand.at = "finish"
  /\ errand' = Over
  /\ UNCHANGED <<errandRest, cached, local, spending>>

ErrandStep ==
  \/ ErrandStart \/ ErrandCheck \/ ErrandPull \/ ErrandVerify
  \/ ErrandClear \/ ErrandCreate \/ ErrandSpawn \/ ErrandFinish

\* The process ends; a job that was running stays so in the database.
Exits ==
  /\ dock.state = "stopping"
  /\ dock' = [dock EXCEPT !.state = "stopped"]
  /\ UNCHANGED <<worldVars, cached, local, errand, helper, excuse, best, spending>>

\* Start-up: RemoveLeftoverUpdater, without force, then ResumeInterrupted;
\* requests in progress were lost with the old process.
BootSelf ==
  /\ dock.state = "booting"
  /\ dock' = [dock EXCEPT !.state = "running"]
  /\ helper' = IF Swapping THEN helper ELSE NoHelper
  /\ errand' = [NoErrand EXCEPT !.at = IF Active THEN "queued" ELSE "none", !.more = errand.more]
  /\ UNCHANGED <<worldVars, cached, local, excuse, best, spending>>

-----------------------------------------------------------------------------
(* The helper: swapContainer and rollback.                                 *)

helperRest == <<worldVars, cached, local, errand>>
HelperGoes(at) == helper' = [helper EXCEPT !.at = at]

SwapDelay ==
  /\ helper.at = "delay"
  /\ HelperGoes("inspect")
  /\ UNCHANGED <<helperRest, dock, excuse, best, spending>>

SwapInspect ==
  /\ helper.at = "inspect"
  /\ \/ /\ dock.id = helper.target /\ dock.state # "gone"
        /\ helper' = [helper EXCEPT !.at = "stop", !.old = dock.ver] /\ UNCHANGED spending
     \/ (dock.id # helper.target \/ dock.state = "gone") /\ HelperGoes("exited") /\ UNCHANGED spending
     \/ Refusal /\ HelperGoes("exited")
  /\ UNCHANGED <<helperRest, dock, excuse, best>>

\* ContainerStop returns when the process is gone.
SwapStop ==
  /\ helper.at = "stop"
  /\ \/ /\ dock' = [dock EXCEPT !.state = IF @ \in {"booting", "running"} THEN "stopping" ELSE @]
        /\ HelperGoes("wait") /\ UNCHANGED spending
     \/ Refusal /\ HelperGoes("exited") /\ UNCHANGED dock
  /\ UNCHANGED <<helperRest, excuse, best>>

SwapWait ==
  /\ helper.at = "wait" /\ dock.state # "stopping"
  /\ HelperGoes("remove")
  /\ UNCHANGED <<helperRest, dock, excuse, best, spending>>

\* A refused remove ends the swap with dockbrr stopped.
SwapRemove ==
  /\ helper.at = "remove"
  /\ \/ dock' = [dock EXCEPT !.state = "gone"] /\ HelperGoes("make") /\ UNCHANGED <<excuse, spending>>
     \/ Refusal /\ HelperGoes("exited") /\ excuse' = TRUE /\ UNCHANGED dock
  /\ UNCHANGED <<helperRest, best>>

Made(ver) == [id |-> dock.id + 1, ver |-> ver, state |-> "created"]

\* ContainerCreateFromInspect may fail after it has created the container.
SwapCreate ==
  /\ helper.at = "make"
  /\ \/ dock' = Made(Means(helper.image)) /\ HelperGoes("launch") /\ UNCHANGED spending
     \/ Refusal /\ HelperGoes("undo") /\ dock' \in {dock, Made(Means(helper.image))}
  /\ UNCHANGED <<helperRest, excuse, best>>

\* The container that is started runs its release (history).
Ran == best' = IF dock.ver > best THEN dock.ver ELSE best

SwapStart ==
  /\ helper.at = "launch"
  /\ \/ /\ dock' = [dock EXCEPT !.state = "booting"] /\ HelperGoes("exited")
        /\ Ran
        /\ UNCHANGED spending
     \/ /\ Refusal /\ HelperGoes("undo") /\ UNCHANGED best
        /\ dock' \in {dock, [dock EXCEPT !.state = "gone"]}   \* its removal may fail too
  /\ UNCHANGED <<helperRest, excuse>>

\* Mutant: the rollback does not free the name.
FreedNot == dock

\* Whoever holds the name is removed by force.
Freed == [dock EXCEPT !.state = "gone"]

UndoClear ==
  /\ helper.at = "undo"
  /\ \/ dock' = Freed /\ HelperGoes("remake") /\ UNCHANGED <<excuse, spending>>
     \/ Refusal /\ HelperGoes("exited") /\ excuse' = TRUE /\ UNCHANGED dock
  /\ UNCHANGED <<helperRest, best>>

\* The original reference, as the host understands it by now.
UndoImage == Means(helper.old)

UndoCreate ==
  /\ helper.at = "remake"
  /\ \/ dock.state = "gone" /\ dock' = Made(UndoImage) /\ HelperGoes("relaunch")
        /\ UNCHANGED <<excuse, spending>>
     \/ dock.state # "gone" /\ HelperGoes("exited") /\ UNCHANGED <<dock, excuse, spending>>
     \/ Refusal /\ HelperGoes("exited") /\ excuse' = TRUE /\ UNCHANGED dock
  /\ UNCHANGED <<helperRest, best>>

UndoStart ==
  /\ helper.at = "relaunch"
  /\ \/ dock' = [dock EXCEPT !.state = "booting"] /\ Ran /\ UNCHANGED <<excuse, spending>>
     \/ Refusal /\ excuse' = TRUE /\ UNCHANGED <<dock, best>>
  /\ HelperGoes("exited")
  /\ UNCHANGED helperRest

SwapStep ==
  \/ SwapDelay \/ SwapInspect \/ SwapStop \/ SwapWait \/ SwapRemove \/ SwapCreate \/ SwapStart
  \/ UndoClear \/ UndoCreate \/ UndoStart

SelfNext ==
  \/ TagRelease \/ PushImage
  \/ Ask \/ AskEnqueue \/ Poll \/ ErrandStep \/ Exits \/ BootSelf
  \/ SwapStep

SelfSpec == SelfInit /\ [][SelfNext]_selfVars

-----------------------------------------------------------------------------
(* Properties.                                                             *)

\* The values the release counters, the container, the job and the helper
\* take; the image that runs was pushed and the host's tag is no newer.
SelfTypeOK ==
  /\ pushed <= tagged /\ tagged <= MaxRelease /\ cached <= tagged /\ local <= pushed
  /\ dock.state \in DockStates /\ dock.ver \in 1..pushed
  /\ errand.at \in ErrandSteps /\ helper.at \in HelperSteps
  /\ Swapping => helper.target <= dock.id

\* "so a failed swap lands back on a running old version rather than nothing"
\* (SwapContainer): once no helper works on it any more dockbrr runs, whichever
\* calls were refused.  Excepted are the removal of the stopped container, the
\* three calls of the rollback, and a second job that removed the helper at work.
NotLeftDead ==
  ~Swapping /\ ~excuse => dock.state \in {"booting", "running"}

\* A swap moves forward: the successor that is started is newer than anything
\* that ran before, whatever the cache, the registry and the host's tag said,
\* and dockbrr never "restarts into the same old version" (Handle).
SwapMovesForward ==
  [][SwapStart /\ dock'.state = "booting" => dock.ver > best]_selfVars

\* "it best-effort recreates the old container from the same captured inspect
\* with its original image, so a failed swap lands back on a running old
\* version" (SwapContainer): a rollback that starts a container starts the
\* release that ran.
RollbackIsOld ==
  [][UndoStart /\ dock'.state = "booting" => dock.ver = helper.old]_selfVars
==============================================================================
