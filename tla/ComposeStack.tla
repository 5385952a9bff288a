----------------------------- MODULE ComposeStack -----------------------------
(***************************************************************************)
(* Applying and rolling back updates of a compose project with several     *)
(* services (internal/job/worker.go over internal/compose, behind the self *)
(* guard of internal/job/dispatch.go).  UpdateLifecycle follows one        *)
(* service through every status of its update rows; this module is about   *)
(* what a job for one service does to the rest: the compose file all of    *)
(* them share, the siblings a project-scope up recreates, the services     *)
(* that borrow the namespace of a recreated container, and dockbrr itself  *)
(* when it is one of the services.                                         *)
(*                                                                         *)
(* An image is a version number.  Exact tags name one version for ever; a  *)
(* floating tag serves the newest one.                                     *)
(***************************************************************************)
EXTENDS Naturals, FiniteSets

CONSTANTS
  Stack,          \* the services of the project
  Nobody,         \* no service
  Provider,       \* whose namespace a service borrows, Nobody for its own
  Styles,         \* per service "exact", "fixed" or "floating": the set of projects to look at
  Home,           \* the service dockbrr runs as, Nobody on a host install
  Moving,         \* the services whose images get new versions
  MaxReleases,    \* bound: versions released, per service
  MaxApplies,     \* bound: jobs
  MaxWoes         \* bound: commands that fail, and crashes

ASSUME ComposeStackAssumption ==
  /\ IsFiniteSet(Stack) /\ Nobody \notin Stack
  /\ Provider \in [Stack -> Stack \union {Nobody}]
  /\ Styles \subseteq [Stack -> {"exact", "fixed", "floating"}]
  /\ Home \in Stack \union {Nobody} /\ Moving \subseteq Stack
  /\ MaxReleases \in Nat /\ MaxApplies \in Nat /\ MaxWoes \in Nat

Versions == 0..MaxReleases
None == MaxReleases + 1      \* no blob in the snapshot

VARIABLES
  style,     \* "exact": a literal full version; "fixed": one that is not
             \* rewritten (interpolated, or write_back_compose is off); "floating"
  newest,    \* the registry: the newest version of each image
  line,      \* the compose file: the version each service's line names
  pulled,    \* the images on the host: what a floating tag means here
  con,       \* the containers: generation, version, reference, whose namespace
  record,    \* the service rows: containers, version; image_ref and its version
  offer,     \* the version of the open update, 0 without one
  snaps,     \* the newest snapshot of each service: version, and the file
  task,      \* the job that runs or was cut off
  last,      \* how the last job ended (history)
  ahead,     \* services an apply found with a file that is not what the row says or the
             \* container runs, or whose line another service's rollback changed (history)
  tally      \* what is used of the bounds

stackVars == <<style, newest, line, pulled, con, record, offer, snaps, task, last, ahead, tally>>

Blank == [svc |-> Nobody, type |-> "apply", scope |-> "service", warned |-> FALSE, calm |-> TRUE,
          named |-> FALSE, moved |-> {}, to |-> 0, outcome |-> "none"]

\* ids, ver, ref, tag: the row as loaded; to: the target; mode: how it is put to compose;
\* fresh: the containers located after the up; left: siblings not refreshed yet;
\* moved: what the up replaced by another version than the row has; calm: no
\* crash since the start, no pass and no scan since the up.
Rest == [at |-> "idle", svc |-> Nobody, type |-> "apply", scope |-> "service", ids |-> {}, ver |-> 0,
         ref |-> "file", tag |-> 0, to |-> 0, mode |-> "plain", fresh |-> {}, fver |-> 0, left |-> {},
         moved |-> {}, warned |-> FALSE, calm |-> TRUE]

StackInit ==
  /\ style \in Styles
  /\ newest = [s \in Stack |-> 0]
  /\ line = [s \in Stack |-> 0]
  /\ pulled = [s \in Stack |-> 0]
  /\ con = [s \in Stack |-> [gen |-> 1, ver |-> 0, ref |-> "file",
                             joins |-> IF Provider[s] = Nobody THEN 0 ELSE 1]]
  /\ record = [s \in Stack |-> [ids |-> {<<s, 1>>}, ver |-> 0, ref |-> "file", tag |-> 0]]
  /\ offer = [s \in Stack |-> 0]
  /\ snaps = [s \in Stack |-> [ver |-> None, blob |-> [t \in Stack |-> None]]]
  /\ task = Rest
  /\ last = Blank
  /\ ahead = {}
  /\ tally = [jobs |-> 0, woes |-> 0]

AfterUp == task.at \in {"force", "locate", "record", "siblings"}
NoFile == [t \in Stack |-> None]
Borrowers(s) == {t \in Stack : Provider[t] = s}
Used(what, max) == tally[what] < max /\ tally' = [tally EXCEPT ![what] = @ + 1]
Woe == Used("woes", MaxWoes)

-----------------------------------------------------------------------------
(* The registry, the scanner and the reconcile pass.                       *)

Release(s) ==
  /\ s \in Moving /\ newest[s] < MaxReleases
  /\ newest' = [newest EXCEPT ![s] = @ + 1]
  /\ UNCHANGED <<style, line, pulled, con, record, offer, snaps, task, last, ahead, tally>>

\* Detect and RecordDrift, or SupersedeAllOpen.  A container held by its bare
\* digest resolves to itself; every other reference leads to the newest version.
Scanned(s) ==
  LET found == IF record[s].ref = "hold" THEN record[s].tag ELSE newest[s]
  IN  IF found = record[s].ver THEN 0 ELSE found

StackScan(s) ==
  /\ offer' = [offer EXCEPT ![s] = Scanned(s)]
  /\ task' = [task EXCEPT !.calm = @ /\ ~AfterUp]
  /\ offer' # offer
  /\ UNCHANGED <<style, newest, line, pulled, con, record, snaps, last, ahead, tally>>

\* A reconcile pass, here in one step (Inventory has the steps).
StackPass ==
  /\ record' = [s \in Stack |-> [ids |-> {<<s, con[s].gen>>}, ver |-> con[s].ver,
                                 ref |-> con[s].ref, tag |-> con[s].ver]]
  /\ record' # record
  /\ task' = [task EXCEPT !.calm = @ /\ ~AfterUp]
  /\ UNCHANGED <<style, newest, line, pulled, con, offer, snaps, last, ahead, tally>>

-----------------------------------------------------------------------------
(* Requests and the dispatcher.                                            *)

\* targetsSelf: a job that names a service is checked for that service.
TargetsSelf(s) == Home # Nobody /\ <<Home, con[Home].gen>> \in record[s].ids

\* handleApply and handleRollback: the job always names a service, and a user
\* may ask for the scope of the whole project.
StackRequest(s, type, scope) ==
  /\ task.at = "idle"
  /\ IF type = "apply" THEN offer[s] # 0 ELSE snaps[s].ver # None
  /\ type = "apply" => ~TargetsSelf(s)     \* dockbrr's own update is a self_update
  /\ Used("jobs", MaxApplies)
  /\ task' = [Rest EXCEPT !.at = "queued", !.svc = s, !.type = type, !.scope = scope]
  /\ last' = Blank
  /\ UNCHANGED <<style, newest, line, pulled, con, record, offer, snaps, ahead>>

taskUnchanged == <<style, newest, ahead>>
Ends(outcome) ==
  /\ task' = Rest
  /\ last' = [svc |-> task.svc, type |-> task.type, scope |-> task.scope,
              warned |-> task.warned, calm |-> task.calm,
              named |-> task.tag = task.to, moved |-> task.moved, to |-> task.to, outcome |-> outcome]
Goes(at) == task' = [task EXCEPT !.at = at] /\ UNCHANGED last

\* Dispatcher.Handle, then the loads of runApply and runRollback.
StackLoad ==
  /\ task.at = "queued"
  /\ LET s == task.svc IN
     IF TargetsSelf(s) \/ (task.type = "apply" /\ offer[s] = 0) THEN Ends("refused")
     ELSE /\ task' = [task EXCEPT !.at = IF task.type = "apply" THEN "plan" ELSE "restore",
                                  !.ids = record[s].ids, !.ver = record[s].ver,
                                  !.ref = record[s].ref, !.tag = record[s].tag,
                                  !.to = IF task.type = "apply" THEN offer[s] ELSE snaps[s].ver]
          /\ UNCHANGED last
  /\ UNCHANGED <<taskUnchanged, line, pulled, con, record, offer, snaps, tally>>

-----------------------------------------------------------------------------
(* apply                                                                   *)

\* The update is for another tag than image_ref's.
CrossTag(s) == style[s] # "floating" /\ (task.ref = "hold" \/ task.to # task.tag)

\* Mutant: what cannot be rewritten is left to pull and up.
ModeWithoutPin(s) ==
  IF CrossTag(s) /\ style[s] = "exact" /\ task.ref = "file" /\ line[s] = task.tag
  THEN "rewrite" ELSE "plain"

\* Which of the three ways.  Only a literal exact tag that is the row's
\* image_ref is rewritten; a floating tag is never replaced.
Mode(s) ==
  CASE ~CrossTag(s) -> "plain"
    [] CrossTag(s) /\ style[s] = "exact" /\ task.ref = "file" /\ line[s] = task.tag -> "rewrite"
    [] OTHER -> "pin"

\* Mutant: the snapshot does not carry the file.
SnapshotWithoutFile(s) == [ver |-> task.ver, blob |-> NoFile]

\* The snapshot carries the whole file when the apply is going to rewrite it.
SnapshotOf(s) == [ver |-> task.ver, blob |-> IF Mode(s) = "rewrite" THEN line ELSE NoFile]

\* The precheck resolves the target again; a moved tag supersedes the update.
\* Otherwise the way is chosen and the snapshot taken.
StackPlan ==
  /\ task.at = "plan"
  /\ LET s == task.svc
         resolved == IF CrossTag(s) THEN task.to
                     ELSE IF task.ref = "hold" THEN task.tag ELSE newest[s]
     IN
     IF resolved # task.to
     THEN /\ offer' = [offer EXCEPT ![s] = IF @ = task.to THEN 0 ELSE @]
          /\ Ends("refused") /\ UNCHANGED <<snaps, ahead>>
     ELSE /\ snaps' = [snaps EXCEPT ![s] = SnapshotOf(s)]
          /\ task' = [task EXCEPT !.at = "stage", !.mode = Mode(s)]
          /\ ahead' = IF style[s] = "exact" /\ (Mode(s) # "rewrite" \/ line[s] # con[s].ver)
                      THEN ahead \union {s} ELSE ahead
          /\ UNCHANGED <<offer, last>>
  /\ UNCHANGED <<style, newest, line, pulled, con, record, tally>>

\* failApply marks the update failed.
FailsApply ==
  /\ offer' = [offer EXCEPT ![task.svc] = IF @ = task.to THEN 0 ELSE @]
  /\ Ends("failed")

\* LocateImageLine, ReplaceImageLine and WriteFileAtomic: one line, or nothing.
Rewritten(s) == [line EXCEPT ![s] = task.to]

\* The file is rewritten, or an override written, which is no state of its own.
StackStage ==
  /\ task.at = "stage"
  /\ \/ /\ line' = IF task.mode = "rewrite" THEN Rewritten(task.svc) ELSE line
        /\ Goes("pull") /\ UNCHANGED <<offer, tally>>
     \/ task.mode # "plain" /\ Woe /\ FailsApply /\ UNCHANGED line
  /\ UNCHANGED <<taskUnchanged, pulled, con, record, snaps>>

Fails == IF task.type = "apply" THEN FailsApply ELSE Ends("failed") /\ UNCHANGED offer

\* What ScopeTargets selects.
Targets == IF task.scope = "service" THEN {task.svc} ELSE Stack

\* docker compose pull.
StackPull ==
  /\ task.at = "pull"
  /\ \/ /\ pulled' = [s \in Stack |-> IF s \in Targets THEN newest[s] ELSE pulled[s]]
        /\ Goes("up") /\ UNCHANGED <<offer, tally>>
     \/ Woe /\ Fails /\ UNCHANGED pulled
  /\ UNCHANGED <<taskUnchanged, line, con, record, snaps>>

\* What compose wants a service to run, given the files of the job.
Wanted(s) ==
  CASE s = task.svc /\ task.mode = "pin"  -> [ver |-> task.to, ref |-> "pin"]
    [] s = task.svc /\ task.mode = "hold" -> [ver |-> task.to, ref |-> "hold"]
    [] OTHER -> [ver |-> IF style[s] = "floating" THEN pulled[s] ELSE line[s], ref |-> "file"]

Outdated == {s \in Targets : con[s].ver # Wanted(s).ver \/ con[s].ref # Wanted(s).ref}

\* Containers of some services replaced; a namespace is resolved at creation.
Recreated(which) ==
  LET gen(s) == IF s \in which THEN con[s].gen + 1 ELSE con[s].gen
  IN  [s \in Stack |-> IF s \notin which THEN con[s]
                       ELSE [gen |-> gen(s), ver |-> Wanted(s).ver, ref |-> Wanted(s).ref,
                             joins |-> IF Provider[s] = Nobody THEN 0 ELSE gen(Provider[s])]]

\* docker compose up: a failing one may have replaced some containers.  (One
\* that replaces Home's would end the process here; OwnContainerSpared is about
\* that step, what follows it in the model is not.)
StackUp ==
  /\ task.at = "up"
  /\ \/ /\ con' = Recreated(Outdated)
        /\ task' = [task EXCEPT !.at = "force", !.moved = {s \in Outdated : record[s].ver # Wanted(s).ver}]
        /\ UNCHANGED <<offer, last, tally>>
     \/ /\ Woe /\ Fails
        /\ \E some \in SUBSET Outdated : con' = Recreated(some)
  /\ UNCHANGED <<taskUnchanged, line, pulled, record, snaps>>

\* Mutant: what borrows the namespace is left to compose.
ForcedNever(s) == {}

\* NamespaceDependents.
Forced(s) == Borrowers(s)

\* forceRecreateNamespaceDependents: failing is a warning.  The rows are
\* refreshed, and an apply keeps their containers for its own list.
StackForce ==
  /\ task.at = "force"
  /\ LET deps == Forced(task.svc)
         ids(s) == {<<s, con'[s].gen>>}
     IN  \/ /\ con' = Recreated(deps)
            /\ record' = [s \in Stack |->
                 IF s \in deps THEN [record[s] EXCEPT !.ids = ids(s), !.ver = con'[s].ver]
                 ELSE record[s]]
            /\ task' = [task EXCEPT !.at = "locate",
                                    !.fresh = UNION {ids(s) : s \in deps}]
            /\ UNCHANGED tally
         \/ /\ deps # {} /\ Woe
            /\ \E some \in SUBSET deps : con' = Recreated(some)
            /\ task' = [task EXCEPT !.at = "locate", !.warned = TRUE]
            /\ UNCHANGED record
  /\ UNCHANGED <<taskUnchanged, line, pulled, offer, snaps, last>>

\* Only an apply polls for health.
HealthGateFails == task.type = "apply" /\ Woe /\ FailsApply

\* LocateService; failing is a warning too, and the ids loaded at the start of
\* the job and the target are used instead.
StackLocate ==
  /\ task.at = "locate"
  /\ LET s == task.svc
         extra == IF task.type = "apply" THEN task.fresh ELSE {}
     IN  \/ /\ task' = [task EXCEPT !.at = "record", !.fresh = extra \union {<<s, con[s].gen>>},
                                    !.fver = con[s].ver]
            /\ UNCHANGED <<offer, last, tally>>
         \/ /\ Woe
            /\ task' = [task EXCEPT !.at = "record", !.fresh = extra \union task.ids,
                                    !.fver = task.to, !.warned = TRUE]
            /\ UNCHANGED <<offer, last>>
         \/ HealthGateFails
  /\ UNCHANGED <<taskUnchanged, line, pulled, con, record, snaps>>

\* UpdateRuntime, whose failure is only logged, then MarkApplied or
\* MarkRolledBack; image_ref is not theirs.
StackRecord ==
  /\ task.at = "record"
  /\ LET s == task.svc IN
     /\ \/ record' = [record EXCEPT ![s].ids = task.fresh, ![s].ver = task.fver] /\ UNCHANGED tally
        \/ UNCHANGED record /\ Woe
     /\ IF task.type = "apply"
        THEN offer' = [offer EXCEPT ![s] = IF @ = task.to THEN 0 ELSE @]
        ELSE UNCHANGED offer
     /\ IF task.type = "apply" /\ task.scope = "project"
        THEN task' = [task EXCEPT !.at = "siblings", !.left = Stack \ {s}] /\ UNCHANGED last
        ELSE Ends("success")
  /\ UNCHANGED <<taskUnchanged, line, pulled, con, snaps>>

\* Mutant: the rows of the siblings are refreshed, their updates stay open.
SiblingOfferKept(t) == offer[t]

\* A sibling's update is closed when it is what runs now.
SiblingOffer(t) == IF offer[t] = con[t].ver THEN 0 ELSE offer[t]

\* One sibling of a project-scope apply.
StackSibling(t) ==
  /\ task.at = "siblings" /\ t \in task.left
  /\ \/ /\ IF con[t].ver = record[t].ver THEN UNCHANGED <<record, offer>>
           ELSE /\ record' = [record EXCEPT ![t].ids = {<<t, con[t].gen>>}, ![t].ver = con[t].ver]
                /\ offer' = [offer EXCEPT ![t] = SiblingOffer(t)]
        /\ task' = [task EXCEPT !.left = @ \ {t}]
        /\ UNCHANGED tally
     \/ /\ Woe
        /\ task' = [task EXCEPT !.left = @ \ {t}, !.warned = TRUE]
        /\ UNCHANGED <<record, offer>>
  /\ UNCHANGED <<taskUnchanged, line, pulled, con, snaps, last>>

StackSucceed ==
  /\ task.at = "siblings" /\ task.left = {}
  /\ Ends("success")
  /\ UNCHANGED <<taskUnchanged, line, pulled, con, record, offer, snaps, tally>>

-----------------------------------------------------------------------------
(* rollback: restore the file as the snapshot has it, or hold the service  *)
(* by its previous digest; then as above.                                  *)

\* Mutant: the file is left alone although the snapshot has it.
RestoredNothing(s) == line

Restored(s) == IF snaps[s].blob = NoFile THEN line ELSE snaps[s].blob

StackRestore ==
  /\ task.at = "restore"
  /\ LET s == task.svc IN
     \/ /\ line' = Restored(s)
        /\ task' = [task EXCEPT !.at = "pull", !.mode = IF snaps[s].blob = NoFile THEN "hold" ELSE "plain"]
        /\ ahead' = ahead \union {t \in Stack \ {s} : Restored(s)[t] # line[t]}
        /\ UNCHANGED <<last, tally>>
     \/ Woe /\ Ends("failed") /\ UNCHANGED <<line, ahead>>
  /\ UNCHANGED <<style, newest, pulled, con, record, offer, snaps>>

-----------------------------------------------------------------------------

\* The process dies; ResumeInterrupted queues the job again.
StackCrash ==
  /\ task.at \notin {"idle", "queued"}
  /\ Woe
  /\ task' = [Rest EXCEPT !.at = "queued", !.svc = task.svc, !.type = task.type, !.scope = task.scope,
                          !.calm = FALSE]
  /\ UNCHANGED <<style, newest, line, pulled, con, record, offer, snaps, last, ahead>>

StackNext ==
  \/ \E s \in Stack : Release(s) \/ StackScan(s) \/ StackSibling(s)
  \/ StackPass
  \/ \E s \in Stack, type \in {"apply", "rollback"}, scope \in {"service", "project"} :
       StackRequest(s, type, scope)
  \/ StackLoad \/ StackPlan \/ StackStage \/ StackRestore
  \/ StackPull \/ StackUp \/ StackForce \/ StackLocate \/ StackRecord \/ StackSucceed
  \/ StackCrash

StackSpec == StackInit /\ [][StackNext]_stackVars

-----------------------------------------------------------------------------
(* Properties.                                                             *)

\* The values the file, the images, the containers, the rows and the job take;
\* nothing runs, is recorded or is offered that the registry never had.
StackTypeOK ==
  /\ {newest[s] : s \in Stack} \union {line[s] : s \in Stack} \subseteq Versions
  /\ \A s \in Stack : pulled[s] <= newest[s] /\ con[s].ver <= newest[s] /\ offer[s] <= newest[s]
  /\ \A s \in Stack : record[s].ver <= newest[s] /\ record[s].ref \in {"file", "pin", "hold"}
  /\ task.svc \in Stack \union {Nobody} /\ task.to \in Versions
  /\ ahead \subseteq Stack

\* A rewritten compose file never strands the user: whenever the file names
\* another version than the container that was started from it, in the middle
\* of a job or after a crash too, the newest snapshot has the file, with the
\* version that runs, or as a rollback has just restored it.  Three ways out of
\* this are known: an apply that finds image_ref and the file apart does not
\* rewrite, and its snapshot has no file; one that finds the file apart from
\* the container only (a rollback restored it and then failed) snapshots a file
\* that was not running; and a rollback restores the whole file, with the lines
\* of other services.
FileUndoable ==
  \A s \in Stack : style[s] = "exact" /\ con[s].ref = "file" /\ s \notin ahead
                   /\ line[s] # con[s].ver => snaps[s].blob[s] \in {con[s].ver, line[s]}

\* After a job that succeeded without a warning, what borrows the namespace of
\* its service has joined the container that runs now, at either scope.
DependentsJoined ==
  task.at = "idle" /\ last.outcome = "success" /\ ~last.warned =>
    \A t \in Borrowers(last.svc) : con[t].joins = con[last.svc].gen

\* After a successful rollback the service runs the version its snapshot was
\* taken of, and a restored file names what runs.  Excepted is a snapshot whose
\* file named another version than the container ran when it was taken: compose
\* then follows the file (RollbackToDigest below).
RollbackReturns ==
  task.at = "idle" /\ last.outcome = "success" /\ last.type = "rollback" =>
    LET s == last.svc
        file == snaps[s].blob
    IN  /\ file = NoFile \/ file[s] = snaps[s].ver => con[s].ver = snaps[s].ver
        /\ file # NoFile => line[s] = con[s].ver

\* "The restored file already names the previous image, so no temp pin override
\* is needed" (runRollback): a successful rollback ends at the snapshot's version.
RollbackToDigest ==
  task.at = "idle" /\ last.outcome = "success" /\ last.type = "rollback" =>
    con[last.svc].ver = snaps[last.svc].ver

\* A successful apply of an exact version leaves the service running it, unless
\* image_ref named that version already when the job loaded the row: it then
\* takes the update for drift of the tag, drops the pin, and lets compose
\* follow the file.  (An apply resumed after its own up, once a pass has seen
\* the pinned container, is in that state.)
AppliedRuns ==
  task.at = "idle" /\ last.outcome = "success" /\ last.type = "apply"
    /\ style[last.svc] # "floating" /\ ~last.named => con[last.svc].ver = last.to

\* A sibling that a project-scope up moved away from what its row said keeps no
\* open update for what it now runs, unless a pass or a scan came between.  The
\* job's own service is excepted: only the update it was asked for is closed.
\* So are the services that were forced: their rows are refreshed before the
\* siblings are looked at, which then finds nothing new in them and leaves
\* their updates open.
SiblingsClosed ==
  task.at = "idle" /\ last.outcome = "success" /\ last.type = "apply" /\ last.scope = "project"
    /\ ~last.warned /\ last.calm =>
    \A t \in last.moved \ ({last.svc} \union Borrowers(last.svc)) : offer[t] # 0 => offer[t] # con[t].ver

\* "Service scope checks that service; project scope checks every service of
\* the project" (targetsSelf): no job replaces the container dockbrr runs in.
OwnContainerSpared ==
  [][Home # Nobody => con'[Home] = con[Home]]_stackVars
==============================================================================
