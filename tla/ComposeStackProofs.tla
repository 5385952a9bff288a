-------------------------- MODULE ComposeStackProofs --------------------------
(***************************************************************************)
(* Proofs about ComposeStack, for every project: any set of services, any  *)
(* namespaces borrowed among them, any mix of exact, fixed and floating    *)
(* tags, any number of releases, jobs and mishaps.                         *)
(*                                                                         *)
(* The properties speak of the moment a job has ended; what makes them     *)
(* true is established several steps earlier, by the load, the plan or the *)
(* up, and must survive passes, scans and releases until then.  StackInv   *)
(* says what a job may rely on at each of its steps.                       *)
(***************************************************************************)
EXTENDS ComposeStack, TLAPS

Refs == {"file", "pin", "hold"}
Stages == {"idle", "queued", "plan", "stage", "restore", "pull", "up", "force", "locate",
           "record", "siblings"}
Staged == {"pull", "up", "force", "locate", "record", "siblings"}

StackShape ==
  /\ style \in [Stack -> {"exact", "fixed", "floating"}]
  /\ newest \in [Stack -> Versions]
  /\ line \in [Stack -> Versions]
  /\ pulled \in [Stack -> Versions]
  /\ con \in [Stack -> [gen : Nat, ver : Versions, ref : Refs, joins : Nat]]
  /\ record \in [Stack -> [ids : SUBSET (Stack \X Nat), ver : Versions, ref : Refs, tag : Versions]]
  /\ offer \in [Stack -> Versions]
  /\ snaps \in [Stack -> [ver : 0..None, blob : [Stack -> 0..None]]]
  /\ ahead \subseteq Stack /\ last.moved \subseteq Stack

TaskShape ==
  task \in [at : Stages, svc : Stack \union {Nobody}, type : {"apply", "rollback"},
            scope : {"service", "project"}, ids : SUBSET (Stack \X Nat), ver : Versions, ref : Refs, tag : Versions,
            to : Versions, mode : {"plain", "rewrite", "pin", "hold"},
            fresh : SUBSET (Stack \X Nat), fver : Versions, left : SUBSET Stack,
            moved : SUBSET Stack, warned : BOOLEAN, calm : BOOLEAN]

\* Nothing is anywhere that the registry never had; a file in a snapshot is a
\* whole file, and belongs to an exact tag.
NothingInvented ==
  /\ \A s \in Stack : /\ line[s] <= newest[s] /\ pulled[s] <= newest[s]
                      /\ con[s].ver <= newest[s] /\ offer[s] <= newest[s]
                      /\ record[s].ver <= newest[s] /\ record[s].tag <= newest[s]
  /\ \A s \in Stack : snaps[s].ver # None => snaps[s].ver <= newest[s]
  /\ \A s \in Stack : snaps[s].blob # NoFile =>
       style[s] = "exact" /\ \A t \in Stack : snaps[s].blob[t] <= newest[t]
  /\ task.at # "idle" =>
       /\ task.svc \in Stack
       /\ \A v \in {task.ver, task.tag, task.to, task.fver} : v <= newest[task.svc]

\* Which job is at which step, and what an apply's choice of a way rests on.
JobAtStep ==
  /\ task.at \in {"plan", "stage"} => task.type = "apply"
  /\ task.at = "restore" => task.type = "rollback"
  /\ task.at = "siblings" => task.type = "apply" /\ task.scope = "project"
  /\ task.type = "apply" /\ task.at \in Staged \union {"stage"} =>
       /\ task.mode # "hold"
       /\ task.mode = "plain" => style[task.svc] = "floating" \/ task.tag = task.to
       /\ task.mode = "rewrite" => style[task.svc] = "exact"
  /\ task.type = "apply" /\ task.mode = "rewrite" /\ task.at \in Staged => line[task.svc] = task.to

\* A rollback has a snapshot, and from its load on aims at it.
RollbackAims ==
  task.type = "rollback" /\ task.at # "idle" =>
    /\ snaps[task.svc].ver # None
    /\ task.at # "queued" => task.to = snaps[task.svc].ver
    /\ task.at \in Staged =>
         IF snaps[task.svc].blob = NoFile THEN task.mode = "hold"
         ELSE task.mode = "plain" /\ line[task.svc] = snaps[task.svc].blob[task.svc]

\* Once the up is through, the service runs what compose was asked for.
Delivered == AfterUp => con[task.svc].ver = Wanted(task.svc).ver

\* Once the dependents were forced, they have joined.
Joined ==
  task.at \in {"locate", "record", "siblings"} /\ ~task.warned =>
    \A t \in Borrowers(task.svc) : con[t].joins = con[task.svc].gen

\* Until a sibling is looked at, its row is the one the up found.
SiblingsPending ==
  task.type = "apply" /\ task.scope = "project" /\ AfterUp /\ task.calm /\ ~task.warned =>
    \A t \in task.moved \ ({task.svc} \union Borrowers(task.svc)) :
      IF task.at = "siblings" /\ t \notin task.left
      THEN record[t].ver = con[t].ver /\ (offer[t] # 0 => offer[t] # con[t].ver)
      ELSE record[t].ver # con[t].ver

\* SiblingsClosed, with the rows: the next scan closes nothing it should not open.
SiblingsRest ==
  task.at = "idle" /\ last.outcome = "success" /\ last.type = "apply" /\ last.scope = "project"
    /\ ~last.warned /\ last.calm =>
    \A t \in last.moved \ ({last.svc} \union Borrowers(last.svc)) :
      record[t].ver = con[t].ver /\ (offer[t] # 0 => offer[t] # con[t].ver)

\* A rollback that succeeded ends at the file its snapshot has, or without one at
\* the version.
RollbackEnds ==
  task.at = "idle" /\ last.outcome = "success" /\ last.type = "rollback" =>
    LET s == last.svc IN
    IF snaps[s].blob = NoFile THEN con[s].ver = snaps[s].ver
    ELSE line[s] = snaps[s].blob[s] /\ con[s].ver = snaps[s].blob[s]

\* A service with an exact tag that no apply found astray is only ever moved by
\* its file, and its snapshots carry the file.
FileGoverns ==
  \A s \in Stack : style[s] = "exact" /\ s \notin ahead =>
    /\ con[s].ref = "file"
    /\ snaps[s].blob = NoFile => snaps[s].ver = None
    /\ line[s] # con[s].ver => snaps[s].blob[s] \in {con[s].ver, line[s]}
    /\ task.svc = s /\ task.type = "apply" /\ task.at \in Staged \union {"stage"} => task.mode = "rewrite"
    /\ task.svc = s /\ task.at = "stage" => line[s] = con[s].ver /\ snaps[s].blob[s] = con[s].ver

StackInv ==
  /\ StackShape
  /\ TaskShape
  /\ NothingInvented
  /\ JobAtStep
  /\ RollbackAims
  /\ Delivered
  /\ Joined
  /\ SiblingsPending
  /\ SiblingsRest
  /\ FileGoverns
  /\ DependentsJoined
  /\ RollbackEnds
  /\ AppliedRuns

-----------------------------------------------------------------------------
(* How the job changes.                                                    *)

\* A job that has ended has its shape.
LEMMA RestShape == task' = Rest => TaskShape' /\ task'.at = "idle"
BY ComposeStackAssumption DEF Rest, TaskShape, Stages, Refs, Versions

\* A job that ends without success leaves nothing to show but its traces in
\* the file, the rows and the snapshots.
LEMMA EndsWithout ==
  ASSUME task' = Rest, last'.outcome # "success"
  PROVE  /\ TaskShape' /\ JobAtStep' /\ RollbackAims' /\ Delivered' /\ Joined'
         /\ SiblingsPending' /\ SiblingsRest'
         /\ DependentsJoined' /\ RollbackEnds' /\ AppliedRuns'
<1>1. TaskShape' /\ task'.at = "idle" BY RestShape
<1>2. JobAtStep' BY <1>1 DEF JobAtStep, Staged
<1>3. RollbackAims' BY <1>1 DEF RollbackAims
<1>4. Delivered' /\ SiblingsPending' BY <1>1 DEF Delivered, SiblingsPending, AfterUp
<1>5. Joined' BY <1>1 DEF Joined
<1>6. SiblingsRest' /\ DependentsJoined' /\ RollbackEnds' /\ AppliedRuns'
  BY DEF SiblingsRest, DependentsJoined, RollbackEnds, AppliedRuns
<1> QED BY <1>1, <1>2, <1>3, <1>4, <1>5, <1>6

\* While a job runs, nothing is said of the last one.
LEMMA GoesOn ==
  ASSUME task'.at # "idle"
  PROVE  SiblingsRest' /\ DependentsJoined' /\ RollbackEnds' /\ AppliedRuns'
BY DEF SiblingsRest, DependentsJoined, RollbackEnds, AppliedRuns

-----------------------------------------------------------------------------
(* The registry, the scanner, the pass.                                    *)

\* A release only makes more versions possible.
LEMMA ReleaseInv == ASSUME StackInv, NEW r \in Stack, Release(r) PROVE StackInv'
<1> USE ComposeStackAssumption DEF StackInv, Release
<1>1. newest' \in [Stack -> Versions] /\ \A s \in Stack : newest[s] <= newest'[s]
  BY DEF StackShape, Versions
<1>2. StackShape' /\ TaskShape' BY <1>1 DEF StackShape, TaskShape
<1>3. NothingInvented'
  BY <1>1 DEF NothingInvented, StackShape, TaskShape, Versions, NoFile, None
<1>4. JobAtStep' /\ RollbackAims' BY DEF JobAtStep, RollbackAims, NoFile
<1>5. Delivered' /\ Joined' BY DEF Delivered, AfterUp, Wanted, Joined
<1>6. SiblingsPending' /\ SiblingsRest' BY DEF SiblingsPending, SiblingsRest, AfterUp
<1>7. FileGoverns' BY DEF FileGoverns, NoFile
<1>8. DependentsJoined' /\ RollbackEnds' /\ AppliedRuns'
  BY DEF DependentsJoined, RollbackEnds, AppliedRuns, NoFile
<1> QED BY <1>2, <1>3, <1>4, <1>5, <1>6, <1>7, <1>8

\* A pass or a scan touches nothing of the job but its calm.
LEMMA CalmOnly ==
  ASSUME StackInv, task' = [task EXCEPT !.calm = @ /\ ~AfterUp],
         UNCHANGED <<style, newest, line, pulled, con, snaps, last, ahead>>
  PROVE  /\ TaskShape' /\ JobAtStep' /\ RollbackAims' /\ Delivered' /\ Joined' /\ SiblingsPending'
         /\ FileGoverns' /\ DependentsJoined' /\ RollbackEnds' /\ AppliedRuns'
         /\ \A f \in {"at", "svc", "ver", "tag", "to", "fver"} : task'[f] = task[f]
<1>1. TaskShape' BY DEF StackInv, TaskShape, AfterUp
<1>2. /\ task'.at = task.at /\ task'.svc = task.svc /\ task'.type = task.type
      /\ task'.scope = task.scope /\ task'.tag = task.tag /\ task'.to = task.to
      /\ task'.mode = task.mode /\ task'.warned = task.warned /\ task'.ver = task.ver
      /\ task'.fver = task.fver /\ (AfterUp => ~task'.calm)
  BY DEF StackInv, TaskShape
<1>3. JobAtStep' /\ RollbackAims' BY <1>2 DEF StackInv, JobAtStep, RollbackAims, NoFile
<1>4. Delivered' /\ Joined' BY <1>2 DEF StackInv, Delivered, AfterUp, Wanted, Joined
<1>5. SiblingsPending' BY <1>2 DEF SiblingsPending, AfterUp
<1>6. FileGoverns' BY <1>2 DEF StackInv, FileGoverns, NoFile
<1>7. DependentsJoined' /\ RollbackEnds' /\ AppliedRuns'
  BY <1>2 DEF StackInv, DependentsJoined, RollbackEnds, AppliedRuns, NoFile
<1> QED BY <1>1, <1>2, <1>3, <1>4, <1>5, <1>6, <1>7

\* A scan writes the offer from the row and the registry.
LEMMA ScanInv == ASSUME StackInv, NEW r \in Stack, StackScan(r) PROVE StackInv'
<1> USE ComposeStackAssumption DEF StackScan
<1>1. /\ TaskShape' /\ JobAtStep' /\ RollbackAims' /\ Delivered' /\ Joined' /\ SiblingsPending'
      /\ FileGoverns' /\ DependentsJoined' /\ RollbackEnds' /\ AppliedRuns'
      /\ \A f \in {"at", "svc", "ver", "tag", "to", "fver"} : task'[f] = task[f]
  BY CalmOnly
<1>2. Scanned(r) \in Versions /\ Scanned(r) <= newest[r] /\ (Scanned(r) # 0 => Scanned(r) # record[r].ver)
  BY DEF StackInv, StackShape, NothingInvented, Scanned, Versions
<1>3. offer' \in [Stack -> Versions] /\ \A s \in Stack : offer'[s] = IF s = r THEN Scanned(r) ELSE offer[s]
  BY <1>2 DEF StackInv, StackShape
<1>4. StackShape' BY <1>3 DEF StackInv, StackShape
<1>5. NothingInvented' BY <1>1, <1>2, <1>3 DEF StackInv, NothingInvented, NoFile
<1>6. SiblingsRest' BY <1>1, <1>2, <1>3 DEF StackInv, SiblingsRest, StackShape
<1> QED BY <1>1, <1>4, <1>5, <1>6 DEF StackInv

\* A reconcile pass copies the containers into the rows.
LEMMA PassInv == ASSUME StackInv, StackPass PROVE StackInv'
<1> USE ComposeStackAssumption DEF StackPass
<1>1. /\ TaskShape' /\ JobAtStep' /\ RollbackAims' /\ Delivered' /\ Joined' /\ SiblingsPending'
      /\ FileGoverns' /\ DependentsJoined' /\ RollbackEnds' /\ AppliedRuns'
      /\ \A f \in {"at", "svc", "ver", "tag", "to", "fver"} : task'[f] = task[f]
  BY CalmOnly
<1>2. \A s \in Stack : record'[s].ver = con[s].ver /\ record'[s].tag = con[s].ver
  BY DEF StackInv, StackShape
<1>3. StackShape' BY DEF StackInv, StackShape
<1>4. NothingInvented' BY <1>1, <1>2 DEF StackInv, NothingInvented, NoFile
<1>5. SiblingsRest' BY <1>1, <1>2 DEF StackInv, SiblingsRest, StackShape
<1> QED BY <1>1, <1>3, <1>4, <1>5 DEF StackInv

-----------------------------------------------------------------------------
(* Requests, loads, crashes.                                              *)

\* A job that is queued, asked for or resumed.
LEMMA QueuedInv ==
  ASSUME StackInv, NEW v \in Stack, NEW y \in {"apply", "rollback"}, NEW z \in {"service", "project"},
         NEW c \in BOOLEAN, y = "rollback" => snaps[v].ver # None,
         task' = [at |-> "queued", svc |-> v, type |-> y, scope |-> z, ids |-> {}, ver |-> 0, ref |-> "file", tag |-> 0,
                  to |-> 0, mode |-> "plain", fresh |-> {}, fver |-> 0, left |-> {}, moved |-> {},
                  warned |-> FALSE, calm |-> c],
         last'.moved \subseteq Stack,
         UNCHANGED <<style, newest, line, pulled, con, record, offer, snaps, ahead>>
  PROVE  StackInv'
<1>1. TaskShape' BY ComposeStackAssumption DEF TaskShape, Stages, Refs, Versions
<1>2. /\ task'.at = "queued" /\ task'.svc = v /\ task'.type = y /\ task'.ver = 0 /\ task'.tag = 0
      /\ task'.to = 0 /\ task'.fver = 0
  OBVIOUS
<1>3. StackShape' BY DEF StackInv, StackShape
<1>4. NothingInvented' BY <1>2 DEF StackInv, NothingInvented, NoFile, StackShape, Versions
<1>5. JobAtStep' BY <1>2 DEF JobAtStep, Staged
<1>6. RollbackAims' BY <1>2 DEF RollbackAims, Staged
<1>7. Delivered' /\ Joined' /\ SiblingsPending' BY <1>2 DEF Delivered, Joined, SiblingsPending, AfterUp
<1>8. FileGoverns' BY <1>2 DEF StackInv, FileGoverns, NoFile, Staged
<1>9. SiblingsRest' /\ DependentsJoined' /\ RollbackEnds' /\ AppliedRuns' BY <1>2, GoesOn
<1> QED BY <1>1, <1>3, <1>4, <1>5, <1>6, <1>7, <1>8, <1>9 DEF StackInv

\* A request is admitted only for an offer or a snapshot that is there.
LEMMA RequestInv ==
  ASSUME StackInv, NEW v \in Stack, NEW y \in {"apply", "rollback"}, NEW z \in {"service", "project"},
         StackRequest(v, y, z)
  PROVE  StackInv'
<1>1. task' = [at |-> "queued", svc |-> v, type |-> y, scope |-> z, ids |-> {}, ver |-> 0, ref |-> "file", tag |-> 0,
             to |-> 0, mode |-> "plain", fresh |-> {}, fver |-> 0, left |-> {}, moved |-> {},
             warned |-> FALSE, calm |-> TRUE]
  BY DEF StackRequest, Rest
<1>2. last'.moved \subseteq Stack BY DEF StackRequest, Blank
<1> QED BY <1>1, <1>2, QueuedInv DEF StackRequest

\* A crash sends the job back to its start; file, containers and snapshots stay.
LEMMA CrashInv == ASSUME StackInv, StackCrash PROVE StackInv'
<1>1. task.svc \in Stack BY DEF StackInv, NothingInvented, StackCrash
<1>2. task.type \in {"apply", "rollback"} /\ task.scope \in {"service", "project"}
  BY DEF StackInv, TaskShape
<1>3. task.type = "rollback" => snaps[task.svc].ver # None
  BY DEF StackInv, RollbackAims, StackCrash
<1>4. last'.moved \subseteq Stack BY DEF StackCrash, StackInv, StackShape
<1>5. task' = [at |-> "queued", svc |-> task.svc, type |-> task.type, scope |-> task.scope, ids |-> {}, ver |-> 0,
               ref |-> "file", tag |-> 0, to |-> 0, mode |-> "plain", fresh |-> {}, fver |-> 0,
               left |-> {}, moved |-> {}, warned |-> FALSE, calm |-> FALSE]
  BY DEF StackCrash, Rest
<1> QED BY <1>1, <1>2, <1>3, <1>4, <1>5, QueuedInv DEF StackCrash

\* Closing the update of the job.
LEMMA OfferClosed ==
  ASSUME StackInv, \/ UNCHANGED offer
                   \/ offer' = [offer EXCEPT ![task.svc] = IF @ = task.to THEN 0 ELSE @]
  PROVE  /\ offer' \in [Stack -> Versions] /\ \A s \in Stack : offer'[s] <= newest[s]
         /\ \A s \in Stack \ {task.svc} : offer'[s] = offer[s]
<1>1. /\ offer' \in [Stack -> Versions] /\ \A s \in Stack : offer'[s] \in {0, offer[s]}
      /\ \A s \in Stack \ {task.svc} : offer'[s] = offer[s]
  <2>1. CASE UNCHANGED offer BY <2>1 DEF StackInv, StackShape
  <2>2. CASE offer' = [offer EXCEPT ![task.svc] = IF @ = task.to THEN 0 ELSE @]
    <3> DEFINE x == IF offer[task.svc] = task.to THEN 0 ELSE offer[task.svc]
    <3>1. offer' = [offer EXCEPT ![task.svc] = x] BY <2>2
    <3>2. task.svc \in Stack => x \in Versions /\ x \in {0, offer[task.svc]}
      BY ComposeStackAssumption DEF StackInv, StackShape, Versions
    <3> HIDE DEF x
    <3> QED BY <3>1, <3>2 DEF StackInv, StackShape
  <2> QED BY <2>1, <2>2
<1>2. \A s \in Stack : offer'[s] <= newest[s]
  BY <1>1, ComposeStackAssumption DEF StackInv, NothingInvented, StackShape, Versions
<1> QED BY <1>1, <1>2

\* A job that ends without success, having touched no file, snapshot or
\* container, and an update at most to close it.
LEMMA GivesUp ==
  ASSUME StackInv, task.at # "idle", NEW outcome \in {"refused", "failed"}, Ends(outcome),
         \/ UNCHANGED offer
         \/ offer' = [offer EXCEPT ![task.svc] = IF @ = task.to THEN 0 ELSE @],
         UNCHANGED <<style, newest, line, pulled, con, record, snaps, ahead>>
  PROVE  StackInv'
<1>1. task' = Rest /\ last'.outcome # "success" /\ last'.moved = task.moved BY DEF Ends
<1>2. task'.at = "idle" BY <1>1 DEF Rest
<1>3. offer' \in [Stack -> Versions] /\ \A s \in Stack : offer'[s] <= newest[s] BY OfferClosed
<1>4. StackShape' BY <1>1, <1>3 DEF StackInv, StackShape, TaskShape
<1>5. NothingInvented' BY <1>2, <1>3 DEF StackInv, NothingInvented, NoFile
<1>6. FileGoverns' BY <1>2 DEF StackInv, FileGoverns, NoFile, Staged
<1> QED BY <1>1, <1>4, <1>5, <1>6, EndsWithout DEF StackInv

\* A job reads the row, and a rollback its target from the snapshot.
LEMMA LoadInv == ASSUME StackInv, StackLoad PROVE StackInv'
<1> USE DEF StackLoad, taskUnchanged
<1>1. CASE Ends("refused") BY <1>1, GivesUp
<1>2. CASE ~Ends("refused")
  <2> DEFINE s == task.svc
  <2>1. s \in Stack /\ task.type \in {"apply", "rollback"}
    BY DEF StackInv, NothingInvented, TaskShape
  <2>2. record[s].ver \in Versions /\ record[s].tag \in Versions /\ record[s].ref \in Refs
        /\ record[s].ver <= newest[s] /\ record[s].tag <= newest[s]
        /\ record[s].ids \in SUBSET (Stack \X Nat)
    BY <2>1 DEF StackInv, StackShape, NothingInvented
  <2> DEFINE to == IF task.type = "apply" THEN offer[s] ELSE snaps[s].ver
             at == IF task.type = "apply" THEN "plan" ELSE "restore"
  <2>3. to \in Versions /\ to <= newest[s] /\ (task.type = "rollback" => to = snaps[s].ver)
    BY <2>1, ComposeStackAssumption DEF StackInv, StackShape, NothingInvented, RollbackAims, Versions, None
  <2>4. task' = [task EXCEPT !.at = at, !.ids = record[s].ids, !.ver = record[s].ver,
                             !.ref = record[s].ref, !.tag = record[s].tag, !.to = to] /\ UNCHANGED last
    BY <1>2
  <2>5. at \in {"plan", "restore"} /\ (at = "plan" <=> task.type = "apply") OBVIOUS
  <2> HIDE DEF s, to, at
  <2>6. TaskShape' BY <2>2, <2>3, <2>4, <2>5 DEF StackInv, TaskShape, Stages
  <2>7. /\ task'.at = at /\ task'.svc = task.svc /\ task'.type = task.type /\ task'.to = to
        /\ task'.ver = record[s].ver /\ task'.tag = record[s].tag /\ task'.fver = task.fver
    BY <2>4 DEF StackInv, TaskShape
  <2>8. StackShape' BY <2>4 DEF StackInv, StackShape
  <2>9. NothingInvented' BY <2>1, <2>2, <2>3, <2>7 DEF s, StackInv, NothingInvented, NoFile
  <2>10. JobAtStep' BY <2>1, <2>5, <2>7 DEF JobAtStep, Staged
  <2>11. RollbackAims' BY <2>1, <2>3, <2>5, <2>7 DEF s, StackInv, RollbackAims, Staged
  <2>12. Delivered' /\ Joined' /\ SiblingsPending'
    BY <2>5, <2>7 DEF Delivered, Joined, SiblingsPending, AfterUp
  <2>13. FileGoverns' BY <2>5, <2>7 DEF StackInv, FileGoverns, NoFile, Staged
  <2>14. SiblingsRest' /\ DependentsJoined' /\ RollbackEnds' /\ AppliedRuns'
    BY <2>5, <2>7, GoesOn
  <2> QED BY <2>6, <2>8, <2>9, <2>10, <2>11, <2>12, <2>13, <2>14 DEF StackInv
<1> QED BY <1>1, <1>2

-----------------------------------------------------------------------------
(* The steps before the containers change.                                 *)

\* An apply chooses between rewrite, pin and plain, and takes the snapshot.
LEMMA PlanInv == ASSUME StackInv, StackPlan PROVE StackInv'
<1> USE DEF StackPlan
<1>1. CASE Ends("refused") /\ UNCHANGED <<snaps, ahead>> BY <1>1, GivesUp
<1>2. CASE ~(Ends("refused") /\ UNCHANGED <<snaps, ahead>>)
  <2> DEFINE s == task.svc
             m == Mode(s)
  <2>1. s \in Stack /\ task.type = "apply" BY DEF StackInv, NothingInvented, JobAtStep
  <2>2. /\ snaps' = [snaps EXCEPT ![s] = [ver |-> task.ver, blob |-> IF m = "rewrite" THEN line ELSE NoFile]]
        /\ task' = [task EXCEPT !.at = "stage", !.mode = m]
        /\ ahead' = IF style[s] = "exact" /\ (m # "rewrite" \/ line[s] # con[s].ver)
                    THEN ahead \union {s} ELSE ahead
        /\ UNCHANGED <<offer, last>>
    BY <1>2 DEF SnapshotOf
  <2>3. /\ m \in {"plain", "rewrite", "pin"}
        /\ m = "plain" => style[s] = "floating" \/ task.tag = task.to
        /\ m = "rewrite" => style[s] = "exact"
    BY DEF Mode, CrossTag
  <2>4. task.ver \in Versions /\ task.ver <= newest[s] /\ task.ver # None
    BY ComposeStackAssumption DEF StackInv, TaskShape, NothingInvented, Versions, None
  <2> HIDE DEF m
  <2>5. TaskShape' BY <2>2, <2>3 DEF StackInv, TaskShape, Stages
  <2>6. /\ task'.at = "stage" /\ task'.svc = s /\ task'.type = "apply" /\ task'.to = task.to
        /\ task'.ver = task.ver /\ task'.tag = task.tag /\ task'.fver = task.fver /\ task'.mode = m
    BY <2>1, <2>2 DEF StackInv, TaskShape
  <2> HIDE DEF s
  <2>7. /\ NoFile \in [Stack -> 0..None] /\ line \in [Stack -> 0..None] /\ line # NoFile
        /\ task.ver \in 0..None
    BY <2>1, <2>4, ComposeStackAssumption DEF StackInv, StackShape, NoFile, None, Versions
  <2>8. /\ snaps' \in [Stack -> [ver : 0..None, blob : [Stack -> 0..None]]]
        /\ snaps'[s].ver = task.ver /\ snaps'[s].blob = IF m = "rewrite" THEN line ELSE NoFile
        /\ \A t \in Stack \ {s} : snaps'[t] = snaps[t]
    BY <2>1, <2>2, <2>7 DEF StackInv, StackShape
  <2>9. ahead \subseteq ahead' /\ ahead' \subseteq Stack
        /\ (style[s] = "exact" /\ s \notin ahead' => m = "rewrite" /\ line[s] = con[s].ver)
    BY <2>1, <2>2 DEF StackInv, StackShape
  <2>10. StackShape' BY <2>2, <2>8, <2>9 DEF StackInv, StackShape
  <2>11. NothingInvented'
    <3>1. \A t \in Stack : snaps'[t].ver # None => snaps'[t].ver <= newest[t]
      BY <2>4, <2>8 DEF s, StackInv, NothingInvented
    <3>2. \A t \in Stack : snaps'[t].blob # NoFile =>
            style[t] = "exact" /\ \A u \in Stack : snaps'[t].blob[u] <= newest[u]
      BY <2>3, <2>8 DEF StackInv, NothingInvented
    <3> QED BY <2>1, <2>2, <2>6, <3>1, <3>2 DEF s, StackInv, NothingInvented, NoFile
  <2>12. JobAtStep' BY <2>3, <2>6 DEF s, JobAtStep, Staged
  <2>13. RollbackAims' BY <2>6 DEF RollbackAims
  <2>14. Delivered' /\ Joined' /\ SiblingsPending'
    BY <2>6 DEF Delivered, Joined, SiblingsPending, AfterUp
  <2>15. FileGoverns'
    <3> SUFFICES ASSUME NEW t \in Stack, style[t] = "exact", t \notin ahead'
                 PROVE  /\ con[t].ref = "file"
                        /\ snaps'[t].blob = NoFile => snaps'[t].ver = None
                        /\ line[t] # con[t].ver => snaps'[t].blob[t] \in {con[t].ver, line[t]}
                        /\ t = s => m = "rewrite" /\ line[t] = con[t].ver /\ snaps'[t].blob[t] = con[t].ver
      BY <2>6 DEF FileGoverns, NoFile, Staged
    <3>1. t \notin ahead BY <2>9
    <3>2. CASE t = s BY <2>7, <2>8, <2>9, <3>1, <3>2 DEF StackInv, FileGoverns
    <3>3. CASE t # s BY <2>8, <3>1, <3>3 DEF StackInv, FileGoverns
    <3> QED BY <3>2, <3>3
  <2>16. SiblingsRest' /\ DependentsJoined' /\ RollbackEnds' /\ AppliedRuns' BY <2>6, GoesOn
  <2> QED BY <2>5, <2>10, <2>11, <2>12, <2>13, <2>14, <2>15, <2>16 DEF StackInv
<1> QED BY <1>1, <1>2

\* The file is rewritten; the snapshot has it as it was.
LEMMA StageInv == ASSUME StackInv, StackStage PROVE StackInv'
<1> USE DEF StackStage, taskUnchanged
<1>1. CASE FailsApply /\ UNCHANGED line BY <1>1, GivesUp DEF FailsApply
<1>2. CASE /\ line' = IF task.mode = "rewrite" THEN Rewritten(task.svc) ELSE line
           /\ Goes("pull") /\ UNCHANGED <<offer, tally>>
  <2> DEFINE s == task.svc
  <2>1. s \in Stack /\ task.type = "apply" /\ task.to \in Versions /\ task.to <= newest[s]
    BY DEF StackInv, NothingInvented, JobAtStep, TaskShape
  <2>2. TaskShape' BY <1>2 DEF Goes, StackInv, TaskShape, Stages
  <2>3. /\ task'.at = "pull" /\ task'.svc = s /\ task'.type = "apply" /\ task'.to = task.to
        /\ task'.ver = task.ver /\ task'.tag = task.tag /\ task'.fver = task.fver /\ task'.mode = task.mode
    BY <1>2, <2>1 DEF Goes, StackInv, TaskShape
  <2>4. /\ line' \in [Stack -> Versions] /\ \A t \in Stack \ {s} : line'[t] = line[t]
        /\ line'[s] = IF task.mode = "rewrite" THEN task.to ELSE line[s]
    BY <1>2, <2>1 DEF Rewritten, StackInv, StackShape
  <2>5. StackShape' BY <1>2, <2>4 DEF Goes, StackInv, StackShape
  <2>6. NothingInvented' BY <1>2, <2>1, <2>3, <2>4 DEF StackInv, NothingInvented, NoFile
  <2>7. JobAtStep' BY <2>3, <2>4 DEF StackInv, JobAtStep, Staged
  <2>8. RollbackAims' BY <2>3 DEF RollbackAims
  <2>9. Delivered' /\ Joined' /\ SiblingsPending'
    BY <2>3 DEF Delivered, Joined, SiblingsPending, AfterUp
  <2>10. FileGoverns' BY <2>1, <2>3, <2>4 DEF StackInv, FileGoverns, NoFile, Staged
  <2>11. SiblingsRest' /\ DependentsJoined' /\ RollbackEnds' /\ AppliedRuns' BY <2>3, GoesOn
  <2> QED BY <2>2, <2>5, <2>6, <2>7, <2>8, <2>9, <2>10, <2>11 DEF StackInv
<1> QED BY <1>1, <1>2

\* A rollback puts the snapshot's file back, or holds the image.
LEMMA RestoreInv == ASSUME StackInv, StackRestore PROVE StackInv'
<1> USE DEF StackRestore
<1>1. CASE Ends("failed") /\ UNCHANGED <<line, ahead>> BY <1>1, GivesUp
<1>2. CASE ~(Ends("failed") /\ UNCHANGED <<line, ahead>>)
  <2> DEFINE s == task.svc
             m == IF snaps[s].blob = NoFile THEN "hold" ELSE "plain"
  <2>1. s \in Stack /\ task.type = "rollback" BY DEF StackInv, NothingInvented, JobAtStep
  <2>2. /\ line' = Restored(s) /\ task' = [task EXCEPT !.at = "pull", !.mode = m]
        /\ ahead' = ahead \union {t \in Stack \ {s} : Restored(s)[t] # line[t]} /\ UNCHANGED last
    BY <1>2
  <2>3. m \in {"hold", "plain"} /\ (m = "hold" <=> snaps[s].blob = NoFile) OBVIOUS
  <2> HIDE DEF m
  <2>4. TaskShape' BY <2>2, <2>3 DEF StackInv, TaskShape, Stages
  <2>5. /\ task'.at = "pull" /\ task'.svc = s /\ task'.type = "rollback" /\ task'.to = task.to
        /\ task'.ver = task.ver /\ task'.tag = task.tag /\ task'.fver = task.fver /\ task'.mode = m
    BY <2>1, <2>2 DEF StackInv, TaskShape
  <2>6. line' \in [Stack -> Versions] /\ \A t \in Stack : line'[t] <= newest[t]
    BY <2>1, <2>2, ComposeStackAssumption DEF Restored, StackInv, StackShape, NothingInvented, Versions, None
  <2>7. /\ snaps[s].blob = NoFile => line' = line
        /\ snaps[s].blob # NoFile => line' = snaps[s].blob
        /\ \A t \in Stack \ {s} : t \notin ahead' => line'[t] = line[t]
    BY <2>2 DEF Restored
  <2>8. ahead \subseteq ahead' /\ ahead' \subseteq Stack BY <2>2 DEF StackInv, StackShape
  <2>9. StackShape' BY <2>2, <2>6, <2>8 DEF StackInv, StackShape
  <2>10. NothingInvented' BY <2>1, <2>5, <2>6 DEF StackInv, NothingInvented, NoFile
  <2>11. JobAtStep' BY <2>5 DEF JobAtStep
  <2>12. RollbackAims'
    <3>1. NoFile' = NoFile BY DEF NoFile
    <3>2. snaps[s].ver # None /\ task.to = snaps[s].ver BY <2>1 DEF StackInv, RollbackAims
    <3>3. IF snaps[s].blob = NoFile THEN m = "hold" ELSE m = "plain" /\ line'[s] = snaps[s].blob[s]
      BY <2>3, <2>7
    <3> HIDE DEF s
    <3> QED BY <2>5, <3>1, <3>2, <3>3 DEF RollbackAims
  <2>13. Delivered' /\ Joined' /\ SiblingsPending'
    BY <2>5 DEF Delivered, Joined, SiblingsPending, AfterUp
  <2>14. FileGoverns'
    <3> SUFFICES ASSUME NEW t \in Stack, style[t] = "exact", t \notin ahead'
                 PROVE  /\ con[t].ref = "file"
                        /\ snaps[t].blob = NoFile => snaps[t].ver = None
                        /\ line'[t] # con[t].ver => snaps[t].blob[t] \in {con[t].ver, line'[t]}
      BY <2>5 DEF FileGoverns, NoFile, Staged
    <3>1. t \notin ahead BY <2>8
    <3>2. CASE t = s BY <2>7, <3>1, <3>2 DEF StackInv, FileGoverns, RollbackAims
    <3>3. CASE t # s BY <2>7, <3>1, <3>3 DEF StackInv, FileGoverns
    <3> QED BY <3>2, <3>3
  <2>15. SiblingsRest' /\ DependentsJoined' /\ RollbackEnds' /\ AppliedRuns' BY <2>5, GoesOn
  <2> QED BY <2>4, <2>9, <2>10, <2>11, <2>12, <2>13, <2>14, <2>15 DEF StackInv
<1> QED BY <1>1, <1>2

\* What is pulled is what the registry has.
LEMMA PullInv == ASSUME StackInv, StackPull PROVE StackInv'
<1> USE DEF StackPull, taskUnchanged
<1>1. CASE Fails /\ UNCHANGED pulled BY <1>1, GivesUp DEF Fails, FailsApply
<1>2. CASE ~(Fails /\ UNCHANGED pulled)
  <2>1. /\ pulled' = [s \in Stack |-> IF s \in Targets THEN newest[s] ELSE pulled[s]]
        /\ task' = [task EXCEPT !.at = "up"] /\ UNCHANGED <<last, offer>>
    BY <1>2 DEF Goes
  <2>2. pulled' \in [Stack -> Versions] /\ \A s \in Stack : pulled'[s] <= newest[s]
    BY <2>1, ComposeStackAssumption DEF StackInv, StackShape, NothingInvented, Versions
  <2>3. TaskShape' BY <2>1 DEF StackInv, TaskShape, Stages
  <2>4. /\ task'.at = "up" /\ task'.svc = task.svc /\ task'.type = task.type /\ task'.to = task.to
        /\ task'.ver = task.ver /\ task'.tag = task.tag /\ task'.fver = task.fver /\ task'.mode = task.mode
    BY <2>1 DEF StackInv, TaskShape
  <2>5. StackShape' BY <2>1, <2>2 DEF StackInv, StackShape
  <2>6. NothingInvented' BY <2>1, <2>2, <2>4 DEF StackInv, NothingInvented, NoFile
  <2>7. JobAtStep' BY <2>4 DEF StackInv, JobAtStep, Staged
  <2>8. RollbackAims' BY <2>4 DEF StackInv, RollbackAims, Staged, NoFile
  <2>9. Delivered' /\ Joined' /\ SiblingsPending'
    BY <2>4 DEF Delivered, Joined, SiblingsPending, AfterUp
  <2>10. FileGoverns' BY <2>4 DEF StackInv, FileGoverns, NoFile, Staged
  <2>11. SiblingsRest' /\ DependentsJoined' /\ RollbackEnds' /\ AppliedRuns' BY <2>4, GoesOn
  <2> QED BY <2>3, <2>5, <2>6, <2>7, <2>8, <2>9, <2>10, <2>11 DEF StackInv
<1> QED BY <1>1, <1>2

-----------------------------------------------------------------------------
(* The containers change.                                                  *)

\* What compose is asked for exists, and for an exact tag nobody led astray it
\* is the file.
LEMMA WantedKnown ==
  ASSUME StackInv, task.at \in Staged
  PROVE  \A s \in Stack :
           /\ Wanted(s).ver \in Versions /\ Wanted(s).ver <= newest[s] /\ Wanted(s).ref \in Refs
           /\ style[s] = "exact" /\ s \notin ahead => Wanted(s).ver = line[s] /\ Wanted(s).ref = "file"
<1> SUFFICES ASSUME NEW s \in Stack
             PROVE  /\ Wanted(s).ver \in Versions /\ Wanted(s).ver <= newest[s] /\ Wanted(s).ref \in Refs
                    /\ style[s] = "exact" /\ s \notin ahead =>
                         Wanted(s).ver = line[s] /\ Wanted(s).ref = "file"
  OBVIOUS
<1>1. /\ task.to \in Versions /\ (task.svc = s => task.to <= newest[s])
      /\ line[s] \in Versions /\ line[s] <= newest[s] /\ pulled[s] \in Versions /\ pulled[s] <= newest[s]
  BY DEF StackInv, StackShape, TaskShape, NothingInvented, Staged
<1>2. style[s] = "exact" /\ s \notin ahead /\ task.svc = s => task.mode \in {"plain", "rewrite"}
  <2> SUFFICES ASSUME style[s] = "exact", s \notin ahead, task.svc = s
               PROVE  task.mode \in {"plain", "rewrite"}
    OBVIOUS
  <2>1. CASE task.type = "apply" BY <2>1 DEF StackInv, FileGoverns
  <2>2. CASE task.type = "rollback"
    BY <2>2 DEF StackInv, FileGoverns, RollbackAims, Staged
  <2> QED BY <2>1, <2>2 DEF StackInv, TaskShape
<1>3. CASE s = task.svc /\ task.mode = "pin" BY <1>1, <1>2, <1>3 DEF Wanted, Refs
<1>4. CASE s = task.svc /\ task.mode = "hold" BY <1>1, <1>2, <1>4 DEF Wanted, Refs
<1>5. CASE ~(s = task.svc /\ task.mode \in {"pin", "hold"})
  <2>1. Wanted(s) = [ver |-> IF style[s] = "floating" THEN pulled[s] ELSE line[s], ref |-> "file"]
    BY <1>5 DEF Wanted
  <2> QED BY <1>1, <2>1 DEF Refs
<1> QED BY <1>3, <1>4, <1>5

\* Replacing containers, by the up or by force, in whole or in part.
LEMMA ReplacedKnown ==
  ASSUME StackInv, task.at \in Staged, NEW W \in SUBSET Stack, con' = Recreated(W)
  PROVE  /\ con' \in [Stack -> [gen : Nat, ver : Versions, ref : Refs, joins : Nat]]
         /\ \A s \in Stack : con'[s].ver = IF s \in W THEN Wanted(s).ver ELSE con[s].ver
         /\ \A s \in Stack : con'[s].ver <= newest[s]
         /\ \A s \in Stack : s \in W /\ Provider[s] # Nobody => con'[s].joins = con'[Provider[s]].gen
         /\ \A s \in Stack : style[s] = "exact" /\ s \notin ahead =>
              con'[s].ref = "file"
              /\ (line[s] # con'[s].ver => snaps[s].blob[s] \in {con'[s].ver, line[s]})
<1> DEFINE gen(s) == IF s \in W THEN con[s].gen + 1 ELSE con[s].gen
           fresh(s) == [gen |-> gen(s), ver |-> Wanted(s).ver, ref |-> Wanted(s).ref,
                        joins |-> IF Provider[s] = Nobody THEN 0 ELSE gen(Provider[s])]
<1>1. con' = [s \in Stack |-> IF s \notin W THEN con[s] ELSE fresh(s)] BY DEF Recreated
<1>2. \A s \in Stack : gen(s) \in Nat BY DEF StackInv, StackShape
<1>3. \A s \in Stack : fresh(s) \in [gen : Nat, ver : Versions, ref : Refs, joins : Nat]
  BY <1>2, WantedKnown, ComposeStackAssumption
<1>4. \A s \in Stack : con'[s].gen = gen(s) BY <1>1
<1>5. \A s \in Stack : s \in W /\ Provider[s] # Nobody => con'[s].joins = gen(Provider[s]) BY <1>1
<1>6. \A s \in Stack : /\ con'[s].ver = IF s \in W THEN Wanted(s).ver ELSE con[s].ver
                       /\ con'[s].ref = IF s \in W THEN Wanted(s).ref ELSE con[s].ref
  BY <1>1
<1>7. con' \in [Stack -> [gen : Nat, ver : Versions, ref : Refs, joins : Nat]]
  <2> HIDE DEF gen, fresh
  <2> QED BY <1>1, <1>3 DEF StackInv, StackShape
<1> HIDE DEF gen, fresh
<1>8. \A s \in Stack : s \in W /\ Provider[s] # Nobody => con'[s].joins = con'[Provider[s]].gen
  BY <1>4, <1>5, ComposeStackAssumption
<1>9. \A s \in Stack : con'[s].ver <= newest[s] BY <1>6, WantedKnown DEF StackInv, NothingInvented
<1>10. \A s \in Stack : style[s] = "exact" /\ s \notin ahead =>
         con'[s].ref = "file"
         /\ (line[s] # con'[s].ver => snaps[s].blob[s] \in {con'[s].ver, line[s]})
  BY <1>6, WantedKnown DEF StackInv, FileGoverns
<1> QED BY <1>6, <1>7, <1>8, <1>9, <1>10

\* An up that fails.
LEMMA UpFails ==
  ASSUME StackInv, task.at = "up", Fails, NEW W \in SUBSET Stack, con' = Recreated(W),
         UNCHANGED <<style, newest, line, pulled, record, snaps, ahead>>
  PROVE  StackInv'
<1>1. /\ task' = Rest /\ last'.outcome # "success" /\ last'.moved = task.moved
      /\ \/ UNCHANGED offer
         \/ offer' = [offer EXCEPT ![task.svc] = IF @ = task.to THEN 0 ELSE @]
  BY DEF Fails, FailsApply, Ends
<1>2. task'.at = "idle" BY <1>1 DEF Rest
<1>3. /\ con' \in [Stack -> [gen : Nat, ver : Versions, ref : Refs, joins : Nat]]
      /\ \A s \in Stack : con'[s].ver <= newest[s]
      /\ \A s \in Stack : style[s] = "exact" /\ s \notin ahead =>
           con'[s].ref = "file"
           /\ (line[s] # con'[s].ver => snaps[s].blob[s] \in {con'[s].ver, line[s]})
  BY ReplacedKnown DEF Staged
<1>4. offer' \in [Stack -> Versions] /\ \A s \in Stack : offer'[s] <= newest[s]
  BY <1>1, OfferClosed
<1>6. StackShape' BY <1>1, <1>3, <1>4 DEF StackInv, StackShape, TaskShape
<1>7. NothingInvented' BY <1>2, <1>3, <1>4 DEF StackInv, NothingInvented, NoFile
<1>8. FileGoverns' BY <1>2, <1>3 DEF StackInv, FileGoverns, NoFile, Staged
<1> QED BY <1>1, <1>6, <1>7, <1>8, EndsWithout DEF StackInv

\* After the up the containers are what compose was asked for.
LEMMA UpInv == ASSUME StackInv, StackUp PROVE StackInv'
<1> USE DEF StackUp, taskUnchanged
<1>1. task.svc \in Stack /\ Targets \subseteq Stack /\ task.svc \in Targets /\ Outdated \subseteq Targets
  BY DEF StackInv, NothingInvented, Targets, Outdated
<1>2. CASE Fails /\ \E some \in SUBSET Outdated : con' = Recreated(some) BY <1>1, <1>2, UpFails
<1>3. CASE ~(Fails /\ \E some \in SUBSET Outdated : con' = Recreated(some))
  <2> DEFINE moved == {s \in Outdated : record[s].ver # Wanted(s).ver}
  <2>1. con' = Recreated(Outdated) /\ task' = [task EXCEPT !.at = "force", !.moved = moved]
        /\ UNCHANGED <<offer, last>>
    BY <1>3
  <2>2. moved \in SUBSET Stack BY <1>1
  <2>3. /\ con' \in [Stack -> [gen : Nat, ver : Versions, ref : Refs, joins : Nat]]
        /\ \A s \in Stack : con'[s].ver = IF s \in Outdated THEN Wanted(s).ver ELSE con[s].ver
        /\ \A s \in Stack : con'[s].ver <= newest[s]
        /\ \A s \in Stack : style[s] = "exact" /\ s \notin ahead =>
             con'[s].ref = "file"
             /\ (line[s] # con'[s].ver => snaps[s].blob[s] \in {con'[s].ver, line[s]})
    BY <1>1, <2>1, ReplacedKnown DEF Staged
  <2>4. \A s \in moved : record[s].ver # con'[s].ver BY <1>1, <2>3
  <2>5. con'[task.svc].ver = Wanted(task.svc).ver BY <1>1, <2>3 DEF Outdated
  <2> HIDE DEF moved
  <2>6. TaskShape' BY <2>1, <2>2 DEF StackInv, TaskShape, Stages
  <2>7. /\ task'.at = "force" /\ task'.svc = task.svc /\ task'.type = task.type /\ task'.to = task.to
        /\ task'.ver = task.ver /\ task'.tag = task.tag /\ task'.fver = task.fver
        /\ task'.mode = task.mode /\ task'.moved = moved
    BY <2>1 DEF StackInv, TaskShape
  <2>8. StackShape' BY <2>1, <2>3 DEF StackInv, StackShape
  <2>9. NothingInvented' BY <2>1, <2>3, <2>7 DEF StackInv, NothingInvented, NoFile
  <2>10. JobAtStep' BY <2>7 DEF StackInv, JobAtStep, Staged
  <2>11. RollbackAims' BY <2>7 DEF StackInv, RollbackAims, Staged, NoFile
  <2>12. Delivered' BY <2>5, <2>7 DEF Delivered, Wanted
  <2>13. Joined' BY <2>7 DEF Joined
  <2>14. SiblingsPending' BY <2>4, <2>7 DEF SiblingsPending
  <2>15. FileGoverns' BY <2>3, <2>7 DEF StackInv, FileGoverns, NoFile, Staged
  <2>16. SiblingsRest' /\ DependentsJoined' /\ RollbackEnds' /\ AppliedRuns' BY <2>7, GoesOn
  <2> QED BY <2>6, <2>8, <2>9, <2>10, <2>11, <2>12, <2>13, <2>14, <2>15, <2>16 DEF StackInv
<1> QED BY <1>2, <1>3

\* Borrowers are recreated and their rows refreshed, or a warning stands.
LEMMA ForceInv == ASSUME StackInv, StackForce PROVE StackInv'
<1> USE DEF StackForce, taskUnchanged
<1> DEFINE deps == Borrowers(task.svc)
           ids(s) == {<<s, con'[s].gen>>}
<1>1. deps \subseteq Stack /\ task.svc \in Stack BY DEF StackInv, NothingInvented, Borrowers
<1>2. PICK W \in SUBSET deps : con' = Recreated(W) /\ (~task'.warned => W = deps)
  <2>1. CASE con' = Recreated(deps) BY <2>1
  <2>2. CASE task' = [task EXCEPT !.at = "locate", !.warned = TRUE]
    <3>1. task'.warned BY <2>2 DEF StackInv, TaskShape
    <3> QED BY <2>1, <2>2, <3>1 DEF Forced
  <2> QED BY <2>1, <2>2 DEF Forced
<1>3. /\ con' \in [Stack -> [gen : Nat, ver : Versions, ref : Refs, joins : Nat]]
      /\ \A s \in Stack : con'[s].ver = IF s \in W THEN Wanted(s).ver ELSE con[s].ver
      /\ \A s \in Stack : con'[s].ver <= newest[s]
      /\ \A s \in Stack : s \in W /\ Provider[s] # Nobody => con'[s].joins = con'[Provider[s]].gen
      /\ \A s \in Stack : style[s] = "exact" /\ s \notin ahead =>
           con'[s].ref = "file"
           /\ (line[s] # con'[s].ver => snaps[s].blob[s] \in {con'[s].ver, line[s]})
  BY <1>1, <1>2, ReplacedKnown DEF Staged
<1>4. \A s \in Stack : ids(s) \in SUBSET (Stack \X Nat)
  <2> HIDE DEF StackForce
  <2>1. \A s \in Stack : con'[s].gen \in Nat BY <1>3
  <2> QED BY <2>1
<1>5. /\ task'.at = "locate" /\ task'.svc = task.svc /\ task'.type = task.type /\ task'.to = task.to
      /\ task'.ver = task.ver /\ task'.tag = task.tag /\ task'.fver = task.fver
      /\ task'.scope = task.scope /\ task'.mode = task.mode /\ task'.moved = task.moved
      /\ task'.calm = task.calm /\ (~task'.warned => ~task.warned)
  BY DEF StackInv, TaskShape
<1>6. TaskShape'
  <2>1. UNION {ids(s) : s \in deps} \in SUBSET (Stack \X Nat)
    <3> HIDE DEF ids, deps
    <3> QED BY <1>1, <1>4
  <2>2. CASE task' = [task EXCEPT !.at = "locate", !.warned = TRUE]
    BY <2>2 DEF StackInv, TaskShape, Stages
  <2>3. CASE task' = [task EXCEPT !.at = "locate", !.fresh = UNION {ids(s) : s \in deps}]
    <3> DEFINE all == UNION {ids(s) : s \in deps}
    <3> HIDE DEF all
    <3> QED BY <2>1, <2>3 DEF all, StackInv, TaskShape, Stages
  <2> QED BY <2>2, <2>3 DEF Forced
<1>7. /\ record' \in [Stack -> [ids : SUBSET (Stack \X Nat), ver : Versions, ref : Refs, tag : Versions]]
      /\ \A s \in Stack : record'[s].tag = record[s].tag /\ record'[s].ver \in {record[s].ver, con'[s].ver}
      /\ \A s \in Stack \ deps : record'[s] = record[s]
  <2> DEFINE new(s) == [record[s] EXCEPT !.ids = ids(s), !.ver = con'[s].ver]
  <2>1. CASE UNCHANGED record BY <2>1 DEF StackInv, StackShape
  <2>2. CASE record' = [s \in Stack |-> IF s \in deps THEN new(s) ELSE record[s]]
    <3>1. \A s \in Stack : /\ new(s) \in [ids : SUBSET (Stack \X Nat), ver : Versions, ref : Refs, tag : Versions]
                           /\ new(s).tag = record[s].tag /\ new(s).ver = con'[s].ver
      <4> TAKE s \in Stack
      <4>1. record[s] \in [ids : SUBSET (Stack \X Nat), ver : Versions, ref : Refs, tag : Versions]
        BY DEF StackInv, StackShape
      <4>2. con'[s].ver \in Versions BY <1>3
      <4>3. ids(s) \in SUBSET (Stack \X Nat) BY <1>4
      <4> DEFINE i == ids(s)
                 v == con'[s].ver
      <4> HIDE DEF i, v
      <4>4. new(s) = [record[s] EXCEPT !.ids = i, !.ver = v] BY DEF i, v
      <4> HIDE DEF new
      <4> QED BY <4>1, <4>2, <4>3, <4>4 DEF i, v
    <3> HIDE DEF new, deps
    <3> QED BY <2>2, <3>1 DEF StackInv, StackShape
  <2> QED BY <2>1, <2>2 DEF Forced
<1> HIDE DEF ids
<1>8. StackShape' BY <1>3, <1>7 DEF StackInv, StackShape
<1>9. NothingInvented'
  <2>1. \A s \in Stack : record'[s].ver <= newest[s] /\ record'[s].tag <= newest[s]
    BY <1>3, <1>7 DEF StackInv, NothingInvented
  <2>2. \A s \in Stack : con'[s].ver <= newest[s] BY <1>3
  <2> HIDE DEF StackForce
  <2>3. UNCHANGED <<style, newest, line, pulled, offer, snaps>> BY DEF StackForce
  <2>4. task'.svc \in Stack /\ \A v \in {task'.ver, task'.tag, task'.to, task'.fver} : v <= newest[task'.svc]
    BY <1>1, <1>5 DEF StackInv, NothingInvented, StackForce
  <2>5. NoFile' = NoFile BY DEF NoFile
  <2> QED BY <2>1, <2>2, <2>3, <2>4, <2>5 DEF StackInv, NothingInvented
<1>10. JobAtStep' BY <1>5 DEF StackInv, JobAtStep, Staged
<1>11. RollbackAims' BY <1>5 DEF StackInv, RollbackAims, Staged, NoFile
<1>12. Delivered'
  <2>1. con'[task.svc].ver = Wanted(task.svc).ver BY <1>1, <1>3 DEF StackInv, Delivered, AfterUp
  <2> QED BY <1>5, <2>1 DEF Delivered, Wanted
<1>13. Joined'
  <2> SUFFICES ASSUME ~task'.warned, NEW t \in Borrowers(task.svc)
               PROVE  con'[t].joins = con'[task.svc].gen
    BY <1>5 DEF Joined, Borrowers
  <2>1. t \in Stack /\ Provider[t] = task.svc /\ t \in W /\ Provider[t] # Nobody
    BY <1>1, <1>2, ComposeStackAssumption DEF Borrowers
  <2> QED BY <1>3, <2>1
<1>14. SiblingsPending'
  <2> SUFFICES ASSUME task.type = "apply", task.scope = "project", task.calm, ~task.warned,
                      NEW t \in task.moved \ ({task.svc} \union deps)
               PROVE  record'[t].ver # con'[t].ver
    BY <1>5 DEF SiblingsPending, Borrowers
  <2>1. t \in Stack /\ t \notin W BY <1>2 DEF StackInv, TaskShape
  <2>2. record[t].ver # con[t].ver BY DEF StackInv, SiblingsPending, AfterUp
  <2> QED BY <1>3, <1>7, <2>1, <2>2
<1>15. FileGoverns'
  <2> HIDE DEF StackForce
  <2>1. UNCHANGED <<style, line, snaps, ahead>> /\ task.at = "force" BY DEF StackForce
  <2>2. \A s \in Stack : style[s] = "exact" /\ s \notin ahead =>
          con'[s].ref = "file"
          /\ (line[s] # con'[s].ver => snaps[s].blob[s] \in {con'[s].ver, line[s]})
    BY <1>3
  <2> QED BY <1>5, <2>1, <2>2 DEF StackInv, FileGoverns, NoFile, Staged
<1>16. SiblingsRest' /\ DependentsJoined' /\ RollbackEnds' /\ AppliedRuns' BY <1>5, GoesOn
<1> QED BY <1>6, <1>8, <1>9, <1>10, <1>11, <1>12, <1>13, <1>14, <1>15, <1>16 DEF StackInv

-----------------------------------------------------------------------------
(* The rows are brought up to date.                                        *)

\* UpdateRuntime.
LEMMA RowRefreshed ==
  ASSUME StackInv, NEW s \in Stack, NEW i \in SUBSET (Stack \X Nat), NEW v \in Versions,
         record' = [record EXCEPT ![s].ids = i, ![s].ver = v]
  PROVE  /\ record' \in [Stack -> [ids : SUBSET (Stack \X Nat), ver : Versions, ref : Refs, tag : Versions]]
         /\ record'[s].ver = v /\ record'[s].tag = record[s].tag
         /\ \A t \in Stack \ {s} : record'[t] = record[t]
<1> DEFINE Row == [ids : SUBSET (Stack \X Nat), ver : Versions, ref : Refs, tag : Versions]
           r == [record[s] EXCEPT !.ids = i, !.ver = v]
<1>1. record \in [Stack -> Row] BY DEF StackInv, StackShape
<1>2. record[s] \in Row BY <1>1
<1>3. r \in Row /\ r.ver = v /\ r.tag = record[s].tag BY <1>2
<1>4. record' = [record EXCEPT ![s] = r] BY <1>1, <1>2
<1> HIDE DEF r
<1>5. /\ record' \in [Stack -> Row] /\ record'[s] = r /\ \A t \in Stack \ {s} : record'[t] = record[t]
  <2> HIDE DEF Row
  <2> QED BY <1>1, <1>3, <1>4
<1> QED BY <1>3, <1>5

\* The new ids and digest are looked up; nothing moves.
LEMMA LocateInv == ASSUME StackInv, StackLocate PROVE StackInv'
<1> USE DEF StackLocate, taskUnchanged
<1>1. CASE HealthGateFails BY <1>1, GivesUp DEF HealthGateFails, FailsApply
<1>2. CASE ~HealthGateFails
  <2>1. task.svc \in Stack /\ con[task.svc].gen \in Nat /\ con[task.svc].ver \in Versions
        /\ con[task.svc].ver <= newest[task.svc]
        /\ task.ids \in SUBSET (Stack \X Nat) /\ task.fresh \in SUBSET (Stack \X Nat)
        /\ task.to \in Versions /\ task.to <= newest[task.svc]
    BY DEF StackInv, StackShape, TaskShape, NothingInvented
  <2>2. PICK f \in SUBSET (Stack \X Nat), v \in {con[task.svc].ver, task.to}, w \in BOOLEAN :
          /\ task' = [task EXCEPT !.at = "record", !.fresh = f, !.fver = v, !.warned = w]
          /\ task.warned => w
    <3> DEFINE extra == IF task.type = "apply" THEN task.fresh ELSE {}
    <3>1. extra \in SUBSET (Stack \X Nat) BY <2>1
    <3> HIDE DEF extra
    <3>2. CASE task' = [task EXCEPT !.at = "record", !.fresh = extra \union {<<task.svc, con[task.svc].gen>>},
                                    !.fver = con[task.svc].ver]
      <4>1. extra \union {<<task.svc, con[task.svc].gen>>} \in SUBSET (Stack \X Nat) BY <2>1, <3>1
      <4>2. task.warned \in BOOLEAN BY DEF StackInv, TaskShape
      <4>3. task' = [task EXCEPT !.at = "record", !.fresh = extra \union {<<task.svc, con[task.svc].gen>>},
                                 !.fver = con[task.svc].ver, !.warned = task.warned]
        BY <3>2 DEF StackInv, TaskShape
      <4> QED BY <4>1, <4>2, <4>3
    <3>3. CASE task' = [task EXCEPT !.at = "record", !.fresh = extra \union task.ids,
                                    !.fver = task.to, !.warned = TRUE]
      <4>1. extra \union task.ids \in SUBSET (Stack \X Nat) BY <2>1, <3>1
      <4> QED BY <3>3, <4>1
    <3> QED BY <1>2, <3>2, <3>3 DEF extra
  <2>3. UNCHANGED <<offer, last>> BY <1>2
  <2> HIDE DEF StackLocate
  <2>4. UNCHANGED <<style, newest, line, pulled, con, record, snaps, ahead>> /\ task.at = "locate"
    BY DEF StackLocate
  <2>5. TaskShape' BY <2>1, <2>2 DEF StackInv, TaskShape, Stages
  <2>6. /\ task'.at = "record" /\ task'.svc = task.svc /\ task'.type = task.type /\ task'.to = task.to
        /\ task'.ver = task.ver /\ task'.tag = task.tag /\ task'.fver = v
        /\ task'.scope = task.scope /\ task'.mode = task.mode /\ task'.moved = task.moved
        /\ task'.calm = task.calm /\ (~task'.warned => ~task.warned)
    BY <2>2 DEF StackInv, TaskShape
  <2>7. StackShape' BY <2>3, <2>4 DEF StackInv, StackShape
  <2>8. NothingInvented' BY <2>1, <2>2, <2>3, <2>4, <2>6 DEF StackInv, NothingInvented, NoFile
  <2>9. JobAtStep' BY <2>4, <2>6 DEF StackInv, JobAtStep, Staged
  <2>10. RollbackAims' BY <2>4, <2>6 DEF StackInv, RollbackAims, Staged, NoFile
  <2>11. Delivered' BY <2>4, <2>6 DEF StackInv, Delivered, AfterUp, Wanted
  <2>12. Joined' BY <2>4, <2>6 DEF StackInv, Joined, Borrowers
  <2>13. SiblingsPending' BY <2>3, <2>4, <2>6 DEF StackInv, SiblingsPending, AfterUp, Borrowers
  <2>14. FileGoverns' BY <2>4, <2>6 DEF StackInv, FileGoverns, NoFile, Staged
  <2>15. SiblingsRest' /\ DependentsJoined' /\ RollbackEnds' /\ AppliedRuns' BY <2>6, GoesOn
  <2> QED BY <2>5, <2>7, <2>8, <2>9, <2>10, <2>11, <2>12, <2>13, <2>14, <2>15 DEF StackInv
<1> QED BY <1>1, <1>2

\* A job that ends with success: what was established on the way is what the
\* properties ask for.
LEMMA EndsWith ==
  ASSUME StackInv, task.at \in {"record", "siblings"}, Ends("success"),
         UNCHANGED <<style, line, con, snaps>>
  PROVE  /\ TaskShape' /\ JobAtStep' /\ RollbackAims' /\ Delivered' /\ Joined' /\ SiblingsPending'
         /\ DependentsJoined' /\ RollbackEnds' /\ AppliedRuns'
         /\ task'.at = "idle" /\ last'.moved \subseteq Stack
<1>1. /\ task' = Rest /\ last'.svc = task.svc /\ last'.type = task.type /\ last'.scope = task.scope
      /\ last'.warned = task.warned /\ last'.named = (task.tag = task.to) /\ last'.to = task.to
      /\ last'.moved = task.moved
  BY DEF Ends
<1>2. TaskShape' /\ task'.at = "idle" BY <1>1, RestShape
<1>3. JobAtStep' BY <1>2 DEF JobAtStep, Staged
<1>4. RollbackAims' /\ Joined' BY <1>2 DEF RollbackAims, Joined
<1>5. Delivered' /\ SiblingsPending' BY <1>2 DEF Delivered, SiblingsPending, AfterUp
<1>6. DependentsJoined' BY <1>1 DEF StackInv, Joined, DependentsJoined, Borrowers
<1>7. task.svc \in Stack /\ con[task.svc].ver = Wanted(task.svc).ver
  BY DEF StackInv, NothingInvented, Delivered, AfterUp
<1>8. RollbackEnds'
  <2> SUFFICES ASSUME task.type = "rollback"
               PROVE  IF snaps[task.svc].blob = NoFile THEN con[task.svc].ver = snaps[task.svc].ver
                      ELSE /\ line[task.svc] = snaps[task.svc].blob[task.svc]
                           /\ con[task.svc].ver = snaps[task.svc].blob[task.svc]
    <3>1. NoFile' = NoFile BY DEF NoFile
    <3> QED BY <1>1, <3>1 DEF RollbackEnds
  <2>1. task.to = snaps[task.svc].ver
        /\ IF snaps[task.svc].blob = NoFile THEN task.mode = "hold"
           ELSE task.mode = "plain" /\ line[task.svc] = snaps[task.svc].blob[task.svc]
    BY DEF StackInv, RollbackAims, Staged
  <2>2. CASE snaps[task.svc].blob = NoFile BY <1>7, <2>1, <2>2 DEF Wanted
  <2>3. CASE snaps[task.svc].blob # NoFile
    <3>1. style[task.svc] = "exact" BY <1>7, <2>3 DEF StackInv, NothingInvented
    <3> QED BY <1>7, <2>1, <2>3, <3>1 DEF Wanted
  <2> QED BY <2>2, <2>3
<1>9. AppliedRuns'
  <2> SUFFICES ASSUME task.type = "apply", style[task.svc] # "floating", task.tag # task.to
               PROVE  con[task.svc].ver = task.to
    BY <1>1 DEF AppliedRuns
  <2>1. /\ task.mode \in {"plain", "rewrite", "pin", "hold"} /\ task.mode # "hold" /\ task.mode # "plain"
        /\ task.mode = "rewrite" => line[task.svc] = task.to
    BY DEF StackInv, TaskShape, JobAtStep, Staged
  <2> QED BY <1>7, <2>1 DEF Wanted
<1> QED BY <1>1, <1>2, <1>3, <1>4, <1>5, <1>6, <1>8, <1>9 DEF StackInv, TaskShape

\* The row takes what was located and an applied offer is closed.
LEMMA RecordInv == ASSUME StackInv, StackRecord PROVE StackInv'
<1> USE DEF StackRecord, taskUnchanged
<1> DEFINE s == task.svc
<1>1. s \in Stack /\ task.fver \in Versions /\ task.fver <= newest[s] /\ task.fresh \in SUBSET (Stack \X Nat)
  BY DEF StackInv, TaskShape, NothingInvented
<1>2. /\ record' \in [Stack -> [ids : SUBSET (Stack \X Nat), ver : Versions, ref : Refs, tag : Versions]]
      /\ record'[s].ver \in {task.fver, record[s].ver} /\ record'[s].tag = record[s].tag
      /\ \A t \in Stack \ {s} : record'[t] = record[t]
  <2>1. CASE UNCHANGED record BY <1>1, <2>1 DEF StackInv, StackShape
  <2>2. CASE record' = [record EXCEPT ![s].ids = task.fresh, ![s].ver = task.fver]
    BY <1>1, <2>2, RowRefreshed
  <2> QED BY <2>1, <2>2
<1>3. /\ offer' \in [Stack -> Versions] /\ \A t \in Stack : offer'[t] <= newest[t]
      /\ \A t \in Stack \ {s} : offer'[t] = offer[t]
  BY OfferClosed
<1>4. \A t \in Stack : record'[t].ver <= newest[t] /\ record'[t].tag <= newest[t]
  BY <1>1, <1>2 DEF StackInv, NothingInvented
<1>5. UNCHANGED <<style, newest, line, pulled, con, snaps, ahead>> /\ task.at = "record" OBVIOUS
<1>6. CASE task.type = "apply" /\ task.scope = "project"
  <2>1. task' = [task EXCEPT !.at = "siblings", !.left = Stack \ {s}] /\ UNCHANGED last BY <1>6
  <2> HIDE DEF StackRecord
  <2>2. TaskShape' BY <2>1 DEF StackInv, TaskShape, Stages
  <2>3. /\ task'.at = "siblings" /\ task'.svc = task.svc /\ task'.type = task.type /\ task'.to = task.to
        /\ task'.ver = task.ver /\ task'.tag = task.tag /\ task'.fver = task.fver
        /\ task'.scope = task.scope /\ task'.mode = task.mode /\ task'.moved = task.moved
        /\ task'.calm = task.calm /\ task'.warned = task.warned /\ task'.left = Stack \ {s}
        /\ task'.moved \subseteq Stack
    BY <2>1 DEF StackInv, TaskShape
  <2>4. StackShape' BY <1>2, <1>3, <1>5, <2>1 DEF StackInv, StackShape
  <2>5. NothingInvented' BY <1>3, <1>4, <1>5, <2>3 DEF StackInv, NothingInvented, NoFile
  <2>6. JobAtStep' BY <1>5, <1>6, <2>3 DEF StackInv, JobAtStep, Staged
  <2>7. RollbackAims' BY <1>6, <2>3 DEF RollbackAims
  <2>8. Delivered' BY <1>5, <2>3 DEF StackInv, Delivered, AfterUp, Wanted
  <2>9. Joined' BY <1>5, <2>3 DEF StackInv, Joined, Borrowers
  <2>10. SiblingsPending'
    BY <1>2, <1>5, <2>3 DEF StackInv, SiblingsPending, AfterUp, Borrowers
  <2>11. FileGoverns' BY <1>5, <2>3 DEF StackInv, FileGoverns, NoFile, Staged
  <2>12. SiblingsRest' /\ DependentsJoined' /\ RollbackEnds' /\ AppliedRuns' BY <2>3, GoesOn
  <2> QED BY <2>2, <2>4, <2>5, <2>6, <2>7, <2>8, <2>9, <2>10, <2>11, <2>12 DEF StackInv
<1>7. CASE ~(task.type = "apply" /\ task.scope = "project")
  <2>1. Ends("success") BY <1>7
  <2> HIDE DEF StackRecord
  <2>2. /\ TaskShape' /\ JobAtStep' /\ RollbackAims' /\ Delivered' /\ Joined' /\ SiblingsPending'
        /\ DependentsJoined' /\ RollbackEnds' /\ AppliedRuns'
        /\ task'.at = "idle" /\ last'.moved \subseteq Stack
    BY <1>5, <2>1, EndsWith
  <2>3. StackShape' BY <1>2, <1>3, <1>5, <2>2 DEF StackInv, StackShape
  <2>4. NothingInvented' BY <1>3, <1>4, <1>5, <2>2 DEF StackInv, NothingInvented, NoFile
  <2>5. SiblingsRest' BY <1>7, <2>1 DEF SiblingsRest, Ends
  <2>6. FileGoverns' BY <1>5, <2>2 DEF StackInv, FileGoverns, NoFile, Staged
  <2> QED BY <2>2, <2>3, <2>4, <2>5, <2>6 DEF StackInv
<1> QED BY <1>6, <1>7

\* One sibling is looked at: its row and its offer agree with its container.
LEMMA SiblingInv == ASSUME StackInv, NEW t \in Stack, StackSibling(t) PROVE StackInv'
<1> USE DEF StackSibling, taskUnchanged
<1>1. con[t].ver \in Versions /\ con[t].ver <= newest[t] /\ con[t].gen \in Nat
  BY DEF StackInv, StackShape, NothingInvented
<1>2. UNCHANGED <<style, newest, line, pulled, con, snaps, ahead, last>>
      /\ task.at = "siblings" /\ t \in task.left
  OBVIOUS
<1>3. PICK w \in BOOLEAN : /\ task' = [task EXCEPT !.left = @ \ {t}, !.warned = w]
                           /\ task.warned => w
                           /\ ~w => con[t].ver = record'[t].ver /\ (con[t].ver # record[t].ver =>
                                      (offer'[t] # 0 => offer'[t] # con[t].ver))
  <2>1. CASE task' = [task EXCEPT !.left = @ \ {t}, !.warned = TRUE] BY <2>1
  <2>2. CASE /\ task' = [task EXCEPT !.left = @ \ {t}]
             /\ IF con[t].ver = record[t].ver THEN UNCHANGED <<record, offer>>
                ELSE /\ record' = [record EXCEPT ![t].ids = {<<t, con[t].gen>>}, ![t].ver = con[t].ver]
                     /\ offer' = [offer EXCEPT ![t] = SiblingOffer(t)]
    <3>1. task.warned \in BOOLEAN /\ task' = [task EXCEPT !.left = @ \ {t}, !.warned = task.warned]
      BY <2>2 DEF StackInv, TaskShape
    <3>2. con[t].ver = record'[t].ver
      BY <2>2 DEF StackInv, StackShape
    <3>3. con[t].ver # record[t].ver => (offer'[t] # 0 => offer'[t] # con[t].ver)
      BY <2>2 DEF StackInv, StackShape, SiblingOffer
    <3> QED BY <3>1, <3>2, <3>3
  <2> QED BY <2>1, <2>2
<1>4. /\ record' \in [Stack -> [ids : SUBSET (Stack \X Nat), ver : Versions, ref : Refs, tag : Versions]]
      /\ record'[t].ver \in {record[t].ver, con[t].ver} /\ record'[t].tag = record[t].tag
      /\ \A u \in Stack \ {t} : record'[u] = record[u]
  <2>1. CASE UNCHANGED record BY <2>1 DEF StackInv, StackShape
  <2>2. CASE record' = [record EXCEPT ![t].ids = {<<t, con[t].gen>>}, ![t].ver = con[t].ver]
    <3> HIDE DEF StackSibling
    <3> DEFINE i == {<<t, con[t].gen>>}
    <3>1. i \in SUBSET (Stack \X Nat) BY <1>1
    <3>2. record' = [record EXCEPT ![t].ids = i, ![t].ver = con[t].ver] BY <2>2
    <3> HIDE DEF i
    <3> QED BY <1>1, <3>1, <3>2, RowRefreshed
  <2> QED BY <2>1, <2>2
<1>5. /\ offer' \in [Stack -> Versions] /\ offer'[t] \in {0, offer[t]}
      /\ \A u \in Stack \ {t} : offer'[u] = offer[u]
  <2>1. SiblingOffer(t) \in Versions /\ SiblingOffer(t) \in {0, offer[t]}
    BY ComposeStackAssumption DEF StackInv, StackShape, SiblingOffer, Versions
  <2> HIDE DEF SiblingOffer
  <2>2. CASE UNCHANGED offer BY <2>2 DEF StackInv, StackShape
  <2>3. CASE offer' = [offer EXCEPT ![t] = SiblingOffer(t)] BY <2>1, <2>3 DEF StackInv, StackShape
  <2> QED BY <2>2, <2>3
<1> HIDE DEF StackSibling
<1>6. TaskShape' BY <1>3 DEF StackInv, TaskShape
<1>7. /\ task'.at = "siblings" /\ task'.svc = task.svc /\ task'.type = task.type /\ task'.to = task.to
      /\ task'.ver = task.ver /\ task'.tag = task.tag /\ task'.fver = task.fver
      /\ task'.scope = task.scope /\ task'.mode = task.mode /\ task'.moved = task.moved
      /\ task'.calm = task.calm /\ task'.warned = w /\ task'.left = task.left \ {t}
      /\ task'.moved \subseteq Stack
  BY <1>2, <1>3 DEF StackInv, TaskShape
<1>8. StackShape' BY <1>2, <1>4, <1>5 DEF StackInv, StackShape
<1>9. NothingInvented'
  <2>1. \A u \in Stack : record'[u].ver <= newest[u] /\ record'[u].tag <= newest[u]
    BY <1>1, <1>4 DEF StackInv, NothingInvented
  <2>2. \A u \in Stack : offer'[u] <= newest[u]
    BY <1>5, ComposeStackAssumption DEF StackInv, NothingInvented, StackShape, Versions
  <2> QED BY <1>2, <1>7, <2>1, <2>2 DEF StackInv, NothingInvented, NoFile
<1>10. JobAtStep' BY <1>2, <1>7 DEF StackInv, JobAtStep, Staged
<1>11. RollbackAims' BY <1>2, <1>7 DEF StackInv, JobAtStep, RollbackAims
<1>12. Delivered' BY <1>2, <1>7 DEF StackInv, Delivered, AfterUp, Wanted
<1>13. Joined' BY <1>2, <1>3, <1>7 DEF StackInv, Joined, Borrowers
<1>14. SiblingsPending'
  <2> SUFFICES ASSUME task.type = "apply", task.scope = "project", task.calm, ~w,
                      NEW u \in task.moved \ ({task.svc} \union Borrowers(task.svc))
               PROVE  IF u \notin task.left \ {t}
                      THEN record'[u].ver = con[u].ver /\ (offer'[u] # 0 => offer'[u] # con[u].ver)
                      ELSE record'[u].ver # con[u].ver
    BY <1>2, <1>7 DEF SiblingsPending, Borrowers
  <2>1. /\ u \in Stack
        /\ IF u \notin task.left
           THEN record[u].ver = con[u].ver /\ (offer[u] # 0 => offer[u] # con[u].ver)
           ELSE record[u].ver # con[u].ver
    BY <1>2, <1>3, <1>7 DEF StackInv, SiblingsPending, AfterUp
  <2>2. CASE u = t BY <1>2, <1>3, <2>1, <2>2
  <2>3. CASE u # t BY <1>4, <1>5, <2>1, <2>3
  <2> QED BY <2>2, <2>3
<1>15. FileGoverns' BY <1>2, <1>7 DEF StackInv, FileGoverns, NoFile, Staged
<1>16. SiblingsRest' /\ DependentsJoined' /\ RollbackEnds' /\ AppliedRuns' BY <1>7, GoesOn
<1> QED BY <1>6, <1>8, <1>9, <1>10, <1>11, <1>12, <1>13, <1>14, <1>15, <1>16 DEF StackInv

\* The job ends, and its properties follow from its last step.
LEMMA SucceedInv == ASSUME StackInv, StackSucceed PROVE StackInv'
<1> USE DEF StackSucceed, taskUnchanged
<1>1. /\ TaskShape' /\ JobAtStep' /\ RollbackAims' /\ Delivered' /\ Joined' /\ SiblingsPending'
      /\ DependentsJoined' /\ RollbackEnds' /\ AppliedRuns'
      /\ task'.at = "idle" /\ last'.moved \subseteq Stack
  BY EndsWith
<1>2. StackShape' BY <1>1 DEF StackInv, StackShape
<1>3. NothingInvented' BY <1>1 DEF StackInv, NothingInvented, NoFile
<1>4. SiblingsRest'
  BY DEF StackInv, SiblingsPending, SiblingsRest, Ends, AfterUp, JobAtStep, Borrowers
<1>5. FileGoverns' BY <1>1 DEF StackInv, FileGoverns, NoFile, Staged
<1> QED BY <1>1, <1>2, <1>3, <1>4, <1>5 DEF StackInv

-----------------------------------------------------------------------------
(* The theorems.                                                           *)

\* Every initial state satisfies the inductive invariant.
LEMMA StackInitInv == StackInit => StackInv
<1> SUFFICES ASSUME StackInit PROVE StackInv OBVIOUS
<1> USE ComposeStackAssumption DEF StackInit
<1>1. /\ task.at = "idle" /\ last.outcome = "none" /\ last.moved = {} BY DEF Rest, Blank
<1>2. TaskShape BY DEF TaskShape, Rest, Stages, Refs, Versions
<1>3. /\ con \in [Stack -> [gen : Nat, ver : Versions, ref : Refs, joins : Nat]]
      /\ \A s \in Stack : con[s].ver = 0 /\ con[s].ref = "file"
  BY DEF Versions, Refs
<1>4. /\ record \in [Stack -> [ids : SUBSET (Stack \X Nat), ver : Versions, ref : Refs, tag : Versions]]
      /\ \A s \in Stack : record[s].ver = 0 /\ record[s].tag = 0
  BY DEF Versions, Refs
<1>5. /\ snaps \in [Stack -> [ver : 0..None, blob : [Stack -> 0..None]]]
      /\ \A s \in Stack : snaps[s].ver = None /\ snaps[s].blob = NoFile
  BY DEF None, NoFile
<1>6. StackShape BY <1>1, <1>3, <1>4, <1>5 DEF StackShape, Versions
<1>7. NothingInvented BY <1>1, <1>3, <1>4, <1>5 DEF NothingInvented
<1>8. JobAtStep /\ RollbackAims /\ Joined BY <1>1 DEF JobAtStep, RollbackAims, Joined, Staged
<1>9. Delivered /\ SiblingsPending BY <1>1 DEF Delivered, SiblingsPending, AfterUp
<1>10. SiblingsRest /\ DependentsJoined /\ RollbackEnds /\ AppliedRuns
  BY <1>1 DEF SiblingsRest, DependentsJoined, RollbackEnds, AppliedRuns
<1>11. FileGoverns BY <1>1, <1>3, <1>5 DEF FileGoverns, Staged
<1> QED BY <1>2, <1>6, <1>7, <1>8, <1>9, <1>10, <1>11 DEF StackInv

\* So does a state that is repeated.
LEMMA StackStutter == ASSUME StackInv, UNCHANGED stackVars PROVE StackInv'
<1> USE DEF stackVars
<1>1. StackShape' /\ TaskShape' BY DEF StackInv, StackShape, TaskShape
<1>2. NothingInvented' BY DEF StackInv, NothingInvented, NoFile
<1>3. JobAtStep' /\ RollbackAims' BY DEF StackInv, JobAtStep, RollbackAims, NoFile
<1>4. Delivered' /\ Joined' BY DEF StackInv, Delivered, AfterUp, Wanted, Joined
<1>5. SiblingsPending' /\ SiblingsRest' BY DEF StackInv, SiblingsPending, SiblingsRest, AfterUp
<1>6. FileGoverns' BY DEF StackInv, FileGoverns, NoFile
<1>7. DependentsJoined' /\ RollbackEnds' /\ AppliedRuns'
  BY DEF StackInv, DependentsJoined, RollbackEnds, AppliedRuns, NoFile
<1> QED BY <1>1, <1>2, <1>3, <1>4, <1>5, <1>6, <1>7 DEF StackInv

\* Every reachable state of a project with jobs, passes, scans, failing
\* commands and crashes has the inductive invariant.
THEOREM StackInvariant == StackSpec => []StackInv
<1>1. StackInv /\ [StackNext]_stackVars => StackInv'
  <2> SUFFICES ASSUME StackInv, [StackNext]_stackVars PROVE StackInv' OBVIOUS
  <2>1. CASE UNCHANGED stackVars BY <2>1, StackStutter
  <2>2. ASSUME NEW s \in Stack, Release(s) \/ StackScan(s) \/ StackSibling(s) PROVE StackInv'
    BY <2>2, ReleaseInv, ScanInv, SiblingInv
  <2>3. CASE StackPass BY <2>3, PassInv
  <2>4. ASSUME NEW s \in Stack, NEW type \in {"apply", "rollback"}, NEW scope \in {"service", "project"},
               StackRequest(s, type, scope)
        PROVE  StackInv'
    BY <2>4, RequestInv
  <2>5. CASE StackLoad BY <2>5, LoadInv
  <2>6. CASE StackPlan BY <2>6, PlanInv
  <2>7. CASE StackStage BY <2>7, StageInv
  <2>8. CASE StackRestore BY <2>8, RestoreInv
  <2>9. CASE StackPull BY <2>9, PullInv
  <2>10. CASE StackUp BY <2>10, UpInv
  <2>11. CASE StackForce BY <2>11, ForceInv
  <2>12. CASE StackLocate BY <2>12, LocateInv
  <2>13. CASE StackRecord BY <2>13, RecordInv
  <2>14. CASE StackSucceed BY <2>14, SucceedInv
  <2>15. CASE StackCrash BY <2>15, CrashInv
  <2> QED BY <2>1, <2>2, <2>3, <2>4, <2>5, <2>6, <2>7, <2>8, <2>9, <2>10, <2>11, <2>12, <2>13,
             <2>14, <2>15 DEF StackNext
<1> QED BY <1>1, StackInitInv, PTL DEF StackSpec

\* The file, the images, the containers, the rows and the job keep their
\* types, and nothing runs, is recorded or offered that was never released.
THEOREM StackTypeCorrect == StackSpec => []StackTypeOK
<1>1. StackInv => StackTypeOK
  BY DEF StackInv, StackShape, TaskShape, NothingInvented, StackTypeOK, Refs
<1> QED BY <1>1, StackInvariant, PTL

\* Wherever the rewritten file and the container it governs differ, the newest
\* snapshot leads back, whatever failed or crashed on the way (runApply's
\* order of snapshot, rewrite, pull and up).
THEOREM FileCanBeUndone == StackSpec => []FileUndoable
<1>1. StackInv => FileUndoable BY DEF StackInv, FileGoverns, FileUndoable
<1> QED BY <1>1, StackInvariant, PTL

\* A job that succeeded without a warning leaves no service in a namespace
\* that is gone (forceRecreateNamespaceDependents).
THEOREM BorrowersFollow == StackSpec => []DependentsJoined
<1>1. StackInv => DependentsJoined BY DEF StackInv
<1> QED BY <1>1, StackInvariant, PTL

\* A successful rollback ends at the version of the newest snapshot, unless the
\* file in it named another one when it was taken (runRollback).
THEOREM RollbackReachesSnapshot == StackSpec => []RollbackReturns
<1>1. StackInv => RollbackReturns BY DEF StackInv, RollbackEnds, RollbackReturns
<1> QED BY <1>1, StackInvariant, PTL

\* A successful apply of an exact version ends with that version running, by
\* either of the ways runApply has for it, unless image_ref named the version
\* already when the job loaded the row.
THEOREM AppliedVersionRuns == StackSpec => []AppliedRuns
<1>1. StackInv => AppliedRuns BY DEF StackInv
<1> QED BY <1>1, StackInvariant, PTL

\* A project-scope apply that succeeded without a warning closes the updates
\* its own up delivered to siblings (the loop at the end of runApply), and no
\* later scan opens them again.  Siblings that were forced as namespace
\* dependents, and jobs a pass, a scan or a crash came into, are excepted.
THEOREM SiblingUpdatesClose == StackSpec => []SiblingsClosed
<1>1. StackInv => SiblingsClosed BY DEF StackInv, SiblingsRest, SiblingsClosed
<1> QED BY <1>1, StackInvariant, PTL
===============================================================================
