------------------------ MODULE StandaloneApplierProofs ------------------------
(***************************************************************************)
(* Proofs about StandaloneApplier, for any number of jobs, refused calls   *)
(* and crashes.                                                            *)
(*                                                                         *)
(* The handler keeps no record of how far it got.  StandaloneInv says what *)
(* containers exist, under which names, at each of its steps, whichever    *)
(* leftovers it started from, and so what its undo finds.                  *)
(***************************************************************************)
EXTENDS StandaloneApplier, TLAPS

JobShape ==
  soloJob \in [at : Steps, kind : Kinds, cur : Ids \union {NoId}, from : Images \union {"none"},
           new : Ids \union {NoId}, img : Images \union {"none"},
           done : {"none", "refused", "failed", "success"}]

HostShape ==
  /\ box \in [Ids -> Boxes]
  /\ nextBox \in Nat /\ nextBox > 0
  /\ svc \in [id : Ids, img : Images]
  /\ snap \in Images \union {"none"}
  /\ pending \in [Kinds -> Nat]
  /\ seen \in {NoSight} \union [id : Ids, img : Images]
  /\ botched \in BOOLEAN /\ torn \in BOOLEAN
  /\ soloSpent \in [{"jobs", "faults", "crashes"} -> Nat]

\* A name belongs to one container, and ids are not used twice.
NamesUnique ==
  \A i, j \in Ids : box[i].name = box[j].name /\ box[i].name # "none" => i = j
IdsFresh == \A i \in Ids : i >= nextBox => box[i] = Gone

\* There is an id for every container that the jobs still to run may create.
BeforeCreate == {"check", "snapshot", "pull", "clearAside", "clearMain", "stop", "rename", "create"}
IdsSuffice ==
  /\ soloSpent["jobs"] <= MaxJobs /\ soloSpent["crashes"] <= MaxSoloCrashes
  /\ nextBox + pending["apply"] + pending["rollback"] + (IF soloJob.at \in BeforeCreate THEN 1 ELSE 0)
       <= 2 + soloSpent["jobs"] + soloSpent["crashes"]

MainFree == \A i \in Ids : box[i].name # "main"
MainOnlyOf(c) == \A i \in Ids : box[i].name = "main" => i = c
SetAside(c) == c \in Ids /\ box[c].name = "aside" /\ box[c].state = "stopped"
Successor(s) == soloJob.new \in Ids /\ box[soloJob.new].name = "main" /\ box[soloJob.new].state = s

\* What the job works with at each of its steps.
JobKnows ==
  /\ soloJob.at # "idle" => soloJob.cur \in Ids /\ soloJob.img \in Images /\ soloJob.from \in Images
  /\ soloJob.at \in BeforeCreate => soloJob.new = NoId
  /\ soloJob.at = "rename" => box[soloJob.cur].state = "stopped"
  /\ soloJob.at \in {"create", "start", "health", "drop"} => SetAside(soloJob.cur)
  /\ soloJob.at = "start" => Successor("stopped")
  /\ soloJob.at \in {"health", "drop", "runtime"} => Successor("running")
  /\ soloJob.at = "dispose" /\ soloJob.new # NoId =>
       SetAside(soloJob.cur) /\ soloJob.new \in Ids /\ box[soloJob.new].name = "main"

\* Unless something was botched, the container to go back to is there and the
\* service's name is free for it when the undo comes to rename and start it.
CanGoBack ==
  ~botched =>
    /\ soloJob.at \in {"snapshot", "pull", "clearAside", "clearMain", "stop", "rename", "create", "start",
                   "health", "dispose", "back", "revive"} => Exists(soloJob.cur)
    /\ soloJob.at \in {"stop", "rename", "back"} => MainOnlyOf(soloJob.cur)
    /\ soloJob.at = "create" => MainFree
    /\ soloJob.at = "dispose" /\ soloJob.new = NoId => MainOnlyOf(soloJob.cur)
    /\ soloJob.at = "revive" => box[soloJob.cur].name = "main"

\* Outside a recreate, and while a new one only prepares, the service's name
\* is served.
Served ==
  ~botched /\ ~torn /\ soloJob.at \in {"idle", "check", "snapshot", "pull", "clearAside", "clearMain"} =>
    \E i \in Ids : box[i].name = "main" /\ box[i].state = "running"

\* A failed job has put its container back, whatever happened before.
PutBack ==
  ~botched /\ soloJob.at = "idle" /\ soloJob.done = "failed" =>
    soloJob.cur \in Ids /\ box[soloJob.cur].name = "main" /\ box[soloJob.cur].state = "running"

\* Without a crash every container but the one on trial has been healthy.
OnTrial == {"start", "health", "dispose"}
AllProven ==
  /\ torn => soloSpent["crashes"] > 0
  /\ ~botched /\ soloSpent["crashes"] = 0 =>
       \A i \in Ids : box[i] # Gone => i \in good \/ (i = soloJob.new /\ soloJob.at \in OnTrial)
  /\ soloJob.at \in {"drop", "runtime"} => soloJob.new \in good

StandaloneInv ==
  /\ JobShape /\ HostShape /\ NamesUnique /\ IdsFresh /\ IdsSuffice
  /\ JobKnows /\ CanGoBack /\ Served /\ PutBack /\ AllProven

-----------------------------------------------------------------------------
(* Docker.                                                                 *)

\* A container that exists has a name, a state and an image.
LEMMA BoxFacts ==
  ASSUME box \in [Ids -> Boxes], NEW i \in Ids
  PROVE  /\ box[i] = Gone <=> box[i].name = "none"
         /\ box[i] # Gone => /\ box[i] \in [name : Names, state : {"running", "stopped"}, img : Images]
                             /\ box[i].name \in Names /\ box[i].state \in {"running", "stopped"}
                             /\ box[i].img \in Images
BY DEF Boxes, Gone, Names, Images

\* Who holds a name, without the CHOOSE.
LEMMA HolderFacts ==
  ASSUME NEW n
  PROVE  /\ Holder(n) = NoId <=> \A i \in Ids : box[i].name # n
         /\ Holder(n) # NoId => Holder(n) \in Ids /\ box[Holder(n)].name = n
<1>1. NoId \notin Ids BY StandaloneAssumption DEF Ids, NoId
<1>2. CASE \E i \in Ids : box[i].name = n
  <2>1. Holder(n) \in Ids /\ box[Holder(n)].name = n BY <1>2 DEF Holder
  <2> QED BY <1>1, <1>2, <2>1
<1>3. CASE ~\E i \in Ids : box[i].name = n BY <1>3 DEF Holder
<1> QED BY <1>2, <1>3

\* Holder finds the one container with a name.
LEMMA HolderIs ==
  ASSUME NamesUnique, NEW n, n # "none", NEW i \in Ids, box[i].name = n
  PROVE  Holder(n) = i
<1>1. Holder(n) \in Ids /\ box[Holder(n)].name = n BY HolderFacts
<1> QED BY <1>1 DEF NamesUnique

\* One container is stopped or started, renamed, or removed.
LEMMA SetState ==
  ASSUME box \in [Ids -> Boxes], NEW i \in Ids, box[i] # Gone, NEW s \in {"running", "stopped"},
         box' = [box EXCEPT ![i].state = s]
  PROVE  /\ box' \in [Ids -> Boxes]
         /\ box'[i].name = box[i].name /\ box'[i].state = s /\ box'[i] # Gone
         /\ \A j \in Ids \ {i} : box'[j] = box[j]
<1> DEFINE r == [box[i] EXCEPT !.state = s]
<1>1. r \in [name : Names, state : {"running", "stopped"}, img : Images] BY BoxFacts
<1>2. r.name = box[i].name /\ r.state = s BY BoxFacts
<1>3. r \in Boxes /\ r # Gone BY <1>1 DEF Boxes, Gone, Names
<1>4. box' = [box EXCEPT ![i] = r] OBVIOUS
<1> HIDE DEF r
<1> QED BY <1>2, <1>3, <1>4

\* A rename changes the name of one container and nothing else.
LEMMA SetName ==
  ASSUME box \in [Ids -> Boxes], NEW i \in Ids, box[i] # Gone, NEW n \in Names,
         box' = [box EXCEPT ![i].name = n]
  PROVE  /\ box' \in [Ids -> Boxes]
         /\ box'[i].name = n /\ box'[i].state = box[i].state /\ box'[i] # Gone
         /\ \A j \in Ids \ {i} : box'[j] = box[j]
<1> DEFINE r == [box[i] EXCEPT !.name = n]
<1>1. r \in [name : Names, state : {"running", "stopped"}, img : Images] BY BoxFacts
<1>2. r.name = n /\ r.state = box[i].state BY BoxFacts
<1>3. r \in Boxes /\ r # Gone BY <1>1 DEF Boxes, Gone, Names
<1>4. box' = [box EXCEPT ![i] = r] OBVIOUS
<1> HIDE DEF r
<1> QED BY <1>2, <1>3, <1>4

\* A removal takes one container away, its name with it.
LEMMA SetGone ==
  ASSUME box \in [Ids -> Boxes], NEW i \in Ids, box' = [box EXCEPT ![i] = Gone]
  PROVE  /\ box' \in [Ids -> Boxes]
         /\ box'[i] = Gone /\ box'[i].name = "none"
         /\ \A j \in Ids \ {i} : box'[j] = box[j]
BY DEF Boxes, Gone

\* No container gets a name, and none appears.
LEMMA NoNewNames ==
  ASSUME NamesUnique, IdsFresh, nextBox' = nextBox,
         \A j \in Ids : box'[j].name \in {box[j].name, "none"} /\ (box[j] = Gone => box'[j] = Gone)
  PROVE  NamesUnique' /\ IdsFresh'
<1>1. NamesUnique' BY DEF NamesUnique
<1>2. IdsFresh' BY DEF IdsFresh
<1> QED BY <1>1, <1>2

-----------------------------------------------------------------------------
(* The handler's bookkeeping.                                              *)

\* What moving on to a step changes of the job.
LEMMA GotoFacts ==
  ASSUME JobShape, NEW s \in Steps, Goto(s)
  PROVE  /\ JobShape'
         /\ soloJob'.at = s /\ soloJob'.kind = soloJob.kind /\ soloJob'.cur = soloJob.cur /\ soloJob'.from = soloJob.from
         /\ soloJob'.new = soloJob.new /\ soloJob'.img = soloJob.img /\ soloJob'.done = soloJob.done
BY DEF JobShape, Goto

\* What ending the job leaves of it.
LEMMA QuitFacts ==
  ASSUME JobShape, NEW o \in {"refused", "failed", "success"}, SoloQuit(o)
  PROVE  JobShape' /\ soloJob'.at = "idle" /\ soloJob'.cur = soloJob.cur /\ soloJob'.done = o
BY DEF JobShape, SoloQuit, NoJob, Steps, Kinds

\* A step that spends at most a refusal and does not go back before the create.
LEMMA Bookkeeping ==
  ASSUME HostShape, IdsSuffice, Fault \/ NoFault,
         nextBox' = nextBox, UNCHANGED <<pending, seen>>, svc' \in [id : Ids, img : Images],
         box' \in [Ids -> Boxes], snap' \in Images \union {"none"},
         botched' \in BOOLEAN, torn' \in BOOLEAN,
         soloJob'.at \in BeforeCreate => soloJob.at \in BeforeCreate
  PROVE  HostShape' /\ IdsSuffice' /\ soloSpent'["crashes"] = soloSpent["crashes"]
<1>1. /\ soloSpent' \in [{"jobs", "faults", "crashes"} -> Nat]
      /\ soloSpent'["jobs"] = soloSpent["jobs"] /\ soloSpent'["crashes"] = soloSpent["crashes"]
  BY DEF HostShape, Fault, NoFault, SoloSpend
<1>2. HostShape' BY <1>1 DEF HostShape
<1> DEFINE x == IF soloJob.at \in BeforeCreate THEN 1 ELSE 0
           y == IF soloJob'.at \in BeforeCreate THEN 1 ELSE 0
<1>3. x \in Nat /\ y \in Nat /\ y <= x OBVIOUS
<1>4. nextBox + pending["apply"] + pending["rollback"] + x <= 2 + soloSpent["jobs"] + soloSpent["crashes"]
  BY DEF IdsSuffice
<1>5. pending["apply"] \in Nat /\ pending["rollback"] \in Nat /\ nextBox \in Nat
      /\ soloSpent["jobs"] \in Nat /\ soloSpent["crashes"] \in Nat
  BY DEF HostShape, Kinds
<1> HIDE DEF x
<1>6. nextBox' + pending'["apply"] + pending'["rollback"] + y <= 2 + soloSpent'["jobs"] + soloSpent'["crashes"]
  <2> HIDE DEF y
  <2> QED BY <1>1, <1>3, <1>4, <1>5
<1>7. IdsSuffice' BY <1>1, <1>6 DEF IdsSuffice
<1> QED BY <1>1, <1>2, <1>7
-----------------------------------------------------------------------------
(* The steps around the handler.                                           *)

\* What depends on containers, the handler and its history only.
LEMMA HostStill ==
  ASSUME StandaloneInv, UNCHANGED <<box, nextBox, soloJob, botched, good, torn>>,
         soloSpent'["crashes"] = soloSpent["crashes"]
  PROVE  JobShape' /\ NamesUnique' /\ IdsFresh' /\ JobKnows' /\ CanGoBack' /\ Served' /\ PutBack' /\ AllProven'
<1> USE DEF StandaloneInv
<1>1. JobShape' /\ NamesUnique' /\ IdsFresh' BY DEF JobShape, NamesUnique, IdsFresh
<1>2. JobKnows' BY DEF JobKnows, SetAside, Successor
<1>3. CanGoBack' BY DEF CanGoBack, Exists, MainOnlyOf, MainFree
<1>4. Served' /\ PutBack' BY DEF Served, PutBack
<1>5. AllProven' BY DEF AllProven
<1> QED BY <1>1, <1>2, <1>3, <1>4, <1>5

\* A request, or a pass of the reconcile loop, beside the handler.
LEMMA AroundInv ==
  ASSUME StandaloneInv, (\E k \in Kinds : Request(k)) \/ SoloCollect \/ SoloWrite
  PROVE  StandaloneInv'
<1> USE StandaloneAssumption
<1>1. ASSUME NEW k \in Kinds, Request(k) PROVE StandaloneInv'
  <2> USE <1>1 DEF Request, dockerVars, historyVars
  <2>1. HostShape /\ IdsSuffice BY DEF StandaloneInv
  <2>2. /\ soloSpent' \in [{"jobs", "faults", "crashes"} -> Nat] /\ soloSpent["jobs"] < MaxJobs
        /\ soloSpent'["jobs"] = soloSpent["jobs"] + 1 /\ soloSpent'["crashes"] = soloSpent["crashes"]
    BY <2>1 DEF HostShape, SoloSpend
  <2>3. /\ pending' \in [Kinds -> Nat]
        /\ pending'["apply"] + pending'["rollback"] = pending["apply"] + pending["rollback"] + 1
    BY <2>1 DEF HostShape, Kinds
  <2>4. HostShape' BY <2>1, <2>2, <2>3 DEF HostShape
  <2>5. IdsSuffice'
    <3> DEFINE x == IF soloJob.at \in BeforeCreate THEN 1 ELSE 0
    <3>1. x \in Nat OBVIOUS
    <3>2. nextBox + pending["apply"] + pending["rollback"] + x <= 2 + soloSpent["jobs"] + soloSpent["crashes"]
      BY <2>1 DEF IdsSuffice
    <3>3. pending["apply"] \in Nat /\ pending["rollback"] \in Nat /\ nextBox \in Nat
          /\ pending'["apply"] \in Nat /\ pending'["rollback"] \in Nat
          /\ soloSpent["jobs"] \in Nat /\ soloSpent["crashes"] \in Nat
      BY <2>1, <2>3 DEF HostShape, Kinds
    <3> HIDE DEF x
    <3>4. nextBox + pending'["apply"] + pending'["rollback"] + x <= 2 + soloSpent'["jobs"] + soloSpent'["crashes"]
      BY <2>2, <2>3, <3>1, <3>2, <3>3
    <3>5. soloSpent'["jobs"] <= MaxJobs BY <2>2, <3>3
    <3> QED BY <2>1, <2>2, <3>4, <3>5 DEF IdsSuffice, x
  <2> QED BY <2>2, <2>4, <2>5, HostStill DEF StandaloneInv
<1>2. CASE SoloCollect
  <2> USE <1>2 DEF SoloCollect, dockerVars, historyVars
  <2>1. HostShape /\ IdsSuffice BY DEF StandaloneInv
  <2> DEFINE i == Holder("main")
  <2>2. i \in Ids /\ box[i].name = "main" BY HolderFacts
  <2>3. box[i].img \in Images BY <2>1, <2>2, BoxFacts DEF HostShape
  <2> HIDE DEF i
  <2>4. seen' \in [id : Ids, img : Images] BY <2>2, <2>3 DEF i
  <2>5. HostShape' BY <2>1, <2>4 DEF HostShape
  <2>6. IdsSuffice' BY <2>1 DEF IdsSuffice
  <2> QED BY <2>5, <2>6, HostStill DEF StandaloneInv
<1>3. CASE SoloWrite
  <2> USE <1>3 DEF SoloWrite, dockerVars, historyVars
  <2>1. HostShape /\ IdsSuffice BY DEF StandaloneInv
  <2>2. HostShape' BY <2>1 DEF HostShape
  <2>3. IdsSuffice' BY <2>1 DEF IdsSuffice
  <2> QED BY <2>2, <2>3, HostStill DEF StandaloneInv
<1> QED BY <1>1, <1>2, <1>3

\* A crash leaves the containers as they are; the job is queued again and the
\* id it may still need is paid for by the crash.
LEMMA CrashInv == ASSUME StandaloneInv, Crash PROVE StandaloneInv'
<1> USE StandaloneAssumption DEF Crash, dockerVars
<1>1. /\ JobShape' /\ soloJob'.at = "idle" /\ soloJob'.done = "none"
  BY DEF JobShape, NoJob, Steps, Kinds
<1>2. JobShape /\ HostShape /\ IdsSuffice BY DEF StandaloneInv
<1>3. /\ soloSpent' \in [{"jobs", "faults", "crashes"} -> Nat] /\ soloSpent["crashes"] < MaxSoloCrashes
      /\ soloSpent'["crashes"] = soloSpent["crashes"] + 1 /\ soloSpent'["jobs"] = soloSpent["jobs"]
  BY <1>2 DEF HostShape, SoloSpend
<1>4. soloJob.kind \in Kinds BY <1>2 DEF JobShape
<1>5. /\ pending' \in [Kinds -> Nat]
      /\ pending'["apply"] + pending'["rollback"] <= pending["apply"] + pending["rollback"] + 1
  <2>1. CASE UNCHANGED pending
    <3>1. pending \in [Kinds -> Nat] /\ pending' = pending BY <1>2, <2>1 DEF HostShape
    <3>2. pending["apply"] \in Nat /\ pending["rollback"] \in Nat BY <3>1 DEF Kinds
    <3>3. pending["apply"] + pending["rollback"] <= pending["apply"] + pending["rollback"] + 1 BY <3>2
    <3> QED BY <3>1, <3>3
  <2>2. CASE pending' = [pending EXCEPT ![soloJob.kind] = @ + 1] BY <1>2, <1>4, <2>2 DEF HostShape, Kinds
  <2> QED BY <2>1, <2>2
<1>6. (torn \/ Recreating) \in BOOLEAN OBVIOUS
<1>7. HostShape' BY <1>2, <1>3, <1>5, <1>6 DEF HostShape
<1>8. IdsSuffice'
  <2> DEFINE x == IF soloJob.at \in BeforeCreate THEN 1 ELSE 0
  <2>1. x \in Nat OBVIOUS
  <2>2. nextBox + pending["apply"] + pending["rollback"] + x <= 2 + soloSpent["jobs"] + soloSpent["crashes"]
    BY <1>2 DEF IdsSuffice
  <2>3. pending["apply"] \in Nat /\ pending["rollback"] \in Nat /\ nextBox \in Nat
        /\ pending'["apply"] \in Nat /\ pending'["rollback"] \in Nat
        /\ soloSpent["jobs"] \in Nat /\ soloSpent["crashes"] \in Nat
    BY <1>2, <1>5 DEF HostShape, Kinds
  <2> HIDE DEF x
  <2>4. nextBox + pending'["apply"] + pending'["rollback"] + 0 <= 2 + soloSpent'["jobs"] + soloSpent'["crashes"]
    BY <1>3, <1>5, <2>1, <2>2, <2>3
  <2>5. soloSpent'["crashes"] <= MaxSoloCrashes BY <1>3, <2>3
  <2> QED BY <1>1, <1>2, <1>3, <2>4, <2>5 DEF IdsSuffice, BeforeCreate
<1>9. NamesUnique' /\ IdsFresh' BY DEF StandaloneInv, NamesUnique, IdsFresh
<1>10. JobKnows' /\ CanGoBack' /\ PutBack' BY <1>1 DEF JobKnows, CanGoBack, PutBack, BeforeCreate
<1>11. Served'
  <2>1. soloJob.at \in Steps BY <1>2 DEF JobShape
  <2>2. ~Recreating =>
          soloJob.at \in {"idle", "check", "snapshot", "pull", "clearAside", "clearMain", "drop", "runtime"}
    BY <2>1 DEF Recreating, Steps
  <2>3. soloJob.at \in {"drop", "runtime"} => \E i \in Ids : box[i].name = "main" /\ box[i].state = "running"
    BY DEF StandaloneInv, JobKnows, Successor
  <2> QED BY <2>2, <2>3 DEF StandaloneInv, Served
<1>12. AllProven'
  <2>1. soloSpent'["crashes"] > 0 BY <1>2, <1>3 DEF HostShape
  <2>2. soloSpent'["crashes"] # 0 BY <1>2, <1>3 DEF HostShape
  <2> QED BY <1>1, <2>1, <2>2 DEF AllProven
<1> QED BY <1>1, <1>7, <1>8, <1>9, <1>10, <1>11, <1>12 DEF StandaloneInv
-----------------------------------------------------------------------------
(* Before the recreate: nothing is touched.                                *)

\* The handler reads the row and starts with no successor.
LEMMA LoadInv == ASSUME StandaloneInv, NEW k \in Kinds, Load(k) PROVE StandaloneInv'
<1> USE DEF Load, dockerVars
<1>1. HostShape /\ IdsSuffice /\ soloJob.at = "idle" BY DEF StandaloneInv
<1> DEFINE bad == botched \/ (k = "rollback" /\ ~Exists(svc.id))
<1>2. bad \in BOOLEAN /\ botched' = bad OBVIOUS
<1>3. ~botched' => ~botched /\ (k = "rollback" => Exists(svc.id)) BY <1>2
<1>4. pending[k] \in Nat /\ pending' \in [Kinds -> Nat]
      /\ pending'["apply"] + pending'["rollback"] + 1 = pending["apply"] + pending["rollback"]
  BY <1>1 DEF HostShape, Kinds
<1>5. HostShape' BY <1>1, <1>2, <1>4 DEF HostShape
<1>6. NamesUnique' /\ IdsFresh' BY DEF StandaloneInv, NamesUnique, IdsFresh
<1>7. IdsSuffice'
  <2> DEFINE y == IF soloJob'.at \in BeforeCreate THEN 1 ELSE 0
  <2>1. y \in Nat /\ y <= 1 OBVIOUS
  <2>2. nextBox + pending["apply"] + pending["rollback"] + 0 <= 2 + soloSpent["jobs"] + soloSpent["crashes"]
    BY <1>1 DEF IdsSuffice, BeforeCreate
  <2>3. pending["apply"] \in Nat /\ pending["rollback"] \in Nat /\ nextBox \in Nat
        /\ pending'["apply"] \in Nat /\ pending'["rollback"] \in Nat
        /\ soloSpent["jobs"] \in Nat /\ soloSpent["crashes"] \in Nat
    BY <1>1, <1>4 DEF HostShape, Kinds
  <2> HIDE DEF y
  <2>4. nextBox + pending'["apply"] + pending'["rollback"] + y <= 2 + soloSpent["jobs"] + soloSpent["crashes"]
    BY <1>4, <2>1, <2>2, <2>3
  <2> QED BY <1>1, <2>4 DEF IdsSuffice, y
<1>8. \A i \in Ids : ~botched /\ soloSpent["crashes"] = 0 /\ box[i] # Gone => i \in good
  BY <1>1 DEF StandaloneInv, AllProven, OnTrial
<1>9. torn => soloSpent["crashes"] > 0 BY DEF StandaloneInv, AllProven
<1>10. ~botched /\ ~torn => \E i \in Ids : box[i].name = "main" /\ box[i].state = "running"
  BY <1>1 DEF StandaloneInv, Served
<1>11. CASE k = "rollback" /\ snap = "none"
  <2>1. JobShape' /\ soloJob'.at = "idle" /\ soloJob'.done = "refused"
    BY <1>11 DEF JobShape, NoJob, Steps, Kinds
  <2>2. JobKnows' /\ CanGoBack' /\ PutBack' BY <2>1 DEF JobKnows, CanGoBack, PutBack, BeforeCreate
  <2>3. Served' BY <1>3, <1>10 DEF Served
  <2>4. AllProven' BY <1>3, <1>8, <1>9, <2>1 DEF AllProven
  <2> QED BY <1>5, <1>6, <1>7, <2>1, <2>2, <2>3, <2>4 DEF StandaloneInv
<1>12. CASE ~(k = "rollback" /\ snap = "none")
  <2> DEFINE at == IF k = "apply" THEN "check" ELSE "pull"
             img == IF k = "apply" THEN "target" ELSE snap
  <2>1. at \in {"check", "pull"} /\ (at = "pull" => k = "rollback") BY DEF Kinds
  <2>2. img \in Images BY <1>1, <1>12 DEF HostShape, Images, Kinds
  <2>3. soloJob' = [NoJob EXCEPT !.at = at, !.kind = k, !.cur = svc.id, !.from = svc.img, !.img = img]
    BY <1>12
  <2>4. svc.id \in Ids /\ svc.img \in Images BY <1>1 DEF HostShape
  <2> HIDE DEF at, img
  <2>5. JobShape' BY <2>1, <2>2, <2>3, <2>4 DEF JobShape, NoJob, Steps
  <2>6. /\ soloJob'.at = at /\ soloJob'.cur = svc.id /\ soloJob'.from = svc.img /\ soloJob'.new = NoId
        /\ soloJob'.img = img
    BY <2>3 DEF NoJob
  <2>7. JobKnows' BY <2>1, <2>2, <2>4, <2>6 DEF JobKnows
  <2>8. Exists(svc.id)' <=> Exists(svc.id) BY DEF Exists
  <2>9. CanGoBack'
    <3>1. soloJob'.at = "pull" /\ ~botched' => Exists(soloJob.cur)' BY <1>3, <2>1, <2>6 DEF Exists
    <3> QED BY <2>1, <2>6, <3>1 DEF CanGoBack
  <2>10. Served' /\ PutBack' BY <1>3, <1>10, <2>1, <2>6 DEF Served, PutBack
  <2>11. AllProven' BY <1>3, <1>8, <1>9, <2>1, <2>6 DEF AllProven
  <2> QED BY <1>5, <1>6, <1>7, <2>5, <2>7, <2>9, <2>10, <2>11 DEF StandaloneInv
<1> QED BY <1>11, <1>12

\* The job fails before it has touched anything, or goes on.
LEMMA PrepareInv ==
  ASSUME StandaloneInv, Check \/ Snapshot \/ Pull
  PROVE  StandaloneInv'
<1> USE DEF dockerVars, soloUnchanged, historyVars
<1>1. HostShape /\ IdsSuffice /\ JobShape /\ JobKnows BY DEF StandaloneInv
<1>2. /\ soloJob.at \in {"check", "snapshot", "pull"}
      /\ Fault \/ NoFault
      /\ UNCHANGED <<box, nextBox, svc, pending, seen, botched, good, torn>>
      /\ snap' \in Images \union {"none"}
  BY <1>1 DEF Check, Snapshot, Pull, NoFault, HostShape, JobKnows
<1>3. NamesUnique' /\ IdsFresh' BY <1>2 DEF StandaloneInv, NamesUnique, IdsFresh
<1>4. \A i \in Ids : ~botched /\ soloSpent["crashes"] = 0 /\ box[i] # Gone => i \in good
  BY <1>2 DEF StandaloneInv, AllProven, OnTrial
<1>5. torn => soloSpent["crashes"] > 0 BY DEF StandaloneInv, AllProven
<1>6. ~botched /\ ~torn => \E i \in Ids : box[i].name = "main" /\ box[i].state = "running"
  BY <1>2 DEF StandaloneInv, Served
<1>7. CASE SoloQuit("refused")
  <2>1. JobShape' /\ soloJob'.at = "idle" /\ soloJob'.done = "refused" BY <1>1, <1>7, QuitFacts
  <2>2. HostShape' /\ IdsSuffice' /\ soloSpent'["crashes"] = soloSpent["crashes"]
    BY <1>1, <1>2, <2>1, Bookkeeping DEF HostShape, BeforeCreate
  <2>3. JobKnows' /\ CanGoBack' /\ PutBack' BY <2>1 DEF JobKnows, CanGoBack, PutBack, BeforeCreate
  <2>4. Served' BY <1>2, <1>6 DEF Served
  <2>5. AllProven' BY <1>2, <1>4, <1>5, <2>1, <2>2 DEF AllProven
  <2> QED BY <1>3, <2>1, <2>2, <2>3, <2>4, <2>5 DEF StandaloneInv
<1>8. ASSUME NEW s \in {"snapshot", "pull", "clearAside"}, Goto(s), Exists(soloJob.cur) \/ botched
      PROVE  StandaloneInv'
  <2>1. s \in Steps BY DEF Steps
  <2>2. /\ JobShape'
        /\ soloJob'.at = s /\ soloJob'.kind = soloJob.kind /\ soloJob'.cur = soloJob.cur /\ soloJob'.from = soloJob.from
        /\ soloJob'.new = soloJob.new /\ soloJob'.img = soloJob.img /\ soloJob'.done = soloJob.done
    BY <1>1, <1>8, <2>1, GotoFacts
  <2>3. HostShape' /\ IdsSuffice' /\ soloSpent'["crashes"] = soloSpent["crashes"]
    BY <1>1, <1>2, <2>2, Bookkeeping DEF HostShape, BeforeCreate
  <2>4. JobKnows' BY <1>1, <1>2, <2>2 DEF JobKnows, BeforeCreate
  <2>5. CanGoBack' BY <1>2, <1>8, <2>2 DEF CanGoBack, Exists
  <2>6. Served' /\ PutBack' BY <1>2, <1>6, <2>2 DEF Served, PutBack
  <2>7. AllProven' BY <1>2, <1>4, <1>5, <2>2, <2>3 DEF AllProven
  <2> QED BY <1>3, <2>2, <2>3, <2>4, <2>5, <2>6, <2>7 DEF StandaloneInv
<1>9. soloJob.at # "check" => Exists(soloJob.cur) \/ botched BY <1>2 DEF StandaloneInv, CanGoBack
<1> QED BY <1>7, <1>8, <1>9 DEF Check, Snapshot, Pull
-----------------------------------------------------------------------------
(* The recreate.                                                           *)

\* The steps below leave the rows alone and are told of refusals.
LEMMA GoOn ==
  ASSUME StandaloneInv, Fault \/ NoFault, nextBox' = nextBox, UNCHANGED <<soloUnchanged, torn>>,
         box' \in [Ids -> Boxes], botched' \in BOOLEAN, NEW s \in Steps, Goto(s),
         s \in BeforeCreate => soloJob.at \in BeforeCreate
  PROVE  /\ JobShape' /\ HostShape' /\ IdsSuffice' /\ soloSpent'["crashes"] = soloSpent["crashes"]
         /\ soloJob'.at = s /\ soloJob'.cur = soloJob.cur /\ soloJob'.from = soloJob.from
         /\ soloJob'.new = soloJob.new /\ soloJob'.img = soloJob.img /\ soloJob'.done = soloJob.done
<1>1. HostShape /\ IdsSuffice /\ JobShape BY DEF StandaloneInv
<1>2. /\ JobShape'
      /\ soloJob'.at = s /\ soloJob'.cur = soloJob.cur /\ soloJob'.from = soloJob.from
      /\ soloJob'.new = soloJob.new /\ soloJob'.img = soloJob.img /\ soloJob'.done = soloJob.done
  BY <1>1, GotoFacts
<1>3. HostShape' /\ IdsSuffice' /\ soloSpent'["crashes"] = soloSpent["crashes"]
  BY <1>1, <1>2, Bookkeeping DEF HostShape, soloUnchanged
<1> QED BY <1>2, <1>3

\* What holds one of the two names, other than the current container, is removed.
LEMMA ClearInv ==
  ASSUME StandaloneInv, NEW name, NEW here, NEW next, Clear(name, here, next),
         \/ name = "aside" /\ here = "clearAside" /\ next = "clearMain"
         \/ name = "main" /\ here = "clearMain" /\ next = "stop"
  PROVE  StandaloneInv'
<1> USE DEF Clear
<1> DEFINE i == Holder(name)
<1>1. HostShape /\ NamesUnique /\ IdsFresh /\ JobKnows BY DEF StandaloneInv
<1>2. soloJob.at = here /\ here \in {"clearAside", "clearMain"} /\ next \in {"clearMain", "stop"}
      /\ next \in Steps
  BY DEF Steps
<1>3. i = NoId \/ (i \in Ids /\ box[i].name = name /\ box[i] # Gone)
  BY <1>1, HolderFacts, BoxFacts DEF HostShape
<1>4. \A j \in Ids : box[j].name = name => j = i
  BY <1>1, <1>2, HolderIs
<1> HIDE DEF i
<1>5. \/ box' = box /\ botched' = botched /\ NoFault /\ i \in {NoId, soloJob.cur}
      \/ i \notin {NoId, soloJob.cur} /\ box' = [box EXCEPT ![i] = Gone] /\ botched' = botched /\ NoFault
      \/ i \notin {NoId, soloJob.cur} /\ Fault /\ box' \in {box, Stopped(i)} /\ botched' = TRUE
  BY DEF i, NoFault
<1>6. /\ box' \in [Ids -> Boxes] /\ botched' \in BOOLEAN /\ (Fault \/ NoFault)
      /\ \A j \in Ids : /\ box'[j].name \in {box[j].name, "none"}
                        /\ box[j] = Gone => box'[j] = Gone
                        /\ j # i => box'[j] = box[j]
  <2>1. CASE box' = box BY <1>1, <1>5, <2>1 DEF HostShape
  <2>2. CASE i \notin {NoId, soloJob.cur} /\ box' = [box EXCEPT ![i] = Gone] /\ botched' = botched /\ NoFault
    BY <1>1, <1>3, <2>2, SetGone DEF HostShape
  <2>3. CASE i \notin {NoId, soloJob.cur} /\ Fault /\ box' = Stopped(i) /\ botched' = TRUE
    BY <1>1, <1>3, <2>3, SetState DEF HostShape, Stopped
  <2> QED BY <1>5, <2>1, <2>2, <2>3
<1>7. /\ JobShape' /\ HostShape' /\ IdsSuffice' /\ soloSpent'["crashes"] = soloSpent["crashes"]
      /\ soloJob'.at = next /\ soloJob'.cur = soloJob.cur /\ soloJob'.from = soloJob.from
      /\ soloJob'.new = soloJob.new /\ soloJob'.img = soloJob.img /\ soloJob'.done = soloJob.done
  BY <1>2, <1>6, GoOn DEF BeforeCreate
<1>8. NamesUnique' /\ IdsFresh' BY <1>1, <1>6, NoNewNames
<1>9. JobKnows' BY <1>1, <1>2, <1>7 DEF JobKnows, BeforeCreate
<1>10. ~botched' => ~botched /\ (i \in {NoId, soloJob.cur} \/ box'[i].name = "none")
  BY <1>1, <1>3, <1>5, SetGone DEF HostShape
<1>11. CanGoBack'
  <2> SUFFICES ASSUME ~botched' PROVE Exists(soloJob.cur)' /\ (next = "stop" => MainOnlyOf(soloJob.cur)')
    BY <1>2, <1>7 DEF CanGoBack
  <2>1. Exists(soloJob.cur) BY <1>2, <1>10 DEF StandaloneInv, CanGoBack
  <2>2. Exists(soloJob.cur)' BY <1>5, <1>6, <1>7, <2>1 DEF Exists
  <2>3. ASSUME next = "stop", NEW j \in Ids, box'[j].name = "main" PROVE j = soloJob.cur
    <3>1. name = "main" BY <2>3
    <3>2. box[j].name = "main" BY <1>6, <2>3
    <3>3. j = i BY <1>4, <3>1, <3>2
    <3> QED BY <1>10, <2>3, <3>3, StandaloneAssumption DEF Ids, NoId
  <2> QED BY <1>7, <2>2, <2>3 DEF MainOnlyOf
<1>12. Served'
  <2> SUFFICES ASSUME ~botched', ~torn, next = "clearMain"
               PROVE  \E j \in Ids : box'[j].name = "main" /\ box'[j].state = "running"
    BY <1>2, <1>7 DEF Served
  <2>1. PICK j \in Ids : box[j].name = "main" /\ box[j].state = "running"
    BY <1>2, <1>10 DEF StandaloneInv, Served
  <2>2. j # i BY <1>3, <2>1, StandaloneAssumption DEF Ids, NoId
  <2> QED BY <1>6, <2>1, <2>2
<1>13. PutBack' BY <1>2, <1>7 DEF PutBack
<1>14. AllProven'
  <2>1. ~botched' /\ soloSpent["crashes"] = 0 => \A j \in Ids : box'[j] # Gone => j \in good
    BY <1>2, <1>6, <1>10 DEF StandaloneInv, AllProven, OnTrial
  <2>2. torn => soloSpent["crashes"] > 0 BY DEF StandaloneInv, AllProven
  <2> QED BY <1>2, <1>7, <2>1, <2>2 DEF AllProven
<1> QED BY <1>7, <1>8, <1>9, <1>11, <1>12, <1>13, <1>14 DEF StandaloneInv

\* A step of the recreate is refused: the undo starts, with nothing to dispose
\* of and the old container where the name is free for it.
LEMMA GiveUpInv ==
  ASSUME StandaloneInv, soloJob.at \in {"stop", "rename", "create"}, Goto("dispose"), Fault \/ NoFault,
         UNCHANGED <<box, nextBox, soloUnchanged, historyVars>>
  PROVE  StandaloneInv'
<1>1. HostShape /\ NamesUnique /\ IdsFresh /\ JobKnows BY DEF StandaloneInv
<1>2. /\ JobShape' /\ HostShape' /\ IdsSuffice' /\ soloSpent'["crashes"] = soloSpent["crashes"]
      /\ soloJob'.at = "dispose" /\ soloJob'.cur = soloJob.cur /\ soloJob'.from = soloJob.from
      /\ soloJob'.new = soloJob.new /\ soloJob'.img = soloJob.img /\ soloJob'.done = soloJob.done
  BY <1>1, GoOn DEF HostShape, historyVars, BeforeCreate, Steps
<1>3. NamesUnique' /\ IdsFresh' BY <1>1 DEF NamesUnique, IdsFresh
<1>4. soloJob.new = NoId BY <1>1 DEF JobKnows, BeforeCreate
<1>5. JobKnows' BY <1>1, <1>2, <1>4 DEF JobKnows, BeforeCreate
<1>6. CanGoBack'
  <2> SUFFICES ASSUME ~botched PROVE Exists(soloJob.cur)' /\ MainOnlyOf(soloJob.cur)'
    BY <1>2 DEF CanGoBack, historyVars
  <2>1. Exists(soloJob.cur) BY DEF StandaloneInv, CanGoBack
  <2>2. MainOnlyOf(soloJob.cur) BY DEF StandaloneInv, CanGoBack, MainOnlyOf, MainFree
  <2> QED BY <1>2, <2>1, <2>2 DEF Exists, MainOnlyOf
<1>7. Served' /\ PutBack' BY <1>2 DEF Served, PutBack
<1>8. AllProven'
  <2>1. \A i \in Ids : ~botched /\ soloSpent["crashes"] = 0 /\ box[i] # Gone => i \in good
    BY DEF StandaloneInv, AllProven, OnTrial
  <2>2. torn => soloSpent["crashes"] > 0 BY DEF StandaloneInv, AllProven
  <2> QED BY <1>2, <2>1, <2>2 DEF AllProven, historyVars
<1> QED BY <1>2, <1>3, <1>5, <1>6, <1>7, <1>8 DEF StandaloneInv

\* The current container is stopped.
LEMMA StopInv == ASSUME StandaloneInv, StopOld PROVE StandaloneInv'
<1> USE DEF StopOld
<1>1. CASE Goto("dispose") /\ (Fault \/ NoFault) /\ UNCHANGED box BY <1>1, GiveUpInv
<1>2. CASE Exists(soloJob.cur) /\ box' = Stopped(soloJob.cur) /\ Goto("rename") /\ NoFault
  <2> USE <1>2 DEF historyVars
  <2>1. HostShape /\ NamesUnique /\ IdsFresh /\ JobKnows /\ soloJob.at = "stop" BY DEF StandaloneInv
  <2>2. /\ box' \in [Ids -> Boxes] /\ soloJob.cur \in Ids
        /\ box'[soloJob.cur].name = box[soloJob.cur].name /\ box'[soloJob.cur].state = "stopped"
        /\ box'[soloJob.cur] # Gone
        /\ \A j \in Ids \ {soloJob.cur} : box'[j] = box[j]
    BY <2>1, SetState DEF HostShape, Stopped, Exists
  <2>3. /\ JobShape' /\ HostShape' /\ IdsSuffice' /\ soloSpent'["crashes"] = soloSpent["crashes"]
        /\ soloJob'.at = "rename" /\ soloJob'.cur = soloJob.cur /\ soloJob'.from = soloJob.from
        /\ soloJob'.new = soloJob.new /\ soloJob'.img = soloJob.img /\ soloJob'.done = soloJob.done
    BY <2>1, <2>2, GoOn DEF HostShape, BeforeCreate, Steps
  <2>4. \A j \in Ids : box'[j].name = box[j].name /\ (box'[j] # Gone => box[j] # Gone)
    BY <2>2 DEF Exists
  <2>5. NamesUnique' /\ IdsFresh' BY <2>1, <2>4, NoNewNames
  <2>6. JobKnows' BY <2>1, <2>2, <2>3 DEF JobKnows, BeforeCreate
  <2>7. CanGoBack'
    <3>1. ~botched => MainOnlyOf(soloJob.cur) BY <2>1 DEF StandaloneInv, CanGoBack
    <3>2. ~botched => MainOnlyOf(soloJob.cur)' BY <2>3, <2>4, <3>1 DEF MainOnlyOf
    <3>3. Exists(soloJob.cur)' BY <2>2, <2>3 DEF Exists
    <3> QED BY <2>3, <3>2, <3>3 DEF CanGoBack
  <2>8. Served' /\ PutBack' BY <2>3 DEF Served, PutBack
  <2>9. AllProven'
    <3>1. \A i \in Ids : ~botched /\ soloSpent["crashes"] = 0 /\ box[i] # Gone => i \in good
      BY <2>1 DEF StandaloneInv, AllProven, OnTrial
    <3>2. torn => soloSpent["crashes"] > 0 BY DEF StandaloneInv, AllProven
    <3> QED BY <2>3, <2>4, <3>1, <3>2 DEF AllProven
  <2> QED BY <2>3, <2>5, <2>6, <2>7, <2>8, <2>9 DEF StandaloneInv
<1> QED BY <1>1, <1>2

\* The current container is set aside, which frees its name.
LEMMA RenameInv == ASSUME StandaloneInv, RenameOld PROVE StandaloneInv'
<1> USE DEF RenameOld
<1>1. CASE Goto("dispose") /\ (Fault \/ NoFault) /\ UNCHANGED box BY <1>1, GiveUpInv
<1>2. CASE /\ CanRename(soloJob.cur, "aside") /\ NoFault
           /\ box' = [box EXCEPT ![soloJob.cur].name = "aside"] /\ Goto("create")
  <2> USE <1>2 DEF historyVars
  <2>1. HostShape /\ NamesUnique /\ IdsFresh /\ JobKnows /\ soloJob.at = "rename" BY DEF StandaloneInv
  <2>2. soloJob.cur \in Ids /\ box[soloJob.cur] # Gone /\ \A i \in Ids : box[i].name # "aside"
    BY HolderFacts DEF CanRename, Exists
  <2>3. /\ box' \in [Ids -> Boxes]
        /\ box'[soloJob.cur].name = "aside" /\ box'[soloJob.cur].state = box[soloJob.cur].state
        /\ box'[soloJob.cur] # Gone
        /\ \A j \in Ids \ {soloJob.cur} : box'[j] = box[j]
    BY <2>1, <2>2, SetName DEF HostShape, Names
  <2>4. /\ JobShape' /\ HostShape' /\ IdsSuffice' /\ soloSpent'["crashes"] = soloSpent["crashes"]
        /\ soloJob'.at = "create" /\ soloJob'.cur = soloJob.cur /\ soloJob'.from = soloJob.from
        /\ soloJob'.new = soloJob.new /\ soloJob'.img = soloJob.img /\ soloJob'.done = soloJob.done
    BY <2>1, <2>3, GoOn DEF HostShape, BeforeCreate, Steps
  <2>5. NamesUnique' BY <2>1, <2>2, <2>3 DEF NamesUnique
  <2>6. IdsFresh' BY <2>1, <2>2, <2>3 DEF IdsFresh
  <2>7. JobKnows' BY <2>1, <2>2, <2>3, <2>4 DEF JobKnows, BeforeCreate, SetAside
  <2>8. CanGoBack'
    <3>1. ~botched => MainOnlyOf(soloJob.cur) BY <2>1 DEF StandaloneInv, CanGoBack
    <3>2. ~botched => MainFree' BY <2>3, <3>1 DEF MainOnlyOf, MainFree
    <3>3. Exists(soloJob.cur)' BY <2>2, <2>3, <2>4 DEF Exists
    <3> QED BY <2>4, <3>2, <3>3 DEF CanGoBack
  <2>9. Served' /\ PutBack' BY <2>4 DEF Served, PutBack
  <2>10. AllProven'
    <3>1. \A i \in Ids : ~botched /\ soloSpent["crashes"] = 0 /\ box[i] # Gone => i \in good
      BY <2>1 DEF StandaloneInv, AllProven, OnTrial
    <3>2. torn => soloSpent["crashes"] > 0 BY DEF StandaloneInv, AllProven
    <3> QED BY <2>2, <2>3, <2>4, <3>1, <3>2 DEF AllProven
  <2> QED BY <2>4, <2>5, <2>6, <2>7, <2>8, <2>9, <2>10 DEF StandaloneInv
<1> QED BY <1>1, <1>2

\* The create is the one step that takes an id.  Half done, it leaves a
\* container that the handler does not know of.
LEMMA CreateInv == ASSUME StandaloneInv, CreateNew PROVE StandaloneInv'
<1> USE StandaloneAssumption DEF CreateNew
<1> DEFINE made == [name |-> "main", state |-> "stopped", img |-> soloJob.img]
<1>1. /\ HostShape /\ NamesUnique /\ IdsFresh /\ IdsSuffice /\ JobKnows /\ JobShape
      /\ soloJob.at = "create"
  BY DEF StandaloneInv
<1>2. CASE Goto("dispose") /\ (Fault \/ NoFault) /\ UNCHANGED <<dockerVars, botched>>
  BY <1>1, <1>2, GiveUpInv DEF dockerVars, historyVars
<1>3. CASE /\ Holder("main") = NoId /\ (Fault \/ NoFault)
           /\ box' = [box EXCEPT ![nextBox] = made]
           /\ nextBox' = nextBox + 1
           /\ \/ NoFault /\ soloJob' = [soloJob EXCEPT !.at = "start", !.new = nextBox] /\ UNCHANGED botched
              \/ Fault /\ Goto("dispose") /\ botched' = TRUE
  <2> USE <1>3
  <2>1. /\ SetAside(soloJob.cur) /\ soloJob.cur \in Ids /\ box[soloJob.cur].name = "aside" /\ soloJob.img \in Images
        /\ soloJob.new = NoId /\ soloJob.from \in Images
    BY <1>1 DEF JobKnows, SetAside, BeforeCreate
  <2>2. /\ pending["apply"] \in Nat /\ pending["rollback"] \in Nat /\ nextBox \in Nat /\ nextBox > 0
        /\ soloSpent["jobs"] \in Nat /\ soloSpent["crashes"] \in Nat
    BY <1>1 DEF HostShape, Kinds
  <2>3. /\ nextBox + pending["apply"] + pending["rollback"] + 1 <= 2 + soloSpent["jobs"] + soloSpent["crashes"]
        /\ soloSpent["jobs"] <= MaxJobs /\ soloSpent["crashes"] <= MaxSoloCrashes
    BY <1>1 DEF IdsSuffice, BeforeCreate
  <2>4. nextBox \in Ids BY <2>2, <2>3 DEF Ids
  <2>5. box[nextBox] = Gone /\ nextBox # soloJob.cur
    <3>1. box[nextBox] = Gone BY <1>1, <2>2, <2>4 DEF IdsFresh
    <3> QED BY <2>1, <3>1 DEF Gone
  <2>6. \A i \in Ids : box[i].name # "main" BY HolderFacts
  <2>7. made \in Boxes /\ made # Gone /\ made.name = "main" /\ made.state = "stopped"
    BY <2>1 DEF Boxes, Gone, Names
  <2> HIDE DEF made
  <2>8. /\ box' \in [Ids -> Boxes] /\ box'[nextBox] = made
        /\ \A j \in Ids \ {nextBox} : box'[j] = box[j]
    BY <1>1, <2>4, <2>7 DEF HostShape
  <2>9. /\ soloSpent' \in [{"jobs", "faults", "crashes"} -> Nat]
        /\ soloSpent'["jobs"] = soloSpent["jobs"] /\ soloSpent'["crashes"] = soloSpent["crashes"]
    BY <1>1 DEF HostShape, Fault, NoFault, SoloSpend
  <2>10. HostShape'
    <3>1. botched' \in BOOLEAN /\ torn' \in BOOLEAN BY <1>1 DEF HostShape
    <3>2. nextBox' \in Nat /\ nextBox' > 0 BY <2>2
    <3>3. UNCHANGED <<svc, snap, pending, seen>> BY DEF soloUnchanged
    <3> QED BY ONLY <1>1, <2>8, <2>9, <3>1, <3>2, <3>3 DEF HostShape
  <2>11. /\ JobShape' /\ soloJob'.cur = soloJob.cur /\ soloJob'.from = soloJob.from /\ soloJob'.img = soloJob.img
         /\ \/ soloJob'.at = "start" /\ soloJob'.new = nextBox /\ botched' = botched
            \/ soloJob'.at = "dispose" /\ soloJob'.new = NoId /\ botched' = TRUE
    <3>1. CASE NoFault /\ soloJob' = [soloJob EXCEPT !.at = "start", !.new = nextBox] /\ UNCHANGED botched
      BY <1>1, <2>4, <3>1 DEF JobShape, Steps
    <3>2. CASE Fault /\ Goto("dispose") /\ botched' = TRUE
      BY <1>1, <2>1, <3>2, GotoFacts DEF Steps
    <3> QED BY <3>1, <3>2
  <2>12. NamesUnique' BY <1>1, <2>6, <2>7, <2>8 DEF NamesUnique
  <2>13. IdsFresh' BY <1>1, <2>2, <2>8 DEF IdsFresh, Ids
  <2>14. IdsSuffice'
    <3>1. nextBox' + pending'["apply"] + pending'["rollback"] + 0 <= 2 + soloSpent'["jobs"] + soloSpent'["crashes"]
      BY <2>2, <2>3, <2>9 DEF soloUnchanged
    <3> QED BY <2>3, <2>9, <2>11, <3>1 DEF IdsSuffice, BeforeCreate
  <2>15. SetAside(soloJob.cur)' BY <2>1, <2>5, <2>8, <2>11 DEF SetAside
  <2>16. JobKnows'
    BY <2>1, <2>4, <2>7, <2>8, <2>11, <2>15 DEF JobKnows, Successor, BeforeCreate
  <2>17. CanGoBack'
    <3>1. Exists(soloJob.cur)' BY <2>15, <2>10, BoxFacts, <2>8 DEF SetAside, Exists, Gone
    <3> QED BY <2>11, <3>1 DEF CanGoBack
  <2>18. Served' /\ PutBack' BY <2>11 DEF Served, PutBack
  <2>19. AllProven'
    <3>1. \A i \in Ids : ~botched /\ soloSpent["crashes"] = 0 /\ box[i] # Gone => i \in good
      BY <1>1 DEF StandaloneInv, AllProven, OnTrial
    <3>2. torn => soloSpent["crashes"] > 0 BY DEF StandaloneInv, AllProven
    <3> QED BY <2>8, <2>9, <2>11, <3>1, <3>2 DEF AllProven, OnTrial
  <2> QED BY <2>10, <2>11, <2>12, <2>13, <2>14, <2>16, <2>17, <2>18, <2>19 DEF StandaloneInv
<1> QED BY <1>2, <1>3

\* The successor is started and passes its gate or not.
LEMMA TrialInv == ASSUME StandaloneInv, StartNew \/ Health PROVE StandaloneInv'
<1> USE DEF StartNew, Health, historyVars
<1>1. /\ HostShape /\ NamesUnique /\ IdsFresh /\ JobKnows
      /\ soloJob.at \in {"start", "health"} /\ (soloJob.at = "health" => ~StartNew)
  BY DEF StandaloneInv
<1>2. /\ SetAside(soloJob.cur) /\ soloJob.cur \in Ids /\ soloJob.new \in Ids /\ soloJob.new # soloJob.cur
      /\ box[soloJob.new].name = "main" /\ box[soloJob.new] # Gone /\ box[soloJob.cur] # Gone
  BY <1>1, BoxFacts DEF JobKnows, SetAside, Successor, HostShape
<1>3. \E st \in {"running", "stopped"} :
        box' = box \/ box' = [box EXCEPT ![soloJob.new].state = st]
  BY DEF Stopped
<1>4. /\ box' \in [Ids -> Boxes]
      /\ box'[soloJob.new].name = "main" /\ box'[soloJob.new] # Gone
      /\ \A j \in Ids \ {soloJob.new} : box'[j] = box[j]
  <2>1. CASE box' = box BY <1>1, <1>2, <2>1 DEF HostShape
  <2>2. ASSUME NEW st \in {"running", "stopped"}, box' = [box EXCEPT ![soloJob.new].state = st]
        PROVE  /\ box' \in [Ids -> Boxes]
               /\ box'[soloJob.new].name = "main" /\ box'[soloJob.new] # Gone
               /\ \A j \in Ids \ {soloJob.new} : box'[j] = box[j]
    BY <1>1, <1>2, <2>2, SetState DEF HostShape
  <2> QED BY <1>3, <2>1, <2>2
<1>5. PICK s \in {"health", "dispose", "drop"} : Goto(s) OBVIOUS
<1>6. s \in Steps /\ s \notin BeforeCreate BY DEF Steps, BeforeCreate
<1>7. Fault \/ NoFault BY DEF NoFault
<1>8. nextBox' = nextBox /\ UNCHANGED <<soloUnchanged, torn, botched>> OBVIOUS
<1>9. /\ JobShape' /\ HostShape' /\ IdsSuffice' /\ soloSpent'["crashes"] = soloSpent["crashes"]
      /\ soloJob'.at = s /\ soloJob'.cur = soloJob.cur /\ soloJob'.from = soloJob.from
      /\ soloJob'.new = soloJob.new /\ soloJob'.img = soloJob.img /\ soloJob'.done = soloJob.done
  BY <1>1, <1>4, <1>5, <1>6, <1>7, <1>8, GoOn DEF HostShape
<1>10. \A j \in Ids : box'[j].name = box[j].name /\ (box'[j] # Gone => box[j] # Gone)
  BY <1>2, <1>4
<1>11. NamesUnique' /\ IdsFresh' BY <1>1, <1>8, <1>10, NoNewNames
<1>12. s \in {"health", "drop"} => box'[soloJob.new].state = "running"
  <2>1. CASE StartNew /\ box' = [box EXCEPT ![soloJob.new].state = "running"]
    BY <1>1, <1>2, <2>1, SetState DEF HostShape
  <2>2. CASE Health /\ Goto("drop") /\ UNCHANGED box
    BY <2>2 DEF StandaloneInv, JobKnows, Successor
  <2>3. CASE Goto("dispose")
    <3>1. soloJob'.at = "dispose" BY <2>3, GotoFacts DEF StandaloneInv, Steps
    <3> QED BY <1>9, <3>1
  <2> QED BY <2>1, <2>2, <2>3
<1>13. SetAside(soloJob.cur)' BY <1>2, <1>4, <1>9 DEF SetAside
<1>14. JobKnows' BY <1>1, <1>2, <1>4, <1>9, <1>12, <1>13 DEF JobKnows, Successor, BeforeCreate
<1>15. CanGoBack'
  <2>1. Exists(soloJob.cur)' BY <1>2, <1>4, <1>9 DEF Exists
  <2>2. soloJob'.new # NoId BY <1>2, <1>9, StandaloneAssumption DEF Ids, NoId
  <2> QED BY <1>9, <2>1, <2>2 DEF CanGoBack
<1>16. Served' /\ PutBack' BY <1>9 DEF Served, PutBack
<1>17. AllProven'
  <2>1. \A i \in Ids : ~botched /\ soloSpent["crashes"] = 0 /\ box[i] # Gone => i \in good \/ i = soloJob.new
    BY <1>1 DEF StandaloneInv, AllProven, OnTrial
  <2>2. torn => soloSpent["crashes"] > 0 BY DEF StandaloneInv, AllProven
  <2>3. good \subseteq good' /\ (s = "drop" => soloJob.new \in good')
    <3>1. CASE Goto("drop") /\ good' = good \union {soloJob.new} BY <3>1
    <3>2. CASE Goto("health") /\ UNCHANGED good
      <4>1. soloJob'.at = "health" BY <3>2, GotoFacts DEF StandaloneInv, Steps
      <4> QED BY <1>9, <3>2, <4>1
    <3>3. CASE Goto("dispose") /\ UNCHANGED good
      <4>1. soloJob'.at = "dispose" BY <3>3, GotoFacts DEF StandaloneInv, Steps
      <4> QED BY <1>9, <3>3, <4>1
    <3> QED BY <3>1, <3>2, <3>3
  <2> QED BY <1>8, <1>9, <1>10, <2>1, <2>2, <2>3 DEF AllProven, OnTrial
<1> QED BY <1>9, <1>11, <1>14, <1>15, <1>16, <1>17 DEF StandaloneInv
-----------------------------------------------------------------------------
(* The undo.                                                               *)

\* The undo removes the successor.
LEMMA DisposeInv == ASSUME StandaloneInv, DisposeNew PROVE StandaloneInv'
<1> USE DEF DisposeNew
<1>1. HostShape /\ NamesUnique /\ IdsFresh /\ JobKnows /\ soloJob.at = "dispose" BY DEF StandaloneInv
<1>2. NoId \notin Ids BY StandaloneAssumption DEF Ids, NoId
<1>3. soloJob.new # NoId => /\ soloJob.new \in Ids /\ box[soloJob.new].name = "main" /\ box[soloJob.new] # Gone
                        /\ soloJob.cur \in Ids /\ box[soloJob.cur].name = "aside" /\ soloJob.cur # soloJob.new
  BY <1>1, BoxFacts DEF JobKnows, SetAside, HostShape
<1>4. /\ box' \in [Ids -> Boxes] /\ botched' \in BOOLEAN /\ (Fault \/ NoFault)
      /\ \A j \in Ids : /\ box'[j].name \in {box[j].name, "none"}
                        /\ box[j] = Gone => box'[j] = Gone
                        /\ j # soloJob.new => box'[j] = box[j]
      /\ ~botched' => ~botched /\ (soloJob.new = NoId \/ (box'[soloJob.new] = Gone /\ box'[soloJob.new].name = "none"))
  <2>1. CASE box' = box /\ UNCHANGED <<botched, soloSpent>> /\ soloJob.new = NoId
    BY <1>1, <2>1 DEF HostShape, NoFault
  <2>2. CASE box' = box /\ Fault /\ botched' = TRUE BY <1>1, <2>2 DEF HostShape
  <2>3. CASE soloJob.new # NoId /\ box' = [box EXCEPT ![soloJob.new] = Gone] /\ UNCHANGED <<botched, soloSpent>>
    BY <1>1, <1>3, <2>3, SetGone DEF HostShape, NoFault
  <2>4. CASE soloJob.new # NoId /\ Fault /\ box' = Stopped(soloJob.new) /\ botched' = TRUE
    BY <1>1, <1>3, <2>4, SetState DEF HostShape, Stopped
  <2> QED BY <2>1, <2>2, <2>3, <2>4
<1>5. /\ JobShape' /\ HostShape' /\ IdsSuffice' /\ soloSpent'["crashes"] = soloSpent["crashes"]
      /\ soloJob'.at = "back" /\ soloJob'.cur = soloJob.cur /\ soloJob'.from = soloJob.from
      /\ soloJob'.new = soloJob.new /\ soloJob'.img = soloJob.img /\ soloJob'.done = soloJob.done
  BY <1>1, <1>4, GoOn DEF BeforeCreate, Steps
<1>6. NamesUnique' /\ IdsFresh' BY <1>1, <1>4, NoNewNames
<1>7. JobKnows' BY <1>1, <1>5 DEF JobKnows, BeforeCreate
<1>8. CanGoBack'
  <2> SUFFICES ASSUME ~botched' PROVE Exists(soloJob.cur)' /\ MainOnlyOf(soloJob.cur)'
    BY <1>5 DEF CanGoBack
  <2>1. ~botched BY <1>4
  <2>2. Exists(soloJob.cur) /\ (soloJob.new = NoId => MainOnlyOf(soloJob.cur))
    BY <1>1, <2>1 DEF StandaloneInv, CanGoBack
  <2>3. Exists(soloJob.cur)' BY <1>2, <1>3, <1>4, <1>5, <2>2 DEF Exists
  <2>4. ASSUME NEW j \in Ids, box'[j].name = "main" PROVE j = soloJob.cur
    <3>1. box[j].name = "main" BY <1>4, <2>4
    <3>2. CASE soloJob.new = NoId BY <2>2, <3>1, <3>2 DEF MainOnlyOf
    <3>3. CASE soloJob.new # NoId
      <4>1. j = soloJob.new BY <1>1, <1>3, <3>1, <3>3 DEF NamesUnique
      <4> QED BY <1>4, <2>4, <3>3, <4>1
    <3> QED BY <3>2, <3>3
  <2> QED BY <1>5, <2>3, <2>4 DEF MainOnlyOf
<1>9. Served' /\ PutBack' BY <1>5 DEF Served, PutBack
<1>10. AllProven'
  <2>1. \A i \in Ids : ~botched /\ soloSpent["crashes"] = 0 /\ box[i] # Gone => i \in good \/ i = soloJob.new
    BY <1>1 DEF StandaloneInv, AllProven, OnTrial
  <2>2. torn => soloSpent["crashes"] > 0 BY DEF StandaloneInv, AllProven
  <2> QED BY <1>2, <1>4, <1>5, <2>1, <2>2 DEF AllProven
<1> QED BY <1>5, <1>6, <1>7, <1>8, <1>9, <1>10 DEF StandaloneInv

\* The undo gives the old container its name back.
LEMMA BackInv == ASSUME StandaloneInv, RenameBack PROVE StandaloneInv'
<1> USE DEF RenameBack
<1>1. HostShape /\ NamesUnique /\ IdsFresh /\ JobKnows /\ soloJob.at = "back" BY DEF StandaloneInv
<1>2. CanRename(soloJob.cur, "main") =>
        soloJob.cur \in Ids /\ box[soloJob.cur] # Gone /\ \A i \in Ids : box[i].name # "main"
  BY HolderFacts DEF CanRename, Exists
<1>3. /\ box' \in [Ids -> Boxes] /\ botched' \in BOOLEAN /\ (Fault \/ NoFault)
      /\ \A j \in Ids : /\ box'[j] # Gone <=> box[j] # Gone
                        /\ j # soloJob.cur => box'[j] = box[j]
      /\ \/ UNCHANGED box
         \/ soloJob.cur \in Ids /\ box'[soloJob.cur].name = "main" /\ \A i \in Ids : box[i].name # "main"
  <2>1. CASE UNCHANGED box BY <1>1, <2>1 DEF HostShape, NoFault
  <2>2. CASE CanRename(soloJob.cur, "main") /\ box' = [box EXCEPT ![soloJob.cur].name = "main"]
             /\ UNCHANGED <<botched, soloSpent>>
    BY <1>1, <1>2, <2>2, SetName DEF HostShape, NoFault, Names
  <2> QED BY <2>1, <2>2
<1>4. /\ JobShape' /\ HostShape' /\ IdsSuffice' /\ soloSpent'["crashes"] = soloSpent["crashes"]
      /\ soloJob'.at = "revive" /\ soloJob'.cur = soloJob.cur /\ soloJob'.from = soloJob.from
      /\ soloJob'.new = soloJob.new /\ soloJob'.img = soloJob.img /\ soloJob'.done = soloJob.done
  BY <1>1, <1>3, GoOn DEF BeforeCreate, Steps
<1>5. NamesUnique' BY <1>1, <1>3 DEF NamesUnique
<1>6. IdsFresh' BY <1>1, <1>3 DEF IdsFresh
<1>7. JobKnows' BY <1>1, <1>4 DEF JobKnows, BeforeCreate
<1>8. ~botched' => ~botched OBVIOUS
<1>9. CanGoBack'
  <2> SUFFICES ASSUME ~botched' PROVE Exists(soloJob.cur)' /\ box'[soloJob.cur].name = "main"
    BY <1>4 DEF CanGoBack
  <2>1. Exists(soloJob.cur) /\ MainOnlyOf(soloJob.cur) BY <1>1, <1>8 DEF StandaloneInv, CanGoBack
  <2>2. Exists(soloJob.cur)' BY <1>3, <1>4, <2>1 DEF Exists
  <2>3. CASE CanRename(soloJob.cur, "main") /\ box' = [box EXCEPT ![soloJob.cur].name = "main"]
    BY <1>1, <1>2, <2>2, <2>3, SetName DEF HostShape, Names
  <2>4. CASE ~CanRename(soloJob.cur, "main") /\ UNCHANGED box
    <3>1. Holder("main") # NoId BY <2>1, <2>4 DEF CanRename
    <3>2. Holder("main") \in Ids /\ box[Holder("main")].name = "main" BY <3>1, HolderFacts
    <3> QED BY <2>1, <2>2, <2>4, <3>2 DEF MainOnlyOf
  <2> QED BY <2>2, <2>3, <2>4
<1>10. Served' /\ PutBack' BY <1>4 DEF Served, PutBack
<1>11. AllProven'
  <2>1. \A i \in Ids : ~botched /\ soloSpent["crashes"] = 0 /\ box[i] # Gone => i \in good
    BY <1>1 DEF StandaloneInv, AllProven, OnTrial
  <2>2. torn => soloSpent["crashes"] > 0 BY DEF StandaloneInv, AllProven
  <2> QED BY <1>3, <1>4, <1>8, <2>1, <2>2 DEF AllProven
<1> QED BY <1>4, <1>5, <1>6, <1>7, <1>9, <1>10, <1>11 DEF StandaloneInv

\* A container of the right name is there when the job ends.
LEMMA EndInv ==
  ASSUME StandaloneInv, NEW o \in {"failed", "success"}, SoloQuit(o), soloJob.at \in {"revive", "runtime"},
         Fault \/ NoFault, nextBox' = nextBox, UNCHANGED <<snap, pending, seen, good>>,
         svc' \in [id : Ids, img : Images], torn' = FALSE, botched' \in BOOLEAN, ~botched' => ~botched,
         box' \in [Ids -> Boxes],
         \A j \in Ids : box'[j].name = box[j].name /\ (box'[j] # Gone <=> box[j] # Gone),
         ~botched' => \E i \in Ids : /\ box'[i].name = "main" /\ box'[i].state = "running"
                                     /\ o = "failed" => i = soloJob.cur
  PROVE  StandaloneInv'
<1>1. HostShape /\ NamesUnique /\ IdsFresh /\ IdsSuffice /\ JobShape BY DEF StandaloneInv
<1>2. JobShape' /\ soloJob'.at = "idle" /\ soloJob'.cur = soloJob.cur /\ soloJob'.done = o BY <1>1, QuitFacts
<1>3. HostShape' /\ IdsSuffice' /\ soloSpent'["crashes"] = soloSpent["crashes"]
  BY <1>1, <1>2, Bookkeeping DEF HostShape, BeforeCreate
<1>4. NamesUnique' /\ IdsFresh' BY <1>1, NoNewNames
<1>5. JobKnows' /\ CanGoBack' BY <1>2 DEF JobKnows, CanGoBack, BeforeCreate
<1>6. Served' /\ PutBack' BY <1>2 DEF Served, PutBack
<1>7. AllProven'
  <2>1. \A i \in Ids : ~botched /\ soloSpent["crashes"] = 0 /\ box[i] # Gone => i \in good
    BY DEF StandaloneInv, AllProven, OnTrial
  <2> QED BY <1>2, <1>3, <2>1 DEF AllProven
<1> QED BY <1>2, <1>3, <1>4, <1>5, <1>6, <1>7 DEF StandaloneInv

\* The undo starts the old container.
LEMMA ReviveInv == ASSUME StandaloneInv, Revive PROVE StandaloneInv'
<1> USE DEF Revive
<1>1. HostShape /\ soloJob.at = "revive" BY DEF StandaloneInv
<1>2. svc' \in [id : Ids, img : Images] /\ nextBox' = nextBox /\ UNCHANGED <<snap, pending, seen>>
      /\ botched' \in BOOLEAN /\ (~botched' => ~botched) /\ (Fault \/ NoFault)
  BY <1>1 DEF HostShape, soloUnchanged, NoFault
<1>3. ~botched => Exists(soloJob.cur) /\ soloJob.cur \in Ids /\ box[soloJob.cur].name = "main"
  BY <1>1 DEF StandaloneInv, CanGoBack, Exists
<1>4. CASE Exists(soloJob.cur) /\ box' = [box EXCEPT ![soloJob.cur].state = "running"]
  <2>1. /\ box' \in [Ids -> Boxes] /\ soloJob.cur \in Ids /\ box[soloJob.cur] # Gone
        /\ box'[soloJob.cur].name = box[soloJob.cur].name /\ box'[soloJob.cur].state = "running"
        /\ box'[soloJob.cur] # Gone
        /\ \A j \in Ids \ {soloJob.cur} : box'[j] = box[j]
    BY <1>1, <1>4, SetState DEF HostShape, Exists
  <2>2. \A j \in Ids : box'[j].name = box[j].name /\ (box'[j] # Gone <=> box[j] # Gone) BY <2>1
  <2> QED BY <1>1, <1>2, <1>3, <2>1, <2>2, EndInv
<1>5. CASE UNCHANGED box /\ botched'
  <2>1. box' \in [Ids -> Boxes] BY <1>1, <1>5 DEF HostShape
  <2> QED BY <1>1, <1>2, <1>5, <2>1, EndInv
<1> QED BY <1>3, <1>4, <1>5

-----------------------------------------------------------------------------
(* Success.                                                                *)

\* The row takes the successor, which is healthy.
LEMMA RuntimeInv == ASSUME StandaloneInv, Runtime PROVE StandaloneInv'
<1> USE DEF Runtime, dockerVars
<1>1. HostShape /\ JobKnows /\ soloJob.at = "runtime" BY DEF StandaloneInv
<1>2. /\ soloJob.new \in Ids /\ box[soloJob.new].name = "main" /\ box[soloJob.new].state = "running"
      /\ soloJob.img \in Images
  BY <1>1 DEF JobKnows, Successor
<1>3. svc' \in [id : Ids, img : Images] BY <1>1, <1>2 DEF HostShape
<1>4. box' \in [Ids -> Boxes] /\ botched' \in BOOLEAN BY <1>1 DEF HostShape
<1> QED BY <1>1, <1>2, <1>3, <1>4, EndInv

\* The old container is removed once the successor is proven.
LEMMA DropInv == ASSUME StandaloneInv, DropOld PROVE StandaloneInv'
<1> USE DEF DropOld, historyVars
<1>1. HostShape /\ NamesUnique /\ IdsFresh /\ JobKnows /\ soloJob.at = "drop" BY DEF StandaloneInv
<1>2. /\ soloJob.new \in Ids /\ box[soloJob.new].name = "main" /\ box[soloJob.new].state = "running"
      /\ soloJob.cur \in Ids /\ soloJob.cur # soloJob.new
  BY <1>1 DEF JobKnows, Successor, SetAside
<1>3. /\ box' \in [Ids -> Boxes]
      /\ \A j \in Ids : /\ box'[j].name \in {box[j].name, "none"}
                        /\ box[j] = Gone => box'[j] = Gone
                        /\ j # soloJob.cur => box'[j] = box[j]
  <2>1. CASE UNCHANGED box BY <1>1, <2>1 DEF HostShape
  <2>2. CASE box' = [box EXCEPT ![soloJob.cur] = Gone] BY <1>1, <1>2, <2>2, SetGone DEF HostShape
  <2> QED BY <2>1, <2>2
<1>4. /\ JobShape' /\ HostShape' /\ IdsSuffice' /\ soloSpent'["crashes"] = soloSpent["crashes"]
      /\ soloJob'.at = "runtime" /\ soloJob'.cur = soloJob.cur /\ soloJob'.from = soloJob.from
      /\ soloJob'.new = soloJob.new /\ soloJob'.img = soloJob.img /\ soloJob'.done = soloJob.done
  BY <1>1, <1>3, GoOn DEF HostShape, BeforeCreate, Steps
<1>5. NamesUnique' /\ IdsFresh' BY <1>1, <1>3, NoNewNames
<1>6. JobKnows' BY <1>1, <1>2, <1>3, <1>4 DEF JobKnows, Successor, BeforeCreate
<1>7. CanGoBack' /\ Served' /\ PutBack' BY <1>4 DEF CanGoBack, Served, PutBack
<1>8. AllProven'
  <2>1. \A i \in Ids : ~botched /\ soloSpent["crashes"] = 0 /\ box[i] # Gone => i \in good
    BY <1>1 DEF StandaloneInv, AllProven, OnTrial
  <2>2. (torn => soloSpent["crashes"] > 0) /\ soloJob.new \in good BY <1>1 DEF StandaloneInv, AllProven
  <2> QED BY <1>3, <1>4, <2>1, <2>2 DEF AllProven
<1> QED BY <1>4, <1>5, <1>6, <1>7, <1>8 DEF StandaloneInv

-----------------------------------------------------------------------------
(* The theorems.                                                           *)

\* Every initial state satisfies the inductive invariant.
LEMMA StandaloneInitInv == Init => StandaloneInv
<1> SUFFICES ASSUME Init PROVE StandaloneInv OBVIOUS
<1> USE StandaloneAssumption DEF Init
<1> DEFINE first == [name |-> "main", state |-> "running", img |-> "prev"]
<1>1. first \in Boxes /\ first # Gone /\ first.name = "main" /\ first.state = "running" /\ Gone \in Boxes
      /\ Gone.name = "none"
  BY DEF Boxes, Gone, Names, Images
<1>2. box = [i \in Ids |-> IF i = 1 THEN first ELSE Gone] /\ 1 \in Ids BY DEF Ids
<1> HIDE DEF first
<1>3. box \in [Ids -> Boxes] /\ box[1] = first /\ \A i \in Ids \ {1} : box[i] = Gone BY <1>1, <1>2
<1>4. JobShape /\ soloJob.at = "idle" /\ soloJob.done = "none" BY DEF JobShape, NoJob, Steps, Kinds
<1>5. HostShape
  <2>1. svc \in [id : Ids, img : Images] BY <1>2 DEF Images
  <2>2. soloSpent \in [{"jobs", "faults", "crashes"} -> Nat] OBVIOUS
  <2>3. pending \in [Kinds -> Nat] /\ nextBox \in Nat /\ nextBox > 0 OBVIOUS
  <2>4. botched \in BOOLEAN /\ torn \in BOOLEAN OBVIOUS
  <2> QED BY <1>3, <2>1, <2>2, <2>3, <2>4 DEF HostShape
<1>6. NamesUnique BY <1>1, <1>3 DEF NamesUnique
<1>7. IdsFresh BY <1>3 DEF IdsFresh
<1>8. IdsSuffice
  <2>1. pending["apply"] = 0 /\ pending["rollback"] = 0 /\ soloSpent["jobs"] = 0 /\ soloSpent["crashes"] = 0
    BY DEF Kinds
  <2>2. soloJob.at \notin BeforeCreate BY <1>4 DEF BeforeCreate
  <2> QED BY <2>1, <2>2 DEF IdsSuffice
<1>9. JobKnows /\ CanGoBack /\ PutBack BY <1>4 DEF JobKnows, CanGoBack, PutBack, BeforeCreate
<1>10. Served BY <1>1, <1>2, <1>3 DEF Served
<1>11. AllProven BY <1>3, <1>4 DEF AllProven
<1> QED BY <1>4, <1>5, <1>6, <1>7, <1>8, <1>9, <1>10, <1>11 DEF StandaloneInv

\* Every reachable state has the inductive invariant, whatever the daemon
\* refuses and wherever the process dies.
THEOREM StandaloneInvariant == Spec => []StandaloneInv
<1>1. StandaloneInv /\ [Next]_vars => StandaloneInv'
  <2> SUFFICES ASSUME StandaloneInv, [Next]_vars PROVE StandaloneInv' OBVIOUS
  <2>1. CASE UNCHANGED vars
    <3>1. JobShape' /\ NamesUnique' /\ IdsFresh' /\ JobKnows' /\ CanGoBack' /\ Served' /\ PutBack'
          /\ AllProven'
      BY <2>1, HostStill DEF vars
    <3>2. HostShape' /\ IdsSuffice' BY <2>1 DEF vars, StandaloneInv, HostShape, IdsSuffice
    <3> QED BY <3>1, <3>2 DEF StandaloneInv
  <2>2. CASE (\E k \in Kinds : Request(k)) \/ SoloCollect \/ SoloWrite BY <2>2, AroundInv
  <2>3. CASE Crash BY <2>3, CrashInv
  <2>4. CASE \E k \in Kinds : Load(k) BY <2>4, LoadInv
  <2>5. CASE Check \/ Snapshot \/ Pull BY <2>5, PrepareInv
  <2>6. CASE Clear("aside", "clearAside", "clearMain") BY <2>6, ClearInv
  <2>7. CASE Clear("main", "clearMain", "stop") BY <2>7, ClearInv
  <2>8. CASE StopOld \/ RenameOld BY <2>8, StopInv, RenameInv
  <2>9. CASE CreateNew \/ StartNew \/ Health BY <2>9, CreateInv, TrialInv
  <2>10. CASE DisposeNew \/ RenameBack \/ Revive BY <2>10, DisposeInv, BackInv, ReviveInv
  <2>11. CASE DropOld \/ Runtime BY <2>11, DropInv, RuntimeInv
  <2> QED BY <2>1, <2>2, <2>3, <2>4, <2>5, <2>6, <2>7, <2>8, <2>9, <2>10, <2>11 DEF Next, HandlerStep
<1> QED BY <1>1, StandaloneInitInv, PTL DEF Spec

\* The ids Docker gives out suffice, and a job keeps only ids and images that
\* exist.
THEOREM StandaloneTypeCorrect == Spec => []TypeOK
<1>1. StandaloneInv => TypeOK
  <2> SUFFICES ASSUME StandaloneInv PROVE TypeOK OBVIOUS
  <2>1. soloJob.at \in Steps /\ soloJob.kind \in Kinds /\ {soloJob.cur, soloJob.new} \subseteq Ids \union {NoId}
    BY DEF StandaloneInv, JobShape
  <2>2. svc.id \in Ids /\ svc.img \in Images BY DEF StandaloneInv, HostShape
  <2> QED BY <2>1, <2>2 DEF TypeOK, StandaloneInv, HostShape
<1> QED BY <1>1, StandaloneInvariant, PTL

\* Between jobs a container runs under the service's name (recreate's
\* restoreOld and its success path).  Outside of the theorem are a refused
\* clean-up call, a half create, a rollback that set out from the id of a
\* container that is gone, and a recreate a crash cut off.
THEOREM NameIsServed == Spec => []ServedUnderItsName
<1>1. StandaloneInv => ServedUnderItsName
  <2> SUFFICES ASSUME StandaloneInv, soloJob.at = "idle", ~botched, ~torn PROVE Running(Holder("main"))
    BY DEF ServedUnderItsName
  <2>1. PICK i \in Ids : box[i].name = "main" /\ box[i].state = "running" BY DEF StandaloneInv, Served
  <2>2. Holder("main") = i BY <2>1, HolderIs DEF StandaloneInv
  <2>3. box[i] # Gone BY <2>1 DEF Gone
  <2> QED BY <2>1, <2>2, <2>3 DEF Running, Exists
<1> QED BY <1>1, StandaloneInvariant, PTL

\* A failed apply or rollback has put back the very container it started from,
\* also after crashes; not after a refused clean-up call or a half create, nor
\* when a rollback's container was gone before it started.
THEOREM FailureRestores == Spec => []FailedJobKeepsContainer
<1>1. StandaloneInv => FailedJobKeepsContainer
  <2> SUFFICES ASSUME StandaloneInv, soloJob.done = "failed", soloJob.at = "idle", ~botched
               PROVE  Holder("main") = soloJob.cur /\ Running(soloJob.cur)
    BY DEF FailedJobKeepsContainer
  <2>1. soloJob.cur \in Ids /\ box[soloJob.cur].name = "main" /\ box[soloJob.cur].state = "running"
    BY DEF StandaloneInv, PutBack
  <2>2. Holder("main") = soloJob.cur BY <2>1, HolderIs DEF StandaloneInv
  <2>3. box[soloJob.cur] # Gone BY <2>1 DEF Gone
  <2> QED BY <2>1, <2>2, <2>3 DEF Running, Exists
<1> QED BY <1>1, StandaloneInvariant, PTL

\* There is always a container left that was healthy once, as long as nothing
\* crashed, no clean-up call was refused, no create half succeeded and no
\* rollback set out from the id of a container that is gone.
THEOREM HealthyOneRemains == Spec => []LastGoodKept
<1>1. StandaloneInv => LastGoodKept
  <2> SUFFICES ASSUME StandaloneInv, ~botched, soloSpent["crashes"] = 0 PROVE \E i \in good : Exists(i)
    BY DEF LastGoodKept
  <2>1. ~torn BY DEF StandaloneInv, AllProven
  <2>2. \A i \in Ids : box[i] # Gone => i \in good \/ (i = soloJob.new /\ soloJob.at \in OnTrial)
    BY DEF StandaloneInv, AllProven
  <2>3. soloJob.at \in Steps BY DEF StandaloneInv, JobShape
  <2>4. CASE soloJob.at \in {"idle", "check", "snapshot", "pull", "clearAside", "clearMain"}
    <3>1. PICK i \in Ids : box[i].name = "main" BY <2>1, <2>4 DEF StandaloneInv, Served
    <3>2. box[i] # Gone BY <3>1 DEF Gone
    <3> QED BY <2>2, <2>4, <3>1, <3>2 DEF OnTrial, Exists
  <2>5. CASE soloJob.at \in {"drop", "runtime"}
    <3>1. soloJob.new \in Ids /\ box[soloJob.new].name = "main" BY <2>5 DEF StandaloneInv, JobKnows, Successor
    <3>2. box[soloJob.new] # Gone BY <3>1 DEF Gone
    <3> QED BY <2>2, <2>5, <3>1, <3>2 DEF OnTrial, Exists
  <2>6. CASE soloJob.at \in {"stop", "rename", "create", "start", "health", "dispose", "back", "revive"}
    <3>1. Exists(soloJob.cur) BY <2>6 DEF StandaloneInv, CanGoBack
    <3>2. soloJob.at \in OnTrial => soloJob.cur # soloJob.new
      BY <2>6, StandaloneAssumption, <3>1
         DEF StandaloneInv, JobKnows, SetAside, Successor, OnTrial, Exists, Ids, NoId
    <3> QED BY <2>2, <3>1, <3>2 DEF Exists
  <2> QED BY <2>3, <2>4, <2>5, <2>6 DEF Steps
<1> QED BY <1>1, StandaloneInvariant, PTL
===============================================================================
