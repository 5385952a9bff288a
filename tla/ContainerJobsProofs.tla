-------------------------- MODULE ContainerJobsProofs --------------------------
(***************************************************************************)
(* Proofs about Inventory and ContainerJobs, for any services, projects,   *)
(* grace period, dependents, clock and number of upsets.                   *)
(*                                                                         *)
(* A pass writes from a list it read earlier and a job from rows it read   *)
(* earlier.  HostInv says what of that is still true when they write.      *)
(***************************************************************************)
EXTENDS ContainerJobs, FiniteSetTheorems, WellFoundedInduction, TLAPS

Sights == [ids : SUBSET Ids, state : BoxStates]
Sources == {"discovered", "manual"}

HostShape ==
  /\ box \in [Ids -> {NoBox} \union [svc : Services, state : BoxStates]]
  /\ nextBox \in Nat /\ nextBox > 0 /\ used \in Nat /\ used <= MaxUpsets
  /\ nextBox <= Len(ServiceSeq) + used + 1
  /\ onDisk \subseteq Projects
  /\ clock \in Nat
  /\ lastSeen \in [Services -> {Never} \union Nat]
  /\ alive \in BOOLEAN

RowShape ==
  /\ projRow \in [Projects -> {NoRow} \union ProjectRows]
  /\ svcRow \in [Services -> {NoRow} \union ServiceRows]

PassShape ==
  pass \in [at : {"idle", "upsert", "gone", "prune"}, next : Nat,
            sight : [Services -> {NoSight, Written} \union Sights],
            listed : [Projects -> {"none"} \union Sources]]

JobShape ==
  /\ queue \in Seq([type : JobTypes, svc : Services])
  /\ job \in [at : {"idle", "act", "runtime", "inspect", "state"}, type : JobTypes,
              svc : Services \union {NoRow}, todo : Seq(Calls \X Ids), found : SUBSET Ids,
              state : BoxStates \union {"none"}, quiet : BOOLEAN]

\* No service row without its project's.
ForeignKey == \A s \in Services : svcRow[s] # NoRow => projRow[ProjectOf[s]] # NoRow

\* The source of a project a pass has listed is still what the pass believes.
ListHolds ==
  \A p \in Projects :
    pass.listed[p] # "none" => projRow[p] # NoRow /\ projRow[p].source = pass.listed[p]

\* What the pass has not written yet is as it was collected.
StillToWrite ==
  pass.at = "upsert" =>
    /\ pass.next > 0
    /\ \A i \in DOMAIN ServiceSeq : i >= pass.next => pass.sight[ServiceSeq[i]] # Written

\* A row is marked gone after the service was last seen, and unmarked when it
\* is seen again.
GoneAfterSeen ==
  \A s \in Services :
    /\ lastSeen[s] <= clock
    /\ svcRow[s] # NoRow /\ svcRow[s].gone # Never => lastSeen[s] <= svcRow[s].gone

JobAtStep ==
  /\ job.at # "idle" => job.svc \in Services
  /\ job.at \in {"runtime", "inspect"} => job.found # {}
  /\ job.at = "state" => job.state \in BoxStates

\* A job removes or it starts and stops, and it stops before it starts.
CallsOfType(q, t) ==
  \A n \in 1..Len(q) : q[n][1] \in IF t = "remove" THEN {"inspect", "remove"} ELSE {"stop", "start"}

StopsFirst(q) ==
  \A n \in 1..Len(q) : q[n][1] = "stop" => \A m \in 1..n : q[m][1] = "stop"

\* As long as the rows were right: before the target is stopped, every
\* dependent is or will be; before a dependent is started, the target is up
\* and stays, or will be.
StopsCovered(q, s) ==
  \A n \in 1..Len(q) :
    q[n][1] = "stop" /\ box[q[n][2]].svc = s =>
      \A d \in Dependents[s] : \A k \in BoxesOf(d) :
        box[k].state = "exited" \/ \E m \in 1..(n - 1) : q[m] = <<"stop", k>>

StartsCovered(q, s) ==
  \A n \in 1..Len(q) :
    q[n][1] = "start" /\ box[q[n][2]].svc # s =>
      \A k \in BoxesOf(s) :
        \/ \E m \in 1..(n - 1) : q[m] = <<"start", k>>
        \/ box[k].state = "running" /\ \A m \in 1..(n - 1) : q[m] # <<"stop", k>>

Covered(q, s) == StopsCovered(q, s) /\ StartsCovered(q, s)

InOrder ==
  job.at = "act" =>
    /\ CallsOfType(job.todo, job.type)
    /\ job.type # "remove" => StopsFirst(job.todo) /\ (job.quiet => Covered(job.todo, job.svc))

HostInv ==
  /\ HostShape /\ RowShape /\ PassShape /\ JobShape
  /\ ForeignKey /\ ListHolds /\ StillToWrite /\ GoneAfterSeen
  /\ JobAtStep /\ InOrder

-----------------------------------------------------------------------------
(* Sets of ids and lists of services.                                      *)

\* The services in their order and their projects.
LEMMA ServiceFacts ==
  /\ DOMAIN ServiceSeq = 1..Len(ServiceSeq) /\ Len(ServiceSeq) \in Nat
  /\ \A i \in 1..Len(ServiceSeq) : ServiceSeq[i] \in Services
  /\ \A s \in Services : ProjectOf[s] \in Projects
<1>1. DOMAIN ServiceSeq = 1..Len(ServiceSeq) /\ Len(ServiceSeq) \in Nat BY InventoryAssumption
<1> QED BY <1>1 DEF Services, Projects, ProjectsOf

\* Container ids are finitely many numbers.
LEMMA IdFacts == Ids \subseteq Nat /\ Len(ServiceSeq) + MaxUpsets \in Nat /\ IsFiniteSet(Ids)
<1>1. Len(ServiceSeq) + MaxUpsets \in Nat BY ServiceFacts, InventoryAssumption
<1>2. IsFiniteSet(Ids) BY <1>1, FS_Interval DEF Ids
<1> QED BY <1>1, <1>2 DEF Ids

\* A nonempty set of numbers has a least one; so a set of ids has a newest.
LEMMA LeastNatural ==
  ASSUME NEW T, T \subseteq Nat, T # {}
  PROVE  \E x \in T : \A y \in T : x <= y
<1> DEFINE R == {ss \in Nat \X Nat : ss[1] < ss[2]}
<1>1. IsWellFoundedOn(R, Nat) BY NatLessThanWellFounded DEF OpToRel
<1> HIDE DEF R
<1>2. PICK x \in T : \A y \in T : ~(<<y, x>> \in R) BY <1>1, WFMin
<1>3. ASSUME NEW y \in T PROVE x <= y
  <2>1. <<y, x>> \notin R BY <1>2
  <2>2. ~(y < x) BY <2>1 DEF R
  <2> QED BY <2>2
<1> QED BY <1>2, <1>3

\* The CHOOSE of a newest id finds one in the set.
LEMMA NewestId ==
  ASSUME NEW ids, ids \subseteq Ids, ids # {}
  PROVE  (CHOOSE i \in ids : \A j \in ids : j <= i) \in ids
<1> DEFINE N == Len(ServiceSeq) + MaxUpsets
           U == {N - i : i \in ids}
<1>1. N \in Nat /\ \A i \in ids : i \in Nat /\ i <= N /\ N - i \in Nat BY IdFacts DEF Ids
<1>2. U \subseteq Nat
  <2> HIDE DEF N
  <2> QED BY <1>1
<1>3. U # {} OBVIOUS
<1> HIDE DEF N, U
<1>4. PICK u \in U : \A v \in U : u <= v BY <1>2, <1>3, LeastNatural
<1>5. PICK x \in ids : u = N - x BY DEF U
<1>6. ASSUME NEW y \in ids PROVE y <= x
  <2>1. N - y \in U BY DEF U
  <2>2. N - x <= N - y BY <1>4, <1>5, <2>1
  <2> QED BY <1>1, <2>2
<1> QED BY <1>6

\* The calls a job makes for a set of containers.
LEMMA ListedFacts ==
  ASSUME NEW ids, ids \subseteq Ids
  PROVE  /\ Cardinality(ids) \in Nat
         /\ Listed(ids) \in [1..Cardinality(ids) -> ids]
         /\ \A i \in ids : \E n \in 1..Cardinality(ids) : Listed(ids)[n] = i
<1>1. IsFiniteSet(ids) BY IdFacts, FS_Subset
<1>2. Cardinality(ids) \in Nat /\ ExistsBijection(1..Cardinality(ids), ids) BY <1>1, FS_CardinalityType
<1>3. PICK f \in [1..Cardinality(ids) -> ids] :
        \A i \in ids : \E n \in 1..Cardinality(ids) : f[n] = i
  BY <1>2 DEF ExistsBijection, Bijection, Injection, Surjection
<1> QED BY <1>2, <1>3 DEF Listed

ListsCalls(q, call, ids) ==
  /\ q \in Seq(Calls \X Ids)
  /\ \A n \in 1..Len(q) : q[n][1] = call /\ q[n][2] \in ids
  /\ \A i \in ids : \E n \in 1..Len(q) : q[n] = <<call, i>>

\* CallAll makes one call for each container of the set.
LEMMA CallAllFacts ==
  ASSUME NEW call \in Calls, NEW ids \in SUBSET Ids
  PROVE  ListsCalls(CallAll(call, ids), call, ids)
<1> DEFINE c == Cardinality(ids)
           q == CallAll(call, ids)
<1>1. c \in Nat /\ Listed(ids) \in [1..c -> ids] /\ \A i \in ids : \E n \in 1..c : Listed(ids)[n] = i
  BY ListedFacts
<1>2. q = [n \in 1..c |-> <<call, Listed(ids)[n]>>] BY DEF CallAll
<1> HIDE DEF c, q
<1>3. q \in Seq(Calls \X Ids) /\ Len(q) = c BY <1>1, <1>2
<1>4. \A n \in 1..c : q[n] = <<call, Listed(ids)[n]>> /\ Listed(ids)[n] \in ids BY <1>1, <1>2
<1>5. (\A n \in 1..Len(q) : q[n][1] = call /\ q[n][2] \in ids) BY <1>3, <1>4
<1>6. \A i \in ids : \E n \in 1..Len(q) : q[n] = <<call, i>> BY <1>1, <1>3, <1>4
<1>7. ListsCalls(q, call, ids) BY <1>3, <1>5, <1>6 DEF ListsCalls
<1> QED BY <1>7 DEF q

-----------------------------------------------------------------------------
(* Docker's containers and the rows.                                       *)

\* A container that exists has a service and a state.
LEMMA BoxFacts ==
  ASSUME HostShape, NEW i \in Ids
  PROVE  /\ box[i] = NoBox <=> box[i].svc = NoRow
         /\ box[i] # NoBox => /\ box[i] \in [svc : Services, state : BoxStates]
                              /\ box[i].svc \in Services /\ box[i].state \in BoxStates
         /\ box[i].state \in BoxStates => box[i] # NoBox
BY NoRowAssumption DEF HostShape, NoBox, BoxStates

\* A container starts, stops, disappears or is created.
LEMMA SetState ==
  ASSUME HostShape, NEW i \in Ids, box[i] # NoBox, NEW st \in BoxStates,
         box' = [box EXCEPT ![i].state = st]
  PROVE  /\ box' \in [Ids -> {NoBox} \union [svc : Services, state : BoxStates]]
         /\ box'[i].svc = box[i].svc /\ box'[i].state = st
         /\ \A j \in Ids \ {i} : box'[j] = box[j]
<1> DEFINE r == [box[i] EXCEPT !.state = st]
<1>1. r \in [svc : Services, state : BoxStates] /\ r.svc = box[i].svc /\ r.state = st BY BoxFacts
<1>2. box' = [box EXCEPT ![i] = r] /\ box \in [Ids -> {NoBox} \union [svc : Services, state : BoxStates]]
  BY DEF HostShape
<1> HIDE DEF r
<1> QED BY <1>1, <1>2

\* What a pass sees of a service is never a sight already written.
LEMMA SightFacts ==
  ASSUME HostShape, NEW s \in Services, NEW skipped
  PROVE  Seen(s, skipped) \in {NoSight} \union Sights /\ Seen(s, skipped) # Written
<1> DEFINE ids == BoxesOf(s) \ skipped
           i == CHOOSE k \in ids : \A j \in ids : j <= k
<1>1. CASE ids = {} BY <1>1 DEF Seen, NoSight, Written
<1>2. CASE ids # {}
  <2>1. ids \subseteq Ids BY DEF BoxesOf
  <2>2. i \in ids BY <1>2, <2>1, NewestId
  <2>3. i \in Ids /\ box[i].svc = s BY <2>2 DEF BoxesOf
  <2>4. box[i].state \in BoxStates BY <2>3, BoxFacts, NoRowAssumption
  <2>5. Seen(s, skipped) = [ids |-> ids, state |-> box[i].state] BY <1>2 DEF Seen
  <2> HIDE DEF i, ids
  <2> QED BY <2>1, <2>4, <2>5 DEF Sights, Written, BoxStates
<1> QED BY <1>1, <1>2

\* An idle pass has seen and listed nothing.
LEMMA NoPassFacts ==
  /\ NoPass.at = "idle" /\ \A p \in Projects : NoPass.listed[p] = "none"
  /\ NoPass \in [at : {"idle", "upsert", "gone", "prune"}, next : Nat,
                 sight : [Services -> {NoSight, Written} \union Sights],
                 listed : [Projects -> {"none"} \union Sources]]
BY DEF NoPass

-----------------------------------------------------------------------------
(* Steps that leave the rows, or the job, alone.                           *)

\* The order of a job's calls is about the job and the containers only.
LEMMA OrderStill == ASSUME InOrder, UNCHANGED <<box, job>> PROVE InOrder'
<1>1. CallsOfType(job.todo, job.type)' <=> CallsOfType(job.todo, job.type) BY DEF CallsOfType
<1>2. StopsFirst(job.todo)' <=> StopsFirst(job.todo) BY DEF StopsFirst
<1>3. StopsCovered(job.todo, job.svc)' <=> StopsCovered(job.todo, job.svc) BY DEF StopsCovered, BoxesOf
<1>4. StartsCovered(job.todo, job.svc)' <=> StartsCovered(job.todo, job.svc) BY DEF StartsCovered, BoxesOf
<1> QED BY <1>1, <1>2, <1>3, <1>4 DEF InOrder, Covered

\* Nothing about the job changes with the rows.
LEMMA JobStill ==
  ASSUME HostInv, UNCHANGED <<box, queue, job>>
  PROVE  JobShape' /\ JobAtStep' /\ InOrder'
<1>1. JobShape' BY DEF HostInv, JobShape
<1>2. JobAtStep' BY DEF HostInv, JobAtStep
<1>3. InOrder' BY OrderStill DEF HostInv
<1> QED BY <1>1, <1>2, <1>3

\* A job that is not there.
LEMMA NoJobInv ==
  ASSUME job' = NoJob, queue' \in Seq([type : JobTypes, svc : Services])
  PROVE  JobShape' /\ JobAtStep' /\ InOrder'
<1>1. << >> \in Seq(Calls \X Ids) OBVIOUS
<1>2. JobShape' /\ job'.at = "idle" BY <1>1 DEF JobShape, NoJob, JobTypes
<1> QED BY <1>2 DEF JobAtStep, InOrder

\* Nothing about the rows changes with the containers or the job.
LEMMA RowsStill ==
  ASSUME HostInv, UNCHANGED <<projRow, svcRow, pass, clock, lastSeen>>
  PROVE  RowShape' /\ PassShape' /\ ForeignKey' /\ ListHolds' /\ StillToWrite' /\ GoneAfterSeen'
<1> USE DEF HostInv
<1>1. RowShape' /\ PassShape' BY DEF RowShape, PassShape
<1>2. ForeignKey' /\ ListHolds' BY DEF ForeignKey, ListHolds
<1>3. StillToWrite' /\ GoneAfterSeen' BY DEF StillToWrite, GoneAfterSeen
<1> QED BY <1>1, <1>2, <1>3

\* Containers keep their shape and ids last when a bound is counted up.
LEMMA Upsets ==
  ASSUME HostShape, Upset \/ UNCHANGED used, nextBox' = nextBox, UNCHANGED lastSeen,
         box' \in [Ids -> {NoBox} \union [svc : Services, state : BoxStates]],
         onDisk' \subseteq Projects, clock' \in Nat, alive' \in BOOLEAN
  PROVE  HostShape'
<1>1. used' \in Nat /\ used' <= MaxUpsets /\ used' >= used BY InventoryAssumption DEF HostShape, Upset
<1>2. nextBox <= Len(ServiceSeq) + used' + 1 BY <1>1, ServiceFacts DEF HostShape
<1> QED BY <1>1, <1>2 DEF HostShape

\* Somebody else moves containers: what the job knows is not quiet any more.
LEMMA HostStepInv == ASSUME HostInv, HostStep PROVE HostInv'
<1> USE DEF HostStep, HostMoves
<1>1. HostShape /\ JobShape BY DEF HostInv
<1>2. HostShape'
  <2>1. UNCHANGED <<onDisk, clock, lastSeen, alive>> OBVIOUS
  <2>2. CASE \E i \in Ids : HostStops(i) \/ HostStarts(i) \/ HostRemoves(i)
    <3>1. PICK i \in Ids : HostStops(i) \/ HostStarts(i) \/ HostRemoves(i) BY <2>2
    <3>2. box' \in [Ids -> {NoBox} \union [svc : Services, state : BoxStates]]
      <4>1. CASE HostStops(i)
        <5>1. box[i] # NoBox BY <4>1 DEF HostStops, NoBox
        <5> QED BY <1>1, <4>1, <5>1, SetState DEF HostStops, BoxStates
      <4>2. CASE HostStarts(i)
        <5>1. box[i] # NoBox BY <4>2 DEF HostStarts, NoBox
        <5> QED BY <1>1, <4>2, <5>1, SetState DEF HostStarts, BoxStates
      <4>3. CASE HostRemoves(i) BY <1>1, <4>3 DEF HostRemoves, HostShape
      <4> QED BY <3>1, <4>1, <4>2, <4>3
    <3>3. nextBox' = nextBox BY <3>1 DEF HostStops, HostStarts, HostRemoves
    <3> QED BY <1>1, <2>1, <3>2, <3>3, Upsets DEF HostShape
  <2>3. CASE \E s \in Services : HostCreates(s)
    <3>1. PICK s \in Services : HostCreates(s) BY <2>3
    <3>2. [svc |-> s, state |-> "running"] \in [svc : Services, state : BoxStates] BY DEF BoxStates
    <3>3. box' \in [Ids -> {NoBox} \union [svc : Services, state : BoxStates]]
      BY <1>1, <3>1, <3>2 DEF HostCreates, HostShape
    <3>4. used' \in Nat /\ used' <= MaxUpsets /\ used' = used + 1 /\ nextBox' = nextBox + 1
      BY <1>1, <3>1, InventoryAssumption DEF HostShape, Upset, HostCreates
    <3>5. nextBox' \in Nat /\ nextBox' > 0 /\ nextBox' <= Len(ServiceSeq) + used' + 1
      BY <1>1, <3>4, ServiceFacts DEF HostShape
    <3> QED BY <1>1, <2>1, <3>3, <3>4, <3>5 DEF HostShape
  <2> QED BY <2>2, <2>3
<1>3. RowShape' /\ PassShape' /\ ForeignKey' /\ ListHolds' /\ StillToWrite' /\ GoneAfterSeen'
  BY RowsStill DEF rowVars
<1>4. JobShape' /\ JobAtStep' /\ InOrder'
  <2> DEFINE q == job.at = "idle"
  <2>1. q \in BOOLEAN /\ job' = [job EXCEPT !.quiet = q] OBVIOUS
  <2>2. JobShape' BY <1>1, <2>1 DEF JobShape
  <2>3. /\ job'.at = job.at /\ job'.type = job.type /\ job'.svc = job.svc /\ job'.todo = job.todo
        /\ job'.found = job.found /\ job'.state = job.state /\ (job'.quiet => job.at = "idle")
    BY <1>1 DEF JobShape
  <2>4. JobAtStep' BY <2>3 DEF HostInv, JobAtStep
  <2>5. InOrder' BY <2>3 DEF HostInv, InOrder, CallsOfType, StopsFirst
  <2> QED BY <2>2, <2>4, <2>5
<1> QED BY <1>2, <1>3, <1>4 DEF HostInv

\* Files move, time passes, the process dies or boots.
LEMMA QuietInv == ASSUME HostInv, FilesStep \/ ClockStep \/ Crash \/ Boot PROVE HostInv'
<1>1. HostShape /\ JobShape BY DEF HostInv
<1>2. CASE FilesStep
  <2> USE <1>2 DEF FilesStep, FilesMove, jobVars, rowVars
  <2>1. HostShape' BY <1>1, Upsets DEF HostShape
  <2> QED BY <2>1, JobStill, RowsStill DEF HostInv
<1>3. CASE ClockStep
  <2> USE <1>3 DEF ClockStep, Tick, jobVars, rowVars
  <2>1. HostShape' BY <1>1, Upsets DEF HostShape
  <2>2. RowShape' /\ PassShape' /\ ForeignKey' /\ ListHolds' /\ StillToWrite'
    BY DEF HostInv, RowShape, PassShape, ForeignKey, ListHolds, StillToWrite
  <2>3. GoneAfterSeen'
    <3>1. \A s \in Services : lastSeen[s] \in {Never} \union Nat BY <1>1 DEF HostShape
    <3>2. \A s \in Services : lastSeen[s] <= clock' BY <1>1, <3>1 DEF HostInv, GoneAfterSeen, HostShape, Never
    <3> QED BY <3>2 DEF HostInv, GoneAfterSeen
  <2> QED BY <2>1, <2>2, <2>3, JobStill DEF HostInv
<1>4. CASE Crash
  <2> USE <1>4 DEF Crash, rowVars
  <2>1. HostShape' BY <1>1, Upsets DEF HostShape
  <2>2. RowShape' /\ ForeignKey' /\ GoneAfterSeen' BY DEF HostInv, RowShape, ForeignKey, GoneAfterSeen
  <2>3. PassShape' /\ ListHolds' /\ StillToWrite' BY NoPassFacts DEF PassShape, ListHolds, StillToWrite
  <2> QED BY <2>1, <2>2, <2>3, JobStill DEF HostInv
<1>5. CASE Boot
  <2> USE <1>5 DEF Boot, inventoryVars, rowVars
  <2>1. HostShape' BY <1>1, Upsets DEF HostShape
  <2>2. queue' \in Seq([type : JobTypes, svc : Services])
    <3>1. CASE job.at = "idle" BY <1>1, <3>1 DEF JobShape
    <3>2. CASE job.at # "idle"
      <4>1. job.svc \in Services /\ job.type \in JobTypes BY <1>1, <3>2 DEF HostInv, JobAtStep, JobShape
      <4>2. <<[type |-> job.type, svc |-> job.svc]>> \in Seq([type : JobTypes, svc : Services]) BY <4>1
      <4> QED BY <1>1, <3>2, <4>2 DEF JobShape
    <3> QED BY <3>1, <3>2
  <2>3. JobShape' /\ JobAtStep' /\ InOrder' BY <2>2, NoJobInv
  <2> QED BY <2>1, <2>3, RowsStill DEF HostInv
<1> QED BY <1>2, <1>3, <1>4, <1>5

-----------------------------------------------------------------------------
(* The passes and the registration.                                        *)

\* An upsert of a project keeps the source of a row that is there.
LEMMA UpsertFacts ==
  ASSUME RowShape, NEW p \in Projects, NEW source \in Sources, NEW files \in {"label", "user"}
  PROVE  /\ ProjectUpsert(p, source, files) \in ProjectRows
         /\ projRow[p] # NoRow => ProjectUpsert(p, source, files).source = projRow[p].source
<1>1. CASE projRow[p] = NoRow BY <1>1 DEF ProjectUpsert, ProjectRows, Sources
<1>2. CASE projRow[p] # NoRow
  <2>1. projRow[p] \in ProjectRows BY <1>2 DEF RowShape
  <2> QED BY <1>2, <2>1 DEF ProjectUpsert, ProjectRows
<1> QED BY <1>1, <1>2

\* The source of a row, once written, stays.
LEMMA RefreshedFacts ==
  ASSUME RowShape, ListHolds, NEW p \in Projects
  PROVE  /\ Refreshed(p) \in ProjectRows
         /\ projRow[p] # NoRow => Refreshed(p).source = projRow[p].source
<1> DEFINE r == IF pass.listed[p] = "manual" THEN projRow[p] ELSE ProjectUpsert(p, "discovered", "label")
           u == IF p \in Standalone THEN r.unmanaged ELSE p \notin onDisk
<1>1. r \in ProjectRows /\ (projRow[p] # NoRow => r.source = projRow[p].source)
  <2>1. CASE pass.listed[p] = "manual" BY <2>1 DEF RowShape, ListHolds
  <2>2. CASE pass.listed[p] # "manual" BY <2>2, UpsertFacts DEF Sources
  <2> QED BY <2>1, <2>2
<1>2. Refreshed(p) = [r EXCEPT !.unmanaged = u] BY DEF Refreshed
<1>3. u \in BOOLEAN BY <1>1 DEF ProjectRows
<1> HIDE DEF r, u
<1> QED BY <1>1, <1>2, <1>3 DEF ProjectRows

\* A pass collects what Docker has and lists what the table has.
LEMMA CollectInv == ASSUME HostInv, alive, PassCollect, UNCHANGED jobVars PROVE HostInv'
<1> USE DEF PassCollect, rowVars, jobVars
<1>1. HostShape /\ RowShape BY DEF HostInv
<1>2. HostShape' BY <1>1, Upsets DEF HostShape
<1>3. PICK skipped :
        pass' = [at |-> "upsert", next |-> 1, sight |-> [s \in Services |-> Seen(s, skipped)],
                 listed |-> [p \in Projects |-> IF projRow[p] = NoRow THEN "none" ELSE projRow[p].source]]
  OBVIOUS
<1> DEFINE sg == [s \in Services |-> Seen(s, skipped)]
           ls == [p \in Projects |-> IF projRow[p] = NoRow THEN "none" ELSE projRow[p].source]
<1>4. sg \in [Services -> {NoSight, Written} \union Sights] /\ \A s \in Services : sg[s] # Written
  BY <1>1, SightFacts
<1>5. ls \in [Projects -> {"none"} \union Sources] BY <1>1 DEF RowShape, ProjectRows, Sources
<1>6. \A p \in Projects : ls[p] # "none" => projRow[p] # NoRow /\ projRow[p].source = ls[p] OBVIOUS
<1> HIDE DEF sg, ls
<1>7. pass' = [at |-> "upsert", next |-> 1, sight |-> sg, listed |-> ls] BY <1>3 DEF sg, ls
<1>8. PassShape' BY <1>4, <1>5, <1>7 DEF PassShape
<1>9. ListHolds' BY <1>6, <1>7 DEF ListHolds
<1>10. StillToWrite' BY <1>4, <1>7, ServiceFacts DEF StillToWrite
<1>11. RowShape' /\ ForeignKey' /\ GoneAfterSeen' BY DEF HostInv, RowShape, ForeignKey, GoneAfterSeen
<1> QED BY <1>2, <1>8, <1>9, <1>10, <1>11, JobStill DEF HostInv

\* A pass that fails leaves the rows as they are.
LEMMA AbortInv == ASSUME HostInv, ReconcileFails PROVE HostInv'
<1> USE DEF ReconcileFails, PassAborts, rowVars, jobVars
<1>1. HostShape' BY Upsets DEF HostInv, HostShape
<1>2. RowShape' /\ ForeignKey' /\ GoneAfterSeen' BY DEF HostInv, RowShape, ForeignKey, GoneAfterSeen
<1>3. PassShape' /\ ListHolds' /\ StillToWrite' BY NoPassFacts DEF PassShape, ListHolds, StillToWrite
<1> QED BY <1>1, <1>2, <1>3, JobStill DEF HostInv

\* One service and its project are written.
LEMMA PassUpsertInv == ASSUME HostInv, alive, PassUpsert, UNCHANGED jobVars PROVE HostInv'
<1> USE DEF PassUpsert, rowVars, jobVars
<1> DEFINE s == ServiceSeq[pass.next]
           p == ProjectOf[s]
           found == pass.sight[s]
<1>1. HostShape /\ RowShape /\ PassShape /\ ListHolds BY DEF HostInv
<1>2. /\ pass.at = "upsert" /\ pass.next \in 1..Len(ServiceSeq)
      /\ s \in Services /\ p \in Projects /\ found # Written
      /\ found \in {NoSight} \union Sights
  <2>1. pass.at = "upsert" /\ pass.next \in 1..Len(ServiceSeq)
    BY <1>1, ServiceFacts DEF HostInv, StillToWrite, PassShape
  <2>2. s \in Services /\ p \in Projects BY <2>1, ServiceFacts
  <2>3. found # Written BY <2>1, ServiceFacts DEF HostInv, StillToWrite
  <2>4. found \in {NoSight, Written} \union Sights BY <1>1, <2>2 DEF PassShape
  <2> QED BY <2>1, <2>2, <2>3, <2>4
<1>3. Refreshed(p) \in ProjectRows /\ (projRow[p] # NoRow => Refreshed(p).source = projRow[p].source)
  BY <1>1, <1>2, RefreshedFacts
<1> DEFINE sg == [pass.sight EXCEPT ![s] = IF found = NoSight THEN found ELSE Written]
           at == IF pass.next = Len(ServiceSeq) THEN "gone" ELSE pass.at
<1>4. pass' = [pass EXCEPT !.next = pass.next + 1, !.at = at, !.sight = sg] OBVIOUS
<1>5. sg \in [Services -> {NoSight, Written} \union Sights] /\ at \in {"gone", "upsert"}
      /\ \A z \in Services \ {s} : sg[z] = pass.sight[z]
  BY <1>1, <1>2 DEF PassShape
<1> HIDE DEF sg, at
<1>6. PassShape' /\ pass'.next = pass.next + 1 /\ pass'.sight = sg /\ pass'.listed = pass.listed
  <2> DEFINE nx == pass.next + 1
  <2>1. nx \in Nat BY <1>2
  <2>2. pass' = [pass EXCEPT !.next = nx, !.at = at, !.sight = sg] BY <1>4
  <2> HIDE DEF nx
  <2>3. PassShape' /\ pass'.next = nx /\ pass'.sight = sg /\ pass'.listed = pass.listed
    BY ONLY <1>1, <1>5, <2>1, <2>2 DEF PassShape
  <2> QED BY <2>3 DEF nx
<1>7. StillToWrite'
  <2>1. pass.next \in Nat /\ pass'.next > 0 BY <1>2, <1>6
  <2>2. ASSUME NEW i \in 1..Len(ServiceSeq), i >= pass'.next PROVE pass'.sight[ServiceSeq[i]] # Written
    <3>1. i # pass.next /\ i >= pass.next BY <1>2, <1>6, <2>2
    <3>2. ServiceSeq[i] # s BY <1>2, <3>1, InventoryAssumption, ServiceFacts
    <3>3. pass.sight[ServiceSeq[i]] # Written BY <1>2, <3>1, ServiceFacts DEF HostInv, StillToWrite
    <3> QED BY <1>5, <1>6, <3>2, <3>3, ServiceFacts
  <2> QED BY <2>1, <2>2, ServiceFacts DEF StillToWrite
<1> HIDE DEF s, p, found
<1>8. CASE found = NoSight
  <2>1. UNCHANGED <<projRow, svcRow, lastSeen, box, nextBox, onDisk, clock, used>> BY <1>8 DEF s, p, found
  <2>2. HostShape' BY <1>1, <2>1 DEF HostShape
  <2>3. RowShape' /\ ForeignKey' /\ GoneAfterSeen'
    BY <2>1 DEF HostInv, RowShape, ForeignKey, GoneAfterSeen
  <2>4. ListHolds' BY <1>1, <1>6, <2>1 DEF ListHolds
  <2> QED BY <1>6, <1>7, <2>1, <2>2, <2>3, <2>4, JobStill DEF HostInv
<1>9. CASE found # NoSight
  <2> DEFINE r == Present(found.ids, found.state, s)
  <2>1. /\ projRow' = [projRow EXCEPT ![p] = Refreshed(p)] /\ svcRow' = [svcRow EXCEPT ![s] = r]
        /\ lastSeen' = [lastSeen EXCEPT ![s] = clock]
        /\ UNCHANGED <<box, nextBox, onDisk, clock, used>>
    BY <1>9 DEF s, p, found
  <2>2. r \in ServiceRows /\ r.gone = Never
    BY <1>2, <1>9 DEF Present, ServiceRows, Sights, RowStates
  <2> HIDE DEF r
  <2>3. RowShape' BY <1>1, <1>2, <1>3, <2>1, <2>2 DEF RowShape
  <2>4. /\ projRow'[p] = Refreshed(p) /\ svcRow'[s] = r /\ lastSeen'[s] = clock
        /\ \A q \in Projects \ {p} : projRow'[q] = projRow[q]
        /\ \A z \in Services \ {s} : svcRow'[z] = svcRow[z] /\ lastSeen'[z] = lastSeen[z]
    BY <1>1, <1>2, <2>1 DEF RowShape, HostShape
  <2>5. lastSeen' \in [Services -> {Never} \union Nat] BY <1>1, <1>2, <2>1 DEF HostShape
  <2>6. HostShape' BY <1>1, <2>1, <2>5 DEF HostShape
  <2>7. Refreshed(p) # NoRow /\ r # NoRow BY <1>3, <2>2, NoRowAssumption
  <2>8. ForeignKey'
    <3>1. ProjectOf[s] = p BY DEF p
    <3>2. \A z \in Services : ProjectOf[z] \in Projects BY ServiceFacts
    <3> QED BY <2>4, <2>7, <3>1, <3>2 DEF HostInv, ForeignKey
  <2>9. ListHolds' BY <1>1, <1>3, <1>6, <2>4, <2>7 DEF ListHolds
  <2>10. GoneAfterSeen'
    <3>1. clock <= clock BY <1>1 DEF HostShape
    <3> QED BY <2>1, <2>2, <2>4, <3>1 DEF HostInv, GoneAfterSeen
  <2> QED BY <1>6, <1>7, <2>1, <2>3, <2>6, <2>8, <2>9, <2>10, JobStill DEF HostInv
<1> QED BY <1>8, <1>9

\* MarkGone keeps the first timestamp.
LEMMA MarkedFacts ==
  ASSUME RowShape, HostShape, NEW s \in Services, svcRow[s] # NoRow
  PROVE  /\ MarkedGone(svcRow[s]) \in ServiceRows
         /\ MarkedGone(svcRow[s]).state = "gone"
         /\ MarkedGone(svcRow[s]).gone = IF svcRow[s].gone = Never THEN clock ELSE svcRow[s].gone
<1> DEFINE r == svcRow[s]
           g == IF r.gone = Never THEN clock ELSE r.gone
<1>1. r \in ServiceRows BY DEF RowShape
<1>2. g \in {Never} \union Nat BY <1>1 DEF ServiceRows, HostShape
<1>3. MarkedGone(r) = [r EXCEPT !.state = "gone", !.gone = g] BY DEF MarkedGone
<1> HIDE DEF r, g
<1>4. MarkedGone(r) \in ServiceRows /\ MarkedGone(r).state = "gone" /\ MarkedGone(r).gone = g
  BY <1>1, <1>2, <1>3 DEF ServiceRows, RowStates
<1> QED BY <1>4 DEF r, g

\* Missed rows are marked gone, later than they were last seen.
LEMMA PassGoneInv == ASSUME HostInv, alive, PassGone, UNCHANGED jobVars PROVE HostInv'
<1> USE DEF PassGone, rowVars, jobVars
<1>1. HostShape /\ RowShape BY DEF HostInv
<1>2. HostShape' BY <1>1 DEF HostShape
<1>3. \A s \in Services :
        /\ svcRow'[s] = IF Missed(s) THEN MarkedGone(svcRow[s]) ELSE svcRow[s]
        /\ Missed(s) => svcRow[s] # NoRow
  BY DEF Missed
<1>4. RowShape'
  <2>1. \A s \in Services : svcRow'[s] \in {NoRow} \union ServiceRows
    BY <1>1, <1>3, MarkedFacts DEF RowShape
  <2>2. svcRow' = [s \in Services |-> svcRow'[s]] OBVIOUS
  <2> HIDE DEF PassGone
  <2>3. svcRow' \in [Services -> {NoRow} \union ServiceRows] BY ONLY <2>1, <2>2
  <2> QED BY <1>1, <2>3 DEF RowShape, PassGone
<1>5. ForeignKey' BY <1>3 DEF HostInv, ForeignKey
<1>6. GoneAfterSeen' BY <1>1, <1>3, MarkedFacts DEF HostInv, GoneAfterSeen
<1>7. PassShape' /\ ListHolds' /\ StillToWrite'
  <2>1. pass' = [NoPass EXCEPT !.at = "prune"] OBVIOUS
  <2>2. PassShape' /\ pass'.at = "prune" /\ pass'.listed = NoPass.listed BY <2>1, NoPassFacts DEF PassShape
  <2> QED BY <2>2, NoPassFacts DEF ListHolds, StillToWrite
<1> QED BY <1>2, <1>4, <1>5, <1>6, <1>7, JobStill DEF HostInv

\* Rows are deleted whose service had not been seen for the grace period, and
\* projects without rows.
LEMMA PruneFacts ==
  ASSUME HostInv, PassPrune
  PROVE  /\ RowShape' /\ ForeignKey'
         /\ \A s \in Services :
              \/ svcRow'[s] = svcRow[s]
              \/ /\ svcRow'[s] = NoRow /\ svcRow[s] # NoRow /\ Expired(svcRow[s])
                 /\ projRow[ProjectOf[s]].source = "discovered"
<1> USE DEF PassPrune
<1>1. RowShape BY DEF HostInv
<1>2. PICK dead, empty :
        /\ dead \subseteq {s \in Services : Prunable(ProjectOf[s]) /\ svcRow[s] # NoRow /\ Expired(svcRow[s])}
        /\ \A p \in empty : \A s \in {z \in Services \ dead : svcRow[z] # NoRow} : ProjectOf[s] # p
        /\ svcRow' = [s \in Services |-> IF s \in dead THEN NoRow ELSE svcRow[s]]
        /\ projRow' = [p \in Projects |-> IF p \in empty THEN NoRow ELSE projRow[p]]
  <2>1. PICK done \in {ProjectsOf(n) : n \in 0..Len(ServiceSeq)} :
          LET dead == {s \in Services : /\ ProjectOf[s] \in done /\ Prunable(ProjectOf[s])
                                        /\ svcRow[s] # NoRow /\ Expired(svcRow[s])}
              left == {s \in Services \ dead : svcRow[s] # NoRow}
              empty == {p \in done : Deserted(p, left)}
          IN  /\ svcRow' = [s \in Services |-> IF s \in dead THEN NoRow ELSE svcRow[s]]
              /\ projRow' = [p \in Projects |-> IF p \in empty THEN NoRow ELSE projRow[p]]
    OBVIOUS
  <2> DEFINE dead == {s \in Services : /\ ProjectOf[s] \in done /\ Prunable(ProjectOf[s])
                                       /\ svcRow[s] # NoRow /\ Expired(svcRow[s])}
             left == {s \in Services \ dead : svcRow[s] # NoRow}
             empty == {p \in done : Deserted(p, left)}
  <2>2. \A p \in empty : \A s \in left : ProjectOf[s] # p BY DEF Deserted
  <2>3. dead \subseteq {s \in Services : Prunable(ProjectOf[s]) /\ svcRow[s] # NoRow /\ Expired(svcRow[s])}
    OBVIOUS
  <2>4. /\ svcRow' = [s \in Services |-> IF s \in dead THEN NoRow ELSE svcRow[s]]
        /\ projRow' = [p \in Projects |-> IF p \in empty THEN NoRow ELSE projRow[p]]
    BY <2>1
  <2>5. \A p \in empty : \A s \in {z \in Services \ dead : svcRow[z] # NoRow} : ProjectOf[s] # p BY <2>2
  <2> HIDE DEF dead, empty
  <2> QED BY ONLY <2>3, <2>4, <2>5, Zenon
<1> HIDE DEF PassPrune
<1>3. RowShape' BY <1>1, <1>2 DEF RowShape
<1>4. ForeignKey' BY <1>2, ServiceFacts DEF HostInv, ForeignKey
<1>5. \A s \in Services :
        \/ svcRow'[s] = svcRow[s]
        \/ /\ svcRow'[s] = NoRow /\ svcRow[s] # NoRow /\ Expired(svcRow[s])
           /\ projRow[ProjectOf[s]].source = "discovered"
  BY <1>2 DEF Prunable
<1> QED BY <1>3, <1>4, <1>5

\* Expired rows are deleted, then projects that have none left.
LEMMA PassPruneInv == ASSUME HostInv, alive, PassPrune, UNCHANGED jobVars PROVE HostInv'
<1>1. /\ UNCHANGED <<box, nextBox, onDisk, clock, lastSeen, jobVars>>
      /\ pass' = NoPass /\ (Upset \/ UNCHANGED used)
  BY DEF PassPrune
<1>2. HostShape' BY <1>1, Upsets DEF HostInv, HostShape, jobVars
<1>3. PassShape' /\ ListHolds' /\ StillToWrite' BY <1>1, NoPassFacts DEF PassShape, ListHolds, StillToWrite
<1>4. GoneAfterSeen' BY <1>1, PruneFacts DEF HostInv, GoneAfterSeen
<1> QED BY <1>1, <1>2, <1>3, <1>4, PruneFacts, JobStill DEF HostInv, jobVars

\* A registration writes rows that are not gone and keeps the source.
LEMMA RegisterInv == ASSUME HostInv, RegisterStep PROVE HostInv'
<1> USE DEF RegisterStep, Register, jobVars
<1>1. HostShape /\ RowShape BY DEF HostInv
<1>2. PICK p \in Projects :
        /\ projRow' = [projRow EXCEPT ![p] = ProjectUpsert(p, "manual", "user")]
        /\ svcRow' = [s \in Services |-> IF ProjectOf[s] = p THEN Present({}, "", s) ELSE svcRow[s]]
  OBVIOUS
<1>3. HostShape' BY <1>1, Upsets DEF HostShape
<1>4. /\ ProjectUpsert(p, "manual", "user") \in ProjectRows
      /\ projRow[p] # NoRow => ProjectUpsert(p, "manual", "user").source = projRow[p].source
  BY <1>1, UpsertFacts DEF Sources
<1>5. \A s : Present({}, "", s) \in ServiceRows /\ Present({}, "", s).gone = Never
  BY DEF Present, ServiceRows, RowStates
<1>6. RowShape' BY <1>1, <1>2, <1>4, <1>5 DEF RowShape
<1>7. /\ projRow'[p] # NoRow /\ (projRow[p] # NoRow => projRow'[p].source = projRow[p].source)
      /\ \A q \in Projects \ {p} : projRow'[q] = projRow[q]
  BY <1>1, <1>2, <1>4, NoRowAssumption DEF RowShape
<1>8. ForeignKey' BY <1>2, <1>7, ServiceFacts DEF HostInv, ForeignKey
<1>9. PassShape' /\ StillToWrite' BY DEF HostInv, PassShape, StillToWrite
<1>10. ListHolds' BY <1>7 DEF HostInv, ListHolds
<1>11. GoneAfterSeen' BY <1>2, <1>5 DEF HostInv, GoneAfterSeen
<1> QED BY <1>3, <1>6, <1>8, <1>9, <1>10, <1>11, JobStill DEF HostInv

\* The steps of a pass together.
LEMMA ReconcileInv == ASSUME HostInv, ReconcileStep PROVE HostInv'
BY CollectInv, PassUpsertInv, PassGoneInv, PassPruneInv DEF ReconcileStep, PassStep

-----------------------------------------------------------------------------
(* What a job is going to call.                                            *)

\* Positions in two sequences put together.
LEMMA ConcatFacts ==
  ASSUME NEW S, NEW X \in Seq(S), NEW Y \in Seq(S)
  PROVE  /\ X \o Y \in Seq(S) /\ Len(X \o Y) = Len(X) + Len(Y)
         /\ Len(X) \in Nat /\ Len(Y) \in Nat
         /\ \A n \in 1..Len(X) : (X \o Y)[n] = X[n]
         /\ \A n \in 1..Len(Y) : (X \o Y)[Len(X) + n] = Y[n]
         /\ \A n \in 1..Len(X \o Y) : n \in 1..Len(X) \/ n - Len(X) \in 1..Len(Y)
OBVIOUS

\* The rows a job reads name exactly the containers there are.
RowsRight(s) ==
  /\ Dependents[s] # {} => ProjectOf[s] \in onDisk
  /\ \A d \in {s} \union Dependents[s] : svcRow[d] # NoRow /\ svcRow[d].ids = BoxesOf(d)

\* If the rows are right, the dependents' ids are exactly their containers.
LEMMA DependentFacts ==
  ASSUME HostInv, NEW s \in Services, svcRow[s] # NoRow
  PROVE  /\ svcRow[s].ids \subseteq Ids /\ DependentIds(s) \subseteq Ids
         /\ RowsRight(s) =>
              /\ svcRow[s].ids = BoxesOf(s)
              /\ \A i \in DependentIds(s) : box[i].svc # s
              /\ \A d \in Dependents[s] : \A k \in BoxesOf(d) : k \in DependentIds(s)
<1> USE ContainerJobsAssumption
<1>1. RowShape BY DEF HostInv
<1>2. Dependents[s] \subseteq Services /\ s \notin Dependents[s] OBVIOUS
<1>3. \A d \in Services : svcRow[d] # NoRow => svcRow[d].ids \subseteq Ids BY <1>1 DEF RowShape, ServiceRows
<1>4. DependentIds(s) \subseteq Ids
  <2>1. ASSUME NEW i \in DependentIds(s) PROVE i \in Ids
    <3>1. PICK d \in Dependents[s] : svcRow[d] # NoRow /\ i \in svcRow[d].ids BY DEF DependentIds
    <3> QED BY <1>2, <1>3, <3>1
  <2> QED BY <2>1
<1>5. ASSUME RowsRight(s), NEW i \in DependentIds(s) PROVE box[i].svc # s
  <2>1. PICK d \in Dependents[s] : svcRow[d] # NoRow /\ i \in svcRow[d].ids BY DEF DependentIds
  <2>2. i \in BoxesOf(d) BY <1>5, <2>1 DEF RowsRight
  <2> QED BY <1>2, <2>1, <2>2 DEF BoxesOf
<1>6. ASSUME RowsRight(s), NEW d \in Dependents[s], NEW k \in BoxesOf(d) PROVE k \in DependentIds(s)
  <2>1. ProjectOf[s] \in onDisk /\ svcRow[d] # NoRow /\ k \in svcRow[d].ids BY <1>6 DEF RowsRight
  <2>2. svcRow[d].ids \in {svcRow[e].ids : e \in {f \in Dependents[s] : svcRow[f] # NoRow}} BY <2>1
  <2> QED BY <2>1, <2>2 DEF DependentIds
<1>7. RowsRight(s) => svcRow[s].ids = BoxesOf(s) BY DEF RowsRight
<1> QED BY <1>3, <1>4, <1>5, <1>6, <1>7

\* Dependents are stopped before the target.
LEMMA StopOrderFacts ==
  ASSUME HostInv, NEW s \in Services, svcRow[s] # NoRow
  PROVE  /\ StopOrder(s) \in Seq(Calls \X Ids)
         /\ \A n \in 1..Len(StopOrder(s)) : StopOrder(s)[n][1] = "stop"
         /\ RowsRight(s) => StopsCovered(StopOrder(s), s)
<1> DEFINE dep == DependentIds(s)
           own == svcRow[s].ids
           A == CallAll("stop", dep)
           B == CallAll("stop", own)
<1>1. "stop" \in Calls BY DEF Calls
<1>2. own \subseteq Ids /\ dep \subseteq Ids BY DependentFacts
<1> HIDE DEF dep, own
<1>3. /\ A \in Seq(Calls \X Ids)
      /\ \A n \in 1..Len(A) : A[n][1] = "stop" /\ A[n][2] \in dep
      /\ \A i \in dep : \E n \in 1..Len(A) : A[n] = <<"stop", i>>
  <2>1. ListsCalls(A, "stop", dep) BY <1>1, <1>2, CallAllFacts
  <2> HIDE DEF A
  <2> QED BY <2>1 DEF ListsCalls
<1>4. /\ B \in Seq(Calls \X Ids)
      /\ \A n \in 1..Len(B) : B[n][1] = "stop" /\ B[n][2] \in own
      /\ \A i \in own : \E n \in 1..Len(B) : B[n] = <<"stop", i>>
  <2>1. ListsCalls(B, "stop", own) BY <1>1, <1>2, CallAllFacts
  <2> HIDE DEF B
  <2> QED BY <2>1 DEF ListsCalls
<1>5. StopOrder(s) = A \o B BY DEF StopOrder, dep, own
<1> HIDE DEF A, B
<1> DEFINE q == StopOrder(s)
<1>6. /\ q \in Seq(Calls \X Ids) /\ Len(q) = Len(A) + Len(B) /\ Len(A) \in Nat /\ Len(B) \in Nat
      /\ \A n \in 1..Len(A) : q[n] = A[n]
      /\ \A n \in 1..Len(B) : q[Len(A) + n] = B[n]
      /\ \A n \in 1..Len(q) : n \in 1..Len(A) \/ n - Len(A) \in 1..Len(B)
  BY <1>3, <1>4, <1>5, ConcatFacts
<1> HIDE DEF q
<1>7. ASSUME NEW n \in 1..Len(q) PROVE q[n][1] = "stop"
  <2>1. CASE n \in 1..Len(A) BY <1>3, <1>6, <2>1
  <2>2. CASE n - Len(A) \in 1..Len(B)
    <3>1. q[Len(A) + (n - Len(A))] = B[n - Len(A)] BY <1>6, <2>2
    <3>2. Len(A) + (n - Len(A)) = n BY <1>6
    <3> QED BY <1>4, <2>2, <3>1, <3>2
  <2> QED BY <1>6, <2>1, <2>2
<1>8. ASSUME RowsRight(s) PROVE StopsCovered(q, s)
  <2> SUFFICES ASSUME NEW n \in 1..Len(q), box[q[n][2]].svc = s,
                      NEW d \in Dependents[s], NEW k \in BoxesOf(d)
               PROVE  \E m \in 1..(n - 1) : q[m] = <<"stop", k>>
    BY DEF StopsCovered
  <2>1. n \notin 1..Len(A) BY <1>3, <1>6, <1>8, DependentFacts DEF dep
  <2>2. n \in Nat /\ n > Len(A) BY <1>6, <2>1
  <2>3. k \in dep BY <1>8, DependentFacts DEF dep
  <2>4. PICK m \in 1..Len(A) : A[m] = <<"stop", k>> BY <1>3, <2>3
  <2>5. m \in 1..(n - 1) /\ q[m] = <<"stop", k>> BY <1>6, <2>2, <2>4
  <2> QED BY <2>5
<1> QED BY <1>6, <1>7, <1>8 DEF q

\* The target is started before its dependents.
LEMMA StartOrderFacts ==
  ASSUME HostInv, NEW s \in Services, svcRow[s] # NoRow
  PROVE  /\ StartOrder(s) \in Seq(Calls \X Ids)
         /\ \A n \in 1..Len(StartOrder(s)) : StartOrder(s)[n][1] = "start"
         /\ RowsRight(s) =>
              \A n \in 1..Len(StartOrder(s)) : box[StartOrder(s)[n][2]].svc # s =>
                \A k \in BoxesOf(s) : \E m \in 1..(n - 1) : StartOrder(s)[m] = <<"start", k>>
<1> DEFINE dep == DependentIds(s)
           own == svcRow[s].ids
           A == CallAll("start", own)
           B == CallAll("start", dep)
<1>1. "start" \in Calls BY DEF Calls
<1>2. own \subseteq Ids /\ dep \subseteq Ids BY DependentFacts
<1> HIDE DEF dep, own
<1>3. /\ A \in Seq(Calls \X Ids)
      /\ \A n \in 1..Len(A) : A[n][1] = "start" /\ A[n][2] \in own
      /\ \A i \in own : \E n \in 1..Len(A) : A[n] = <<"start", i>>
  <2>1. ListsCalls(A, "start", own) BY <1>1, <1>2, CallAllFacts
  <2> HIDE DEF A
  <2> QED BY <2>1 DEF ListsCalls
<1>4. /\ B \in Seq(Calls \X Ids)
      /\ \A n \in 1..Len(B) : B[n][1] = "start" /\ B[n][2] \in dep
      /\ \A i \in dep : \E n \in 1..Len(B) : B[n] = <<"start", i>>
  <2>1. ListsCalls(B, "start", dep) BY <1>1, <1>2, CallAllFacts
  <2> HIDE DEF B
  <2> QED BY <2>1 DEF ListsCalls
<1>5. StartOrder(s) = A \o B BY DEF StartOrder, dep, own
<1> HIDE DEF A, B
<1> DEFINE q == StartOrder(s)
<1>6. /\ q \in Seq(Calls \X Ids) /\ Len(q) = Len(A) + Len(B) /\ Len(A) \in Nat /\ Len(B) \in Nat
      /\ \A n \in 1..Len(A) : q[n] = A[n]
      /\ \A n \in 1..Len(B) : q[Len(A) + n] = B[n]
      /\ \A n \in 1..Len(q) : n \in 1..Len(A) \/ n - Len(A) \in 1..Len(B)
  BY <1>3, <1>4, <1>5, ConcatFacts
<1> HIDE DEF q
<1>7. ASSUME NEW n \in 1..Len(q) PROVE q[n][1] = "start"
  <2>1. CASE n \in 1..Len(A) BY <1>3, <1>6, <2>1
  <2>2. CASE n - Len(A) \in 1..Len(B)
    <3>1. q[Len(A) + (n - Len(A))] = B[n - Len(A)] BY <1>6, <2>2
    <3>2. Len(A) + (n - Len(A)) = n BY <1>6
    <3> QED BY <1>4, <2>2, <3>1, <3>2
  <2> QED BY <1>6, <2>1, <2>2
<1>8. ASSUME RowsRight(s), NEW n \in 1..Len(q), box[q[n][2]].svc # s, NEW k \in BoxesOf(s)
      PROVE  \E m \in 1..(n - 1) : q[m] = <<"start", k>>
  <2>1. own = BoxesOf(s) BY <1>8, DependentFacts DEF own
  <2>2. n \notin 1..Len(A) BY <1>3, <1>6, <1>8, <2>1 DEF BoxesOf
  <2>3. n \in Nat /\ n > Len(A) BY <1>6, <2>2
  <2>4. PICK m \in 1..Len(A) : A[m] = <<"start", k>> BY <1>3, <1>8, <2>1
  <2>5. m \in 1..(n - 1) /\ q[m] = <<"start", k>> BY <1>6, <2>3, <2>4
  <2> QED BY <2>5
<1> QED BY <1>6, <1>7, <1>8 DEF q
\* A plan stops in order, starts in order, or does the one and then the other.
LEMMA PlanFacts ==
  ASSUME HostInv, NEW s \in Services, svcRow[s] # NoRow, NEW t \in JobTypes
  PROVE  /\ Plan(t, s) \in Seq(Calls \X Ids) /\ CallsOfType(Plan(t, s), t)
         /\ t # "remove" => StopsFirst(Plan(t, s)) /\ (RowsRight(s) => Covered(Plan(t, s), s))
<1> DEFINE X == StopOrder(s)
           Y == StartOrder(s)
           q == Plan(t, s)
<1>1. /\ X \in Seq(Calls \X Ids) /\ \A n \in 1..Len(X) : X[n][1] = "stop"
      /\ RowsRight(s) => StopsCovered(X, s)
  BY StopOrderFacts
<1>2. /\ Y \in Seq(Calls \X Ids) /\ \A n \in 1..Len(Y) : Y[n][1] = "start"
      /\ RowsRight(s) =>
           \A n \in 1..Len(Y) : box[Y[n][2]].svc # s =>
             \A k \in BoxesOf(s) : \E m \in 1..(n - 1) : Y[m] = <<"start", k>>
  BY StartOrderFacts
<1> HIDE DEF X, Y
<1>3. CASE t = "stop"
  <2>1. q = X BY <1>3 DEF Plan, X
  <2> HIDE DEF q
  <2>2. q \in Seq(Calls \X Ids) /\ Len(q) \in Nat /\ \A n \in 1..Len(q) : q[n][1] = "stop" BY <1>1, <2>1
  <2>3. CallsOfType(q, t) BY <1>3, <2>2 DEF CallsOfType
  <2>4. StopsFirst(q) BY <2>2 DEF StopsFirst
  <2>5. StartsCovered(q, s) BY <2>2 DEF StartsCovered
  <2>6. RowsRight(s) => Covered(q, s) BY <1>1, <2>1, <2>5 DEF Covered
  <2> QED BY <2>2, <2>3, <2>4, <2>6 DEF q
<1>4. CASE t = "start"
  <2>1. q = Y BY <1>4 DEF Plan, Y
  <2> HIDE DEF q
  <2>2. q \in Seq(Calls \X Ids) /\ Len(q) \in Nat /\ \A n \in 1..Len(q) : q[n][1] = "start" BY <1>2, <2>1
  <2>3. CallsOfType(q, t) BY <1>4, <2>2 DEF CallsOfType
  <2>4. StopsFirst(q) BY <2>2 DEF StopsFirst
  <2>5. StopsCovered(q, s) BY <2>2 DEF StopsCovered
  <2>6. RowsRight(s) => StartsCovered(q, s) BY <1>2, <2>1 DEF StartsCovered
  <2> QED BY <2>2, <2>3, <2>4, <2>5, <2>6 DEF q, Covered
<1>5. CASE t = "restart"
  <2>1. q = X \o Y BY <1>5 DEF Plan, X, Y
  <2> HIDE DEF q
  <2>2. /\ q \in Seq(Calls \X Ids) /\ Len(q) = Len(X) + Len(Y) /\ Len(X) \in Nat /\ Len(Y) \in Nat
        /\ \A n \in 1..Len(X) : q[n] = X[n]
        /\ \A n \in 1..Len(Y) : q[Len(X) + n] = Y[n]
        /\ \A n \in 1..Len(q) : n \in 1..Len(X) \/ n - Len(X) \in 1..Len(Y)
    BY <1>1, <1>2, <2>1, ConcatFacts
  <2>3. \A n \in 1..Len(X) : q[n][1] = "stop" BY <1>1, <2>2
  <2>4. ASSUME NEW n \in 1..Len(q), n \notin 1..Len(X)
        PROVE  n - Len(X) \in 1..Len(Y) /\ q[n] = Y[n - Len(X)] /\ q[n][1] = "start"
    <3>1. n - Len(X) \in 1..Len(Y) BY <2>2, <2>4
    <3>2. Len(X) + (n - Len(X)) = n BY <2>2
    <3>3. q[Len(X) + (n - Len(X))] = Y[n - Len(X)] BY <2>2, <3>1
    <3> QED BY <1>2, <3>1, <3>2, <3>3
  <2>5. CallsOfType(q, t) BY <1>5, <2>3, <2>4 DEF CallsOfType
  <2>6. StopsFirst(q)
    <3>1. ASSUME NEW n \in 1..Len(q), q[n][1] = "stop", NEW m \in 1..n PROVE q[m][1] = "stop"
      <4>1. n \in 1..Len(X) BY <2>4, <3>1
      <4>2. m \in 1..Len(X) BY <2>2, <4>1
      <4> QED BY <2>3, <4>2
    <3> QED BY <3>1 DEF StopsFirst
  <2>7. ASSUME RowsRight(s) PROVE StopsCovered(q, s)
    <3>1. ASSUME NEW n \in 1..Len(q), q[n][1] = "stop", box[q[n][2]].svc = s,
                 NEW d \in Dependents[s], NEW k \in BoxesOf(d)
          PROVE  box[k].state = "exited" \/ \E m \in 1..(n - 1) : q[m] = <<"stop", k>>
      <4>1. n \in 1..Len(X) /\ q[n] = X[n] BY <2>2, <2>4, <3>1
      <4>2. box[k].state = "exited" \/ \E m \in 1..(n - 1) : X[m] = <<"stop", k>>
        BY <1>1, <2>7, <3>1, <4>1 DEF StopsCovered
      <4>3. \A m \in 1..(n - 1) : q[m] = X[m] BY <2>2, <4>1
      <4> QED BY <4>2, <4>3
    <3> QED BY <3>1 DEF StopsCovered
  <2>8. ASSUME RowsRight(s) PROVE StartsCovered(q, s)
    <3>1. ASSUME NEW n \in 1..Len(q), q[n][1] = "start", box[q[n][2]].svc # s, NEW k \in BoxesOf(s)
          PROVE  \E m \in 1..(n - 1) : q[m] = <<"start", k>>
      <4>1. n \notin 1..Len(X) BY <2>3, <3>1
      <4>2. n - Len(X) \in 1..Len(Y) /\ q[n] = Y[n - Len(X)] BY <2>4, <4>1
      <4>3. PICK m \in 1..(n - Len(X) - 1) : Y[m] = <<"start", k>> BY <1>2, <2>8, <3>1, <4>2
      <4>4. m \in 1..Len(Y) /\ Len(X) + m \in 1..(n - 1) BY <2>2, <4>2
      <4>5. q[Len(X) + m] = <<"start", k>> BY <2>2, <4>3, <4>4
      <4> QED BY <4>4, <4>5
    <3> QED BY <3>1 DEF StartsCovered
  <2> QED BY <2>2, <2>5, <2>6, <2>7, <2>8 DEF q, Covered
<1>6. CASE t = "remove"
  <2> DEFINE own == svcRow[s].ids
             A == CallAll("inspect", own)
             B == CallAll("remove", own)
  <2>1. own \in SUBSET Ids BY DependentFacts
  <2>2. q = A \o B BY <1>6 DEF Plan
  <2> HIDE DEF own, q
  <2>3. ListsCalls(A, "inspect", own) /\ ListsCalls(B, "remove", own) BY <2>1, CallAllFacts DEF Calls
  <2> HIDE DEF A, B
  <2>4. /\ A \in Seq(Calls \X Ids) /\ \A n \in 1..Len(A) : A[n][1] = "inspect"
        /\ B \in Seq(Calls \X Ids) /\ \A n \in 1..Len(B) : B[n][1] = "remove"
    BY <2>3 DEF ListsCalls
  <2>5. /\ q \in Seq(Calls \X Ids) /\ Len(q) = Len(A) + Len(B) /\ Len(A) \in Nat /\ Len(B) \in Nat
        /\ \A n \in 1..Len(A) : q[n] = A[n]
        /\ \A n \in 1..Len(B) : q[Len(A) + n] = B[n]
        /\ \A n \in 1..Len(q) : n \in 1..Len(A) \/ n - Len(A) \in 1..Len(B)
    BY <2>2, <2>4, ConcatFacts
  <2>6. ASSUME NEW n \in 1..Len(q) PROVE q[n][1] \in {"inspect", "remove"}
    <3>1. CASE n \in 1..Len(A) BY <2>4, <2>5, <3>1
    <3>2. CASE n - Len(A) \in 1..Len(B)
      <4>1. q[Len(A) + (n - Len(A))] = B[n - Len(A)] BY <2>5, <3>2
      <4>2. Len(A) + (n - Len(A)) = n BY <2>5
      <4> QED BY <2>4, <3>2, <4>1, <4>2
    <3> QED BY <2>5, <3>1, <3>2
  <2> QED BY <1>6, <2>5, <2>6 DEF CallsOfType, q
<1> QED BY <1>3, <1>4, <1>5, <1>6 DEF JobTypes

-----------------------------------------------------------------------------
(* The steps of a job.                                                     *)

\* A step that leaves everything but the job, the containers and the queue.
LEMMA InventoryStill ==
  ASSUME HostInv, UNCHANGED <<nextBox, onDisk, projRow, svcRow, pass, clock, lastSeen, alive>>,
         Upset \/ UNCHANGED used,
         box' \in [Ids -> {NoBox} \union [svc : Services, state : BoxStates]],
         JobShape', JobAtStep', InOrder'
  PROVE  HostInv'
<1>1. HostShape' BY Upsets DEF HostInv, HostShape
<1> QED BY <1>1, RowsStill DEF HostInv

\* A request only queues a job.
LEMMA RequestInv ==
  ASSUME HostInv, NEW t \in JobTypes, NEW s \in Services, Request(t, s)
  PROVE  HostInv'
<1> USE DEF Request, rowVars
<1>1. HostShape' BY Upsets DEF HostInv, HostShape
<1>2. JobShape' BY DEF HostInv, JobShape
<1>3. UNCHANGED <<box, job>> OBVIOUS
<1>4. RowShape' /\ PassShape' /\ ForeignKey' /\ ListHolds' /\ StillToWrite' /\ GoneAfterSeen' BY RowsStill
<1>5. JobAtStep' BY DEF HostInv, JobAtStep
<1> HIDE DEF Request
<1>6. InOrder' BY <1>3, OrderStill DEF HostInv
<1> QED BY <1>1, <1>2, <1>4, <1>5, <1>6 DEF HostInv

\* The new job's calls are in order, and covered if the rows were right.
LEMMA LoadInv == ASSUME HostInv, Load PROVE HostInv'
<1> USE DEF Load, jobUnchanged, rowVars
<1> DEFINE t == Head(queue).type
           s == Head(queue).svc
<1>1. JobShape /\ HostShape BY DEF HostInv
<1>2. t \in JobTypes /\ s \in Services /\ queue' \in Seq([type : JobTypes, svc : Services])
  <2> DEFINE R == [type : JobTypes, svc : Services]
  <2>1. queue \in Seq(R) /\ queue # << >> /\ queue' = Tail(queue) BY <1>1 DEF JobShape
  <2> HIDE DEF R
  <2>2. Head(queue) \in R /\ queue' \in Seq(R) BY ONLY <2>1
  <2> QED BY <2>2 DEF R
<1>3. \/ job' = NoJob
      \/ svcRow[s] # NoRow
         /\ job' = [NoJob EXCEPT !.at = "act", !.type = t, !.svc = s, !.todo = Plan(t, s),
                                 !.quiet = RowsRight(s)]
  BY DEF RowsRight
<1>4. UNCHANGED <<box, nextBox, onDisk, projRow, svcRow, pass, clock, lastSeen, alive, used>> OBVIOUS
<1> HIDE DEF t, s, Load
<1>5. JobShape' /\ JobAtStep' /\ InOrder'
  <2>1. CASE job' = NoJob BY <1>2, <2>1, NoJobInv
  <2>2. CASE job' # NoJob
    <3> DEFINE q == Plan(t, s)
               r == RowsRight(s)
    <3>1. r \in BOOLEAN BY DEF RowsRight
    <3>2. /\ q \in Seq(Calls \X Ids) /\ CallsOfType(q, t)
          /\ t # "remove" => StopsFirst(q) /\ (r => Covered(q, s))
      BY <1>2, <1>3, <2>2, PlanFacts
    <3>3. job' = [NoJob EXCEPT !.at = "act", !.type = t, !.svc = s, !.todo = q, !.quiet = r]
      BY <1>3, <2>2
    <3> HIDE DEF q, r
    <3>4. /\ JobShape' /\ job'.at = "act" /\ job'.type = t /\ job'.svc = s /\ job'.todo = q
          /\ job'.quiet = r
      BY <1>2, <3>1, <3>2, <3>3 DEF JobShape, NoJob
    <3>5. JobAtStep' BY <1>2, <3>4 DEF JobAtStep
    <3>6. InOrder'
      <4>1. CallsOfType(job.todo, job.type)' BY <3>2, <3>4 DEF CallsOfType
      <4>2. t # "remove" => StopsFirst(job.todo)' BY <3>2, <3>4 DEF StopsFirst
      <4>3. t # "remove" /\ r => StopsCovered(job.todo, job.svc)'
        BY <1>4, <3>2, <3>4 DEF Covered, StopsCovered, BoxesOf
      <4>4. t # "remove" /\ r => StartsCovered(job.todo, job.svc)'
        BY <1>4, <3>2, <3>4 DEF Covered, StartsCovered, BoxesOf
      <4> QED BY <3>4, <4>1, <4>2, <4>3, <4>4 DEF InOrder, Covered
    <3> QED BY <3>4, <3>5, <3>6
  <2> QED BY <2>1, <2>2
<1> QED BY <1>1, <1>4, <1>5, InventoryStill DEF HostShape

\* Positions in a sequence without its head.
LEMMA TailFacts ==
  ASSUME NEW S, NEW q \in Seq(S), q # << >>
  PROVE  /\ Tail(q) \in Seq(S) /\ Len(q) \in Nat /\ Len(q) > 0 /\ Len(Tail(q)) = Len(q) - 1
         /\ Head(q) = q[1] /\ q[1] \in S
         /\ \A n \in 1..Len(Tail(q)) : Tail(q)[n] = q[n + 1] /\ n + 1 \in 1..Len(q)
OBVIOUS

\* One call: what was covered by it is so by its effect, the rest by the calls
\* that are left.
LEMMA CoveredStep ==
  ASSUME HostShape, NEW q \in Seq(Calls \X Ids), q # << >>, NEW s \in Services,
         NEW call \in {"stop", "start"}, NEW i \in Ids, q[1] = <<call, i>>, box[i] # NoBox,
         box' = [box EXCEPT ![i].state = IF call = "stop" THEN "exited" ELSE "running"],
         StopsFirst(q), Covered(q, s)
  PROVE  StopsCovered(Tail(q), s)' /\ StartsCovered(Tail(q), s)'
<1> DEFINE r == Tail(q)
           st == IF call = "stop" THEN "exited" ELSE "running"
<1>1. /\ Len(q) \in Nat /\ Len(q) > 0 /\ Len(r) = Len(q) - 1
      /\ \A n \in 1..Len(r) : r[n] = q[n + 1] /\ n + 1 \in 1..Len(q)
  BY TailFacts
<1>2. \A n \in 1..Len(q) : q[n][2] \in Ids
  <2>1. ASSUME NEW n \in 1..Len(q) PROVE q[n] \in Calls \X Ids OBVIOUS
  <2> QED BY <2>1
<1>3. /\ box'[i].svc = box[i].svc /\ box'[i].state = st
      /\ \A j \in Ids \ {i} : box'[j] = box[j]
  <2>1. st \in BoxStates BY DEF BoxStates
  <2>2. box' = [box EXCEPT ![i].state = st] OBVIOUS
  <2> HIDE DEF st
  <2> QED BY <2>1, <2>2, SetState
<1>4. \A j \in Ids : box'[j].svc = box[j].svc BY <1>3
<1>5. \A z : BoxesOf(z)' = BoxesOf(z) BY <1>4 DEF BoxesOf
<1>6. \A n \in 1..Len(q) : q[n][1] = "stop" => call = "stop"
  <2>1. ASSUME NEW n \in 1..Len(q), q[n][1] = "stop" PROVE call = "stop"
    <3>1. 1 \in 1..n OBVIOUS
    <3>2. q[1][1] = "stop" BY <2>1, <3>1 DEF StopsFirst
    <3> QED BY <3>2
  <2> QED BY <2>1
<1> HIDE DEF r
<1>7. StopsCovered(r, s)'
  <2> SUFFICES ASSUME NEW n \in 1..Len(r), r[n][1] = "stop", box'[r[n][2]].svc = s,
                      NEW d \in Dependents[s], NEW k \in BoxesOf(d)'
               PROVE  box'[k].state = "exited" \/ \E m \in 1..(n - 1) : r[m] = <<"stop", k>>
    BY DEF StopsCovered, r
  <2>1. /\ n \in Nat /\ n + 1 \in 1..Len(q) /\ q[n + 1][1] = "stop" /\ box[q[n + 1][2]].svc = s
        /\ k \in BoxesOf(d) /\ k \in Ids
    BY <1>1, <1>2, <1>4, <1>5 DEF BoxesOf
  <2>2. call = "stop" /\ st = "exited" BY <1>6, <2>1
  <2>3. box[k].state = "exited" \/ \E m \in 1..((n + 1) - 1) : q[m] = <<"stop", k>>
    BY <2>1 DEF Covered, StopsCovered
  <2>4. CASE box[k].state = "exited" BY <1>3, <2>1, <2>2, <2>4
  <2>5. CASE \E m \in 1..((n + 1) - 1) : q[m] = <<"stop", k>>
    <3>1. PICK m \in 1..n : q[m] = <<"stop", k>> BY <2>1, <2>5
    <3>2. CASE m = 1 BY <1>3, <2>2, <3>1, <3>2
    <3>3. CASE m # 1
      <4>1. m - 1 \in 1..(n - 1) /\ m - 1 \in 1..Len(r) /\ (m - 1) + 1 = m BY <1>1, <3>3
      <4>2. r[m - 1] = <<"stop", k>> BY <1>1, <3>1, <4>1
      <4> QED BY <4>1, <4>2
    <3> QED BY <3>2, <3>3
  <2> QED BY <2>3, <2>4, <2>5
<1>8. StartsCovered(r, s)'
  <2> SUFFICES ASSUME NEW n \in 1..Len(r), r[n][1] = "start", box'[r[n][2]].svc # s,
                      NEW k \in BoxesOf(s)'
               PROVE  \/ \E m \in 1..(n - 1) : r[m] = <<"start", k>>
                      \/ box'[k].state = "running" /\ \A m \in 1..(n - 1) : r[m] # <<"stop", k>>
    BY DEF StartsCovered, r
  <2>1. /\ n \in Nat /\ n + 1 \in 1..Len(q) /\ q[n + 1][1] = "start" /\ box[q[n + 1][2]].svc # s
        /\ k \in BoxesOf(s) /\ k \in Ids
    BY <1>1, <1>2, <1>4, <1>5 DEF BoxesOf
  <2>2. \/ \E m \in 1..((n + 1) - 1) : q[m] = <<"start", k>>
        \/ box[k].state = "running" /\ \A m \in 1..((n + 1) - 1) : q[m] # <<"stop", k>>
    BY <2>1 DEF Covered, StartsCovered
  <2>3. \A m \in 1..(n - 1) : m \in 1..Len(r) /\ m + 1 \in 1..n /\ m + 1 \in 1..Len(q) /\ r[m] = q[m + 1]
    BY <1>1, <2>1
  <2>4. CASE \E m \in 1..((n + 1) - 1) : q[m] = <<"start", k>>
    <3>1. PICK m \in 1..n : q[m] = <<"start", k>> BY <2>1, <2>4
    <3>2. CASE m = 1
      <4>1. call = "start" /\ i = k BY <3>1, <3>2
      <4>2. box'[k].state = "running" BY <1>3, <4>1
      <4>3. \A l \in 1..(n - 1) : r[l][1] # "stop" BY <1>6, <2>3, <4>1
      <4> QED BY <4>2, <4>3
    <3>3. CASE m # 1
      <4>1. m - 1 \in 1..(n - 1) /\ (m - 1) + 1 = m BY <1>1, <3>3
      <4>2. r[m - 1] = <<"start", k>> BY <2>3, <3>1, <4>1
      <4> QED BY <4>1, <4>2
    <3> QED BY <3>2, <3>3
  <2>5. CASE box[k].state = "running" /\ \A m \in 1..((n + 1) - 1) : q[m] # <<"stop", k>>
    <3> DEFINE e == <<"stop", k>>
    <3>4. (n + 1) - 1 = n /\ 1 \in 1..n BY <2>1
    <3>5. \A m \in 1..n : q[m] # e BY <2>5, <3>4
    <3> HIDE DEF e
    <3>6. q[1] # e /\ \A m \in 1..(n - 1) : r[m] # e BY <2>3, <3>4, <3>5
    <3>1. q[1] # <<"stop", k>> BY <3>6 DEF e
    <3>2. box'[k].state = "running" BY <1>3, <2>1, <2>5, <3>1
    <3>3. \A m \in 1..(n - 1) : r[m] # <<"stop", k>> BY <3>6 DEF e
    <3> QED BY <3>2, <3>3
  <2> QED BY <2>2, <2>4, <2>5
<1> QED BY <1>7, <1>8 DEF r

\* The Docker call that Act makes, if it makes one.
LEMMA ActFacts ==
  ASSUME HostInv, Act
  PROVE  \/ job' = NoJob /\ UNCHANGED box
         \/ \E call \in Calls, i \in Ids :
              /\ job.todo[1] = <<call, i>> /\ (Can(call, i) \/ call = "inspect")
              /\ box' = After(call, i) /\ job' = [job EXCEPT !.todo = Tail(@)]
<1>1. job.todo \in Seq(Calls \X Ids) BY DEF HostInv, JobShape
<1>2. job.todo # << >> BY DEF Act
<1>3. Head(job.todo) = job.todo[1] /\ job.todo[1] \in Calls \X Ids BY <1>1, <1>2, TailFacts
<1>4. PICK call \in Calls, i \in Ids : job.todo[1] = <<call, i>> BY <1>3
<1>5. Head(job.todo)[1] = call /\ Head(job.todo)[2] = i BY <1>3, <1>4
<1>6. \/ job' = NoJob /\ UNCHANGED box
      \/ (Can(call, i) \/ call = "inspect") /\ box' = After(call, i) /\ job' = [job EXCEPT !.todo = Tail(@)]
  BY <1>5 DEF Act, After
<1> QED BY <1>4, <1>6

\* What a call does to a container.
LEMMA CallFacts ==
  ASSUME HostShape, NEW call \in Calls, NEW i \in Ids, Can(call, i) \/ call = "inspect",
         box' = After(call, i)
  PROVE  /\ box' \in [Ids -> {NoBox} \union [svc : Services, state : BoxStates]]
         /\ \A j \in Ids \ {i} : box'[j] = box[j]
         /\ call = "stop" => box[i] # NoBox /\ box'[i].state = "exited"
         /\ call = "start" => box[i] # NoBox /\ box'[i].state = "running"
         /\ call = "remove" => box[i].state # "running" /\ box'[i] = NoBox
         /\ call = "inspect" => box' = box
<1> USE DEF BoxStates
<1>1. CASE call = "stop"
  <2>1. box[i] # NoBox /\ box' = [box EXCEPT ![i].state = "exited"] BY <1>1 DEF Can, After
  <2> QED BY <1>1, <2>1, SetState
<1>2. CASE call = "start"
  <2>1. box[i] # NoBox /\ box' = [box EXCEPT ![i].state = "running"] BY <1>2 DEF Can, After
  <2> QED BY <1>2, <2>1, SetState
<1>3. CASE call = "remove"
  <2>1. box[i].state # "running" /\ box' = [box EXCEPT ![i] = NoBox] BY <1>3 DEF Can, After
  <2> QED BY <1>3, <2>1 DEF HostShape
<1>4. CASE call = "inspect" BY <1>4 DEF After, HostShape
<1> QED BY <1>1, <1>2, <1>3, <1>4 DEF Calls

\* One Docker call of a job, or its failure.
LEMMA ActInv == ASSUME HostInv, Act PROVE HostInv'
<1>1. HostShape /\ JobShape /\ JobAtStep /\ InOrder BY DEF HostInv
<1>2. /\ UNCHANGED <<nextBox, onDisk, projRow, svcRow, pass, clock, lastSeen, alive, queue>>
      /\ Upset \/ UNCHANGED used
      /\ job.at = "act" /\ job.todo # << >>
  BY DEF Act, jobUnchanged, rowVars
<1>3. CASE job' = NoJob /\ UNCHANGED box
  <2>1. queue' \in Seq([type : JobTypes, svc : Services]) BY <1>1, <1>2 DEF JobShape
  <2> QED BY <1>1, <1>2, <1>3, <2>1, NoJobInv, InventoryStill DEF HostShape
<1>4. CASE \E call \in Calls, i \in Ids :
             /\ job.todo[1] = <<call, i>> /\ (Can(call, i) \/ call = "inspect")
             /\ box' = After(call, i) /\ job' = [job EXCEPT !.todo = Tail(@)]
  <2>1. PICK call \in Calls, i \in Ids :
          /\ job.todo[1] = <<call, i>> /\ (Can(call, i) \/ call = "inspect")
          /\ box' = After(call, i) /\ job' = [job EXCEPT !.todo = Tail(@)]
    BY <1>4
  <2> DEFINE q == job.todo
             r == Tail(q)
  <2>2. q \in Seq(Calls \X Ids) /\ q # << >> BY <1>1, <1>2 DEF JobShape
  <2>3. /\ r \in Seq(Calls \X Ids) /\ Len(q) \in Nat /\ Len(q) > 0 /\ Len(r) = Len(q) - 1
        /\ \A n \in 1..Len(r) : r[n] = q[n + 1] /\ n + 1 \in 1..Len(q)
    BY <2>2, TailFacts
  <2>4. job' = [job EXCEPT !.todo = r] BY <2>1
  <2> HIDE DEF r
  <2>5. /\ JobShape' /\ job'.todo = r /\ job'.at = job.at /\ job'.type = job.type
        /\ job'.svc = job.svc /\ job'.found = job.found /\ job'.quiet = job.quiet
    BY <1>1, <1>2, <2>3, <2>4 DEF JobShape
  <2>6. JobAtStep' BY <1>1, <1>2, <2>5 DEF JobAtStep
  <2>7. box' \in [Ids -> {NoBox} \union [svc : Services, state : BoxStates]]
    BY <1>1, <2>1, CallFacts
  <2>8. CallsOfType(q, job.type) /\ (job.type # "remove" => StopsFirst(q)) BY <1>1, <1>2 DEF InOrder
  <2>9. CallsOfType(r, job.type) BY <2>3, <2>8 DEF CallsOfType
  <2>10. ASSUME job.type # "remove" PROVE StopsFirst(r)
    <3>1. ASSUME NEW n \in 1..Len(r), r[n][1] = "stop", NEW m \in 1..n PROVE r[m][1] = "stop"
      <4>1. n + 1 \in 1..Len(q) /\ q[n + 1][1] = "stop" BY <2>3, <3>1
      <4>2. m \in 1..Len(r) /\ m + 1 \in 1..(n + 1) BY <2>3
      <4>3. q[m + 1][1] = "stop" BY <2>8, <2>10, <4>1, <4>2 DEF StopsFirst
      <4> QED BY <2>3, <4>2, <4>3
    <3> QED BY <3>1 DEF StopsFirst
  <2>11. ASSUME job.type # "remove", job.quiet
         PROVE  StopsCovered(job.todo, job.svc)' /\ StartsCovered(job.todo, job.svc)'
    <3>1. 1 \in 1..Len(q) BY <2>3
    <3>2. q[1][1] \in {"stop", "start"} BY <2>8, <2>11, <3>1 DEF CallsOfType
    <3>3. call \in {"stop", "start"} BY <2>1, <3>2
    <3>4. box[i] # NoBox /\ box' = [box EXCEPT ![i].state = IF call = "stop" THEN "exited" ELSE "running"]
      BY <2>1, <3>3 DEF Can, After
    <3>5. Covered(q, job.svc) /\ job.svc \in Services BY <1>1, <1>2, <2>11 DEF InOrder, JobAtStep
    <3>6. PICK c \in Seq(Calls \X Ids), s \in Services : c = q /\ s = job.svc BY <2>2, <3>5
    <3>7. Covered(c, s) /\ StopsFirst(c) /\ c # << >> /\ c[1] = <<call, i>>
      BY <2>1, <2>2, <2>8, <2>11, <3>5, <3>6
    <3>8. StopsCovered(Tail(c), s)' /\ StartsCovered(Tail(c), s)'
      BY <1>1, <3>3, <3>4, <3>7, CoveredStep
    <3>9. job'.todo = Tail(c) /\ job'.svc = s BY <2>5, <3>6 DEF r
    <3>10. StopsCovered(job.todo, job.svc)' BY <3>8, <3>9 DEF StopsCovered
    <3>11. StartsCovered(job.todo, job.svc)' BY <3>8, <3>9 DEF StartsCovered
    <3> QED BY <3>10, <3>11
  <2>12. InOrder'
    <3>1. CallsOfType(job.todo, job.type)' BY <2>5, <2>9 DEF CallsOfType
    <3>2. job.type # "remove" => StopsFirst(job.todo)' BY <2>5, <2>10 DEF StopsFirst
    <3> QED BY <2>5, <2>11, <3>1, <3>2 DEF InOrder, Covered
  <2> QED BY <1>2, <2>5, <2>6, <2>7, <2>12, InventoryStill
<1> QED BY <1>3, <1>4, ActFacts

\* The job looks its service up; what it found is there.
LEMMA LocateInv == ASSUME HostInv, Locate PROVE HostInv'
<1> DEFINE found == IF job.type = "remove" THEN {} ELSE BoxesOf(job.svc)
<1>1. HostShape /\ JobShape /\ JobAtStep BY DEF HostInv
<1>2. /\ UNCHANGED <<box, nextBox, onDisk, projRow, svcRow, pass, clock, lastSeen, alive, queue>>
      /\ Upset \/ UNCHANGED used
      /\ job.at = "act"
      /\ \/ job' = NoJob
         \/ found # {} /\ job' = [job EXCEPT !.at = "runtime", !.found = found]
  BY DEF Locate, jobUnchanged, rowVars
<1>3. found \in SUBSET Ids BY DEF BoxesOf
<1> HIDE DEF found
<1>4. queue' \in Seq([type : JobTypes, svc : Services]) BY <1>1, <1>2 DEF JobShape
<1>5. JobShape' /\ JobAtStep' /\ InOrder'
  <2>1. CASE job' = NoJob BY <1>4, <2>1, NoJobInv
  <2>2. CASE found # {} /\ job' = [job EXCEPT !.at = "runtime", !.found = found]
    <3>1. JobShape' /\ job'.at = "runtime" /\ job'.found = found /\ job'.svc = job.svc
      BY <1>1, <1>3, <1>4, <2>2 DEF JobShape
    <3> QED BY <1>1, <1>2, <2>2, <3>1 DEF JobAtStep, InOrder
  <2> QED BY <1>2, <2>1, <2>2
<1> QED BY <1>1, <1>2, <1>5, InventoryStill DEF HostShape

\* The state read is one a container has.
LEMMA InspectInv == ASSUME HostInv, InspectState PROVE HostInv'
<1> DEFINE i == CHOOSE j \in job.found : \A k \in job.found : k <= j
<1>1. HostShape /\ JobShape /\ JobAtStep BY DEF HostInv
<1>2. /\ UNCHANGED <<box, nextBox, onDisk, projRow, svcRow, pass, clock, lastSeen, alive, queue>>
      /\ Upset \/ UNCHANGED used
      /\ job.at = "inspect"
      /\ \/ job' = NoJob
         \/ box[i] # NoBox /\ job' = [job EXCEPT !.at = "state", !.state = box[i].state]
  BY DEF InspectState, jobUnchanged, rowVars
<1>3. job.found \subseteq Ids /\ job.found # {} /\ job.svc \in Services
  BY <1>1, <1>2 DEF JobShape, JobAtStep
<1>4. i \in Ids BY <1>3, NewestId
<1> HIDE DEF i
<1>5. queue' \in Seq([type : JobTypes, svc : Services]) BY <1>1, <1>2 DEF JobShape
<1>6. JobShape' /\ JobAtStep' /\ InOrder'
  <2>1. CASE job' = NoJob BY <1>5, <2>1, NoJobInv
  <2>2. CASE box[i] # NoBox /\ job' = [job EXCEPT !.at = "state", !.state = box[i].state]
    <3> DEFINE st == box[i].state
    <3>1. st \in BoxStates BY <1>1, <1>4, <2>2, BoxFacts
    <3>2. job' = [job EXCEPT !.at = "state", !.state = st] BY <2>2
    <3> HIDE DEF st
    <3>3. JobShape' /\ job'.at = "state" /\ job'.state = st /\ job'.svc = job.svc
      BY <1>1, <1>5, <3>1, <3>2 DEF JobShape
    <3> QED BY <1>3, <3>1, <3>3 DEF JobAtStep, InOrder
  <2> QED BY <1>2, <2>1, <2>2
<1> QED BY <1>1, <1>2, <1>6, InventoryStill DEF HostShape

\* A job writes the ids or the state of its row and nothing else.
LEMMA RowWritten ==
  ASSUME HostInv, NEW s \in Services, NEW r \in ServiceRows,
         svcRow[s] # NoRow, r.gone = svcRow[s].gone, svcRow' = [svcRow EXCEPT ![s] = r],
         UNCHANGED <<projRow, pass, clock, lastSeen>>
  PROVE  RowShape' /\ PassShape' /\ ForeignKey' /\ ListHolds' /\ StillToWrite' /\ GoneAfterSeen'
<1>1. RowShape BY DEF HostInv
<1>2. RowShape' /\ svcRow'[s] = r /\ \A z \in Services \ {s} : svcRow'[z] = svcRow[z]
  BY <1>1 DEF RowShape
<1>3. PassShape' /\ ListHolds' /\ StillToWrite' BY DEF HostInv, PassShape, ListHolds, StillToWrite
<1>4. ForeignKey' BY <1>2 DEF HostInv, ForeignKey
<1>5. GoneAfterSeen' BY <1>2 DEF HostInv, GoneAfterSeen
<1> QED BY <1>2, <1>3, <1>4, <1>5

\* The job writes ids or state of its row, never "gone".
LEMMA WriteInv ==
  ASSUME HostInv, Runtime \/ StampState
  PROVE  /\ HostInv'
         /\ \A s \in Services :
              \/ svcRow'[s] = svcRow[s]
              \/ /\ svcRow[s] # NoRow /\ svcRow'[s] # NoRow
                 /\ svcRow'[s].state = "gone" => svcRow[s].state = "gone"
<1>1. HostShape /\ RowShape /\ JobShape /\ JobAtStep BY DEF HostInv
<1>2. /\ UNCHANGED <<box, nextBox, onDisk, projRow, pass, clock, lastSeen, queue, alive>>
      /\ Upset \/ UNCHANGED used
  BY DEF Runtime, StampState, jobUnchanged
<1>3. HostShape' BY <1>1, <1>2, Upsets DEF HostShape
<1>4. job.svc \in Services BY <1>1 DEF Runtime, StampState, JobAtStep
<1>5. JobShape' /\ JobAtStep' /\ InOrder'
  <2>1. CASE Runtime
    <3>1. job.at = "runtime" /\ job' = [job EXCEPT !.at = "inspect"] BY <2>1 DEF Runtime
    <3>2. JobShape' /\ job'.at = "inspect" /\ job'.found = job.found /\ job'.svc = job.svc
      BY <1>1, <1>2, <3>1 DEF JobShape
    <3> QED BY <1>1, <3>1, <3>2 DEF JobAtStep, InOrder
  <2>2. CASE StampState
    <3>1. queue' \in Seq([type : JobTypes, svc : Services]) BY <1>1, <1>2 DEF JobShape
    <3> QED BY <2>2, <3>1, NoJobInv DEF StampState
  <2> QED BY <2>1, <2>2
<1>6. CASE svcRow' = svcRow
  BY <1>2, <1>3, <1>5, <1>6, RowsStill DEF HostInv
<1>7. CASE svcRow' # svcRow
  <2>1. PICK r \in ServiceRows :
          /\ svcRow[job.svc] # NoRow /\ r.gone = svcRow[job.svc].gone
          /\ r.state = "gone" => svcRow[job.svc].state = "gone"
          /\ svcRow' = [svcRow EXCEPT ![job.svc] = r]
    <3>1. svcRow[job.svc] # NoRow BY <1>7 DEF Runtime, StampState
    <3>2. svcRow[job.svc] \in ServiceRows BY <1>1, <1>4, <3>1 DEF RowShape
    <3>3. CASE Runtime
      <4> DEFINE o == svcRow[job.svc]
                 f == job.found
                 r == [o EXCEPT !.ids = f]
      <4>1. svcRow' = [svcRow EXCEPT ![job.svc] = r] BY <1>7, <3>1, <3>3 DEF Runtime
      <4>2. f \in SUBSET Ids BY <1>1 DEF JobShape
      <4>3. o \in ServiceRows BY <3>2
      <4> HIDE DEF o, f
      <4>4. r \in ServiceRows /\ r.gone = o.gone /\ r.state = o.state BY <4>2, <4>3 DEF ServiceRows
      <4> QED BY <3>1, <4>1, <4>4 DEF o
    <3>4. CASE StampState
      <4> DEFINE o == svcRow[job.svc]
                 st == job.state
                 r == [o EXCEPT !.state = st]
      <4>1. svcRow' = [svcRow EXCEPT ![job.svc] = r] BY <1>7, <3>1, <3>4 DEF StampState
      <4>2. st \in BoxStates BY <1>1, <3>4 DEF JobAtStep, StampState
      <4>3. o \in ServiceRows BY <3>2
      <4> HIDE DEF o, st
      <4>4. r \in ServiceRows /\ r.gone = o.gone /\ r.state # "gone"
        BY <4>2, <4>3 DEF ServiceRows, RowStates, BoxStates
      <4> QED BY <3>1, <4>1, <4>4 DEF o
    <3> QED BY <3>3, <3>4
  <2>2. PICK s \in Services : s = job.svc BY <1>4
  <2>3. svcRow' = [svcRow EXCEPT ![s] = r] BY <2>1, <2>2
  <2>4. RowShape' /\ PassShape' /\ ForeignKey' /\ ListHolds' /\ StillToWrite' /\ GoneAfterSeen'
    BY <1>2, <2>1, <2>2, <2>3, RowWritten
  <2>5. r # NoRow BY NoRowAssumption
  <2>6. svcRow'[s] = r /\ \A z \in Services \ {s} : svcRow'[z] = svcRow[z] BY <1>1, <2>3 DEF RowShape
  <2>7. HostInv' BY <1>3, <1>5, <2>4 DEF HostInv
  <2>8. ASSUME NEW z \in Services
        PROVE  \/ svcRow'[z] = svcRow[z]
               \/ /\ svcRow[z] # NoRow /\ svcRow'[z] # NoRow
                  /\ svcRow'[z].state = "gone" => svcRow[z].state = "gone"
    BY <2>1, <2>2, <2>5, <2>6
  <2> QED BY <2>7, <2>8
<1> QED BY <1>6, <1>7

-----------------------------------------------------------------------------
(* Every behaviour.                                                        *)

\* Every initial state satisfies the inductive invariant.
LEMMA InitInv == HostInit => HostInv
<1> SUFFICES ASSUME HostInit PROVE HostInv OBVIOUS
<1> USE DEF HostInit, InventoryInit
<1>1. HostShape
  <2>1. PICK down :
          box = [i \in Ids |->
                   IF i \notin DOMAIN ServiceSeq THEN NoBox
                   ELSE [svc |-> ServiceSeq[i], state |-> IF i \in down THEN "exited" ELSE "running"]]
    OBVIOUS
  <2>2. \A i \in Ids : box[i] \in {NoBox} \union [svc : Services, state : BoxStates]
    BY <2>1, ServiceFacts DEF BoxStates
  <2>3. box \in [Ids -> {NoBox} \union [svc : Services, state : BoxStates]] BY <2>1, <2>2
  <2> QED BY <2>3, ServiceFacts, InventoryAssumption DEF HostShape
<1>2. RowShape /\ ForeignKey BY DEF RowShape, ForeignKey
<1>3. PassShape /\ ListHolds /\ StillToWrite BY NoPassFacts DEF PassShape, ListHolds, StillToWrite
<1>4. GoneAfterSeen BY DEF GoneAfterSeen, Never
<1>5. << >> \in Seq(Calls \X Ids) OBVIOUS
<1>6. JobShape /\ job.at = "idle" BY <1>5 DEF JobShape, NoJob, JobTypes
<1>7. JobAtStep /\ InOrder BY <1>6 DEF JobAtStep, InOrder
<1> QED BY <1>1, <1>2, <1>3, <1>4, <1>6, <1>7 DEF HostInv

\* Every step keeps it.
LEMMA StepInv == ASSUME HostInv, [HostNext]_hostVars PROVE HostInv'
<1>1. CASE UNCHANGED hostVars
  <2>1. /\ UNCHANGED <<box, nextBox, onDisk, projRow, svcRow, pass, clock, lastSeen, used>>
        /\ UNCHANGED <<alive, queue, job>>
    BY <1>1 DEF hostVars, inventoryVars, rowVars, jobVars
  <2> QED BY <2>1, JobStill, InventoryStill DEF HostInv, HostShape
<1>2. CASE HostStep BY <1>2, HostStepInv
<1>3. CASE FilesStep \/ ClockStep \/ Crash \/ Boot BY <1>3, QuietInv
<1>4. CASE RegisterStep BY <1>4, RegisterInv
<1>5. CASE ReconcileStep BY <1>5, ReconcileInv
<1>6. CASE ReconcileFails BY <1>6, AbortInv
<1>7. CASE \E t \in JobTypes, s \in Services : Request(t, s) BY <1>7, RequestInv
<1>8. CASE JobStep BY <1>8, LoadInv, ActInv, LocateInv, InspectInv, WriteInv DEF JobStep
<1> QED BY <1>1, <1>2, <1>3, <1>4, <1>5, <1>6, <1>7, <1>8 DEF HostNext

\* What passes and jobs write in order, and what they know of what they read,
\* hold in every behaviour of the host, the passes, the users and the jobs.
THEOREM HostInvariant == HostSpec => []HostInv
<1>1. HostInit => HostInv BY InitInv
<1>2. HostInv /\ [HostNext]_hostVars => HostInv' BY StepInv
<1> QED BY <1>1, <1>2, PTL DEF HostSpec

\* Docker's containers, the tables, the passes and the jobs keep their types,
\* and no service row is left without its project's (the foreign key of
\* migration 0001, which a pass, a registration and a prune all write around).
THEOREM InventoryTypeCorrect == HostSpec => []InventoryTypeOK
<1>1. HostInv => InventoryTypeOK
  <2> SUFFICES ASSUME HostInv PROVE InventoryTypeOK OBVIOUS
  <2> USE DEF HostInv
  <2>1. nextBox \in 1..(Len(ServiceSeq) + MaxUpsets + 1)
    BY ServiceFacts, InventoryAssumption DEF HostShape
  <2>2. pass.at \in {"idle", "upsert", "gone", "prune"} BY DEF PassShape
  <2>3. job.type \in JobTypes /\ job.svc \in Services \union {NoRow} BY DEF JobShape
  <2> QED BY <2>1, <2>2, <2>3 DEF InventoryTypeOK, HostShape, RowShape, ForeignKey
<1> QED BY <1>1, HostInvariant, PTL

\* What a step may do to a row: it stays, and turns to gone only if its
\* project was discovered, or it is pruned after the grace period.
LEMMA RowFate ==
  ASSUME HostInv, [HostNext]_hostVars, NEW s \in Services, svcRow[s] # NoRow
  PROVE  \/ /\ svcRow'[s] # NoRow
            /\ svcRow'[s].state = "gone" =>
                 svcRow[s].state = "gone" \/ projRow[ProjectOf[s]].source = "discovered"
         \/ Expired(svcRow[s]) /\ projRow[ProjectOf[s]].source = "discovered"
<1>1. CASE svcRow' = svcRow BY <1>1
<1>2. CASE RegisterStep
  <2>1. PICK p : svcRow' = [z \in Services |-> IF ProjectOf[z] = p THEN Present({}, "", z) ELSE svcRow[z]]
    BY <1>2 DEF RegisterStep, Register
  <2>2. Present({}, "", s) \in ServiceRows /\ Present({}, "", s).state = ""
    BY DEF Present, ServiceRows, RowStates
  <2> QED BY <2>1, <2>2, NoRowAssumption
<1>3. CASE PassUpsert
  <2> DEFINE z == ServiceSeq[pass.next]
             found == pass.sight[z]
             r == Present(found.ids, found.state, z)
  <2>1. pass.at = "upsert" /\ pass.next \in 1..Len(ServiceSeq) /\ z \in Services
    BY <1>3, ServiceFacts DEF HostInv, StillToWrite, PassShape, PassUpsert
  <2>2. found # Written BY <2>1, ServiceFacts DEF HostInv, StillToWrite
  <2>3. found \in {NoSight, Written} \union Sights BY <2>1 DEF HostInv, PassShape
  <2>4. svcRow' = svcRow \/ (found # NoSight /\ svcRow' = [svcRow EXCEPT ![z] = r])
    BY <1>3 DEF PassUpsert, rowVars
  <2>5. found # NoSight => r \in ServiceRows /\ r.state # "gone"
    BY <2>2, <2>3 DEF Present, ServiceRows, Sights, RowStates, BoxStates
  <2> HIDE DEF z, found, r
  <2>6. svcRow \in [Services -> {NoRow} \union ServiceRows] BY DEF HostInv, RowShape
  <2> QED BY <2>4, <2>5, <2>6, NoRowAssumption
<1>4. CASE PassGone
  <2>1. svcRow'[s] = IF Missed(s) THEN MarkedGone(svcRow[s]) ELSE svcRow[s] BY <1>4 DEF PassGone
  <2>2. CASE Missed(s)
    <3>1. projRow[ProjectOf[s]].source = "discovered"
      BY <2>2, ServiceFacts DEF Missed, HostInv, ListHolds
    <3>2. MarkedGone(svcRow[s]) # NoRow BY MarkedFacts, NoRowAssumption DEF HostInv
    <3> QED BY <2>1, <2>2, <3>1, <3>2
  <2> QED BY <2>1, <2>2
<1>5. CASE PassPrune BY <1>5, PruneFacts
<1>6. CASE Runtime \/ StampState BY <1>6, WriteInv
<1>7. CASE UNCHANGED hostVars BY <1>1, <1>7 DEF hostVars, inventoryVars, rowVars
<1>8. CASE HostStep \/ FilesStep \/ ClockStep \/ ReconcileFails \/ Crash \/ Boot
  BY <1>1, <1>8 DEF HostStep, HostMoves, FilesStep, FilesMove, ClockStep, Tick, ReconcileFails,
                    PassAborts, Crash, Boot, inventoryVars, rowVars
<1>9. CASE PassCollect BY <1>1, <1>9 DEF PassCollect, rowVars
<1>10. CASE \E t \in JobTypes, z \in Services : Request(t, z) BY <1>1, <1>10 DEF Request, rowVars
<1>11. CASE Load \/ Act \/ Locate \/ InspectState
  BY <1>1, <1>11 DEF Load, Act, Locate, InspectState, rowVars
<1> QED BY <1>2, <1>3, <1>4, <1>5, <1>6, <1>7, <1>8, <1>9, <1>10, <1>11
        DEF HostNext, ReconcileStep, PassStep, JobStep

\* A row is deleted only when no pass had recorded the service as present for
\* the whole grace period (Reconcile's mark-gone and pruneGone), whatever
\* passes, registrations and jobs wrote to it in between.
THEOREM PruneWaitsForGrace == HostSpec => PrunedOnlyAfterGrace
<1>1. ASSUME HostInv, [HostNext]_hostVars, NEW s \in Services, svcRow[s] # NoRow, svcRow'[s] = NoRow
      PROVE  lastSeen[s] + Grace <= clock
  <2>1. Expired(svcRow[s]) BY <1>1, RowFate
  <2>2. svcRow[s].gone # Never /\ svcRow[s].gone + Grace <= clock BY <2>1 DEF Expired
  <2>3. lastSeen[s] <= svcRow[s].gone BY <1>1, <2>2 DEF HostInv, GoneAfterSeen
  <2>4. svcRow[s].gone \in Int /\ lastSeen[s] \in Int /\ clock \in Int
    BY <1>1 DEF HostInv, RowShape, HostShape, ServiceRows, Never
  <2>5. Grace \in Int BY InventoryAssumption DEF Grace
  <2> QED BY <2>2, <2>3, <2>4, <2>5
<1>2. HostInv /\ [HostNext]_hostVars =>
        [\A s \in Services :
           svcRow[s] # NoRow /\ svcRow'[s] = NoRow => lastSeen[s] + Grace <= clock]_hostVars
  BY <1>1
<1> QED BY <1>2, HostInvariant, PTL DEF HostSpec, PrunedOnlyAfterGrace

\* Rows of manual projects are neither pruned nor marked gone, however old the
\* project list is that a pass works from (goneServiceIDs, pruneGone).
THEOREM ManualIsKept == HostSpec => ManualKept
<1>1. HostInv /\ [HostNext]_hostVars =>
        [\A s \in Services :
           svcRow[s] # NoRow /\ projRow[ProjectOf[s]].source = "manual" =>
             svcRow'[s] # NoRow /\ (svcRow'[s].state = "gone" => svcRow[s].state = "gone")]_hostVars
  BY RowFate
<1> QED BY <1>1, HostInvariant, PTL DEF HostSpec, ManualKept

\* runOrderedWithDeps stops the dependents of a namespace before its provider
\* and starts the provider before them, in every job whose rows were right and
\* whose containers nobody else moved.
THEOREM ProviderComesFirst == HostSpec => ProviderOrder
<1>1. ASSUME HostInv, Act, job.quiet, NEW i \in Ids, box[i] # NoBox, box'[i] # box[i]
      PROVE  /\ box[i].svc = job.svc /\ box'[i].state = "exited" =>
                  \A d \in Dependents[job.svc] : \A k \in BoxesOf(d) : box[k].state = "exited"
             /\ box[i].svc \in Dependents[job.svc] /\ box'[i].state = "running" =>
                  \A k \in BoxesOf(job.svc) : box[k].state = "running"
  <2>1. PICK call \in Calls, j \in Ids :
          /\ job.todo[1] = <<call, j>> /\ (Can(call, j) \/ call = "inspect")
          /\ box' = After(call, j)
    BY <1>1, ActFacts
  <2>2. /\ \A k \in Ids \ {j} : box'[k] = box[k]
        /\ call = "stop" => box'[j].state = "exited"
        /\ call = "start" => box'[j].state = "running"
        /\ call = "remove" => box'[j] = NoBox
        /\ call = "inspect" => box' = box
    BY <1>1, <2>1, CallFacts DEF HostInv
  <2>3. j = i BY <1>1, <2>2
  <2>4. job.at = "act" /\ job.todo # << >> /\ job.svc \in Services /\ job.todo \in Seq(Calls \X Ids)
    BY <1>1 DEF Act, HostInv, JobAtStep, JobShape
  <2>5. 1 \in 1..Len(job.todo) BY <2>4, TailFacts
  <2>6. call \in {"stop", "start"} => job.type # "remove"
    <3>1. job.todo[1][1] = call BY <2>1
    <3> QED BY <1>1, <2>4, <2>5, <3>1 DEF HostInv, InOrder, CallsOfType
  <2>7. call \in {"stop", "start"} => Covered(job.todo, job.svc) BY <1>1, <2>4, <2>6 DEF HostInv, InOrder
  <2>8. job.todo[1][1] = call /\ job.todo[1][2] = i /\ ~(\E m \in 1..(1 - 1) : TRUE) BY <2>1, <2>3
  <2>9. ASSUME box[i].svc = job.svc, box'[i].state = "exited",
               NEW d \in Dependents[job.svc], NEW k \in BoxesOf(d)
        PROVE  box[k].state = "exited"
    <3>1. call = "stop" BY <2>2, <2>3, <2>9, <1>1 DEF Calls, NoBox
    <3> QED BY <2>5, <2>7, <2>8, <2>9, <3>1 DEF Covered, StopsCovered
  <2>10. ASSUME box[i].svc \in Dependents[job.svc], box'[i].state = "running", NEW k \in BoxesOf(job.svc)
         PROVE  box[k].state = "running"
    <3>1. call = "start" BY <2>2, <2>3, <2>10, <1>1 DEF Calls, NoBox
    <3>2. box[i].svc # job.svc BY <2>4, <2>10, ContainerJobsAssumption
    <3> QED BY <2>5, <2>7, <2>8, <3>1, <3>2 DEF Covered, StartsCovered
  <2> QED BY <2>9, <2>10
<1>2. HostInv =>
        [Act /\ job.quiet =>
           \A i \in Ids : box[i] # NoBox /\ box'[i] # box[i] =>
             /\ box[i].svc = job.svc /\ box'[i].state = "exited" =>
                  \A d \in Dependents[job.svc] : \A k \in BoxesOf(d) : box[k].state = "exited"
             /\ box[i].svc \in Dependents[job.svc] /\ box'[i].state = "running" =>
                  \A k \in BoxesOf(job.svc) : box[k].state = "running"]_hostVars
  BY <1>1
<1> QED BY <1>2, HostInvariant, PTL DEF HostSpec, ProviderOrder
===============================================================================
