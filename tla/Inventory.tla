------------------------------ MODULE Inventory ------------------------------
(***************************************************************************)
(* The projects and services tables and the discovery passes that keep     *)
(* them in step with Docker (internal/discovery/discovery.go,              *)
(* internal/docker/collect.go, internal/store/projects.go and services.go, *)
(* handleCreateProject in internal/httpapi/settings.go, reconcileLoop in   *)
(* cmd/dockbrr/main.go).                                                   *)
(*                                                                         *)
(* A pass looks at Docker once, reads the list of projects once, and then  *)
(* writes row by row while containers come and go, users register          *)
(* projects and jobs write to the same rows.  A store error ends a pass    *)
(* where it stands.  Digests and image references are module               *)
(* UpdateLifecycle's; here a container has an owner and a state.           *)
(***************************************************************************)
EXTENDS Integers, Sequences, FiniteSets

CONSTANTS
  ServiceSeq,   \* the services, sorted by project and name as Group does
  ProjectOf,    \* the project of each service
  Standalone,   \* projects that are a single container without a compose file
  GoneGrace,    \* the setting gone_grace_seconds
  NoRow,        \* no such row
  MaxClock,     \* bound: seconds that matter
  MaxUpsets     \* bound: container moves by others, user requests and failing calls

Services == {ServiceSeq[i] : i \in DOMAIN ServiceSeq}
ProjectsOf(n) == {ProjectOf[ServiceSeq[i]] : i \in 1..n}   \* of the first n services
Projects == ProjectsOf(Len(ServiceSeq))

ASSUME InventoryAssumption ==
  /\ ServiceSeq \in Seq(Services) /\ Services = DOMAIN ProjectOf
  /\ \A i, j \in DOMAIN ServiceSeq : ServiceSeq[i] = ServiceSeq[j] => i = j
  /\ Standalone \subseteq Projects
  /\ GoneGrace \in Int
  /\ MaxClock \in Nat /\ MaxUpsets \in Nat

Ids == 1..(Len(ServiceSeq) + MaxUpsets)
Never == -1
NoBox == [svc |-> NoRow, state |-> "none"]
NoSight == [ids |-> {}, state |-> "none"]
Written == [ids |-> {}, state |-> "written"]   \* a sight that is in its row by now

VARIABLES
  box,       \* Docker's containers: the service they are labelled with, state
  nextBox,   \* the id the next container gets
  onDisk,    \* projects whose config files can be found
  projRow,   \* the projects table: source, whose files the row names, unmanaged
  svcRow,    \* the services table: container_ids, state, gone_since
  pass,      \* the reconcile pass in progress
  clock,     \* wall clock, in seconds
  lastSeen,  \* when a pass last recorded the service as present (history)
  used       \* upsets so far

rowVars == <<projRow, svcRow>>
inventoryVars == <<box, nextBox, onDisk, rowVars, pass, clock, lastSeen, used>>

BoxStates == {"running", "exited"}
RowStates == BoxStates \union {"", "gone"}
ProjectRows == [source : {"discovered", "manual"}, files : {"label", "user"},
                unmanaged : BOOLEAN]
ServiceRows == [ids : SUBSET Ids, state : RowStates, gone : {Never} \union Nat]

ASSUME NoRowAssumption ==
  NoRow \notin Services /\ NoRow \notin ProjectRows /\ NoRow \notin ServiceRows

\* at: "idle", "upsert" (next: the first service not written yet), "gone" or
\* "prune"; sight: what Collect and Group found; listed: the projects' sources
\* as projects.List returned them.
NoPass == [at |-> "idle", next |-> 0, sight |-> [s \in Services |-> NoSight],
           listed |-> [p \in Projects |-> "none"]]

InventoryInit ==
  /\ \E down \in SUBSET {i \in DOMAIN ServiceSeq : ProjectOf[ServiceSeq[i]] \in Standalone} :
       box = [i \in Ids |->
                IF i \notin DOMAIN ServiceSeq THEN NoBox
                ELSE [svc |-> ServiceSeq[i], state |-> IF i \in down THEN "exited" ELSE "running"]]
  /\ nextBox = Len(ServiceSeq) + 1
  /\ onDisk = Projects \ Standalone
  /\ projRow = [p \in Projects |-> NoRow]
  /\ svcRow = [s \in Services |-> NoRow]
  /\ pass = NoPass
  /\ clock = 0
  /\ lastSeen = [s \in Services |-> Never]
  /\ used = 0

Upset == used < MaxUpsets /\ used' = used + 1

-----------------------------------------------------------------------------
(* Docker and the disk, changed by somebody else.                          *)

BoxesOf(s) == {i \in Ids : box[i].svc = s}

HostStops(i) ==
  box[i].state = "running" /\ box' = [box EXCEPT ![i].state = "exited"] /\ UNCHANGED nextBox

HostStarts(i) ==
  box[i].state = "exited" /\ box' = [box EXCEPT ![i].state = "running"] /\ UNCHANGED nextBox

HostRemoves(i) ==
  box[i] # NoBox /\ box' = [box EXCEPT ![i] = NoBox] /\ UNCHANGED nextBox

\* docker compose up: a replica, or the container of a service that has none.
HostCreates(s) ==
  /\ ProjectOf[s] \in Standalone => BoxesOf(s) = {}
  /\ box' = [box EXCEPT ![nextBox] = [svc |-> s, state |-> "running"]]
  /\ nextBox' = nextBox + 1

HostMoves ==
  /\ Upset
  /\ \/ \E i \in Ids : HostStops(i) \/ HostStarts(i) \/ HostRemoves(i)
     \/ \E s \in Services : HostCreates(s)
  /\ UNCHANGED <<onDisk, rowVars, pass, clock, lastSeen>>

\* A compose project's directory is moved away or comes back.
FilesMove ==
  /\ Upset
  /\ \E p \in Projects \ Standalone :
       onDisk' = IF p \in onDisk THEN onDisk \ {p} ELSE onDisk \union {p}
  /\ UNCHANGED <<box, nextBox, rowVars, pass, clock, lastSeen>>

Tick ==
  /\ clock < MaxClock
  /\ clock' = clock + 1
  /\ UNCHANGED <<box, nextBox, onDisk, rowVars, pass, lastSeen, used>>
-----------------------------------------------------------------------------
(* The statements of store.Projects and store.Services.                    *)

\* Mutant: a present service keeps its gone_since.
PresentKeepsGone(ids, state, s) ==
  [ids |-> ids, state |-> state, gone |-> IF svcRow[s] = NoRow THEN Never ELSE svcRow[s].gone]

\* services.Upsert: container ids and state as given, gone_since cleared.
Present(ids, state, s) == [ids |-> ids, state |-> state, gone |-> Never]

\* projects.Upsert: on a conflict the source stays, the files do not.
ProjectUpsert(p, source, files) ==
  IF projRow[p] = NoRow THEN [source |-> source, files |-> files, unmanaged |-> FALSE]
  ELSE [projRow[p] EXCEPT !.files = files]

\* services.MarkGone: COALESCE keeps the first timestamp.
MarkedGone(r) == [r EXCEPT !.state = "gone", !.gone = IF @ = Never THEN clock ELSE @]

\* settingIntDefault and the clamp: a negative grace counts as none.
Grace == IF GoneGrace < 0 THEN 0 ELSE GoneGrace

\* gone_since is a whole second, the cutoff is not: at equality it is earlier.
Expired(r) == r.state = "gone" /\ r.gone # Never /\ r.gone + Grace <= clock

-----------------------------------------------------------------------------
(* A reconcile pass.                                                       *)

\* Group: the containers of a service, without the ones that could not be
\* inspected; state and digest are those of the first in Docker's list, which
\* is sorted newest first.
Seen(s, skipped) ==
  LET ids == BoxesOf(s) \ skipped
  IN  IF ids = {} THEN NoSight
      ELSE [ids |-> ids, state |-> box[CHOOSE i \in ids : \A j \in ids : j <= i].state]

\* Collect and Group, then projects.List.  A container whose inspect fails is
\* skipped, which is no error.  (A failing list call just ends the pass.)
PassCollect ==
  /\ pass.at = "idle"
  /\ \E skipped \in {{}} \union {{i} : i \in {j \in Ids : box[j] # NoBox}} :
       /\ IF skipped = {} THEN UNCHANGED used ELSE Upset
       /\ pass' = [at |-> "upsert", next |-> 1,
                   sight |-> [s \in Services |-> Seen(s, skipped)],
                   listed |-> [p \in Projects |->
                                 IF projRow[p] = NoRow THEN "none" ELSE projRow[p].source]]
  /\ UNCHANGED <<box, nextBox, onDisk, rowVars, clock, lastSeen>>

\* A store call fails: Reconcile returns stays.
PassAborts ==
  /\ pass.at # "idle"
  /\ Upset
  /\ pass' = NoPass
  /\ UNCHANGED <<box, nextBox, onDisk, rowVars, clock, lastSeen>>

\* Mutant: the unmanaged flag, once set, stays.
RefreshedSticky(p) ==
  LET r == IF pass.listed[p] = "manual" THEN projRow[p]
           ELSE ProjectUpsert(p, "discovered", "label")
  IN  [r EXCEPT !.unmanaged = IF p \in Standalone THEN @ ELSE @ \/ p \notin onDisk]

\* One group's project: a manual row keeps its files; a compose project whose
\* files cannot be found is flagged unmanaged either way.
Refreshed(p) ==
  LET r == IF pass.listed[p] = "manual" THEN projRow[p]
           ELSE ProjectUpsert(p, "discovered", "label")
  IN  [r EXCEPT !.unmanaged = IF p \in Standalone THEN @ ELSE p \notin onDisk]

\* The next service of the sorted groups, its project first.
PassUpsert ==
  /\ pass.at = "upsert" /\ pass.next <= Len(ServiceSeq)
  /\ LET s == ServiceSeq[pass.next]
         p == ProjectOf[s]
         found == pass.sight[s]
     IN  IF found = NoSight THEN UNCHANGED <<rowVars, lastSeen>>
         ELSE /\ projRow' = [projRow EXCEPT ![p] = Refreshed(p)]
              /\ svcRow' = [svcRow EXCEPT ![s] = Present(found.ids, found.state, s)]
              /\ lastSeen' = [lastSeen EXCEPT ![s] = clock]
  /\ pass' = [pass EXCEPT !.next = @ + 1,
                          !.at = IF pass.next = Len(ServiceSeq) THEN "gone" ELSE @,
                          !.sight[ServiceSeq[pass.next]] = IF @ = NoSight THEN @ ELSE Written]
  /\ UNCHANGED <<box, nextBox, onDisk, clock, used>>

\* Mutant: manual projects are not left out.
MissedAnywhere(s) ==
  pass.listed[ProjectOf[s]] # "none" /\ pass.sight[s] = NoSight /\ svcRow[s] # NoRow

\* goneServiceIDs: what the projects listed as discovered have and Docker has not.
Missed(s) ==
  /\ pass.listed[ProjectOf[s]] = "discovered"
  /\ pass.sight[s] = NoSight
  /\ svcRow[s] # NoRow

PassGone ==
  /\ pass.at = "gone"
  /\ svcRow' = [s \in Services |-> IF Missed(s) THEN MarkedGone(svcRow[s]) ELSE svcRow[s]]
  /\ pass' = [NoPass EXCEPT !.at = "prune"]
  /\ UNCHANGED <<box, nextBox, onDisk, projRow, clock, lastSeen, used>>

\* Only discovered projects are pruned; the list is read afresh.
Prunable(p) == projRow[p] # NoRow /\ projRow[p].source = "discovered"

\* Mutant: the project goes with the first of its services.
DesertedAny(p, left) == Prunable(p)

Deserted(p, left) == Prunable(p) /\ \A s \in left : ProjectOf[s] # p

\* auto_remove_gone: delete expired services, then discovered projects that
\* have none left.  Projects come sorted; a store error ends the pass after
\* some of them.
PassPrune ==
  /\ pass.at = "prune"
  /\ \E done \in {ProjectsOf(n) : n \in 0..Len(ServiceSeq)} :
       LET dead == {s \in Services : /\ ProjectOf[s] \in done /\ Prunable(ProjectOf[s])
                                     /\ svcRow[s] # NoRow /\ Expired(svcRow[s])}
           left == {s \in Services \ dead : svcRow[s] # NoRow}
           empty == {p \in done : Deserted(p, left)}
       IN  /\ svcRow' = [s \in Services |-> IF s \in dead THEN NoRow ELSE svcRow[s]]
           /\ projRow' = [p \in Projects |-> IF p \in empty THEN NoRow ELSE projRow[p]]
           /\ IF done = Projects THEN UNCHANGED used ELSE Upset
  /\ pass' = NoPass
  /\ UNCHANGED <<box, nextBox, onDisk, clock, lastSeen>>

PassStep == PassUpsert \/ PassGone \/ PassPrune

-----------------------------------------------------------------------------
(* The user registers a compose project (handleCreateProject): the files   *)
(* parse, the project is upserted as manual, and a row without containers  *)
(* is upserted for every service the file declares.                        *)

Register(p) ==
  /\ p \in onDisk
  /\ Upset
  /\ projRow' = [projRow EXCEPT ![p] = ProjectUpsert(p, "manual", "user")]
  /\ svcRow' = [s \in Services |->
                  IF ProjectOf[s] = p THEN Present({}, "", s) ELSE svcRow[s]]
  /\ UNCHANGED <<box, nextBox, onDisk, pass, clock, lastSeen>>
=============================================================================
