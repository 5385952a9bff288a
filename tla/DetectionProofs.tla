-------------------------- MODULE DetectionProofs --------------------------
(***************************************************************************)
(* Proofs about Detection for any repository of tags, any images and       *)
(* labels, and any number of pushes, new pins, applied updates and failing *)
(* calls.                                                                  *)
(*                                                                         *)
(* First what the loop of NewerSemverTag computes, for every list of tags. *)
(* An induction over the list is written as the search for a least         *)
(* counterexample: the numbers of tags after which the loop has gone wrong *)
(* would have a smallest one, and that one cannot be.                      *)
(***************************************************************************)
EXTENDS Detection, WellFoundedInduction, TLAPS

Tags == [core : {<< >>} \union (Nat \X Nat \X Nat), full : BOOLEAN, flavor : {"", "v", "-", "."}]

\* A nonempty set of numbers has a least one.
LEMMA SmallestOf ==
  ASSUME NEW T, T \subseteq Nat, T # {}
  PROVE  \E x \in T : \A y \in T : x <= y
<1> DEFINE R == OpToRel(<, Nat)
<1>1. IsWellFoundedOn(R, Nat) BY NatLessThanWellFounded
<1> HIDE DEF R
<1>2. PICK x \in T : \A y \in T : ~(<<y, x>> \in R) BY <1>1, WFMin
<1>3. ASSUME NEW y \in T PROVE x <= y
  <2>1. <<y, x>> \notin R BY <1>2
  <2>2. ~(y < x) BY <2>1 DEF R, OpToRel
  <2> QED BY <2>2
<1> QED BY <1>2, <1>3

\* The repository's tags.
LEMMA TagFacts ==
  /\ TagList \in Seq(Tags) /\ RepoTags = 1..Len(TagList) /\ {1, 2} \subseteq RepoTags
  /\ \A t \in RepoTags : TagList[t] \in Tags
<1>1. TagList \in Seq(Tags) /\ Len(TagList) >= 2 BY DetectionAssumption DEF Tags
<1>2. RepoTags = 1..Len(TagList) BY <1>1 DEF RepoTags
<1> QED BY <1>1, <1>2

\* A tag with a core has three numbers.
LEMMA CoreType ==
  ASSUME NEW t \in RepoTags, HasCore(t)
  PROVE  Core(t)[1] \in Nat /\ Core(t)[2] \in Nat /\ Core(t)[3] \in Nat
<1>1. Core(t) \in Nat \X Nat \X Nat BY TagFacts DEF Tags, HasCore, Core
<1> QED BY <1>1

\* coreLess, component by component.
LEMMA CoreLessIs ==
  ASSUME NEW t, NEW u
  PROVE  CoreLess(t, u) <=>
           \/ Core(t)[1] < Core(u)[1]
           \/ Core(t)[1] = Core(u)[1] /\ Core(t)[2] < Core(u)[2]
           \/ Core(t)[1] = Core(u)[1] /\ Core(t)[2] = Core(u)[2] /\ Core(t)[3] < Core(u)[3]
<1>1. 1..(1 - 1) = {} /\ 1..(2 - 1) = {1} /\ 1..(3 - 1) = {1, 2} /\ 1..3 = {1, 2, 3} OBVIOUS
<1> QED BY <1>1 DEF CoreLess

\* It is a strict order whose incomparable tags have the same numbers.
LEMMA CoreOrder ==
  ASSUME NEW t \in RepoTags, NEW u \in RepoTags, NEW w \in RepoTags,
         HasCore(t), HasCore(u), HasCore(w)
  PROVE  /\ ~CoreLess(t, t)
         /\ CoreLess(t, u) /\ CoreLess(u, w) => CoreLess(t, w)
         /\ CoreLess(t, u) => ~CoreLess(u, t)
         /\ CoreLess(t, u) /\ ~CoreLess(w, u) => CoreLess(t, w)
<1>1. /\ Core(t)[1] \in Nat /\ Core(t)[2] \in Nat /\ Core(t)[3] \in Nat
      /\ Core(u)[1] \in Nat /\ Core(u)[2] \in Nat /\ Core(u)[3] \in Nat
      /\ Core(w)[1] \in Nat /\ Core(w)[2] \in Nat /\ Core(w)[3] \in Nat
  BY CoreType
<1> QED BY <1>1, CoreLessIs

-----------------------------------------------------------------------------
(* The loop.                                                               *)

\* One round of it.
Round(current, b, t) == IF SameStream(t, current) /\ CoreLess(b, t) THEN t ELSE b

\* f records the loop over the first n tags of a list.
Records(f, current, tags, n) ==
  /\ f \in [0..n -> RepoTags] /\ f[0] = current
  /\ \A k \in 1..n : f[k] = Round(current, f[k - 1], tags[k])

\* There is such a record, after any number of rounds.
LEMMA LoopRuns ==
  ASSUME NEW current \in RepoTags, NEW tags \in Seq(RepoTags), NEW n \in 0..Len(tags)
  PROVE  \E f : Records(f, current, tags, n)
<1> DEFINE bad == {m \in 0..Len(tags) : ~\E f : Records(f, current, tags, m)}
<1> SUFFICES ASSUME bad # {} PROVE FALSE OBVIOUS
<1>1. PICK m \in bad : \A k \in bad : m <= k
  <2>1. bad \subseteq Nat OBVIOUS
  <2> HIDE DEF bad
  <2> QED BY <2>1, SmallestOf
<1>2. CASE m = 0
  <2>1. Records([i \in 0..0 |-> current], current, tags, 0) BY DEF Records
  <2> QED BY <1>1, <1>2, <2>1
<1>3. CASE m # 0
  <2>1. m - 1 \in 0..Len(tags) /\ m - 1 \notin bad /\ m \in Nat BY <1>1, <1>3
  <2>2. PICK g : Records(g, current, tags, m - 1) BY <2>1
  <2> DEFINE f == [i \in 0..m |-> IF i = m THEN Round(current, g[m - 1], tags[m]) ELSE g[i]]
  <2>3. tags[m] \in RepoTags /\ g[m - 1] \in RepoTags BY <1>1, <1>3, <2>1, <2>2 DEF Records
  <2>4. f \in [0..m -> RepoTags] BY <2>1, <2>2, <2>3 DEF Records, Round
  <2>5. f[0] = current BY <1>3, <2>1, <2>2 DEF Records
  <2>6. \A k \in 1..m : f[k] = Round(current, f[k - 1], tags[k])
    <3> TAKE k \in 1..m
    <3>1. CASE k = m BY <2>1, <3>1
    <3>2. CASE k # m
      <4>1. k \in 1..(m - 1) /\ k - 1 \in 0..(m - 1) /\ k - 1 # m BY <2>1, <3>2
      <4>2. f[k] = g[k] /\ f[k - 1] = g[k - 1] BY <2>1, <3>2, <4>1
      <4> QED BY <2>2, <4>1, <4>2 DEF Records
    <3> QED BY <3>1, <3>2
  <2> HIDE DEF f
  <2>7. Records(f, current, tags, m) BY <2>4, <2>5, <2>6 DEF Records
  <2> QED BY <1>1, <2>7
<1> QED BY <1>2, <1>3

\* So the recursive definition has its meaning.
LEMMA BestOfRecords ==
  ASSUME NEW current \in RepoTags, NEW tags \in Seq(RepoTags)
  PROVE  Records(BestOf(current, tags), current, tags, Len(tags))
<1> DEFINE Body(f) == [n \in 0..Len(tags) |->
                         IF n = 0 THEN current
                         ELSE IF SameStream(tags[n], current) /\ CoreLess(f[n - 1], tags[n])
                              THEN tags[n] ELSE f[n - 1]]
<1>1. BestOf(current, tags) = CHOOSE f : f = Body(f) BY DEF BestOf
<1>2. PICK g : Records(g, current, tags, Len(tags)) BY LoopRuns
<1>3. g = Body(g) BY <1>2 DEF Records, Round
<1> DEFINE b == BestOf(current, tags)
<1>4. b = Body(b) BY <1>1, <1>3
<1> HIDE DEF b
<1>5. \A n \in 0..Len(tags) : b[n] = g[n]
  <2> DEFINE bad == {n \in 0..Len(tags) : b[n] # g[n]}
  <2> SUFFICES ASSUME bad # {} PROVE FALSE OBVIOUS
  <2>1. PICK m \in bad : \A k \in bad : m <= k
    <3>1. bad \subseteq Nat OBVIOUS
    <3> HIDE DEF bad
    <3> QED BY <3>1, SmallestOf
  <2>2. m # 0 BY <1>3, <1>4, <2>1
  <2>3. m - 1 \in 0..Len(tags) /\ b[m - 1] = g[m - 1] BY <2>1, <2>2
  <2>4. /\ b[m] = IF SameStream(tags[m], current) /\ CoreLess(b[m - 1], tags[m]) THEN tags[m] ELSE b[m - 1]
        /\ g[m] = IF SameStream(tags[m], current) /\ CoreLess(g[m - 1], tags[m]) THEN tags[m] ELSE g[m - 1]
    BY <1>3, <1>4, <2>1, <2>2
  <2> QED BY <2>1, <2>3, <2>4
<1>6. b = g
  <2>1. b = [n \in 0..Len(tags) |-> b[n]] /\ g = [n \in 0..Len(tags) |-> g[n]] BY <1>3, <1>4
  <2> QED BY <1>5, <2>1
<1> QED BY <1>2, <1>6 DEF b

\* What is true after n rounds: the best is the current tag or a newer one of its
\* stream from the list, and none of the tags read is newer.
LoopInv(b, current, tags, n) ==
  /\ \/ b = current
     \/ (\E k \in 1..n : b = tags[k]) /\ SameStream(b, current) /\ CoreLess(current, b)
  /\ \A k \in 1..n : SameStream(tags[k], current) => ~CoreLess(b, tags[k])

\* A round keeps it.
LEMMA RoundKeeps ==
  ASSUME NEW current \in RepoTags, NEW tags \in Seq(RepoTags), NEW m \in 1..Len(tags),
         NEW b \in RepoTags, LoopInv(b, current, tags, m - 1)
  PROVE  LoopInv(Round(current, b, tags[m]), current, tags, m)
<1>0. m \in Nat /\ tags[m] \in RepoTags /\ \A k \in 1..m : k \in 1..(m - 1) \/ k = m OBVIOUS
<1>1. \A k \in 1..m : tags[k] \in RepoTags OBVIOUS
<1>2. CASE SameStream(tags[m], current) /\ CoreLess(b, tags[m])
  <2>1. HasCore(tags[m]) /\ HasCore(current) /\ HasCore(b) BY <1>2 DEF SameStream, LoopInv
  <2>2. CoreLess(current, tags[m]) BY <1>0, <1>2, <2>1, CoreOrder DEF LoopInv
  <2>3. ASSUME NEW k \in 1..m, SameStream(tags[k], current) PROVE ~CoreLess(tags[m], tags[k])
    <3>1. HasCore(tags[k]) BY <2>3 DEF SameStream
    <3>2. CASE k = m BY <1>0, <2>1, <3>2, CoreOrder
    <3>3. CASE k \in 1..(m - 1)
      <4>1. ~CoreLess(b, tags[k]) BY <2>3, <3>3 DEF LoopInv
      <4> QED BY <1>0, <1>1, <1>2, <2>1, <3>1, <4>1, CoreOrder
    <3> QED BY <1>0, <3>2, <3>3
  <2>4. Round(current, b, tags[m]) = tags[m] BY <1>2 DEF Round
  <2> QED BY <1>0, <1>2, <2>2, <2>3, <2>4 DEF LoopInv
<1>3. CASE ~(SameStream(tags[m], current) /\ CoreLess(b, tags[m]))
  <2>1. Round(current, b, tags[m]) = b BY <1>3 DEF Round
  <2>2. 1..(m - 1) \subseteq 1..m OBVIOUS
  <2>3. \A k \in 1..m : SameStream(tags[k], current) => ~CoreLess(b, tags[k]) BY <1>0, <1>3 DEF LoopInv
  <2> QED BY <2>1, <2>2, <2>3 DEF LoopInv
<1> QED BY <1>2, <1>3

\* So it is true when the loop ends.
LEMMA LoopEnds ==
  ASSUME NEW current \in RepoTags, NEW tags \in Seq(RepoTags)
  PROVE  /\ NewerSemverTag(current, tags) \in RepoTags
         /\ LoopInv(NewerSemverTag(current, tags), current, tags, Len(tags))
<1> DEFINE f == BestOf(current, tags)
           bad == {n \in 0..Len(tags) : ~LoopInv(f[n], current, tags, n)}
<1>1. Records(f, current, tags, Len(tags)) BY BestOfRecords
<1> HIDE DEF f
<1>2. bad = {}
  <2> SUFFICES ASSUME bad # {} PROVE FALSE OBVIOUS
  <2>1. PICK m \in bad : \A k \in bad : m <= k
    <3>1. bad \subseteq Nat OBVIOUS
    <3> HIDE DEF bad
    <3> QED BY <3>1, SmallestOf
  <2>2. m # 0
    <3>1. f[0] = current /\ 1..0 = {} BY <1>1 DEF Records
    <3> QED BY <2>1, <3>1 DEF LoopInv
  <2>3. m \in 1..Len(tags) /\ m - 1 \in 0..Len(tags) /\ m - 1 \notin bad BY <2>1, <2>2
  <2>4. LoopInv(f[m - 1], current, tags, m - 1) BY <2>3
  <2>5. f[m - 1] \in RepoTags /\ f[m] = Round(current, f[m - 1], tags[m]) BY <1>1, <2>3 DEF Records
  <2>6. LoopInv(Round(current, f[m - 1], tags[m]), current, tags, m) BY <2>3, <2>4, <2>5, RoundKeeps
  <2> QED BY <2>1, <2>5, <2>6
<1>3. Len(tags) \in 0..Len(tags) OBVIOUS
<1>4. NewerSemverTag(current, tags) = f[Len(tags)] BY DEF NewerSemverTag, f
<1> QED BY <1>1, <1>2, <1>3, <1>4 DEF Records

\* NewerSemverTag returns a newest tag of the current one's stream among the
\* newer ones of the list, and none when there is none, whatever the order of the
\* list and however often a version is in it.
THEOREM NewestTagIsFound ==
  ASSUME NEW current \in RepoTags, NEW tags \in Seq(RepoTags)
  PROVE  LET newer == {t \in {tags[k] : k \in 1..Len(tags)} :
                         SameStream(t, current) /\ CoreLess(current, t)}
         IN  IF newer = {} THEN NewerSemverTag(current, tags) = current
             ELSE NewerSemverTag(current, tags) \in NewestOf(newer)
<1> DEFINE r == NewerSemverTag(current, tags)
           newer == {t \in {tags[k] : k \in 1..Len(tags)} :
                       SameStream(t, current) /\ CoreLess(current, t)}
<1>1. r \in RepoTags /\ LoopInv(r, current, tags, Len(tags)) BY LoopEnds
<1> HIDE DEF r
<1>2. r = current \/ r \in newer BY <1>1 DEF LoopInv
<1>3. \A t \in newer : ~CoreLess(r, t) BY <1>1 DEF LoopInv
<1>4. CASE newer = {} BY <1>2, <1>4 DEF r
<1>5. CASE newer # {}
  <2>1. r # current BY <1>3, <1>5
  <2> QED BY <1>2, <1>3, <1>5, <2>1 DEF NewestOf, r
<1> QED BY <1>4, <1>5

-----------------------------------------------------------------------------
(* A scan against a registry, a user and applies that go on meanwhile.     *)

\* The tags the registry has.
There == {t \in RepoTags : serves[t] # 0}
Finds == [tag : RepoTags, image : Pictures]

\* The list of tags names what is there, in some order.
RegistryShape ==
  /\ serves \in [RepoTags -> 0..ImageCount]
  /\ catalog \in Seq(RepoTags) /\ {catalog[k] : k \in 1..Len(catalog)} = There

\* The cache holds exact tags only, and those are never pushed again.
CacheRight ==
  /\ tagCache \in [RepoTags -> 0..ImageCount]
  /\ \A t \in RepoTags : tagCache[t] # 0 => IsExact(t) /\ tagCache[t] = serves[t]

\* So does what an image was named after, unless it is the label.
NamesOwn ==
  /\ named \in [Pictures -> {Unnamed} \union RepoTags]
  /\ \A i \in Pictures :
       named[i] \in {Unnamed, LabelOf[i]} \union {t \in RepoTags : IsExact(t) /\ serves[t] = i}

\* The service and its update are tags that are there.
ServiceShape ==
  /\ pin \in Finds /\ pin.tag \in There
  /\ found = NoFind \/ (found \in Finds /\ found.tag \in There)

LookSteps == {"idle", "head", "resolve", "list", "newer", "compare", "from", "to", "name"}

\* So are the row and the target of a scan.
LookShape ==
  \/ look = NoLook
  \/ /\ look \in [at : LookSteps, row : Finds, target : Finds]
     /\ look.row.tag \in There /\ look.target.tag \in There

DetectInv == RegistryShape /\ CacheRight /\ NamesOwn /\ ServiceShape /\ LookShape

\* Numbers of images, and what serves a tag that is there.
LEMMA ImageFacts ==
  /\ ImageCount \in Nat /\ Pictures \subseteq 0..ImageCount /\ 0 \notin Pictures /\ 1 \in Pictures
  /\ 0 \notin RepoTags /\ LabelOf \in [Pictures -> RepoTags]
  /\ RegistryShape => \A t \in There : serves[t] \in Pictures
<1>0. ImageCount \in Nat \ {0} /\ LabelOf \in [Pictures -> RepoTags] BY DetectionAssumption, Zenon
<1>1. ImageCount \in Nat /\ ImageCount > 0 /\ LabelOf \in [Pictures -> RepoTags] BY <1>0
<1>2. Pictures \subseteq 0..ImageCount /\ 0 \notin Pictures /\ 1 \in Pictures BY <1>1 DEF Pictures
<1>3. 0 \notin RepoTags BY TagFacts
<1>4. ASSUME RegistryShape, NEW t \in There PROVE serves[t] \in Pictures
  <2>1. serves[t] \in 0..ImageCount /\ serves[t] # 0 BY <1>4 DEF RegistryShape, There
  <2> QED BY <1>1, <2>1 DEF Pictures
<1> QED BY <1>1, <1>2, <1>3, <1>4

\* The start.
LEMMA DetectInitInv == DetectInit => DetectInv
<1> SUFFICES ASSUME DetectInit PROVE DetectInv OBVIOUS
<1> USE ImageFacts, TagFacts DEF DetectInit
<1>1. serves \in [RepoTags -> 0..ImageCount] /\ There = {1, 2} BY DEF There
<1>2. catalog \in Seq(RepoTags) /\ {catalog[k] : k \in 1..Len(catalog)} = {1, 2}
  <2>1. <<1, 2>> \in Seq(RepoTags) /\ Len(<<1, 2>>) = 2 /\ 1..2 = {1, 2} OBVIOUS
  <2> QED BY <2>1
<1>3. pin \in Finds /\ pin.tag \in {1, 2}
  <2>1. PICK t \in {1, 2} : pin = [tag |-> t, image |-> 1] BY DetectionAssumption
  <2>2. t \in RepoTags BY TagFacts
  <2> QED BY <2>1, <2>2, ImageFacts DEF Finds
<1>4. CacheRight /\ NamesOwn BY DEF CacheRight, NamesOwn, Unnamed
<1> QED BY <1>1, <1>2, <1>3, <1>4 DEF DetectInv, RegistryShape, ServiceShape, LookShape

\* A push: an exact tag is new, so no cache and no name is touched.
LEMMA PushInv ==
  ASSUME DetectInv, NEW t \in RepoTags, NEW i \in Pictures, PushTag(t, i)
  PROVE  DetectInv'
<1> USE ImageFacts DEF DetectInv
<1>1. serves' \in [RepoTags -> 0..ImageCount] /\ There' = There \union {t}
  BY DEF PushTag, RegistryShape, There
<1>2. catalog' \in Seq(RepoTags) /\ {catalog'[k] : k \in 1..Len(catalog')} = There'
  <2>1. CASE serves[t] = 0
    <3>1. catalog' = Append(catalog, t) BY <2>1 DEF PushTag
    <3>2. catalog' \in Seq(RepoTags) /\ Len(catalog') = Len(catalog) + 1 /\ Len(catalog) \in Nat
      BY <3>1 DEF RegistryShape
    <3>3. /\ \A k \in 1..Len(catalog) : catalog'[k] = catalog[k]
          /\ catalog'[Len(catalog) + 1] = t
      BY <3>1 DEF RegistryShape
    <3>4. 1..Len(catalog') = 1..Len(catalog) \union {Len(catalog) + 1} BY <3>2
    <3>5. {catalog'[k] : k \in 1..Len(catalog')} = {catalog[k] : k \in 1..Len(catalog)} \union {t}
      BY <3>3, <3>4
    <3> QED BY <1>1, <3>2, <3>5 DEF RegistryShape
  <2>2. CASE serves[t] # 0
    <3>1. catalog' = catalog /\ t \in There BY <2>2 DEF PushTag, There
    <3> QED BY <1>1, <3>1 DEF RegistryShape
  <2> QED BY <2>1, <2>2
<1>3. CacheRight' BY DEF PushTag, CacheRight, RegistryShape
<1>4. NamesOwn' BY DEF PushTag, NamesOwn, RegistryShape
<1>5. ServiceShape' /\ LookShape' BY <1>1 DEF PushTag, ServiceShape, LookShape
<1> QED BY <1>1, <1>2, <1>3, <1>4, <1>5 DEF RegistryShape

\* The service's own moves.
LEMMA ShiftInv == ASSUME DetectInv, (\E t \in Pins : Repin(t)) \/ Adopt PROVE DetectInv'
<1> USE ImageFacts, TagFacts DEF DetectInv
<1>1. UNCHANGED <<registryVars, named, tagCache, look>> BY DEF Repin, Adopt
<1>2. There' = There /\ RegistryShape' /\ CacheRight' /\ NamesOwn' /\ LookShape'
  BY <1>1 DEF registryVars, There, RegistryShape, CacheRight, NamesOwn, LookShape
<1>3. ASSUME NEW t \in Pins, Repin(t) PROVE ServiceShape'
  <2>1. t \in There BY <1>3, DetectionAssumption DEF Repin, There
  <2>2. pin' \in Finds /\ pin'.tag = t BY <1>3, <2>1 DEF Repin, Finds, There
  <2> QED BY <1>2, <1>3, <2>1, <2>2 DEF Repin, ServiceShape
<1>4. CASE Adopt BY <1>2, <1>4 DEF Adopt, ServiceShape
<1> QED BY <1>2, <1>3, <1>4

\* The steps of a scan that only read, compare and record.
LEMMA LookInv ==
  ASSUME DetectInv,
         DetectBegin \/ DetectHead \/ DetectResolve \/ DetectList \/ DetectNewer \/ DetectCompare
  PROVE  DetectInv'
<1> USE DEF DetectInv
<1>1. UNCHANGED <<serves, catalog, pin, named, tagCache>>
  BY DEF DetectBegin, DetectHead, DetectResolve, DetectList, DetectNewer, DetectCompare, lookRest,
         registryVars
<1>2. There' = There /\ RegistryShape' /\ CacheRight' /\ NamesOwn'
  BY <1>1 DEF There, RegistryShape, CacheRight, NamesOwn
<1>3. CASE look' = NoLook /\ found' \in {found, NoFind}
  BY <1>1, <1>2, <1>3 DEF ServiceShape, LookShape
<1>4. ASSUME look' \in [at : LookSteps, row : Finds, target : Finds],
             look'.row.tag \in There, look'.target.tag \in There, found' \in {found, NoFind}
      PROVE  DetectInv'
  BY <1>1, <1>2, <1>4 DEF ServiceShape, LookShape
<1>5. look.at # "idle" => /\ look \in [at : LookSteps, row : Finds, target : Finds]
                          /\ look.row.tag \in There /\ look.target.tag \in There
  BY DEF LookShape, NoLook
<1>6. ASSUME NEW w \in LookSteps, look.at # "idle", LookGoes(w), found' \in {found, NoFind}
      PROVE  DetectInv'
  BY <1>4, <1>5, <1>6 DEF LookGoes
<1>7. \A t \in There : t \in RepoTags /\ serves[t] \in Pictures BY ImageFacts DEF There
<1>8. CASE DetectBegin
  <2> DEFINE w == IF Shortcut(pin.tag, pin.image) THEN "head" ELSE "resolve"
  <2>1. w \in LookSteps BY DEF LookSteps
  <2>2. look' = [at |-> w, row |-> pin, target |-> pin] /\ found' = found BY <1>8 DEF DetectBegin
  <2> HIDE DEF w
  <2> QED BY <1>4, <2>1, <2>2 DEF ServiceShape
<1>9. CASE DetectHead BY <1>3, <1>6, <1>9 DEF DetectHead, CloseStale, LookSteps
<1>10. CASE DetectResolve
  <2> DEFINE w == IF IsExact(look.row.tag) THEN "list" ELSE "compare"
             i == serves[look.row.tag]
  <2>1. CASE look' = [look EXCEPT !.at = w, !.target.image = i]
    <3>1. w \in LookSteps BY DEF LookSteps
    <3>2. i \in Pictures BY <1>5, <1>7, <1>10 DEF DetectResolve
    <3> HIDE DEF w, i
    <3>3. look' \in [at : LookSteps, row : Finds, target : Finds]
      BY <1>5, <1>10, <2>1, <3>1, <3>2 DEF DetectResolve, Finds
    <3>4. look'.row = look.row /\ look'.target.tag = look.target.tag
      BY <1>5, <1>10, <2>1 DEF DetectResolve, Finds
    <3> QED BY <1>4, <1>5, <1>10, <3>3, <3>4 DEF DetectResolve
  <2> QED BY <1>3, <1>10, <2>1 DEF DetectResolve
<1>11. CASE DetectList
  <2> DEFINE n == NewerSemverTag(look.row.tag, catalog)
  <2>1. look.at = "list" /\ look.row.tag \in RepoTags BY <1>5, <1>7, <1>11 DEF DetectList
  <2>2. n \in There
    <3>1. LoopInv(n, look.row.tag, catalog, Len(catalog)) BY <2>1, LoopEnds DEF RegistryShape
    <3>2. n = look.row.tag \/ n \in {catalog[k] : k \in 1..Len(catalog)} BY <3>1 DEF LoopInv
    <3> QED BY <1>5, <2>1, <3>2 DEF RegistryShape
  <2>3. CASE look' = [look EXCEPT !.at = "compare"] BY <1>6, <1>11, <2>1, <2>3 DEF LookGoes, LookSteps, DetectList
  <2>4. CASE look' = [look EXCEPT !.at = "newer", !.target.tag = n]
    <3> HIDE DEF n
    <3>1. look' \in [at : LookSteps, row : Finds, target : Finds]
      BY <1>5, <1>7, <2>1, <2>2, <2>4 DEF Finds, LookSteps
    <3>2. look'.row = look.row /\ look'.target.tag = n BY <1>5, <2>1, <2>4 DEF Finds
    <3> QED BY <1>4, <1>5, <1>11, <2>1, <2>2, <3>1, <3>2 DEF DetectList
  <2>5. CASE LookGoes("compare") BY <1>6, <1>11, <2>1, <2>5 DEF LookSteps, DetectList
  <2> QED BY <1>11, <2>3, <2>4, <2>5 DEF DetectList
<1>12. CASE DetectNewer
  <2>1. look.at = "newer" /\ UNCHANGED found BY <1>12 DEF DetectNewer
  <2>2. CASE look' = [look EXCEPT !.at = "compare", !.target.image = serves[look.target.tag]]
    <3>1. look' \in [at : LookSteps, row : Finds, target : Finds]
      BY <1>5, <1>7, <2>1, <2>2 DEF Finds, LookSteps
    <3>2. look'.row = look.row /\ look'.target.tag = look.target.tag BY <1>5, <2>1, <2>2 DEF Finds
    <3> QED BY <1>4, <1>5, <2>1, <3>1, <3>2
  <2>3. CASE look' = [look EXCEPT !.at = "compare", !.target.tag = look.row.tag]
    <3>1. look' \in [at : LookSteps, row : Finds, target : Finds]
      BY <1>5, <1>7, <2>1, <2>3 DEF Finds, LookSteps
    <3>2. look'.row = look.row /\ look'.target.tag = look.row.tag BY <1>5, <2>1, <2>3 DEF Finds
    <3> QED BY <1>4, <1>5, <2>1, <3>1, <3>2
  <2> QED BY <1>12, <2>2, <2>3 DEF DetectNewer
<1>13. CASE DetectCompare
  <2>1. look.at = "compare" BY <1>13 DEF DetectCompare
  <2>2. CASE RecordFind /\ look' = NoLook
    <3>1. found' \in Finds /\ found'.tag \in There BY <1>5, <2>1, <2>2 DEF RecordFind
    <3> QED BY <1>1, <1>2, <2>2, <3>1 DEF ServiceShape, LookShape
  <2> QED BY <1>3, <1>6, <1>13, <2>1, <2>2 DEF DetectCompare, CloseStale, LookSteps
<1> QED BY <1>8, <1>9, <1>10, <1>11, <1>12, <1>13

\* The cache and the registry answer the same for an exact tag, and what is
\* added to the cache is right.
LEMMA CacheAnswers ==
  ASSUME DetectInv, NEW tags, tags \subseteq {t \in RepoTags : IsExact(t)}
  PROVE  /\ \A t \in RepoTags : DigestOf(t) = serves[t]
         /\ tagCache' = Cached(tags) /\ UNCHANGED serves => CacheRight'
<1> USE DEF DetectInv
<1>1. \A t \in RepoTags : DigestOf(t) = serves[t] BY DEF DigestOf, CacheRight
<1>2. ASSUME tagCache' = Cached(tags), UNCHANGED serves PROVE CacheRight'
  <2>1. \A t \in RepoTags : tagCache'[t] = IF t \in tags THEN serves[t] ELSE tagCache[t]
    BY <1>1, <1>2 DEF Cached
  <2>2. tagCache' \in [RepoTags -> 0..ImageCount]
    BY <1>1, <1>2, <2>1 DEF Cached, CacheRight, RegistryShape
  <2> QED BY <1>2, <2>1, <2>2 DEF CacheRight
<1> QED BY <1>1, <1>2

\* An answer that was looked up: an exact tag that serves the image, or none.
Sound(i, answer) ==
  answer \in {NoMatch, Inconclusive} \/ (answer \in RepoTags /\ IsExact(answer) /\ serves[answer] = i)

\* An image gets its label or an exact tag that serves it.
LEMMA NameIsOwn ==
  ASSUME DetectInv, NEW i \in Pictures, NEW answer, Sound(i, answer), UNCHANGED serves,
         named' = IF Names(answer) THEN [named EXCEPT ![i] = NameFor(i, answer)] ELSE named
  PROVE  NamesOwn'
<1> USE DEF DetectInv
<1>1. CASE named' = named BY <1>1 DEF NamesOwn
<1>2. CASE Names(answer)
  <2>1. PICK v : /\ named' = [named EXCEPT ![i] = v]
                 /\ v = LabelOf[i] \/ (v = answer /\ IsExact(answer) /\ serves[answer] = i /\ answer \in RepoTags)
    BY <1>2 DEF Names, NameFor, Sound
  <2>2. v \in RepoTags BY <2>1, ImageFacts
  <2> QED BY <2>1, <2>2 DEF NamesOwn
<1> QED BY <1>1, <1>2

\* What a run of matchVersionByDigest leaves: exact tags in the cache and an
\* answer that is a tag of the image or says that there is none.
Looked(i) ==
  \E got, answer :
    /\ got \subseteq {t \in RepoTags : IsExact(t)} /\ tagCache' = Cached(got)
    /\ Sound(i, answer) /\ Answered(i, answer)

\* A walk reads exact tags and answers with one that serves the image.
LEMMA WalkShape ==
  ASSUME DetectInv, NEW i \in Pictures, NEW asked, asked \subseteq {t \in RepoTags : IsExact(t)},
         NEW failing, Walk(i, asked, failing)
  PROVE  Looked(i)
<1>1. PICK w \in Walked(catalog) :
        /\ tagCache' = Cached(asked \union (w \ failing))
        /\ \/ Answered(i, NoMatch)
           \/ \E t \in Matching(i, w \ failing) : Answered(i, t)
           \/ Answered(i, Inconclusive)
  BY DEF Walk
<1>2. w \subseteq {t \in RepoTags : IsExact(t)}
  <2>1. \A k \in DOMAIN catalog : catalog[k] \in RepoTags BY DEF DetectInv, RegistryShape
  <2> QED BY <2>1 DEF Walked, Plain
<1>3. asked \union (w \ failing) \subseteq {t \in RepoTags : IsExact(t)} BY <1>2
<1>4. ASSUME NEW t \in Matching(i, w \ failing) PROVE Sound(i, t)
  <2>1. t \in w /\ DigestOf(t) = i BY <1>4 DEF Matching
  <2>2. {} \subseteq {u \in RepoTags : IsExact(u)} OBVIOUS
  <2>3. \A u \in RepoTags : DigestOf(u) = serves[u] BY <2>2, CacheAnswers
  <2> QED BY <1>2, <2>1, <2>3 DEF Sound
<1>5. PICK answer : Sound(i, answer) /\ Answered(i, answer) BY <1>1, <1>4 DEF Sound
<1> QED BY <1>1, <1>3, <1>5 DEF Looked

\* So does every run of matchVersionByDigest.
LEMMA MatchShape ==
  ASSUME DetectInv, DetectMatch
  PROVE  \E i \in Pictures : Looked(i)
<1>1. look \in [at : LookSteps, row : Finds, target : Finds]
  BY DEF DetectMatch, DetectInv, LookShape, NoLook
<1>2. PICK i \in Pictures : i = IF look.at = "to" THEN look.target.image ELSE look.row.image
  BY <1>1 DEF Finds
<1>3. Prefer(i) \subseteq {t \in RepoTags : IsExact(t)} BY ImageFacts DEF Prefer
<1>4. \/ Matching(i, Prefer(i)) # {} /\ tagCache' = Cached(Prefer(i)) /\ Answered(i, LabelOf[i])
      \/ Walk(i, Prefer(i), {})
      \/ \E asked \in {{}, Prefer(i)} : \E failing : Walk(i, asked, failing) \/ Unlisted(i, asked)
  BY <1>2 DEF DetectMatch
<1>5. CASE Matching(i, Prefer(i)) # {} /\ tagCache' = Cached(Prefer(i)) /\ Answered(i, LabelOf[i])
  <2>1. LabelOf[i] \in Prefer(i) /\ DigestOf(LabelOf[i]) = i BY <1>5 DEF Matching, Prefer
  <2>2. serves[LabelOf[i]] = i BY <1>3, <2>1, CacheAnswers
  <2>3. Sound(i, LabelOf[i]) BY <1>3, <2>1, <2>2 DEF Sound
  <2> QED BY <1>3, <1>5, <2>3 DEF Looked
<1>6. CASE Walk(i, Prefer(i), {}) BY <1>3, <1>6, WalkShape
<1>7. ASSUME NEW asked \in {{}, Prefer(i)}, NEW failing, Walk(i, asked, failing) \/ Unlisted(i, asked)
      PROVE  Looked(i)
  <2>1. asked \subseteq {t \in RepoTags : IsExact(t)} BY <1>3
  <2>2. CASE Walk(i, asked, failing) BY <2>1, <2>2, WalkShape
  <2>3. CASE Unlisted(i, asked)
    <3>1. Sound(i, Inconclusive) BY DEF Sound
    <3> QED BY <2>1, <2>3, <3>1 DEF Unlisted, Looked
  <2> QED BY <1>7, <2>2, <2>3
<1> QED BY <1>4, <1>5, <1>6, <1>7

\* A lookup fills the cache and, at the end of a scan, names the image or
\* records the drift.
LEMMA MatchInv == ASSUME DetectInv, DetectMatch PROVE DetectInv'
<1> USE DEF DetectInv
<1>1. /\ look \in [at : LookSteps, row : Finds, target : Finds]
      /\ look.row.tag \in There /\ look.target.tag \in There
  BY DEF DetectMatch, LookShape, NoLook
<1>2. UNCHANGED <<serves, catalog, pin>> BY DEF DetectMatch, lookRest, registryVars
<1>3. There' = There /\ RegistryShape' BY <1>2 DEF There, RegistryShape
<1>0. PICK i \in Pictures : Looked(i) BY MatchShape
<1>4. PICK got, answer :
        /\ got \subseteq {t \in RepoTags : IsExact(t)} /\ tagCache' = Cached(got)
        /\ Sound(i, answer) /\ Answered(i, answer)
  BY <1>0 DEF Looked
<1>5. CacheRight' BY <1>2, <1>4, CacheAnswers
<1>6. NamesOwn' BY <1>2, <1>4, NameIsOwn DEF Answered
<1>7. ServiceShape'
  <2>1. found' = found \/ found' = look.target BY <1>4 DEF Answered, RecordFind
  <2> QED BY <1>1, <1>2, <1>3, <2>1 DEF ServiceShape
<1>8. LookShape'
  <2>1. look' = NoLook \/ look' = [look EXCEPT !.at = "to"] BY <1>4 DEF Answered
  <2>2. CASE look' = [look EXCEPT !.at = "to"]
    <3>1. look' \in [at : LookSteps, row : Finds, target : Finds] BY <1>1, <2>2 DEF LookSteps
    <3>2. look'.row = look.row /\ look'.target = look.target BY <1>1, <2>2
    <3> QED BY <1>1, <1>3, <3>1, <3>2 DEF LookShape
  <2> QED BY <2>1, <2>2 DEF LookShape
<1> QED BY <1>3, <1>5, <1>6, <1>7, <1>8

\* The invariant holds in every reachable state.
THEOREM DetectInvariant == DetectSpec => []DetectInv
<1>1. DetectInv /\ [DetectNext]_detectVars => DetectInv'
  <2> SUFFICES ASSUME DetectInv, [DetectNext]_detectVars PROVE DetectInv' OBVIOUS
  <2>1. CASE UNCHANGED detectVars
    BY <2>1 DEF detectVars, registryVars, DetectInv, RegistryShape, CacheRight, NamesOwn, ServiceShape,
                LookShape, There
  <2> QED BY <2>1, PushInv, ShiftInv, LookInv, MatchInv DEF DetectNext, DetectStep
<1> QED BY <1>1, DetectInitInv, PTL DEF DetectSpec

\* What the ledger and the caches say of images is true: the cache of tags is
\* right although it never expires, and an image is only called by its label or
\* by an exact tag that serves it, whatever is pushed during the walk.
THEOREM DetectTypeCorrect == DetectSpec => []DetectTypeOK
<1>1. DetectInv => DetectTypeOK
  <2> SUFFICES ASSUME DetectInv PROVE DetectTypeOK OBVIOUS
  <2>1. \A t \in RepoTags : serves[t] \in 0..ImageCount /\ tagCache[t] \in {0, serves[t]}
    BY DEF DetectInv, RegistryShape, CacheRight
  <2>2. /\ pin.tag \in RepoTags /\ pin.image \in Pictures
        /\ found = NoFind \/ (found.tag \in RepoTags /\ found.image \in Pictures)
    BY DEF DetectInv, ServiceShape, Finds
  <2>3. look.at \in LookSteps BY DEF DetectInv, LookShape, LookSteps, NoLook
  <2> QED BY <2>1, <2>2, <2>3 DEF DetectTypeOK, DetectInv, NamesOwn, LookSteps
<1> QED BY <1>1, DetectInvariant, PTL

-----------------------------------------------------------------------------
(* What a scan offers.                                                     *)

\* The newer tags of a tag's stream that the registry has.
NewerThan(t) == {u \in There : SameStream(u, t) /\ CoreLess(t, u)}

\* A list call that is answered decides, as of that moment: the scan goes on with
\* a newest of the newer tags if there is one, else with its own tag.
ListDecides ==
  [][look.at = "list" /\ UNCHANGED toll =>
       IF NewerThan(look.row.tag) = {} THEN look' = [look EXCEPT !.at = "compare"]
       ELSE look'.at = "newer" /\ look'.target.tag \in NewestOf(NewerThan(look.row.tag))]_detectVars

\* What is used of the bounds is counted, so that a step that pays is seen.
Charges == {"pushes", "shifts", "outages"}
TollShape == \A w \in Charges : w \in DOMAIN toll /\ toll[w] \in Nat

\* A step that pays changes the count, and keeps its shape.
LEMMA PaysIsSeen ==
  ASSUME TollShape, NEW w \in Charges, NEW m, Pays(w, m)
  PROVE  TollShape' /\ toll' # toll
<1>1. toll' = [toll EXCEPT ![w] = toll[w] + 1] BY DEF Pays
<1>2. toll[w] \in Nat /\ toll'[w] = toll[w] + 1 BY <1>1 DEF TollShape
<1>3. TollShape' BY <1>1, <1>2 DEF TollShape
<1> QED BY <1>2, <1>3

\* Every step leaves the count alone or pays.
LEMMA TollStep ==
  ASSUME TollShape, [DetectNext]_detectVars
  PROVE  TollShape'
<1>1. CASE UNCHANGED toll BY <1>1 DEF TollShape
<1>2. CASE \E w \in Charges : \E m : Pays(w, m) BY <1>2, PaysIsSeen
<1>3. UNCHANGED toll \/ \E w \in Charges : \E m : Pays(w, m)
  <2>1. CASE UNCHANGED detectVars BY <2>1 DEF detectVars
  <2>2. CASE \E t \in RepoTags, i \in Pictures : PushTag(t, i) BY <2>2 DEF PushTag, Charges
  <2>3. CASE \E t \in Pins : Repin(t) BY <2>3 DEF Repin, Charges
  <2>4. CASE Adopt BY <2>4 DEF Adopt, Charges
  <2>5. CASE DetectBegin \/ DetectHead \/ DetectResolve \/ DetectList \/ DetectNewer \/ DetectCompare
    BY <2>5 DEF DetectBegin, DetectHead, DetectResolve, DetectList, DetectNewer, DetectCompare,
                Outage, Charges
  <2>6. CASE DetectMatch BY <2>6 DEF DetectMatch, Outage, Charges
  <2> QED BY <2>1, <2>2, <2>3, <2>4, <2>5, <2>6 DEF DetectNext, DetectStep
<1> QED BY <1>1, <1>2, <1>3

\* A scan of an exact tag goes on with a newest newer tag exactly when the
\* registry has a newer one at the time of the call: the loop over the list is
\* the definition, for every list (ListTags and NewerSemverTag in Detect).
THEOREM ListIsDecisive == DetectSpec => ListDecides
<1>1. DetectInv /\ TollShape /\ [DetectNext]_detectVars =>
        [look.at = "list" /\ UNCHANGED toll =>
           IF NewerThan(look.row.tag) = {} THEN look' = [look EXCEPT !.at = "compare"]
           ELSE look'.at = "newer" /\ look'.target.tag \in NewestOf(NewerThan(look.row.tag))]_detectVars
  <2> SUFFICES ASSUME DetectInv, TollShape, [DetectNext]_detectVars, ~UNCHANGED detectVars,
                      look.at = "list", UNCHANGED toll
               PROVE  IF NewerThan(look.row.tag) = {} THEN look' = [look EXCEPT !.at = "compare"]
                      ELSE look'.at = "newer" /\ look'.target.tag \in NewestOf(NewerThan(look.row.tag))
    OBVIOUS
  <2>1. look \in [at : LookSteps, row : Finds, target : Finds] BY DEF DetectInv, LookShape, NoLook
  <2> DEFINE n == NewerSemverTag(look.row.tag, catalog)
             newer == {t \in {catalog[k] : k \in 1..Len(catalog)} :
                         SameStream(t, look.row.tag) /\ CoreLess(look.row.tag, t)}
  <2>2. newer = NewerThan(look.row.tag) BY DEF DetectInv, RegistryShape, NewerThan
  <2>3. look.row.tag \in RepoTags /\ catalog \in Seq(RepoTags)
    BY <2>1 DEF Finds, DetectInv, RegistryShape
  <2>4. IF newer = {} THEN n = look.row.tag ELSE n \in NewestOf(newer) BY <2>3, NewestTagIsFound
  <2>5. newer # {} => n # look.row.tag
    <3>1. \A t \in newer : t \in RepoTags /\ HasCore(t) BY <2>3 DEF SameStream
    <3>2. \A t \in newer : ~CoreLess(t, t) BY <3>1, CoreOrder
    <3>3. newer # {} => n \in newer BY <2>4 DEF NewestOf
    <3> QED BY <3>2, <3>3
  <2>6. DetectList
    <3>1. ~\E w \in Charges : \E m : Pays(w, m) BY PaysIsSeen
    <3>2. ~\E t \in RepoTags, i \in Pictures : PushTag(t, i) BY <3>1 DEF PushTag, Charges
    <3>3. ~\E t \in Pins : Repin(t) BY <3>1 DEF Repin, Charges
    <3>4. ~Adopt BY <3>1 DEF Adopt, Charges
    <3>5. ~(DetectBegin \/ DetectHead \/ DetectResolve \/ DetectNewer \/ DetectCompare \/ DetectMatch)
      BY DEF DetectBegin, DetectHead, DetectResolve, DetectNewer, DetectCompare, DetectMatch
    <3> QED BY <3>2, <3>3, <3>4, <3>5 DEF DetectNext, DetectStep
  <2>7. look' = IF n = look.row.tag THEN [look EXCEPT !.at = "compare"]
                ELSE [look EXCEPT !.at = "newer", !.target.tag = n]
    <3>1. ~Outage BY PaysIsSeen DEF Outage, Charges
    <3> QED BY <2>6, <3>1 DEF DetectList
  <2> HIDE DEF n, newer
  <2>8. CASE newer = {} BY <2>2, <2>4, <2>7, <2>8
  <2>9. CASE newer # {}
    <3>1. look' = [look EXCEPT !.at = "newer", !.target.tag = n] BY <2>5, <2>7, <2>9
    <3>2. look'.at = "newer" /\ look'.target.tag = n BY <2>1, <3>1 DEF Finds
    <3> QED BY <2>2, <2>4, <2>9, <3>2
  <2> QED BY <2>8, <2>9
<1>2. DetectInit => TollShape BY DEF DetectInit, TollShape, Charges
<1>3. TollShape /\ [DetectNext]_detectVars => TollShape' BY TollStep
<1> QED BY <1>1, <1>2, <1>3, DetectInvariant, PTL DEF DetectSpec, ListDecides

\* A tag that a scan of t may offer: t itself, or one ahead of an exact t in the
\* same stream.
Ahead(u, t) == u = t \/ (IsExact(t) /\ SameStream(u, t) /\ CoreLess(t, u))

\* Through every failure a scan compares its row with such a tag; only exact
\* tags are listed, and the ends of a drift are two images.
TargetAhead ==
  /\ Ahead(look.target.tag, look.row.tag)
  /\ look.at = "list" => IsExact(look.row.tag)
  /\ look.at \in {"from", "to"} => look.target.image # look.row.image

\* What a scan records is another image under such a tag of the row it loaded.
NoStepBack ==
  [][found' \notin {found, NoFind} =>
       found'.image # look.row.image /\ Ahead(found'.tag, look.row.tag)]_detectVars

\* A list that is answered gives a tag ahead.
LEMMA ListAhead ==
  ASSUME DetectInv, look.at = "list"
  PROVE  LET n == NewerSemverTag(look.row.tag, catalog)
         IN  n = look.row.tag \/ (SameStream(n, look.row.tag) /\ CoreLess(look.row.tag, n))
<1>1. look \in [at : LookSteps, row : Finds, target : Finds] BY DEF DetectInv, LookShape, NoLook
<1>2. look.row.tag \in RepoTags /\ catalog \in Seq(RepoTags)
  BY <1>1 DEF Finds, DetectInv, RegistryShape
<1> DEFINE n == NewerSemverTag(look.row.tag, catalog)
           newer == {t \in {catalog[k] : k \in 1..Len(catalog)} :
                       SameStream(t, look.row.tag) /\ CoreLess(look.row.tag, t)}
<1>3. IF newer = {} THEN n = look.row.tag ELSE n \in NewestOf(newer) BY <1>2, NewestTagIsFound
<1>4. n = look.row.tag \/ n \in newer BY <1>3 DEF NewestOf
<1> QED BY <1>4

\* Every step keeps the target ahead.
LEMMA TargetStep ==
  ASSUME DetectInv, TargetAhead, [DetectNext]_detectVars
  PROVE  TargetAhead'
<1>1. CASE look' = look BY <1>1 DEF TargetAhead
<1>2. CASE look' = NoLook BY <1>2 DEF TargetAhead, Ahead, NoLook, NoFind
<1>3. CASE look.at # "idle"
  <2>0. look \in [at : LookSteps, row : Finds, target : Finds] BY <1>3 DEF DetectInv, LookShape, NoLook
  <2>1. CASE look.at = "list" /\ DetectList
    <3> DEFINE n == NewerSemverTag(look.row.tag, catalog)
    <3>1. n = look.row.tag \/ (SameStream(n, look.row.tag) /\ CoreLess(look.row.tag, n))
      BY <2>1, ListAhead
    <3>2. \/ look' = [look EXCEPT !.at = "compare"]
          \/ look' = [look EXCEPT !.at = "newer", !.target.tag = n]
      BY <2>1 DEF DetectList, LookGoes
    <3> HIDE DEF n
    <3>3. /\ look'.row = look.row /\ look'.at \in {"compare", "newer"}
          /\ look'.target.tag = look.target.tag \/ look'.target.tag = n
      BY <2>0, <3>2 DEF Finds
    <3> QED BY <2>1, <3>1, <3>3 DEF TargetAhead, Ahead
  <2>2. CASE DetectResolve
    <3>1. PICK a, img : /\ look' = NoLook \/ look' = [look EXCEPT !.at = a, !.target.image = img]
                        /\ a \in {"list", "compare"} /\ (a = "list" => IsExact(look.row.tag))
      <4>1. PICK a : a = (IF IsExact(look.row.tag) THEN "list" ELSE "compare") OBVIOUS
      <4>2. a \in {"list", "compare"} /\ (a = "list" => IsExact(look.row.tag)) BY <4>1
      <4>3. look' = NoLook \/ look' = [look EXCEPT !.at = a, !.target.image = serves[look.row.tag]]
        BY <2>2, <4>1 DEF DetectResolve
      <4> QED BY <4>2, <4>3
    <3>2. \/ look' = NoLook
          \/ look'.row = look.row /\ look'.target.tag = look.target.tag /\ look'.at = a
      BY <2>0, <3>1 DEF Finds
    <3> QED BY <1>2, <3>1, <3>2 DEF TargetAhead
  <2>3. CASE DetectHead \/ DetectCompare \/ DetectNewer
    <3>1. ASSUME NEW a, a # "list", look' = [look EXCEPT !.at = a],
                 a \in {"from", "to"} => look.target.image # look.row.image
          PROVE  TargetAhead'
      <4>1. look'.row = look.row /\ look'.at = a /\ look'.target = look.target BY <2>0, <3>1
      <4> QED BY <3>1, <4>1 DEF TargetAhead
    <3>2. CASE DetectHead BY <1>2, <3>1, <3>2 DEF DetectHead, LookGoes
    <3>3. CASE DetectCompare BY <1>2, <3>1, <3>3 DEF DetectCompare, LookGoes
    <3>4. CASE DetectNewer
      <4>1. CASE look' = [look EXCEPT !.at = "compare", !.target.image = serves[look.target.tag]]
        <5>1. look'.row = look.row /\ look'.at = "compare" /\ look'.target.tag = look.target.tag
          BY <2>0, <4>1 DEF Finds
        <5> QED BY <5>1 DEF TargetAhead
      <4>2. CASE look' = [look EXCEPT !.at = "compare", !.target.tag = look.row.tag]
        <5>1. look'.row = look.row /\ look'.at = "compare" /\ look'.target.tag = look.row.tag
          BY <2>0, <4>2 DEF Finds
        <5> QED BY <5>1 DEF TargetAhead, Ahead
      <4> QED BY <3>4, <4>1, <4>2 DEF DetectNewer
    <3> QED BY <2>3, <3>2, <3>3, <3>4
  <2>4. CASE DetectMatch
    <3>1. look' = NoLook \/ (look.at = "from" /\ look' = [look EXCEPT !.at = "to"])
      BY <2>4, MatchShape DEF Looked, Answered
    <3>2. CASE look.at = "from" /\ look' = [look EXCEPT !.at = "to"]
      <4>1. look'.row = look.row /\ look'.at = "to" /\ look'.target = look.target BY <2>0, <3>2
      <4> QED BY <3>2, <4>1 DEF TargetAhead
    <3> QED BY <1>2, <3>1, <3>2
  <2>5. CASE DetectBegin BY <1>3, <2>5 DEF DetectBegin
  <2>6. CASE look' = look BY <1>1, <2>6
  <2> QED BY <2>1, <2>2, <2>3, <2>4, <2>5, <2>6
       DEF DetectNext, DetectStep, DetectList, detectVars, PushTag, Repin, Adopt
<1>4. CASE look.at = "idle"
  <2>1. CASE DetectBegin
    <3>1. look'.row = pin /\ look'.target = pin /\ look'.at \in {"head", "resolve"} BY <2>1 DEF DetectBegin
    <3> QED BY <3>1 DEF TargetAhead, Ahead
  <2>2. CASE look' = look BY <1>1, <2>2
  <2> QED BY <1>4, <2>1, <2>2
       DEF DetectNext, DetectStep, DetectList, DetectHead, DetectResolve, DetectNewer, DetectCompare,
           DetectMatch, detectVars, PushTag, Repin, Adopt
<1> QED BY <1>3, <1>4

\* No scan offers a step back: whatever calls fail, and whatever the registry
\* and the user do between them, an update it records is another image under
\* the tag it loaded, or a tag of the same stream with a greater version
\* (compare and record in Detect).
THEOREM NeverOffersAStepBack == DetectSpec => NoStepBack
<1>1. DetectInit => TargetAhead
  BY DEF DetectInit, TargetAhead, Ahead, NoLook, NoFind
<1>2. DetectInv /\ TargetAhead /\ [DetectNext]_detectVars => TargetAhead' BY TargetStep
<1>3. DetectInv /\ TargetAhead /\ [DetectNext]_detectVars =>
        [found' \notin {found, NoFind} =>
           found'.image # look.row.image /\ Ahead(found'.tag, look.row.tag)]_detectVars
  <2> SUFFICES ASSUME DetectInv, TargetAhead, [DetectNext]_detectVars, found' \notin {found, NoFind}
               PROVE  found'.image # look.row.image /\ Ahead(found'.tag, look.row.tag)
    OBVIOUS
  <2>1. DetectCompare \/ DetectMatch
    BY DEF DetectNext, DetectStep, DetectBegin, DetectHead, DetectResolve, DetectList, DetectNewer,
           CloseStale, detectVars, PushTag, Repin, Adopt
  <2>2. CASE DetectCompare
    <3>1. found' = look.target /\ look.target.image # look.row.image
      BY <2>2 DEF DetectCompare, CloseStale, RecordFind
    <3> QED BY <3>1 DEF TargetAhead
  <2>3. CASE DetectMatch
    <3>1. found' = look.target /\ look.at = "to" BY <2>3, MatchShape DEF Looked, Answered, RecordFind
    <3> QED BY <3>1 DEF TargetAhead
  <2> QED BY <2>1, <2>2, <2>3
<1> QED BY <1>1, <1>2, <1>3, DetectInvariant, PTL DEF DetectSpec, NoStepBack

=============================================================================
