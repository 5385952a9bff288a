------------------------------ MODULE Detection ------------------------------
(***************************************************************************)
(* What a scan of one service finds (internal/detect): the tag and its     *)
(* stream, the newer tag of an exact pin, the HEAD shortcut of a floating  *)
(* tag, and the release name of an image that runs under such a tag.       *)
(*                                                                         *)
(* A scan is a row of network calls, each of which may fail, while tags    *)
(* are pushed, the user moves the pin and updates are applied.  What       *)
(* becomes of an update row is module UpdateLifecycle's; here a service    *)
(* has at most one open update.                                            *)
(*                                                                         *)
(* A tag is a number; what detection sees of it is its numeric core,       *)
(* whether all three components are written out, and its flavor, the text  *)
(* around the core.                                                        *)
(***************************************************************************)
EXTENDS Integers, Sequences, FiniteSets

CONSTANTS
  TagList,           \* the tags the repository may get; the first two are there
  Pins,              \* the tags a user pins the service to
  ImageCount,        \* images are numbered
  LabelOf,           \* the version label of an image, a tag; none is like a word
  Cap,               \* reverseScanCap
  MaxPushes,         \* bound: tags pushed
  MaxShifts,         \* bound: pins moved and updates applied
  MaxOutages         \* bound: calls that fail

RepoTags == DOMAIN TagList
Pictures == 1..ImageCount

ASSUME DetectionAssumption ==
  /\ TagList \in Seq([core : {<< >>} \union (Nat \X Nat \X Nat), full : BOOLEAN,
                      flavor : {"", "v", "-", "."}])
  /\ Len(TagList) >= 2 /\ Pins \subseteq {1, 2}
  /\ ImageCount \in Nat \ {0} /\ LabelOf \in [Pictures -> RepoTags]
  /\ Cap \in Nat /\ MaxPushes \in Nat /\ MaxShifts \in Nat /\ MaxOutages \in Nat

-----------------------------------------------------------------------------
(* Tags (semver.go, tagclass.go).                                          *)

Core(t) == TagList[t].core
Flavor(t) == TagList[t].flavor

\* parseCore; a word (latest) has none.
HasCore(t) == Core(t) # << >>

CoreLess(t, u) ==
  \E i \in 1..3 : Core(t)[i] < Core(u)[i] /\ \A j \in 1..(i - 1) : Core(t)[j] = Core(u)[j]

\* ClassifyTag of a reference without a digest: a full version, with nothing
\* after it but a pre-release or build suffix, is exact; a fourth component
\* (flavor ".") is not.
IsExact(t) == HasCore(t) /\ TagList[t].full /\ Flavor(t) # "."

\* tagStream: the same text around the core.
SameStream(t, u) == HasCore(t) /\ HasCore(u) /\ Flavor(t) = Flavor(u)

\* The loop of NewerSemverTag: its best after n tags of the list.  The current
\* tag itself stands for "none".
BestOf(current, tags) ==
  LET best[n \in 0..Len(tags)] ==
        IF n = 0 THEN current
        ELSE IF SameStream(tags[n], current) /\ CoreLess(best[n - 1], tags[n])
             THEN tags[n] ELSE best[n - 1]
  IN  best

\* Mutant: the loop leaves out the last tag of the list.
NewerSemverTagShort(current, tags) == BestOf(current, tags)[Len(tags) - 1]

NewerSemverTag(current, tags) == BestOf(current, tags)[Len(tags)]

\* semverTagsDesc keeps the plain full versions of a list.
Plain(tags) == {t \in {tags[i] : i \in DOMAIN tags} : IsExact(t) /\ Flavor(t) \in {"", "v"}}

\* It sorts them newest first, and spellings of one version in any order; the
\* walk is cut at the cap.  These are the sets it may have read at some point.
Walked(tags) ==
  {w \in SUBSET Plain(tags) :
     Cardinality(w) <= Cap /\ \A t \in w, u \in Plain(tags) \ w : ~CoreLess(t, u)}
Whole(w, tags) == Cardinality(w) = Cap \/ w = Plain(tags)

\* preferDigestTag: a label that names the same version is kept, it may say more.
PreferDigestTag(t, label) == ~HasCore(label) \/ Core(label) # Core(t)

-----------------------------------------------------------------------------

VARIABLES
  serves,      \* the registry: the image each tag means, 0 when it is not there
  catalog,     \* the registry's list of tags
  pin,         \* the service row: tag and image
  byPlatform,  \* its current_digest is the platform's, not the one a tag serves
  found,       \* the open update: tag and image, or NoFind
  named,       \* images.resolved_version, or Unnamed
  tagCache,    \* tag_digest_cache: image by tag, 0 without a row
  look,        \* the scan in progress
  toll         \* what is used of the bounds

registryVars == <<serves, catalog>>
detectVars == <<registryVars, pin, byPlatform, found, named, tagCache, look, toll>>

NoFind == [tag |-> 0, image |-> 0]
Unnamed == 0

\* row: the service as loaded; target: what it is compared with.
NoLook == [at |-> "idle", row |-> NoFind, target |-> NoFind]

DetectInit ==
  /\ catalog = <<1, 2>>
  /\ serves = [t \in RepoTags |-> IF t \in {1, 2} THEN 1 ELSE 0]
  /\ \E t \in Pins : pin = [tag |-> t, image |-> 1]
  /\ byPlatform \in BOOLEAN
  /\ found = NoFind
  /\ named = [i \in Pictures |-> Unnamed]
  /\ tagCache = [t \in RepoTags |-> 0]
  /\ look = NoLook
  /\ toll = [pushes |-> 0, shifts |-> 0, outages |-> 0]

Pays(what, max) == toll[what] < max /\ toll' = [toll EXCEPT ![what] = @ + 1]
Outage == Pays("outages", MaxOutages)

-----------------------------------------------------------------------------
(* The registry, and the service's moves.                                  *)

\* A published exact tag is not pushed again, which tag_digest_cache relies on.
PushTag(t, i) ==
  /\ serves[t] # i /\ (IsExact(t) => serves[t] = 0)
  /\ Pays("pushes", MaxPushes)
  /\ serves' = [serves EXCEPT ![t] = i]
  /\ catalog' = IF serves[t] = 0 THEN Append(catalog, t) ELSE catalog
  /\ UNCHANGED <<pin, byPlatform, found, named, tagCache, look>>

\* The user moves the pin, or pulls, and a pass has recorded it.
Repin(t) ==
  /\ serves[t] # 0 /\ pin # [tag |-> t, image |-> serves[t]]
  /\ Pays("shifts", MaxShifts)
  /\ pin' = [tag |-> t, image |-> serves[t]]
  /\ UNCHANGED <<registryVars, byPlatform, found, named, tagCache, look>>

\* The open update is applied, or superseded when the precheck finds that its
\* tag has moved; how it is applied is ComposeStack's.
Adopt ==
  /\ found # NoFind
  /\ Pays("shifts", MaxShifts)
  /\ pin' = IF serves[found.tag] = found.image THEN found ELSE pin
  /\ found' = NoFind
  /\ UNCHANGED <<registryVars, byPlatform, named, tagCache, look>>

-----------------------------------------------------------------------------
(* Detect.                                                                 *)

lookRest == <<registryVars, pin, byPlatform>>
LookGoes(at) == look' = [look EXCEPT !.at = at]

\* closeStaleUpdates and record; the rows' statuses are UpdateLifecycle's.
CloseStale == found' = NoFind
RecordFind == found' = look.target

\* headShortcut is for floating tags whose image was named.  The images row is
\* found by the service's digest, and it was stored under the served one.
Shortcut(t, i) == ~IsExact(t) /\ ~byPlatform /\ named[i] # Unnamed

\* Services without an image reference or a digest, and locally built ones, are
\* not scanned and not modelled.
DetectBegin ==
  /\ look.at = "idle"
  /\ look' = [at |-> IF Shortcut(pin.tag, pin.image) THEN "head" ELSE "resolve",
              row |-> pin, target |-> pin]
  /\ UNCHANGED <<lookRest, found, named, tagCache, toll>>

\* A HEAD that answers the running digest ends the scan; everything else is
\* left to Resolve.
DetectHead ==
  /\ look.at = "head"
  /\ \/ serves[look.row.tag] = look.row.image /\ CloseStale /\ look' = NoLook /\ UNCHANGED toll
     \/ serves[look.row.tag] # look.row.image /\ LookGoes("resolve") /\ UNCHANGED <<found, toll>>
     \/ Outage /\ LookGoes("resolve") /\ UNCHANGED found
  /\ UNCHANGED <<lookRest, named, tagCache>>

\* A failure is recorded in image_remote_state and ends the scan.
DetectResolve ==
  /\ look.at = "resolve"
  /\ \/ /\ look' = [look EXCEPT !.at = IF IsExact(look.row.tag) THEN "list" ELSE "compare",
                                !.target.image = serves[look.row.tag]]
        /\ UNCHANGED toll
     \/ Outage /\ look' = NoLook
  /\ UNCHANGED <<lookRest, found, named, tagCache>>

\* ListTags and NewerSemverTag; a failure skips the semver scan.
DetectList ==
  /\ look.at = "list"
  /\ \/ /\ LET newer == NewerSemverTag(look.row.tag, catalog)
           IN  look' = IF newer = look.row.tag THEN [look EXCEPT !.at = "compare"]
                       ELSE [look EXCEPT !.at = "newer", !.target.tag = newer]
        /\ UNCHANGED toll
     \/ Outage /\ LookGoes("compare")
  /\ UNCHANGED <<lookRest, found, named, tagCache>>

\* Resolve of the newer tag; a failure leaves the tracked tag as the target.
DetectNewer ==
  /\ look.at = "newer"
  /\ \/ /\ look' = [look EXCEPT !.at = "compare", !.target.image = serves[look.target.tag]]
        /\ UNCHANGED toll
     \/ Outage /\ look' = [look EXCEPT !.at = "compare", !.target.tag = look.row.tag]
  /\ UNCHANGED <<lookRest, found, named, tagCache>>

\* Up to date: open updates are closed and a tag without a number gets a name,
\* once per image.  Otherwise there is drift: it is recorded, under such a tag
\* after both ends have been looked up.
DetectCompare ==
  /\ look.at = "compare"
  /\ IF look.target.image = look.row.image
     THEN /\ CloseStale
          /\ IF HasCore(look.row.tag) \/ (~byPlatform /\ named[look.row.image] # Unnamed)
             THEN look' = NoLook ELSE LookGoes("name")
     ELSE IF HasCore(look.row.tag)
          THEN RecordFind /\ look' = NoLook
          ELSE LookGoes("from") /\ UNCHANGED found
  /\ UNCHANGED <<lookRest, named, tagCache, toll>>

-----------------------------------------------------------------------------
(* matchVersionByDigest, one run of it in one step: the running image and  *)
(* the target of a drift, and the running image resolveCurrentVersion      *)
(* names.                                                                  *)

\* candidateConfigDigest: a row of the cache never expires.
DigestOf(t) == IF tagCache[t] # 0 THEN tagCache[t] ELSE serves[t]
Cached(tags) == [t \in RepoTags |-> IF t \in tags THEN DigestOf(t) ELSE tagCache[t]]
Uncached == {t \in RepoTags : tagCache[t] = 0}

Matching(i, tags) == {t \in tags : DigestOf(t) = i}
NewestOf(tags) == {t \in tags : \A u \in tags : ~CoreLess(t, u)}

\* semverTagPref: a label that is a full version is looked up first.
Prefer(i) == {t \in {LabelOf[i]} : IsExact(t)}

NoMatch == 0
Inconclusive == -1

\* What resolveCurrentVersion stores: the tag, or the label when there is none
\* or when it names the same version.
NameFor(i, t) == IF t # NoMatch /\ PreferDigestTag(t, LabelOf[i]) THEN t ELSE LabelOf[i]

\* SetResolvedVersion finds no row under a platform digest, and is not called
\* when the walk was inconclusive.
Names(answer) == look.at = "name" /\ ~byPlatform /\ answer # Inconclusive

\* What the answer is for: the versions of a drift are only shown, then it is
\* recorded.
Answered(i, answer) ==
  /\ look' = IF look.at = "from" THEN [look EXCEPT !.at = "to"] ELSE NoLook
  /\ IF look.at = "to" THEN RecordFind ELSE UNCHANGED found
  /\ named' = IF Names(answer) THEN [named EXCEPT ![i] = NameFor(i, answer)] ELSE named

\* The candidates are walked until one matches, until all have been, or until
\* the registry limits the rate; a lookup that fails otherwise is skipped.
Walk(i, asked, failing) ==
  \E w \in Walked(catalog) :
    LET hits == Matching(i, w \ failing)
    IN  /\ tagCache' = Cached(asked \union (w \ failing))
        /\ \/ hits = {} /\ Whole(w, catalog) /\ Answered(i, NoMatch)
           \/ \E t \in hits : hits = {t} /\ (\A u \in w : ~CoreLess(u, t)) /\ Answered(i, t)
           \/ /\ hits = {} /\ \E t \in failing \ w : w \union {t} \in Walked(catalog)
              /\ Answered(i, Inconclusive)

\* ListTags fails.
Unlisted(i, asked) == tagCache' = Cached(asked) /\ Answered(i, Inconclusive)

\* In an outage the lookup of the label, the list and every lookup of the walk
\* that the cache does not answer may fail.
DetectMatch ==
  /\ look.at \in {"from", "to", "name"}
  /\ LET i == IF look.at = "to" THEN look.target.image ELSE look.row.image
     IN  \/ /\ Matching(i, Prefer(i)) # {}
            /\ tagCache' = Cached(Prefer(i)) /\ Answered(i, LabelOf[i])
            /\ UNCHANGED toll
         \/ Matching(i, Prefer(i)) = {} /\ Walk(i, Prefer(i), {}) /\ UNCHANGED toll
         \/ /\ Outage
            /\ \E asked \in {{}, Prefer(i)}, failing \in SUBSET (Uncached \intersect Plain(catalog)) :
                 /\ Matching(i, asked) = {} /\ Prefer(i) \ asked \subseteq Uncached
                 /\ Walk(i, asked, failing) \/ Unlisted(i, asked)
  /\ UNCHANGED lookRest

DetectStep ==
  \/ DetectBegin \/ DetectHead \/ DetectResolve \/ DetectList \/ DetectNewer
  \/ DetectCompare \/ DetectMatch

DetectNext ==
  \/ \E t \in RepoTags, i \in Pictures : PushTag(t, i)
  \/ \E t \in Pins : Repin(t)
  \/ Adopt
  \/ DetectStep

\* The scheduler keeps scanning.
DetectSpec == DetectInit /\ [][DetectNext]_detectVars /\ WF_detectVars(DetectStep)

-----------------------------------------------------------------------------
(* Properties.                                                             *)

\* The values the registry, the rows, the caches and the scan take; an image is
\* only ever called by its own label or by a tag that serves it, and the cache
\* of tags is right although it never expires.
DetectTypeOK ==
  /\ \A t \in RepoTags : serves[t] \in 0..ImageCount /\ tagCache[t] \in {0, serves[t]}
  /\ pin.tag \in RepoTags /\ pin.image \in Pictures
  /\ found = NoFind \/ (found.tag \in RepoTags /\ found.image \in Pictures)
  /\ \A i \in Pictures :
       named[i] \in {Unnamed, LabelOf[i]} \union {t \in RepoTags : IsExact(t) /\ serves[t] = i}
  /\ look.at \in {"idle", "head", "resolve", "list", "newer", "compare", "from", "to", "name"}

\* What the service should be compared with: the newest tags of its stream, by
\* their definition, or its own.
Goals ==
  LET there == {t \in RepoTags : serves[t] # 0}
      newer == {t \in there : SameStream(t, pin.tag) /\ CoreLess(pin.tag, t)}
  IN  IF IsExact(pin.tag) /\ newer # {} THEN NewestOf(newer) ELSE {pin.tag}

\* The open update is the right one, or there is rightly none.
Discovered ==
  IF found = NoFind THEN \E t \in Goals : serves[t] = pin.image
  ELSE found.tag \in Goals /\ found.image = serves[found.tag] /\ found.image # pin.image

\* Again and again the ledger says of the service what is true: though a scan
\* records what an apply or a new pin has made untrue meanwhile, and though the
\* HEAD shortcut leaves out the list of tags.  It is not always true: a scan
\* whose list of tags fails closes an update that is still open ("the semver
\* scan has run and 'up to date' is authoritative", closeStaleUpdates, does not
\* hold then), and only a later scan offers it again.
DetectionSettles == []<>Discovered

\* "A transient (inconclusive) scan is not cached, so it retries next cycle
\* instead of poisoning the row with a fallback label" (resolveCurrentVersion):
\* when a candidate serves the image, the stored name is one that candidate
\* gives.  A lookup that fails for one tag is skipped, not inconclusive.
NotPoisoned ==
  [][\A i \in Pictures :
       LET match == {t \in Prefer(i) \union UNION Walked(catalog) : serves[t] = i}
       IN  named'[i] # named[i] /\ match # {} => named'[i] \in {NameFor(i, t) : t \in match}]_detectVars
==============================================================================
