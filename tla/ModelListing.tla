---------------------------- MODULE ModelListing ----------------------------
(***************************************************************************)
(* GET /models and GET /healthcheck beside the fits of ModelStore.         *)
(* ModelRepository.list_all walks the storage tree without a lock: the     *)
(* series directories, then the detector directories of each series, then  *)
(* the index.json of each detector.  list_model_summaries filters what it  *)
(* found and reads the metadata of each latest version; healthcheck only   *)
(* counts.  Every step is one access to the file system, so a listing may  *)
(* see one namespace before and another one after a fit: it is no snapshot.*)
(***************************************************************************)
EXTENDS ModelStore, FiniteSets

CONSTANTS
  Listers,       \* identities of the listing requests, submitted at most once
  ListMenu,      \* the descriptors clients may send
  SeriesOrder,   \* SafeSeries as sorted() orders their directories
  DetectorOrder, \* Detectors as sorted() orders their directories
  AnyDetector,   \* no detector filter
  MaxLosses      \* bound on metadata files removed from outside

ListRequest ==
  [op : {"models", "healthcheck"}, strict : BOOLEAN,
   detector : STRING \cup {AnyDetector}]

ASSUME ListingAssumption ==
  /\ ListMenu \subseteq ListRequest
  /\ ListMenu # {}
  /\ SeriesOrder \in Seq(SafeSeries) /\ Range(SeriesOrder) = SafeSeries
  /\ DetectorOrder \in Seq(Detectors) /\ Range(DetectorOrder) = Detectors
  /\ MaxLosses \in Nat

VARIABLES
  lpc,         \* lister -> the next step of its handler
  ask,         \* lister -> its descriptor
  seriesLeft,  \* lister -> series directories it has not walked yet
  spacesLeft,  \* lister -> namespaces of the current series not read yet
  found,       \* lister -> index entries read and not summarised yet
  answer,      \* lister -> the entries of its answer
  lstatus,     \* lister -> HTTP status of its answer, Pending before
  since,       \* lister -> latest version of each namespace when submitted
  losses       \* metadata files removed so far

walk == <<seriesLeft, spacesLeft, found>>
lvars == <<lpc, ask, walk, answer, lstatus, since, losses>>

\* An index entry: the namespace, its latest version, and once summarised the
\* fit whose metadata the summary shows.
Entry(n, v) == [space |-> n, version |-> v]
Summary(e, c) == [space |-> e.space, version |-> e.version, fit |-> c]

LInit ==
  /\ Init
  /\ lpc = [l \in Listers |-> "idle"]
  /\ ask = [l \in Listers |-> CHOOSE q \in ListMenu : TRUE]
  /\ seriesLeft = [l \in Listers |-> {}]
  /\ spacesLeft = [l \in Listers |-> {}]
  /\ found = [l \in Listers |-> <<>>]
  /\ answer = [l \in Listers |-> <<>>]
  /\ lstatus = [l \in Listers |-> Pending]
  /\ since = [l \in Listers |-> [n \in Namespaces |-> 0]]
  /\ losses = 0

LGoto(l, from, to) == lpc[l] = from /\ lpc' = [lpc EXCEPT ![l] = to]

LAnswer(l, from, code) ==
  /\ LGoto(l, from, "done")
  /\ lstatus' = [lstatus EXCEPT ![l] = code]

Matches(q, n) == q.detector \in {AnyDetector, n[2]}
Supported(q) == q.detector \in Detectors \cup {AnyDetector}

-----------------------------------------------------------------------------
(* Bugs this code could have.  They are no part of the specification: each *)
(* stands in for the definition its comment names.                         *)

\* IndexEntry, from the version directories instead of index.json.
NewestDirEntry(n) ==
  IF dirs[n] = {} THEN <<>>
  ELSE <<Entry(n, CHOOSE v \in dirs[n] : \A u \in dirs[n] : u <= v)>>

\* AfterSpace, with `break` for `continue`.
StopAtFirst(spaces, n) == {}

-----------------------------------------------------------------------------
(* The walk of list_all *)

\* The filter is checked before the repository is called.
LAsk(l) ==
  \E q \in ListMenu :
    /\ \/ Supported(q) /\ LGoto(l, "idle", "root") /\ UNCHANGED lstatus
       \/ ~Supported(q) /\ LAnswer(l, "idle", 422)
    /\ ask' = [ask EXCEPT ![l] = q]
    /\ since' = [since EXCEPT ![l] = [n \in Namespaces |-> index[n].latest]]
    /\ UNCHANGED <<walk, answer, losses>>

SpacesOnDisk == {n \in Namespaces : dirs[n] # {}}

\* mkdir(parents=True) creates the directories of the series and the detector
\* before that of the version, and may fail between them: a fit that has a
\* label may have left them on the disk.
SpacesBegun ==
  {NS(r) : r \in {q \in Requests : req[q].op = "fit" /\ ver[q] # 0}}

\* What iterdir() may find.
DirListings == {SpacesOnDisk \cup new : new \in SUBSET (SpacesBegun \ SpacesOnDisk)}

\* x is the member of S that sorted() puts first.
IsFirst(x, S, order) ==
  /\ x \in S
  /\ \A i, j \in DOMAIN order : order[i] = x /\ order[j] \in S => i <= j

WalkRoot(l) ==
  /\ LGoto(l, "root", "walk")
  /\ \E ns \in DirListings :
       seriesLeft' = [seriesLeft EXCEPT ![l] = {n[1] : n \in ns}]
  /\ UNCHANGED <<ask, spacesLeft, found, answer, lstatus, since, losses>>

\* The detector directories of the next series.
WalkSeries(l) ==
  /\ lpc[l] = "walk"
  /\ spacesLeft[l] = {}
  /\ \E s \in seriesLeft[l] :
       /\ IsFirst(s, seriesLeft[l], SeriesOrder)
       /\ seriesLeft' = [seriesLeft EXCEPT ![l] = @ \ {s}]
       /\ \E ns \in DirListings :
            spacesLeft' = [spacesLeft EXCEPT ![l] = {n \in ns : n[1] = s}]
  /\ UNCHANGED <<lpc, ask, found, answer, lstatus, since, losses>>

\* The entry of a namespace, if it has an index.json.
IndexEntry(n) ==
  IF index[n] = NoIndex THEN <<>> ELSE <<Entry(n, index[n].latest)>>

AfterSpace(spaces, n) == spaces \ {n}

WalkSpace(l) ==
  /\ lpc[l] = "walk"
  /\ \E n \in spacesLeft[l] :
       /\ IsFirst(n[2], {m[2] : m \in spacesLeft[l]}, DetectorOrder)
       /\ found' = [found EXCEPT ![l] = @ \o IndexEntry(n)]
       /\ spacesLeft' = [spacesLeft EXCEPT ![l] = AfterSpace(@, n)]
  /\ UNCHANGED <<lpc, ask, seriesLeft, answer, lstatus, since, losses>>

\* healthcheck answers with the number of entries, as series_trained; /models
\* goes on.
WalkDone(l) ==
  /\ lpc[l] = "walk"
  /\ spacesLeft[l] = {}
  /\ seriesLeft[l] = {}
  /\ \/ /\ ask[l].op = "healthcheck"
        /\ LAnswer(l, "walk", 200)
        /\ answer' = [answer EXCEPT ![l] = found[l]]
     \/ /\ ask[l].op = "models"
        /\ LGoto(l, "walk", "summaries")
        /\ UNCHANGED <<answer, lstatus>>
  /\ UNCHANGED <<ask, walk, since, losses>>

-----------------------------------------------------------------------------
(* The summaries of list_model_summaries *)

\* What becomes of the request when metadata.json is missing: MetadataIncomplete
\* in strict mode, else the entry is skipped.
Unreadable(q) == IF q.strict THEN 422 ELSE Pending

Summarise(l) ==
  /\ lpc[l] = "summaries"
  /\ found[l] # <<>>
  /\ LET e == Head(found[l])
         c == meta[e.space][e.version]
     IN \/ /\ ~Matches(ask[l], e.space)
           /\ UNCHANGED <<lpc, lstatus, answer>>
        \/ /\ Matches(ask[l], e.space)
           /\ c \in Requests
           /\ answer' = [answer EXCEPT ![l] = Append(@, Summary(e, c))]
           /\ UNCHANGED <<lpc, lstatus>>
        \/ /\ Matches(ask[l], e.space)
           /\ c \notin Requests
           /\ LET code == IF c = NoFile THEN Unreadable(ask[l]) ELSE 500 IN
                IF code = Pending THEN UNCHANGED <<lpc, lstatus>>
                                  ELSE LAnswer(l, "summaries", code)
           /\ UNCHANGED answer
  /\ found' = [found EXCEPT ![l] = Tail(@)]
  /\ UNCHANGED <<ask, seriesLeft, spacesLeft, since, losses>>

SummariesDone(l) ==
  /\ found[l] = <<>>
  /\ LAnswer(l, "summaries", 200)
  /\ UNCHANGED <<ask, walk, answer, since, losses>>

-----------------------------------------------------------------------------
(* The environment *)

\* The metadata of a published version is removed from outside.
LoseMetadata ==
  /\ losses < MaxLosses
  /\ losses' = losses + 1
  /\ \E n \in Namespaces : \E v \in Published(n) :
       meta' = [meta EXCEPT ![n][v] = NoFile]
  /\ UNCHANGED <<dirs, model, tmp, index, lock, pc, status, locals, budget>>
  /\ UNCHANGED <<lpc, ask, walk, answer, lstatus, since>>

RestartAll ==
  /\ Restart
  /\ lpc' = [l \in Listers |->
               IF lpc[l] \in Ended \cup {"idle"} THEN lpc[l] ELSE "lost"]
  /\ UNCHANGED <<ask, walk, answer, lstatus, since, losses>>

List(l) ==
  \/ LAsk(l) \/ WalkRoot(l) \/ WalkSeries(l) \/ WalkSpace(l) \/ WalkDone(l)
  \/ Summarise(l) \/ SummariesDone(l)

AllEnded ==
  /\ \A r \in Requests : pc[r] \in Ended
  /\ \A l \in Listers : lpc[l] \in Ended
  /\ UNCHANGED <<vars, lvars>>

LNext ==
  \/ \E r \in Requests : (Submit(r) \/ Step(r) \/ WriteFault(r)) /\ UNCHANGED lvars
  \/ \E l \in Listers : List(l) /\ UNCHANGED vars
  \/ LoseMetadata
  \/ RestartAll
  \/ AllEnded

LSpec == LInit /\ [][LNext]_<<vars, lvars>>

-----------------------------------------------------------------------------
(* Properties *)

Listed(l) == {answer[l][i].space : i \in DOMAIN answer[l]}

AnsweredLists(op) ==
  {l \in Listers : lpc[l] = "done" /\ ask[l].op = op /\ Supported(ask[l])}

\* A published version of n, as new as what l may have met, lost its metadata.
Lost(l, n) ==
  \E v \in Published(n) : v >= since[l][n] /\ meta[n][v] = NoFile

\* A listing that meets saves, failed saves and restarts does not fail: the one
\* way to an error is strict mode and metadata that were removed.
ListingFailsOnLossOnly ==
  \A l \in AnsweredLists("models") :
    \/ lstatus[l] = 200
    \/ lstatus[l] = 422 /\ ask[l].strict /\ \E n \in Namespaces : Lost(l, n)

\* Every summary is that of a published version which matches the filter, is
\* at least as new as the latest at submission, and shows the metadata of the
\* fit that trained the model of this version; no namespace is listed twice.
ListingTrue ==
  \A l \in AnsweredLists("models") :
    /\ Cardinality(Listed(l)) = Len(answer[l])
    /\ \A i \in DOMAIN answer[l] :
         LET e == answer[l][i] IN
           /\ Matches(ask[l], e.space)
           /\ e.version \in Published(e.space)
           /\ e.version >= since[l][e.space]
           /\ model[e.space][e.version] = e.fit

\* Whatever was published when the listing was submitted is listed, unless the
\* listing is tolerant and the metadata were removed.
ListingComplete ==
  \A l \in AnsweredLists("models") : \A n \in Namespaces :
    lstatus[l] = 200 /\ since[l][n] > 0 /\ Matches(ask[l], n) =>
      n \in Listed(l) \/ (~ask[l].strict /\ Lost(l, n))

\* Healthcheck never fails, and the length of its list lies between the number of
\* models, one for each series and detector, that were published when it was
\* asked and the number that are published now.  It reports this number under the
\* name series_trained.
ModelCountBetween ==
  \A l \in AnsweredLists("healthcheck") :
    /\ lstatus[l] = 200
    /\ Len(answer[l]) >= Cardinality({n \in Namespaces : since[l][n] > 0})
    /\ Len(answer[l]) <= Cardinality({n \in Namespaces : index[n] # NoIndex})

\* The claim of healthcheck.py:63, "Returns the count of trained series": the
\* number reported lies between the numbers of series with a model then and now.
\* The code counts a series once for each of its detectors.
CountsSeries ==
  \A l \in AnsweredLists("healthcheck") :
    /\ Len(answer[l]) >= Cardinality({n[1] : n \in {m \in Namespaces : since[l][m] > 0}})
    /\ Len(answer[l]) <= Cardinality({n[1] : n \in {m \in Namespaces : index[m] # NoIndex}})
=============================================================================
