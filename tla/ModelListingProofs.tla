-------------------------- MODULE ModelListingProofs --------------------------
(***************************************************************************)
(* Proofs about ModelListing: what GET /models and GET /healthcheck answer *)
(* beside fits, failed saves, restarts and lost metadata files.            *)
(*                                                                         *)
(* A lost file falsifies PublishedComplete, so the invariant of ModelStore *)
(* does not hold here.  It does hold of the files as the saves left them:  *)
(* `whole` is meta with what was removed from a published version put back,*)
(* and Store is the store over these files.  Every step of a fit, of       *)
(* a failure and of a restart is one of Store, and a read or a loss changes*)
(* nothing that Store tells apart from a read; so StoreInv of Store is     *)
(* kept, with the lemmas of ModelStoreProofs about Store.                  *)
(***************************************************************************)
EXTENDS ModelListing, ModelStoreProofs, FiniteSetTheorems

\* The metadata files as the saves left them: what was removed from outside is
\* there again.  The steps of ModelStore are steps over these files.
whole ==
  [n \in Namespaces |-> [v \in Versions |->
     IF v \in Published(n) THEN model[n][v] ELSE meta[n][v]]]

-----------------------------------------------------------------------------
(* The inductive invariant *)

\* Metadata are those of the fit of this version, or removed.
Intact ==
  /\ meta \in [Namespaces -> [Versions -> Content]]
  /\ \A n \in Namespaces : \A v \in Published(n) :
       meta[n][v] \in {model[n][v], NoFile}

\* A fit has a label only once the repository has accepted its series, so that
\* whatever directory a save begins is that of a namespace.
Labels ==
  \A r \in Requests :
    /\ pc[r] = "idle" => ver[r] = 0
    /\ req[r].op = "fit" /\ ver[r] # 0 => NS(r) \in Namespaces

EntryType == [space : Namespaces, version : Nat]
SummaryType == [space : Namespaces, version : Nat, fit : Requests]

ListPoints == {"idle", "root", "walk", "summaries"} \cup Ended

ListTypeOK ==
  /\ lpc \in [Listers -> ListPoints]
  /\ ask \in [Listers -> ListMenu]
  /\ seriesLeft \in [Listers -> SUBSET SafeSeries]
  /\ spacesLeft \in [Listers -> SUBSET Namespaces]
  /\ found \in [Listers -> Seq(EntryType)]
  /\ answer \in [Listers -> Seq(EntryType \cup SummaryType)]
  /\ lstatus \in [Listers -> Codes]
  /\ since \in [Listers -> [Namespaces -> Nat]]
  /\ losses \in 0 .. MaxLosses

Spaces(s) == {s[i].space : i \in DOMAIN s}
Distinct(s) == \A i, j \in DOMAIN s : s[i].space = s[j].space => i = j

\* Entries of versions that are published and as new as what l may have met.
Fresh(l, s) ==
  \A i \in DOMAIN s : /\ s[i].version \in Published(s[i].space)
                      /\ s[i].version >= since[l][s[i].space]

\* Summaries that match the filter, of the fit that trained the model.
Shown(l, s) ==
  \A i \in DOMAIN s : /\ Matches(ask[l], s[i].space)
                      /\ s[i].fit = model[s[i].space][s[i].version]

\* The namespaces that had a model when l was submitted.
Met(l) == {n \in Namespaces : since[l][n] > 0}

\* The walk is at every moment split into what it has found, the namespaces
\* of the current series, and the series still to come.
WalkOf(l) ==
  /\ answer[l] = <<>>
  /\ Distinct(found[l])
  /\ Fresh(l, found[l])
  /\ Spaces(found[l]) \cap spacesLeft[l] = {}
  /\ \A n \in Spaces(found[l]) \cup spacesLeft[l] : n[1] \notin seriesLeft[l]
  /\ \A n \in Met(l) :
       n \in Spaces(found[l]) \cup spacesLeft[l] \/ n[1] \in seriesLeft[l]

\* What a listing has to show, once the entries in rest are summarised.
Listing(l, rest) ==
  /\ Distinct(answer[l])
  /\ Fresh(l, answer[l])
  /\ Shown(l, answer[l])
  /\ \A n \in Met(l) : Matches(ask[l], n) =>
       \/ n \in rest \cup Spaces(answer[l])
       \/ ~ask[l].strict /\ Lost(l, n)

SummariesOf(l) ==
  /\ ask[l].op = "models"
  /\ Distinct(found[l])
  /\ Fresh(l, found[l])
  /\ Spaces(found[l]) \cap Spaces(answer[l]) = {}
  /\ Listing(l, Spaces(found[l]))

AnswerOf(l) ==
  \/ /\ ask[l].op = "models"
     /\ \/ lstatus[l] = 200 /\ Listing(l, {})
        \/ /\ lstatus[l] = 422 /\ ask[l].strict
           /\ \E n \in Namespaces : Lost(l, n)
           /\ Listing(l, Namespaces)
  \/ /\ ask[l].op = "healthcheck"
     /\ lstatus[l] = 200
     /\ Distinct(answer[l])
     /\ Fresh(l, answer[l])
     /\ Met(l) \subseteq Spaces(answer[l])

ListOf(l) ==
  /\ \A n \in Namespaces : since[l][n] <= index[n].latest
  /\ lpc[l] \in {"idle", "root"} =>
       /\ seriesLeft[l] = {} /\ spacesLeft[l] = {}
       /\ found[l] = <<>> /\ answer[l] = <<>>
  /\ lpc[l] = "walk" => WalkOf(l)
  /\ lpc[l] = "summaries" => SummariesOf(l)
  /\ lpc[l] = "done" /\ Supported(ask[l]) => AnswerOf(l)

Store == INSTANCE ModelStoreProofs WITH meta <- whole

ListInv ==
  /\ Store!StoreInv
  /\ Intact
  /\ Labels
  /\ ListTypeOK
  /\ \A l \in Listers : ListOf(l)

-----------------------------------------------------------------------------
(* The store over the whole files *)

\* Store has the constants and the vocabulary of ModelStore.
LEMMA StoreNames ==
  /\ Store!Namespaces = Namespaces
  /\ Store!Content = Content
  /\ Store!IndexFile = IndexFile
  /\ Store!NoIndex = NoIndex
  /\ Store!RequestType = RequestType
  /\ \A r : Store!NS(r) = NS(r)
  /\ \A n : Store!Published(n) = Published(n)
  /\ \A i, v : Store!Publish(i, v) = Publish(i, v)
  BY DEF Store!Namespaces, Namespaces, Store!Content, Content,
         Store!IndexFile, IndexFile, Store!NoIndex, NoIndex,
         Store!RequestType, RequestType, Store!Ops, Ops,
         Store!NS, NS, Store!Space, Space, Store!Published, Published,
         Store!Publish, Publish, Store!Range, Range

\* The control points are those of ModelStore, too.
LEMMA StorePoints ==
  /\ Store!WriteSteps = WriteSteps
  /\ Store!Critical = Critical
  /\ Store!FaultSteps = FaultSteps
  /\ Store!ReadSteps = ReadSteps
  /\ Store!Points = Points
  /\ Store!Codes = Codes
  /\ Store!Saving = Saving
  /\ Store!AfterMkdir = AfterMkdir
  /\ Store!AfterModel = AfterModel
  /\ Store!AfterMeta = AfterMeta
  /\ Store!AfterDraft = AfterDraft
  BY DEF Store!WriteSteps, WriteSteps, Store!Critical, Critical,
         Store!FaultSteps, FaultSteps,
         Store!ReadSteps, ReadSteps, Store!Points, Points, Store!Ended, Ended,
         Store!Codes, Codes, Store!Pending, Pending, Store!Saving, Saving,
         Store!AfterMkdir, AfterMkdir, Store!AfterModel, AfterModel,
         Store!AfterMeta, AfterMeta, Store!AfterDraft, AfterDraft

\* What the lemmas about Store assume of the constants.
LEMMA StoreAssumptions ==
  /\ SafeSeries \subseteq Series
  /\ Detectors \subseteq STRING
  /\ Versions \subseteq Nat \ {0}
  /\ MaxCrashes \in Nat
  /\ MaxFaults \in Nat
  /\ Menu \subseteq Store!RequestType
  /\ Menu # {}
  /\ \A m \in Menu : /\ m.op \in {"fit", "detail"} => m.want = 0
                     /\ m.op = "version" => m.want # 0
  /\ NoFile \notin Requests
  /\ Torn \notin Requests
  /\ NoOne \notin Requests
  /\ NoFile # Torn
  BY ConstantsAssumption, MenuAssumption, MarksAssumption, StoreNames

\* Nothing is missing at first.
LEMMA StoreInit == Init => Store!StoreInv /\ Intact
  <1> SUFFICES ASSUME Init PROVE Store!StoreInv /\ Intact
    OBVIOUS
  <1>1. \A n \in Namespaces : Published(n) = {}
    BY DEF Init, Published, NoIndex, Range
  <1>2. whole = meta
    BY <1>1 DEF Init, whole
  <1>3. Store!Init
    BY <1>2 DEF Init, Store!Init, Store!Namespaces, Namespaces, NoIndex,
                Store!NoIndex, Pending, Store!Pending
  <1>4. Store!StoreInv
    BY <1>3, StoreAssumptions, Store!InitInv
  <1>5. Intact
    BY <1>1 DEF Intact, Init, Content
  <1> QED
    BY <1>4, <1>5

\* The files other than metadata.json, and the version index, decide what is
\* missing: whole is typed like meta, and agrees with it where no version is
\* published.
LEMMA WholeValue ==
  ASSUME NEW n \in Namespaces, NEW v \in Versions
  PROVE  whole[n][v] = IF v \in Published(n) THEN model[n][v] ELSE meta[n][v]
  BY DEF whole


-----------------------------------------------------------------------------
(* The steps of a handler are steps of Store.  Grows says what every step   *)
(* keeps for a listing: published versions, their models, and the loss of   *)
(* their metadata.                                                          *)

Grows ==
  \A n \in Namespaces :
    /\ index'[n].latest >= index[n].latest
    /\ \A v \in Published(n) :
         /\ v \in Published(n)'
         /\ model'[n][v] = model[n][v]
         /\ meta'[n][v] \in {meta[n][v], NoFile}

\* What can be said of index and files without the metadata.
LEMMA StoreFacts ==
  ASSUME Store!StoreInv
  PROVE  /\ dirs \in [Namespaces -> SUBSET Versions]
         /\ model \in [Namespaces -> [Versions -> Content]]
         /\ index \in [Namespaces -> IndexFile]
         /\ \A n \in Namespaces :
              /\ index[n].latest \in Nat
              /\ Published(n) = 1 .. index[n].latest
              /\ Published(n) \subseteq Versions
              /\ \A v \in Published(n) :
                   v \in dirs[n] /\ model[n][v] \in Requests
  <1>1. Store!TypeOK /\ Store!Contiguous /\ Store!PublishedComplete
    BY DEF Store!StoreInv
  <1>2. /\ dirs \in [Namespaces -> SUBSET Versions]
        /\ model \in [Namespaces -> [Versions -> Content]]
        /\ index \in [Namespaces -> IndexFile]
    BY <1>1, StoreNames DEF Store!TypeOK
  <1>3. ASSUME NEW n \in Namespaces
        PROVE  /\ index[n].latest \in Nat
               /\ Published(n) = 1 .. index[n].latest
    BY <1>1, StoreNames, StoreAssumptions, Store!PublishedRange
  <1>4. ASSUME NEW n \in Namespaces, NEW v \in Published(n)
        PROVE  v \in Versions /\ v \in dirs[n] /\ model[n][v] \in Requests
    BY <1>1, <1>2, StoreNames DEF Store!PublishedComplete
  <1> QED
    BY <1>2, <1>3, <1>4

\* A fit that has a label works on an unpublished version, of a namespace.
LEMMA SavingUnpublished ==
  ASSUME Store!StoreInv, NEW r \in Requests, pc[r] \in Saving
  PROVE  /\ NS(r) \in Namespaces
         /\ ver[r] \in Versions
         /\ ver[r] = index[NS(r)].latest + 1
         /\ ver[r] \notin Published(NS(r))
         /\ pc[r] \in AfterMeta =>
              model[NS(r)][ver[r]] = r /\ meta[NS(r)][ver[r]] = r
  <1>1. pc[r] \in Critical \ {"nextVersion"}
    BY DEF Saving
  <1>2. /\ NS(r) \in Namespaces
        /\ ver[r] \in Versions
        /\ ver[r] = index[NS(r)].latest + 1
        /\ ver[r] \notin Published(NS(r))
    BY <1>1, StoreNames, StorePoints, StoreAssumptions, Store!SavingSpace,
       Store!SavingFresh
  <1>3. ASSUME pc[r] \in AfterMeta
        PROVE  model[NS(r)][ver[r]] = r /\ meta[NS(r)][ver[r]] = r
    <2>1. Store!SaveOf(r)
      BY DEF Store!StoreInv
    <2>2. pc[r] \in AfterModel
      BY <1>3 DEF AfterMeta
    <2>3. model[NS(r)][ver[r]] = r /\ whole[NS(r)][ver[r]] = r
      BY <1>3, <2>1, <2>2, StoreNames, StorePoints DEF Store!SaveOf
    <2> QED
      BY <1>2, <2>3, WholeValue
  <1> QED
    BY <1>2, <1>3

\* Steps that leave the files and the indexes alone leave whole alone.
LEMMA WholeKept ==
  ASSUME UNCHANGED <<model, meta, index>>
  PROVE  whole' = whole
  BY DEF whole, Published

\* Every step of a fit but the two that write metadata.json keeps whole: the
\* model is written while its version is unpublished, and published when it
\* and the metadata are of one fit.
LEMMA WholeModel ==
  ASSUME Store!StoreInv, NEW r \in Requests, OpenModel(r) \/ DumpModel(r)
  PROVE  whole' = whole
  <1> USE DEF OpenModel, DumpModel, SetModel
  <1>1. pc[r] \in Saving
    BY DEF Goto, Saving, Critical, WriteSteps
  <1>2. ASSUME NEW n \in Namespaces, NEW v \in Published(n)
        PROVE  model'[n][v] = model[n][v]
    BY <1>1, <1>2, SavingUnpublished, StoreFacts
  <1>3. \A n \in Namespaces : Published(n)' = Published(n)
    BY DEF Published
  <1> QED
    BY <1>2, <1>3 DEF whole

\* The commit publishes the one version that r has saved.
LEMMA ReplacePublishes ==
  ASSUME Store!StoreInv, NEW r \in Requests, Replace(r)
  PROVE  /\ pc[r] \in Saving /\ pc[r] \in AfterMeta
         /\ \A m \in Namespaces :
              Published(m)' = IF m = NS(r) THEN Published(m) \cup {ver[r]}
                                           ELSE Published(m)
  <1> USE DEF Replace
  <1> DEFINE n == NS(r)
  <1>1. pc[r] \in Saving /\ pc[r] \in AfterMeta /\ pc[r] \in AfterDraft
        /\ pc[r] = "replace"
    BY DEF Goto, Saving, AfterMeta, AfterModel, AfterMkdir, AfterDraft,
           Critical, WriteSteps
  <1>2. n \in Namespaces /\ ver[r] = index[n].latest + 1
    BY <1>1, SavingUnpublished
  <1>3. tmp[n] = Publish(index[n], index[n].latest + 1)
    <2>1. Store!SaveOf(r)
      BY DEF Store!StoreInv
    <2> QED
      BY <1>1, <1>2, <2>1, StoreNames, StorePoints DEF Store!SaveOf
  <1>4. index[n] \in IndexFile /\ index[n].latest \in Nat
        /\ index[n].versions = [j \in 1 .. index[n].latest |-> j]
    BY <1>2, StoreFacts, StoreNames DEF Store!StoreInv, Store!Contiguous
  <1>5. tmp[n].versions = [j \in 1 .. (index[n].latest + 1) |-> j]
    BY <1>3, <1>4, PublishNext
  <1>6. Range(tmp[n].versions) = 1 .. (index[n].latest + 1)
    BY <1>4, <1>5, GaplessRange
  <1>7. index'[n] = tmp[n] /\ \A m \in Namespaces \ {n} : index'[m] = index[m]
    BY <1>2, StoreFacts
  <1>8. \A m \in Namespaces : Published(m)' = Range(index'[m].versions)
    BY DEF Published
  <1>9. Published(n) = 1 .. index[n].latest
    BY <1>2, StoreFacts
  <1>10. Range(index'[n].versions) = Published(n) \cup {ver[r]}
    BY <1>2, <1>4, <1>6, <1>7, <1>9
  <1>11. \A m \in Namespaces \ {n} :
           Range(index'[m].versions) = Published(m)
    BY <1>7 DEF Published
  <1> QED
    BY <1>1, <1>8, <1>10, <1>11

\* The commit keeps whole: what it publishes was complete.
LEMMA WholeReplace ==
  ASSUME Store!StoreInv, NEW r \in Requests, Replace(r)
  PROVE  whole' = whole
  <1>1. UNCHANGED <<model, meta>>
    BY DEF Replace
  <1>2. ASSUME NEW n \in Namespaces, NEW v \in Versions
        PROVE  (IF v \in Published(n)' THEN model[n][v] ELSE meta[n][v]) =
               IF v \in Published(n) THEN model[n][v] ELSE meta[n][v]
    <2>1. CASE v \in Published(n)' <=> v \in Published(n)
      BY <2>1
    <2>2. CASE n = NS(r) /\ v = ver[r]
      BY <2>2, ReplacePublishes, SavingUnpublished
    <2> QED
      BY <2>1, <2>2, ReplacePublishes
  <1> QED
    BY <1>1, <1>2 DEF whole

\* Writing metadata.json writes the same into whole.
LEMMA WholeMeta ==
  ASSUME Store!StoreInv, NEW r \in Requests, Intact, OpenMeta(r) \/ WriteMeta(r),
         NEW c, meta' = [meta EXCEPT ![NS(r)][ver[r]] = c]
  PROVE  whole' = [whole EXCEPT ![NS(r)][ver[r]] = c]
  <1> USE DEF OpenMeta, WriteMeta, SetMeta
  <1>1. pc[r] \in Saving
    BY DEF Goto, Saving, Critical, WriteSteps
  <1>2. ver[r] \notin Published(NS(r)) /\ NS(r) \in Namespaces
    BY <1>1, SavingUnpublished
  <1>3. model' = model /\ \A n \in Namespaces : Published(n)' = Published(n)
    BY DEF Published
  <1>4. whole' = [n \in Namespaces |-> [v \in Versions |->
                    IF v \in Published(n) THEN model[n][v] ELSE meta'[n][v]]]
    BY <1>3 DEF whole
  <1> DEFINE w == [whole EXCEPT ![NS(r)][ver[r]] = c]
  <1>5. w = [n \in Namespaces |-> [v \in Versions |-> w[n][v]]]
    <2>1. /\ whole = [n \in Namespaces |-> whole[n]]
          /\ \A n \in Namespaces : whole[n] = [v \in Versions |-> whole[n][v]]
      BY DEF whole
    <2> DEFINE u(n) == [whole[n] EXCEPT ![ver[r]] = c]
    <2>2. w = [n \in Namespaces |-> IF n = NS(r) THEN u(n) ELSE whole[n]]
      BY <2>1
    <2> HIDE DEF w
    <2>3. w = [n \in Namespaces |-> w[n]]
      BY <2>2
    <2>4. ASSUME NEW n \in Namespaces
          PROVE  w[n] = [v \in Versions |-> w[n][v]]
      <3>1. w[n] = IF n = NS(r) THEN u(n) ELSE whole[n]
        BY <2>2
      <3>2. u(n) = [v \in Versions |-> u(n)[v]]
        BY <2>1
      <3> HIDE DEF u
      <3> QED
        BY <2>1, <3>1, <3>2
    <2> QED
      BY <2>3, <2>4
  <1>6. ASSUME NEW n \in Namespaces, NEW v \in Versions
        PROVE  w[n][v] = IF v \in Published(n) THEN model[n][v] ELSE meta'[n][v]
    BY <1>2 DEF whole, Intact
  <1>7. [n \in Namespaces |-> [v \in Versions |-> w[n][v]]] =
        [n \in Namespaces |-> [v \in Versions |->
           IF v \in Published(n) THEN model[n][v] ELSE meta'[n][v]]]
    <2> HIDE DEF w
    <2> QED
      BY <1>6
  <1> QED
    BY <1>4, <1>5, <1>7, Zenon

\* A step of a handler that leaves the files and the indexes alone is the same
\* step of Store.
LEMMA SubmitMaps ==
  ASSUME NEW r \in Requests, Submit(r)
  PROVE  Store!Submit(r) /\ UNCHANGED <<disk, whole>>
  <1>1. UNCHANGED disk
    BY DEF Submit, Accept, Reject, SubmitWith
  <1>2. whole' = whole
    BY <1>1, WholeKept DEF disk
  <1>3. Accept(r) => Store!Accept(r)
    BY <1>2, StoreNames
    DEF Accept, Store!Accept, SubmitWith, Store!SubmitWith, Goto, Store!Goto,
        Admissible, Store!Admissible, Space, Store!Space, disk, Store!disk,
        budget, Store!budget
  <1>4. Reject(r) => Store!Reject(r)
    BY <1>2, StoreNames
    DEF Reject, Store!Reject, SubmitWith, Store!SubmitWith, Goto, Store!Goto,
        Answer, Store!Answer, Admissible, Store!Admissible, Space, Store!Space,
        disk, Store!disk, budget, Store!budget
  <1> QED
    BY <1>1, <1>2, <1>3, <1>4 DEF Submit, Store!Submit

\* So are the steps that take or release the lock or work in memory.
LEMMA QuietMaps ==
  ASSUME NEW r \in Requests,
         \/ Acquire(r) \/ NextVersion(r) \/ ReadIndex(r) \/ Release(r)
         \/ RefuseSeries(r) \/ WriteFault(r)
  PROVE  /\ Store!Step(r) \/ Store!WriteFault(r)
         /\ UNCHANGED <<disk, whole>>
  <1> USE DEF Goto, Store!Goto, Answer, Store!Answer, Unlock, Store!Unlock,
              disk, Store!disk, locals, Store!locals, budget, Store!budget
  <1>1. UNCHANGED disk
    BY DEF Acquire, NextVersion, ReadIndex, Release, RefuseSeries, WriteFault
  <1>2. whole' = whole
    BY <1>1, WholeKept
  <1>3. Acquire(r) => Store!Acquire(r)
    BY <1>2 DEF Acquire, Store!Acquire
  <1>4. NextVersion(r) => Store!NextVersion(r)
    BY <1>2, StoreNames
    DEF NextVersion, Store!NextVersion, NewLabel, Store!NewLabel
  <1>5. ReadIndex(r) => Store!ReadIndex(r)
    BY <1>2, StoreNames DEF ReadIndex, Store!ReadIndex
  <1>6. Release(r) => Store!Release(r)
    BY <1>2 DEF Release, Store!Release
  <1>7. RefuseSeries(r) => Store!RefuseSeries(r)
    BY <1>2 DEF RefuseSeries, Store!RefuseSeries
  <1>8. WriteFault(r) => Store!WriteFault(r)
    BY <1>2, StorePoints DEF WriteFault, Store!WriteFault
  <1> QED
    BY <1>1, <1>2, <1>3, <1>4, <1>5, <1>6, <1>7, <1>8
    DEF Store!Step, Store!Fit

\* Directories, index.json.tmp and model.joblib do not show in whole, nor does
\* the commit.
LEMMA SaveMaps ==
  ASSUME Store!StoreInv, NEW r \in Requests,
         \/ Mkdir(r) \/ OpenTmp(r) \/ WriteTmp(r)
         \/ OpenModel(r) \/ DumpModel(r) \/ Replace(r)
  PROVE  Store!Step(r) /\ UNCHANGED <<meta, whole>>
  <1> USE DEF Goto, Store!Goto, locals, Store!locals, budget, Store!budget
  <1>1. Mkdir(r) => Store!Mkdir(r) /\ UNCHANGED <<meta, whole>>
    BY WholeKept, StoreNames DEF Mkdir, Store!Mkdir
  <1>2. OpenTmp(r) => Store!OpenTmp(r) /\ UNCHANGED <<meta, whole>>
    BY WholeKept, StoreNames DEF OpenTmp, Store!OpenTmp, SetTmp, Store!SetTmp
  <1>3. WriteTmp(r) => Store!WriteTmp(r) /\ UNCHANGED <<meta, whole>>
    BY WholeKept, StoreNames DEF WriteTmp, Store!WriteTmp, SetTmp, Store!SetTmp
  <1>4. OpenModel(r) => Store!OpenModel(r) /\ UNCHANGED <<meta, whole>>
    BY WholeModel, StoreNames
    DEF OpenModel, Store!OpenModel, SetModel, Store!SetModel
  <1>5. DumpModel(r) => Store!DumpModel(r) /\ UNCHANGED <<meta, whole>>
    BY WholeModel, StoreNames
    DEF DumpModel, Store!DumpModel, SetModel, Store!SetModel
  <1>6. Replace(r) => Store!Replace(r) /\ UNCHANGED <<meta, whole>>
    BY WholeReplace, StoreNames DEF Replace, Store!Replace
  <1> QED
    BY <1>1, <1>2, <1>3, <1>4, <1>5, <1>6 DEF Store!Step, Store!Fit

\* Writing metadata.json is the same step of Store.
LEMMA MetaMaps ==
  ASSUME Store!StoreInv, Intact, NEW r \in Requests,
         OpenMeta(r) \/ WriteMeta(r)
  PROVE  Store!Step(r)
  <1> USE DEF Goto, Store!Goto, locals, Store!locals, budget, Store!budget
  <1>1. OpenMeta(r) => Store!OpenMeta(r)
    BY WholeMeta, StoreNames
    DEF OpenMeta, Store!OpenMeta, SetMeta, Store!SetMeta
  <1>2. WriteMeta(r) => Store!WriteMeta(r)
    BY WholeMeta, StoreNames
    DEF WriteMeta, Store!WriteMeta, SetMeta, Store!SetMeta
  <1> QED
    BY <1>1, <1>2 DEF Store!Step, Store!Fit

\* A read is not the same step of Store, which would find every file; but to
\* Store it is a step that changes the state of one read handler.
LEMMA ReadMaps ==
  ASSUME Store!StoreInv, Intact, NEW r \in Requests, Read(r)
  PROVE  Store!ReadFrame(r) /\ UNCHANGED <<disk, whole>>
  <1>1. TypeOK
    BY StoreNames, StorePoints
    DEF Store!StoreInv, Store!TypeOK, TypeOK, Intact
  <1>2. RoleOf(r)
    BY StorePoints
    DEF Store!StoreInv, Store!RoleOf, RoleOf, Store!Pending, Pending
  <1>3. ReadFrame(r)
    BY <1>1, <1>2, ReadIsFramed
  <1>4. whole' = whole
    BY <1>3, WholeKept DEF ReadFrame
  <1> QED
    BY <1>3, <1>4, StorePoints
    DEF ReadFrame, Store!ReadFrame, Store!Pending, Pending, disk

\* Metadata stay intact when those of published versions are at most lost, and
\* a new version is published with those of its model.
LEMMA IntactKept ==
  ASSUME Intact, Grows, meta' \in [Namespaces -> [Versions -> Content]],
         \A n \in Namespaces : \A v \in Published(n)' :
           v \in Published(n) \/ meta'[n][v] = model'[n][v]
  PROVE  Intact'
  BY DEF Intact, Grows

\* A step of Store that writes no metadata of a published version.
LEMMA MappedStep ==
  ASSUME Store!StoreInv, Intact, [Store!Next]_(Store!vars),
         meta' \in [Namespaces -> [Versions -> Content]],
         \A n \in Namespaces : \A v \in Published(n) : meta'[n][v] = meta[n][v],
         \A n \in Namespaces : \A v \in Published(n)' :
           v \in Published(n) \/ meta'[n][v] = model'[n][v]
  PROVE  Store!StoreInv' /\ Intact' /\ Grows
  <1>1. Store!StoreInv'
    BY Store!NextInv, StoreAssumptions
  <1>2. ASSUME NEW n \in Namespaces
        PROVE  /\ index'[n].latest >= index[n].latest
               /\ \A v \in Published(n) :
                    v \in Published(n)' /\ model'[n][v] = model[n][v]
    <2>1. Store!Published(n)' = Published(n)'
      BY DEF Store!Published, Published, Store!Range, Range
    <2> QED
      BY <2>1, StoreNames, StoreAssumptions, Store!PublishedGrows
  <1>3. Grows
    BY <1>2 DEF Grows
  <1> QED
    BY <1>1, <1>3, IntactKept

\* Steps that change nothing of the store but the local state of handlers.
LEMMA IdleDisk ==
  ASSUME Store!StoreInv, Intact, UNCHANGED disk
  PROVE  Intact' /\ Grows
  <1>1. \A n \in Namespaces : Published(n)' = Published(n)
    BY DEF disk, Published
  <1>2. \A n \in Namespaces : index[n].latest \in Nat
    BY StoreFacts
  <1> QED
    BY <1>1, <1>2 DEF disk, Grows, Intact

\* Writing metadata.json: the version it belongs to is not published.
LEMMA MetaStep ==
  ASSUME Store!StoreInv, Intact, NEW r \in Requests,
         OpenMeta(r) \/ WriteMeta(r)
  PROVE  Store!StoreInv' /\ Intact' /\ Grows
  <1>1. pc[r] \in Saving
    BY DEF OpenMeta, WriteMeta, SetMeta, Goto, Saving, Critical, WriteSteps
  <1>2. [Store!Next]_(Store!vars)
    BY MetaMaps DEF Store!Next
  <1>3. \A n \in Namespaces : Published(n)' = Published(n)
    BY DEF OpenMeta, WriteMeta, SetMeta, Published
  <1>4. meta' \in [Namespaces -> [Versions -> Content]]
    BY <1>1, SavingUnpublished
    DEF OpenMeta, WriteMeta, SetMeta, Intact, Content
  <1>5. ASSUME NEW n \in Namespaces, NEW v \in Published(n)
        PROVE  meta'[n][v] = meta[n][v]
    <2>1. v \in Versions
      BY StoreFacts
    <2>2. n # NS(r) \/ v # ver[r]
      BY <1>1, SavingUnpublished
    <2>3. \E c : meta' = [meta EXCEPT ![NS(r)][ver[r]] = c]
      BY DEF OpenMeta, WriteMeta, SetMeta
    <2> QED
      BY <2>1, <2>2, <2>3 DEF Intact
  <1> QED
    BY <1>2, <1>3, <1>4, <1>5, MappedStep

\* The other steps of a save: a version is published with whole files.
LEMMA SaveStep ==
  ASSUME Store!StoreInv, Intact, NEW r \in Requests,
         \/ Mkdir(r) \/ OpenTmp(r) \/ WriteTmp(r)
         \/ OpenModel(r) \/ DumpModel(r) \/ Replace(r)
  PROVE  Store!StoreInv' /\ Intact' /\ Grows
  <1>1. [Store!Next]_(Store!vars) /\ meta' = meta
    BY SaveMaps DEF Store!Next
  <1>2. ASSUME NEW n \in Namespaces, NEW v \in Published(n)'
        PROVE  v \in Published(n) \/ meta'[n][v] = model'[n][v]
    <2>1. CASE Replace(r)
      <3>1. model' = model
        BY <2>1 DEF Replace
      <3> QED
        BY <1>1, <2>1, <3>1, ReplacePublishes, SavingUnpublished
    <2>2. CASE ~Replace(r)
      <3>1. index' = index
        BY <2>2
        DEF Mkdir, OpenTmp, WriteTmp, SetTmp, OpenModel, DumpModel, SetModel
      <3> QED
        BY <3>1 DEF Published
    <2> QED
      BY <2>1, <2>2
  <1>3. meta' \in [Namespaces -> [Versions -> Content]]
    BY <1>1 DEF Intact
  <1> QED
    BY <1>1, <1>2, <1>3, MappedStep

\* Every step of a handler keeps what the listings rely on.
LEMMA HandlerStep ==
  ASSUME Store!StoreInv, Intact, NEW r \in Requests,
         Submit(r) \/ Step(r) \/ WriteFault(r)
  PROVE  Store!StoreInv' /\ Intact' /\ Grows
  <1>1. CASE Submit(r)
    <2>1. [Store!Next]_(Store!vars)
      BY <1>1, SubmitMaps DEF Store!Next
    <2> QED
      BY <1>1, <2>1, SubmitMaps, IdleDisk, Store!NextInv, StoreAssumptions
  <1>2. CASE \/ Acquire(r) \/ NextVersion(r) \/ ReadIndex(r) \/ Release(r)
             \/ RefuseSeries(r) \/ WriteFault(r)
    <2>1. [Store!Next]_(Store!vars) /\ UNCHANGED disk
      BY <1>2, QuietMaps DEF Store!Next
    <2> QED
      BY <2>1, IdleDisk, Store!NextInv, StoreAssumptions
  <1>3. CASE Read(r)
    <2>1. Store!ReadFrame(r) /\ UNCHANGED disk
      BY <1>3, ReadMaps
    <2> QED
      BY <2>1, IdleDisk, Store!FramedReadInv, StoreAssumptions
  <1> QED
    BY <1>1, <1>2, <1>3, MetaStep, SaveStep DEF Step, Fit

\* A restart is one of Store.
LEMMA RestartStep ==
  ASSUME Store!StoreInv, Intact, Restart
  PROVE  Store!StoreInv' /\ Intact' /\ Grows
  <1>1. UNCHANGED disk
    BY DEF Restart
  <1>2. whole' = whole
    BY <1>1, WholeKept DEF disk
  <1>3. Store!Restart
    BY <1>1, <1>2
    DEF Restart, Store!Restart, disk, Store!disk, locals, Store!locals,
        Ended, Store!Ended
  <1> QED
    BY <1>1, <1>3, IdleDisk, Store!NextInv, StoreAssumptions DEF Store!Next

\* A loss is none: Store does not see it.
LEMMA LossStep ==
  ASSUME Store!StoreInv, Intact, LoseMetadata
  PROVE  Store!StoreInv' /\ Intact' /\ Grows
  <1> USE DEF LoseMetadata
  <1>1. PICK n \in Namespaces : \E v \in Published(n) :
          meta' = [meta EXCEPT ![n][v] = NoFile]
    OBVIOUS
  <1>2. PICK v \in Published(n) : meta' = [meta EXCEPT ![n][v] = NoFile]
    BY <1>1
  <1>3. v \in Versions
    BY StoreFacts
  <1>4. \A m \in Namespaces : Published(m)' = Published(m)
    BY DEF Published
  <1>5. ASSUME NEW m \in Namespaces, NEW u \in Versions
        PROVE  meta'[m][u] \in {meta[m][u], NoFile}
               /\ (u \notin Published(m) => meta'[m][u] = meta[m][u])
    BY <1>2, <1>3 DEF Intact
  <1>6. whole' = whole
    BY <1>4, <1>5 DEF whole
  <1>7. Store!StoreInv'
    BY <1>6, Store!StutterInv, StoreAssumptions
    DEF Store!vars, Store!disk, Store!locals, Store!budget, locals, budget
  <1>8. meta' \in [Namespaces -> [Versions -> Content]]
    BY <1>2, <1>3 DEF Intact, Content
  <1>9. Grows
    BY <1>4, <1>5, StoreFacts DEF Grows
  <1> QED
    BY <1>4, <1>7, <1>8, <1>9, IntactKept

\* A step that changes nothing of the store.
LEMMA UnchangedStep ==
  ASSUME Store!StoreInv, Intact, UNCHANGED vars
  PROVE  Store!StoreInv' /\ Intact' /\ Grows
  <1>1. UNCHANGED disk
    BY DEF vars
  <1>2. whole' = whole
    BY <1>1, WholeKept DEF disk
  <1>3. UNCHANGED Store!vars
    BY <1>1, <1>2 DEF vars, disk, locals, budget, Store!vars, Store!disk,
                      Store!locals, Store!budget
  <1> QED
    BY <1>1, <1>3, IdleDisk, Store!StutterInv, StoreAssumptions

-----------------------------------------------------------------------------
(* A listing and the steps of others: what it has gathered stays true.      *)

\* The state a listing keeps for itself.
Idle(l) ==
  /\ lpc'[l] = lpc[l] /\ ask'[l] = ask[l]
  /\ seriesLeft'[l] = seriesLeft[l] /\ spacesLeft'[l] = spacesLeft[l]
  /\ found'[l] = found[l] /\ answer'[l] = answer[l]
  /\ lstatus'[l] = lstatus[l] /\ since'[l] = since[l]

\* What was fresh, shown or lost is so afterwards.
LEMMA GatheredKept ==
  ASSUME ListTypeOK, Grows, NEW l \in Listers, since'[l] = since[l],
         ask'[l] = ask[l]
  PROVE  /\ Met(l)' = Met(l)
         /\ \A n \in Namespaces : Lost(l, n) => Lost(l, n)'
         /\ \A s \in Seq(EntryType \cup SummaryType) :
              Fresh(l, s) => Fresh(l, s)' /\ (Shown(l, s) => Shown(l, s)')
  <1>1. Met(l)' = Met(l)
    BY DEF Met
  <1>2. ASSUME NEW n \in Namespaces, Lost(l, n)
        PROVE  Lost(l, n)'
    BY <1>2 DEF Lost, Grows
  <1>3. ASSUME NEW s \in Seq(EntryType \cup SummaryType), Fresh(l, s)
        PROVE  Fresh(l, s)' /\ (Shown(l, s) => Shown(l, s)')
    <2>1. \A i \in DOMAIN s : s[i].space \in Namespaces
      BY DEF EntryType, SummaryType
    <2>2. Fresh(l, s)'
      BY <1>3, <2>1 DEF Fresh, Grows
    <2>3. Shown(l, s) => Shown(l, s)'
      BY <1>3, <2>1 DEF Shown, Fresh, Grows
    <2> QED
      BY <2>2, <2>3
  <1> QED
    BY <1>1, <1>2, <1>3

\* What a listing has gathered is not invalidated by a step of another actor.
LEMMA ListUndisturbed ==
  ASSUME ListTypeOK, Grows, NEW l \in Listers, Idle(l), ListOf(l),
         \A n \in Namespaces :
           index[n].latest \in Nat /\ index'[n].latest \in Nat
  PROVE  ListOf(l)'
  <1> USE DEF Idle
  <1>1. /\ found[l] \in Seq(EntryType \cup SummaryType)
        /\ answer[l] \in Seq(EntryType \cup SummaryType)
    BY DEF ListTypeOK
  <1>2. /\ Met(l)' = Met(l)
        /\ \A n \in Namespaces : Lost(l, n) => Lost(l, n)'
        /\ Fresh(l, found[l]) => Fresh(l, found[l])'
        /\ Fresh(l, answer[l]) => Fresh(l, answer[l])'
        /\ Fresh(l, answer[l]) /\ Shown(l, answer[l]) => Shown(l, answer[l])'
    BY <1>1, GatheredKept
  <1>3. ASSUME NEW n \in Namespaces
        PROVE  since'[l][n] <= index'[n].latest
    <2>1. since[l][n] \in Nat
      BY DEF ListTypeOK
    <2>2. since[l][n] <= index[n].latest /\ index'[n].latest >= index[n].latest
      BY DEF ListOf, Grows
    <2> QED
      BY <2>1, <2>2
  <1>4. WalkOf(l) => WalkOf(l)'
    BY <1>2 DEF WalkOf, Distinct, Spaces
  <1>5. ASSUME NEW rest, Listing(l, rest)
        PROVE  Listing(l, rest)'
    BY <1>2, <1>5 DEF Listing, Distinct, Spaces, Met
  <1>6. SummariesOf(l) => SummariesOf(l)'
    <2>1. /\ Spaces(found[l])' = Spaces(found[l])
          /\ Spaces(answer[l])' = Spaces(answer[l])
      BY DEF Spaces
    <2>2. /\ Distinct(found[l]) => Distinct(found[l])'
          /\ Distinct(answer[l]) => Distinct(answer[l])'
      BY DEF Distinct
    <2> QED
      BY <1>2, <2>1, <2>2 DEF SummariesOf, Listing, Met
  <1>7. AnswerOf(l) => AnswerOf(l)'
    BY <1>2, <1>5 DEF AnswerOf, Distinct, Spaces
  <1> QED
    BY <1>3, <1>4, <1>6, <1>7 DEF ListOf

-----------------------------------------------------------------------------
(* The directories a save begins *)

\* What a walk finds are namespaces, those of all published versions among
\* them.
LEMMA DirListingFacts ==
  ASSUME Store!StoreInv, Labels, NEW ns \in DirListings
  PROVE  /\ ns \subseteq Namespaces
         /\ \A n \in Namespaces : index[n].latest > 0 => n \in ns
  <1>1. SpacesBegun \subseteq Namespaces
    BY DEF SpacesBegun, Labels
  <1>2. ns \subseteq Namespaces /\ SpacesOnDisk \subseteq ns
    BY <1>1 DEF DirListings, SpacesOnDisk
  <1>3. ASSUME NEW n \in Namespaces, index[n].latest > 0
        PROVE  n \in SpacesOnDisk
    <2>1. index[n].latest \in Published(n)
      BY <1>3, StoreFacts
    <2>2. index[n].latest \in dirs[n]
      BY <2>1, StoreFacts
    <2> QED
      BY <2>2 DEF SpacesOnDisk
  <1> QED
    BY <1>2, <1>3

\* The local state of the other handlers, and the label of r.
LEMMA LabelsKept ==
  ASSUME Store!StoreInv, Intact, Labels, NEW r \in Requests,
         Submit(r) \/ Step(r) \/ WriteFault(r)
  PROVE  Labels'
  <1> USE DEF Goto, Answer, locals, disk
  <1>1. /\ pc \in [Requests -> Points]
        /\ req \in [Requests -> Menu]
        /\ ver \in [Requests -> Nat]
    BY StorePoints DEF Store!StoreInv, Store!TypeOK
  <1>2. /\ pc[r] \in Critical \cup {"acquire"} =>
             req[r].op = "fit" /\ req[r].detector \in Detectors
        /\ pc[r] \in ReadSteps => req[r].op # "fit"
    BY StorePoints DEF Store!StoreInv, Store!RoleOf
  <1>3. ASSUME NEW q \in Requests \ {r}, pc'[q] = pc[q], req'[q] = req[q],
               ver'[q] = ver[q]
        PROVE  /\ pc'[q] = "idle" => ver'[q] = 0
               /\ req'[q].op = "fit" /\ ver'[q] # 0 => NS(q)' \in Namespaces
    BY <1>3 DEF Labels, NS
  <1>4. CASE Submit(r)
    <2>1. pc[r] = "idle" /\ ver' = ver
      BY <1>4 DEF Submit, Accept, Reject, SubmitWith
    <2>2. \A q \in Requests \ {r} : pc'[q] = pc[q] /\ req'[q] = req[q]
      BY <1>1, <1>4 DEF Submit, Accept, Reject, SubmitWith
    <2>3. ver'[r] = 0
      BY <2>1 DEF Labels
    <2> QED
      BY <1>3, <2>1, <2>2, <2>3 DEF Labels
  <1>5. CASE NextVersion(r)
    <2>1. /\ pc'[r] = "mkdir"
          /\ req' = req /\ req[r].series \in SafeSeries
          /\ \A q \in Requests \ {r} : pc'[q] = pc[q] /\ ver'[q] = ver[q]
      BY <1>1, <1>5 DEF NextVersion
    <2>2. NS(r)' \in Namespaces
      BY <1>2, <1>5, <2>1
      DEF NextVersion, NS, Space, Namespaces, Critical
    <2> QED
      BY <1>3, <2>1, <2>2 DEF Labels
  <1>6. CASE Read(r)
    <2>1. Store!ReadFrame(r)
      BY <1>6, ReadMaps
    <2>2. /\ pc[r] \in ReadSteps /\ pc'[r] # "idle"
          /\ req' = req
          /\ \A q \in Requests \ {r} : pc'[q] = pc[q] /\ ver'[q] = ver[q]
      BY <2>1, StorePoints DEF Store!ReadFrame, ReadSteps
    <2>3. req[r].op # "fit"
      BY <1>2, <2>2
    <2> QED
      BY <1>3, <2>2, <2>3 DEF Labels
  <1>7. CASE \/ Fit(r) /\ ~NextVersion(r)
             \/ RefuseSeries(r) \/ WriteFault(r)
    <2>1. /\ pc'[r] # "idle"
          /\ ver' = ver /\ req' = req
          /\ \A q \in Requests \ {r} : pc'[q] = pc[q]
      BY <1>1, <1>7
      DEF Fit, Acquire, Mkdir, OpenModel, DumpModel, SetModel, OpenMeta,
          WriteMeta, SetMeta, ReadIndex, OpenTmp, WriteTmp, SetTmp, Replace,
          Release, RefuseSeries, WriteFault, WriteSteps
    <2>2. NS(r)' = NS(r)
      BY <2>1 DEF NS
    <2> QED
      BY <1>3, <2>1, <2>2 DEF Labels
  <1> QED
    BY <1>4, <1>5, <1>6, <1>7 DEF Step, Fit

\* Steps that give no label and begin no handler keep Labels.
LEMMA LabelsUnchanged ==
  ASSUME Labels, UNCHANGED <<req, ver>>,
         \A r \in Requests : pc'[r] = "idle" => pc[r] = "idle"
  PROVE  Labels'
  BY DEF Labels, NS

-----------------------------------------------------------------------------
(* Sequences of entries *)

\* What appending an entry does.
LEMMA AppendEntry ==
  ASSUME NEW S, NEW s \in Seq(S), NEW e \in S
  PROVE  /\ Spaces(Append(s, e)) = Spaces(s) \cup {e.space}
         /\ Distinct(s) /\ e.space \notin Spaces(s) => Distinct(Append(s, e))
  <1> DEFINE t == Append(s, e)
  <1>1. /\ DOMAIN s = 1 .. Len(s)
        /\ DOMAIN t = 1 .. (Len(s) + 1)
        /\ \A i \in 1 .. Len(s) : t[i] = s[i]
        /\ t[Len(s) + 1] = e
        /\ Len(s) \in Nat
    OBVIOUS
  <1>2. DOMAIN t = DOMAIN s \cup {Len(s) + 1}
    BY <1>1
  <1> HIDE DEF t
  <1>3. Spaces(t) = Spaces(s) \cup {e.space}
    BY <1>1, <1>2 DEF Spaces
  <1>4. Distinct(s) /\ e.space \notin Spaces(s) => Distinct(t)
    BY <1>1, <1>2 DEF Spaces, Distinct
  <1> QED
    BY <1>3, <1>4 DEF t

\* What taking the first entry off does.
LEMMA TailEntry ==
  ASSUME NEW S, NEW s \in Seq(S), s # <<>>
  PROVE  /\ Head(s) \in S
         /\ Tail(s) \in Seq(S)
         /\ Spaces(s) = {Head(s).space} \cup Spaces(Tail(s))
         /\ Distinct(s) => /\ Distinct(Tail(s))
                           /\ Head(s).space \notin Spaces(Tail(s))
  <1> DEFINE t == Tail(s)
  <1>1. /\ DOMAIN s = 1 .. Len(s)
        /\ Len(s) \in Nat /\ Len(s) > 0
        /\ DOMAIN t = 1 .. (Len(s) - 1)
        /\ \A i \in 1 .. (Len(s) - 1) : t[i] = s[i + 1]
        /\ Head(s) = s[1] /\ Head(s) \in S /\ t \in Seq(S)
    OBVIOUS
  <1> HIDE DEF t
  <1>2. \A i \in DOMAIN s : i = 1 \/ (i - 1 \in DOMAIN t /\ t[i - 1] = s[i])
    BY <1>1
  <1>3. \A i \in DOMAIN t : i + 1 \in DOMAIN s /\ t[i] = s[i + 1] /\ i + 1 # 1
    BY <1>1
  <1>4. Spaces(s) = {Head(s).space} \cup Spaces(t)
    <2>1. Spaces(s) \subseteq {Head(s).space} \cup Spaces(t)
      BY <1>1, <1>2 DEF Spaces
    <2>2. 1 \in DOMAIN s
      BY <1>1
    <2>3. {Head(s).space} \cup Spaces(t) \subseteq Spaces(s)
      BY <1>1, <1>3, <2>2 DEF Spaces
    <2> QED
      BY <2>1, <2>3
  <1>5. ASSUME Distinct(s)
        PROVE  Distinct(t) /\ Head(s).space \notin Spaces(t)
    <2>1. Distinct(t)
      <3>1. ASSUME NEW i \in DOMAIN t, NEW j \in DOMAIN t, t[i].space = t[j].space
            PROVE  i = j
        <4>1. i + 1 = j + 1
          BY <1>3, <1>5, <3>1 DEF Distinct
        <4> QED
          BY <1>1, <4>1
      <3> QED
        BY <3>1 DEF Distinct
    <2>2. ASSUME Head(s).space \in Spaces(t)
          PROVE  FALSE
      <3>1. PICK j \in DOMAIN t : t[j].space = Head(s).space
        BY <2>2 DEF Spaces
      <3>2. 1 \in DOMAIN s /\ j + 1 \in DOMAIN s /\ s[j + 1].space = s[1].space
        BY <1>1, <1>3, <3>1
      <3> QED
        BY <1>3, <1>5, <3>1, <3>2 DEF Distinct
    <2> QED
      BY <2>1, <2>2
  <1> QED
    BY <1>1, <1>4, <1>5 DEF t

\* Distinct entries are as many as their namespaces.
LEMMA DistinctCount ==
  ASSUME NEW S, NEW s \in Seq(S), Distinct(s)
  PROVE  IsFiniteSet(Spaces(s)) /\ Cardinality(Spaces(s)) = Len(s)
  <1>1. Len(s) \in Nat /\ DOMAIN s = 1 .. Len(s)
    OBVIOUS
  <1> DEFINE f == [i \in 1 .. Len(s) |-> s[i].space]
  <1>2. f \in Bijection(1 .. Len(s), Spaces(s))
    <2>1. f \in [1 .. Len(s) -> Spaces(s)]
      BY <1>1 DEF Spaces
    <2>2. \A i, j \in 1 .. Len(s) : f[i] = f[j] => i = j
      BY <1>1 DEF Distinct
    <2>3. \A n \in Spaces(s) : \E i \in 1 .. Len(s) : f[i] = n
      BY <1>1 DEF Spaces
    <2> QED
      <3> HIDE DEF f
      <3> QED
        BY <2>1, <2>2, <2>3
        DEF Bijection, Injection, Surjection, IsInjective
  <1>3. ExistsBijection(1 .. Len(s), Spaces(s))
    BY <1>2 DEF ExistsBijection
  <1>4. IsFiniteSet(1 .. Len(s)) /\ Cardinality(1 .. Len(s)) = Len(s)
    <2>1. 1 \in Int /\ Len(s) \in Int
      BY <1>1
    <2>2. /\ IsFiniteSet(1 .. Len(s))
          /\ Cardinality(1 .. Len(s)) = IF 1 > Len(s) THEN 0 ELSE Len(s) - 1 + 1
      BY <2>1, FS_Interval
    <2> QED
      BY <1>1, <2>2
  <1> QED
    BY <1>3, <1>4, FS_Bijection

\* Entries that are appended or taken off a sequence keep it fresh.
LEMMA FreshEntries ==
  ASSUME NEW l \in Listers, NEW S, NEW s \in Seq(S), Fresh(l, s)
  PROVE  /\ \A e \in S : e.version \in Published(e.space)
                         /\ e.version >= since[l][e.space] =>
              Fresh(l, Append(s, e))
         /\ s # <<>> =>
              /\ Head(s).version \in Published(Head(s).space)
              /\ Head(s).version >= since[l][Head(s).space]
              /\ Fresh(l, Tail(s))
  <1>1. ASSUME NEW e \in S, e.version \in Published(e.space),
               e.version >= since[l][e.space]
        PROVE  Fresh(l, Append(s, e))
    BY <1>1 DEF Fresh
  <1>2. ASSUME s # <<>>
        PROVE  /\ Head(s).version \in Published(Head(s).space)
               /\ Head(s).version >= since[l][Head(s).space]
               /\ Fresh(l, Tail(s))
    <2>1. /\ 1 \in DOMAIN s /\ Head(s) = s[1]
          /\ \A i \in DOMAIN Tail(s) : i + 1 \in DOMAIN s /\ Tail(s)[i] = s[i + 1]
      BY <1>2
    <2> QED
      BY <2>1 DEF Fresh
  <1> QED
    BY <1>1, <1>2

-----------------------------------------------------------------------------
(* The steps of a listing *)

\* A listing changes neither the store nor the state of other listings.
Alone(l) ==
  /\ UNCHANGED vars
  /\ \A k \in Listers \ {l} : Idle(k)

\* What does not depend on where the listing is.
LEMMA OwnStep ==
  ASSUME UNCHANGED vars, NEW l \in Listers, since'[l] = since[l],
         ask'[l] = ask[l]
  PROVE  /\ Met(l)' = Met(l)
         /\ \A n : Lost(l, n)' <=> Lost(l, n)
         /\ \A s : /\ Fresh(l, s)' <=> Fresh(l, s)
                   /\ Shown(l, s)' <=> Shown(l, s)
  <1>1. UNCHANGED <<model, meta, index>>
    BY DEF vars, disk
  <1> QED
    BY <1>1 DEF Met, Lost, Fresh, Shown, Published

\* Where the walk of a submitted listing begins, or the refusal of its filter.
LEMMA AskStep ==
  ASSUME ListInv, UNCHANGED vars, NEW l \in Listers, LAsk(l)
  PROVE  ListTypeOK' /\ ListOf(l)' /\ Alone(l)
  <1> USE DEF LAsk, walk, ListInv
  <1>1. PICK q \in ListMenu :
          /\ ask' = [ask EXCEPT ![l] = q]
          /\ \/ LGoto(l, "idle", "root") /\ UNCHANGED lstatus
             \/ ~Supported(q) /\ LAnswer(l, "idle", 422)
    OBVIOUS
  <1>2. /\ lpc[l] = "idle" /\ lpc'[l] \in {"root", "done"}
        /\ lpc'[l] = "done" => ~Supported(q)
        /\ lpc' \in [Listers -> ListPoints]
        /\ lstatus' \in [Listers -> Codes]
        /\ \A k \in Listers \ {l} : lpc'[k] = lpc[k] /\ lstatus'[k] = lstatus[k]
    <2>1. CASE LGoto(l, "idle", "root") /\ UNCHANGED lstatus
      BY <2>1 DEF LGoto, ListTypeOK, ListPoints
    <2>2. CASE ~Supported(q) /\ LAnswer(l, "idle", 422)
      BY <2>2 DEF LGoto, LAnswer, ListTypeOK, ListPoints, Ended, Codes
    <2> QED
      BY <1>1, <2>1, <2>2
  <1>3. \A n \in Namespaces : index[n].latest \in Nat
    BY StoreFacts
  <1>4. /\ ask' \in [Listers -> ListMenu] /\ ask'[l] = q
        /\ \A k \in Listers \ {l} : ask'[k] = ask[k] /\ since'[k] = since[k]
        /\ since' \in [Listers -> [Namespaces -> Nat]]
        /\ \A n \in Namespaces : since'[l][n] = index[n].latest
    BY <1>1, <1>3 DEF ListTypeOK
  <1>5. index' = index
    BY DEF vars, disk
  <1>6. ListTypeOK'
    BY <1>2, <1>4 DEF ListTypeOK
  <1>7. ListOf(l)'
    BY <1>2, <1>3, <1>4, <1>5 DEF ListOf
  <1> QED
    BY <1>2, <1>4, <1>6, <1>7 DEF Alone, Idle

\* The series directories: whatever was published when the listing was
\* submitted is in one of them.
LEMMA RootStep ==
  ASSUME ListInv, UNCHANGED vars, NEW l \in Listers, WalkRoot(l)
  PROVE  ListTypeOK' /\ ListOf(l)' /\ Alone(l)
  <1> USE DEF WalkRoot, ListInv
  <1>1. PICK ns \in DirListings :
          seriesLeft' = [seriesLeft EXCEPT ![l] = {n[1] : n \in ns}]
    OBVIOUS
  <1>2. /\ ns \subseteq Namespaces
        /\ \A n \in Namespaces : index[n].latest > 0 => n \in ns
    BY DirListingFacts
  <1>3. /\ lpc[l] = "root" /\ lpc'[l] = "walk"
        /\ lpc' \in [Listers -> ListPoints]
        /\ \A k \in Listers \ {l} : lpc'[k] = lpc[k]
    BY DEF LGoto, ListTypeOK, ListPoints
  <1>4. {n[1] : n \in ns} \subseteq SafeSeries
    BY <1>2 DEF Namespaces
  <1>5. /\ seriesLeft'[l] = {n[1] : n \in ns}
        /\ seriesLeft' \in [Listers -> SUBSET SafeSeries]
        /\ \A k \in Listers \ {l} : seriesLeft'[k] = seriesLeft[k]
    BY <1>1, <1>4 DEF ListTypeOK
  <1>6. ListTypeOK' /\ Alone(l)
    BY <1>3, <1>5 DEF ListTypeOK, Alone, Idle
  <1>7. found'[l] = <<>> /\ answer'[l] = <<>> /\ spacesLeft'[l] = {}
    BY <1>3 DEF ListOf
  <1>8. \A n \in Namespaces : since[l][n] <= index[n].latest
                              /\ index[n].latest \in Nat /\ since[l][n] \in Nat
    BY StoreFacts DEF ListOf, ListTypeOK
  <1>9. index' = index
    BY DEF vars, disk
  <1>10. \A n \in Met(l)' : n[1] \in seriesLeft'[l]
    BY <1>2, <1>5, <1>8 DEF Met
  <1>11. WalkOf(l)'
    <2>1. Spaces(found[l])' = {} /\ Distinct(found[l])' /\ Fresh(l, found[l])'
      BY <1>7 DEF Spaces, Distinct, Fresh
    <2> QED
      BY <1>7, <1>10, <2>1 DEF WalkOf
  <1> QED
    BY <1>3, <1>6, <1>8, <1>9, <1>11 DEF ListOf

\* The detector directories of the next series.
LEMMA SeriesStep ==
  ASSUME ListInv, UNCHANGED vars, NEW l \in Listers, WalkSeries(l)
  PROVE  ListTypeOK' /\ ListOf(l)' /\ Alone(l)
  <1> USE DEF WalkSeries, ListInv
  <1>1. PICK s \in seriesLeft[l], ns \in DirListings :
          /\ seriesLeft' = [seriesLeft EXCEPT ![l] = @ \ {s}]
          /\ spacesLeft' = [spacesLeft EXCEPT ![l] = {n \in ns : n[1] = s}]
    OBVIOUS
  <1>2. /\ ns \subseteq Namespaces
        /\ \A n \in Namespaces : index[n].latest > 0 => n \in ns
    BY DirListingFacts
  <1>3. /\ seriesLeft'[l] = seriesLeft[l] \ {s}
        /\ spacesLeft'[l] = {n \in ns : n[1] = s}
        /\ seriesLeft' \in [Listers -> SUBSET SafeSeries]
        /\ spacesLeft' \in [Listers -> SUBSET Namespaces]
        /\ \A k \in Listers \ {l} : /\ seriesLeft'[k] = seriesLeft[k]
                                    /\ spacesLeft'[k] = spacesLeft[k]
    BY <1>1, <1>2 DEF ListTypeOK
  <1>4. ListTypeOK' /\ Alone(l)
    BY <1>3 DEF ListTypeOK, Alone, Idle
  <1>5. \A n \in Namespaces : since[l][n] <= index[n].latest
                              /\ index[n].latest \in Nat /\ since[l][n] \in Nat
    BY StoreFacts DEF ListOf, ListTypeOK
  <1>6. index' = index
    BY DEF vars, disk
  <1>7. WalkOf(l) /\ spacesLeft[l] = {}
    BY DEF ListOf
  <1>8. Met(l)' = Met(l) /\ Fresh(l, found[l])'
    BY <1>7, OwnStep DEF WalkOf
  <1>9. Spaces(found[l])' = Spaces(found[l]) /\ Distinct(found[l])'
    BY <1>7 DEF WalkOf, Spaces, Distinct
  <1>10. Spaces(found[l]) \cap spacesLeft'[l] = {}
    BY <1>3, <1>7 DEF WalkOf
  <1>11. \A n \in Spaces(found[l]) \cup spacesLeft'[l] : n[1] \notin seriesLeft'[l]
    BY <1>3, <1>7 DEF WalkOf
  <1>12. ASSUME NEW n \in Met(l)
         PROVE  n \in Spaces(found[l]) \cup spacesLeft'[l] \/ n[1] \in seriesLeft'[l]
    <2>1. n \in ns
      BY <1>2, <1>5 DEF Met
    <2> QED
      BY <1>3, <1>7, <2>1 DEF WalkOf
  <1>13. WalkOf(l)'
    BY <1>7, <1>8, <1>9, <1>10, <1>11, <1>12 DEF WalkOf
  <1> QED
    BY <1>4, <1>5, <1>6, <1>13 DEF ListOf

\* An index that exists names a latest version, which is published.
LEMMA IndexFacts ==
  ASSUME Store!StoreInv, NEW n \in Namespaces
  PROVE  /\ index[n] = NoIndex <=> index[n].latest = 0
         /\ index[n] # NoIndex => index[n].latest \in Published(n)
  <1>1. /\ index[n] \in IndexFile
        /\ index[n].versions = [i \in 1 .. index[n].latest |-> i]
        /\ index[n].latest \in Nat
        /\ Published(n) = 1 .. index[n].latest
    BY StoreFacts, StoreNames DEF Store!StoreInv, Store!Contiguous
  <1>2. index[n].latest = 0 => index[n] = NoIndex
    <2>1. index[n].latest = 0 => index[n].versions = <<>>
      BY <1>1
    <2> QED
      BY <1>1, <2>1 DEF IndexFile, NoIndex
  <1> QED
    BY <1>1, <1>2 DEF NoIndex

\* The entry that a namespace adds to what has been found.
LEMMA SpaceFound ==
  ASSUME ListInv, NEW l \in Listers, lpc[l] = "walk", NEW n \in spacesLeft[l]
  PROVE  LET f == found[l] \o IndexEntry(n) IN
           /\ f \in Seq(EntryType)
           /\ Distinct(f)
           /\ Fresh(l, f)
           /\ Spaces(found[l]) \subseteq Spaces(f)
           /\ Spaces(f) \subseteq Spaces(found[l]) \cup {n}
           /\ n \in Met(l) => n \in Spaces(f)
  <1> USE DEF ListInv
  <1>1. WalkOf(l) /\ n \in Namespaces /\ found[l] \in Seq(EntryType)
    BY DEF ListOf, ListTypeOK
  <1>2. since[l][n] <= index[n].latest /\ index[n].latest \in Nat
        /\ since[l][n] \in Nat
    BY <1>1, StoreFacts DEF ListOf, ListTypeOK
  <1>3. n \notin Spaces(found[l])
    BY <1>1 DEF WalkOf
  <1>4. CASE index[n] = NoIndex
    <2>1. found[l] \o IndexEntry(n) = found[l]
      BY <1>1, <1>4 DEF IndexEntry
    <2>2. n \notin Met(l)
      BY <1>1, <1>2, <1>4, IndexFacts DEF Met
    <2> QED
      BY <1>1, <2>1, <2>2 DEF WalkOf
  <1>5. CASE index[n] # NoIndex
    <2> DEFINE e == Entry(n, index[n].latest)
    <2>1. /\ e \in EntryType /\ e.space = n
          /\ e.version \in Published(e.space)
          /\ e.version >= since[l][e.space]
      BY <1>1, <1>2, <1>5, IndexFacts DEF Entry, EntryType
    <2>2. found[l] \o IndexEntry(n) = Append(found[l], e)
      BY <1>1, <1>5, <2>1 DEF IndexEntry
    <2> HIDE DEF e
    <2>3. Distinct(Append(found[l], e)) /\ Fresh(l, Append(found[l], e))
      BY <1>1, <1>3, <2>1, AppendEntry, FreshEntries DEF WalkOf
    <2>4. Spaces(Append(found[l], e)) = Spaces(found[l]) \cup {n}
      BY <1>1, <2>1, AppendEntry
    <2>5. Append(found[l], e) \in Seq(EntryType)
      BY <1>1, <2>1
    <2> QED
      BY <2>2, <2>3, <2>4, <2>5
  <1> QED
    BY <1>4, <1>5

\* Reading the index of one namespace.
LEMMA SpaceStep ==
  ASSUME ListInv, UNCHANGED vars, NEW l \in Listers, WalkSpace(l)
  PROVE  ListTypeOK' /\ ListOf(l)' /\ Alone(l)
  <1> USE DEF WalkSpace, ListInv
  <1>1. PICK n \in spacesLeft[l] :
          /\ found' = [found EXCEPT ![l] = @ \o IndexEntry(n)]
          /\ spacesLeft' = [spacesLeft EXCEPT ![l] = @ \ {n}]
    BY DEF AfterSpace
  <1> DEFINE f == found[l] \o IndexEntry(n)
  <1>2. /\ f \in Seq(EntryType)
        /\ Distinct(f)
        /\ Fresh(l, f)
        /\ Spaces(found[l]) \subseteq Spaces(f)
        /\ Spaces(f) \subseteq Spaces(found[l]) \cup {n}
        /\ n \in Met(l) => n \in Spaces(f)
    BY SpaceFound
  <1>3. found'[l] = f /\ spacesLeft'[l] = spacesLeft[l] \ {n}
    BY <1>1 DEF ListTypeOK
  <1> HIDE DEF f
  <1>4. /\ found' \in [Listers -> Seq(EntryType)]
        /\ spacesLeft' \in [Listers -> SUBSET Namespaces]
        /\ \A k \in Listers \ {l} : /\ found'[k] = found[k]
                                    /\ spacesLeft'[k] = spacesLeft[k]
    BY <1>1, <1>2 DEF ListTypeOK, f
  <1>5. ListTypeOK' /\ Alone(l)
    BY <1>4 DEF ListTypeOK, Alone, Idle
  <1>6. index' = index
    BY DEF vars, disk
  <1>7. WalkOf(l)
    BY DEF ListOf
  <1>8. Met(l)' = Met(l) /\ Fresh(l, found[l])'
    BY <1>2, <1>3, OwnStep
  <1>9. Spaces(found[l])' = Spaces(f) /\ Distinct(found[l])'
    <2>1. Distinct(found[l])' <=> Distinct(found'[l])
      BY DEF Distinct
    <2>2. Spaces(found[l])' = Spaces(found'[l])
      BY DEF Spaces
    <2> QED
      BY <1>2, <1>3, <2>1, <2>2
  <1>10. Spaces(f) \cap spacesLeft'[l] = {}
    BY <1>2, <1>3, <1>7 DEF WalkOf
  <1>11. \A m \in Spaces(f) \cup spacesLeft'[l] : m[1] \notin seriesLeft'[l]
    BY <1>2, <1>3, <1>7 DEF WalkOf
  <1>12. \A m \in Met(l) :
           m \in Spaces(f) \cup spacesLeft'[l] \/ m[1] \in seriesLeft'[l]
    BY <1>2, <1>3, <1>7 DEF WalkOf
  <1>13. WalkOf(l)'
    BY <1>7, <1>8, <1>9, <1>10, <1>11, <1>12 DEF WalkOf
  <1> QED
    BY <1>5, <1>6, <1>13 DEF ListOf

\* The end of the walk: everything the listing had to meet has been found.
LEMMA DoneStep ==
  ASSUME ListInv, UNCHANGED vars, NEW l \in Listers, WalkDone(l)
  PROVE  ListTypeOK' /\ ListOf(l)' /\ Alone(l)
  <1> USE DEF WalkDone, walk, ListInv
  <1>1. /\ lpc[l] = "walk" /\ spacesLeft[l] = {} /\ seriesLeft[l] = {}
        /\ WalkOf(l)
        /\ found[l] \in Seq(EntryType)
    BY DEF ListOf, ListTypeOK
  <1>2. Met(l) \subseteq Spaces(found[l])
    BY <1>1 DEF WalkOf
  <1>3. index' = index /\ \A n \in Namespaces : since'[l][n] <= index'[n].latest
    BY DEF vars, disk, ListOf
  <1>4. /\ Met(l)' = Met(l)
        /\ \A s : /\ Fresh(l, s)' <=> Fresh(l, s)
                  /\ Shown(l, s)' <=> Shown(l, s)
    BY OwnStep
  <1>5. CASE ask[l].op = "healthcheck"
    <2>1. /\ LAnswer(l, "walk", 200)
          /\ answer' = [answer EXCEPT ![l] = found[l]]
      BY <1>5
    <2>2. /\ lpc' \in [Listers -> ListPoints]
          /\ lpc'[l] = "done" /\ lstatus'[l] = 200 /\ answer'[l] = found[l]
          /\ lstatus' \in [Listers -> Codes]
          /\ answer' \in [Listers -> Seq(EntryType \cup SummaryType)]
          /\ \A k \in Listers \ {l} : /\ lpc'[k] = lpc[k] /\ answer'[k] = answer[k]
                                      /\ lstatus'[k] = lstatus[k]
      BY <1>1, <2>1 DEF LAnswer, LGoto, ListTypeOK, ListPoints, Ended, Codes
    <2>3. ListTypeOK' /\ Alone(l)
      BY <2>2 DEF ListTypeOK, Alone, Idle
    <2>4. /\ Distinct(answer[l])' <=> Distinct(answer'[l])
          /\ Spaces(answer[l])' = Spaces(answer'[l])
      BY DEF Distinct, Spaces
    <2>5. AnswerOf(l)'
      BY <1>1, <1>2, <1>4, <1>5, <2>2, <2>4 DEF WalkOf, AnswerOf
    <2> QED
      BY <1>3, <2>2, <2>3, <2>5 DEF ListOf
  <1>6. CASE ask[l].op = "models"
    <2>1. LGoto(l, "walk", "summaries") /\ UNCHANGED <<answer, lstatus>>
      BY <1>6
    <2>2. /\ lpc' \in [Listers -> ListPoints]
          /\ lpc'[l] = "summaries"
          /\ \A k \in Listers \ {l} : lpc'[k] = lpc[k]
      BY <2>1 DEF LGoto, ListTypeOK, ListPoints
    <2>3. ListTypeOK' /\ Alone(l)
      BY <2>1, <2>2 DEF ListTypeOK, Alone, Idle
    <2>4. answer'[l] = <<>> /\ found'[l] = found[l]
      BY <1>1, <2>1 DEF WalkOf
    <2>5. /\ Distinct(found[l])' /\ Fresh(l, found[l])'
          /\ Spaces(found[l])' = Spaces(found[l])
          /\ Spaces(answer[l])' = {}
          /\ Distinct(answer[l])' /\ Fresh(l, answer[l])' /\ Shown(l, answer[l])'
      <3>1. Distinct(found[l])' /\ Spaces(found[l])' = Spaces(found[l])
        BY <1>1, <2>4 DEF Distinct, Spaces, WalkOf
      <3>2. Fresh(l, found[l])'
        BY <1>1, <1>4, <2>4 DEF WalkOf
      <3>3. /\ Spaces(answer[l])' = {} /\ Distinct(answer[l])'
            /\ Fresh(l, answer[l])' /\ Shown(l, answer[l])'
        BY <2>4 DEF Spaces, Distinct, Fresh, Shown
      <3> QED
        BY <3>1, <3>2, <3>3
    <2>6. SummariesOf(l)'
      BY <1>2, <1>4, <1>6, <2>5 DEF SummariesOf, Listing
    <2> QED
      BY <1>3, <2>2, <2>3, <2>6 DEF ListOf
  <1> QED
    BY <1>5, <1>6

\* The metadata of an entry that was found are those of its fit, or lost.
LEMMA EntryFile ==
  ASSUME ListInv, NEW l \in Listers, NEW e \in EntryType,
         e.version \in Published(e.space), e.version >= since[l][e.space]
  PROVE  LET c == meta[e.space][e.version] IN
           \/ c \in Requests /\ c = model[e.space][e.version]
           \/ c = NoFile /\ c \notin Requests /\ Lost(l, e.space)
  <1>1. e.space \in Namespaces
    BY DEF EntryType
  <1>2. model[e.space][e.version] \in Requests
    BY <1>1, StoreFacts DEF ListInv
  <1>3. meta[e.space][e.version] \in {model[e.space][e.version], NoFile}
    BY <1>1 DEF ListInv, Intact
  <1> QED
    BY <1>1, <1>2, <1>3, MarksAssumption DEF Lost

\* One summary: the entry moves to the answer, or its namespace does not match
\* the filter, or its metadata are lost, which ends a strict listing.
LEMMA SummariseStep ==
  ASSUME ListInv, UNCHANGED vars, NEW l \in Listers, Summarise(l)
  PROVE  ListTypeOK' /\ ListOf(l)' /\ Alone(l)
  <1> USE DEF ListInv
  <1> DEFINE f == found[l]
             e == Head(f)
             c == meta[e.space][e.version]
             rest == Tail(f)
  <1>1. /\ lpc[l] = "summaries" /\ f # <<>>
        /\ found' = [found EXCEPT ![l] = rest]
        /\ UNCHANGED <<ask, seriesLeft, spacesLeft, since, losses>>
        /\ SummariesOf(l)
        /\ f \in Seq(EntryType)
        /\ answer[l] \in Seq(EntryType \cup SummaryType)
    BY DEF Summarise, ListOf, ListTypeOK
  <1>2. /\ e \in EntryType
        /\ rest \in Seq(EntryType)
        /\ Spaces(f) = {e.space} \cup Spaces(rest)
        /\ Distinct(rest)
        /\ e.space \notin Spaces(rest)
        /\ e.version \in Published(e.space)
        /\ e.version >= since[l][e.space]
        /\ Fresh(l, rest)
    BY <1>1, TailEntry, FreshEntries DEF SummariesOf
  <1>3. \/ c \in Requests /\ c = model[e.space][e.version]
        \/ c = NoFile /\ c \notin Requests /\ Lost(l, e.space)
    BY <1>2, EntryFile
  <1>4. \/ /\ ~Matches(ask[l], e.space)
           /\ UNCHANGED <<lpc, lstatus, answer>>
        \/ /\ Matches(ask[l], e.space)
           /\ c \in Requests
           /\ answer' = [answer EXCEPT ![l] = Append(@, Summary(e, c))]
           /\ UNCHANGED <<lpc, lstatus>>
        \/ /\ Matches(ask[l], e.space)
           /\ c \notin Requests
           /\ ask[l].strict
           /\ LAnswer(l, "summaries", 422)
           /\ UNCHANGED answer
        \/ /\ Matches(ask[l], e.space)
           /\ c \notin Requests
           /\ ~ask[l].strict
           /\ UNCHANGED <<lpc, lstatus, answer>>
    <2> DEFINE code == IF c = NoFile THEN Unreadable(ask[l]) ELSE 500
    <2>1. \/ /\ ~Matches(ask[l], e.space)
             /\ UNCHANGED <<lpc, lstatus, answer>>
          \/ /\ Matches(ask[l], e.space)
             /\ c \in Requests
             /\ answer' = [answer EXCEPT ![l] = Append(@, Summary(e, c))]
             /\ UNCHANGED <<lpc, lstatus>>
          \/ /\ Matches(ask[l], e.space)
             /\ c \notin Requests
             /\ IF code = Pending THEN UNCHANGED <<lpc, lstatus>>
                                  ELSE LAnswer(l, "summaries", code)
             /\ UNCHANGED answer
      BY DEF Summarise
    <2>2. c \notin Requests => c = NoFile
      BY <1>3
    <2>3. c = NoFile => IF ask[l].strict THEN code = 422 /\ code # Pending
                                         ELSE code = Pending
      BY DEF Unreadable, Pending
    <2> HIDE DEF c, e, f, rest, code
    <2> QED
      BY <2>1, <2>2, <2>3
  <1> HIDE DEF f, e, c, rest
  <1>5. /\ found'[l] = rest
        /\ found' \in [Listers -> Seq(EntryType)]
        /\ \A k \in Listers \ {l} : found'[k] = found[k]
    BY <1>1, <1>2 DEF ListTypeOK
  <1>6. index' = index /\ \A n \in Namespaces : since'[l][n] <= index'[n].latest
    BY <1>1 DEF vars, disk, ListOf
  <1>7. /\ Met(l)' = Met(l) /\ \A n : Lost(l, n)' <=> Lost(l, n)
        /\ \A s : /\ Fresh(l, s)' <=> Fresh(l, s)
                  /\ Shown(l, s)' <=> Shown(l, s)
    BY <1>1, OwnStep
  <1>8. /\ Distinct(found[l])' /\ Fresh(l, found[l])'
        /\ Spaces(found[l])' = Spaces(rest)
    <2>1. /\ Distinct(found[l])' <=> Distinct(found'[l])
          /\ Spaces(found[l])' = Spaces(found'[l])
      BY DEF Distinct, Spaces
    <2> QED
      BY <1>2, <1>5, <1>7, <2>1
  <1>9. /\ Distinct(answer[l])' <=> Distinct(answer'[l])
        /\ Spaces(answer[l])' = Spaces(answer'[l])
    BY DEF Distinct, Spaces
  <1>10. /\ Listing(l, Spaces(f))
         /\ ask[l].op = "models"
         /\ Spaces(f) \cap Spaces(answer[l]) = {}
    BY <1>1 DEF SummariesOf, f
  <1>11. ASSUME UNCHANGED <<lpc, lstatus, answer>>,
                \/ ~Matches(ask[l], e.space)
                \/ ~ask[l].strict /\ Lost(l, e.space)
         PROVE  ListTypeOK' /\ ListOf(l)' /\ Alone(l)
    <2>1. ListTypeOK' /\ Alone(l)
      BY <1>1, <1>5, <1>11 DEF ListTypeOK, Alone, Idle
    <2>2. SummariesOf(l)'
      BY <1>1, <1>2, <1>7, <1>8, <1>9, <1>10, <1>11
      DEF SummariesOf, Listing
    <2> QED
      BY <1>1, <1>6, <1>11, <2>1, <2>2 DEF ListOf
  <1>12. CASE /\ Matches(ask[l], e.space)
              /\ c \in Requests
              /\ answer' = [answer EXCEPT ![l] = Append(@, Summary(e, c))]
              /\ UNCHANGED <<lpc, lstatus>>
    <2> DEFINE s == Summary(e, c)
    <2>1. /\ s \in EntryType \cup SummaryType
          /\ s.space = e.space /\ s.version = e.version /\ s.fit = c
      BY <1>2, <1>12 DEF Summary, EntryType, SummaryType
    <2> HIDE DEF s
    <2>2. /\ answer'[l] = Append(answer[l], s)
          /\ answer' \in [Listers -> Seq(EntryType \cup SummaryType)]
          /\ \A k \in Listers \ {l} : answer'[k] = answer[k]
      BY <1>1, <1>12, <2>1 DEF ListTypeOK, s
    <2>3. ListTypeOK' /\ Alone(l)
      BY <1>1, <1>5, <1>12, <2>2 DEF ListTypeOK, Alone, Idle
    <2> DEFINE a == Append(answer[l], s)
    <2>4. /\ Distinct(a)
          /\ Spaces(a) = Spaces(answer[l]) \cup {e.space}
          /\ Fresh(l, a)
      BY <1>1, <1>2, <1>10, <2>1, AppendEntry, FreshEntries DEF Listing
    <2>5. Shown(l, a)
      <3>1. c = model[e.space][e.version]
        BY <1>3, <1>12
      <3>2. Shown(l, answer[l])
        BY <1>10 DEF Listing
      <3>3. \A i \in DOMAIN a : \/ i \in DOMAIN answer[l] /\ a[i] = answer[l][i]
                                \/ a[i] = s
        BY <1>1, <2>1
      <3> HIDE DEF a
      <3> QED
        BY <1>12, <2>1, <3>1, <3>2, <3>3 DEF Shown
    <2> HIDE DEF a
    <2>6. answer'[l] = a
      BY <2>2 DEF a
    <2>7. SummariesOf(l)'
      BY <1>1, <1>2, <1>7, <1>8, <1>9, <1>10, <2>4, <2>5, <2>6
      DEF SummariesOf, Listing
    <2> QED
      BY <1>1, <1>6, <1>12, <2>3, <2>7 DEF ListOf
  <1>13. CASE /\ c \notin Requests
              /\ ask[l].strict
              /\ LAnswer(l, "summaries", 422)
              /\ UNCHANGED answer
    <2>1. /\ lpc' \in [Listers -> ListPoints]
          /\ lpc'[l] = "done" /\ lstatus'[l] = 422
          /\ lstatus' \in [Listers -> Codes]
          /\ \A k \in Listers \ {l} : lpc'[k] = lpc[k] /\ lstatus'[k] = lstatus[k]
      BY <1>13 DEF LAnswer, LGoto, ListTypeOK, ListPoints, Ended, Codes
    <2>2. ListTypeOK' /\ Alone(l)
      BY <1>1, <1>5, <1>13, <2>1 DEF ListTypeOK, Alone, Idle
    <2>3. Listing(l, Namespaces)'
      BY <1>7, <1>9, <1>10, <1>13 DEF Listing, Met
    <2>4. \E n \in Namespaces : Lost(l, n)'
      BY <1>2, <1>3, <1>7, <1>13 DEF EntryType
    <2>5. AnswerOf(l)'
      BY <1>1, <1>10, <1>13, <2>1, <2>3, <2>4 DEF AnswerOf
    <2> QED
      BY <1>6, <2>1, <2>2, <2>5 DEF ListOf
  <1> QED
    BY <1>3, <1>4, <1>11, <1>12, <1>13

\* The end of the summaries.
LEMMA SummariesDoneStep ==
  ASSUME ListInv, UNCHANGED vars, NEW l \in Listers, SummariesDone(l)
  PROVE  ListTypeOK' /\ ListOf(l)' /\ Alone(l)
  <1> USE DEF SummariesDone, walk, ListInv
  <1>1. /\ lpc[l] = "summaries" /\ found[l] = <<>>
        /\ SummariesOf(l)
    BY DEF LAnswer, LGoto, ListOf
  <1>2. /\ lpc' \in [Listers -> ListPoints]
        /\ lpc'[l] = "done" /\ lstatus'[l] = 200
        /\ lstatus' \in [Listers -> Codes]
        /\ \A k \in Listers \ {l} : lpc'[k] = lpc[k] /\ lstatus'[k] = lstatus[k]
    BY DEF LAnswer, LGoto, ListTypeOK, ListPoints, Ended, Codes
  <1>3. ListTypeOK' /\ Alone(l)
    BY <1>2 DEF ListTypeOK, Alone, Idle
  <1>4. index' = index /\ \A n \in Namespaces : since'[l][n] <= index'[n].latest
    BY DEF vars, disk, ListOf
  <1>5. Spaces(found[l]) = {}
    BY <1>1 DEF Spaces
  <1>6. /\ Met(l)' = Met(l) /\ \A n : Lost(l, n)' <=> Lost(l, n)
        /\ \A s : /\ Fresh(l, s)' <=> Fresh(l, s)
                  /\ Shown(l, s)' <=> Shown(l, s)
    BY OwnStep
  <1>7. /\ Distinct(answer[l])' <=> Distinct(answer[l])
        /\ Spaces(answer[l])' = Spaces(answer[l])
    BY DEF Distinct, Spaces
  <1>8. Listing(l, {})'
    BY <1>1, <1>5, <1>6, <1>7 DEF SummariesOf, Listing
  <1>9. AnswerOf(l)'
    BY <1>1, <1>2, <1>8 DEF SummariesOf, AnswerOf
  <1> QED
    BY <1>2, <1>3, <1>4, <1>9 DEF ListOf

-----------------------------------------------------------------------------
(* The invariant is inductive *)

\* At first no listing has gathered anything.
LEMMA InitList == LInit => ListInv
  <1> SUFFICES ASSUME LInit PROVE ListInv
    OBVIOUS
  <1> USE DEF LInit
  <1>1. Store!StoreInv /\ Intact
    BY StoreInit
  <1>2. Labels
    BY DEF Labels, Init
  <1>3. (CHOOSE q \in ListMenu : TRUE) \in ListMenu
    BY ListingAssumption
  <1>4. ListTypeOK
    <2>1. losses \in 0 .. MaxLosses
      BY ListingAssumption
    <2> QED
      BY <1>3, <2>1 DEF ListTypeOK, ListPoints, Codes, Pending
  <1>5. \A l \in Listers : ListOf(l)
    BY DEF ListOf, Init, NoIndex
  <1> QED
    BY <1>1, <1>2, <1>4, <1>5 DEF ListInv

\* A step that no listing takes: it leaves each as it is, or loses it.
IdleOrLost(l) == Idle(l) \/ (lpc'[l] = "lost" /\ since'[l] = since[l])

\* Such a step keeps what the others have gathered.
LEMMA OthersStep ==
  ASSUME ListInv, Store!StoreInv', Intact', Grows, Labels', ListTypeOK',
         \A l \in Listers : IdleOrLost(l)
  PROVE  ListInv'
  <1>1. \A n \in Namespaces : index[n].latest \in Nat
    BY StoreFacts DEF ListInv
  <1>2. \A n \in Namespaces : index'[n].latest \in Nat
    <2>1. index' \in [Namespaces -> IndexFile]
      BY StoreNames DEF Store!StoreInv, Store!TypeOK
    <2> QED
      BY <2>1 DEF IndexFile
  <1>3. ASSUME NEW l \in Listers PROVE ListOf(l)'
    <2>1. CASE Idle(l)
      BY <1>1, <1>2, <2>1, ListUndisturbed DEF ListInv
    <2>2. CASE lpc'[l] = "lost" /\ since'[l] = since[l]
      <3>1. ASSUME NEW n \in Namespaces
            PROVE  since'[l][n] <= index'[n].latest
        <4>1. since[l][n] \in Nat /\ since[l][n] <= index[n].latest
              /\ index'[n].latest >= index[n].latest
          BY DEF ListInv, ListTypeOK, ListOf, Grows
        <4> QED
          BY <1>1, <1>2, <2>2, <4>1
      <3> QED
        BY <2>2, <3>1 DEF ListOf
    <2> QED
      BY <2>1, <2>2 DEF IdleOrLost
  <1> QED
    BY <1>3 DEF ListInv

\* A step of a listing leaves the store and the other listings as they are.
LEMMA ListStep ==
  ASSUME ListInv, NEW l \in Listers, List(l), UNCHANGED vars
  PROVE  ListInv'
  <1>1. ListTypeOK' /\ ListOf(l)' /\ Alone(l)
    BY AskStep, RootStep, SeriesStep, SpaceStep, DoneStep, SummariseStep,
       SummariesDoneStep
    DEF List
  <1>2. Store!StoreInv' /\ Intact' /\ Grows
    BY UnchangedStep DEF ListInv
  <1>3. Labels'
    BY LabelsUnchanged DEF ListInv, vars, locals
  <1>4. \A n \in Namespaces :
          index[n].latest \in Nat /\ index'[n].latest \in Nat
    BY StoreFacts DEF ListInv, vars, disk
  <1>5. ASSUME NEW k \in Listers PROVE ListOf(k)'
    <2>1. CASE k = l
      BY <1>1, <2>1
    <2>2. CASE k # l
      <3>1. Idle(k) /\ ListOf(k) /\ ListTypeOK
        BY <1>1, <2>2 DEF Alone, ListInv
      <3> QED
        BY <1>2, <1>4, <3>1, ListUndisturbed
    <2> QED
      BY <2>1, <2>2
  <1> QED
    BY <1>1, <1>2, <1>3, <1>5 DEF ListInv

\* ListInv is inductive.
LEMMA ListNext == ListInv /\ [LNext]_<<vars, lvars>> => ListInv'
  <1> SUFFICES ASSUME ListInv, [LNext]_<<vars, lvars>> PROVE ListInv'
    OBVIOUS
  <1>1. Store!StoreInv /\ Intact /\ Labels /\ ListTypeOK
    BY DEF ListInv
  <1>2. ASSUME UNCHANGED lvars
        PROVE  ListTypeOK' /\ \A l \in Listers : IdleOrLost(l)
    BY <1>1, <1>2 DEF lvars, walk, ListTypeOK, Idle, IdleOrLost
  <1>3. CASE \E r \in Requests :
               (Submit(r) \/ Step(r) \/ WriteFault(r)) /\ UNCHANGED lvars
    <2>1. PICK r \in Requests :
            (Submit(r) \/ Step(r) \/ WriteFault(r)) /\ UNCHANGED lvars
      BY <1>3
    <2>2. Store!StoreInv' /\ Intact' /\ Grows
      BY <1>1, <2>1, HandlerStep
    <2>3. Labels'
      BY <1>1, <2>1, LabelsKept
    <2> QED
      BY <1>2, <2>1, <2>2, <2>3, OthersStep
  <1>4. CASE \E l \in Listers : List(l) /\ UNCHANGED vars
    BY <1>4, ListStep
  <1>5. CASE LoseMetadata
    <2>1. UNCHANGED <<lpc, ask, walk, answer, lstatus, since>>
          /\ losses' = losses + 1 /\ losses < MaxLosses
      BY <1>5 DEF LoseMetadata
    <2>2. ListTypeOK' /\ \A l \in Listers : IdleOrLost(l)
      BY <1>1, <2>1, ListingAssumption
      DEF walk, ListTypeOK, Idle, IdleOrLost
    <2>3. Labels'
      BY <1>1, <1>5, LabelsUnchanged DEF LoseMetadata, locals
    <2>4. Store!StoreInv' /\ Intact' /\ Grows
      BY <1>1, <1>5, LossStep
    <2> QED
      BY <2>2, <2>3, <2>4, OthersStep
  <1>6. CASE RestartAll
    <2>1. /\ Restart
          /\ \A l \in Listers : lpc'[l] \in {lpc[l], "lost"}
          /\ lpc' \in [Listers -> ListPoints]
          /\ UNCHANGED <<ask, walk, answer, lstatus, since, losses>>
      BY <1>1, <1>6 DEF RestartAll, ListTypeOK, ListPoints, Ended
    <2>2. ListTypeOK' /\ \A l \in Listers : IdleOrLost(l)
      BY <1>1, <2>1 DEF walk, ListTypeOK, Idle, IdleOrLost
    <2>3. \A r \in Requests : pc'[r] = "idle" => pc[r] = "idle"
      BY <2>1 DEF Restart
    <2>4. Labels'
      BY <1>1, <2>1, <2>3, LabelsUnchanged DEF Restart, locals
    <2>5. Store!StoreInv' /\ Intact' /\ Grows
      BY <1>1, <2>1, RestartStep
    <2> QED
      BY <2>2, <2>4, <2>5, OthersStep
  <1>7. CASE UNCHANGED <<vars, lvars>>
    <2>1. Labels'
      BY <1>1, <1>7, LabelsUnchanged DEF vars, locals
    <2>2. Store!StoreInv' /\ Intact' /\ Grows
      BY <1>1, <1>7, UnchangedStep
    <2> QED
      BY <1>2, <1>7, <2>1, <2>2, OthersStep
  <1> QED
    BY <1>3, <1>4, <1>5, <1>6, <1>7 DEF LNext, AllEnded

\* The invariant of the store over the whole files, and what each listing has
\* gathered, hold in every reachable state.
THEOREM ListInvariant == LSpec => []ListInv
  BY InitList, ListNext, PTL DEF LSpec

-----------------------------------------------------------------------------
(* What the listings answer *)

\* What the invariant says of an answered listing.
LEMMA AnsweredList ==
  ASSUME ListInv, NEW op, NEW l \in AnsweredLists(op)
  PROVE  /\ l \in Listers /\ AnswerOf(l) /\ ask[l].op = op
         /\ answer[l] \in Seq(EntryType \cup SummaryType)
         /\ Spaces(answer[l]) = Listed(l)
  BY DEF AnsweredLists, ListInv, ListOf, ListTypeOK, Listed, Spaces

\* GET /models fails only in strict mode, and only because of a lost file.
THEOREM ListingFailsAfterLoss == LSpec => []ListingFailsOnLossOnly
  <1>1. ListInv => ListingFailsOnLossOnly
    BY AnsweredList DEF ListingFailsOnLossOnly, AnswerOf
  <1> QED
    BY <1>1, ListInvariant, PTL

\* What GET /models lists is published, matches the filter, is not stale, is
\* listed once, and shows the fit that trained the model.
THEOREM ListingIsTrue == LSpec => []ListingTrue
  <1>1. ListInv => ListingTrue
    <2> SUFFICES ASSUME ListInv, NEW l \in AnsweredLists("models")
                 PROVE  /\ Cardinality(Listed(l)) = Len(answer[l])
                        /\ \A i \in DOMAIN answer[l] :
                             LET e == answer[l][i] IN
                               /\ Matches(ask[l], e.space)
                               /\ e.version \in Published(e.space)
                               /\ e.version >= since[l][e.space]
                               /\ model[e.space][e.version] = e.fit
      BY DEF ListingTrue
    <2>1. /\ answer[l] \in Seq(EntryType \cup SummaryType)
          /\ Spaces(answer[l]) = Listed(l)
          /\ Distinct(answer[l]) /\ Fresh(l, answer[l]) /\ Shown(l, answer[l])
      BY AnsweredList DEF AnswerOf, Listing
    <2>2. Cardinality(Listed(l)) = Len(answer[l])
      BY <2>1, DistinctCount
    <2> QED
      BY <2>1, <2>2 DEF Fresh, Shown
  <1> QED
    BY <1>1, ListInvariant, PTL

\* What was published when GET /models was submitted is listed, but for what a
\* tolerant listing skips because its metadata were lost.
THEOREM ListingIsComplete == LSpec => []ListingComplete
  <1>1. ListInv => ListingComplete
    BY AnsweredList DEF ListingComplete, AnswerOf, Listing, Met
  <1> QED
    BY <1>1, ListInvariant, PTL

\* The members of a sequence are finitely many.
LEMMA RangeFinite ==
  ASSUME NEW S, NEW s \in Seq(S)
  PROVE  IsFiniteSet(Range(s))
  <1>1. Len(s) \in Nat /\ s \in [1 .. Len(s) -> Range(s)]
    BY DEF Range
  <1>2. s \in Surjection(1 .. Len(s), Range(s))
    BY <1>1 DEF Surjection, Range
  <1>3. IsFiniteSet(1 .. Len(s))
    BY <1>1, FS_Interval
  <1> QED
    BY <1>2, <1>3, FS_Surjection

\* There are finitely many namespaces.
LEMMA NamespacesFinite == IsFiniteSet(Namespaces)
  BY ListingAssumption, RangeFinite, FS_Product DEF Namespaces

\* The number GET /healthcheck reports lies between the numbers of (series, detector)
\* models when it was asked and now.  It is no count of series.
THEOREM ModelCountIsBetween == LSpec => []ModelCountBetween
  <1>1. ListInv => ModelCountBetween
    <2> SUFFICES ASSUME ListInv, NEW l \in AnsweredLists("healthcheck")
                 PROVE  /\ lstatus[l] = 200
                        /\ Len(answer[l]) >= Cardinality(Met(l))
                        /\ Len(answer[l]) <=
                             Cardinality({n \in Namespaces : index[n] # NoIndex})
      BY DEF ModelCountBetween, Met
    <2>1. /\ answer[l] \in Seq(EntryType \cup SummaryType)
          /\ lstatus[l] = 200
          /\ Distinct(answer[l]) /\ Fresh(l, answer[l])
          /\ Met(l) \subseteq Spaces(answer[l])
      BY AnsweredList DEF AnswerOf
    <2>2. Spaces(answer[l]) \subseteq {n \in Namespaces : index[n] # NoIndex}
      <3>1. ASSUME NEW i \in DOMAIN answer[l]
            PROVE  /\ answer[l][i].space \in Namespaces
                   /\ index[answer[l][i].space] # NoIndex
        <4>1. /\ answer[l][i].space \in Namespaces
              /\ Published(answer[l][i].space) # {}
          BY <2>1 DEF EntryType, SummaryType, Fresh
        <4> QED
          BY <4>1 DEF Published, NoIndex, Range
      <3> QED
        BY <3>1 DEF Spaces
    <2>3. IsFiniteSet({n \in Namespaces : index[n] # NoIndex})
      BY NamespacesFinite, FS_Subset
    <2>4. /\ IsFiniteSet(Spaces(answer[l]))
          /\ Cardinality(Spaces(answer[l])) = Len(answer[l])
      BY <2>1, DistinctCount
    <2>5. /\ Cardinality(Met(l)) <= Cardinality(Spaces(answer[l]))
          /\ Cardinality(Spaces(answer[l])) <=
               Cardinality({n \in Namespaces : index[n] # NoIndex})
      BY <2>1, <2>2, <2>3, <2>4, FS_Subset
    <2>6. IsFiniteSet(Met(l)) /\ Cardinality(Met(l)) \in Nat
          /\ Len(answer[l]) \in Nat
      BY <2>1, <2>4, FS_Subset, FS_CardinalityType
    <2> QED
      BY <2>1, <2>4, <2>5, <2>6
  <1> QED
    BY <1>1, ListInvariant, PTL
=============================================================================
