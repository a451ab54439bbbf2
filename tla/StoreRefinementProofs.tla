------------------------ MODULE StoreRefinementProofs ------------------------
(***************************************************************************)
(* ModelStore implements ModelRegistry, proved for any number of requests, *)
(* series, versions, restarts and failing writes.  The one step that moves *)
(* the lineages is the os.replace of index.json, and the justification of  *)
(* an answer is the invariant of the state it is given in.                 *)
(***************************************************************************)
EXTENDS StoreRefinement, ModelStoreProofs

-----------------------------------------------------------------------------
(* The mapping *)

\* The length of a sequence given by its elements.
LEMMA LengthOf ==
  ASSUME NEW k \in Nat, NEW f, DOMAIN f = 1 .. k, f \in Seq(Content)
  PROVE  Len(f) = k
  <1>1. Len(f) \in Nat /\ DOMAIN f = 1 .. Len(f)
    BY LenProperties
  <1> QED
    BY <1>1

\* The lineage of a namespace has one entry for every published version.
LEMMA LineageFacts ==
  StoreInv =>
    \A n \in Namespaces :
      /\ index[n].latest \in Nat
      /\ Published(n) = 1 .. index[n].latest
      /\ DOMAIN absLineage[n] = 1 .. index[n].latest
      /\ Len(absLineage[n]) = index[n].latest
      /\ absLineage[n] \in Seq(Content)
      /\ \A v \in 1 .. index[n].latest : absLineage[n][v] = model[n][v]
  <1> SUFFICES ASSUME StoreInv, NEW n \in Namespaces
               PROVE  /\ index[n].latest \in Nat
                      /\ Published(n) = 1 .. index[n].latest
                      /\ DOMAIN absLineage[n] = 1 .. index[n].latest
                      /\ Len(absLineage[n]) = index[n].latest
                      /\ absLineage[n] \in Seq(Content)
                      /\ \A v \in 1 .. index[n].latest :
                           absLineage[n][v] = model[n][v]
    OBVIOUS
  <1> DEFINE k == index[n].latest
             f == [v \in 1 .. k |-> model[n][v]]
  <1>1. k \in Nat /\ Published(n) = 1 .. k
    BY PublishedRange DEF StoreInv
  <1>2. absLineage[n] = f
    BY DEF absLineage
  <1>3. \A v \in 1 .. k : model[n][v] \in Content
    BY <1>1, PublishedWhole DEF Content
  <1>4. f \in Seq(Content)
    <2>1. f \in [1 .. k -> Content]
      BY <1>3
    <2> QED
      BY <1>1, <2>1, SeqDef
  <1>5. DOMAIN f = 1 .. k
    OBVIOUS
  <1>6. Len(f) = k
    BY <1>1, <1>4, <1>5, LengthOf
  <1> QED
    BY <1>1, <1>2, <1>4, <1>5, <1>6

\* A wish is a function of what a request asked for, and of whether it did.
LEMMA WishKept ==
  ASSUME NEW q \in Requests, req'[q] = req[q], floor'[q] = floor[q],
         pc'[q] = "idle" <=> pc[q] = "idle"
  PROVE  /\ NS(q)' = NS(q)
         /\ Covered(q)' <=> Covered(q)
         /\ absWish'[q] = absWish[q]
  <1>1. NS(q)' = NS(q)
    BY DEF NS
  <1>2. Covered(q)' <=> Covered(q)
    BY <1>1 DEF Covered
  <1> QED
    BY <1>1, <1>2 DEF absWish

\* Agreement on every request is equality of the mapped variables.
LEMMA Extensional ==
  /\ (\A q \in Requests : absWish'[q] = absWish[q]) => absWish' = absWish
  /\ (\A q \in Requests : absServed'[q] = absServed[q]) => absServed' = absServed
  <1>1. /\ absWish' = [q \in Requests |-> absWish'[q]]
        /\ absServed' = [q \in Requests |-> absServed'[q]]
    BY DEF absWish, absServed
  <1>2. /\ absWish = [q \in Requests |-> absWish[q]]
        /\ absServed = [q \in Requests |-> absServed[q]]
    BY DEF absWish, absServed
  <1>3. ASSUME \A q \in Requests : absWish'[q] = absWish[q]
        PROVE  absWish' = absWish
    <2>1. [q \in Requests |-> absWish'[q]] = [q \in Requests |-> absWish[q]]
      BY <1>3
    <2> QED
      BY <1>1, <1>2, <2>1
  <1>4. ASSUME \A q \in Requests : absServed'[q] = absServed[q]
        PROVE  absServed' = absServed
    <2>1. [q \in Requests |-> absServed'[q]] = [q \in Requests |-> absServed[q]]
      BY <1>4
    <2> QED
      BY <1>1, <1>2, <2>1
  <1> QED
    BY <1>3, <1>4

\* A request that does not move keeps its wish and its answer.
LEMMA ApartKept ==
  ASSUME NEW q \in Requests, Same(q)
  PROVE  absWish'[q] = absWish[q] /\ absServed'[q] = absServed[q]
  <1>1. absWish'[q] = absWish[q] /\ (Covered(q)' <=> Covered(q))
    BY WishKept DEF Same
  <1> QED
    BY <1>1 DEF Same, absServed

\* The lineages move with index.json only: the files of what is published stay.
LEMMA LineageKept ==
  ASSUME StoreInv, [Next]_vars, index' = index
  PROVE  absLineage' = absLineage
  <1>1. ASSUME NEW n \in Namespaces
        PROVE  \A v \in 1 .. index[n].latest : model'[n][v] = model[n][v]
    BY <1>1, PublishedGrows, LineageFacts
  <1>2. \A n \in Namespaces :
          [v \in 1 .. index'[n].latest |-> model'[n][v]]
            = [v \in 1 .. index[n].latest |-> model[n][v]]
    BY <1>1
  <1> QED
    BY <1>2 DEF absLineage

-----------------------------------------------------------------------------
(* The steps *)

\* Submission is the step that asks, or is invisible.
LEMMA SubmitAsks ==
  ASSUME StoreInv, NEW r \in Requests, Submit(r)
  PROVE  Registry!Ask(r) \/ UNCHANGED Registry!rvars
  <1>1. TypeOK /\ [Next]_vars /\ RoleOf(r)
    BY DEF StoreInv, Next
  <1>2. /\ pc[r] = "idle" /\ pc'[r] # "idle"
        /\ index' = index
        /\ req'[r] \in Menu
        /\ NS(r)' \in Namespaces => floor'[r] = index[NS(r)'].latest
        /\ status[r] # 200 /\ status'[r] # 200
    <2>1. PICK q \in Menu :
            /\ SubmitWith(r, q)
            /\ pc[r] = "idle"
            /\ pc'[r] \in {"acquire", "resolve", "done"}
            /\ status'[r] \in {status[r], 400, 422}
      BY <1>1 DEF Submit, Accept, Reject, Goto, Answer, TypeOK
    <2>2. req'[r] = q /\ index' = index
          /\ NS(r)' = Space(q)
          /\ floor'[r] = IF Space(q) \in Namespaces THEN index[Space(q)].latest
                                                    ELSE 0
      BY <1>1, <2>1 DEF SubmitWith, TypeOK, NS, disk
    <2>3. status[r] = Pending
      BY <1>1, <2>1 DEF RoleOf
    <2> QED
      BY <2>1, <2>2, <2>3 DEF Pending
  <1>3. absLineage' = absLineage
    BY <1>1, <1>2, LineageKept
  <1>4. \A q \in Requests \ {r} :
          absWish'[q] = absWish[q] /\ absServed'[q] = absServed[q]
    BY <1>1, SubmitApart, ApartKept DEF Apart
  <1>5. absServed' = absServed
    <2>1. absServed[r] = {} /\ absServed'[r] = {}
      BY <1>2 DEF absServed
    <2> QED
      BY <1>4, <2>1, Extensional
  <1>6. absWish[r] = NotBegun
    BY <1>2 DEF absWish, Covered
  <1>7. CASE Covered(r)'
    <2> DEFINE n == NS(r)'
               k == IF req'[r].op = "fit" THEN "fit" ELSE "read"
               w == req'[r].want
    <2>1. n \in Namespaces /\ w <= floor'[r]
      BY <1>7 DEF Covered
    <2>2. floor'[r] = Registry!Latest(n) /\ Registry!Latest(n) \in Nat
      BY <1>2, <2>1, LineageFacts DEF Registry!Latest
    <2>3. w \in 0 .. Registry!Latest(n)
      BY <1>2, <2>1, <2>2, MenuAssumption DEF RequestType
    <2>4. absWish'[r] = [kind |-> k, space |-> n, want |-> w,
                         since |-> Registry!Latest(n)]
      BY <1>7, <2>2 DEF absWish
    <2>5. absWish' = [absWish EXCEPT ![r] =
                        [kind |-> k, space |-> n, want |-> w,
                         since |-> Registry!Latest(n)]]
      BY <1>4, <2>4 DEF absWish
    <2>6. k \in {"fit", "read"}
      OBVIOUS
    <2> QED
      BY <1>3, <1>5, <1>6, <2>1, <2>3, <2>5, <2>6 DEF Registry!Ask
  <1>8. CASE ~Covered(r)'
    <2>1. absWish'[r] = NotBegun
      BY <1>8 DEF absWish
    <2>2. absWish' = absWish
      BY <1>4, <1>6, <2>1, Extensional
    <2> QED
      BY <1>3, <1>5, <2>2 DEF Registry!rvars
  <1> QED
    BY <1>7, <1>8

\* A covered request has asked, for something that is not NotBegun.
LEMMA CoveredWish ==
  ASSUME StoreInv, NEW r \in Requests, Covered(r)
  PROVE  /\ absWish[r] # NotBegun
         /\ absWish[r].kind = IF req[r].op = "fit" THEN "fit" ELSE "read"
         /\ absWish[r].space = NS(r)
         /\ absWish[r].want = req[r].want
         /\ absWish[r].since = floor[r]
  <1>1. absWish[r] = [kind |-> IF req[r].op = "fit" THEN "fit" ELSE "read",
                      space |-> NS(r), want |-> req[r].want,
                      since |-> floor[r]]
    BY DEF absWish
  <1>2. req[r].want \in Nat /\ floor[r] \in Nat /\ NS(r) \in Namespaces
    BY MenuAssumption DEF StoreInv, TypeOK, RequestType, Covered
  <1>3. absWish[r] \in Registry!Wish
    BY <1>1, <1>2 DEF Registry!Wish
  <1> QED
    BY <1>1, <1>3, NotBegunAssumption

\* Whoever answers 200 to a request the registry speaks about, answers with an
\* entry of the lineage that is right for what the request asked.
RightAnswer(r) ==
  /\ ver[r] \in 1 .. index[NS(r)].latest
  /\ req[r].op = "fit" => model[NS(r)][ver[r]] = r
  /\ req[r].op # "fit" =>
       /\ prov[r] = {model[NS(r)][ver[r]]}
       /\ IF req[r].want = 0 THEN ver[r] >= floor[r] ELSE ver[r] = req[r].want

AnswersRight ==
  \A r \in Requests : Covered(r) /\ status[r] = 200 => RightAnswer(r)

\* For a fit this is durability, for a read what ReadsInv knows of its end.
LEMMA AnswersAreRight == StoreInv /\ ReadsInv => AnswersRight
  <1> SUFFICES ASSUME StoreInv, ReadsInv, NEW r \in Requests,
                      Covered(r), status[r] = 200
               PROVE  RightAnswer(r)
    BY DEF AnswersRight
  <1>1. /\ NS(r) \in Namespaces /\ req[r].want <= floor[r]
        /\ Published(NS(r)) = 1 .. index[NS(r)].latest
    BY LineageFacts DEF Covered
  <1>2. pc[r] = "done"
    BY DEF StoreInv, RoleOf, Pending
  <1>3. CASE req[r].op = "fit"
    <2>1. ver[r] \in Published(NS(r)) /\ model[NS(r)][ver[r]] = r
      BY <1>3 DEF StoreInv, FitDurable, Durable
    <2> QED
      BY <1>1, <1>3, <2>1 DEF RightAnswer
  <1>4. CASE req[r].op # "fit"
    <2>1. Served(r)
      BY <1>1, <1>2, <1>4 DEF ReadsInv, ReadOf
    <2>2. /\ FromPublished(r)
          /\ IF req[r].want = 0 THEN ver[r] >= floor[r] ELSE ver[r] = req[r].want
      BY <2>1 DEF Served
    <2> QED
      BY <1>1, <1>4, <2>2 DEF FromPublished, RightAnswer
  <1> QED
    BY <1>3, <1>4

\* Answering is the step that serves, or is invisible: for a step of a handler
\* that is on its way and moves no lineage.
LEMMA AnswerServes ==
  ASSUME StoreInv, StoreInv', AnswersRight', NEW r \in Requests, Apart(r),
         absLineage' = absLineage, req'[r] = req[r], floor'[r] = floor[r],
         pc[r] # "idle", pc'[r] # "idle", pc[r] # "done"
  PROVE  Registry!Serve(r) \/ UNCHANGED Registry!rvars
  <1>1. /\ Covered(r)' <=> Covered(r)
        /\ absWish'[r] = absWish[r]
        /\ NS(r)' = NS(r)
    BY WishKept
  <1>2. \A q \in Requests \ {r} :
          absWish'[q] = absWish[q] /\ absServed'[q] = absServed[q]
    BY ApartKept DEF Apart
  <1>3. absWish' = absWish
    BY <1>1, <1>2, Extensional
  <1>4. absServed[r] = {}
    BY DEF StoreInv, RoleOf, Pending, absServed
  <1>5. CASE Covered(r) /\ status'[r] = 200
    <2> DEFINE n == NS(r)
               v == ver'[r]
               fit == absLineage[n][v]
               a == [version |-> v, fits |-> {fit}]
    <2>1. RightAnswer(r)'
      BY <1>1, <1>5 DEF AnswersRight
    <2>2. /\ v \in 1 .. index'[n].latest
          /\ req[r].op = "fit" => model'[n][v] = r
          /\ req[r].op # "fit" =>
               /\ prov'[r] = {model'[n][v]}
               /\ IF req[r].want = 0 THEN v >= floor[r] ELSE v = req[r].want
      BY <1>1, <2>1 DEF RightAnswer
    <2>3. n \in Namespaces
      BY <1>5 DEF Covered
    <2>4. v \in DOMAIN absLineage[n] /\ fit = model'[n][v]
      <3>1. /\ DOMAIN absLineage'[n] = 1 .. index'[n].latest
            /\ \A u \in 1 .. index'[n].latest : absLineage'[n][u] = model'[n][u]
        BY <2>3 DEF absLineage
      <3> QED
        BY <2>2, <3>1
    <2>5. /\ absWish[r] # NotBegun
          /\ absWish[r].kind = IF req[r].op = "fit" THEN "fit" ELSE "read"
          /\ absWish[r].space = n
          /\ absWish[r].want = req[r].want
          /\ absWish[r].since = floor[r]
      BY <1>5, CoveredWish
    <2>6. absServed'[r] = {a}
      <3>1. absServed'[r] = {[version |-> v,
                              fits |-> IF req'[r].op = "fit" THEN {r}
                                                             ELSE prov'[r]]}
        BY <1>1, <1>5 DEF absServed
      <3> QED
        BY <2>2, <2>4, <3>1
    <2>7. absServed' = [absServed EXCEPT ![r] = {a}]
      <3>1. \A q \in Requests :
              absServed'[q] = [absServed EXCEPT ![r] = {a}][q]
        <4>1. \A q \in Requests \ {r} : absServed'[q] = absServed[q]
          BY <1>2 DEF absServed
        <4>2. DOMAIN absServed = Requests
          BY DEF absServed
        <4> QED
          BY <2>6, <4>1, <4>2
      <3> QED
        BY <3>1 DEF absServed
    <2>8. IF absWish[r].kind = "fit" THEN fit = r
          ELSE IF absWish[r].want = 0 THEN v >= absWish[r].since
          ELSE v = absWish[r].want
      BY <2>2, <2>4, <2>5
    <2> QED
      BY <1>3, <1>4, <2>4, <2>5, <2>7, <2>8 DEF Registry!Serve
  <1>6. CASE ~(Covered(r) /\ status'[r] = 200)
    <2>1. absServed'[r] = {}
      BY <1>1, <1>6 DEF absServed
    <2>2. absServed' = absServed
      BY <1>2, <1>4, <2>1, Extensional
    <2> QED
      BY <1>3, <2>2 DEF Registry!rvars
  <1> QED
    BY <1>5, <1>6

\* A sequence given by its elements, with one element more.
LEMMA OneMore ==
  ASSUME NEW k \in Nat, NEW F
  PROVE  [v \in 1 .. (k + 1) |-> F[v]] = Append([v \in 1 .. k |-> F[v]], F[k + 1])
  OBVIOUS

\* The replacement of index.json commits the fit, once: its version is the one
\* after the latest, and no lineage holds the fit yet.
LEMMA ReplaceCommits ==
  ASSUME StoreInv, NEW r \in Requests, Replace(r)
  PROVE  Registry!Commit(r)
  <1> DEFINE n == NS(r)
             k == index[n].latest
  <1>1. TypeOK /\ [Next]_vars
    BY DEF StoreInv, Next, Step, Fit
  <1>2. /\ n \in Namespaces
        /\ req[r].op = "fit"
        /\ pc[r] = "replace" /\ pc'[r] = "release"
        /\ ver[r] = k + 1
        /\ model[n][ver[r]] = r
        /\ index'[n].latest = ver[r]
        /\ \A m \in Namespaces \ {n} : index'[m] = index[m]
    BY ReplaceEffect
  <1>3. /\ UNCHANGED <<model, status, req, ver, prov, floor>>
        /\ \A q \in Requests \ {r} : pc'[q] = pc[q]
    BY <1>1 DEF Replace, Goto, TypeOK, locals
  <1>4. k \in Nat
    BY <1>2, LineageFacts
  <1>5. absWish' = absWish /\ absServed' = absServed
    <2>1. \A q \in Requests : Covered(q)' <=> Covered(q)
      BY <1>2, <1>3, WishKept
    <2>2. \A q \in Requests : absWish'[q] = absWish[q]
      BY <1>2, <1>3, WishKept
    <2>3. \A q \in Requests : absServed'[q] = absServed[q]
      BY <1>3, <2>1 DEF absServed
    <2> QED
      BY <2>2, <2>3, Extensional
  <1>6. Covered(r)
    <2>1. req[r].want = 0 /\ floor[r] \in Nat
      BY <1>1, <1>2, MenuAssumption DEF TypeOK
    <2> QED
      BY <1>2, <2>1 DEF Covered
  <1>7. ASSUME NEW m \in Namespaces
        PROVE  r \notin Range(absLineage[m])
    <2> SUFFICES ASSUME NEW v \in 1 .. index[m].latest, absLineage[m][v] = r
                 PROVE  FALSE
      BY <1>7, LineageFacts DEF Range
    <2>1. v \in Published(m) /\ model[m][v] = r
      BY LineageFacts
    <2>2. m = n /\ ver[r] = v
      BY <2>1 DEF StoreInv, PublishedComplete
    <2> QED
      BY <1>2, <1>4, <2>2
  <1>8. absLineage' = [absLineage EXCEPT ![n] = Append(@, r)]
    <2>1. absLineage'[n] = Append(absLineage[n], r)
      <3>1. absLineage'[n] = [v \in 1 .. (k + 1) |-> model[n][v]]
        BY <1>2, <1>3 DEF absLineage
      <3>2. absLineage[n] = [v \in 1 .. k |-> model[n][v]]
        BY <1>2 DEF absLineage
      <3>3. [v \in 1 .. (k + 1) |-> model[n][v]]
              = Append([v \in 1 .. k |-> model[n][v]], model[n][k + 1])
        BY <1>4, OneMore
      <3> QED
        BY <1>2, <3>1, <3>2, <3>3
    <2>2. \A m \in Namespaces \ {n} : absLineage'[m] = absLineage[m]
      BY <1>2, <1>3 DEF absLineage
    <2>3. \A m \in Namespaces :
            absLineage'[m] = [absLineage EXCEPT ![n] = Append(@, r)][m]
      BY <2>1, <2>2 DEF absLineage
    <2> QED
      BY <2>3 DEF absLineage
  <1>9. /\ absWish[r] # NotBegun
        /\ absWish[r].kind = "fit"
        /\ absWish[r].space = n
    BY <1>2, <1>6, CoveredWish
  <1> QED
    BY <1>5, <1>7, <1>8, <1>9 DEF Registry!Commit, Registry!Range, Range

\* A restart drops handlers, and answers nobody.
LEMMA RestartIsInvisible ==
  ASSUME StoreInv, Restart
  PROVE  UNCHANGED Registry!rvars
  <1>1. TypeOK /\ [Next]_vars
    BY DEF StoreInv, Next
  <1>2. /\ UNCHANGED <<index, status, req, ver, prov, floor>>
        /\ \A q \in Requests : pc'[q] = "idle" <=> pc[q] = "idle"
    BY DEF Restart, locals, disk
  <1>3. \A q \in Requests : absWish'[q] = absWish[q]
    BY <1>2, WishKept
  <1>4. \A q \in Requests : Covered(q)' <=> Covered(q)
    BY <1>2, WishKept
  <1>5. \A q \in Requests : absServed'[q] = absServed[q]
    BY <1>2, <1>4 DEF absServed
  <1>6. absLineage' = absLineage
    BY <1>1, <1>2, LineageKept
  <1> QED
    BY <1>3, <1>5, <1>6, Extensional DEF Registry!rvars

\* Every other step of a handler answers, or is invisible.
LEMMA HandlerServes ==
  ASSUME StoreInv, StoreInv', AnswersRight', NEW r \in Requests,
         Step(r) \/ WriteFault(r), ~Replace(r)
  PROVE  Registry!Serve(r) \/ UNCHANGED Registry!rvars
  <1>1. [Next]_vars
    BY DEF Next
  <1>2. CASE Read(r)
    <2>1. ReadFrame(r)
      BY <1>2, ReadIsFramed DEF StoreInv
    <2>2. /\ index' = index /\ req' = req /\ floor' = floor
          /\ pc[r] \in ReadSteps /\ pc'[r] \in ReadSteps \cup {"done"}
      BY <2>1 DEF ReadFrame
    <2>3. absLineage' = absLineage
      BY <1>1, <2>2, LineageKept
    <2>4. Apart(r)
      BY <1>2, ReadApart
    <2> QED
      BY <2>2, <2>3, <2>4, AnswerServes DEF ReadSteps
  <1>3. CASE Fit(r) \/ WriteFault(r) \/ RefuseSeries(r)
    <2>1. /\ Apart(r) /\ req'[r] = req[r] /\ floor'[r] = floor[r]
          /\ pc[r] # "idle" /\ pc'[r] # "idle"
      BY <1>3, FitApart
    <2>2. index' = index
      BY <1>3
      DEF disk, Fit, WriteFault, RefuseSeries, Acquire, NextVersion, Mkdir,
          OpenModel, DumpModel, SetModel, OpenMeta, WriteMeta, SetMeta,
          ReadIndex, OpenTmp, WriteTmp, SetTmp, Release
    <2>3. pc[r] # "done"
      BY <1>3
      DEF Fit, WriteFault, FaultSteps, Critical, WriteSteps, RefuseSeries,
          Acquire, NextVersion, Mkdir, OpenModel, DumpModel, SetModel, OpenMeta, WriteMeta, SetMeta,
          ReadIndex, OpenTmp, WriteTmp, SetTmp, Release, Goto, Answer
    <2>4. absLineage' = absLineage
      BY <1>1, <2>2, LineageKept
    <2> QED
      BY <2>1, <2>3, <2>4, AnswerServes
  <1> QED
    BY <1>2, <1>3 DEF Step

-----------------------------------------------------------------------------
(* The refinement *)

\* An empty storage directory is an empty registry.
LEMMA RefinementInit == Init => Registry!RegInit
  <1> SUFFICES ASSUME Init PROVE Registry!RegInit
    OBVIOUS
  <1>1. \A n \in Namespaces : absLineage[n] = <<>>
    <2> SUFFICES ASSUME NEW n \in Namespaces PROVE absLineage[n] = <<>>
      OBVIOUS
    <2>1. index[n].latest = 0
      BY DEF Init, NoIndex
    <2>2. absLineage[n] = [v \in 1 .. 0 |-> model[n][v]]
      BY <2>1 DEF absLineage
    <2> QED
      BY <2>2
  <1>2. absLineage = [n \in Namespaces |-> <<>>]
    BY <1>1 DEF absLineage
  <1>3. absWish = [r \in Requests |-> NotBegun]
    BY DEF Init, absWish, Covered
  <1>4. absServed = [r \in Requests |-> {}]
    BY DEF Init, absServed, Covered
  <1> QED
    BY <1>2, <1>3, <1>4 DEF Registry!RegInit

\* Every step of the store is a step of the registry, or a stutter.
LEMMA RefinementStep ==
  StoreInv /\ StoreInv' /\ AnswersRight' /\ [Next]_vars
    => [Registry!RegNext]_(Registry!rvars)
  <1> SUFFICES ASSUME StoreInv, StoreInv', AnswersRight', [Next]_vars
               PROVE  [Registry!RegNext]_(Registry!rvars)
    OBVIOUS
  <1>1. CASE UNCHANGED vars
    <2>1. \A q \in Requests : Same(q)
      BY <1>1 DEF vars, locals, Same
    <2>2. \A q \in Requests :
            absWish'[q] = absWish[q] /\ absServed'[q] = absServed[q]
      BY <2>1, ApartKept
    <2>3. absLineage' = absLineage
      BY <1>1, LineageKept DEF vars, disk
    <2> QED
      BY <2>2, <2>3, Extensional DEF Registry!rvars
  <1>2. CASE \E r \in Requests : Submit(r)
    BY <1>2, SubmitAsks DEF Registry!RegNext
  <1>3. CASE \E r \in Requests : Replace(r)
    BY <1>3, ReplaceCommits DEF Registry!RegNext
  <1>4. CASE \E r \in Requests : (Step(r) \/ WriteFault(r)) /\ ~Replace(r)
    BY <1>4, HandlerServes DEF Registry!RegNext
  <1>5. CASE Restart
    BY <1>5, RestartIsInvisible
  <1>6. CASE Terminating
    BY <1>1, <1>6 DEF Terminating
  <1> QED
    BY <1>1, <1>2, <1>3, <1>4, <1>5, <1>6 DEF Next

\* What the store promises its clients: every behaviour of its files, locks,
\* failures and restarts is one of the registry, which has none of them.
THEOREM StoreImplementsRegistry == Spec => ImplementsRegistry
  <1>1. Init => Registry!RegInit
    BY RefinementInit
  <1>2. StoreInv /\ StoreInv' /\ AnswersRight' /\ [Next]_vars
          => [Registry!RegNext]_(Registry!rvars)
    BY RefinementStep
  <1>3. StoreInv /\ ReadsInv => AnswersRight
    BY AnswersAreRight
  <1> QED
    BY <1>1, <1>2, <1>3, StoreInvariant, ReadsInvariant, PTL
    DEF Spec, ImplementsRegistry, Registry!RegSpec

\* An answer stays true whatever follows, and no training is published twice.
THEOREM RegistryHolds == Spec => []RegistryInv
  <1>1. StoreInv /\ AnswersRight => Registry!AnswersStayTrue
    <2> SUFFICES ASSUME StoreInv, AnswersRight, NEW c \in Requests,
                        NEW a \in absServed[c]
                 PROVE  /\ a.version \in DOMAIN absLineage[absWish[c].space]
                        /\ a.fits = {absLineage[absWish[c].space][a.version]}
      BY DEF Registry!AnswersStayTrue
    <2>1. Covered(c) /\ status[c] = 200
      BY DEF absServed
    <2>2. a = [version |-> ver[c],
               fits |-> IF req[c].op = "fit" THEN {c} ELSE prov[c]]
      BY <2>1 DEF absServed
    <2>3. RightAnswer(c)
      BY <2>1 DEF AnswersRight
    <2>4. absWish[c].space = NS(c) /\ NS(c) \in Namespaces
      BY <2>1, CoveredWish DEF Covered
    <2>5. /\ ver[c] \in DOMAIN absLineage[NS(c)]
          /\ absLineage[NS(c)][ver[c]] = model[NS(c)][ver[c]]
      BY <2>3, <2>4, LineageFacts DEF RightAnswer
    <2> QED
      BY <2>2, <2>3, <2>4, <2>5 DEF RightAnswer
  <1>2. StoreInv => Registry!CommittedOnce
    <2> SUFFICES ASSUME StoreInv, NEW m \in Namespaces, NEW n \in Namespaces,
                        NEW i \in DOMAIN absLineage[m],
                        NEW j \in DOMAIN absLineage[n],
                        absLineage[m][i] = absLineage[n][j]
                 PROVE  m = n /\ i = j
      BY DEF Registry!CommittedOnce
    <2>1. /\ i \in Published(m) /\ absLineage[m][i] = model[m][i]
          /\ j \in Published(n) /\ absLineage[n][j] = model[n][j]
      BY LineageFacts
    <2>2. /\ NS(model[m][i]) = m /\ ver[model[m][i]] = i
          /\ NS(model[n][j]) = n /\ ver[model[n][j]] = j
      BY <2>1 DEF StoreInv, PublishedComplete
    <2> QED
      BY <2>1, <2>2
  <1>3. StoreInv /\ ReadsInv => RegistryInv
    BY <1>1, <1>2, AnswersAreRight DEF RegistryInv
  <1> QED
    BY <1>3, StoreInvariant, ReadsInvariant, PTL
=============================================================================
