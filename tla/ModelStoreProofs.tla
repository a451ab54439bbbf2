--------------------------- MODULE ModelStoreProofs ---------------------------
(***************************************************************************)
(* Proofs about ModelStore, for any number of requests, series, detectors, *)
(* versions, restarts and failing writes.  StoreInv is inductive, and the  *)
(* theorems about fits are read off it; the second part proves ReadsInv    *)
(* inductive relative to it.                                               *)
(***************************************************************************)
EXTENDS ModelStore, TLAPS, SequenceTheorems

\* A gapless list of versions, and what publishing the next one makes of it.
LEMMA GaplessRange ==
  ASSUME NEW k \in Nat, NEW f, f = [i \in 1 .. k |-> i]
  PROVE  Range(f) = 1 .. k
  BY DEF Range

\* Appending k + 1 to 1, ..., k leaves no gap.
LEMMA GaplessAppend ==
  ASSUME NEW k \in Nat
  PROVE  Append([i \in 1 .. k |-> i], k + 1) = [i \in 1 .. (k + 1) |-> i]
  OBVIOUS

\* Publish, applied to a gapless index and the next version, makes a gapless
\* index that has one entry more.
LEMMA PublishNext ==
  ASSUME NEW i \in IndexFile,
         i.versions = [j \in 1 .. i.latest |-> j]
  PROVE  LET p == Publish(i, i.latest + 1) IN
           /\ p \in IndexFile
           /\ p.latest = i.latest + 1
           /\ p.versions = [j \in 1 .. p.latest |-> j]
           /\ p.versions = Append(i.versions, p.latest)
  <1> DEFINE k == i.latest
  <1>1. k \in Nat /\ i.versions \in Seq(Nat)
    BY DEF IndexFile
  <1>2. k + 1 \notin Range(i.versions)
    BY <1>1, GaplessRange
  <1>3. Append(i.versions, k + 1) \in Seq(Nat)
    BY <1>1
  <1>4. Append(i.versions, k + 1) = [j \in 1 .. (k + 1) |-> j]
    BY <1>1, GaplessAppend
  <1> DEFINE a == Append(i.versions, k + 1)
             p == [latest |-> k + 1, versions |-> a]
  <1>5. Publish(i, k + 1) = p
    BY <1>2 DEF Publish
  <1> HIDE DEF a
  <1>6. p \in IndexFile
    BY <1>1, <1>3 DEF IndexFile, a
  <1>7. p.versions = [j \in 1 .. p.latest |-> j]
    BY <1>4 DEF a
  <1>8. p.latest = k + 1 /\ p.versions = Append(i.versions, p.latest)
    BY DEF a
  <1> HIDE DEF p
  <1> QED
    BY <1>5, <1>6, <1>7, <1>8

\* Under Contiguous the published versions of a namespace are 1 .. latest.
LEMMA PublishedRange ==
  ASSUME TypeOK, Contiguous, NEW n \in Namespaces
  PROVE  /\ index[n].latest \in Nat
         /\ Published(n) = 1 .. index[n].latest
  <1>1. index[n].latest \in Nat
    BY DEF TypeOK, IndexFile
  <1> QED
    BY <1>1, GaplessRange DEF Contiguous, Published

\* The empty storage directory satisfies the invariant.
LEMMA InitInv == Init => StoreInv
  <1> SUFFICES ASSUME Init PROVE StoreInv
    OBVIOUS
  <1> USE ConstantsAssumption, MenuAssumption, MarksAssumption DEF Init
  <1>1. NoIndex \in IndexFile /\ Range(NoIndex.versions) = {}
    BY DEF NoIndex, IndexFile, Range
  <1>2. TypeOK
    <2>1. (CHOOSE m \in Menu : TRUE) \in Menu
      BY MenuAssumption
    <2> QED
      BY <1>1, <2>1 DEF TypeOK, Content, Points, Codes, Pending
  <1>3. LockDiscipline
    BY DEF LockDiscipline, Critical, WriteSteps
  <1>4. \A r \in Requests : RoleOf(r)
    BY DEF RoleOf, Critical, WriteSteps, ReadSteps, Pending
  <1>5. \A r \in Requests : SaveOf(r)
    BY DEF SaveOf, Saving, AfterMkdir, AfterModel, AfterMeta, AfterDraft,
           Critical, WriteSteps
  <1>6. Authors
    BY DEF Authors
  <1>7. Contiguous
    BY DEF Contiguous, NoIndex
  <1>8. PublishedComplete
    BY <1>1 DEF PublishedComplete, Published
  <1>9. FitDurable
    BY DEF FitDurable, Durable, Pending
  <1> QED
    BY <1>2, <1>3, <1>4, <1>5, <1>6, <1>7, <1>8, <1>9 DEF StoreInv

-----------------------------------------------------------------------------
(* What a fit may rely on while it holds the lock *)

\* Two fits of one namespace are never both inside the critical section.
LEMMA OneWriter ==
  ASSUME LockDiscipline, TypeOK, NEW r \in Requests, NEW q \in Requests,
         pc[r] \in Critical, pc[q] \in Critical, req[q].series = req[r].series
  PROVE  q = r
  <1>1. req[r].series \in Series
    BY MenuAssumption DEF TypeOK, RequestType
  <1> QED
    BY <1>1 DEF LockDiscipline

\* A fit that has a label works on a safe series, and is alone in its
\* namespace: the lock of a series covers all its detectors.
LEMMA SavingSpace ==
  ASSUME StoreInv, NEW r \in Requests, pc[r] \in Critical \ {"nextVersion"}
  PROVE  /\ NS(r) \in Namespaces
         /\ req[r].op = "fit"
         /\ \A q \in Requests :
              pc[q] \in Critical /\ NS(q) = NS(r) => q = r
  <1>1. NS(r) \in Namespaces /\ req[r].op = "fit"
    BY DEF StoreInv, RoleOf, NS, Space, Namespaces
  <1>2. ASSUME NEW q \in Requests, pc[q] \in Critical, NS(q) = NS(r)
        PROVE  q = r
    BY <1>2, OneWriter DEF StoreInv, NS, Space
  <1> QED
    BY <1>1, <1>2

\* The version a save works on is not published.
LEMMA SavingFresh ==
  ASSUME StoreInv, NEW r \in Requests, pc[r] \in Saving
  PROVE  /\ ver[r] \in Versions
         /\ ver[r] = index[NS(r)].latest + 1
         /\ ver[r] \notin Published(NS(r))
  <1>1. pc[r] \in Critical \ {"nextVersion"}
    BY DEF Saving
  <1>2. NS(r) \in Namespaces
    BY <1>1, SavingSpace
  <1>3. ver[r] \in Versions /\ ver[r] = index[NS(r)].latest + 1
    BY DEF StoreInv, SaveOf
  <1> QED
    BY <1>2, <1>3, PublishedRange DEF StoreInv

-----------------------------------------------------------------------------
(* A step of request r leaves every other request alone, and of the disk it *)
(* changes at most the unpublished version that r is saving.                *)

Others(r) ==
  \A q \in Requests \ {r} :
    /\ pc'[q] = pc[q]
    /\ req'[q] = req[q]
    /\ ver'[q] = ver[q]
    /\ draft'[q] = draft[q]
    /\ status'[q] = status[q]

Quiet(m) ==
  /\ dirs'[m] = dirs[m]
  /\ model'[m] = model[m]
  /\ meta'[m] = meta[m]
  /\ tmp'[m] = tmp[m]

\* Once a fit has written a file it keeps its identity to the end.
Settled(r) ==
  pc[r] \in AfterModel \cup Ended =>
    /\ pc'[r] \in AfterModel \cup Ended
    /\ req'[r] = req[r]
    /\ ver'[r] = ver[r]

SavesOnly(r) ==
  LET n == NS(r) IN
    /\ pc[r] \in Saving
    /\ req'[r] = req[r]
    /\ ver'[r] = ver[r]
    /\ \A m \in Namespaces \ {n} : Quiet(m)
    /\ dirs[n] \subseteq dirs'[n]
    /\ \A v \in Versions \ {ver[r]} : /\ model'[n][v] = model[n][v]
                                      /\ meta'[n][v] = meta[n][v]
    /\ model'[n][ver[r]] \in {model[n][ver[r]], Torn, r}
    /\ meta'[n][ver[r]] \in {meta[n][ver[r]], Torn, r}
    /\ r \in {model'[n][ver[r]], meta'[n][ver[r]]} =>
         pc'[r] \in AfterModel \cup Ended

DiskFrame(r) == (\A m \in Namespaces : Quiet(m)) \/ SavesOnly(r)

\* The published versions are numbers of Versions, and keep their files.
LEMMA PublishedKept ==
  ASSUME StoreInv, NEW r \in Requests, DiskFrame(r),
         NEW m \in Namespaces, NEW v \in Published(m)
  PROVE  /\ v \in Versions
         /\ v \in dirs'[m]
         /\ model'[m][v] = model[m][v]
         /\ meta'[m][v] = meta[m][v]
  <1>1. v \in dirs[m] /\ v \in Versions
    BY DEF StoreInv, PublishedComplete, TypeOK
  <1>2. CASE \A k \in Namespaces : Quiet(k)
    BY <1>1, <1>2 DEF Quiet
  <1>3. CASE SavesOnly(r)
    <2>1. m = NS(r) => v # ver[r]
      BY <1>3, SavingFresh DEF SavesOnly
    <2> QED
      BY <1>1, <1>3, <2>1 DEF SavesOnly, Quiet
  <1> QED
    BY <1>2, <1>3 DEF DiskFrame

\* A save in progress is not disturbed by a step of another request.
LEMMA OtherSaves ==
  ASSUME StoreInv, NEW r \in Requests, Others(r), DiskFrame(r), index' = index,
         NEW q \in Requests \ {r}
  PROVE  RoleOf(q)' /\ SaveOf(q)'
  <1>1. /\ pc'[q] = pc[q] /\ req'[q] = req[q] /\ ver'[q] = ver[q]
        /\ draft'[q] = draft[q] /\ status'[q] = status[q]
    BY DEF Others
  <1>2. NS(q)' = NS(q)
    BY <1>1 DEF NS
  <1>3. RoleOf(q) /\ SaveOf(q)
    BY DEF StoreInv
  <1>4. RoleOf(q)'
    BY <1>1, <1>3 DEF RoleOf
  <1>5. ASSUME pc[q] \in Critical \ {"nextVersion"} PROVE Quiet(NS(q))
    <2>1. NS(q) \in Namespaces
      BY <1>5, SavingSpace
    <2>2. SavesOnly(r) => NS(q) # NS(r)
      BY <1>5, SavingSpace DEF SavesOnly, Saving
    <2> QED
      BY <2>1, <2>2 DEF DiskFrame, SavesOnly
  <1>6. SaveOf(q)'
    <2>1. CASE pc[q] \in Critical \ {"nextVersion"}
      BY <1>1, <1>2, <1>3, <1>5, <2>1 DEF SaveOf, Quiet, Published
    <2>2. CASE pc[q] \notin Critical \ {"nextVersion"}
      BY <1>1, <2>2
      DEF SaveOf, Saving, AfterMkdir, AfterModel, AfterMeta, AfterDraft,
          Critical, WriteSteps
    <2> QED
      BY <2>1, <2>2
  <1> QED
    BY <1>4, <1>6

\* A step that writes within DiskFrame(r) and leaves r Settled leaves every
\* written file with a rightful author.
LEMMA FrameAuthors ==
  ASSUME StoreInv, NEW r \in Requests, Others(r), DiskFrame(r), Settled(r)
  PROVE  Authors'
  <1> SUFFICES ASSUME NEW n \in Namespaces, NEW v \in Versions,
                      NEW q \in {model'[n][v], meta'[n][v]} \cap Requests
               PROVE  /\ req'[q].op = "fit"
                      /\ NS(q)' = n
                      /\ ver'[q] = v
                      /\ pc'[q] \in AfterModel \cup Ended
    BY DEF Authors
  <1>1. q \in Requests
    OBVIOUS
  <1>2. CASE q \in {model[n][v], meta[n][v]}
    <2>1. /\ req[q].op = "fit" /\ NS(q) = n /\ ver[q] = v
          /\ pc[q] \in AfterModel \cup Ended
      BY <1>1, <1>2 DEF StoreInv, Authors
    <2>2. req'[q] = req[q] /\ ver'[q] = ver[q]
          /\ pc'[q] \in AfterModel \cup Ended
      BY <1>1, <2>1 DEF Settled, Others
    <2> QED
      BY <2>1, <2>2 DEF NS
  <1>3. CASE q \notin {model[n][v], meta[n][v]}
    <2>1. ~Quiet(n)
      BY <1>3 DEF Quiet
    <2>2. SavesOnly(r) /\ n = NS(r)
      BY <2>1 DEF DiskFrame, SavesOnly
    <2>3. v = ver[r]
      BY <1>3, <2>2 DEF SavesOnly
    <2>4. q = r
      BY <1>1, <1>3, <2>2, <2>3, MarksAssumption DEF SavesOnly
    <2>5. req[r].op = "fit"
      BY <2>2, SavingSpace DEF SavesOnly, Saving
    <2> QED
      BY <2>2, <2>3, <2>4, <2>5 DEF SavesOnly, NS
  <1> QED
    BY <1>2, <1>3

\* A step that keeps the index and stays within its frame keeps StoreInv, if
\* the state of r itself and the lock are right afterwards.
LEMMA FrameInv ==
  ASSUME StoreInv, NEW r \in Requests, Others(r), DiskFrame(r), Settled(r),
         index' = index,
         TypeOK', LockDiscipline', RoleOf(r)', SaveOf(r)', Durable(r)'
  PROVE  StoreInv'
  <1>1. \A n \in Namespaces : Published(n)' = Published(n)
    BY DEF Published
  <1>2. \A q \in Requests : RoleOf(q)' /\ SaveOf(q)'
    <2> SUFFICES ASSUME NEW q \in Requests PROVE RoleOf(q)' /\ SaveOf(q)'
      OBVIOUS
    <2>1. CASE q = r
      BY <2>1
    <2>2. CASE q # r
      BY <2>2, OtherSaves
    <2> QED
      BY <2>1, <2>2
  <1>3. Authors'
    BY FrameAuthors
  <1>4. Contiguous'
    BY DEF StoreInv, Contiguous
  <1>5. PublishedComplete'
    <2> SUFFICES ASSUME NEW n \in Namespaces, NEW v \in Published(n)
                 PROVE  /\ v \in dirs'[n]
                        /\ model'[n][v] \in Requests
                        /\ meta'[n][v] = model'[n][v]
                        /\ req'[model'[n][v]].op = "fit"
                        /\ NS(model[n][v])' = n
                        /\ ver'[model'[n][v]] = v
      BY <1>1 DEF PublishedComplete
    <2>1. v \in Versions /\ v \in dirs'[n]
          /\ model'[n][v] = model[n][v] /\ meta'[n][v] = meta[n][v]
      BY PublishedKept
    <2>2. model[n][v] \in Requests /\ meta[n][v] = model[n][v]
      BY DEF StoreInv, PublishedComplete
    <2> QED
      BY <1>3, <2>1, <2>2 DEF Authors
  <1>6. FitDurable'
    <2> SUFFICES ASSUME NEW q \in Requests PROVE Durable(q)'
      BY DEF FitDurable
    <2>1. CASE q = r
      BY <2>1
    <2>2. CASE q # r
      <3>1. Durable(q) /\ req'[q] = req[q] /\ ver'[q] = ver[q]
            /\ status'[q] = status[q]
        BY <2>2 DEF StoreInv, FitDurable, Others
      <3>2. NS(q)' = NS(q)
        BY <3>1 DEF NS
      <3> QED
        BY <1>1, <3>1, <3>2, PublishedKept DEF Durable
    <2> QED
      BY <2>1, <2>2
  <1> QED
    BY <1>2, <1>3, <1>4, <1>5, <1>6 DEF StoreInv

-----------------------------------------------------------------------------
(* Steps that do not touch the disk *)

\* The type of the variables a handler changes for itself.
LEMMA GotoType ==
  ASSUME TypeOK, NEW r \in Requests, NEW from, NEW to \in Points,
         Goto(r, from, to)
  PROVE  /\ pc' \in [Requests -> Points]
         /\ pc[r] = from
         /\ pc'[r] = to
         /\ \A q \in Requests \ {r} : pc'[q] = pc[q]
  BY DEF TypeOK, Goto

\* What answering changes: the control point and the status of r only.
LEMMA AnswerType ==
  ASSUME TypeOK, NEW r \in Requests, NEW from, NEW code \in Codes,
         Answer(r, from, code)
  PROVE  /\ pc' \in [Requests -> Points]
         /\ pc[r] = from
         /\ pc'[r] = "done"
         /\ \A q \in Requests \ {r} : pc'[q] = pc[q] /\ status'[q] = status[q]
         /\ status' \in [Requests -> Codes]
         /\ status'[r] = code
  <1>1. Goto(r, from, "done") /\ status' = [status EXCEPT ![r] = code]
    BY DEF Answer
  <1>2. "done" \in Points
    BY DEF Points, Ended
  <1> QED
    BY <1>1, <1>2, GotoType DEF TypeOK

\* The lock is as it should be when r enters and leaves no critical section.
LEMMA LockKept ==
  ASSUME LockDiscipline, NEW r \in Requests, lock' = lock, Others(r),
         pc'[r] \in Critical <=> pc[r] \in Critical,
         pc[r] \in Critical => req'[r] = req[r]
  PROVE  LockDiscipline'
  BY DEF LockDiscipline, Others

\* Submission, accepted or rejected, preserves the invariant.
LEMMA SubmitInv ==
  ASSUME StoreInv, NEW r \in Requests, Submit(r)
  PROVE  StoreInv'
  <1> USE DEF disk, budget, locals
  <1>1. PICK q \in Menu :
          /\ SubmitWith(r, q)
          /\ \/ /\ Admissible(q)
                /\ Goto(r, "idle", IF q.op = "fit" THEN "acquire" ELSE "resolve")
                /\ UNCHANGED status
             \/ /\ ~Admissible(q)
                /\ Answer(r, "idle", IF q.detector \in Detectors THEN 400 ELSE 422)
    BY DEF Submit, Accept, Reject
  <1>2. TypeOK
    BY DEF StoreInv
  <1>3. /\ pc' \in [Requests -> Points]
        /\ status' \in [Requests -> Codes]
        /\ pc[r] = "idle"
        /\ \A p \in Requests \ {r} : pc'[p] = pc[p] /\ status'[p] = status[p]
        /\ \/ /\ Admissible(q)
              /\ pc'[r] = IF q.op = "fit" THEN "acquire" ELSE "resolve"
              /\ status'[r] = status[r]
           \/ /\ ~Admissible(q)
              /\ pc'[r] = "done"
              /\ status'[r] \in {400, 422}
    <2>1. CASE Admissible(q)
      <3>1. (IF q.op = "fit" THEN "acquire" ELSE "resolve") \in Points
        BY DEF Points, ReadSteps
      <3>2. Goto(r, "idle", IF q.op = "fit" THEN "acquire" ELSE "resolve")
            /\ UNCHANGED status
        BY <1>1, <2>1 DEF Answer
      <3> QED
        BY <1>2, <2>1, <3>1, <3>2, GotoType DEF TypeOK
    <2>2. CASE ~Admissible(q)
      <3>1. (IF q.detector \in Detectors THEN 400 ELSE 422) \in Codes
        BY DEF Codes
      <3>2. Answer(r, "idle", IF q.detector \in Detectors THEN 400 ELSE 422)
        BY <1>1, <2>2
      <3> QED
        BY <1>2, <2>2, <3>1, <3>2, AnswerType
    <2> QED
      BY <2>1, <2>2
  <1>4. /\ req' \in [Requests -> Menu]
        /\ req'[r] = q
        /\ \A p \in Requests \ {r} : req'[p] = req[p]
    BY <1>1, <1>2 DEF SubmitWith, TypeOK
  <1>5. floor' \in [Requests -> Nat]
    BY <1>1, <1>2 DEF SubmitWith, TypeOK, IndexFile
  <1>6. UNCHANGED <<dirs, model, meta, tmp, index, lock, ver, draft, prov,
                    crashes, faults>>
    BY <1>1 DEF SubmitWith
  <1>7. TypeOK'
    BY <1>2, <1>3, <1>4, <1>5, <1>6 DEF TypeOK
  <1>8. Others(r)
    BY <1>3, <1>4, <1>6 DEF Others
  <1>9. DiskFrame(r)
    BY <1>6 DEF DiskFrame, Quiet
  <1>10. Settled(r)
    BY <1>3 DEF Settled, AfterModel, AfterMkdir, Critical, WriteSteps, Ended
  <1>11. LockDiscipline'
    BY <1>3, <1>6, <1>8, LockKept DEF StoreInv, Critical, WriteSteps
  <1>12. RoleOf(r)'
    BY <1>3, <1>4
    DEF StoreInv, RoleOf, Critical, WriteSteps, ReadSteps, Pending, Admissible
  <1>13. SaveOf(r)'
    BY <1>3 DEF SaveOf, Saving, AfterMkdir, AfterModel, AfterMeta, AfterDraft,
                Critical, WriteSteps
  <1>14. Durable(r)'
    BY <1>3 DEF Durable, StoreInv, RoleOf, Pending
  <1> QED
    BY <1>6, <1>7, <1>8, <1>9, <1>10, <1>11, <1>12, <1>13, <1>14, FrameInv

\* What every step of a read handler is, seen from the store: it moves on or
\* answers, and may change its own version and what its answer is made of.
ReadFrame(r) ==
  /\ pc[r] \in ReadSteps
  /\ pc' \in [Requests -> Points]
  /\ status' \in [Requests -> Codes]
  /\ ver' \in [Requests -> Nat]
  /\ prov' \in [Requests -> SUBSET Requests]
  /\ \A q \in Requests \ {r} :
       pc'[q] = pc[q] /\ status'[q] = status[q] /\ ver'[q] = ver[q]
  /\ \/ pc'[r] = "done" /\ status'[r] # Pending
     \/ pc'[r] \in ReadSteps /\ status'[r] = status[r]
  /\ UNCHANGED <<dirs, model, meta, tmp, index, lock, req, draft, floor,
                 crashes, faults>>

\* A handler that moves to another point, and one that answers.
LEMMA ReadMoves ==
  ASSUME TypeOK, NEW r \in Requests, NEW from \in ReadSteps,
         NEW to \in ReadSteps, Goto(r, from, to), UNCHANGED status
  PROVE  /\ pc[r] \in ReadSteps
         /\ pc' \in [Requests -> Points]
         /\ status' \in [Requests -> Codes]
         /\ \A q \in Requests \ {r} : pc'[q] = pc[q] /\ status'[q] = status[q]
         /\ pc'[r] \in ReadSteps /\ status'[r] = status[r]
  <1>1. to \in Points
    BY DEF Points
  <1> QED
    BY <1>1, GotoType DEF TypeOK

\* A read that answers stays outside the critical section, with a status.
LEMMA ReadAnswers ==
  ASSUME TypeOK, NEW r \in Requests, NEW from \in ReadSteps,
         NEW code \in Codes \ {Pending}, Answer(r, from, code)
  PROVE  /\ pc[r] \in ReadSteps
         /\ pc' \in [Requests -> Points]
         /\ status' \in [Requests -> Codes]
         /\ \A q \in Requests \ {r} : pc'[q] = pc[q] /\ status'[q] = status[q]
         /\ pc'[r] = "done" /\ status'[r] # Pending
  BY AnswerType

\* Every step of a read changes nothing but the local state of that read.
LEMMA ReadIsFramed ==
  ASSUME TypeOK, NEW r \in Requests, RoleOf(r), Read(r)
  PROVE  ReadFrame(r)
  <1> USE DEF disk, budget, locals
  <1>1. TypeOK
    OBVIOUS
  <1>2. \A q \in Requests : prov[q] \in SUBSET Requests
    BY <1>1 DEF TypeOK
  <1>3. /\ \A c \in {200, 404, 422, 500} : c \in Codes \ {Pending}
        /\ \A s \in {"resolve", "dir", "files", "loadModel", "loadMeta",
                     "again"} : s \in ReadSteps
        /\ FirstRead(req[r]) \in ReadSteps
    BY DEF Codes, Pending, ReadSteps, FirstRead
  <1>4. ASSUME NEW c, Take(r, c) PROVE prov' \in [Requests -> SUBSET Requests]
    BY <1>1, <1>4 DEF Take, TypeOK
  <1>5. CASE Resolve(r)
    <2>1. ver' \in [Requests -> Nat]
          /\ \A q \in Requests \ {r} : ver'[q] = ver[q]
      <3>1. index[NS(r)].latest \in Nat
        <4>1. req[r].series \in SafeSeries /\ req[r].detector \in Detectors
          BY <1>5 DEF Resolve, RoleOf, ReadSteps
        <4> QED
          BY <1>1, <4>1 DEF TypeOK, NS, Space, Namespaces, IndexFile
      <3>2. req[r].want \in Nat
        BY <1>1, MenuAssumption DEF TypeOK, RequestType
      <3> QED
        BY <1>1, <1>5, <3>1, <3>2 DEF Resolve, LatestOf, TypeOK
    <2>2. \/ Answer(r, "resolve", 404)
          \/ Goto(r, "resolve", FirstRead(req[r])) /\ UNCHANGED status
          \/ Goto(r, "resolve", "dir") /\ UNCHANGED status
      BY <1>5 DEF Resolve
    <2> QED
      BY <1>1, <1>3, <1>5, <2>1, <2>2, ReadMoves, ReadAnswers
      DEF ReadFrame, LatestOf, Resolve, TypeOK
  <1>6. CASE CheckDir(r)
    <2>1. \/ Answer(r, "dir", 404)
          \/ Goto(r, "dir", FirstRead(req[r])) /\ UNCHANGED status
      BY <1>6 DEF CheckDir
    <2> QED
      BY <1>1, <1>3, <1>6, <2>1, ReadMoves, ReadAnswers
      DEF ReadFrame, CheckDir, TypeOK
  <1>7. CASE CheckFiles(r)
    <2>1. \/ Answer(r, "files", 500)
          \/ Goto(r, "files", "loadModel") /\ UNCHANGED status
      BY <1>7 DEF CheckFiles
    <2> QED
      BY <1>1, <1>3, <1>7, <2>1, ReadMoves, ReadAnswers
      DEF ReadFrame, CheckFiles, TypeOK
  <1>8. CASE LoadModel(r)
    <2>1. \/ Answer(r, "loadModel", 500)
          \/ Goto(r, "loadModel", "loadMeta") /\ UNCHANGED status
      BY <1>8 DEF LoadModel
    <2>2. prov' \in [Requests -> SUBSET Requests]
      BY <1>1, <1>4, <1>8 DEF LoadModel, TypeOK
    <2> QED
      BY <1>1, <1>3, <1>8, <2>1, <2>2, ReadMoves, ReadAnswers
      DEF ReadFrame, LoadModel, TypeOK
  <1>9. CASE LoadMeta(r)
    <2>1. \/ Answer(r, "loadMeta", 422)
          \/ Answer(r, "loadMeta", 500)
          \/ Answer(r, "loadMeta", 200)
          \/ Goto(r, "loadMeta", "again") /\ UNCHANGED status
      BY <1>9 DEF LoadMeta
    <2>2. prov' \in [Requests -> SUBSET Requests]
      BY <1>1, <1>4, <1>9 DEF LoadMeta, TypeOK
    <2> QED
      BY <1>1, <1>3, <1>9, <2>1, <2>2, ReadMoves, ReadAnswers
      DEF ReadFrame, LoadMeta, TypeOK
  <1>10. CASE LoadMetaAgain(r)
    <2>1. Answer(r, "again", 200) \/ Answer(r, "again", 500)
      BY <1>10 DEF LoadMetaAgain
    <2>2. prov' \in [Requests -> SUBSET Requests]
      BY <1>1, <1>4, <1>10 DEF LoadMetaAgain, TypeOK
    <2> QED
      BY <1>1, <1>3, <1>10, <2>1, <2>2, ReadMoves, ReadAnswers
      DEF ReadFrame, LoadMetaAgain, TypeOK
  <1> QED
    BY <1>5, <1>6, <1>7, <1>8, <1>9, <1>10 DEF Read

\* What changes only the local state of a read preserves the invariant.
LEMMA FramedReadInv ==
  ASSUME StoreInv, NEW r \in Requests, ReadFrame(r)
  PROVE  StoreInv'
  <1> USE DEF ReadFrame
  <1>2. TypeOK'
    BY DEF StoreInv, TypeOK
  <1>3. Others(r)
    BY DEF Others
  <1>4. DiskFrame(r)
    BY DEF DiskFrame, Quiet
  <1>5. Settled(r)
    BY DEF Settled, AfterModel, AfterMkdir, Critical, WriteSteps, Ended,
           ReadSteps
  <1>6. LockDiscipline'
    BY <1>3, LockKept DEF StoreInv, Critical, WriteSteps, ReadSteps
  <1>7. RoleOf(r)'
    BY DEF StoreInv, RoleOf, Critical, WriteSteps, ReadSteps
  <1>8. SaveOf(r)'
    BY DEF SaveOf, Saving, AfterMkdir, AfterModel, AfterMeta, AfterDraft,
           Critical, WriteSteps, ReadSteps
  <1>9. Durable(r)'
    BY DEF Durable, StoreInv, RoleOf
  <1> QED
    BY <1>2, <1>3, <1>4, <1>5, <1>6, <1>7, <1>8, <1>9, FrameInv

\* The steps of the lock-free readers preserve the invariant.
LEMMA ReadInv ==
  ASSUME StoreInv, NEW r \in Requests, Read(r)
  PROVE  StoreInv'
  BY ReadIsFramed, FramedReadInv DEF StoreInv

-----------------------------------------------------------------------------
(* Taking and releasing the lock *)

\* Acquiring the lock of a series makes the fit its one holder.
LEMMA AcquireInv ==
  ASSUME StoreInv, NEW r \in Requests, Acquire(r)
  PROVE  StoreInv'
  <1> USE DEF Acquire, disk, budget, locals
  <1>1. TypeOK /\ req[r].series \in Series
    BY MenuAssumption DEF StoreInv, TypeOK, RequestType
  <1>2. /\ pc' \in [Requests -> Points]
        /\ pc[r] = "acquire"
        /\ pc'[r] = "nextVersion"
        /\ \A q \in Requests \ {r} : pc'[q] = pc[q]
    <2>1. "nextVersion" \in Points
      BY DEF Points, Critical
    <2> QED
      BY <1>1, <2>1, GotoType
  <1>3. /\ lock' \in [Series -> Requests \cup {NoOne}]
        /\ lock'[req[r].series] = r
        /\ lock[req[r].series] = NoOne
        /\ \A s \in Series \ {req[r].series} : lock'[s] = lock[s]
    BY <1>1 DEF TypeOK
  <1>4. TypeOK'
    BY <1>1, <1>2, <1>3 DEF TypeOK
  <1>5. Others(r)
    BY <1>2 DEF Others
  <1>6. DiskFrame(r)
    BY DEF DiskFrame, Quiet
  <1>7. Settled(r)
    BY <1>2 DEF Settled, AfterModel, AfterMkdir, Critical, WriteSteps, Ended
  <1>8. LockDiscipline'
    <2> SUFFICES ASSUME NEW s \in Series, NEW q \in Requests
                 PROVE  lock'[s] = q <=> pc'[q] \in Critical /\ req[q].series = s
      BY DEF LockDiscipline
    <2>1. lock[s] = q <=> pc[q] \in Critical /\ req[q].series = s
      BY DEF StoreInv, LockDiscipline
    <2>2. CASE q = r
      BY <1>2, <1>3, <2>1, <2>2 DEF Critical, WriteSteps
    <2>3. CASE q # r
      BY <1>2, <1>3, <2>1, <2>3, MarksAssumption
    <2> QED
      BY <2>2, <2>3
  <1>9. RoleOf(r)'
    BY <1>2 DEF StoreInv, RoleOf, Critical, WriteSteps, ReadSteps
  <1>10. SaveOf(r)'
    BY <1>2 DEF SaveOf, Saving, AfterMkdir, AfterModel, AfterMeta, AfterDraft,
                Critical, WriteSteps
  <1>11. Durable(r)'
    BY <1>2 DEF Durable, StoreInv, RoleOf, Pending
  <1> QED
    BY <1>4, <1>5, <1>6, <1>7, <1>8, <1>9, <1>10, <1>11, FrameInv

\* Leaving the critical section with an answer: normally, with an error of a
\* file operation, or because the series identifier was refused.
LEMMA LeaveInv ==
  ASSUME StoreInv, NEW r \in Requests, NEW from \in Critical,
         NEW code \in Codes \ {Pending}, Answer(r, from, code), Unlock(r),
         code = 200 => from = "release",
         UNCHANGED <<dirs, model, meta, tmp, index, req, ver, draft, prov,
                     floor, crashes>>,
         faults' \in 0 .. MaxFaults
  PROVE  StoreInv'
  <1>1. TypeOK /\ req[r].series \in Series
    BY MenuAssumption DEF StoreInv, TypeOK, RequestType
  <1>2. /\ pc' \in [Requests -> Points]
        /\ pc[r] = from
        /\ pc'[r] = "done"
        /\ \A q \in Requests \ {r} : pc'[q] = pc[q] /\ status'[q] = status[q]
        /\ status' \in [Requests -> Codes]
        /\ status'[r] = code
    BY <1>1, AnswerType
  <1>3. /\ lock' \in [Series -> Requests \cup {NoOne}]
        /\ lock'[req[r].series] = NoOne
        /\ \A s \in Series \ {req[r].series} : lock'[s] = lock[s]
    BY <1>1 DEF TypeOK, Unlock
  <1>4. lock[req[r].series] = r
    BY <1>1, <1>2 DEF StoreInv, LockDiscipline
  <1>5. TypeOK'
    BY <1>1, <1>2, <1>3 DEF TypeOK
  <1>6. Others(r)
    BY <1>2 DEF Others
  <1>7. DiskFrame(r)
    BY DEF DiskFrame, Quiet
  <1>8. Settled(r)
    BY <1>2 DEF Settled, Ended
  <1>9. LockDiscipline'
    <2> SUFFICES ASSUME NEW s \in Series, NEW q \in Requests
                 PROVE  lock'[s] = q <=> pc'[q] \in Critical /\ req[q].series = s
      BY DEF LockDiscipline
    <2>1. lock[s] = q <=> pc[q] \in Critical /\ req[q].series = s
      BY DEF StoreInv, LockDiscipline
    <2>2. CASE q = r
      BY <1>2, <1>3, <1>4, <2>1, <2>2, MarksAssumption DEF Critical, WriteSteps
    <2>3. CASE q # r
      BY <1>2, <1>3, <1>4, <2>1, <2>3, MarksAssumption
    <2> QED
      BY <2>2, <2>3
  <1>10. RoleOf(r)'
    BY <1>2 DEF RoleOf, Critical, WriteSteps, ReadSteps
  <1>11. SaveOf(r)'
    BY <1>2 DEF SaveOf, Saving, AfterMkdir, AfterModel, AfterMeta, AfterDraft,
                Critical, WriteSteps
  <1>12. Durable(r)'
    <2>1. ASSUME code = 200 PROVE Durable(r)'
      <3>1. pc[r] = "release"
        BY <1>2, <2>1
      <3>2. NS(r) \in Namespaces
        BY <3>1, SavingSpace DEF Critical
      <3>3. /\ ver[r] \in Published(NS(r))
            /\ model[NS(r)][ver[r]] = r
            /\ meta[NS(r)][ver[r]] = r
        BY <3>1 DEF StoreInv, SaveOf, AfterMeta, AfterModel, AfterMkdir, Critical
      <3> QED
        BY <3>2, <3>3 DEF Durable, NS, Published
    <2>2. ASSUME code # 200 PROVE Durable(r)'
      BY <1>2, <2>2 DEF Durable
    <2> QED
      BY <2>1, <2>2
  <1> QED
    BY <1>5, <1>6, <1>7, <1>8, <1>9, <1>10, <1>11, <1>12, FrameInv

\* The normal end of a fit: its version is published when it answers 200.
LEMMA ReleaseInv ==
  ASSUME StoreInv, NEW r \in Requests, Release(r)
  PROVE  StoreInv'
  <1>1. 200 \in Codes \ {Pending} /\ "release" \in Critical
    BY DEF Codes, Pending, Critical
  <1>2. faults' \in 0 .. MaxFaults
    BY DEF StoreInv, TypeOK, Release, budget
  <1> QED
    BY <1>1, <1>2, LeaveInv DEF Release, disk, locals, budget

\* A failing file operation leaves only unpublished remains behind and
\* releases the lock.
LEMMA WriteFaultInv ==
  ASSUME StoreInv, NEW r \in Requests, WriteFault(r)
  PROVE  StoreInv'
  <1>1. PICK p \in FaultSteps : Answer(r, p, 500)
    BY DEF WriteFault
  <1>2. 500 \in Codes \ {Pending} /\ p \in Critical
    BY DEF Codes, Pending, FaultSteps
  <1>3. faults' \in 0 .. MaxFaults
    BY ConstantsAssumption DEF StoreInv, TypeOK, WriteFault
  <1> QED
    BY <1>1, <1>2, <1>3, LeaveInv DEF WriteFault, disk, locals

\* A refused series identifier ends a fit inside the lock, which is released.
LEMMA RefuseSeriesInv ==
  ASSUME StoreInv, NEW r \in Requests, RefuseSeries(r)
  PROVE  StoreInv'
  <1> USE DEF RefuseSeries, disk, locals, budget
  <1>1. 400 \in Codes \ {Pending}
    BY DEF Codes, Pending
  <1>2. faults' \in 0 .. MaxFaults
    BY DEF StoreInv, TypeOK
  <1>3. CASE Answer(r, "nextVersion", 400) /\ Unlock(r)
    <2>1. "nextVersion" \in Critical
      BY DEF Critical
    <2> QED
      BY <1>1, <1>2, <1>3, <2>1, LeaveInv
  <1>4. CASE Answer(r, "resolve", 400) /\ UNCHANGED lock
    <2>1. "resolve" \in ReadSteps
      BY DEF ReadSteps
    <2>2. ReadFrame(r)
      BY <1>1, <1>4, <2>1, ReadAnswers DEF ReadFrame, StoreInv, TypeOK
    <2> QED
      BY <2>2, FramedReadInv
  <1> QED
    BY <1>3, <1>4

-----------------------------------------------------------------------------
(* The steps of a save before its commit point *)

\* A save that moves on inside the critical section, within its frame.
LEMMA MoveInv ==
  ASSUME StoreInv, NEW r \in Requests, NEW from \in Critical,
         NEW to \in Critical \ {"nextVersion"}, Goto(r, from, to),
         UNCHANGED <<index, lock, status, req>>,
         \A q \in Requests \ {r} : ver'[q] = ver[q] /\ draft'[q] = draft[q],
         req[r].series \in SafeSeries,
         TypeOK', DiskFrame(r), Settled(r), SaveOf(r)'
  PROVE  StoreInv'
  <1>1. /\ pc[r] = from
        /\ pc'[r] = to
        /\ \A q \in Requests \ {r} : pc'[q] = pc[q]
    BY GotoType DEF StoreInv, Points
  <1>2. Others(r)
    BY <1>1 DEF Others
  <1>3. LockDiscipline'
    BY <1>1, <1>2, LockKept DEF StoreInv
  <1>4. RoleOf(r)'
    BY <1>1 DEF StoreInv, RoleOf, Critical, WriteSteps, ReadSteps
  <1>5. Durable(r)'
    <2>1. status[r] = Pending
      BY <1>1 DEF StoreInv, RoleOf, Critical, WriteSteps
    <2> QED
      BY <2>1 DEF Durable, Pending
  <1> QED
    BY <1>2, <1>3, <1>4, <1>5, FrameInv

\* The label read from the index under the lock is that of the next version.
LEMMA NextVersionInv ==
  ASSUME StoreInv, NEW r \in Requests, NextVersion(r)
  PROVE  StoreInv'
  <1> USE DEF NextVersion, NewLabel, disk, budget
  <1>1. "nextVersion" \in Critical /\ "mkdir" \in Critical \ {"nextVersion"}
    BY DEF Critical, WriteSteps
  <1>2. TypeOK /\ pc[r] = "nextVersion" /\ pc'[r] = "mkdir"
        /\ pc' \in [Requests -> Points]
    BY <1>1, GotoType DEF StoreInv, Points
  <1>3. /\ ver' \in [Requests -> Nat]
        /\ ver'[r] = index[NS(r)].latest + 1
        /\ ver'[r] \in Versions
        /\ \A q \in Requests \ {r} : ver'[q] = ver[q]
    BY <1>2, ConstantsAssumption DEF TypeOK
  <1>4. TypeOK'
    BY <1>2, <1>3 DEF TypeOK
  <1>5. DiskFrame(r)
    BY DEF DiskFrame, Quiet
  <1>6. Settled(r)
    BY <1>2 DEF Settled, AfterModel, AfterMkdir, Critical, WriteSteps, Ended
  <1>7. SaveOf(r)'
    BY <1>2, <1>3 DEF SaveOf, NS, Saving, AfterMkdir, AfterModel, AfterMeta,
                      AfterDraft, Critical, WriteSteps
  <1> QED
    BY <1>1, <1>3, <1>4, <1>5, <1>6, <1>7, MoveInv

\* Creating the version directory adds an unpublished version only.
LEMMA MkdirInv ==
  ASSUME StoreInv, NEW r \in Requests, Mkdir(r)
  PROVE  StoreInv'
  <1> USE DEF Mkdir, locals, budget
  <1> DEFINE n == NS(r)
  <1>1. "mkdir" \in Critical /\ "openModel" \in Critical \ {"nextVersion"}
    BY DEF Critical, WriteSteps
  <1>2. TypeOK /\ pc[r] = "mkdir" /\ pc'[r] = "openModel"
        /\ pc' \in [Requests -> Points]
    BY <1>1, GotoType DEF StoreInv, Points
  <1>3. /\ pc[r] \in Saving
        /\ pc[r] \in Critical \ {"nextVersion"}
    BY <1>2 DEF Saving, Critical, WriteSteps
  <1>4. n \in Namespaces /\ req[r].series \in SafeSeries
    BY <1>3, SavingSpace DEF StoreInv, RoleOf
  <1>5. ver[r] \in Versions /\ ver[r] = index[n].latest + 1
    BY <1>3, SavingFresh
  <1>6. /\ dirs' \in [Namespaces -> SUBSET Versions]
        /\ dirs'[n] = dirs[n] \cup {ver[r]}
        /\ \A m \in Namespaces \ {n} : dirs'[m] = dirs[m]
    BY <1>2, <1>4, <1>5 DEF TypeOK
  <1>7. TypeOK'
    BY <1>2, <1>6 DEF TypeOK
  <1>8. DiskFrame(r)
    <2>1. r \notin {model[n][ver[r]], meta[n][ver[r]]}
      BY <1>2, <1>4, <1>5
      DEF StoreInv, Authors, AfterModel, AfterMkdir, Critical, WriteSteps, Ended
    <2> QED
      BY <1>3, <1>4, <1>6, <2>1 DEF DiskFrame, SavesOnly, Quiet
  <1>9. Settled(r)
    BY <1>2 DEF Settled, AfterModel, AfterMkdir, Critical, WriteSteps, Ended
  <1>10. SaveOf(r)'
    BY <1>2, <1>5, <1>6
    DEF SaveOf, NS, Saving, AfterMkdir, AfterModel, AfterMeta, AfterDraft,
        Critical, WriteSteps
  <1> QED
    BY <1>1, <1>4, <1>7, <1>8, <1>9, <1>10, MoveInv

\* Writing model.joblib touches the one version that r saves.
LEMMA SetModelInv ==
  ASSUME StoreInv, NEW r \in Requests, OpenModel(r) \/ DumpModel(r)
  PROVE  StoreInv'
  <1> USE DEF OpenModel, DumpModel, SetModel, locals, budget
  <1> DEFINE n == NS(r)
  <1>1. PICK c \in {Torn, r} :
          /\ model' = [model EXCEPT ![n][ver[r]] = c]
          /\ \/ c = Torn /\ Goto(r, "openModel", "dumpModel")
             \/ c = r /\ Goto(r, "dumpModel", "openMeta")
    OBVIOUS
  <1>2. \E from \in {"openModel", "dumpModel"}, to \in {"dumpModel", "openMeta"} :
          /\ Goto(r, from, to)
          /\ to = "openMeta" <=> c = r
    BY <1>1, MarksAssumption
  <1>3. PICK from \in {"openModel", "dumpModel"},
             to \in {"dumpModel", "openMeta"} :
          Goto(r, from, to) /\ (to = "openMeta" <=> c = r)
    BY <1>2
  <1>4. from \in Critical /\ to \in Critical \ {"nextVersion"}
    BY DEF Critical, WriteSteps
  <1>5. TypeOK /\ pc[r] = from /\ pc'[r] = to /\ pc' \in [Requests -> Points]
    BY <1>3, <1>4, GotoType DEF StoreInv, Points
  <1>6. /\ pc[r] \in Saving
        /\ pc[r] \in Critical \ {"nextVersion"}
        /\ pc[r] \in AfterMkdir
    BY <1>5 DEF Saving, AfterMkdir, Critical, WriteSteps
  <1>7. n \in Namespaces /\ req[r].series \in SafeSeries
    BY <1>6, SavingSpace DEF StoreInv, RoleOf
  <1>8. ver[r] \in Versions /\ ver[r] = index[n].latest + 1
        /\ ver[r] \in dirs[n]
    BY <1>6, SavingFresh DEF StoreInv, SaveOf
  <1>9. /\ model' \in [Namespaces -> [Versions -> Content]]
        /\ model'[n][ver[r]] = c
        /\ \A m \in Namespaces \ {n} : model'[m] = model[m]
        /\ \A v \in Versions \ {ver[r]} : model'[n][v] = model[n][v]
    BY <1>1, <1>5, <1>7, <1>8 DEF TypeOK, Content
  <1>10. TypeOK'
    BY <1>5, <1>9 DEF TypeOK
  <1>11. DiskFrame(r)
    <2>1. meta[n][ver[r]] # r
      BY <1>5, <1>7, <1>8
      DEF StoreInv, Authors, AfterModel, AfterMkdir, Critical, WriteSteps, Ended
    <2>2. r = c => pc'[r] \in AfterModel
      BY <1>3, <1>5 DEF AfterModel, AfterMkdir, Critical, WriteSteps
    <2> QED
      BY <1>6, <1>7, <1>9, <2>1, <2>2 DEF DiskFrame, SavesOnly, Quiet
  <1>12. Settled(r)
    BY <1>5 DEF Settled, AfterModel, AfterMkdir, Critical, WriteSteps, Ended
  <1>13. SaveOf(r)'
    BY <1>3, <1>5, <1>8, <1>9
    DEF SaveOf, NS, Saving, AfterMkdir, AfterModel, AfterMeta, AfterDraft,
        Critical, WriteSteps
  <1> QED
    BY <1>3, <1>4, <1>7, <1>10, <1>11, <1>12, <1>13, MoveInv

\* Writing metadata.json touches the one version that r saves.
LEMMA SetMetaInv ==
  ASSUME StoreInv, NEW r \in Requests, OpenMeta(r) \/ WriteMeta(r)
  PROVE  StoreInv'
  <1> USE DEF OpenMeta, WriteMeta, SetMeta, locals, budget
  <1> DEFINE n == NS(r)
  <1>1. PICK c \in {Torn, r} :
          /\ meta' = [meta EXCEPT ![n][ver[r]] = c]
          /\ \/ c = Torn /\ Goto(r, "openMeta", "writeMeta")
             \/ c = r /\ Goto(r, "writeMeta", "readIndex")
    OBVIOUS
  <1>2. \E from \in {"openMeta", "writeMeta"}, to \in {"writeMeta", "readIndex"} :
          /\ Goto(r, from, to)
          /\ to = "readIndex" <=> c = r
    BY <1>1, MarksAssumption
  <1>3. PICK from \in {"openMeta", "writeMeta"},
             to \in {"writeMeta", "readIndex"} :
          Goto(r, from, to) /\ (to = "readIndex" <=> c = r)
    BY <1>2
  <1>4. from \in Critical /\ to \in Critical \ {"nextVersion"}
    BY DEF Critical, WriteSteps
  <1>5. TypeOK /\ pc[r] = from /\ pc'[r] = to /\ pc' \in [Requests -> Points]
    BY <1>3, <1>4, GotoType DEF StoreInv, Points
  <1>6. /\ pc[r] \in Saving
        /\ pc[r] \in Critical \ {"nextVersion"}
        /\ pc[r] \in AfterModel
        /\ pc[r] \in AfterMkdir
        /\ pc'[r] \in AfterModel
    BY <1>5 DEF Saving, AfterModel, AfterMkdir, Critical, WriteSteps
  <1>7. n \in Namespaces /\ req[r].series \in SafeSeries
    BY <1>6, SavingSpace DEF StoreInv, RoleOf
  <1>8. ver[r] \in Versions /\ ver[r] = index[n].latest + 1
        /\ ver[r] \in dirs[n] /\ model[n][ver[r]] = r
    BY <1>6, SavingFresh DEF StoreInv, SaveOf
  <1>9. /\ meta' \in [Namespaces -> [Versions -> Content]]
        /\ meta'[n][ver[r]] = c
        /\ \A m \in Namespaces \ {n} : meta'[m] = meta[m]
        /\ \A v \in Versions \ {ver[r]} : meta'[n][v] = meta[n][v]
    BY <1>1, <1>5, <1>7, <1>8 DEF TypeOK, Content
  <1>10. TypeOK'
    BY <1>5, <1>9 DEF TypeOK
  <1>11. DiskFrame(r)
    BY <1>6, <1>7, <1>9 DEF DiskFrame, SavesOnly, Quiet
  <1>12. Settled(r)
    BY <1>6 DEF Settled
  <1>13. SaveOf(r)'
    BY <1>3, <1>5, <1>8, <1>9
    DEF SaveOf, NS, Saving, AfterMkdir, AfterModel, AfterMeta, AfterDraft,
        Critical, WriteSteps
  <1> QED
    BY <1>3, <1>4, <1>7, <1>10, <1>11, <1>12, <1>13, MoveInv

\* The payload read under the lock is the current index and one version.
LEMMA ReadIndexInv ==
  ASSUME StoreInv, NEW r \in Requests, ReadIndex(r)
  PROVE  StoreInv'
  <1> USE DEF ReadIndex, disk, budget
  <1> DEFINE n == NS(r)
  <1>1. "readIndex" \in Critical /\ "openTmp" \in Critical \ {"nextVersion"}
    BY DEF Critical, WriteSteps
  <1>2. TypeOK /\ pc[r] = "readIndex" /\ pc'[r] = "openTmp"
        /\ pc' \in [Requests -> Points]
    BY <1>1, GotoType DEF StoreInv, Points
  <1>3. /\ pc[r] \in Saving
        /\ pc[r] \in Critical \ {"nextVersion"}
        /\ pc[r] \in AfterMeta /\ pc[r] \in AfterModel /\ pc[r] \in AfterMkdir
        /\ pc'[r] \in AfterModel
    BY <1>2 DEF Saving, AfterMeta, AfterModel, AfterMkdir, Critical, WriteSteps
  <1>4. n \in Namespaces /\ req[r].series \in SafeSeries
    BY <1>3, SavingSpace DEF StoreInv, RoleOf
  <1>5. ver[r] \in Versions /\ ver[r] = index[n].latest + 1
        /\ ver[r] \in dirs[n] /\ model[n][ver[r]] = r /\ meta[n][ver[r]] = r
    BY <1>3, SavingFresh DEF StoreInv, SaveOf
  <1>6. Publish(index[n], ver[r]) \in IndexFile
    BY <1>2, <1>4, <1>5, PublishNext DEF StoreInv, Contiguous, TypeOK
  <1>7. /\ draft' \in [Requests -> IndexFile]
        /\ draft'[r] = Publish(index[n], ver[r])
        /\ \A q \in Requests \ {r} : draft'[q] = draft[q]
    BY <1>2, <1>6 DEF TypeOK
  <1>8. TypeOK'
    BY <1>2, <1>7 DEF TypeOK
  <1>9. DiskFrame(r)
    BY DEF DiskFrame, Quiet
  <1>10. Settled(r)
    BY <1>3 DEF Settled
  <1>11. SaveOf(r)'
    BY <1>2, <1>5, <1>7
    DEF SaveOf, NS, Saving, AfterMkdir, AfterModel, AfterMeta, AfterDraft,
        Critical, WriteSteps
  <1> QED
    BY <1>1, <1>4, <1>7, <1>8, <1>9, <1>10, <1>11, MoveInv

\* index.json.tmp is written by the one fit of the series that may.
LEMMA SetTmpInv ==
  ASSUME StoreInv, NEW r \in Requests, OpenTmp(r) \/ WriteTmp(r)
  PROVE  StoreInv'
  <1> USE DEF OpenTmp, WriteTmp, SetTmp, locals, budget
  <1> DEFINE n == NS(r)
  <1>1. PICK from \in {"openTmp", "writeTmp"}, to \in {"writeTmp", "replace"},
             c \in {Torn, draft[r]} :
          /\ Goto(r, from, to)
          /\ to = "replace" => c = draft[r]
          /\ tmp' = [tmp EXCEPT ![n] = c]
    OBVIOUS
  <1>2. from \in Critical /\ to \in Critical \ {"nextVersion"}
    BY DEF Critical, WriteSteps
  <1>3. TypeOK /\ pc[r] = from /\ pc'[r] = to /\ pc' \in [Requests -> Points]
    BY <1>1, <1>2, GotoType DEF StoreInv, Points
  <1>4. /\ pc[r] \in Saving
        /\ pc[r] \in Critical \ {"nextVersion"}
        /\ pc[r] \in AfterDraft /\ pc[r] \in AfterMeta /\ pc[r] \in AfterModel
        /\ pc[r] \in AfterMkdir
        /\ pc'[r] \in AfterModel
    BY <1>3 DEF Saving, AfterDraft, AfterMeta, AfterModel, AfterMkdir, Critical,
                WriteSteps
  <1>5. n \in Namespaces /\ req[r].series \in SafeSeries
    BY <1>4, SavingSpace DEF StoreInv, RoleOf
  <1>6. SaveOf(r)
    BY DEF StoreInv
  <1>7. /\ tmp' \in [Namespaces -> IndexFile \cup {NoFile, Torn}]
        /\ tmp'[n] = c
        /\ \A m \in Namespaces \ {n} : tmp'[m] = tmp[m]
    BY <1>1, <1>3, <1>5 DEF TypeOK
  <1>8. TypeOK'
    BY <1>3, <1>7 DEF TypeOK
  <1>9. DiskFrame(r)
    BY <1>4, <1>7 DEF DiskFrame, SavesOnly, Quiet
  <1>10. Settled(r)
    BY <1>4 DEF Settled
  <1>11. SaveOf(r)'
    BY <1>1, <1>3, <1>4, <1>6, <1>7
    DEF SaveOf, NS, Saving, AfterMkdir, AfterModel, AfterMeta, AfterDraft,
        Critical, WriteSteps
  <1> QED
    BY <1>1, <1>2, <1>5, <1>8, <1>9, <1>10, <1>11, MoveInv

-----------------------------------------------------------------------------
(* The commit point: the new index is the draft, which lists one version    *)
(* more, whose files are the ones r wrote.                                  *)

\* What a replace does to the state.
LEMMA ReplaceEffect ==
  ASSUME StoreInv, NEW r \in Requests, Replace(r)
  PROVE  LET n == NS(r) IN
           /\ n \in Namespaces
           /\ req[r].op = "fit" /\ req[r].series \in SafeSeries
           /\ pc[r] = "replace" /\ pc'[r] = "release"
           /\ pc' \in [Requests -> Points]
           /\ \A q \in Requests \ {r} : pc'[q] = pc[q]
           /\ ver[r] \in Versions /\ ver[r] = index[n].latest + 1
           /\ ver[r] \in dirs[n]
           /\ model[n][ver[r]] = r /\ meta[n][ver[r]] = r
           /\ index' \in [Namespaces -> IndexFile]
           /\ index'[n].latest = ver[r]
           /\ index'[n].versions = [j \in 1 .. ver[r] |-> j]
           /\ index'[n].versions = Append(index[n].versions, ver[r])
           /\ \A m \in Namespaces \ {n} : index'[m] = index[m]
           /\ tmp' \in [Namespaces -> IndexFile \cup {NoFile, Torn}]
           /\ \A m \in Namespaces \ {n} : tmp'[m] = tmp[m]
  <1> USE DEF Replace
  <1> DEFINE n == NS(r)
  <1>1. "release" \in Points
    BY DEF Points, Critical
  <1>2. TypeOK /\ pc[r] = "replace" /\ pc'[r] = "release"
        /\ pc' \in [Requests -> Points]
        /\ \A q \in Requests \ {r} : pc'[q] = pc[q]
    BY <1>1, GotoType DEF StoreInv
  <1>3. /\ pc[r] \in Saving
        /\ pc[r] \in Critical \ {"nextVersion"}
        /\ pc[r] \in AfterDraft /\ pc[r] \in AfterMeta /\ pc[r] \in AfterModel
        /\ pc[r] \in AfterMkdir
    BY <1>2 DEF Saving, AfterDraft, AfterMeta, AfterModel, AfterMkdir, Critical,
                WriteSteps
  <1>4. n \in Namespaces /\ req[r].series \in SafeSeries /\ req[r].op = "fit"
    BY <1>3, SavingSpace DEF StoreInv, RoleOf
  <1>5. ver[r] \in Versions /\ ver[r] = index[n].latest + 1
        /\ ver[r] \in dirs[n] /\ model[n][ver[r]] = r /\ meta[n][ver[r]] = r
        /\ tmp[n] = Publish(index[n], ver[r])
    BY <1>2, <1>3, SavingFresh DEF StoreInv, SaveOf
  <1>6. index[n] \in IndexFile /\ index[n].versions = [j \in 1 .. index[n].latest |-> j]
    BY <1>2, <1>4 DEF StoreInv, TypeOK, Contiguous
  <1>7. /\ tmp[n] \in IndexFile
        /\ tmp[n].latest = ver[r]
        /\ tmp[n].versions = [j \in 1 .. ver[r] |-> j]
        /\ tmp[n].versions = Append(index[n].versions, ver[r])
    <2> DEFINE p == Publish(index[n], index[n].latest + 1)
    <2>1. /\ p \in IndexFile
          /\ p.latest = index[n].latest + 1
          /\ p.versions = [j \in 1 .. p.latest |-> j]
          /\ p.versions = Append(index[n].versions, p.latest)
      BY <1>6, PublishNext
    <2>2. tmp[n] = p
      BY <1>5
    <2> HIDE DEF p
    <2>3. tmp[n].latest = ver[r]
      BY <1>5, <2>1, <2>2
    <2> QED
      BY <2>1, <2>2, <2>3
  <1>8. /\ index' \in [Namespaces -> IndexFile]
        /\ index'[n] = tmp[n]
        /\ \A m \in Namespaces \ {n} : index'[m] = index[m]
    BY <1>2, <1>4, <1>7 DEF TypeOK
  <1>9. /\ tmp' \in [Namespaces -> IndexFile \cup {NoFile, Torn}]
        /\ \A m \in Namespaces \ {n} : tmp'[m] = tmp[m]
    BY <1>2, <1>4 DEF TypeOK
  <1> QED
    BY <1>2, <1>4, <1>5, <1>7, <1>8, <1>9

\* The commit point preserves the invariant: the version that appears in the
\* index has whole files of the fit that commits.
LEMMA ReplaceInv ==
  ASSUME StoreInv, NEW r \in Requests, Replace(r)
  PROVE  StoreInv'
  <1> DEFINE n == NS(r)
  <1> USE DEF locals, budget
  <1>1. UNCHANGED <<dirs, model, meta, lock, status, req, ver, draft, prov,
                    floor, crashes, faults>>
    BY DEF Replace
  <1>2. /\ n \in Namespaces
        /\ req[r].op = "fit" /\ req[r].series \in SafeSeries
        /\ pc[r] = "replace" /\ pc'[r] = "release"
        /\ pc' \in [Requests -> Points]
        /\ \A q \in Requests \ {r} : pc'[q] = pc[q]
        /\ ver[r] \in Versions /\ ver[r] = index[n].latest + 1
        /\ ver[r] \in dirs[n]
        /\ model[n][ver[r]] = r /\ meta[n][ver[r]] = r
        /\ index' \in [Namespaces -> IndexFile]
        /\ index'[n].latest = ver[r]
        /\ index'[n].versions = [j \in 1 .. ver[r] |-> j]
        /\ \A m \in Namespaces \ {n} : index'[m] = index[m]
        /\ tmp' \in [Namespaces -> IndexFile \cup {NoFile, Torn}]
        /\ \A m \in Namespaces \ {n} : tmp'[m] = tmp[m]
    BY ReplaceEffect
  <1>3. \A q \in Requests : NS(q)' = NS(q)
    BY <1>1 DEF NS
  <1>4. ver[r] \in Nat /\ index[n].latest \in Nat
    BY <1>2 DEF StoreInv, TypeOK, IndexFile
  <1>5. /\ Published(n)' = Published(n) \cup {ver[r]}
        /\ \A m \in Namespaces \ {n} : Published(m)' = Published(m)
    <2>1. Published(n) = 1 .. index[n].latest
      BY <1>2, PublishedRange DEF StoreInv
    <2>2. Published(n)' = 1 .. ver[r]
      <3>1. Range(index'[n].versions) = 1 .. ver[r]
        BY <1>2, <1>4, GaplessRange
      <3> QED
        BY <1>3, <3>1 DEF Published
    <2>3. 1 .. ver[r] = (1 .. index[n].latest) \cup {ver[r]}
      BY <1>2, <1>4
    <2>4. \A m \in Namespaces \ {n} : Published(m)' = Published(m)
      BY <1>2 DEF Published
    <2> QED
      BY <2>1, <2>2, <2>3, <2>4
  <1>a. ASSUME NEW m \in Namespaces, NEW v, v \in Published(m)'
        PROVE  v \in Published(m) \/ (m = n /\ v = ver[r])
    BY <1>3, <1>5, <1>a
  <1>6. TypeOK'
    BY <1>1, <1>2 DEF StoreInv, TypeOK
  <1>7. LockDiscipline'
    BY <1>1, <1>2 DEF StoreInv, LockDiscipline, Critical, WriteSteps
  <1>8. ASSUME NEW q \in Requests PROVE RoleOf(q)' /\ SaveOf(q)'
    <2>1. RoleOf(q) /\ SaveOf(q)
      BY DEF StoreInv
    <2>2. CASE q = r
      <3>1. RoleOf(r)'
        BY <1>1, <1>2, <2>1, <2>2
        DEF RoleOf, Critical, WriteSteps, ReadSteps
      <3>2. SaveOf(r)'
        BY <1>1, <1>2, <1>3, <1>5
        DEF SaveOf, Saving, AfterMkdir, AfterModel, AfterMeta, AfterDraft,
            Critical, WriteSteps
      <3> QED
        BY <2>2, <3>1, <3>2
    <2>3. CASE q # r
      <3>1. RoleOf(q)'
        BY <1>1, <1>2, <2>1, <2>3 DEF RoleOf
      <3>2. CASE pc[q] \in Critical \ {"nextVersion"}
        <4>1. NS(q) \in Namespaces /\ NS(q) # n
          <5>1. pc[r] \in Critical \ {"nextVersion"}
            BY <1>2 DEF Critical, WriteSteps
          <5> QED
            BY <2>3, <3>2, <5>1, SavingSpace
        <4>2. SaveOf(q)'
          BY <1>1, <1>2, <1>3, <2>1, <2>3, <4>1, <1>5 DEF SaveOf
        <4> QED
          BY <3>1, <4>2
      <3>3. CASE pc[q] \notin Critical \ {"nextVersion"}
        <4>1. SaveOf(q)'
          BY <1>2, <2>3, <3>3
          DEF SaveOf, Saving, AfterMkdir, AfterModel, AfterMeta, AfterDraft,
              Critical, WriteSteps
        <4> QED
          BY <3>1, <4>1
      <3> QED
        BY <3>2, <3>3
    <2> QED
      BY <2>2, <2>3
  <1>9. Authors'
    <2>1. \A q \in Requests : pc[q] \in AfterModel \cup Ended =>
                              pc'[q] \in AfterModel \cup Ended
      BY <1>2 DEF AfterModel, AfterMkdir, Critical, WriteSteps, Ended
    <2> QED
      BY <1>1, <1>3, <2>1 DEF StoreInv, Authors
  <1>10. Contiguous'
    <2> SUFFICES ASSUME NEW m \in Namespaces
                 PROVE  index'[m].versions = [i \in 1 .. index'[m].latest |-> i]
      BY DEF Contiguous
    <2>1. CASE m = n
      BY <1>2, <2>1
    <2>2. CASE m # n
      BY <1>2, <2>2 DEF StoreInv, Contiguous
    <2> QED
      BY <2>1, <2>2
  <1>11. PublishedComplete'
    <2> SUFFICES ASSUME NEW m \in Namespaces, NEW v \in Published(m)'
                 PROVE  /\ v \in dirs[m]
                        /\ model[m][v] \in Requests
                        /\ meta[m][v] = model[m][v]
                        /\ req[model[m][v]].op = "fit"
                        /\ NS(model[m][v])' = m
                        /\ ver[model[m][v]] = v
      BY <1>1 DEF PublishedComplete
    <2>1. CASE v \in Published(m)
      <3>1. /\ v \in dirs[m]
            /\ model[m][v] \in Requests
            /\ meta[m][v] = model[m][v]
            /\ req[model[m][v]].op = "fit"
            /\ NS(model[m][v]) = m
            /\ ver[model[m][v]] = v
        BY <2>1 DEF StoreInv, PublishedComplete
      <3> QED
        BY <1>1, <3>1 DEF NS
    <2>2. CASE v \notin Published(m)
      <3>1. m = n /\ v = ver[r]
        BY <1>a, <2>2
      <3> QED
        BY <1>1, <1>2, <3>1 DEF NS
    <2> QED
      BY <2>1, <2>2
  <1>12. FitDurable'
    <2> SUFFICES ASSUME NEW q \in Requests PROVE Durable(q)'
      BY DEF FitDurable
    <2>1. Durable(q)
      BY DEF StoreInv, FitDurable
    <2> QED
      BY <1>1, <1>3, <1>5, <2>1 DEF Durable
  <1> QED
    BY <1>6, <1>7, <1>8, <1>9, <1>10, <1>11, <1>12 DEF StoreInv

-----------------------------------------------------------------------------
(* A restart forgets every lock and every handler, and nothing on the disk. *)

\* A restart at any point preserves the invariant: the locks and the handlers
\* are gone together, the files stay.
LEMMA RestartInv ==
  ASSUME StoreInv, Restart
  PROVE  StoreInv'
  <1> USE DEF Restart, disk, locals
  <1>1. /\ \A q \in Requests :
             pc'[q] = IF pc[q] \in Ended \cup {"idle"} THEN pc[q] ELSE "lost"
        /\ pc' \in [Requests -> Points]
    BY DEF StoreInv, TypeOK, Points, Ended
  <1>2. lock' \in [Series -> Requests \cup {NoOne}] /\ \A s \in Series : lock'[s] = NoOne
    OBVIOUS
  <1>3. crashes' \in 0 .. MaxCrashes
    BY ConstantsAssumption DEF StoreInv, TypeOK
  <1>4. TypeOK'
    BY <1>1, <1>2, <1>3 DEF StoreInv, TypeOK
  <1>5. \A q \in Requests : pc'[q] \in Ended \cup {"idle"}
    BY <1>1 DEF Ended
  <1>6. LockDiscipline'
    BY <1>2, <1>5, MarksAssumption
    DEF LockDiscipline, Ended, Critical, WriteSteps
  <1>7. ASSUME NEW q \in Requests PROVE RoleOf(q)' /\ SaveOf(q)'
    <2>1. RoleOf(q)'
      <3>1. status[q] # Pending <=> pc[q] = "done"
        BY DEF StoreInv, RoleOf
      <3>2. pc'[q] = "done" <=> pc[q] = "done"
        BY <1>1 DEF Ended
      <3> QED
        BY <1>5, <3>1, <3>2
        DEF RoleOf, Ended, Critical, WriteSteps, ReadSteps
    <2>2. SaveOf(q)'
      BY <1>5 DEF SaveOf, Ended, Saving, AfterMkdir, AfterModel, AfterMeta,
                  AfterDraft, Critical, WriteSteps
    <2> QED
      BY <2>1, <2>2
  <1>8. \A q \in Requests : NS(q)' = NS(q)
    BY DEF NS
  <1>9. Authors'
    <2>1. \A q \in Requests : pc[q] \in AfterModel \cup Ended => pc'[q] \in Ended
      BY <1>1 DEF AfterModel, AfterMkdir, Critical, WriteSteps, Ended
    <2> QED
      BY <1>8, <2>1 DEF StoreInv, Authors
  <1>10. Contiguous' /\ PublishedComplete' /\ FitDurable'
    <2>1. Contiguous'
      BY DEF StoreInv, Contiguous
    <2>2. PublishedComplete'
      BY DEF StoreInv, PublishedComplete, Published, NS
    <2>3. FitDurable'
      BY DEF StoreInv, FitDurable, Durable, Published, NS
    <2> QED
      BY <2>1, <2>2, <2>3
  <1> QED
    BY <1>4, <1>6, <1>7, <1>9, <1>10 DEF StoreInv

-----------------------------------------------------------------------------
(* StoreInv is inductive *)

\* All steps of a fit.
LEMMA FitInv ==
  ASSUME StoreInv, NEW r \in Requests, Fit(r)
  PROVE  StoreInv'
  BY AcquireInv, NextVersionInv, MkdirInv, SetModelInv, SetMetaInv,
     ReadIndexInv, SetTmpInv, ReplaceInv, ReleaseInv
  DEF Fit

\* Steps that change nothing.
LEMMA StutterInv ==
  ASSUME StoreInv, UNCHANGED vars
  PROVE  StoreInv'
  <1> USE DEF vars, disk, locals, budget
  <1>1. \A r \in Requests : NS(r)' = NS(r)
    BY DEF NS
  <1>2. \A n \in Namespaces : Published(n)' = Published(n)
    BY DEF Published
  <1>3. TypeOK' /\ LockDiscipline' /\ Contiguous'
    BY DEF StoreInv, TypeOK, LockDiscipline, Contiguous
  <1>4. \A r \in Requests : RoleOf(r)' /\ SaveOf(r)'
    BY DEF StoreInv, RoleOf, SaveOf, Published, NS
  <1>5. Authors'
    BY <1>1 DEF StoreInv, Authors
  <1>6. PublishedComplete'
    BY <1>1, <1>2 DEF StoreInv, PublishedComplete, NS
  <1>7. FitDurable'
    BY DEF StoreInv, FitDurable, Durable, Published, NS
  <1> QED
    BY <1>3, <1>4, <1>5, <1>6, <1>7 DEF StoreInv

\* StoreInv is inductive.
LEMMA NextInv == StoreInv /\ [Next]_vars => StoreInv'
  <1> SUFFICES ASSUME StoreInv, [Next]_vars PROVE StoreInv'
    OBVIOUS
  <1>1. CASE UNCHANGED vars
    BY <1>1, StutterInv
  <1>2. CASE \E r \in Requests : Submit(r) \/ Step(r) \/ WriteFault(r)
    BY <1>2, SubmitInv, FitInv, ReadInv, RefuseSeriesInv, WriteFaultInv DEF Step
  <1>3. CASE Restart
    BY <1>3, RestartInv
  <1>4. CASE Terminating
    BY <1>4, StutterInv DEF Terminating
  <1> QED
    BY <1>1, <1>2, <1>3, <1>4 DEF Next

\* StoreInv holds in every state the store can reach.
THEOREM StoreInvariant == Spec => []StoreInv
  <1>1. Init => StoreInv
    BY InitInv
  <1>2. StoreInv /\ [Next]_vars => StoreInv'
    BY NextInv
  <1> QED
    BY <1>1, <1>2, PTL DEF Spec

\* Type correctness.  It is not inductive by itself: that index.json is never
\* replaced by a half-written file rests on the lock protecting index.json.tmp.
THEOREM TypeCorrect == Spec => []TypeOK
  <1>1. StoreInv => TypeOK
    BY DEF StoreInv
  <1> QED
    BY <1>1, StoreInvariant, PTL

\* The lock of a series is held exactly by the fit inside its critical section,
\* after any failures and restarts.
THEOREM LockIsDisciplined == Spec => []LockDiscipline
  <1>1. StoreInv => LockDiscipline
    BY DEF StoreInv
  <1> QED
    BY <1>1, StoreInvariant, PTL

\* An index never names a version whose files are missing, torn, or the work
\* of two fits, in spite of crashes and write errors between any two files.
THEOREM IndexIsComplete == Spec => []PublishedComplete
  <1>1. StoreInv => PublishedComplete
    BY DEF StoreInv
  <1> QED
    BY <1>1, StoreInvariant, PTL

\* The versions of a namespace are numbered 1 .. latest.
THEOREM VersionsContiguous == Spec => []Contiguous
  <1>1. StoreInv => Contiguous
    BY DEF StoreInv
  <1> QED
    BY <1>1, StoreInvariant, PTL

\* What a fit acknowledged with 200 stays published with its own artifacts.
THEOREM FitsAreDurable == Spec => []FitDurable
  <1>1. StoreInv => FitDurable
    BY DEF StoreInv
  <1> QED
    BY <1>1, StoreInvariant, PTL

-----------------------------------------------------------------------------
(* What a step may do to the published versions *)

\* Only the commit point of a fit changes an index.
LEMMA IndexChanges ==
  ASSUME [Next]_vars
  PROVE  index' = index \/ \E r \in Requests : Replace(r)
  BY DEF Next, vars, disk, Terminating, Restart, WriteFault, Submit, Accept,
         Reject, SubmitWith, Step, Fit, Read, RefuseSeries, Acquire,
         NextVersion, Mkdir, SetModel, SetMeta, SetTmp, OpenModel, DumpModel,
         OpenMeta, WriteMeta, ReadIndex, OpenTmp, WriteTmp, Release, Resolve,
         CheckDir, CheckFiles, LoadModel, LoadMeta, LoadMetaAgain

\* Only a save writes files, and only those of the version it works on.
LEMMA FileChanges ==
  ASSUME TypeOK, [Next]_vars,
         NEW n \in Namespaces, NEW v \in Versions
  PROVE  \/ dirs[n] \subseteq dirs'[n] /\ model'[n][v] = model[n][v]
            /\ meta'[n][v] = meta[n][v]
         \/ \E r \in Requests : pc[r] \in Saving /\ NS(r) = n /\ ver[r] = v
  <1> USE DEF vars, disk
  <1>1. CASE UNCHANGED <<dirs, model, meta>>
    BY <1>1
  <1>2. CASE \E r \in Requests : Mkdir(r)
    BY <1>2 DEF Mkdir, TypeOK
  <1>3. ASSUME NEW r \in Requests, OpenModel(r) \/ DumpModel(r),
               ~(NS(r) = n /\ ver[r] = v)
        PROVE  /\ UNCHANGED <<dirs, meta>>
               /\ model'[n][v] = model[n][v]
    BY <1>3 DEF OpenModel, DumpModel, SetModel, TypeOK
  <1>4. ASSUME NEW r \in Requests, OpenMeta(r) \/ WriteMeta(r),
               ~(NS(r) = n /\ ver[r] = v)
        PROVE  /\ UNCHANGED <<dirs, model>>
               /\ meta'[n][v] = meta[n][v]
    BY <1>4 DEF OpenMeta, WriteMeta, SetMeta, TypeOK
  <1>5. \A r \in Requests :
          OpenModel(r) \/ DumpModel(r) \/ OpenMeta(r) \/ WriteMeta(r) =>
            pc[r] \in Saving
    BY DEF OpenModel, DumpModel, SetModel, OpenMeta, WriteMeta, SetMeta, Goto,
           Saving, Critical, WriteSteps
  <1>6. CASE \E r \in Requests :
               OpenModel(r) \/ DumpModel(r) \/ OpenMeta(r) \/ WriteMeta(r)
    BY <1>3, <1>4, <1>5, <1>6
  <1>7. \/ UNCHANGED <<dirs, model, meta>>
        \/ \E r \in Requests :
             \/ Mkdir(r)
             \/ OpenModel(r) \/ DumpModel(r) \/ OpenMeta(r) \/ WriteMeta(r)
    BY DEF Next, Terminating, Restart, WriteFault, Submit, Accept, Reject,
           SubmitWith, Step, Fit, Read, RefuseSeries, Acquire, NextVersion,
           SetTmp, ReadIndex, OpenTmp, WriteTmp, Replace, Release, Resolve,
           CheckDir, CheckFiles, LoadModel, LoadMeta, LoadMetaAgain
  <1> QED
    BY <1>1, <1>2, <1>6, <1>7

\* An index only ever gains one larger version at the end of its list.
THEOREM IndexAppendOnly == Spec => AppendOnly
  <1> DEFINE Appends == \A n \in Namespaces :
               index'[n] # index[n] =>
                 /\ index'[n].versions =
                      Append(index[n].versions, index'[n].latest)
                 /\ index'[n].latest > index[n].latest
  <1>1. StoreInv /\ [Next]_vars => Appends
    <2> SUFFICES ASSUME StoreInv, [Next]_vars, NEW n \in Namespaces,
                        index'[n] # index[n]
                 PROVE  /\ index'[n].versions =
                             Append(index[n].versions, index'[n].latest)
                        /\ index'[n].latest > index[n].latest
      OBVIOUS
    <2>1. PICK r \in Requests : Replace(r)
      BY IndexChanges
    <2>2. /\ ver[r] = index[NS(r)].latest + 1
          /\ index'[NS(r)].latest = ver[r]
          /\ index'[NS(r)].versions = Append(index[NS(r)].versions, ver[r])
          /\ \A m \in Namespaces \ {NS(r)} : index'[m] = index[m]
      BY <2>1, ReplaceEffect
    <2>3. n = NS(r)
      BY <2>2
    <2>4. index[n].latest \in Nat
      BY DEF StoreInv, TypeOK, IndexFile
    <2> QED
      BY <2>2, <2>3, <2>4
  <1>2. StoreInv /\ [Next]_vars => [Appends]_vars
    BY <1>1
  <1> QED
    BY <1>2, StoreInvariant, PTL DEF Spec, AppendOnly

\* The files of a published version are never written again.
THEOREM PublishedIsImmutable == Spec => PublishedImmutable
  <1> DEFINE Keeps == \A n \in Namespaces : \A v \in Published(n) :
               /\ v \in dirs'[n]
               /\ model'[n][v] = model[n][v]
               /\ meta'[n][v] = meta[n][v]
  <1>1. StoreInv /\ [Next]_vars => Keeps
    <2> SUFFICES ASSUME StoreInv, [Next]_vars, NEW n \in Namespaces,
                        NEW v \in Published(n)
                 PROVE  /\ v \in dirs'[n]
                        /\ model'[n][v] = model[n][v]
                        /\ meta'[n][v] = meta[n][v]
      OBVIOUS
    <2>1. v \in dirs[n] /\ v \in Versions /\ TypeOK
      BY DEF StoreInv, PublishedComplete, TypeOK
    <2>2. \A r \in Requests : pc[r] \in Saving /\ NS(r) = n => ver[r] # v
      BY SavingFresh
    <2> QED
      BY <2>1, <2>2, FileChanges
  <1>2. StoreInv /\ [Next]_vars => [Keeps]_vars
    BY <1>1
  <1> QED
    BY <1>2, StoreInvariant, PTL DEF Spec, PublishedImmutable

-----------------------------------------------------------------------------
(* Reads that take no lock: a read of the latest version, or of a version  *)
(* published when it was submitted, is served from the artifacts of one    *)
(* published fit, whatever fits, failures and restarts interleave with it. *)

\* Published versions stay published, with their files; the latest only grows.
LEMMA PublishedGrows ==
  ASSUME StoreInv, [Next]_vars, NEW n \in Namespaces
  PROVE  /\ index[n].latest \in Nat
         /\ index'[n].latest \in Nat
         /\ index'[n].latest >= index[n].latest
         /\ \A v \in Published(n) : /\ v \in Published(n)'
                                    /\ v \in dirs[n]
                                    /\ model'[n][v] = model[n][v]
  <1>1. StoreInv'
    BY NextInv
  <1>2. /\ index[n].latest \in Nat
        /\ index'[n].latest \in Nat
    BY <1>1 DEF StoreInv, TypeOK, IndexFile
  <1>3. index'[n].latest >= index[n].latest
    <2>1. CASE index' = index
      BY <1>2, <2>1
    <2>2. CASE \E r \in Requests : Replace(r)
      <3>1. PICK r \in Requests : Replace(r)
        BY <2>2
      <3>2. /\ ver[r] = index[NS(r)].latest + 1
            /\ index'[NS(r)].latest = ver[r]
            /\ \A m \in Namespaces \ {NS(r)} : index'[m] = index[m]
        BY <3>1, ReplaceEffect
      <3> QED
        BY <1>2, <3>2
    <2> QED
      BY <2>1, <2>2, IndexChanges
  <1>4. Published(n) = 1 .. index[n].latest
    BY PublishedRange DEF StoreInv
  <1>5. Published(n)' = 1 .. index'[n].latest
    <2>1. index'[n].versions = [i \in 1 .. index'[n].latest |-> i]
      BY <1>1 DEF StoreInv, Contiguous
    <2>2. Range(index'[n].versions) = 1 .. index'[n].latest
      BY <1>2, <2>1, GaplessRange
    <2> QED
      BY <2>2 DEF Published
  <1>6. ASSUME NEW v \in Published(n)
        PROVE  /\ v \in Published(n)'
               /\ v \in dirs[n]
               /\ model'[n][v] = model[n][v]
    <2>1. v \in dirs[n] /\ v \in Versions /\ TypeOK
      BY DEF StoreInv, PublishedComplete, TypeOK
    <2>2. \A r \in Requests : pc[r] \in Saving /\ NS(r) = n => ver[r] # v
      BY SavingFresh
    <2>3. model'[n][v] = model[n][v]
      BY <2>1, <2>2, FileChanges
    <2> QED
      BY <1>2, <1>3, <1>4, <1>5, <2>1, <2>3
  <1> QED
    BY <1>2, <1>3, <1>6

\* The files of a published version are whole and of one fit.
LEMMA PublishedWhole ==
  ASSUME StoreInv, NEW n \in Namespaces, NEW v \in Published(n)
  PROVE  /\ v \in dirs[n]
         /\ model[n][v] \in Requests
         /\ meta[n][v] = model[n][v]
  BY DEF StoreInv, PublishedComplete

\* The state a handler keeps for itself.
Same(q) ==
  /\ pc'[q] = pc[q]
  /\ req'[q] = req[q]
  /\ ver'[q] = ver[q]
  /\ prov'[q] = prov[q]
  /\ status'[q] = status[q]
  /\ floor'[q] = floor[q]

\* What a read has gathered is not invalidated by a step of another request.
LEMMA ReadUndisturbed ==
  ASSUME StoreInv, [Next]_vars, NEW q \in Requests, ReadOf(q), Same(q)
  PROVE  ReadOf(q)'
  <1>1. NS(q)' = NS(q)
    BY DEF NS, Same
  <1>2. CASE NS(q) \in Namespaces
    <2>1. floor[q] \in Nat
      BY DEF StoreInv, TypeOK
    <2>2. /\ index[NS(q)].latest \in Nat
          /\ index'[NS(q)].latest \in Nat
          /\ index'[NS(q)].latest >= index[NS(q)].latest
          /\ \A v \in Published(NS(q)) :
               /\ v \in Published(NS(q))'
               /\ model'[NS(q)][v] = model[NS(q)][v]
      BY <1>1, <1>2, PublishedGrows
    <2>3. Published(NS(q))' = Range(index'[NS(q)].versions)
      BY <1>1 DEF Published
    <2>4. pc[q] # "idle" => floor'[q] <= index'[NS(q)].latest
      BY <1>2, <2>1, <2>2 DEF ReadOf, Same
    <2>5. FromPublished(q) => FromPublished(q)'
      BY <1>1, <2>2 DEF FromPublished, Same
    <2>6. Served(q) => Served(q)'
      BY <2>5 DEF Served, Same
    <2>7. pc[q] \in {"loadMeta", "again"} /\ req[q].want <= floor[q] =>
            ver[q] \in Published(NS(q))
      BY <1>2 DEF ReadOf, Resolved
    <2> QED
      BY <1>1, <1>2, <2>2, <2>4, <2>6, <2>7 DEF ReadOf, Same, Resolved
  <1>3. CASE NS(q) \notin Namespaces
    BY <1>1, <1>3 DEF ReadOf, Same
  <1> QED
    BY <1>2, <1>3

-----------------------------------------------------------------------------
(* The steps of the request itself *)

\* A request that is submitted has gathered nothing, and notes the latest
\* version.  A read that is refused at once is outside the namespaces.
LEMMA SubmitReads ==
  ASSUME StoreInv, NEW r \in Requests, ReadOf(r), Submit(r)
  PROVE  ReadOf(r)'
  <1>1. PICK q \in Menu :
          /\ SubmitWith(r, q)
          /\ \/ /\ Admissible(q)
                /\ Goto(r, "idle", IF q.op = "fit" THEN "acquire" ELSE "resolve")
             \/ /\ ~Admissible(q)
                /\ Answer(r, "idle", IF q.detector \in Detectors THEN 400 ELSE 422)
    BY DEF Submit, Accept, Reject
  <1>2. TypeOK
    BY DEF StoreInv
  <1>3. /\ pc[r] = "idle"
        /\ \/ Admissible(q) /\ pc'[r] \in {"acquire", "resolve"}
           \/ ~Admissible(q) /\ pc'[r] = "done"
    BY <1>1, <1>2 DEF Goto, Answer, TypeOK
  <1>4. /\ req'[r] = q
        /\ floor'[r] = IF Space(q) \in Namespaces THEN index[Space(q)].latest ELSE 0
        /\ prov'[r] = {}
        /\ index' = index
    BY <1>1, <1>2, <1>3 DEF SubmitWith, ReadOf, TypeOK, disk
  <1>5. NS(r)' = Space(q)
    BY <1>4 DEF NS
  <1>6. Space(q) \in Namespaces => q.detector \in Detectors
    BY DEF Space, Namespaces
  <1>7. CASE Space(q) \in Namespaces
    <2>1. floor'[r] <= index'[Space(q)].latest
      BY <1>2, <1>4, <1>7 DEF TypeOK, IndexFile
    <2>2. pc'[r] = "done" => req'[r].op = "fit"
      BY <1>3, <1>4, <1>6, <1>7 DEF Admissible
    <2> QED
      BY <1>3, <1>4, <1>5, <1>7, <2>1, <2>2 DEF ReadOf, Resolved
  <1>8. CASE Space(q) \notin Namespaces
    BY <1>3, <1>4, <1>5, <1>8 DEF ReadOf
  <1> QED
    BY <1>7, <1>8

\* A fit gathers nothing: of a request outside the read points, and not an
\* answered read, only the floor is claimed.
LEMMA OtherPointReads ==
  ASSUME StoreInv, [Next]_vars, NEW r \in Requests, ReadOf(r),
         pc[r] # "idle", pc'[r] \notin ReadSteps \cup {"idle"},
         pc'[r] = "done" => req[r].op = "fit" \/ NS(r) \notin Namespaces,
         req'[r] = req[r], floor'[r] = floor[r]
  PROVE  ReadOf(r)'
  <1>1. NS(r)' = NS(r)
    BY DEF NS
  <1>2. NS(r) \in Namespaces => floor'[r] <= index'[NS(r)].latest
    <2> SUFFICES ASSUME NS(r) \in Namespaces
                 PROVE  floor'[r] <= index'[NS(r)].latest
      OBVIOUS
    <2>1. floor[r] \in Nat /\ floor[r] <= index[NS(r)].latest
      BY DEF StoreInv, TypeOK, ReadOf
    <2>2. /\ index[NS(r)].latest \in Nat
          /\ index'[NS(r)].latest \in Nat
          /\ index'[NS(r)].latest >= index[NS(r)].latest
      BY <1>1, PublishedGrows
    <2> QED
      BY <2>1, <2>2
  <1> QED
    BY <1>1, <1>2 DEF ReadOf, ReadSteps, Resolved

\* The frame of a read step, with what has not been resolved yet.
LEMMA ReadMoveFacts ==
  ASSUME StoreInv, NEW r \in Requests, Read(r)
  PROVE  /\ UNCHANGED <<dirs, model, meta, tmp, index, lock, req, draft, floor>>
         /\ req[r].op # "fit"
         /\ pc[r] \in ReadSteps
         /\ NS(r)' = NS(r)
         /\ \A n \in Namespaces : Published(n)' = Published(n)
  <1>1. ReadFrame(r)
    BY ReadIsFramed DEF StoreInv
  <1> QED
    BY <1>1 DEF ReadFrame, StoreInv, RoleOf, NS, Published

\* Resolving a version: the latest one, or the pinned one if it was published,
\* is published when it is resolved.
LEMMA ResolveReads ==
  ASSUME StoreInv, NEW r \in Requests, ReadOf(r), Resolve(r)
  PROVE  ReadOf(r)'
  <1> DEFINE n == NS(r)
  <1>1. /\ UNCHANGED <<dirs, model, meta, index, req, floor>>
        /\ req[r].op # "fit"
        /\ NS(r)' = NS(r)
        /\ \A m \in Namespaces : Published(m)' = Published(m)
    BY ReadMoveFacts DEF Read
  <1>2. /\ TypeOK /\ pc[r] = "resolve" /\ prov' = prov /\ prov[r] = {}
        /\ n \in Namespaces
    BY DEF Resolve, ReadOf, StoreInv, RoleOf, ReadSteps, NS, Space, Namespaces
  <1>3. /\ index[n].latest \in Nat
        /\ Published(n) = 1 .. index[n].latest
        /\ floor[r] \in Nat /\ floor[r] <= index[n].latest
        /\ req[r].want \in Nat
    BY <1>2, PublishedRange, MenuAssumption
    DEF StoreInv, ReadOf, TypeOK, RequestType
  <1>4. CASE index[n] = NoIndex
    <2>1. pc'[r] = "done" /\ status'[r] = 404
      BY <1>2, <1>4 DEF Resolve, Answer, Goto, TypeOK
    <2>2. floor[r] = 0
      BY <1>3, <1>4 DEF NoIndex
    <2>3. Served(r)'
      BY <1>1, <2>1, <2>2 DEF Served
    <2> QED
      BY <1>1, <1>2, <1>3, <2>1, <2>3 DEF ReadOf, Resolved
  <1>5. CASE index[n] # NoIndex
    <2>1. index[n].latest >= 1
      <3>1. index[n].latest # 0
        <4> SUFFICES ASSUME index[n].latest = 0 PROVE FALSE
          OBVIOUS
        <4>1. index[n].versions = [i \in 1 .. 0 |-> i]
          BY <1>2 DEF StoreInv, Contiguous
        <4>2. index[n] \in IndexFile /\ index[n].versions \in Seq(Nat)
          BY <1>2 DEF TypeOK, IndexFile
        <4>3. Len(index[n].versions) = 0
          <5>1. DOMAIN index[n].versions = 1 .. 0
            BY <4>1
          <5>2. /\ Len(index[n].versions) \in Nat
                /\ DOMAIN index[n].versions = 1 .. Len(index[n].versions)
            BY <4>2, LenProperties
          <5>3. 1 \notin DOMAIN index[n].versions
            BY <5>1
          <5> QED
            BY <5>2, <5>3
        <4>4. index[n].versions = <<>>
          BY <4>2, <4>3, EmptySeq
        <4> QED
          BY <1>5, <4>2, <4>4 DEF NoIndex, IndexFile
      <3> QED
        BY <1>3, <3>1
    <2>2. CASE req[r].want = 0
      <3>1. pc'[r] = FirstRead(req[r]) /\ ver'[r] = index[n].latest
        BY <1>2, <1>5, <2>2 DEF Resolve, LatestOf, Goto, TypeOK
      <3>2. \/ pc'[r] = "files" /\ req[r].op \in {"predict", "detail"}
            \/ pc'[r] = "loadMeta" /\ req[r].op \notin {"predict", "detail"}
        BY <3>1 DEF FirstRead
      <3> QED
        BY <1>1, <1>2, <1>3, <2>1, <2>2, <3>1, <3>2 DEF ReadOf, Resolved
    <2>3. CASE req[r].want # 0
      <3>1. pc'[r] = "dir" /\ ver'[r] = req[r].want
        BY <1>2, <1>5, <2>3 DEF Resolve, Goto, TypeOK
      <3> QED
        BY <1>1, <1>2, <1>3, <2>3, <3>1 DEF ReadOf, Resolved
    <2> QED
      BY <2>2, <2>3
  <1> QED
    BY <1>4, <1>5

\* The directory of a published version exists.
LEMMA CheckDirReads ==
  ASSUME StoreInv, NEW r \in Requests, ReadOf(r), CheckDir(r)
  PROVE  ReadOf(r)'
  <1> DEFINE n == NS(r)
  <1>1. /\ UNCHANGED <<dirs, model, meta, index, req, floor>>
        /\ NS(r)' = NS(r)
        /\ \A m \in Namespaces : Published(m)' = Published(m)
    BY ReadMoveFacts DEF Read
  <1>2. /\ TypeOK /\ pc[r] = "dir" /\ ver' = ver /\ prov' = prov
        /\ prov[r] = {}
    BY DEF CheckDir, locals, ReadOf, StoreInv
  <1>3. \/ ver[r] \in dirs[n] /\ pc'[r] = FirstRead(req[r])
        \/ ver[r] \notin dirs[n] /\ pc'[r] = "done"
    BY <1>2 DEF CheckDir, Answer, Goto, TypeOK
  <1>4. n \in Namespaces /\ req[r].want <= floor[r] => ver[r] \in dirs[n]
    BY <1>2, PublishedWhole DEF ReadOf, Resolved
  <1>5. pc'[r] = FirstRead(req[r]) =>
          \/ pc'[r] = "files" /\ req[r].op \in {"predict", "detail"}
          \/ pc'[r] = "loadMeta" /\ req[r].op \notin {"predict", "detail"}
    BY DEF FirstRead
  <1> QED
    BY <1>1, <1>2, <1>3, <1>4, <1>5 DEF ReadOf, Resolved

\* Both files of a published version exist.
LEMMA CheckFilesReads ==
  ASSUME StoreInv, NEW r \in Requests, ReadOf(r), CheckFiles(r)
  PROVE  ReadOf(r)'
  <1> DEFINE n == NS(r)
  <1>1. /\ UNCHANGED <<dirs, model, meta, index, req, floor>>
        /\ NS(r)' = NS(r)
        /\ \A m \in Namespaces : Published(m)' = Published(m)
    BY ReadMoveFacts DEF Read
  <1>2. /\ TypeOK /\ pc[r] = "files" /\ ver' = ver /\ prov' = prov
        /\ prov[r] = {}
    BY DEF CheckFiles, locals, ReadOf, StoreInv
  <1>3. \/ pc'[r] = "loadModel"
        \/ NoFile \in {model[n][ver[r]], meta[n][ver[r]]} /\ pc'[r] = "done"
    BY <1>2 DEF CheckFiles, Answer, Goto, TypeOK
  <1>4. n \in Namespaces /\ req[r].want <= floor[r] =>
          NoFile \notin {model[n][ver[r]], meta[n][ver[r]]}
    BY <1>2, PublishedWhole, MarksAssumption DEF ReadOf, Resolved
  <1> QED
    BY <1>1, <1>2, <1>3, <1>4 DEF ReadOf, Resolved

\* The model of a published version can be loaded, and is what predict shows.
LEMMA LoadModelReads ==
  ASSUME StoreInv, NEW r \in Requests, ReadOf(r), LoadModel(r)
  PROVE  ReadOf(r)'
  <1> DEFINE n == NS(r)
             c == model[n][ver[r]]
  <1>1. /\ UNCHANGED <<dirs, model, meta, index, req, floor>>
        /\ NS(r)' = NS(r)
        /\ \A m \in Namespaces : Published(m)' = Published(m)
    BY ReadMoveFacts DEF Read
  <1>2. /\ TypeOK /\ pc[r] = "loadModel" /\ ver' = ver /\ prov[r] = {}
    BY DEF LoadModel, ReadOf, StoreInv
  <1>3. \/ /\ c \in Requests
           /\ pc'[r] = "loadMeta"
           /\ prov'[r] = IF req[r].op = "predict" THEN {c} ELSE {}
        \/ c \notin Requests /\ pc'[r] = "done"
    <2>1. CASE c \in Requests /\ req[r].op = "predict"
      BY <1>2, <2>1 DEF LoadModel, Take, Answer, Goto, TypeOK
    <2>2. CASE c \in Requests /\ req[r].op # "predict"
      BY <1>2, <2>2 DEF LoadModel, Answer, Goto, TypeOK
    <2>3. CASE c \notin Requests
      BY <1>2, <2>3 DEF LoadModel, Answer, Goto, TypeOK
    <2> QED
      BY <2>1, <2>2, <2>3
  <1>4. n \in Namespaces /\ req[r].want <= floor[r] => c \in Requests
    BY <1>2, PublishedWhole DEF ReadOf, Resolved
  <1> QED
    BY <1>1, <1>2, <1>3, <1>4 DEF ReadOf, Resolved

\* The metadata of a published version is whole and of the same fit as its
\* model.
LEMMA LoadMetaReads ==
  ASSUME StoreInv, NEW r \in Requests, ReadOf(r), LoadMeta(r)
  PROVE  ReadOf(r)'
  <1> DEFINE n == NS(r)
             c == meta[n][ver[r]]
  <1>1. /\ UNCHANGED <<dirs, model, meta, index, req, floor>>
        /\ NS(r)' = NS(r)
        /\ \A m \in Namespaces : Published(m)' = Published(m)
        /\ req[r].op # "fit"
    BY ReadMoveFacts DEF Read
  <1>2. /\ TypeOK /\ pc[r] = "loadMeta" /\ ver' = ver /\ req[r].op \in Ops
    BY MenuAssumption DEF LoadMeta, StoreInv, TypeOK, RequestType
  <1>3. \/ c \notin Requests /\ pc'[r] = "done"
        \/ /\ req[r].op = "predict" /\ c \in Requests
           /\ pc'[r] = "done" /\ status'[r] = 200 /\ prov'[r] = prov[r]
        \/ /\ req[r].op = "detail" /\ c \in Requests
           /\ pc'[r] = "again" /\ prov'[r] = prov[r] \cup {c}
        \/ /\ req[r].op \in {"version", "plot"} /\ c \in Requests
           /\ pc'[r] = "done" /\ status'[r] = 200 /\ prov'[r] = prov[r] \cup {c}
    BY <1>2 DEF LoadMeta, Take, Answer, Goto, TypeOK
  <1>4. CASE n \in Namespaces /\ req[r].want <= floor[r]
    <2>1. /\ ver[r] \in Published(n)
          /\ IF req[r].want = 0 THEN ver[r] >= floor[r] ELSE ver[r] = req[r].want
          /\ prov[r] = IF req[r].op = "predict" THEN {model[n][ver[r]]} ELSE {}
          /\ floor[r] <= index[n].latest
      BY <1>2, <1>4 DEF ReadOf, Resolved
    <2>2. c \in Requests /\ c = model[n][ver[r]]
      BY <1>4, <2>1, PublishedWhole
    <2>3. pc'[r] = "again" => req[r].op = "detail" /\ prov'[r] = {c}
      BY <1>3, <2>1
    <2>4. pc'[r] = "done" => status'[r] = 200 /\ prov'[r] = {c}
      BY <1>3, <2>1, <2>2
    <2>5. pc'[r] = "done" => Served(r)'
      BY <1>1, <1>2, <1>4, <2>1, <2>2, <2>4 DEF Served, FromPublished
    <2>6. pc'[r] \in {"again", "done"}
      BY <1>3
    <2> QED
      BY <1>1, <1>2, <1>4, <2>1, <2>2, <2>3, <2>5, <2>6 DEF ReadOf, Resolved
  <1>5. CASE ~(n \in Namespaces /\ req[r].want <= floor[r])
    BY <1>1, <1>2, <1>3, <1>5 DEF ReadOf
  <1> QED
    BY <1>4, <1>5

\* The second read of the metadata meets the same fit as the first.
LEMMA LoadMetaAgainReads ==
  ASSUME StoreInv, NEW r \in Requests, ReadOf(r), LoadMetaAgain(r)
  PROVE  ReadOf(r)'
  <1> DEFINE n == NS(r)
             c == meta[n][ver[r]]
  <1>1. /\ UNCHANGED <<dirs, model, meta, index, req, floor>>
        /\ NS(r)' = NS(r)
        /\ \A m \in Namespaces : Published(m)' = Published(m)
    BY ReadMoveFacts DEF Read
  <1>2. /\ TypeOK /\ pc[r] = "again" /\ ver' = ver
    BY DEF LoadMetaAgain, StoreInv
  <1>3. /\ pc'[r] = "done"
        /\ \/ c \notin Requests
           \/ status'[r] = 200 /\ prov'[r] = prov[r] \cup {c}
    BY <1>2 DEF LoadMetaAgain, Take, Answer, Goto, TypeOK
  <1>4. CASE n \in Namespaces /\ req[r].want <= floor[r]
    <2>1. /\ ver[r] \in Published(n)
          /\ IF req[r].want = 0 THEN ver[r] >= floor[r] ELSE ver[r] = req[r].want
          /\ prov[r] = {model[n][ver[r]]}
          /\ floor[r] <= index[n].latest
      BY <1>2, <1>4 DEF ReadOf, Resolved
    <2>2. c \in Requests /\ c = model[n][ver[r]]
      BY <1>4, <2>1, PublishedWhole
    <2>3. status'[r] = 200 /\ prov'[r] = {c}
      BY <1>3, <2>1, <2>2
    <2>4. Served(r)'
      BY <1>1, <1>2, <1>4, <2>1, <2>2, <2>3 DEF Served, FromPublished
    <2> QED
      BY <1>1, <1>2, <1>3, <1>4, <2>1, <2>4 DEF ReadOf, Resolved
  <1>5. CASE ~(n \in Namespaces /\ req[r].want <= floor[r])
    BY <1>1, <1>2, <1>3, <1>5 DEF ReadOf
  <1> QED
    BY <1>4, <1>5

-----------------------------------------------------------------------------
(* ReadsInv is inductive, given StoreInv *)

\* What a step of r leaves to the other requests.
Apart(r) == \A q \in Requests \ {r} : Same(q)

\* Only one request moves in a step.
LEMMA SubmitApart ==
  ASSUME TypeOK, NEW r \in Requests, Submit(r)
  PROVE  Apart(r)
  <1>1. CASE Accept(r)
    BY <1>1 DEF Accept, SubmitWith, Goto, Apart, Same, TypeOK, disk, budget
  <1>2. CASE Reject(r)
    BY <1>2 DEF Reject, Answer, SubmitWith, Goto, Apart, Same, TypeOK, disk, budget
  <1> QED
    BY <1>1, <1>2 DEF Submit

\* A read changes at most its own provenance.
LEMMA ReadApart ==
  ASSUME StoreInv, NEW r \in Requests, Read(r)
  PROVE  Apart(r)
  <1>1. ReadFrame(r)
    BY ReadIsFramed DEF StoreInv
  <1>2. TypeOK
    BY DEF StoreInv
  <1>3. \A q \in Requests \ {r} : prov'[q] = prov[q]
    <2>1. CASE prov' = prov
      BY <2>1
    <2>2. CASE \E c \in Requests : prov' = [prov EXCEPT ![r] = @ \cup {c}]
      BY <1>2, <2>2 DEF TypeOK
    <2>3. prov' = prov \/ \E c \in Requests : prov' = [prov EXCEPT ![r] = @ \cup {c}]
      <3>1. CASE Resolve(r) \/ CheckDir(r) \/ CheckFiles(r)
        BY <3>1 DEF Resolve, CheckDir, CheckFiles, locals
      <3>2. CASE LoadModel(r)
        BY <3>2 DEF LoadModel, Take
      <3>3. CASE LoadMeta(r)
        BY <3>3 DEF LoadMeta, Take
      <3>4. CASE LoadMetaAgain(r)
        BY <3>4 DEF LoadMetaAgain, Take
      <3> QED
        BY <3>1, <3>2, <3>3, <3>4 DEF Read
    <2> QED
      BY <2>1, <2>2, <2>3
  <1> QED
    BY <1>1, <1>3 DEF ReadFrame, Apart, Same

\* A fit, and a request that fails or is refused, keeps its descriptor and
\* its floor, gathers nothing and never is at a point where a read continues.
LEMMA FitApart ==
  ASSUME StoreInv, NEW r \in Requests,
         Fit(r) \/ WriteFault(r) \/ RefuseSeries(r)
  PROVE  /\ Apart(r)
         /\ req'[r] = req[r]
         /\ floor'[r] = floor[r]
         /\ pc[r] # "idle"
         /\ pc'[r] \notin ReadSteps \cup {"idle"}
         /\ pc'[r] = "done" => req[r].op = "fit" \/ NS(r) \notin Namespaces
  <1> USE DEF disk, locals, budget
  <1>1. TypeOK /\ RoleOf(r)
    BY DEF StoreInv
  <1>2. ASSUME NEW from \in Critical \cup {"acquire"}, NEW to \in Critical,
               Goto(r, from, to), UNCHANGED <<status, req, prov, floor>>,
               \A q \in Requests \ {r} : ver'[q] = ver[q]
        PROVE  /\ Apart(r)
               /\ req'[r] = req[r]
               /\ floor'[r] = floor[r]
               /\ pc[r] # "idle"
               /\ pc'[r] \notin ReadSteps \cup {"idle"}
               /\ pc'[r] # "done"
    BY <1>1, <1>2
    DEF Goto, Apart, Same, TypeOK, Critical, WriteSteps, ReadSteps
  <1>3. \A p \in WriteSteps \cup {"nextVersion", "readIndex", "release"} : p \in Critical
    BY DEF Critical
  <1>4. CASE Acquire(r)
    BY <1>2, <1>3, <1>4 DEF Acquire
  <1>5. CASE NextVersion(r)
    BY <1>1, <1>2, <1>3, <1>5 DEF NextVersion, NewLabel, WriteSteps, TypeOK
  <1>6. CASE Mkdir(r)
    BY <1>2, <1>3, <1>6 DEF Mkdir, WriteSteps
  <1>7. CASE OpenModel(r) \/ DumpModel(r)
    BY <1>2, <1>3, <1>7 DEF OpenModel, DumpModel, SetModel, WriteSteps
  <1>8. CASE OpenMeta(r) \/ WriteMeta(r)
    BY <1>2, <1>3, <1>8 DEF OpenMeta, WriteMeta, SetMeta, WriteSteps
  <1>9. CASE ReadIndex(r)
    BY <1>2, <1>3, <1>9 DEF ReadIndex, WriteSteps
  <1>10. CASE OpenTmp(r) \/ WriteTmp(r)
    BY <1>2, <1>3, <1>10 DEF OpenTmp, WriteTmp, SetTmp, WriteSteps
  <1>11. CASE Replace(r)
    BY <1>2, <1>3, <1>11 DEF Replace, WriteSteps
  <1>12. ASSUME NEW from \in Points, NEW code, Answer(r, from, code),
                from # "idle", UNCHANGED locals,
                from \in Critical \/ NS(r) \notin Namespaces
         PROVE  /\ Apart(r)
                /\ req'[r] = req[r]
                /\ floor'[r] = floor[r]
                /\ pc[r] # "idle"
                /\ pc'[r] \notin ReadSteps \cup {"idle"}
                /\ req[r].op = "fit" \/ NS(r) \notin Namespaces
    BY <1>1, <1>12 DEF Answer, Goto, Apart, Same, TypeOK, ReadSteps, RoleOf
  <1>13. CASE Release(r)
    BY <1>3, <1>12, <1>13 DEF Release, Points, Critical, WriteSteps
  <1>14. CASE WriteFault(r)
    BY <1>3, <1>12, <1>14 DEF WriteFault, FaultSteps, Points, Critical, WriteSteps
  <1>15. CASE RefuseSeries(r)
    <2>1. NS(r) \notin Namespaces
      BY <1>15 DEF RefuseSeries, NS, Space, Namespaces
    <2> QED
      BY <1>12, <1>15, <2>1
      DEF RefuseSeries, Points, ReadSteps, Critical
  <1> QED
    BY <1>4, <1>5, <1>6, <1>7, <1>8, <1>9, <1>10, <1>11, <1>13, <1>14, <1>15
    DEF Fit

\* A step of r preserves what every request has gathered.
LEMMA StepReads ==
  ASSUME StoreInv, ReadsInv, NEW r \in Requests,
         Submit(r) \/ Step(r) \/ WriteFault(r)
  PROVE  ReadsInv'
  <1>1. [Next]_vars /\ TypeOK
    BY DEF Next, StoreInv
  <1>2. Apart(r)
    BY <1>1, SubmitApart, ReadApart, FitApart DEF Step
  <1>3. \A q \in Requests \ {r} : ReadOf(q)'
    BY <1>1, <1>2, ReadUndisturbed DEF Apart, ReadsInv
  <1>4. ReadOf(r)
    BY DEF ReadsInv
  <1>5. ReadOf(r)'
    <2>1. CASE Submit(r)
      BY <1>4, <2>1, SubmitReads
    <2>2. CASE Read(r)
      BY <1>4, <2>2, ResolveReads, CheckDirReads, CheckFilesReads,
         LoadModelReads, LoadMetaReads, LoadMetaAgainReads DEF Read
    <2>3. CASE Fit(r) \/ WriteFault(r) \/ RefuseSeries(r)
      BY <1>1, <1>4, <2>3, FitApart, OtherPointReads
    <2> QED
      BY <2>1, <2>2, <2>3 DEF Step
  <1> QED
    BY <1>3, <1>5 DEF ReadsInv

\* A restart drops handlers, and leaves the answered ones alone.
LEMMA RestartReads ==
  ASSUME StoreInv, ReadsInv, Restart
  PROVE  ReadsInv'
  <1>1. [Next]_vars /\ TypeOK
    BY DEF Next, StoreInv
  <1>2. UNCHANGED <<req, ver, prov, floor, status>>
    BY DEF Restart, locals
  <1> SUFFICES ASSUME NEW q \in Requests PROVE ReadOf(q)'
    BY DEF ReadsInv
  <1>3. ReadOf(q)
    BY DEF ReadsInv
  <1>4. CASE pc[q] \in Ended \cup {"idle"}
    <2>1. Same(q)
      BY <1>2, <1>4 DEF Same, Restart
    <2> QED
      BY <1>1, <1>3, <2>1, ReadUndisturbed
  <1>5. CASE pc[q] \notin Ended \cup {"idle"}
    <2>1. pc'[q] = "lost" /\ pc[q] # "idle"
      BY <1>5 DEF Restart
    <2> QED
      BY <1>1, <1>2, <1>3, <2>1, OtherPointReads DEF ReadSteps
  <1> QED
    BY <1>4, <1>5

\* Steps that change nothing.
LEMMA StutterReads ==
  ASSUME StoreInv, ReadsInv, UNCHANGED vars
  PROVE  ReadsInv'
  <1>1. [Next]_vars
    OBVIOUS
  <1>2. \A q \in Requests : Same(q)
    BY DEF Same, vars, locals
  <1> QED
    BY <1>1, <1>2, ReadUndisturbed DEF ReadsInv

\* ReadsInv is inductive, relative to StoreInv.
LEMMA NextReads == StoreInv /\ ReadsInv /\ [Next]_vars => ReadsInv'
  <1> SUFFICES ASSUME StoreInv, ReadsInv, [Next]_vars PROVE ReadsInv'
    OBVIOUS
  <1>1. CASE UNCHANGED vars
    BY <1>1, StutterReads
  <1>2. CASE \E r \in Requests : Submit(r) \/ Step(r) \/ WriteFault(r)
    BY <1>2, StepReads
  <1>3. CASE Restart
    BY <1>3, RestartReads
  <1>4. CASE Terminating
    BY <1>4, StutterReads DEF Terminating
  <1> QED
    BY <1>1, <1>2, <1>3, <1>4 DEF Next

\* No read has started in an initial state.
LEMMA InitReads == Init => ReadsInv
  BY DEF Init, ReadsInv, ReadOf, Resolved

\* At every point of its handler a read has resolved a published version and
\* gathered the artifacts of the fit that published it, and nothing else.
THEOREM ReadsInvariant == Spec => []ReadsInv
  <1>1. Init => ReadsInv
    BY InitReads
  <1>2. StoreInv /\ ReadsInv /\ [Next]_vars => ReadsInv'
    BY NextReads
  <1> QED
    BY <1>1, <1>2, StoreInvariant, PTL DEF Spec

\* A read of the latest version never fails and is never stale, although it
\* takes no lock (_resolve_version, load).
THEOREM LatestIsServed == Spec => []LatestServed
  <1>1. StoreInv /\ ReadsInv => LatestServed
    <2> SUFFICES ASSUME StoreInv, ReadsInv, NEW r \in AnsweredReads,
                        req[r].want = 0
                 PROVE  \/ FromPublished(r) /\ ver[r] >= floor[r]
                        \/ status[r] = 404 /\ floor[r] = 0
      BY DEF LatestServed
    <2>1. ReadOf(r) /\ floor[r] \in Nat
      BY DEF AnsweredReads, ReadsInv, StoreInv, TypeOK
    <2>2. Served(r)
      BY <2>1 DEF AnsweredReads, ReadOf
    <2> QED
      BY <2>2 DEF Served
  <1> QED
    BY <1>1, StoreInvariant, ReadsInvariant, PTL

\* A read of an explicit version that was published when it was submitted
\* answers from that version.
THEOREM PinnedIsServed == Spec => []PinnedServed
  <1>1. StoreInv /\ ReadsInv => PinnedServed
    <2> SUFFICES ASSUME StoreInv, ReadsInv, NEW r \in AnsweredReads,
                        req[r].want \in 1 .. floor[r]
                 PROVE  FromPublished(r) /\ ver[r] = req[r].want
      BY DEF PinnedServed
    <2>1. ReadOf(r) /\ floor[r] \in Nat
      BY DEF AnsweredReads, ReadsInv, StoreInv, TypeOK
    <2>2. /\ req[r].want # 0
          /\ req[r].want <= floor[r]
          /\ floor[r] # 0
      BY <2>1
    <2>3. Served(r)
      BY <2>1, <2>2 DEF AnsweredReads, ReadOf
    <2> QED
      BY <2>2, <2>3 DEF Served
  <1> QED
    BY <1>1, StoreInvariant, ReadsInvariant, PTL
=============================================================================
