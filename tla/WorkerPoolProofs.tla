--------------------------- MODULE WorkerPoolProofs ---------------------------
(***************************************************************************)
(* Proofs about WorkerPool, for a pool of any size: it only schedules the  *)
(* steps of ModelStore, so that all theorems about the store hold on it;   *)
(* PoolInv is inductive; and a full pool can always go on.                 *)
(***************************************************************************)
EXTENDS WorkerPool, ModelStoreProofs, FiniteSetTheorems

-----------------------------------------------------------------------------
(* The pool schedules the steps of the store *)

\* Every step on the pool is a step of the store or leaves the store alone.
LEMMA PoolStep == [PNext]_<<vars, pvars>> => [Next]_vars
  BY DEF PNext, Arrive, Serve, Depend, Begin, Respond, Work, Fail, PoolRestart,
         PoolDone, Next

\* The pool implements the store: whatever is proved of ModelStore, where every
\* request has a thread, holds when threads are few.
THEOREM PoolImplementsStore == PSpec => Spec
  <1>1. PInit => Init
    BY DEF PInit
  <1> QED
    BY <1>1, PoolStep, PTL DEF PSpec, Spec

-----------------------------------------------------------------------------
(* The queue *)

\* A request that joins a queue in which it does not wait yet.
LEMMA Joined ==
  ASSUME NEW S, NEW q \in Seq(S), IsInjective(q), NEW e \in S, e \notin Range(q)
  PROVE  /\ Append(q, e) \in Seq(S)
         /\ IsInjective(Append(q, e))
         /\ Range(Append(q, e)) = Range(q) \cup {e}
  <1> DEFINE a == Append(q, e)
  <1>1. /\ a \in Seq(S)
        /\ Len(q) \in Nat
        /\ DOMAIN a = 1 .. (Len(q) + 1)
        /\ DOMAIN q = 1 .. Len(q)
        /\ \A i \in 1 .. Len(q) : a[i] = q[i]
        /\ a[Len(q) + 1] = e
    OBVIOUS
  <1> HIDE DEF a
  <1>2. IsInjective(a)
    BY <1>1 DEF IsInjective, Range
  <1>3. Range(a) = Range(q) \cup {e}
    BY <1>1 DEF Range
  <1> QED
    BY <1>1, <1>2, <1>3 DEF a

\* The first of a queue leaves it.
LEMMA Left ==
  ASSUME NEW S, NEW q \in Seq(S), q # <<>>, IsInjective(q)
  PROVE  /\ Tail(q) \in Seq(S)
         /\ IsInjective(Tail(q))
         /\ Head(q) \in Range(q)
         /\ Range(Tail(q)) = Range(q) \ {Head(q)}
  <1> DEFINE t == Tail(q)
  <1>1. /\ t \in Seq(S)
        /\ Len(q) \in Nat \ {0}
        /\ DOMAIN t = 1 .. (Len(q) - 1)
        /\ DOMAIN q = 1 .. Len(q)
        /\ \A i \in 1 .. (Len(q) - 1) : t[i] = q[i + 1]
        /\ Head(q) = q[1]
    OBVIOUS
  <1> HIDE DEF t
  <1>2. ASSUME NEW a \in DOMAIN t, NEW b \in DOMAIN t, t[a] = t[b] PROVE a = b
    <2>1. a + 1 \in DOMAIN q /\ b + 1 \in DOMAIN q
      BY <1>1
    <2>2. q[a + 1] = q[b + 1]
      BY <1>1, <1>2
    <2>3. a + 1 = b + 1
      BY <2>1, <2>2 DEF IsInjective
    <2> QED
      BY <1>1, <2>3
  <1>3. Head(q) \in Range(q)
    BY <1>1 DEF Range
  <1>4. Head(q) \notin Range(t)
    BY <1>1 DEF IsInjective, Range
  <1>5. Range(t) \subseteq Range(q)
    <2>1. \A i \in DOMAIN t : i + 1 \in DOMAIN q /\ t[i] = q[i + 1]
      BY <1>1
    <2> QED
      BY <2>1 DEF Range
  <1>6. ASSUME NEW e \in Range(q) \ {Head(q)} PROVE e \in Range(t)
    <2>1. PICK i \in 1 .. Len(q) : e = q[i]
      BY <1>1, <1>6 DEF Range
    <2>2. i - 1 \in 1 .. (Len(q) - 1) /\ t[i - 1] = q[i]
      BY <1>1, <1>6, <2>1
    <2> QED
      BY <1>1, <2>1, <2>2 DEF Range
  <1> QED
    BY <1>1, <1>2, <1>3, <1>4, <1>5, <1>6 DEF t, IsInjective

-----------------------------------------------------------------------------
(* The invariant of the pool *)

\* A handler that has begun and not ended.
Running(p) == p \notin Ended \cup {"idle"}

\* A request at this visit and control point needs a thread it does not have.
Needs(v, p) == v \in {"dependency", "response"} \/ (v = "handler" /\ p = "idle")

\* What a step of one request may do to the pool: whoever begins to run finds a
\* free thread, and the queue follows what the request needs.
LEMMA OneMoves ==
  ASSUME PoolInv, NEW r \in Requests, NEW v \in Visits, NEW p \in Points,
         pc \in [Requests -> Points],
         pc' = [pc EXCEPT ![r] = p],
         visit' = [visit EXCEPT ![r] = v],
         sent' \in [Requests -> Menu],
         \A q \in Requests \ {r} : sent'[q] = sent[q] /\ req'[q] = req[q],
         queue' \in Seq(Requests), IsInjective(queue'),
         Range(queue') = IF Needs(v, p) THEN Range(queue) \cup {r}
                                        ELSE Range(queue) \ {r},
         Running(p) => /\ v = "handler"
                       /\ req'[r] = sent'[r]
                       /\ Running(pc[r]) \/ Cardinality(Busy) < Workers,
         v \in {"away", "dependency"} => p = "idle",
         v \in {"response", "delivered"} => p = "done"
  PROVE  PoolInv'
  <1> USE DEF Running
  <1>1. visit' \in [Requests -> Visits] /\ visit'[r] = v /\ pc'[r] = p
        /\ \A q \in Requests \ {r} : visit'[q] = visit[q] /\ pc'[q] = pc[q]
    BY DEF PoolInv
  <1>2. Range(queue') = Waiting'
    BY <1>1 DEF PoolInv, Waiting, Needs
  <1>3. \A q \in Busy' : visit'[q] = "handler" /\ req'[q] = sent'[q]
    BY <1>1 DEF PoolInv, Busy
  <1>4. \A q \in Requests :
          /\ visit'[q] \in {"away", "dependency"} => pc'[q] = "idle"
          /\ visit'[q] \in {"response", "delivered"} => pc'[q] = "done"
    BY <1>1 DEF PoolInv
  <1>5. IsFiniteSet(Busy') /\ Cardinality(Busy') <= Workers
    <2>1. IsFiniteSet(Busy) /\ Cardinality(Busy) \in Nat
          /\ Cardinality(Busy) <= Workers /\ Workers \in Nat
      BY FS_CardinalityType, WorkersAssumption DEF PoolInv
    <2>2. CASE Running(pc[r]) \/ ~Running(p)
      <3>1. Busy' \in SUBSET Busy
        BY <1>1, <2>2 DEF Busy
      <3>2. IsFiniteSet(Busy') /\ Cardinality(Busy') <= Cardinality(Busy)
        BY <2>1, <3>1, FS_Subset
      <3> QED
        BY <2>1, <3>2, FS_CardinalityType
    <2>3. CASE ~Running(pc[r]) /\ Running(p)
      <3>1. Busy' = Busy \cup {r} /\ r \notin Busy
        BY <1>1, <2>3 DEF Busy
      <3>2. IsFiniteSet(Busy') /\ Cardinality(Busy') = Cardinality(Busy) + 1
        BY <2>1, <3>1, FS_AddElement
      <3> QED
        BY <2>1, <2>3, <3>2
    <2> QED
      BY <2>2, <2>3
  <1> QED
    BY <1>1, <1>2, <1>3, <1>4, <1>5 DEF PoolInv

\* The first of the queue, and the queue without it.
LEMMA FirstLeaves ==
  ASSUME PoolInv, NEW r \in Requests, Turn(r)
  PROVE  /\ Tail(queue) \in Seq(Requests)
         /\ IsInjective(Tail(queue))
         /\ r \in Waiting
         /\ Range(Tail(queue)) = Range(queue) \ {r}
  BY Left DEF PoolInv, Turn

\* A request that arrives queues for its dependency.
LEMMA ArriveInv ==
  ASSUME PoolInv, TypeOK, NEW r \in Requests, Arrive(r)
  PROVE  PoolInv'
  <1> USE DEF Arrive, vars, locals
  <1>1. /\ "dependency" \in Visits /\ pc[r] = "idle" /\ pc[r] \in Points
        /\ pc' = [pc EXCEPT ![r] = pc[r]]
    BY DEF Visits, TypeOK, PoolInv
  <1>2. r \notin Range(queue) /\ ~Running(pc[r])
    BY <1>1 DEF PoolInv, Waiting, Running
  <1>3. /\ queue' \in Seq(Requests) /\ IsInjective(queue')
        /\ Range(queue') = Range(queue) \cup {r}
    BY <1>2, Joined DEF PoolInv
  <1>4. /\ sent' \in [Requests -> Menu]
        /\ \A q \in Requests \ {r} : sent'[q] = sent[q] /\ req'[q] = req[q]
    BY DEF PoolInv
  <1> QED
    BY <1>1, <1>2, <1>3, <1>4, OneMoves DEF Needs, TypeOK

\* After its dependency a request queues for its handler.
LEMMA DependInv ==
  ASSUME PoolInv, TypeOK, NEW r \in Requests, Depend(r)
  PROVE  PoolInv'
  <1> USE DEF Depend, vars, locals
  <1>1. /\ "handler" \in Visits /\ pc[r] = "idle" /\ pc[r] \in Points
        /\ pc' = [pc EXCEPT ![r] = pc[r]]
    BY DEF Visits, TypeOK, PoolInv
  <1> DEFINE rest == Tail(queue)
  <1>2. /\ rest \in Seq(Requests) /\ IsInjective(rest)
        /\ r \notin Range(rest) /\ Range(rest) \cup {r} = Range(queue) \cup {r}
    BY FirstLeaves
  <1>3. /\ queue' \in Seq(Requests) /\ IsInjective(queue')
        /\ Range(queue') = Range(queue) \cup {r}
    <2>1. queue' = Append(rest, r)
      OBVIOUS
    <2> HIDE DEF rest, Depend
    <2>2. /\ Append(rest, r) \in Seq(Requests) /\ IsInjective(Append(rest, r))
          /\ Range(Append(rest, r)) = Range(rest) \cup {r}
      BY ONLY <1>2, Joined, r \in Requests
    <2> QED
      BY <1>2, <2>1, <2>2
  <1>4. /\ sent' \in [Requests -> Menu]
        /\ \A q \in Requests \ {r} : sent'[q] = sent[q] /\ req'[q] = req[q]
    BY DEF PoolInv
  <1> QED
    BY <1>1, <1>3, <1>4, OneMoves DEF Needs, TypeOK, Running

\* A response leaves the pool for good.
LEMMA RespondInv ==
  ASSUME PoolInv, TypeOK, NEW r \in Requests, Respond(r)
  PROVE  PoolInv'
  <1> USE DEF Respond, vars, locals
  <1>1. /\ "delivered" \in Visits /\ pc[r] = "done" /\ pc[r] \in Points
        /\ pc' = [pc EXCEPT ![r] = pc[r]]
    BY DEF Visits, Over, TypeOK, PoolInv
  <1>2. /\ queue' \in Seq(Requests) /\ IsInjective(queue')
        /\ Range(queue') = Range(queue) \ {r}
    BY FirstLeaves
  <1>3. /\ sent' \in [Requests -> Menu]
        /\ \A q \in Requests \ {r} : sent'[q] = sent[q] /\ req'[q] = req[q]
    BY DEF PoolInv
  <1> QED
    BY <1>1, <1>2, <1>3, OneMoves DEF Needs, TypeOK, Running, Ended

-----------------------------------------------------------------------------
(* The steps of a handler on its thread *)

\* Where a step of the handler takes it.
Moved(r, p) ==
  /\ p \in Points \ {"idle", "lost"}
  /\ pc' = [pc EXCEPT ![r] = p]

\* A step of the store by r runs on, or ends with an answer.
LEMMA StepMoves ==
  ASSUME TypeOK, NEW r \in Requests, Step(r) \/ WriteFault(r)
  PROVE  Running(pc[r]) /\ req' = req /\ \E p : Moved(r, p)
  <1> USE DEF Goto, Answer, Running, Moved, Points, Critical, WriteSteps,
              FaultSteps, ReadSteps, Ended, locals
  <1>1. CASE Fit(r)
    BY <1>1 DEF Fit, Acquire, NextVersion, Mkdir, SetModel, SetMeta, SetTmp,
                OpenModel, DumpModel, OpenMeta, WriteMeta, ReadIndex, OpenTmp,
                WriteTmp, Replace, Release
  <1>2. CASE Read(r)
    BY <1>2 DEF Read, Resolve, CheckDir, CheckFiles, LoadModel, LoadMeta,
                LoadMetaAgain, FirstRead
  <1>3. CASE RefuseSeries(r) \/ WriteFault(r)
    BY <1>3 DEF RefuseSeries, WriteFault
  <1> QED
    BY <1>1, <1>2, <1>3 DEF Step

\* A submission begins to run, or is refused at once.
LEMMA SubmitMoves ==
  ASSUME TypeOK, NEW r \in Requests, Submit(r)
  PROVE  /\ pc[r] = "idle"
         /\ \A q \in Requests \ {r} : req'[q] = req[q]
         /\ \E p : Moved(r, p)
  <1> USE DEF Submit, Accept, Reject, SubmitWith, Goto, Answer, Moved, Points,
              Critical, WriteSteps, ReadSteps, Ended
  <1>1. pc[r] = "idle" /\ \E p : Moved(r, p)
    OBVIOUS
  <1>2. \A q \in Requests \ {r} : req'[q] = req[q]
    BY DEF TypeOK
  <1> QED
    BY <1>1, <1>2

\* What Yield makes of a step that leaves the queue waiting without r.
LEMMA YieldInv ==
  ASSUME PoolInv, TypeOK, NEW r \in Requests, NEW waiting \in Seq(Requests),
         IsInjective(waiting), Range(waiting) = Range(queue) \ {r},
         NEW p, Moved(r, p), Yield(r, waiting), req'[r] = sent[r],
         \A q \in Requests \ {r} : req'[q] = req[q],
         Running(pc[r]) \/ Cardinality(Busy) < Workers
  PROVE  PoolInv'
  <1> DEFINE v == IF p # "done" THEN "handler"
                  ELSE IF status'[r] = 200 THEN "response" ELSE "delivered"
  <1>1. pc \in [Requests -> Points] /\ p \in Points /\ pc'[r] = p
    BY DEF TypeOK, Moved
  <1>2. v \in Visits /\ visit' = [visit EXCEPT ![r] = v] /\ sent' = sent
    BY <1>1 DEF Yield, Visits, Over
  <1>3. r \notin Range(waiting)
    OBVIOUS
  <1>4. queue' = IF v = "response" THEN Append(waiting, r) ELSE waiting
    BY <1>1 DEF Yield
  <1>5. /\ queue' \in Seq(Requests) /\ IsInjective(queue')
        /\ Range(queue') = IF v = "response" THEN Range(queue) \cup {r}
                                              ELSE Range(queue) \ {r}
    <2>1. CASE v = "response"
      BY <1>3, <1>4, <2>1, Joined
    <2>2. CASE v # "response"
      BY <1>4, <2>2
    <2> QED
      BY <2>1, <2>2
  <1>6. Needs(v, p) <=> v = "response"
    BY DEF Needs, Moved
  <1>7. Running(p) => v = "handler"
    BY DEF Running, Ended
  <1>8. v # "away" /\ v # "dependency" /\ (v \in {"response", "delivered"} => p = "done")
    OBVIOUS
  <1>9. sent \in [Requests -> Menu] /\ pc' = [pc EXCEPT ![r] = p]
    BY DEF PoolInv, Moved
  <1> HIDE DEF v
  <1> QED
    BY <1>1, <1>2, <1>5, <1>6, <1>7, <1>8, <1>9, OneMoves

\* A handler takes a free thread and begins.
LEMMA BeginInv ==
  ASSUME PoolInv, TypeOK, NEW r \in Requests, Begin(r)
  PROVE  PoolInv'
  BY SubmitMoves, FirstLeaves, YieldInv DEF Begin, Turn

\* A handler goes on, ends or fails on the thread it has.
LEMMA WorkInv ==
  ASSUME PoolInv, TypeOK, NEW r \in Requests, Work(r) \/ Fail(r)
  PROVE  PoolInv'
  <1>1. Running(pc[r]) /\ req' = req /\ Yield(r, queue) /\ \E p : Moved(r, p)
    BY StepMoves DEF Work, Fail
  <1>2. /\ queue \in Seq(Requests) /\ IsInjective(queue)
        /\ Range(queue) = Range(queue) \ {r} /\ req'[r] = sent[r]
    BY <1>1 DEF PoolInv, Waiting, Busy, Running
  <1> QED
    BY <1>1, <1>2, YieldInv

\* A restart empties the pool and its queue.
LEMMA PoolRestartInv ==
  ASSUME PoolInv, TypeOK, PoolRestart
  PROVE  PoolInv'
  <1> USE DEF PoolRestart, Restart
  <1>1. visit' \in [Requests -> Visits] /\ sent' \in [Requests -> Menu]
    BY DEF PoolInv, Visits, Over
  <1>2. Busy' = {}
    BY DEF Busy, Ended
  <1>3. Waiting' = {}
    BY DEF Waiting
  <1>4. queue' \in Seq(Requests) /\ Range(queue') = {} /\ IsInjective(queue')
    BY DEF Range, IsInjective
  <1>5. \A r \in Requests :
          /\ visit'[r] \in {"away", "dependency"} => pc'[r] = "idle"
          /\ visit'[r] \in {"response", "delivered"} => pc'[r] = "done"
    BY DEF PoolInv, Ended
  <1>6. IsFiniteSet(Busy') /\ Cardinality(Busy') <= Workers
    BY <1>2, FS_EmptySet, WorkersAssumption
  <1> QED
    BY <1>1, <1>2, <1>3, <1>4, <1>5, <1>6 DEF PoolInv

\* Steps that change nothing.
LEMMA PoolStutterInv ==
  ASSUME PoolInv, UNCHANGED <<vars, pvars>>
  PROVE  PoolInv'
  BY DEF PoolInv, Waiting, Busy, vars, pvars, locals

\* The pool starts empty.
LEMMA PoolInitInv == PInit => PoolInv
  <1> SUFFICES ASSUME PInit PROVE PoolInv
    OBVIOUS
  <1> USE DEF PInit, Init
  <1>1. sent \in [Requests -> Menu] /\ visit \in [Requests -> Visits]
    BY MenuAssumption DEF Visits
  <1>2. Busy = {} /\ Waiting = {}
    BY DEF Busy, Waiting
  <1>3. queue \in Seq(Requests) /\ Range(queue) = {} /\ IsInjective(queue)
    BY DEF Range, IsInjective
  <1>4. IsFiniteSet(Busy) /\ Cardinality(Busy) <= Workers
    BY <1>2, FS_EmptySet, WorkersAssumption
  <1> QED
    BY <1>1, <1>2, <1>3, <1>4 DEF PoolInv

\* A request that needs a thread queues exactly once, a running handler has one,
\* and never more than Workers of them run.
THEOREM PoolInvariant == PSpec => []PoolInv
  <1>1. PInit => PoolInv
    BY PoolInitInv
  <1>2. TypeOK /\ PoolInv /\ [PNext]_<<vars, pvars>> => PoolInv'
    BY ArriveInv, DependInv, BeginInv, RespondInv, WorkInv, PoolRestartInv,
       PoolStutterInv DEF PNext, Serve, PoolDone
  <1> QED
    BY <1>1, <1>2, PoolImplementsStore, TypeCorrect, PTL DEF PSpec

\* A full pool can always go on: if all its threads wait for locks, one of the
\* locks is free, because whoever holds a lock has a thread and does not wait.
THEOREM PoolStaysAlive == PSpec => []PoolAlive
  <1>1. ASSUME PoolInv, TypeOK, LockDiscipline PROVE PoolAlive
    <2> SUFFICES ASSUME Cardinality(Busy) >= Workers
                 PROVE  \E r \in Busy : pc[r] = "acquire" => lock[req[r].series] = NoOne
      BY DEF PoolAlive
    <2>1. PICK r \in Busy : TRUE
      BY <1>1, FS_EmptySet, WorkersAssumption DEF PoolInv
    <2>2. CASE pc[r] = "acquire" /\ lock[req[r].series] # NoOne
      <3> DEFINE s == req[r].series
                 q == lock[s]
      <3>1. s \in Series /\ q \in Requests
        BY <1>1, <2>2, MenuAssumption DEF TypeOK, RequestType, Busy
      <3>2. pc[q] \in Critical
        BY <1>1, <3>1 DEF LockDiscipline
      <3> QED
        BY <3>1, <3>2 DEF Busy, Critical, WriteSteps, Ended
    <2> QED
      BY <2>1, <2>2
  <1> QED
    BY <1>1, PoolInvariant, PoolImplementsStore, TypeCorrect, LockIsDisciplined,
       PTL
=============================================================================
