------------------------- MODULE RequestMetricsProofs -------------------------
(***************************************************************************)
(* Proofs about RequestMetrics, for any number of requests and paths, any  *)
(* durations and any size of the latency window.  RequestInv is inductive  *)
(* by itself, MetricsInv with it.                                          *)
(***************************************************************************)
EXTENDS RequestMetrics, TLAPS, FiniteSetTheorems, WellFoundedInduction

\* What the history says of a request that is elsewhere stays true.
Other(r) ==
  \A q \in Requests \ {r} :
    pc'[q] = pc[q] /\ path'[q] = path[q] /\ outcome'[q] = outcome[q]

\* Nothing is recorded before the first request is received.
LEMMA InitRequests == Init => RequestInv
  <1> SUFFICES ASSUME Init PROVE RequestInv
    OBVIOUS
  <1>1. \A r \in Requests : pc[r] = "idle"
    BY DEF Init
  <1>2. "idle" \notin Locked /\ "idle" \notin Looped /\ "idle" \in Points
    BY DEF Locked, Looped, Recording, Points
  <1>3. lock = Nobody /\ loop = Nobody /\ log = <<>> /\ DOMAIN log = {}
    BY DEF Init
  <1>4. pc \in [Requests -> Points] /\ path \in [Requests -> Paths]
        /\ outcome \in [Requests -> Outcomes] /\ ms \in [Requests -> Nat]
    BY <1>2 DEF Init, Paths, Outcomes
  <1>5. log \in Seq([request : Requests, path : Paths, ms : Nat, failed : BOOLEAN])
    BY <1>3
  <1> QED
    BY <1>1, <1>2, <1>3, <1>4, <1>5, MetricsAssumption DEF RequestInv

\* The requests the history speaks of, and where they are.
LEMMA Recorded ==
  ASSUME RequestInv, NEW i \in DOMAIN log
  PROVE  /\ log[i].request \in Requests
         /\ pc[log[i].request] \in {"answer", "done"}
         /\ log[i].path = path[log[i].request]
         /\ log[i].failed <=> outcome[log[i].request] # "ok"
  <1> DEFINE E == [request : Requests, path : Paths, ms : Nat, failed : BOOLEAN]
  <1>1. log \in Seq(E)
    BY DEF RequestInv
  <1> HIDE DEF E
  <1>2. log[i] \in E
    BY <1>1
  <1>3. log[i].request \in Requests
    BY <1>2 DEF E
  <1> QED
    BY <1>3 DEF RequestInv

\* A step of a request that has no record yet and does not make one.
LEMMA Unrecorded ==
  ASSUME RequestInv, NEW r \in Requests, log' = log, Other(r),
         pc[r] \notin {"answer", "done"}, pc'[r] \notin {"answer", "done"},
         pc' \in [Requests -> Points], path' \in [Requests -> Paths],
         outcome' \in [Requests -> Outcomes], ms' \in [Requests -> Nat],
         lock' \in Requests \cup {Nobody}, loop' \in Requests \cup {Nobody},
         \A q \in Requests : lock' = q <=> pc'[q] \in Locked,
         \A q \in Requests : loop' = q <=> pc'[q] \in Looped
  PROVE  RequestInv'
  <1>1. \A i \in DOMAIN log :
          /\ log[i].request \in Requests
          /\ log[i].request # r
    BY Recorded
  <1>2. \A i \in DOMAIN log' :
          LET q == log'[i].request IN
            /\ pc'[q] \in {"answer", "done"}
            /\ log'[i].path = path'[q]
            /\ log'[i].failed <=> outcome'[q] # "ok"
    BY <1>1, Recorded DEF Other
  <1>3. \A q \in Requests : pc'[q] \in {"answer", "done"} =>
          \E i \in DOMAIN log' : log'[i].request = q
    BY DEF RequestInv, Other
  <1> QED
    BY <1>2, <1>3 DEF RequestInv

\* The middleware up to call_next: the request takes neither lock nor loop.
LEMMA ReceiveRequests ==
  ASSUME RequestInv, NEW r \in Requests, Receive(r)
  PROVE  RequestInv'
  <1>1. PICK p \in Paths :
          /\ path' = [path EXCEPT ![r] = p]
          /\ Goto(r, "idle", IF p = Health THEN "snapshot" ELSE "handler")
    BY DEF Receive
  <1>2. /\ pc[r] = "idle" /\ pc'[r] \in {"snapshot", "handler"}
        /\ pc' \in [Requests -> Points] /\ path' \in [Requests -> Paths]
        /\ \A q \in Requests \ {r} : pc'[q] = pc[q] /\ path'[q] = path[q]
    BY <1>1 DEF Goto, RequestInv, Points
  <1>3. UNCHANGED <<lock, loop, outcome, ms, log>>
    BY DEF Receive, counters, snap
  <1>4. /\ \A q \in Requests : lock' = q <=> pc'[q] \in Locked
        /\ \A q \in Requests : loop' = q <=> pc'[q] \in Looped
    BY <1>2, <1>3 DEF RequestInv, Locked, Looped, Recording
  <1> QED
    BY <1>2, <1>3, <1>4, Unrecorded DEF RequestInv, Other

\* A step between two points that leaves the paths and the durations alone.
LEMMA MoveRequests ==
  ASSUME RequestInv, NEW r \in Requests, NEW from, NEW to \in Points,
         Goto(r, from, to), log' = log, path' = path,
         from \notin {"answer", "done"}, to \notin {"answer", "done"},
         outcome' \in [Requests -> Outcomes], ms' \in [Requests -> Nat],
         \A q \in Requests \ {r} : outcome'[q] = outcome[q],
         \/ lock' = lock /\ (from \in Locked <=> to \in Locked)
         \/ lock = Nobody /\ lock' = r /\ to \in Locked
         \/ lock' = Nobody /\ from \in Locked /\ to \notin Locked,
         \/ loop' = loop /\ (from \in Looped <=> to \in Looped)
         \/ loop = Nobody /\ loop' = r /\ to \in Looped
  PROVE  RequestInv'
  <1>1. /\ pc[r] = from /\ pc'[r] = to
        /\ pc' \in [Requests -> Points]
        /\ \A q \in Requests \ {r} : pc'[q] = pc[q]
    BY DEF Goto, RequestInv
  <1>2. lock' \in Requests \cup {Nobody} /\ loop' \in Requests \cup {Nobody}
    BY DEF RequestInv
  <1>3. \A q \in Requests : lock' = q <=> pc'[q] \in Locked
    <2> SUFFICES ASSUME NEW q \in Requests
                 PROVE  lock' = q <=> pc'[q] \in Locked
      OBVIOUS
    <2>1. (lock = q <=> pc[q] \in Locked) /\ (lock = r <=> pc[r] \in Locked)
      BY DEF RequestInv
    <2>2. CASE q = r
      BY <1>1, <2>1, <2>2, MetricsAssumption
    <2>3. CASE q # r
      BY <1>1, <2>1, <2>3, MetricsAssumption
    <2> QED
      BY <2>2, <2>3
  <1>4. \A q \in Requests : loop' = q <=> pc'[q] \in Looped
    <2> SUFFICES ASSUME NEW q \in Requests
                 PROVE  loop' = q <=> pc'[q] \in Looped
      OBVIOUS
    <2>1. (loop = q <=> pc[q] \in Looped) /\ (loop = r <=> pc[r] \in Looped)
      BY DEF RequestInv
    <2>2. CASE q = r
      BY <1>1, <2>1, <2>2, MetricsAssumption
    <2>3. CASE q # r
      BY <1>1, <2>1, <2>3, MetricsAssumption
    <2> QED
      BY <2>2, <2>3
  <1> QED
    <2>1. /\ path' \in [Requests -> Paths] /\ Other(r)
          /\ pc[r] \notin {"answer", "done"} /\ pc'[r] \notin {"answer", "done"}
      BY <1>1 DEF RequestInv, Other
    <2> QED
      BY <1>1, <1>2, <1>3, <1>4, <2>1, Unrecorded

\* The handlers and the snapshots, in their worker threads.
LEMMA WorkerRequests ==
  ASSUME RequestInv, NEW r \in Requests,
         Handle(r) \/ SnapAcquire(r) \/ SnapVisit(r) \/ SnapRelease(r)
  PROVE  RequestInv'
  <1>1. outcome \in [Requests -> Outcomes] /\ ms \in [Requests -> Nat]
    BY DEF RequestInv
  <1>2. CASE Handle(r)
    <2>1. PICK o \in Outcomes : outcome' = [outcome EXCEPT ![r] = o]
      BY <1>2 DEF Handle
    <2>2. outcome' \in [Requests -> Outcomes]
          /\ \A q \in Requests \ {r} : outcome'[q] = outcome[q]
      BY <1>1, <2>1
    <2>3. /\ Goto(r, "handler", "resume") /\ lock' = lock /\ loop' = loop
          /\ log' = log /\ path' = path /\ ms' = ms
      BY <1>2 DEF Handle
    <2>4. /\ "resume" \in Points /\ "resume" \notin Locked \cup Looped
          /\ "handler" \notin Locked \cup Looped
      BY DEF Points, Locked, Looped, Recording
    <2> QED
      BY <1>1, <2>2, <2>3, <2>4, MoveRequests
  <1>3. CASE SnapAcquire(r)
    <2>1. /\ Goto(r, "snapshot", "visit") /\ lock = Nobody /\ lock' = r
          /\ loop' = loop /\ log' = log /\ path' = path /\ ms' = ms
          /\ outcome' = outcome
      BY <1>3 DEF SnapAcquire, Free
    <2>2. /\ "visit" \in Points /\ "visit" \in Locked /\ "visit" \notin Looped
          /\ "snapshot" \notin Looped
      BY DEF Points, Locked, Looped, Recording
    <2> QED
      BY <1>1, <2>1, <2>2, MoveRequests
  <1>4. CASE SnapVisit(r)
    <2>1. UNCHANGED <<lock, loop, pc, path, outcome, ms, log>>
      BY <1>4 DEF SnapVisit
    <2> QED
      BY <2>1 DEF RequestInv
  <1>5. CASE SnapRelease(r)
    <2>1. /\ Goto(r, "visit", "resume") /\ lock' = Nobody
          /\ loop' = loop /\ log' = log /\ path' = path /\ ms' = ms
      BY <1>5 DEF SnapRelease, NextLock
    <2>2. outcome' \in [Requests -> Outcomes]
          /\ \A q \in Requests \ {r} : outcome'[q] = outcome[q]
      BY <1>1, <1>5 DEF SnapRelease, Outcomes
    <2>3. /\ "visit" \in Locked /\ "visit" \notin Looped
          /\ "resume" \in Points /\ "resume" \notin Locked \cup Looped
      BY DEF Points, Locked, Looped, Recording
    <2> QED
      BY <1>1, <2>1, <2>2, <2>3, MoveRequests
  <1> QED
    BY <1>2, <1>3, <1>4, <1>5

\* The middleware takes the event loop, then the lock, and updates the counters.
LEMMA RecordingRequests ==
  ASSUME RequestInv, NEW r \in Requests,
         \/ Resume(r) \/ RecordAcquire(r) \/ RecordCount(r) \/ RecordTotal(r)
         \/ RecordWindow(r) \/ RecordError(r)
  PROVE  RequestInv'
  <1>1. outcome \in [Requests -> Outcomes] /\ ms \in [Requests -> Nat]
    BY DEF RequestInv
  <1>2. CASE Resume(r)
    <2>1. PICK d \in Durations : ms' = [ms EXCEPT ![r] = d]
      BY <1>2 DEF Resume
    <2>2. ms' \in [Requests -> Nat]
      BY <1>1, <2>1, MetricsAssumption
    <2>3. /\ Goto(r, "resume", "acquire") /\ loop = Nobody /\ loop' = r
          /\ lock' = lock /\ log' = log /\ path' = path /\ outcome' = outcome
      BY <1>2 DEF Resume, AfterHandler
    <2>4. /\ "acquire" \in Points /\ "acquire" \in Looped
          /\ "acquire" \notin Locked /\ "resume" \notin Locked
      BY DEF Points, Locked, Looped, Recording
    <2> QED
      BY <1>1, <2>2, <2>3, <2>4, MoveRequests
  <1>3. CASE RecordAcquire(r)
    <2>1. /\ Goto(r, "acquire", "count") /\ lock = Nobody /\ lock' = r
          /\ loop' = loop /\ log' = log /\ path' = path /\ ms' = ms
          /\ outcome' = outcome
      BY <1>3 DEF RecordAcquire, Free
    <2>2. /\ "acquire" \in Looped /\ "count" \in Looped
          /\ "count" \in Locked /\ "count" \in Points
      BY DEF Points, Locked, Looped, Recording
    <2> QED
      BY <1>1, <2>1, <2>2, MoveRequests
  <1>4. CASE RecordCount(r) \/ RecordTotal(r) \/ RecordWindow(r) \/ RecordError(r)
    <2>1. PICK from \in Recording, to \in Recording : Goto(r, from, to)
      BY <1>4 DEF RecordCount, RecordTotal, RecordWindow, RecordError, Recording
    <2>2. UNCHANGED <<lock, loop, path, outcome, ms, log>>
      BY <1>4 DEF RecordCount, RecordTotal, RecordWindow, RecordError
    <2>3. /\ from \in Locked /\ to \in Locked /\ from \in Looped /\ to \in Looped
          /\ to \in Points
          /\ from \notin {"answer", "done"} /\ to \notin {"answer", "done"}
      BY DEF Points, Locked, Looped, Recording
    <2> QED
      BY <1>1, <2>1, <2>2, <2>3, MoveRequests
  <1> QED
    BY <1>2, <1>3, <1>4

\* Leaving the lock adds the one record of the request to the history.
LEMMA ReleaseRequests ==
  ASSUME RequestInv, NEW r \in Requests, RecordRelease(r)
  PROVE  RequestInv'
  <1> DEFINE e == [request |-> r, path |-> path[r], ms |-> ms[r],
                   failed |-> outcome[r] # "ok"]
             E == [request : Requests, path : Paths, ms : Nat, failed : BOOLEAN]
  <1>1. /\ pc[r] = "release" /\ pc'[r] = "answer"
        /\ pc' \in [Requests -> Points]
        /\ \A q \in Requests \ {r} : pc'[q] = pc[q]
    BY DEF RecordRelease, Goto, RequestInv, Points, Looped
  <1>2. lock' = Nobody /\ log' = Append(log, e) /\ UNCHANGED <<loop, path, outcome, ms>>
    BY DEF RecordRelease
  <1>3. e \in E /\ e.request = r /\ e.path = path[r] /\ (e.failed <=> outcome[r] # "ok")
    BY DEF RequestInv
  <1>4. log \in Seq(E)
    BY DEF RequestInv
  <1> HIDE DEF e, E
  <1>5. /\ log' \in Seq(E)
        /\ DOMAIN log' = DOMAIN log \cup {Len(log) + 1}
        /\ Len(log) + 1 \notin DOMAIN log
        /\ \A i \in DOMAIN log : log'[i] = log[i]
        /\ log'[Len(log) + 1] = e
    BY <1>2, <1>3, <1>4
  <1>6. \A i \in DOMAIN log : log[i].request \in Requests /\ log[i].request # r
    BY <1>1, Recorded
  <1>7. \A q \in Requests : lock' = q <=> pc'[q] \in Locked
    <2>1. lock = r /\ "answer" \notin Locked
      BY <1>1 DEF RequestInv, Locked, Recording
    <2>2. \A q \in Requests \ {r} : pc[q] \notin Locked
      BY <2>1 DEF RequestInv
    <2> QED
      BY <1>1, <1>2, <2>1, <2>2, MetricsAssumption
  <1>8. \A q \in Requests : loop' = q <=> pc'[q] \in Looped
    BY <1>1, <1>2 DEF RequestInv, Looped, Recording
  <1>9. \A i \in DOMAIN log' :
          LET q == log'[i].request IN
            /\ pc'[q] \in {"answer", "done"}
            /\ log'[i].path = path'[q]
            /\ log'[i].failed <=> outcome'[q] # "ok"
    <2> SUFFICES ASSUME NEW i \in DOMAIN log'
                 PROVE  LET q == log'[i].request IN
                          /\ pc'[q] \in {"answer", "done"}
                          /\ log'[i].path = path'[q]
                          /\ log'[i].failed <=> outcome'[q] # "ok"
      OBVIOUS
    <2>1. CASE i \in DOMAIN log
      <3>1. log'[i] = log[i] /\ log[i].request \in Requests /\ log[i].request # r
        BY <1>5, <1>6, <2>1
      <3>2. /\ pc[log[i].request] \in {"answer", "done"}
            /\ log[i].path = path[log[i].request]
            /\ log[i].failed <=> outcome[log[i].request] # "ok"
        BY <2>1 DEF RequestInv
      <3>3. pc'[log[i].request] = pc[log[i].request]
        BY <1>1, <3>1
      <3> QED
        BY <1>2, <3>1, <3>2, <3>3
    <2>2. CASE i = Len(log) + 1
      BY <1>1, <1>2, <1>3, <1>5, <2>2
    <2> QED
      BY <1>5, <2>1, <2>2
  <1>10. \A i, j \in DOMAIN log' : log'[i].request = log'[j].request => i = j
    <2>1. \A i, j \in DOMAIN log : log[i].request = log[j].request => i = j
      BY DEF RequestInv
    <2>2. /\ \A i \in DOMAIN log : log'[i].request = log[i].request /\ log'[i].request # r
          /\ log'[Len(log) + 1].request = r
      BY <1>3, <1>5, <1>6
    <2> QED
      BY <1>5, <2>1, <2>2
  <1>11. ASSUME NEW q \in Requests, pc'[q] \in {"answer", "done"}
         PROVE  \E i \in DOMAIN log' : log'[i].request = q
    <2>1. CASE q = r
      BY <1>3, <1>5, <2>1
    <2>2. CASE q # r
      <3>1. PICK i \in DOMAIN log : log[i].request = q
        BY <1>1, <1>11, <2>2 DEF RequestInv
      <3> QED
        BY <1>5, <3>1
    <2> QED
      BY <2>1, <2>2
  <1>12. /\ lock' \in Requests \cup {Nobody} /\ loop' \in Requests \cup {Nobody}
         /\ path' \in [Requests -> Paths] /\ outcome' \in [Requests -> Outcomes]
         /\ ms' \in [Requests -> Nat]
    BY <1>2 DEF RequestInv
  <1> QED
    BY <1>1, <1>5, <1>7, <1>8, <1>9, <1>10, <1>11, <1>12 DEF RequestInv, E

\* Answering gives the event loop back; the record stays.
LEMMA AnswerRequests ==
  ASSUME RequestInv, NEW r \in Requests, Answer(r)
  PROVE  RequestInv'
  <1>1. /\ pc[r] = "answer" /\ pc'[r] = "done"
        /\ pc' \in [Requests -> Points]
        /\ \A q \in Requests \ {r} : pc'[q] = pc[q]
    BY DEF Answer, Goto, RequestInv, Points
  <1>2. loop' = Nobody /\ UNCHANGED <<lock, path, outcome, ms, log>>
    BY DEF Answer
  <1>3. \A q \in Requests : lock' = q <=> pc'[q] \in Locked
    BY <1>1, <1>2 DEF RequestInv, Locked, Recording
  <1>4. \A q \in Requests : loop' = q <=> pc'[q] \in Looped
    <2>1. loop = r /\ "done" \notin Looped
      BY <1>1 DEF RequestInv, Looped, Recording
    <2>2. \A q \in Requests \ {r} : pc[q] \notin Looped
      BY <2>1 DEF RequestInv
    <2> QED
      BY <1>1, <1>2, <2>1, <2>2, MetricsAssumption
  <1>6. \A i \in DOMAIN log' :
          LET q == log'[i].request IN
            /\ pc'[q] \in {"answer", "done"}
            /\ log'[i].path = path'[q]
            /\ log'[i].failed <=> outcome'[q] # "ok"
    BY <1>1, <1>2, Recorded
  <1>7. \A q \in Requests : pc'[q] \in {"answer", "done"} =>
          \E i \in DOMAIN log' : log'[i].request = q
    BY <1>1, <1>2 DEF RequestInv
  <1> QED
    BY <1>1, <1>2, <1>3, <1>4, <1>6, <1>7 DEF RequestInv

\* RequestInv is inductive.
LEMMA NextRequests == RequestInv /\ [Next]_vars => RequestInv'
  <1> SUFFICES ASSUME RequestInv, [Next]_vars PROVE RequestInv'
    OBVIOUS
  <1>1. ASSUME NEW r \in Requests, Receive(r) PROVE RequestInv'
    BY <1>1, ReceiveRequests
  <1>2. ASSUME NEW r \in Requests, Step(r) PROVE RequestInv'
    BY <1>2, WorkerRequests, RecordingRequests, ReleaseRequests, AnswerRequests
    DEF Step
  <1>3. CASE UNCHANGED vars
    BY <1>3 DEF RequestInv, vars
  <1> QED
    BY <1>1, <1>2, <1>3 DEF Next, Terminating

\* The lock and the event loop are kept exactly where they should be, and the
\* history holds the requests that are past their record.
THEOREM RequestInvariant == Spec => []RequestInv
  BY InitRequests, NextRequests, PTL DEF Spec

\* The event loop is never blocked by a lock that needs the event loop to be
\* released: snapshots are the only ones it waits for.
THEOREM LoopIsSafe == Spec => []LoopNeverWaitsForItself
  <1>1. RequestInv => LoopNeverWaitsForItself
    <2> SUFFICES ASSUME RequestInv, NEW r \in Requests, NEW q \in Requests,
                        loop = r, pc[r] = "acquire", lock = q
                 PROVE  pc[q] = "visit"
      BY DEF LoopNeverWaitsForItself
    <2>1. pc[q] \in Locked
      BY DEF RequestInv
    <2>2. pc[q] \notin Recording
      BY DEF RequestInv, Looped, Recording
    <2> QED
      BY <2>1, <2>2 DEF Locked
  <1> QED
    BY <1>1, RequestInvariant, PTL

\* Every answered request has been counted, once, under its path, and as an
\* error exactly if it is one.
THEOREM AnswersAreCounted == Spec => []CountedOnce
  <1>1. RequestInv => CountedOnce
    <2> SUFFICES ASSUME RequestInv, NEW r \in Requests
                 PROVE  LET mine == {i \in DOMAIN log : log[i].request = r} IN
                          /\ \A i, j \in mine : i = j
                          /\ pc[r] = "done" =>
                               \E i \in mine : /\ log[i].path = path[r]
                                               /\ log[i].failed <=> outcome[r] # "ok"
      BY DEF CountedOnce
    <2>1. \A i, j \in DOMAIN log : log[i].request = log[j].request => i = j
      BY DEF RequestInv
    <2>2. pc[r] = "done" => \E i \in DOMAIN log : log[i].request = r
      BY DEF RequestInv
    <2> QED
      BY <2>1, <2>2, Recorded
  <1> QED
    BY <1>1, RequestInvariant, PTL

-----------------------------------------------------------------------------
(* Sums of a function over a finite set *)

\* The sum of f over S.
Sum(f, S) == MapThenSumSet(LAMBDA x : f[x], S)

\* One place for each unit of each value.
Units(f, S) == UNION {{x} \X (1 .. f[x]) : x \in S}

\* F adds the values of f, one by one in any order, over each subset of S.
AddsUp(F, f, S) ==
  /\ F \in [SUBSET S -> Nat]
  /\ F[{}] = 0
  /\ \A s \in SUBSET S : \A x \in s : F[s] = f[x] + F[s \ {x}]

\* This makes it the sum.
LEMMA SumIs ==
  ASSUME NEW S, IsFiniteSet(S), NEW f, NEW F, AddsUp(F, f, S)
  PROVE  Sum(f, S) = F[S]
  <1> USE DEF AddsUp
  <1> DEFINE OneLess(G, s) ==
        IF s = {} THEN 0 ELSE LET x == CHOOSE x \in s : TRUE IN f[x] + G[s \ {x}]
  <1>1. F = [s \in SUBSET S |-> OneLess(F, s)]
    <2>1. ASSUME NEW s \in SUBSET S PROVE F[s] = OneLess(F, s)
      <3>1. CASE s = {}
        BY <3>1
      <3>2. CASE s # {}
        <4>1. (CHOOSE x \in s : TRUE) \in s
          BY <3>2
        <4> QED
          BY <3>2, <4>1
      <3> QED
        BY <3>1, <3>2
    <2> HIDE DEF OneLess
    <2> QED
      BY <2>1
  <1>2. PICK G : G = [s \in SUBSET S |-> OneLess(G, s)] /\ Sum(f, S) = G[S]
    BY <1>1 DEF Sum, MapThenSumSet, MapThenFoldSet
  <1> DEFINE Differ == {s \in SUBSET S : F[s] # G[s]}
  <1>3. CASE Differ = {}
    BY <1>2, <1>3
  <1>4. CASE Differ # {}
    <2>1. Differ \subseteq FiniteSubsetsOf(S)
      BY FS_Subset DEF FiniteSubsetsOf
    <2>2. PICK s \in Differ : \A t \in Differ : <<t, s>> \notin StrictSubsetOrdering(S)
      <3>1. IsWellFoundedOn(StrictSubsetOrdering(S), FiniteSubsetsOf(S))
        BY FS_StrictSubsetOrderingWellFounded
      <3> HIDE DEF Differ
      <3> QED
        BY <1>4, <2>1, <3>1, WFMin
    <2>3. s # {}
      BY <1>2
    <2> DEFINE x == CHOOSE x \in s : TRUE
    <2>4. x \in s /\ s \ {x} \in SUBSET S /\ s \ {x} # s /\ s \ {x} \subseteq s
      BY <2>3
    <2>5. <<s \ {x}, s>> \in StrictSubsetOrdering(S)
      BY <2>4 DEF StrictSubsetOrdering
    <2>6. F[s \ {x}] = G[s \ {x}]
      BY <2>2, <2>4, <2>5
    <2>7. G[s] = f[x] + G[s \ {x}]
      BY <1>2, <2>3
    <2>8. F[s] = f[x] + F[s \ {x}]
      BY <2>4
    <2> QED
      BY <2>6, <2>7, <2>8
  <1> QED
    BY <1>3, <1>4

\* Finitely many values have finitely many units.
LEMMA UnitsFinite ==
  ASSUME NEW S, IsFiniteSet(S), NEW f, \A x \in S : f[x] \in Nat
  PROVE  IsFiniteSet(Units(f, S))
  <1> DEFINE R == {{x} \X (1 .. f[x]) : x \in S}
             g == [x \in S |-> {x} \X (1 .. f[x])]
  <1>1. g \in Surjection(S, R)
    BY DEF Surjection
  <1>2. IsFiniteSet(R)
    BY <1>1, FS_Surjection
  <1>3. ASSUME NEW x \in S PROVE IsFiniteSet({x} \X (1 .. f[x]))
    <2>1. f[x] \in Int /\ 1 \in Int
      OBVIOUS
    <2>2. IsFiniteSet({x}) /\ IsFiniteSet(1 .. f[x])
      BY <2>1, FS_Singleton, FS_Interval
    <2> QED
      BY <2>2, FS_Product
  <1> QED
    BY <1>2, <1>3, FS_UNION DEF Units

\* The units of two sets of values that share nothing.
LEMMA UnitsAdd ==
  ASSUME NEW A, NEW B, A \cap B = {}, IsFiniteSet(A), IsFiniteSet(B),
         NEW f, \A x \in A \cup B : f[x] \in Nat
  PROVE  Cardinality(Units(f, A \cup B)) =
           Cardinality(Units(f, A)) + Cardinality(Units(f, B))
  <1>1. Units(f, A \cup B) = Units(f, A) \cup Units(f, B)
    BY DEF Units
  <1>2. Units(f, A) \cap Units(f, B) = {}
    BY DEF Units
  <1>3. IsFiniteSet(Units(f, A)) /\ IsFiniteSet(Units(f, B))
    BY UnitsFinite
  <1>4. /\ Cardinality(Units(f, A)) \in Nat /\ Cardinality(Units(f, B)) \in Nat
        /\ Cardinality({}) = 0
    BY <1>3, FS_CardinalityType, FS_EmptySet
  <1>5. Cardinality(Units(f, A) \cup Units(f, B)) =
          Cardinality(Units(f, A)) + Cardinality(Units(f, B)) - Cardinality({})
    BY <1>2, <1>3, FS_Union
  <1>6. Cardinality(Units(f, A \cup B)) = Cardinality(Units(f, A) \cup Units(f, B))
    BY <1>1
  <1> QED
    BY <1>4, <1>5, <1>6

\* The numbers up to n.
LEMMA CountUpTo ==
  ASSUME NEW n \in Nat
  PROVE  IsFiniteSet(1 .. n) /\ Cardinality(1 .. n) = n
  <1>1. 1 \in Int /\ n \in Int
    OBVIOUS
  <1>2. IsFiniteSet(1 .. n) /\ Cardinality(1 .. n) = IF 1 > n THEN 0 ELSE n - 1 + 1
    BY <1>1, FS_Interval
  <1> QED
    BY <1>2

\* One value has as many units as it says.
LEMMA UnitsOfOne ==
  ASSUME NEW x, NEW f, f[x] \in Nat
  PROVE  Cardinality(Units(f, {x})) = f[x]
  <1>1. Units(f, {x}) = {x} \X (1 .. f[x])
    BY DEF Units
  <1>2. IsFiniteSet({x}) /\ Cardinality({x}) = 1
    BY FS_Singleton
  <1>3. IsFiniteSet(1 .. f[x]) /\ Cardinality(1 .. f[x]) = f[x]
    BY CountUpTo
  <1>4. Cardinality({x} \X (1 .. f[x])) = 1 * f[x]
    <2>1. Cardinality({x} \X (1 .. f[x])) = Cardinality({x}) * Cardinality(1 .. f[x])
      BY <1>2, <1>3, FS_Product
    <2> QED
      BY <1>2, <1>3, <2>1
  <1>5. 1 * f[x] = f[x]
    OBVIOUS
  <1>6. Cardinality(Units(f, {x})) = Cardinality({x} \X (1 .. f[x]))
    BY <1>1
  <1> QED
    BY <1>4, <1>5, <1>6

\* A sum of naturals counts units.
LEMMA SumIsUnits ==
  ASSUME NEW S, IsFiniteSet(S), NEW f, \A x \in S : f[x] \in Nat
  PROVE  Sum(f, S) = Cardinality(Units(f, S)) /\ Sum(f, S) \in Nat
  <1> DEFINE F == [s \in SUBSET S |-> Cardinality(Units(f, s))]
  <1>1. \A s \in SUBSET S : IsFiniteSet(s)
    BY FS_Subset
  <1>2. \A s \in SUBSET S : F[s] \in Nat
    BY <1>1, UnitsFinite, FS_CardinalityType
  <1>3. F \in [SUBSET S -> Nat]
    BY <1>2
  <1>4. F[{}] = 0
    <2>1. Units(f, {}) = {}
      BY DEF Units
    <2> QED
      BY <2>1, FS_EmptySet
  <1>5. ASSUME NEW s \in SUBSET S, NEW x \in s
        PROVE  F[s] = f[x] + F[s \ {x}]
    <2>1. /\ s = {x} \cup (s \ {x}) /\ {x} \cap (s \ {x}) = {}
          /\ IsFiniteSet({x}) /\ IsFiniteSet(s \ {x})
          /\ \A y \in {x} \cup (s \ {x}) : f[y] \in Nat
      BY <1>1, FS_Singleton
    <2>2. Cardinality(Units(f, s)) =
            Cardinality(Units(f, {x})) + Cardinality(Units(f, s \ {x}))
      BY <2>1, UnitsAdd
    <2> QED
      BY <2>2, UnitsOfOne
  <1>6. \A s \in SUBSET S : \A x \in s : F[s] = f[x] + F[s \ {x}]
    BY <1>5
  <1> HIDE DEF F
  <1>7. AddsUp(F, f, S)
    BY <1>3, <1>4, <1>6 DEF AddsUp
  <1>8. Sum(f, S) = F[S]
    BY <1>7, SumIs
  <1> QED
    BY <1>2, <1>8 DEF F

\* Sums over sets that share nothing add up.
LEMMA SumAdds ==
  ASSUME NEW A, NEW B, A \cap B = {}, IsFiniteSet(A), IsFiniteSet(B),
         NEW f, \A x \in A \cup B : f[x] \in Nat
  PROVE  Sum(f, A \cup B) = Sum(f, A) + Sum(f, B)
  <1>1. IsFiniteSet(A \cup B)
    BY FS_Union
  <1> QED
    BY <1>1, SumIsUnits, UnitsAdd

\* The sum over one element, and over none.
LEMMA SumOfOne ==
  ASSUME NEW x, NEW f, f[x] \in Nat
  PROVE  Sum(f, {x}) = f[x] /\ Sum(f, {}) = 0
  <1>1. Units(f, {}) = {}
    BY DEF Units
  <1> QED
    BY <1>1, SumIsUnits, UnitsOfOne, FS_Singleton, FS_EmptySet

\* A sum depends only on the values it adds.
LEMMA SumAgrees ==
  ASSUME NEW S, IsFiniteSet(S), NEW f, NEW g, \A x \in S : f[x] \in Nat /\ g[x] = f[x]
  PROVE  Sum(f, S) = Sum(g, S)
  <1>1. Units(f, S) = Units(g, S)
    BY DEF Units
  <1> QED
    BY <1>1, SumIsUnits

-----------------------------------------------------------------------------
(* How the counters of a history grow with a record *)

\* The records of MetricsService.
Records == [request : Requests, path : Paths, ms : Nat, failed : BOOLEAN]

\* The durations of the records of a history.
MsOf(h) == [i \in DOMAIN h |-> h[i].ms]

\* A history with one more record.
LEMMA Grown ==
  ASSUME NEW h \in Seq(Records), NEW e \in Records
  PROVE  /\ Len(h) \in Nat /\ DOMAIN h = 1 .. Len(h)
         /\ Append(h, e) \in Seq(Records) /\ Len(Append(h, e)) = Len(h) + 1
         /\ DOMAIN Append(h, e) = DOMAIN h \cup {Len(h) + 1}
         /\ Len(h) + 1 \notin DOMAIN h
         /\ \A i \in DOMAIN h : Append(h, e)[i] = h[i] /\ h[i] \in Records
         /\ Append(h, e)[Len(h) + 1] = e
         /\ e.ms \in Nat /\ \A i \in DOMAIN h : h[i].ms \in Nat
  <1>1. \A r \in Records : r.ms \in Nat
    BY DEF Records
  <1> HIDE DEF Records
  <1> QED
    BY <1>1

\* A path has finitely many records.
LEMMA AtFinite ==
  ASSUME NEW h \in Seq(Records), NEW T, T \subseteq DOMAIN h
  PROVE  IsFiniteSet(T) /\ Cardinality(T) \in Nat
  <1>1. Len(h) \in Int /\ 1 \in Int /\ T \in SUBSET (1 .. Len(h))
    OBVIOUS
  <1>2. IsFiniteSet(1 .. Len(h))
    BY <1>1, FS_Interval
  <1>3. IsFiniteSet(T)
    BY <1>1, <1>2, FS_Subset
  <1> QED
    BY <1>3, FS_CardinalityType

\* The next record is at the end, under its path.
LEMMA AtGrows ==
  ASSUME NEW h \in Seq(Records), NEW e \in Records, NEW p
  PROVE  /\ e.path = p => At(Append(h, e), p) = At(h, p) \cup {Len(h) + 1}
         /\ e.path # p => At(Append(h, e), p) = At(h, p)
         /\ At(h, p) \subseteq DOMAIN h /\ Len(h) + 1 \notin At(h, p)
  BY Grown DEF At

\* One more request of its path.
LEMMA CountGrows ==
  ASSUME NEW h \in Seq(Records), NEW e \in Records
  PROVE  Cardinality(At(Append(h, e), e.path)) = Cardinality(At(h, e.path)) + 1
  <1>1. IsFiniteSet(At(h, e.path))
    BY AtFinite DEF At
  <1>2. Cardinality(At(h, e.path) \cup {Len(h) + 1}) = Cardinality(At(h, e.path)) + 1
    BY <1>1, FS_AddElement, AtGrows
  <1> QED
    BY <1>2, AtGrows

\* The time of some records is a sum.
LEMMA TimeIsSum ==
  ASSUME NEW h \in Seq(Records), NEW T, T \subseteq DOMAIN h
  PROVE  /\ MapThenSumSet(LAMBDA i : h[i].ms, T) = Sum(MsOf(h), T)
         /\ Sum(MsOf(h), T) \in Nat
         /\ \A i \in T : MsOf(h)[i] \in Nat
  <1> DEFINE g == [i \in T |-> h[i].ms]
  <1>1. \A i \in T : MsOf(h)[i] = h[i].ms /\ MsOf(h)[i] \in Nat /\ g[i] = MsOf(h)[i]
    <2>1. \A r \in Records : r.ms \in Nat
      BY DEF Records
    <2>2. \A i \in T : h[i] \in Records
      OBVIOUS
    <2> QED
      BY <2>1, <2>2 DEF MsOf
  <1>2. Sum(MsOf(h), T) \in Nat
    BY <1>1, AtFinite, SumIsUnits
  <1>3. MapThenSumSet(LAMBDA i : h[i].ms, T) = Sum(MsOf(h), T)
    <2>1. MapThenSumSet(LAMBDA i : h[i].ms, T) = Sum(g, T)
      BY ZenonT(40) DEF Sum, MapThenSumSet, MapThenFoldSet
    <2> HIDE DEF g
    <2> QED
      BY <1>1, <2>1, AtFinite, SumAgrees
  <1> QED
    BY <1>1, <1>2, <1>3

\* The time of a path grows by the duration of its record.
LEMMA TimeGrows ==
  ASSUME NEW h \in Seq(Records), NEW e \in Records, NEW p
  PROVE  /\ TimeOf(h, p) \in Nat
         /\ TimeOf(Append(h, e), p) = IF e.path = p THEN TimeOf(h, p) + e.ms
                                      ELSE TimeOf(h, p)
  <1> DEFINE g == MsOf(Append(h, e))
             n == Len(h) + 1
  <1>1. TimeOf(h, p) = Sum(MsOf(h), At(h, p)) /\ TimeOf(h, p) \in Nat
    BY AtGrows, TimeIsSum DEF TimeOf
  <1>2. At(Append(h, e), p) \subseteq DOMAIN Append(h, e)
    BY DEF At
  <1>3. TimeOf(Append(h, e), p) = Sum(g, At(Append(h, e), p))
    BY <1>2, Grown, TimeIsSum DEF TimeOf
  <1>4. \A i \in At(h, p) : MsOf(h)[i] \in Nat /\ g[i] = MsOf(h)[i]
    <2>1. \A i \in At(h, p) : i \in DOMAIN h /\ i \in DOMAIN Append(h, e)
      BY Grown, AtGrows
    <2> QED
      BY <2>1, Grown DEF MsOf
  <1>5. Sum(g, At(h, p)) = Sum(MsOf(h), At(h, p))
    BY <1>4, AtFinite, AtGrows, SumAgrees
  <1>6. CASE e.path # p
    BY <1>1, <1>3, <1>5, <1>6, AtGrows
  <1>7. CASE e.path = p
    <2>1. g[n] = e.ms /\ e.ms \in Nat
      BY Grown DEF MsOf
    <2> HIDE DEF g, n
    <2>2. Sum(g, {n}) = e.ms
      BY <2>1, SumOfOne
    <2>3. IsFiniteSet(At(h, p)) /\ IsFiniteSet({n}) /\ At(h, p) \cap {n} = {}
      <3>1. At(h, p) \subseteq DOMAIN h /\ n \notin At(h, p)
        BY AtGrows DEF n
      <3> QED
        BY <3>1, AtFinite, FS_Singleton
    <2>5. \A i \in At(h, p) \cup {n} : g[i] \in Nat
      BY <1>4, <2>1
    <2>4. Sum(g, At(h, p) \cup {n}) = Sum(g, At(h, p)) + Sum(g, {n})
      BY <2>3, <2>5, SumAdds
    <2> QED
      BY <1>1, <1>3, <1>5, <1>7, <2>2, <2>4, AtGrows DEF n
  <1> QED
    BY <1>1, <1>6, <1>7

\* The errors of a path grow with a failed record.
LEMMA ErrorsGrow ==
  ASSUME NEW h \in Seq(Records), NEW e \in Records, NEW p
  PROVE  /\ ErrorsOf(h, p) \in Nat
         /\ ErrorsOf(Append(h, e), p) = IF e.path = p /\ e.failed THEN ErrorsOf(h, p) + 1
                                        ELSE ErrorsOf(h, p)
  <1> DEFINE Bad(s) == {i \in At(s, p) : s[i].failed}
  <1>0. /\ \A i \in At(h, p) : Append(h, e)[i] = h[i]
        /\ Append(h, e)[Len(h) + 1] = e
    BY AtGrows, Grown
  <1>1. IsFiniteSet(Bad(h)) /\ Cardinality(Bad(h)) \in Nat
    BY AtFinite, AtGrows
  <1>2. CASE e.path = p /\ e.failed
    <2>1. Bad(Append(h, e)) = Bad(h) \cup {Len(h) + 1} /\ Len(h) + 1 \notin Bad(h)
      <3>1. /\ At(Append(h, e), p) = At(h, p) \cup {Len(h) + 1}
            /\ Len(h) + 1 \notin At(h, p)
        BY <1>2, AtGrows
      <3> DEFINE A == At(h, p)
                 n == Len(h) + 1
                 f == Append(h, e)
      <3>2. f[n].failed /\ n \notin A /\ \A i \in A : f[i] = h[i]
        BY <1>0, <1>2, <3>1
      <3> HIDE DEF A, n, f
      <3>3. {i \in A \cup {n} : f[i].failed} = {i \in A : h[i].failed} \cup {n}
        BY <3>2
      <3>4. n \notin {i \in A : h[i].failed}
        BY <3>2
      <3> QED
        BY <3>1, <3>3, <3>4 DEF A, n, f
    <2>2. Cardinality(Bad(h) \cup {Len(h) + 1}) = Cardinality(Bad(h)) + 1
      BY <1>1, <2>1, FS_AddElement
    <2> QED
      BY <1>1, <1>2, <2>1, <2>2 DEF ErrorsOf
  <1>3. CASE ~ (e.path = p /\ e.failed)
    <2>1. Bad(Append(h, e)) = Bad(h)
      <3>1. CASE e.path = p
        <4> DEFINE A == At(h, p)
                   n == Len(h) + 1
                   f == Append(h, e)
        <4>1. At(f, p) = A \cup {n}
          BY <3>1, AtGrows
        <4>2. ~f[n].failed /\ \A i \in A : f[i] = h[i]
          BY <1>0, <1>3, <3>1
        <4> HIDE DEF A, n, f
        <4>3. {i \in A \cup {n} : f[i].failed} = {i \in A : h[i].failed}
          BY <4>2
        <4> QED
          BY <4>1, <4>3 DEF A, n, f
      <3>2. CASE e.path # p
        BY <1>0, <3>2, AtGrows
      <3> QED
        BY <3>1, <3>2
    <2> QED
      BY <1>1, <1>3, <2>1 DEF ErrorsOf
  <1> QED
    BY <1>2, <1>3

-----------------------------------------------------------------------------
(* The durations of a path, in the order of its records *)

\* The least number of a set of naturals.
LEMMA LeastNatural ==
  ASSUME NEW T, T \subseteq Nat, T # {}
  PROVE  \E n \in T : \A m \in T : n <= m
  <1>1. PICK n \in T : \A m \in T : <<m, n>> \notin OpToRel(<, Nat)
    BY NatLessThanWellFounded, WFMin
  <1>2. \A m \in T : ~ (m < n)
    BY <1>1 DEF OpToRel
  <1> QED
    BY <1>2

\* The records of p up to place i.
UpTo(h, p, i) == {j \in At(h, p) : j <= i}

\* Every record of p has its number.
LEMMA PlaceIs ==
  ASSUME NEW h \in Seq(Records), NEW p, NEW n \in 1 .. Cardinality(At(h, p))
  PROVE  Place(h, p, n) \in At(h, p) /\ Cardinality(UpTo(h, p, Place(h, p, n))) = n
  <1> DEFINE R(i) == Cardinality(UpTo(h, p, i))
             T == {i \in 0 .. Len(h) : R(i) >= n}
  <1>1. At(h, p) \subseteq 1 .. Len(h) /\ Len(h) \in Nat
    BY DEF At
  <1>2. \A i \in Nat : IsFiniteSet(UpTo(h, p, i)) /\ R(i) \in Nat
    <2>1. \A i \in Nat : UpTo(h, p, i) \subseteq DOMAIN h
      BY DEF UpTo, At
    <2> QED
      BY <2>1, AtFinite
  <1>3. Len(h) \in T
    <2>1. UpTo(h, p, Len(h)) = At(h, p)
      BY <1>1 DEF UpTo
    <2>2. Cardinality(At(h, p)) \in Nat
      BY AtFinite DEF At
    <2> QED
      BY <1>1, <2>1, <2>2
  <1>4. PICK i \in T : \A m \in T : i <= m
    <2>1. T \subseteq Nat /\ T # {}
      BY <1>1, <1>3
    <2> HIDE DEF T
    <2> QED
      BY <2>1, LeastNatural
  <1>5. i # 0
    <2>1. UpTo(h, p, 0) = {}
      BY <1>1 DEF UpTo
    <2>2. R(0) = 0
      BY <2>1, FS_EmptySet
    <2> QED
      BY <2>2
  <1>6. i - 1 \in 0 .. Len(h) /\ i \in 1 .. Len(h) /\ i - 1 \in Nat /\ i \in Nat
    BY <1>1, <1>5
  <1>7. R(i - 1) < n
    <2>1. i - 1 \notin T
      BY <1>4, <1>6
    <2> QED
      BY <1>2, <1>6, <2>1
  <1>8. i \in At(h, p)
    <2> SUFFICES ASSUME i \notin At(h, p) PROVE FALSE
      OBVIOUS
    <2>1. UpTo(h, p, i) = UpTo(h, p, i - 1)
      BY <1>1, <1>6 DEF UpTo
    <2> QED
      BY <1>2, <1>6, <1>7, <2>1
  <1>9. R(i) = R(i - 1) + 1
    <2>1. UpTo(h, p, i) = UpTo(h, p, i - 1) \cup {i} /\ i \notin UpTo(h, p, i - 1)
      BY <1>1, <1>6, <1>8 DEF UpTo
    <2> QED
      BY <1>2, <1>6, <2>1, FS_AddElement
  <1>10. R(i) = n
    BY <1>2, <1>6, <1>7, <1>9
  <1> QED
    BY <1>8, <1>10 DEF Place, UpTo

\* A further record does not renumber those before it.
LEMMA PlaceStays ==
  ASSUME NEW h \in Seq(Records), NEW e \in Records, NEW p,
         NEW n \in 1 .. Cardinality(At(h, p))
  PROVE  Place(Append(h, e), p, n) = Place(h, p, n)
  <1>1. CASE e.path # p
    <2>1. At(Append(h, e), p) = At(h, p)
      BY <1>1, AtGrows
    <2> QED
      BY <2>1 DEF Place
  <1>2. CASE e.path = p
    <2> DEFINE g == Append(h, e)
               m == Len(h) + 1
               A == At(h, p)
               B == At(g, p)
    <2>1. B = A \cup {m} /\ m \notin A /\ A \subseteq 1 .. Len(h) /\ Len(h) \in Nat
      BY <1>2, AtGrows
    <2>2. Cardinality(B) = Cardinality(A) + 1 /\ Cardinality(A) \in Nat
      BY <1>2, CountGrows, AtFinite, AtGrows
    <2>3. \A i \in A : {j \in B : j <= i} = {j \in A : j <= i}
      BY <2>1
    <2>4. {j \in B : j <= m} = B
      BY <2>1
    <2>5. Cardinality({j \in B : j <= m}) # n
      <3>1. Cardinality({j \in B : j <= m}) = Cardinality(A) + 1
        BY <2>2, <2>4
      <3> QED
        BY <2>2, <3>1
    <2> HIDE DEF A, B, m
    <2>6. \A i : (i \in B /\ Cardinality({j \in B : j <= i}) = n)
                  <=> (i \in A /\ Cardinality({j \in A : j <= i}) = n)
      BY <2>1, <2>3, <2>5
    <2>7. (CHOOSE i : i \in B /\ Cardinality({j \in B : j <= i}) = n)
          = (CHOOSE i : i \in A /\ Cardinality({j \in A : j <= i}) = n)
      BY <2>6
    <2> QED
      BY <2>7 DEF Place, A, B
  <1> QED
    BY <1>1, <1>2

\* The new record has the last number.
LEMMA PlaceOfLast ==
  ASSUME NEW h \in Seq(Records), NEW e \in Records
  PROVE  Place(Append(h, e), e.path, Cardinality(At(h, e.path)) + 1) = Len(h) + 1
  <1> DEFINE g == Append(h, e)
             m == Len(h) + 1
             n == Cardinality(At(h, e.path)) + 1
             A == At(h, e.path)
             B == At(g, e.path)
  <1>1. B = A \cup {m} /\ m \notin A /\ A \subseteq 1 .. Len(h) /\ Len(h) \in Nat
    BY AtGrows
  <1>2. Cardinality(B) = n /\ Cardinality(A) \in Nat /\ n = Cardinality(A) + 1
    BY CountGrows, AtFinite, AtGrows
  <1>3. g \in Seq(Records) /\ n \in 1 .. Cardinality(B)
    BY <1>2
  <1> HIDE DEF n
  <1>4. Place(g, e.path, n) \in B
        /\ Cardinality({j \in B : j <= Place(g, e.path, n)}) = n
    <2> HIDE DEF g
    <2>1. /\ Place(g, e.path, n) \in At(g, e.path)
          /\ Cardinality(UpTo(g, e.path, Place(g, e.path, n))) = n
      BY <1>3, PlaceIs
    <2> QED
      BY <2>1 DEF UpTo
  <1>5. ASSUME NEW i \in A PROVE Cardinality({j \in B : j <= i}) # n
    <2>1. {j \in B : j <= i} \subseteq A
      BY <1>1
    <2>2. IsFiniteSet(A)
      BY AtFinite, AtGrows
    <2>3. Cardinality({j \in B : j <= i}) <= Cardinality(A)
      BY <2>1, <2>2, FS_Subset
    <2> QED
      BY <1>2, <2>3
  <1> QED
    BY <1>1, <1>4, <1>5 DEF n

\* The durations of a path, with those of one more record.
LEMMA TimesGrow ==
  ASSUME NEW h \in Seq(Records), NEW e \in Records, NEW p
  PROVE  /\ Times(h, p) \in Seq(Nat)
         /\ Times(Append(h, e), p) = IF e.path = p THEN Append(Times(h, p), e.ms)
                                     ELSE Times(h, p)
  <1> DEFINE C == Cardinality(At(h, p))
             g == Append(h, e)
  <1>1. C \in Nat
    BY AtFinite, AtGrows
  <1>2. ASSUME NEW n \in 1 .. C
        PROVE  /\ h[Place(h, p, n)].ms \in Nat
               /\ g[Place(g, p, n)].ms = h[Place(h, p, n)].ms
    <2>1. Place(g, p, n) = Place(h, p, n) /\ Place(h, p, n) \in DOMAIN h
      BY PlaceStays, PlaceIs, AtGrows
    <2> QED
      BY <2>1, Grown
  <1>3. Times(h, p) \in Seq(Nat) /\ Len(Times(h, p)) = C
    BY <1>1, <1>2 DEF Times
  <1>4. CASE e.path # p
    <2>1. At(g, p) = At(h, p)
      BY <1>4, AtGrows
    <2> QED
      BY <1>2, <1>3, <1>4, <2>1 DEF Times
  <1>5. CASE e.path = p
    <2>1. Cardinality(At(g, p)) = C + 1
      BY <1>5, CountGrows
    <2>2. g[Place(g, p, C + 1)].ms = e.ms
      BY <1>5, PlaceOfLast, Grown
    <2>3. Times(g, p) = [n \in 1 .. (C + 1) |-> g[Place(g, p, n)].ms]
      BY <2>1 DEF Times
    <2>4. Times(h, p) = [n \in 1 .. C |-> h[Place(h, p, n)].ms]
      BY DEF Times
    <2>5. e.ms \in Nat
      BY Grown
    <2> HIDE DEF C, g
    <2>6. \A n \in 1 .. (C + 1) : Append(Times(h, p), e.ms)[n] = g[Place(g, p, n)].ms
      BY <1>1, <1>2, <1>3, <2>2, <2>4, <2>5
    <2>7. Append(Times(h, p), e.ms) \in [1 .. (C + 1) -> Nat]
      <3> DEFINE f == Times(h, p)
                 d == e.ms
      <3>1. f \in Seq(Nat) /\ Len(f) = C /\ d \in Nat
        BY <1>3, <2>5
      <3> HIDE DEF f, d
      <3>2. Append(f, d) \in Seq(Nat) /\ Len(Append(f, d)) = C + 1
        BY <3>1
      <3>3. Append(f, d) \in [1 .. (C + 1) -> Nat]
        <4>1. \A g1 \in Seq(Nat) : g1 \in [1 .. Len(g1) -> Nat]
          OBVIOUS
        <4> QED
          BY <3>2, <4>1
      <3> QED
        BY <3>3 DEF f, d
    <2>8. Append(Times(h, p), e.ms) = Times(g, p)
      BY <2>3, <2>6, <2>7
    <2> QED
      BY <1>3, <1>5, <2>8 DEF g
  <1> QED
    BY <1>3, <1>4, <1>5

\* A bounded deque keeps the last durations.
LEMMA PushKeepsLast ==
  ASSUME NEW s \in Seq(Nat), NEW d \in Nat
  PROVE  LastOf(Append(s, d)) = Push(LastOf(s), d)
  <1>1. Window \in Nat /\ Len(s) \in Nat /\ Append(s, d) \in Seq(Nat)
        /\ Len(Append(s, d)) = Len(s) + 1
    BY MetricsAssumption
  <1>2. CASE Window = 0
    BY <1>1, <1>2 DEF LastOf, Push
  <1>3. CASE Window > 0 /\ Len(s) < Window
    BY <1>1, <1>3 DEF LastOf, Push
  <1>4. CASE Window > 0 /\ Len(s) >= Window
    <2> DEFINE n == Len(s)
               a == SubSeq(s, n - Window + 1, n)
               b == SubSeq(Append(s, d), n - Window + 2, n + 1)
    <2>1. LastOf(s) = a
      BY <1>1, <1>4 DEF LastOf
    <2>2. LastOf(Append(s, d)) = b
      <3> DEFINE t == Append(s, d)
                 m == n + 1
      <3>1. Len(t) > Window /\ Len(t) = m /\ m - Window + 1 = n - Window + 2
        BY <1>1, <1>4
      <3> HIDE DEF t, m, n
      <3>2. LastOf(t) = SubSeq(t, m - Window + 1, m)
        BY <3>1 DEF LastOf
      <3>3. LastOf(t) = SubSeq(t, n - Window + 2, m)
        BY <3>1, <3>2
      <3> QED
        BY <3>3 DEF t, m
    <2>3. a \in Seq(Nat) /\ Len(a) = Window
          /\ \A i \in 1 .. Window : a[i] = s[n - Window + i]
      BY <1>1, <1>4
    <2>4. b \in Seq(Nat) /\ Len(b) = Window
          /\ \A i \in 1 .. Window : b[i] = Append(s, d)[n - Window + 1 + i]
      <3> DEFINE t == Append(s, d)
      <3>1. t \in Seq(Nat) /\ Len(t) = n + 1 /\ n \in Nat /\ n >= Window
        BY <1>1, <1>4
      <3> HIDE DEF t, n
      <3>2. \A i \in 1 .. Window : n - Window + 1 + i \in 1 .. (n + 1)
        BY <1>1, <3>1
      <3>3. /\ SubSeq(t, n - Window + 2, n + 1) \in Seq(Nat)
            /\ Len(SubSeq(t, n - Window + 2, n + 1)) = Window
            /\ \A i \in 1 .. Window : SubSeq(t, n - Window + 2, n + 1)[i]
                                       = t[n - Window + 1 + i]
        BY <1>1, <1>4, <3>1, <3>2
      <3> QED
        BY <3>3 DEF t
    <2> HIDE DEF a, b
    <2>5. Push(a, d) = Append(Tail(a), d)
      BY <1>1, <1>4, <2>3 DEF Push
    <2>6. Len(Append(Tail(a), d)) = Window /\ Append(Tail(a), d) \in Seq(Nat)
      BY <1>1, <1>4, <2>3
    <2>7. ASSUME NEW i \in 1 .. Window PROVE b[i] = Append(Tail(a), d)[i]
      <3>1. CASE i = Window
        <4>1. b[i] = d
          <5>1. b[i] = Append(s, d)[n - Window + 1 + i] /\ n - Window + 1 + i = n + 1
            BY <1>1, <1>4, <2>4, <3>1
          <5> QED
            BY <1>1, <5>1
        <4>2. Append(Tail(a), d)[i] = d
          BY <1>1, <1>4, <2>3, <3>1
        <4> QED
          BY <4>1, <4>2
      <3>2. CASE i < Window
        <4>1. Append(Tail(a), d)[i] = a[i + 1]
          BY <1>1, <1>4, <2>3, <3>2
        <4> DEFINE k == n - Window + 1 + i
        <4>2. k \in 1 .. Len(s) /\ k = n - Window + (i + 1) /\ i + 1 \in 1 .. Window
          BY <1>1, <1>4, <3>2
        <4>3. b[i] = Append(s, d)[k] /\ a[i + 1] = s[k]
          BY <2>3, <2>4, <4>2
        <4>4. Append(s, d)[k] = s[k]
          BY <4>2
        <4> QED
          BY <4>1, <4>3, <4>4
      <3>3. i = Window \/ i < Window
        BY <1>1
      <3> QED
        BY <3>1, <3>2, <3>3
    <2>8. b = Append(Tail(a), d)
      <3> DEFINE c == Append(Tail(a), d)
      <3>1. /\ b \in Seq(Nat) /\ Len(b) = Window
            /\ c \in Seq(Nat) /\ Len(c) = Window
            /\ \A i \in 1 .. Window : b[i] = c[i]
        BY <2>4, <2>6, <2>7
      <3> HIDE DEF c
      <3>2. b = c
        BY <3>1
      <3> QED
        BY <3>2 DEF c
    <2> QED
      BY <2>1, <2>2, <2>5, <2>8
  <1> QED
    BY <1>1, <1>2, <1>3, <1>4

-----------------------------------------------------------------------------
(* The sums of a snapshot *)

\* The counters leave the report of a snapshot nothing to add: the entries of a
\* group are sums over the records of the group.
LEMMA AggregateAddsUp ==
  ASSUME NEW h \in Seq(Records)
  PROVE  LET is == {i \in DOMAIN h : h[i].path \in Predicts}
             sums == Aggregate(Expected(h), Predicts)
         IN  /\ sums.requests = Cardinality(is)
             /\ sums.time = MapThenSumSet(LAMBDA i : h[i].ms, is)
  <1> DEFINE Of(s) == {i \in DOMAIN h : h[i].path \in s}
             ps == Predicts \cap {q \in Paths : At(h, q) # {}}
             X == Expected(h)
             f == [p \in ps |-> X[p].count]
             g == [p \in ps |-> X[p].total]
             F == [s \in SUBSET ps |-> Cardinality(Of(s))]
             G == [s \in SUBSET ps |-> Sum(MsOf(h), Of(s))]
  <1>1. \A p \in ps : f[p] = Cardinality(At(h, p)) /\ g[p] = TimeOf(h, p)
    BY DEF Expected
  <1>2. \A s : Of(s) \subseteq DOMAIN h /\ IsFiniteSet(Of(s))
    BY AtFinite
  <1>3. Of(ps) = Of(Predicts)
    <2>1. \A i \in DOMAIN h : h[i].path \in Paths /\ i \in At(h, h[i].path)
      <3>1. \A e \in Records : e.path \in Paths
        BY DEF Records
      <3>2. \A i \in DOMAIN h : h[i] \in Records
        OBVIOUS
      <3> QED
        BY <3>1, <3>2 DEF At
    <2> QED
      BY <2>1
  <1>4. IsFiniteSet(ps)
    <2> DEFINE v == [i \in Of(ps) |-> h[i].path]
    <2>1. \A p \in ps : \E i \in Of(ps) : h[i].path = p
      BY DEF At
    <2>2. v \in Surjection(Of(ps), ps)
      BY <2>1 DEF Surjection
    <2> QED
      BY <1>2, <2>2, FS_Surjection
  <1>5. ASSUME NEW s \in SUBSET ps, NEW p \in s
        PROVE  /\ Of(s) = At(h, p) \cup Of(s \ {p})
               /\ At(h, p) \cap Of(s \ {p}) = {}
               /\ At(h, p) \subseteq DOMAIN h
    BY DEF At
  <1>6. Of({}) = {}
    OBVIOUS
  <1>7. AddsUp(F, f, ps)
    <2>1. F \in [SUBSET ps -> Nat]
      BY <1>2, AtFinite
    <2>2. F[{}] = 0
      BY <1>6, FS_EmptySet
    <2>3. ASSUME NEW s \in SUBSET ps, NEW p \in s
          PROVE  F[s] = f[p] + F[s \ {p}]
      <3> DEFINE A == At(h, p)
                 B == Of(s \ {p})
      <3>1. IsFiniteSet(A) /\ IsFiniteSet(B) /\ A \cap B = {} /\ Of(s) = A \cup B
        BY <1>2, <1>5, AtFinite
      <3>2. Cardinality(A) \in Nat /\ Cardinality(B) \in Nat
        BY <3>1, FS_CardinalityType
      <3> HIDE DEF A, B, Of, ps
      <3>3. Cardinality(A \cup B) = Cardinality(A) + Cardinality(B) - Cardinality({})
        BY <3>1, FS_Union
      <3>4. Cardinality(A \cup B) = Cardinality(A) + Cardinality(B)
        BY <3>2, <3>3, FS_EmptySet
      <3>5. Cardinality(Of(s)) = Cardinality(A) + Cardinality(B)
        BY <3>1, <3>4
      <3> QED
        BY <1>1, <3>5 DEF A, B
    <2> HIDE DEF F, f
    <2> QED
      BY <2>1, <2>2, <2>3 DEF AddsUp
  <1>8. AddsUp(G, g, ps)
    <2>1. G \in [SUBSET ps -> Nat]
      BY <1>2, TimeIsSum
    <2>2. G[{}] = 0
      <3>1. Sum(MsOf(h), {}) = 0
        <4>1. Units(MsOf(h), {}) = {}
          BY DEF Units
        <4> QED
          BY <4>1, SumIsUnits, FS_EmptySet
      <3> QED
        BY <1>6, <3>1
    <2>3. ASSUME NEW s \in SUBSET ps, NEW p \in s
          PROVE  G[s] = g[p] + G[s \ {p}]
      <3> DEFINE A == At(h, p)
                 B == Of(s \ {p})
      <3>1. IsFiniteSet(A) /\ IsFiniteSet(B) /\ A \cap B = {} /\ Of(s) = A \cup B
            /\ A \subseteq DOMAIN h /\ B \subseteq DOMAIN h
        BY <1>2, <1>5, AtFinite
      <3>2. \A i \in A \cup B : MsOf(h)[i] \in Nat
        BY <3>1, TimeIsSum
      <3>3. g[p] = Sum(MsOf(h), A)
        BY <1>1, <3>1, TimeIsSum DEF TimeOf
      <3> HIDE DEF A, B, Of, ps, g
      <3>4. Sum(MsOf(h), A \cup B) = Sum(MsOf(h), A) + Sum(MsOf(h), B)
        BY <3>1, <3>2, SumAdds
      <3>5. Sum(MsOf(h), Of(s)) = Sum(MsOf(h), A) + Sum(MsOf(h), B)
        BY <3>1, <3>4
      <3> QED
        BY <3>3, <3>5 DEF B
    <2> HIDE DEF G, g
    <2> QED
      BY <2>1, <2>2, <2>3 DEF AddsUp
  <1>9. /\ MapThenSumSet(LAMBDA p : X[p].count, ps) = Sum(f, ps)
        /\ MapThenSumSet(LAMBDA p : X[p].total, ps) = Sum(g, ps)
    <2> HIDE DEF ps, X
    <2>1. MapThenSumSet(LAMBDA p : X[p].count, ps) = Sum(f, ps)
      BY ZenonT(40) DEF Sum, MapThenSumSet, MapThenFoldSet
    <2>2. MapThenSumSet(LAMBDA p : X[p].total, ps) = Sum(g, ps)
      BY ZenonT(40) DEF Sum, MapThenSumSet, MapThenFoldSet
    <2> QED
      BY <2>1, <2>2
  <1>10. Predicts \cap DOMAIN X = ps
    BY DEF Expected
  <1>11. F[ps] = Cardinality(Of(Predicts)) /\ G[ps] = Sum(MsOf(h), Of(Predicts))
    BY <1>3
  <1> HIDE DEF F, G, f, g, ps, X
  <1>12. Sum(f, ps) = F[ps] /\ Sum(g, ps) = G[ps]
    BY <1>4, <1>7, <1>8, SumIs
  <1>13. /\ Aggregate(X, Predicts).requests = MapThenSumSet(LAMBDA p : X[p].count, ps)
         /\ Aggregate(X, Predicts).time = MapThenSumSet(LAMBDA p : X[p].total, ps)
    BY <1>10 DEF Aggregate
  <1>14. MapThenSumSet(LAMBDA i : h[i].ms, Of(Predicts)) = Sum(MsOf(h), Of(Predicts))
    BY <1>2, TimeIsSum
  <1> QED
    BY <1>9, <1>11, <1>12, <1>13, <1>14 DEF X

-----------------------------------------------------------------------------
(* The counters while requests record *)

\* A request that does nothing.
Still(q) ==
  /\ pc'[q] = pc[q] /\ path'[q] = path[q] /\ outcome'[q] = outcome[q] /\ ms'[q] = ms[q]
  /\ left'[q] = left[q] /\ seen'[q] = seen[q] /\ report'[q] = report[q]
  /\ before'[q] = before[q]

\* A step is one request's own.
LEMMA OthersStill ==
  ASSUME MetricsInv, NEW r \in Requests, Receive(r) \/ Step(r)
  PROVE  \A q \in Requests \ {r} : Still(q)
  <1>0. /\ DOMAIN pc = Requests /\ DOMAIN path = Requests /\ DOMAIN outcome = Requests
        /\ DOMAIN ms = Requests /\ DOMAIN left = Requests /\ DOMAIN seen = Requests
        /\ DOMAIN report = Requests /\ DOMAIN before = Requests
    BY DEF MetricsInv, MetricsTypeOK
  <1>1. CASE Receive(r)
    BY <1>0, <1>1 DEF Receive, Still, Goto, snap
  <1>2. CASE Handle(r)
    BY <1>0, <1>2 DEF Handle, Still, Goto, snap
  <1>3. CASE SnapAcquire(r)
    BY <1>0, <1>3 DEF SnapAcquire, Still, Goto
  <1>4. CASE SnapVisit(r)
    BY <1>0, <1>4 DEF SnapVisit, Still
  <1>5. CASE SnapRelease(r)
    BY <1>0, <1>5 DEF SnapRelease, Still, Goto
  <1>6. CASE Resume(r)
    BY <1>0, <1>6 DEF Resume, Still, Goto, snap
  <1>7. CASE RecordAcquire(r) \/ RecordCount(r) \/ RecordTotal(r) \/ RecordWindow(r)
             \/ RecordError(r) \/ RecordRelease(r)
    BY <1>0, <1>7 DEF RecordAcquire, RecordCount, RecordTotal, RecordWindow,
                      RecordError, RecordRelease, Still, Goto, snap
  <1>8. CASE Answer(r)
    BY <1>0, <1>8 DEF Answer, Still, Goto, snap
  <1> QED
    BY <1>1, <1>2, <1>3, <1>4, <1>5, <1>6, <1>7, <1>8 DEF Step

\* The history is a sequence of records.
LEMMA LogType == RequestInv => log \in Seq(Records)
  BY DEF RequestInv, Records

\* Who holds the lock is alone with the counters.
LEMMA AloneWithLock ==
  ASSUME RequestInv, NEW r \in Requests, pc[r] \in Locked
  PROVE  lock = r /\ \A q \in Requests \ {r} : pc[q] \notin Locked
  BY DEF RequestInv

\* While nobody records, the counters are those of the history for everyone.
LEMMA NobodyRecords ==
  ASSUME MetricsInv, \A q \in Requests : pc[q] \notin Recording, NEW p \in Paths
  PROVE  /\ count[p] = Cardinality(At(log, p)) /\ total[p] = TimeOf(log, p)
         /\ errors[p] = ErrorsOf(log, p) /\ recent[p] = LastOf(Times(log, p))
  BY DEF MetricsInv, CountersTrue

\* A step away from the counters leaves them true.
LEMMA CountersKept ==
  ASSUME MetricsInv, NEW r \in Requests, \A q \in Requests \ {r} : Still(q),
         UNCHANGED <<counters, log>>, pc[r] \notin Recording, pc'[r] \notin Recording
  PROVE  CountersTrue' /\ RecordInv'
  <1>1. \A q \in Requests : pc'[q] \in Recording <=> pc[q] \in Recording
    BY DEF Still
  <1>2. UNCHANGED <<count, total, recent, errors, log>>
    BY DEF counters
  <1>3. CountersTrue'
    BY <1>1, <1>2 DEF MetricsInv, CountersTrue
  <1>4. ASSUME NEW q \in Requests, pc'[q] \in Recording, NEW p \in Paths
        PROVE  RecordOf(q, p)'
    <2>1. q # r /\ Still(q) /\ RecordOf(q, p)
      BY <1>1, <1>4 DEF MetricsInv, RecordInv
    <2> QED
      BY <1>2, <2>1 DEF RecordOf, Still, Failed
  <1> QED
    BY <1>3, <1>4 DEF RecordInv

\* Taking the lock finds the counters true.
LEMMA AcquireCounters ==
  ASSUME MetricsInv, NEW r \in Requests, RecordAcquire(r)
  PROVE  CountersTrue' /\ RecordInv'
  <1>1. pc[r] = "acquire" /\ pc'[r] = "count" /\ lock = Nobody
        /\ UNCHANGED <<count, total, recent, errors, log>>
    BY DEF RecordAcquire, Goto, Free, counters, MetricsInv, MetricsTypeOK
  <1>2. \A q \in Requests : pc[q] \notin Recording
    BY <1>1, MetricsAssumption DEF MetricsInv, RequestInv, Locked
  <1>3. \A q \in Requests \ {r} : pc'[q] \notin Recording
    BY <1>2, OthersStill DEF Still, Step
  <1>4. ~ \A q \in Requests : pc'[q] \notin Recording
    BY <1>1 DEF Recording
  <1>5. ASSUME NEW p \in Paths PROVE RecordOf(r, p)'
    <2>1. /\ count[p] = Cardinality(At(log, p)) /\ total[p] = TimeOf(log, p)
          /\ errors[p] = ErrorsOf(log, p) /\ recent[p] = LastOf(Times(log, p))
      BY <1>2, NobodyRecords
    <2> QED
      BY <1>1, <2>1 DEF RecordOf
  <1> QED
    BY <1>3, <1>4, <1>5 DEF CountersTrue, RecordInv

\* Nobody else has touched the counters that a request updates.
LEMMA AloneRecording ==
  ASSUME MetricsInv, NEW r \in Requests, \A q \in Requests \ {r} : Still(q),
         pc[r] \in Recording, pc'[r] \in Recording, \A p \in Paths : RecordOf(r, p)'
  PROVE  CountersTrue' /\ RecordInv'
  <1>1. \A q \in Requests \ {r} : pc[q] \notin Recording
    BY AloneWithLock DEF MetricsInv, Locked
  <1>2. \A q \in Requests \ {r} : pc'[q] \notin Recording
    BY <1>1 DEF Still
  <1> QED
    BY <1>2 DEF CountersTrue, RecordInv

\* What a request that records has done to the counters.
LEMMA RecordedSoFar ==
  ASSUME MetricsInv, NEW r \in Requests, pc[r] \in Recording, NEW p \in Paths
  PROVE  /\ RecordOf(r, p)
         /\ Cardinality(At(log, p)) \in Nat /\ TimeOf(log, p) \in Nat
         /\ ErrorsOf(log, p) \in Nat
         /\ path[r] \in Paths /\ ms[r] \in Durations /\ ms[r] \in Nat
  <1>1. log \in Seq(Records)
    BY LogType DEF MetricsInv
  <1>2. Cardinality(At(log, p)) \in Nat
    BY <1>1, AtFinite DEF At
  <1>3. TimeOf(log, p) \in Nat
    <2>1. At(log, p) \subseteq DOMAIN log
      BY DEF At
    <2> QED
      BY <1>1, <2>1, TimeIsSum DEF TimeOf
  <1>4. ErrorsOf(log, p) \in Nat
    <2>1. {i \in At(log, p) : log[i].failed} \subseteq DOMAIN log
      BY DEF At
    <2> QED
      BY <1>1, <2>1, AtFinite DEF ErrorsOf
  <1> QED
    BY <1>2, <1>3, <1>4, MetricsAssumption
    DEF MetricsInv, MetricsTypeOK, RecordInv, Looped

\* Each update of MetricsService.record brings its counter up to date.
LEMMA RecordCounters ==
  ASSUME MetricsInv, NEW r \in Requests,
         RecordCount(r) \/ RecordTotal(r) \/ RecordWindow(r) \/ RecordError(r)
  PROVE  CountersTrue' /\ RecordInv'
  <1>0. \A q \in Requests \ {r} : Still(q)
    BY OthersStill DEF Step
  <1>1. CASE RecordCount(r)
    <2>1. /\ pc[r] = "count" /\ pc'[r] = "total"
          /\ count' = [count EXCEPT ![path[r]] = @ + 1] /\ DOMAIN count = Paths
          /\ UNCHANGED <<total, recent, errors, path, outcome, ms, log>>
      BY <1>1 DEF RecordCount, Goto, MetricsInv, MetricsTypeOK
    <2>2. pc[r] \in Recording /\ pc'[r] \in Recording
      BY <2>1 DEF Recording
    <2>3. ASSUME NEW p \in Paths PROVE RecordOf(r, p)'
      <3>1. RecordOf(r, p) /\ Cardinality(At(log, p)) \in Nat
        BY <2>2, RecordedSoFar
      <3> QED
        BY <2>1, <3>1 DEF RecordOf, Recording
    <2> QED
      BY <1>0, <2>2, <2>3, AloneRecording
  <1>2. CASE RecordTotal(r)
    <2>1. /\ pc[r] = "total" /\ pc'[r] = "window"
          /\ total' = [total EXCEPT ![path[r]] = @ + ms[r]] /\ DOMAIN total = Paths
          /\ UNCHANGED <<count, recent, errors, path, outcome, ms, log>>
      BY <1>2 DEF RecordTotal, Goto, MetricsInv, MetricsTypeOK
    <2>2. pc[r] \in Recording /\ pc'[r] \in Recording
      BY <2>1 DEF Recording
    <2>3. ASSUME NEW p \in Paths PROVE RecordOf(r, p)'
      <3>1. RecordOf(r, p) /\ TimeOf(log, p) \in Nat
        BY <2>2, RecordedSoFar
      <3> QED
        BY <2>1, <3>1 DEF RecordOf, Recording
    <2> QED
      BY <1>0, <2>2, <2>3, AloneRecording
  <1>3. CASE RecordWindow(r)
    <2>1. /\ pc[r] = "window" /\ pc'[r] = "error"
          /\ recent' = [recent EXCEPT ![path[r]] = Push(@, ms[r])]
          /\ DOMAIN recent = Paths
          /\ UNCHANGED <<count, total, errors, path, outcome, ms, log>>
      BY <1>3 DEF RecordWindow, Goto, MetricsInv, MetricsTypeOK
    <2>2. pc[r] \in Recording /\ pc'[r] \in Recording
      BY <2>1 DEF Recording
    <2>3. ASSUME NEW p \in Paths PROVE RecordOf(r, p)'
      <3>1. RecordOf(r, p)
        BY <2>2, RecordedSoFar
      <3> QED
        BY <2>1, <3>1 DEF RecordOf, Recording
    <2> QED
      BY <1>0, <2>2, <2>3, AloneRecording
  <1>4. CASE RecordError(r)
    <2>1. /\ pc[r] = "error" /\ pc'[r] = "release"
          /\ errors' = [errors EXCEPT ![path[r]] = IF Failed(r) THEN @ + 1 ELSE @]
          /\ DOMAIN errors = Paths
          /\ UNCHANGED <<count, total, recent, path, outcome, ms, log>>
      BY <1>4 DEF RecordError, Goto, MetricsInv, MetricsTypeOK
    <2>2. pc[r] \in Recording /\ pc'[r] \in Recording
      BY <2>1 DEF Recording
    <2>3. ASSUME NEW p \in Paths PROVE RecordOf(r, p)'
      <3>1. RecordOf(r, p)
        BY <2>2, RecordedSoFar
      <3> QED
        BY <2>1, <3>1 DEF RecordOf, Recording, Failed
    <2> QED
      BY <1>0, <2>2, <2>3, AloneRecording
  <1> QED
    BY <1>1, <1>2, <1>3, <1>4

\* When the lock is given back, the history has the record and the counters are
\* those of the history again.
LEMMA ReleaseCounters ==
  ASSUME MetricsInv, NEW r \in Requests, RecordRelease(r)
  PROVE  CountersTrue' /\ RecordInv'
  <1> DEFINE e == [request |-> r, path |-> path[r], ms |-> ms[r],
                   failed |-> outcome[r] # "ok"]
  <1>1. /\ pc[r] = "release" /\ pc'[r] = "answer" /\ log' = Append(log, e)
        /\ UNCHANGED <<count, total, recent, errors>>
    BY DEF RecordRelease, Goto, counters, MetricsInv, MetricsTypeOK
  <1>2. pc[r] \in Recording /\ pc'[r] \notin Recording
    BY <1>1 DEF Recording
  <1>3. \A q \in Requests : pc'[q] \notin Recording
    <2>1. \A q \in Requests \ {r} : pc[q] \notin Recording
      BY <1>2, AloneWithLock DEF MetricsInv, Locked
    <2> QED
      BY <1>2, <2>1, OthersStill DEF Still, Step
  <1>4. log \in Seq(Records) /\ e \in Records
    BY LogType DEF MetricsInv, RequestInv, Records
  <1>5. e.path = path[r] /\ e.ms = ms[r] /\ (e.failed <=> Failed(r))
    BY DEF Failed
  <1> HIDE DEF e
  <1>6. ASSUME NEW p \in Paths
        PROVE  /\ count'[p] = Cardinality(At(log', p))
               /\ total'[p] = TimeOf(log', p)
               /\ errors'[p] = ErrorsOf(log', p)
               /\ recent'[p] = LastOf(Times(log', p))
    <2>1. RecordOf(r, p) /\ ms[r] \in Nat
      BY <1>2, RecordedSoFar
    <2>2. CASE p = path[r]
      <3>1. /\ count[p] = Cardinality(At(log, p)) + 1
            /\ total[p] = TimeOf(log, p) + ms[r]
            /\ recent[p] = Push(LastOf(Times(log, p)), ms[r])
            /\ errors[p] = IF Failed(r) THEN ErrorsOf(log, p) + 1 ELSE ErrorsOf(log, p)
        BY <1>1, <2>1, <2>2 DEF RecordOf, Recording
      <3>2. Cardinality(At(log', p)) = Cardinality(At(log, p)) + 1
        BY <1>1, <1>4, <1>5, <2>2, CountGrows
      <3>3. TimeOf(log', p) = TimeOf(log, p) + ms[r]
        BY <1>1, <1>4, <1>5, <2>2, TimeGrows
      <3>4. ErrorsOf(log', p) = IF Failed(r) THEN ErrorsOf(log, p) + 1
                                ELSE ErrorsOf(log, p)
        BY <1>1, <1>4, <1>5, <2>2, ErrorsGrow
      <3>5. LastOf(Times(log', p)) = Push(LastOf(Times(log, p)), ms[r])
        <4>1. /\ Times(log, p) \in Seq(Nat)
              /\ Times(log', p) = Append(Times(log, p), ms[r])
          BY <1>1, <1>4, <1>5, <2>2, TimesGrow
        <4> QED
          BY <2>1, <4>1, PushKeepsLast
      <3> QED
        BY <1>1, <3>1, <3>2, <3>3, <3>4, <3>5
    <2>3. CASE p # path[r]
      <3>1. /\ count[p] = Cardinality(At(log, p)) /\ total[p] = TimeOf(log, p)
            /\ recent[p] = LastOf(Times(log, p)) /\ errors[p] = ErrorsOf(log, p)
        BY <2>1, <2>3 DEF RecordOf
      <3>2. /\ At(log', p) = At(log, p) /\ TimeOf(log', p) = TimeOf(log, p)
            /\ ErrorsOf(log', p) = ErrorsOf(log, p) /\ Times(log', p) = Times(log, p)
        BY <1>1, <1>4, <1>5, <2>3, AtGrows, TimeGrows, ErrorsGrow, TimesGrow
      <3> QED
        BY <1>1, <3>1, <3>2
    <2> QED
      BY <2>2, <2>3
  <1> QED
    BY <1>3, <1>6 DEF CountersTrue, RecordInv

-----------------------------------------------------------------------------
(* What a snapshot has seen *)

\* The history only grows.
HistoryGrows == log' = log \/ \E e \in Records : log' = Append(log, e)

\* What was the history stays a part of it.
LEMMA PrefixStays ==
  ASSUME log \in Seq(Records), HistoryGrows
  PROVE  /\ Len(log) \in Nat /\ Len(log') \in Nat /\ Len(log) <= Len(log')
         /\ \A k \in 0 .. Len(log) : SubSeq(log', 1, k) = SubSeq(log, 1, k)
  <1>1. CASE log' = log
    BY <1>1
  <1>2. ASSUME NEW e \in Records, log' = Append(log, e)
        PROVE  /\ Len(log') = Len(log) + 1
               /\ \A k \in 0 .. Len(log) : SubSeq(log', 1, k) = SubSeq(log, 1, k)
    <2>1. Len(log') = Len(log) + 1 /\ log' \in Seq(Records)
          /\ \A i \in 1 .. Len(log) : log'[i] = log[i]
      BY <1>2
    <2> QED
      BY <2>1
  <1> QED
    BY <1>1, <1>2 DEF HistoryGrows

\* Where the snapshot of a healthcheck is behind it.
Behind == {"resume", "done"} \cup Looped

\* What a snapshot has seen stays what it was, while nobody touches the counters
\* of a snapshot that is running.
LEMMA SnapStays ==
  ASSUME MetricsInv, NEW q \in Requests, HistoryGrows,
         path'[q] = path[q], outcome'[q] = outcome[q], left'[q] = left[q],
         seen'[q] = seen[q], report'[q] = report[q], before'[q] = before[q],
         pc'[q] = pc[q] \/ (pc[q] \in Behind /\ pc'[q] \in Behind),
         UNCHANGED counters \/ pc[q] # "visit"
  PROVE  SnapOf(q)'
  <1>1. SnapOf(q) /\ log \in Seq(Records) /\ before[q] \in 0 .. Len(log)
    BY LogType DEF MetricsInv, SnapInv, MetricsTypeOK
  <1>2. /\ Len(log) \in Nat /\ Len(log') \in Nat /\ Len(log) <= Len(log')
        /\ \A k \in 0 .. Len(log) : SubSeq(log', 1, k) = SubSeq(log, 1, k)
    BY <1>1, PrefixStays
  <1>3. /\ pc'[q] \in {"snapshot", "visit"} => path'[q] = Health
        /\ pc'[q] = "handler" => path'[q] # Health
        /\ pc'[q] \in {"idle", "handler", "snapshot"} => seen'[q] = <<>>
    BY <1>1 DEF SnapOf, Behind, Looped, Recording
  <1>4. ASSUME pc'[q] = "visit"
        PROVE  /\ seen'[q] = [p \in Tracked' \ left'[q] |-> Entry(p)']
               /\ left'[q] \subseteq Tracked'
    <2>1. pc[q] = "visit" /\ UNCHANGED <<count, total, recent, errors>>
      BY <1>4 DEF Behind, Looped, Recording, counters
    <2> QED
      BY <1>1, <2>1 DEF SnapOf, Tracked, Entry
  <1>5. ASSUME path'[q] = Health, pc'[q] \notin {"idle", "snapshot", "visit"}
        PROVE  /\ outcome'[q] = "ok"
               /\ \E k \in before'[q] .. Len(log') :
                    seen'[q] = Expected(SubSeq(log', 1, k))
               /\ report'[q].predict = Aggregate(seen'[q], Predicts)
    <2>1. pc[q] \notin {"idle", "snapshot", "visit"}
      BY <1>5 DEF Behind, Looped, Recording
    <2>2. PICK k \in before[q] .. Len(log) : seen[q] = Expected(SubSeq(log, 1, k))
      BY <1>1, <1>5, <2>1 DEF SnapOf
    <2>3. k \in 0 .. Len(log) /\ k \in before'[q] .. Len(log')
      BY <1>1, <1>2, <2>2
    <2> QED
      BY <1>1, <1>2, <1>5, <2>1, <2>2, <2>3 DEF SnapOf
  <1> QED
    BY <1>3, <1>4, <1>5 DEF SnapOf

\* A step that is neither a reception nor of a snapshot.
LEMMA SnapAfterMove ==
  ASSUME MetricsInv, NEW r \in Requests,
         \/ Resume(r) \/ RecordAcquire(r) \/ RecordCount(r) \/ RecordTotal(r)
         \/ RecordWindow(r) \/ RecordError(r) \/ RecordRelease(r) \/ Answer(r)
  PROVE  SnapInv'
  <1>1. /\ pc[r] \in Behind /\ pc'[r] \in Behind
        /\ UNCHANGED <<path, outcome, left, seen, report, before>>
    <2>1. DOMAIN pc = Requests
      BY DEF MetricsInv, MetricsTypeOK
    <2> QED
      BY <2>1 DEF Resume, AfterHandler, RecordAcquire, RecordCount, RecordTotal,
            RecordWindow, RecordError, RecordRelease, Answer, Goto, snap,
            Behind, Looped, Recording
  <1>2. HistoryGrows
    <2>1. CASE RecordRelease(r)
      BY <2>1 DEF RecordRelease, HistoryGrows, Records, MetricsInv, RequestInv
    <2>2. CASE ~ RecordRelease(r)
      BY <2>2 DEF Resume, RecordAcquire, RecordCount, RecordTotal,
            RecordWindow, RecordError, Answer, HistoryGrows
    <2> QED
      BY <2>1, <2>2
  <1>3. ASSUME NEW q \in Requests \ {r} PROVE UNCHANGED counters \/ pc[q] # "visit"
    <2>1. CASE pc[r] \in Recording
      <3>1. pc[q] \notin Locked
        BY <2>1, AloneWithLock DEF MetricsInv, Locked
      <3> QED
        BY <3>1 DEF Locked
    <2>2. CASE pc[r] \notin Recording
      BY <2>2 DEF Resume, RecordAcquire, RecordCount, RecordTotal, RecordWindow,
                  RecordError, RecordRelease, Answer, Goto, Recording
    <2> QED
      BY <2>1, <2>2
  <1>4. \A q \in Requests \ {r} : pc'[q] = pc[q]
    BY OthersStill DEF Still, Step
  <1>5. pc[r] # "visit"
    BY <1>1 DEF Behind, Looped, Recording
  <1>6. ASSUME NEW q \in Requests PROVE SnapOf(q)'
    BY <1>1, <1>2, <1>3, <1>4, <1>5, SnapStays
  <1> QED
    BY <1>6 DEF SnapInv

\* The snapshots of the other requests, while one does not record.
LEMMA OtherSnaps ==
  ASSUME MetricsInv, NEW r \in Requests, UNCHANGED <<counters, log>>,
         \A q \in Requests \ {r} : Still(q), SnapOf(r)'
  PROVE  SnapInv'
  <1>1. HistoryGrows
    BY DEF HistoryGrows
  <1>2. ASSUME NEW q \in Requests \ {r} PROVE SnapOf(q)'
    BY <1>1, SnapStays DEF Still
  <1> QED
    BY <1>2 DEF SnapInv

\* A healthcheck goes to its snapshot, having seen nothing.
LEMMA ReceiveSnaps ==
  ASSUME MetricsInv, NEW r \in Requests, Receive(r) \/ Handle(r)
  PROVE  SnapInv'
  <1>1. \A q \in Requests \ {r} : Still(q)
    BY OthersStill DEF Step
  <1>2. SnapOf(r) /\ DOMAIN pc = Requests /\ DOMAIN path = Requests
    BY DEF MetricsInv, SnapInv, MetricsTypeOK
  <1>3. CASE Receive(r)
    <2>1. PICK p \in Paths :
            /\ path' = [path EXCEPT ![r] = p]
            /\ Goto(r, "idle", IF p = Health THEN "snapshot" ELSE "handler")
      BY <1>3 DEF Receive
    <2>2. /\ pc[r] = "idle" /\ path'[r] = p
          /\ pc'[r] = IF p = Health THEN "snapshot" ELSE "handler"
          /\ UNCHANGED <<counters, log, seen>>
      BY <1>2, <1>3, <2>1 DEF Receive, Goto, snap
    <2>3. SnapOf(r)'
      BY <1>2, <2>2 DEF SnapOf
    <2> QED
      BY <1>1, <2>2, <2>3, OtherSnaps
  <1>4. CASE Handle(r)
    <2>1. /\ pc[r] = "handler" /\ pc'[r] = "resume"
          /\ UNCHANGED <<counters, log, path>>
      BY <1>2, <1>4 DEF Handle, Goto
    <2>2. SnapOf(r)'
      BY <1>2, <2>1 DEF SnapOf
    <2> QED
      BY <1>1, <2>1, <2>2, OtherSnaps
  <1> QED
    BY <1>3, <1>4

\* While a request keeps the lock for its snapshot, nobody records.
LEMMA VisitAlone ==
  ASSUME MetricsInv, NEW r \in Requests, pc[r] = "visit" \/ lock = Nobody
  PROVE  \A q \in Requests : pc[q] \notin Recording
  <1>1. CASE lock = Nobody
    BY <1>1, MetricsAssumption DEF MetricsInv, RequestInv, Locked
  <1>2. CASE pc[r] = "visit"
    <2>1. pc[r] \in Locked /\ pc[r] \notin Recording
      BY <1>2 DEF Locked, Recording
    <2> QED
      BY <2>1, AloneWithLock DEF MetricsInv, Locked
  <1> QED
    BY <1>1, <1>2

\* Then the tracked paths are those with records, and each entry is as it should.
LEMMA TrackedTrue ==
  ASSUME MetricsInv, \A q \in Requests : pc[q] \notin Recording
  PROVE  [p \in Tracked |-> Entry(p)] = Expected(log)
  <1>1. log \in Seq(Records)
    BY LogType DEF MetricsInv
  <1>2. ASSUME NEW p \in Paths
        PROVE  /\ count[p] > 0 <=> At(log, p) # {}
               /\ Entry(p) = LET s == LastOf(Times(log, p)) IN
                   [count |-> Cardinality(At(log, p)), total |-> TimeOf(log, p),
                    errors |-> ErrorsOf(log, p),
                    p95 |-> IF s = <<>> THEN 0 ELSE Percentile95(s)]
    <2>1. /\ count[p] = Cardinality(At(log, p)) /\ total[p] = TimeOf(log, p)
          /\ errors[p] = ErrorsOf(log, p) /\ recent[p] = LastOf(Times(log, p))
      BY NobodyRecords
    <2>2. IsFiniteSet(At(log, p)) /\ Cardinality(At(log, p)) \in Nat
      BY <1>1, AtFinite DEF At
    <2>3. count[p] > 0 <=> At(log, p) # {}
      BY <2>1, <2>2, FS_EmptySet
    <2> QED
      BY <2>1, <2>3 DEF Entry
  <1>3. Tracked = {q \in Paths : At(log, q) # {}}
    BY <1>2 DEF Tracked
  <1> QED
    BY <1>2, <1>3 DEF Expected

\* A snapshot takes the lock, visits each tracked path, and gives it back having
\* seen all of them.
LEMMA SnapshotSnaps ==
  ASSUME MetricsInv, NEW r \in Requests,
         SnapAcquire(r) \/ SnapVisit(r) \/ SnapRelease(r)
  PROVE  SnapInv'
  <1>1. \A q \in Requests \ {r} : Still(q)
    BY OthersStill DEF Step
  <1>2. /\ SnapOf(r) /\ DOMAIN pc = Requests /\ left \in [Requests -> SUBSET Paths]
        /\ DOMAIN seen = Requests /\ DOMAIN outcome = Requests
        /\ DOMAIN report = Requests /\ before[r] \in 0 .. Len(log)
    BY DEF MetricsInv, SnapInv, MetricsTypeOK
  <1>3. CASE SnapAcquire(r)
    <2>1. /\ pc[r] = "snapshot" /\ pc'[r] = "visit" /\ left'[r] = Tracked
          /\ UNCHANGED <<counters, log, path, seen>>
      BY <1>2, <1>3 DEF SnapAcquire, Goto
    <2>2. Tracked' = Tracked
      BY <2>1 DEF Tracked, counters
    <2>3. seen'[r] = <<>> /\ path'[r] = Health
      BY <1>2, <2>1 DEF SnapOf
    <2>4. <<>> = [p \in Tracked' \ left'[r] |-> Entry(p)']
      <3>1. Tracked' \ left'[r] = {}
        BY <2>1, <2>2
      <3> QED
        BY <3>1
    <2>5. SnapOf(r)'
      BY <2>1, <2>2, <2>3, <2>4 DEF SnapOf
    <2> QED
      BY <1>1, <2>1, <2>5, OtherSnaps
  <1>4. CASE SnapVisit(r)
    <2>1. PICK p \in left[r] :
            /\ left' = [left EXCEPT ![r] = @ \ {p}]
            /\ seen' = [seen EXCEPT ![r] =
                 [q \in DOMAIN @ \cup {p} |-> IF q # p THEN @[q] ELSE Entry(p)]]
      BY <1>4 DEF SnapVisit
    <2>2. /\ pc[r] = "visit" /\ pc'[r] = "visit" /\ left'[r] = left[r] \ {p}
          /\ seen'[r] = [q \in DOMAIN seen[r] \cup {p} |->
                           IF q # p THEN seen[r][q] ELSE Entry(p)]
          /\ UNCHANGED <<counters, log, path, count, total, recent, errors>>
      BY <1>2, <1>4, <2>1 DEF SnapVisit, counters
    <2>3. /\ seen[r] = [q \in Tracked \ left[r] |-> Entry(q)]
          /\ left[r] \subseteq Tracked /\ path[r] = Health
      BY <1>2, <2>2 DEF SnapOf
    <2>4. /\ DOMAIN seen[r] \cup {p} = Tracked \ (left[r] \ {p})
          /\ \A q \in DOMAIN seen[r] : seen[r][q] = Entry(q)
      BY <2>3
    <2>5. seen'[r] = [q \in Tracked \ (left[r] \ {p}) |-> Entry(q)]
      BY <2>2, <2>4
    <2>6. Tracked' = Tracked /\ \A q : Entry(q)' = Entry(q)
      BY <2>2 DEF Tracked, Entry
    <2>7. SnapOf(r)'
      BY <2>2, <2>3, <2>5, <2>6 DEF SnapOf
    <2> QED
      BY <1>1, <2>2, <2>7, OtherSnaps
  <1>5. CASE SnapRelease(r)
    <2>1. /\ pc[r] = "visit" /\ pc'[r] = "resume" /\ left[r] = {}
          /\ outcome'[r] = IF Tracked = DOMAIN seen[r] THEN "ok" ELSE "raised"
          /\ report'[r] = [fit |-> Aggregate(seen[r], Fits),
                           predict |-> Aggregate(seen[r], Predicts)]
          /\ UNCHANGED <<counters, log, path, seen, before>>
      BY <1>2, <1>5 DEF SnapRelease, Goto
    <2>2. seen[r] = [p \in Tracked |-> Entry(p)]
      BY <1>2, <2>1 DEF SnapOf
    <2>3. seen[r] = Expected(log)
      BY <2>1, <2>2, VisitAlone, TrackedTrue
    <2>4. SubSeq(log, 1, Len(log)) = log /\ Len(log) \in before[r] .. Len(log)
      <3>1. log \in Seq(Records)
        BY LogType DEF MetricsInv
      <3> QED
        BY <1>2, <3>1
    <2>5. outcome'[r] = "ok"
      BY <2>1, <2>2
    <2>6. \E k \in before'[r] .. Len(log') : seen'[r] = Expected(SubSeq(log', 1, k))
      BY <2>1, <2>3, <2>4
    <2>7. SnapOf(r)'
      BY <2>1, <2>5, <2>6 DEF SnapOf
    <2> QED
      BY <1>1, <2>1, <2>7, OtherSnaps
  <1> QED
    BY <1>3, <1>4, <1>5

-----------------------------------------------------------------------------
(* The inductive invariant *)

\* A window takes no more durations than it has room for.
LEMMA PushType ==
  ASSUME NEW s \in Seq(Durations), Len(s) <= Window, NEW d \in Durations
  PROVE  Push(s, d) \in Seq(Durations) /\ Len(Push(s, d)) <= Window
  <1>1. Window \in Nat /\ Len(s) \in Nat
    BY MetricsAssumption
  <1>2. CASE Window = 0
    BY <1>2 DEF Push
  <1>3. CASE Window # 0 /\ Len(s) < Window
    BY <1>1, <1>3 DEF Push
  <1>4. CASE Window # 0 /\ ~ (Len(s) < Window)
    <2>1. Len(s) = Window /\ s # <<>>
      BY <1>1, <1>4
    <2>2. Tail(s) \in Seq(Durations) /\ Len(Tail(s)) = Len(s) - 1
      BY <2>1
    <2> QED
      BY <1>1, <1>4, <2>1, <2>2 DEF Push
  <1> QED
    BY <1>2, <1>3, <1>4

\* The types of the counters, after each update.
LEMMA CounterTypes ==
  ASSUME MetricsInv, NEW r \in Requests, Receive(r) \/ Step(r)
  PROVE  /\ count' \in [Paths -> Nat] /\ total' \in [Paths -> Nat]
         /\ recent' \in [Paths -> Seq(Durations)]
         /\ \A p \in Paths : Len(recent'[p]) <= Window
         /\ errors' \in [Paths -> Nat]
  <1> USE DEF MetricsTypeOK
  <1>1. /\ count \in [Paths -> Nat] /\ total \in [Paths -> Nat]
        /\ recent \in [Paths -> Seq(Durations)]
        /\ \A p \in Paths : Len(recent[p]) <= Window
        /\ errors \in [Paths -> Nat] /\ path[r] \in Paths
    BY DEF MetricsInv
  <1>2. CASE RecordCount(r)
    BY <1>1, <1>2 DEF RecordCount
  <1>3. CASE RecordTotal(r)
    <2>1. pc[r] \in Recording
      BY <1>3 DEF RecordTotal, Goto, Recording
    <2>2. ms[r] \in Nat
      BY <1>1, <2>1, RecordedSoFar
    <2> QED
      BY <1>1, <1>3, <2>2 DEF RecordTotal
  <1>4. CASE RecordWindow(r)
    <2>1. pc[r] \in Recording
      BY <1>4 DEF RecordWindow, Goto, Recording
    <2>2. ms[r] \in Durations
      BY <1>1, <2>1, RecordedSoFar
    <2>3. Push(recent[path[r]], ms[r]) \in Seq(Durations)
          /\ Len(Push(recent[path[r]], ms[r])) <= Window
      BY <1>1, <2>2, PushType
    <2>4. recent' = [recent EXCEPT ![path[r]] = Push(recent[path[r]], ms[r])]
      BY <1>4 DEF RecordWindow
    <2>5. UNCHANGED <<count, total, errors>>
      BY <1>4 DEF RecordWindow
    <2> QED
      BY <1>1, <2>3, <2>4, <2>5
  <1>5. CASE RecordError(r)
    BY <1>1, <1>5 DEF RecordError
  <1>6. CASE Receive(r) \/ Handle(r) \/ SnapAcquire(r) \/ SnapVisit(r) \/ SnapRelease(r)
             \/ Resume(r) \/ RecordAcquire(r) \/ RecordRelease(r) \/ Answer(r)
    <2>1. UNCHANGED <<count, total, recent, errors>>
      BY <1>6 DEF Receive, Handle, SnapAcquire, SnapVisit, SnapRelease, Resume,
                  RecordAcquire, RecordRelease, Answer, counters
    <2> QED
      BY <1>1, <2>1
  <1> QED
    BY <1>2, <1>3, <1>4, <1>5, <1>6 DEF Step

\* The types of what a request keeps, and the duration it has measured.
LEMMA RequestTypes ==
  ASSUME MetricsInv, NEW r \in Requests, Receive(r) \/ Step(r), log' \in Seq(Records)
  PROVE  /\ ms' \in [Requests -> Durations \cup {0}]
         /\ left' \in [Requests -> SUBSET Paths]
         /\ DOMAIN seen' = Requests /\ \A q \in Requests : DOMAIN seen'[q] \subseteq Paths
         /\ DOMAIN report' = Requests
         /\ before' \in [Requests -> 0 .. Len(log')]
         /\ \A q \in Requests : pc'[q] \in Looped => ms'[q] \in Durations
  <1>1. /\ ms \in [Requests -> Durations \cup {0}]
        /\ left \in [Requests -> SUBSET Paths]
        /\ DOMAIN seen = Requests /\ \A q \in Requests : DOMAIN seen[q] \subseteq Paths
        /\ DOMAIN report = Requests
        /\ before \in [Requests -> 0 .. Len(log)] /\ DOMAIN pc = Requests
        /\ \A q \in Requests : pc[q] \in Looped => ms[q] \in Durations
        /\ log \in Seq(Records) /\ Len(log) \in Nat
    <2>1. /\ RequestInv /\ MetricsTypeOK
          /\ \A q \in Requests : pc[q] \in Looped => ms[q] \in Durations
      BY DEF MetricsInv
    <2>2. log \in Seq(Records) /\ Len(log) \in Nat
      BY <2>1, LogType
    <2> QED
      BY <2>1, <2>2 DEF MetricsTypeOK
  <1>2. \A q \in Requests \ {r} : Still(q)
    BY OthersStill
  <1>3. /\ ms' \in [Requests -> Durations \cup {0}]
        /\ pc'[r] \in Looped => ms'[r] \in Durations
    <2>1. CASE Resume(r)
      BY <1>1, <2>1 DEF Resume
    <2>2. CASE RecordAcquire(r) \/ RecordCount(r) \/ RecordTotal(r) \/ RecordWindow(r)
               \/ RecordError(r) \/ RecordRelease(r)
      <3>1. pc[r] \in Looped /\ ms' = ms
        BY <2>2 DEF RecordAcquire, RecordCount, RecordTotal, RecordWindow, RecordError,
                    RecordRelease, Goto, Looped, Recording
      <3> QED
        BY <1>1, <3>1
    <2>3. CASE Receive(r) \/ Handle(r) \/ SnapAcquire(r) \/ SnapVisit(r)
               \/ SnapRelease(r) \/ Answer(r)
      <3>1. pc'[r] \notin Looped /\ ms' = ms
        BY <1>1, <2>3 DEF Receive, Handle, SnapAcquire, SnapVisit, SnapRelease, Answer,
                    Goto, Looped, Recording
      <3> QED
        BY <1>1, <3>1
    <2> QED
      BY <2>1, <2>2, <2>3 DEF Step
  <1>4. \A q \in Requests : pc'[q] \in Looped => ms'[q] \in Durations
    BY <1>1, <1>2, <1>3 DEF Still
  <1>5. left' \in [Requests -> SUBSET Paths]
    <2>1. CASE SnapAcquire(r)
      BY <1>1, <2>1 DEF SnapAcquire, Tracked
    <2>2. CASE SnapVisit(r)
      BY <1>1, <2>2 DEF SnapVisit
    <2>3. CASE ~ SnapAcquire(r) /\ ~ SnapVisit(r)
      <3>1. left' = left
        BY <2>3 DEF Step, Receive, Handle, SnapRelease, Resume, RecordAcquire,
          RecordCount, RecordTotal, RecordWindow, RecordError, RecordRelease, Answer, snap
      <3> QED
        BY <1>1, <3>1
    <2> QED
      BY <2>1, <2>2, <2>3
  <1>6. DOMAIN seen' = Requests /\ \A q \in Requests : DOMAIN seen'[q] \subseteq Paths
    <2>1. CASE SnapVisit(r)
      <3>1. PICK p \in left[r] : seen' = [seen EXCEPT ![r] =
                [q \in DOMAIN @ \cup {p} |-> IF q # p THEN @[q] ELSE Entry(p)]]
        BY <2>1 DEF SnapVisit
      <3>2. p \in Paths
        BY <1>1
      <3> QED
        BY <1>1, <3>1, <3>2
    <2>2. CASE ~ SnapVisit(r)
      <3>1. seen' = seen
        BY <2>2 DEF Step, Receive, Handle, SnapAcquire, SnapRelease, Resume,
          RecordAcquire, RecordCount, RecordTotal, RecordWindow, RecordError,
          RecordRelease, Answer, snap
      <3> QED
        BY <1>1, <3>1
    <2> QED
      BY <2>1, <2>2
  <1>7. DOMAIN report' = Requests
    BY <1>1 DEF Step, Receive, Handle, SnapAcquire, SnapVisit, SnapRelease, Resume,
          RecordAcquire, RecordCount, RecordTotal, RecordWindow, RecordError,
          RecordRelease, Answer, snap
  <1>8. before' \in [Requests -> 0 .. Len(log')]
    <2>1. CASE Receive(r)
      BY <1>1, <2>1 DEF Receive
    <2>2. CASE RecordRelease(r)
      <3>1. before' = before
        BY <2>2 DEF RecordRelease
      <3>2. Len(log') = Len(log) + 1
        BY <1>1, <2>2 DEF RecordRelease
      <3> QED
        BY <1>1, <3>1, <3>2
    <2>3. CASE ~ Receive(r) /\ ~ RecordRelease(r)
      <3>1. UNCHANGED <<before, log>>
        BY <2>3 DEF Step, Handle, SnapAcquire, SnapVisit, SnapRelease, Resume,
          RecordAcquire, RecordCount, RecordTotal, RecordWindow, RecordError, Answer
      <3> QED
        BY <1>1, <3>1
    <2> QED
      BY <2>1, <2>2, <2>3
  <1> QED
    BY <1>3, <1>4, <1>5, <1>6, <1>7, <1>8

\* MetricsInv is inductive.
LEMMA InitMetrics == Init => MetricsInv
  <1> SUFFICES ASSUME Init PROVE MetricsInv
    OBVIOUS
  <1>1. RequestInv
    BY InitRequests
  <1>2. log = <<>> /\ log \in Seq(Records)
    BY DEF Init
  <1>3. \A r \in Requests : pc[r] = "idle"
    BY DEF Init
  <1>4. MetricsTypeOK
    <2>1. /\ count \in [Paths -> Nat] /\ total \in [Paths -> Nat]
          /\ errors \in [Paths -> Nat] /\ recent \in [Paths -> Seq(Durations)]
          /\ \A p \in Paths : Len(recent[p]) <= Window
      BY MetricsAssumption DEF Init
    <2>2. /\ left \in [Requests -> SUBSET Paths]
          /\ DOMAIN seen = Requests /\ DOMAIN report = Requests
          /\ ms \in [Requests -> Durations \cup {0}]
          /\ before \in [Requests -> 0 .. Len(log)]
      BY <1>2 DEF Init
    <2>3. \A r \in Requests : DOMAIN seen[r] = {}
      BY DEF Init
    <2> QED
      BY <1>1, <2>1, <2>2, <2>3 DEF MetricsTypeOK, RequestInv
  <1>5. CountersTrue
    <2> SUFFICES ASSUME NEW p \in Paths
                 PROVE  /\ count[p] = Cardinality(At(log, p))
                        /\ total[p] = TimeOf(log, p)
                        /\ errors[p] = ErrorsOf(log, p)
                        /\ recent[p] = LastOf(Times(log, p))
      BY DEF CountersTrue
    <2>1. At(log, p) = {}
      BY <1>2 DEF At
    <2>2. Cardinality(At(log, p)) = 0
      BY <2>1, FS_EmptySet
    <2>3. ErrorsOf(log, p) = 0
      BY <2>1, FS_EmptySet DEF ErrorsOf
    <2>4. TimeOf(log, p) = 0
      <3>1. MapThenSumSet(LAMBDA i : log[i].ms, {}) = Sum(MsOf(log), {})
        BY <1>2, TimeIsSum
      <3>2. Units(MsOf(log), {}) = {}
        BY DEF Units
      <3>3. Sum(MsOf(log), {}) = 0
        BY <3>2, SumIsUnits, FS_EmptySet
      <3> QED
        BY <2>1, <3>1, <3>3 DEF TimeOf
    <2>5. LastOf(Times(log, p)) = <<>>
      <3>1. Times(log, p) = <<>>
        BY <2>2 DEF Times
      <3> QED
        BY <3>1, MetricsAssumption DEF LastOf
    <2> QED
      BY <2>2, <2>3, <2>4, <2>5 DEF Init
  <1>6. RecordInv
    BY <1>3 DEF RecordInv, Recording
  <1>7. SnapInv
    <2>1. \A r \in Requests : seen[r] = <<>>
      BY DEF Init
    <2> QED
      BY <1>3, <2>1 DEF SnapInv, SnapOf
  <1>8. \A r \in Requests : pc[r] \notin Looped
    BY <1>3 DEF Looped, Recording
  <1> QED
    BY <1>1, <1>4, <1>5, <1>6, <1>7, <1>8 DEF MetricsInv

LEMMA NextMetrics == MetricsInv /\ [Next]_vars => MetricsInv'
  <1> SUFFICES ASSUME MetricsInv, [Next]_vars PROVE MetricsInv'
    OBVIOUS
  <1>1. RequestInv'
    BY NextRequests DEF MetricsInv
  <1>2. log' \in Seq(Records)
    BY <1>1 DEF RequestInv, Records
  <1>3. ASSUME NEW r \in Requests, Receive(r) \/ Step(r) PROVE MetricsInv'
    <2>1. MetricsTypeOK'
      BY <1>1, <1>2, <1>3, CounterTypes, RequestTypes DEF MetricsTypeOK, RequestInv
    <2>2. \A q \in Requests : pc'[q] \in Looped => ms'[q] \in Durations
      BY <1>2, <1>3, RequestTypes
    <2>3. CountersTrue' /\ RecordInv'
      <3>1. CASE Receive(r) \/ Handle(r) \/ SnapAcquire(r) \/ SnapVisit(r)
                 \/ SnapRelease(r) \/ Resume(r) \/ Answer(r)
        <4>1. /\ UNCHANGED <<counters, log>>
              /\ pc[r] \notin Recording /\ pc'[r] \notin Recording
          <5>1. DOMAIN pc = Requests
            BY DEF MetricsInv, MetricsTypeOK
          <5> QED
            BY <3>1, <5>1 DEF Receive, Handle, SnapAcquire, SnapVisit, SnapRelease,
                              Resume, AfterHandler, Answer, Goto, Recording
        <4> QED
          BY <1>3, <4>1, OthersStill, CountersKept
      <3> QED
        BY <1>3, <3>1, AcquireCounters, RecordCounters, ReleaseCounters DEF Step
    <2>4. SnapInv'
      BY <1>3, ReceiveSnaps, SnapshotSnaps, SnapAfterMove DEF Step
    <2> QED
      BY <1>1, <2>1, <2>2, <2>3, <2>4 DEF MetricsInv
  <1>4. CASE UNCHANGED vars
    <2>1. UNCHANGED <<count, total, recent, errors, lock, loop, pc, path, outcome, ms,
                      left, seen, report, log, before>>
      BY <1>4 DEF vars, counters, snap
    <2>2. MetricsTypeOK' /\ CountersTrue' /\ RecordInv'
      <3>1. MetricsTypeOK /\ CountersTrue /\ RecordInv
        BY DEF MetricsInv
      <3>2. MetricsTypeOK'
        BY <2>1, <3>1 DEF MetricsTypeOK
      <3>3. CountersTrue'
        BY <2>1, <3>1 DEF CountersTrue
      <3>4. RecordInv'
        BY <2>1, <3>1 DEF RecordInv, RecordOf, Failed
      <3> QED
        BY <3>2, <3>3, <3>4
    <2>3. SnapInv'
      BY <2>1 DEF MetricsInv, SnapInv, SnapOf, Tracked, Entry
    <2> QED
      BY <1>1, <2>1, <2>2, <2>3 DEF MetricsInv
  <1> QED
    BY <1>3, <1>4 DEF Next, Terminating

\* Everything the metrics rest on holds in every reachable state.
THEOREM MetricsInvariant == Spec => []MetricsInv
  BY InitMetrics, NextMetrics, PTL DEF Spec

\* The types of the counters and of what a request keeps.
THEOREM MetricsTypes == Spec => []MetricsTypeOK
  <1>1. MetricsInv => MetricsTypeOK
    BY DEF MetricsInv
  <1> QED
    BY <1>1, MetricsInvariant, PTL

\* No record is lost or counted twice, whatever requests and snapshots overlap.
THEOREM CountersAreTrue == Spec => []CountersTrue
  <1>1. MetricsInv => CountersTrue
    BY DEF MetricsInv
  <1> QED
    BY <1>1, MetricsInvariant, PTL

\* A healthcheck reports the counters of one moment since it was received, with
\* no record half made, and the average over all predictions until then.
THEOREM SnapshotsAreMoments == Spec => []SnapshotIsOneMoment
  <1>1. MetricsInv => SnapshotIsOneMoment
    <2> SUFFICES ASSUME MetricsInv, NEW r \in Healthchecks
                 PROVE  /\ outcome[r] = "ok"
                        /\ \E k \in before[r] .. Len(log) :
                             LET is == {i \in 1 .. k : log[i].path \in Predicts} IN
                               /\ seen[r] = Expected(SubSeq(log, 1, k))
                               /\ report[r].predict.requests = Cardinality(is)
                               /\ report[r].predict.time =
                                    MapThenSumSet(LAMBDA i : log[i].ms, is)
      BY DEF SnapshotIsOneMoment
    <2>1. /\ r \in Requests /\ path[r] = Health /\ pc[r] \in {"resume", "done"}
          /\ SnapOf(r) /\ log \in Seq(Records) /\ before[r] \in 0 .. Len(log)
      BY LogType DEF Healthchecks, MetricsInv, SnapInv, MetricsTypeOK
    <2>2. PICK k \in before[r] .. Len(log) : seen[r] = Expected(SubSeq(log, 1, k))
      BY <2>1 DEF SnapOf
    <2>3. outcome[r] = "ok" /\ report[r].predict = Aggregate(seen[r], Predicts)
      BY <2>1 DEF SnapOf
    <2> DEFINE h == SubSeq(log, 1, k)
               is == {i \in 1 .. k : log[i].path \in Predicts}
               js == {i \in DOMAIN h : h[i].path \in Predicts}
    <2>4. /\ h \in Seq(Records) /\ DOMAIN h = 1 .. k
          /\ \A i \in 1 .. k : h[i] = log[i]
      BY <2>1, <2>2
    <2>5. is = js /\ is \subseteq DOMAIN h /\ is \subseteq DOMAIN log
      <3>1. DOMAIN log = 1 .. Len(log) /\ k \in 0 .. Len(log)
        BY <2>1, <2>2
      <3> QED
        BY <2>4, <3>1
    <2> HIDE DEF h
    <2>6. Aggregate(Expected(h), Predicts).requests = Cardinality(is)
      BY <2>4, <2>5, AggregateAddsUp
    <2>7. Aggregate(Expected(h), Predicts).time = MapThenSumSet(LAMBDA i : h[i].ms, is)
      BY <2>4, <2>5, AggregateAddsUp
    <2>8. \A i \in is : MsOf(h)[i] = MsOf(log)[i]
      BY <2>4, <2>5 DEF MsOf
    <2> HIDE DEF is
    <2>9. MapThenSumSet(LAMBDA i : h[i].ms, is) = Sum(MsOf(h), is)
          /\ \A i \in is : MsOf(h)[i] \in Nat
      BY <2>4, <2>5, TimeIsSum
    <2>10. MapThenSumSet(LAMBDA i : log[i].ms, is) = Sum(MsOf(log), is)
           /\ \A i \in is : MsOf(log)[i] \in Nat
      BY <2>1, <2>5, TimeIsSum
    <2>11. Sum(MsOf(h), is) = Sum(MsOf(log), is)
      <3>1. IsFiniteSet(is)
        BY <2>4, <2>5, AtFinite
      <3> QED
        BY <2>8, <2>9, <2>10, <3>1, SumAgrees
    <2> QED
      BY <2>2, <2>3, <2>6, <2>7, <2>9, <2>10, <2>11 DEF h, is
  <1> QED
    BY <1>1, MetricsInvariant, PTL

-----------------------------------------------------------------------------
(* The percentile of a window *)

\* Some of the places of a sequence.
LEMMA PlacesFinite ==
  ASSUME NEW s \in Seq(Nat), NEW T, T \subseteq DOMAIN s
  PROVE  IsFiniteSet(T) /\ Cardinality(T) \in Nat /\ Cardinality(T) <= Len(s)
  <1>1. Len(s) \in Nat /\ DOMAIN s = 1 .. Len(s)
    OBVIOUS
  <1>2. IsFiniteSet(1 .. Len(s)) /\ Cardinality(1 .. Len(s)) = Len(s)
    BY <1>1, CountUpTo
  <1>3. IsFiniteSet(T) /\ Cardinality(T) <= Len(s)
    BY <1>1, <1>2, FS_Subset
  <1> QED
    BY <1>1, <1>3, FS_CardinalityType

\* The places with values below x, and with values up to x.
Below(s, x) == {i \in DOMAIN s : s[i] < x}
AtMost(s, x) == {i \in DOMAIN s : s[i] <= x}

\* How many they are.
LEMMA BelowFinite ==
  ASSUME NEW s \in Seq(Nat), NEW x
  PROVE  /\ IsFiniteSet(Below(s, x)) /\ Cardinality(Below(s, x)) \in Nat
         /\ IsFiniteSet(AtMost(s, x)) /\ Cardinality(AtMost(s, x)) \in Nat
         /\ Cardinality(AtMost(s, x)) <= Len(s)
  BY PlacesFinite DEF Below, AtMost

\* Some value has more than k places up to it: the greatest has all of them.
LEMMA EnoughAtMost ==
  ASSUME NEW s \in Seq(Nat), NEW k \in 0 .. (Len(s) - 1)
  PROVE  \E x \in Nat : Cardinality(AtMost(s, x)) > k
  <1> SUFFICES ASSUME \A x \in Nat : Cardinality(AtMost(s, x)) <= k
               PROVE  FALSE
    BY BelowFinite
  <1> DEFINE n == Len(s)
             T == {n - Cardinality(AtMost(s, x)) : x \in Nat}
  <1>0. n \in Nat /\ \A x : /\ Cardinality(AtMost(s, x)) \in Nat
                             /\ Cardinality(AtMost(s, x)) <= n
    <2>1. n \in Nat
      OBVIOUS
    <2> HIDE DEF T
    <2> QED
      BY <2>1, BelowFinite
  <1>1. T \subseteq Nat /\ T # {}
    <2>1. ASSUME NEW x PROVE n - Cardinality(AtMost(s, x)) \in Nat
      <3>1. PICK c \in Nat : c = Cardinality(AtMost(s, x)) /\ c <= n
        BY <1>0
      <3> HIDE DEF n, T
      <3>2. n \in Nat /\ c <= n
        BY <1>0, <3>1
      <3>3. n - c \in Nat
        BY <3>2
      <3> QED
        BY <3>1, <3>3
    <2>2. n - Cardinality(AtMost(s, 0)) \in T
      OBVIOUS
    <2> QED
      BY <2>1, <2>2
  <1>2. PICK x \in Nat : \A y \in Nat :
          Cardinality(AtMost(s, y)) <= Cardinality(AtMost(s, x))
    <2>1. PICK m \in T : \A t \in T : m <= t
      <3> HIDE DEF T
      <3> QED
        BY <1>1, LeastNatural
    <2>2. PICK x \in Nat : m = n - Cardinality(AtMost(s, x))
      OBVIOUS
    <2>3. ASSUME NEW y \in Nat
          PROVE  Cardinality(AtMost(s, y)) <= Cardinality(AtMost(s, x))
      <3>1. m <= n - Cardinality(AtMost(s, y))
        BY <2>1
      <3> QED
        BY <1>0, <2>2, <3>1
    <2> QED
      BY <2>3
  <1>3. PICK i \in DOMAIN s : s[i] > x
    <2>1. Cardinality(1 .. n) = n
      BY <1>0, CountUpTo
    <2>2. Cardinality(AtMost(s, x)) # n
      BY <1>0
    <2>3. AtMost(s, x) # 1 .. n
      BY <2>1, <2>2
    <2>4. AtMost(s, x) \subseteq 1 .. n
      BY DEF AtMost
    <2>5. PICK i \in 1 .. n : i \notin AtMost(s, x)
      BY <2>3, <2>4
    <2> QED
      BY <2>5 DEF AtMost
  <1>4. AtMost(s, x) \cup {i} \subseteq AtMost(s, s[i]) /\ i \notin AtMost(s, x)
    BY <1>3 DEF AtMost
  <1>5. Cardinality(AtMost(s, x) \cup {i}) = Cardinality(AtMost(s, x)) + 1
    BY <1>4, BelowFinite, FS_AddElement
  <1>6. Cardinality(AtMost(s, x) \cup {i}) <= Cardinality(AtMost(s, s[i]))
    BY <1>4, BelowFinite, FS_Subset
  <1>7. s[i] \in Nat
    OBVIOUS
  <1>8. /\ Cardinality(AtMost(s, x)) \in Nat
        /\ Cardinality(AtMost(s, s[i])) \in Nat
        /\ Cardinality(AtMost(s, s[i])) <= Cardinality(AtMost(s, x))
    BY <1>0, <1>2, <1>7
  <1> QED
    BY <1>5, <1>6, <1>8

\* The value at place k of the ascending order exists: it is the least one with
\* more than k places up to it.
LEMMA OrderStatisticIs ==
  ASSUME NEW s \in Seq(Nat), NEW k \in 0 .. (Len(s) - 1)
  PROVE  /\ OrderStatistic(s, k) \in Nat
         /\ Cardinality(Below(s, OrderStatistic(s, k))) <= k
         /\ Cardinality(AtMost(s, OrderStatistic(s, k))) > k
  <1> DEFINE V == {s[i] : i \in DOMAIN s}
             T == {x \in Nat : Cardinality(AtMost(s, x)) > k}
  <1>1. PICK x \in T : \A y \in T : x <= y
    <2>1. T \subseteq Nat /\ T # {}
      BY EnoughAtMost
    <2> HIDE DEF T
    <2> QED
      BY <2>1, LeastNatural
  <1>2. Cardinality(Below(s, x)) <= k
    <2>1. CASE x = 0
      <3>1. Below(s, x) = {}
        BY <2>1 DEF Below
      <3> QED
        BY <3>1, FS_EmptySet
    <2>2. CASE x # 0
      <3>1. x - 1 \in Nat /\ x - 1 \notin T
        BY <1>1, <2>2
      <3>2. Cardinality(AtMost(s, x - 1)) <= k
        BY <3>1, BelowFinite
      <3>3. Below(s, x) = AtMost(s, x - 1)
        BY <3>1 DEF Below, AtMost
      <3> QED
        BY <3>2, <3>3
    <2> QED
      BY <2>1, <2>2
  <1>3. x \in V
    <2> SUFFICES ASSUME x \notin V PROVE FALSE
      OBVIOUS
    <2>1. Below(s, x) = AtMost(s, x)
      BY DEF Below, AtMost
    <2> QED
      BY <1>2, <2>1, BelowFinite
  <1>4. \E y \in V : Cardinality(Below(s, y)) <= k /\ Cardinality(AtMost(s, y)) > k
    BY <1>1, <1>2, <1>3
  <1>5. /\ OrderStatistic(s, k) \in V
        /\ Cardinality(Below(s, OrderStatistic(s, k))) <= k
        /\ Cardinality(AtMost(s, OrderStatistic(s, k))) > k
    BY <1>4 DEF OrderStatistic, Below, AtMost
  <1> QED
    BY <1>5

\* The values are in ascending order.
LEMMA OrderStatisticsAscend ==
  ASSUME NEW s \in Seq(Nat), NEW k \in Nat, k + 1 \in 0 .. (Len(s) - 1)
  PROVE  OrderStatistic(s, k) <= OrderStatistic(s, k + 1)
  <1> DEFINE x == OrderStatistic(s, k)
             y == OrderStatistic(s, k + 1)
  <1>1. k \in 0 .. (Len(s) - 1)
    OBVIOUS
  <1>2. /\ x \in Nat /\ Cardinality(Below(s, x)) <= k
        /\ y \in Nat /\ Cardinality(AtMost(s, y)) > k + 1
    BY <1>1, OrderStatisticIs
  <1> HIDE DEF x, y
  <1>3. ASSUME y < x PROVE FALSE
    <2>1. AtMost(s, y) \subseteq Below(s, x)
      BY <1>2, <1>3 DEF AtMost, Below
    <2>2. Cardinality(AtMost(s, y)) <= Cardinality(Below(s, x))
      BY <2>1, BelowFinite, FS_Subset
    <2> QED
      BY <1>2, <2>2, BelowFinite
  <1>4. x <= y
    BY <1>2, <1>3
  <1> QED
    BY <1>4 DEF x, y

\* A p95 is what its name says, for a window of any length: at most a twentieth
\* of the durations, rounded up, are above it, and at most 19 of 20 below it.
THEOREM PercentileIsTrue ==
  ASSUME NEW s \in Seq(Nat), s # <<>>
  PROVE  PercentileTrue(s)
  <1> DEFINE n == Len(s)
             at == Position(n)
             k == at \div 20
             f == at % 20
             low == OrderStatistic(s, k)
             high == OrderStatistic(s, k + 1)
             x == Percentile95(s)
             Above20 == {i \in DOMAIN s : 20 * s[i] > x}
             Below20 == {i \in DOMAIN s : 20 * s[i] < x}
  <1>1. n \in Nat /\ n >= 1 /\ DOMAIN s = 1 .. n /\ \A i \in DOMAIN s : s[i] \in Nat
    OBVIOUS
  <1>2. /\ at = 19 * n - 19 /\ at \in Nat /\ k \in Nat /\ f \in 0 .. 19
        /\ at = 20 * k + f /\ k \in 0 .. (n - 1)
        /\ f # 0 => k + 1 \in 0 .. (n - 1)
    <2>1. at = 19 * n - 19 /\ at \in Nat
      BY <1>1 DEF Position
    <2> HIDE DEF at
    <2>2. k \in Nat
      BY <2>1
    <2>3. f \in 0 .. 19
      <3>1. f \in Nat /\ f < 20
        BY <2>1, Z3
      <3> HIDE DEF f
      <3> QED
        BY <3>1
    <2>4. at = 20 * k + f
      BY <2>1
    <2> HIDE DEF k, f, n
    <2> QED
      BY <1>1, <2>1, <2>2, <2>3, <2>4
  <1> HIDE DEF at, f, k, n
  <1>3. /\ low \in Nat /\ Cardinality(Below(s, low)) <= k
        /\ Cardinality(AtMost(s, low)) > k
    BY <1>2, OrderStatisticIs DEF n
  <1>4. f # 0 => /\ high \in Nat /\ Cardinality(Below(s, high)) <= k + 1
                 /\ low <= high
    BY <1>2, OrderStatisticIs, OrderStatisticsAscend DEF n
  <1>5. x = IF f = 0 THEN 20 * low ELSE 20 * low + f * (high - low)
    BY DEF Percentile95, at, f, k, n
  <1> HIDE DEF low, high, x
  <1>6. x \in Nat /\ x >= 20 * low /\ (f # 0 => x <= 20 * high)
    <2>1. CASE f = 0
      BY <1>3, <1>5, <2>1
    <2>2. CASE f # 0
      <3>1. PICK d \in Nat : d = high - low
        BY <1>3, <1>4, <2>2
      <3>2. f * d \in Nat /\ f * d <= 20 * d
        BY <1>2
      <3> QED
        <4>1. PICK z \in Nat : z = f * d /\ z <= 20 * d
          BY <3>2
        <4>2. x = 20 * low + z
          BY <1>5, <2>2, <3>1, <4>1
        <4> QED
          <5>1. low \in Nat /\ high = low + d
            BY <1>3, <1>4, <2>2, <3>1
          <5> QED
            BY <4>1, <4>2, <5>1
    <2> QED
      BY <2>1, <2>2
  <1>7. Cardinality(Above20) <= n - (k + 1)
    <2>1. Above20 \cap AtMost(s, low) = {} /\ Above20 \subseteq DOMAIN s
      BY <1>1, <1>3, <1>6 DEF AtMost
    <2>2. IsFiniteSet(Above20) /\ Cardinality(Above20) \in Nat
      BY <2>1, PlacesFinite
    <2>3. IsFiniteSet(AtMost(s, low)) /\ Cardinality(AtMost(s, low)) \in Nat
      BY BelowFinite
    <2> HIDE DEF Above20
    <2>4. Cardinality(Above20 \cup AtMost(s, low)) =
            Cardinality(Above20) + Cardinality(AtMost(s, low)) - Cardinality({})
      BY <2>1, <2>2, <2>3, FS_Union
    <2>5. Cardinality(Above20 \cup AtMost(s, low)) <= n
      <3>1. Above20 \cup AtMost(s, low) \subseteq DOMAIN s
        BY <2>1 DEF AtMost
      <3> QED
        BY <3>1, PlacesFinite DEF n
    <2> QED
      BY <1>1, <1>2, <1>3, <2>2, <2>3, <2>4, <2>5, FS_EmptySet
  <1>8. Cardinality(Below20) <= IF f = 0 THEN k ELSE k + 1
    <2>1. CASE f = 0
      <3>1. Below20 \subseteq Below(s, low)
        BY <1>1, <1>3, <1>5, <2>1 DEF Below
      <3>2. Cardinality(Below20) <= Cardinality(Below(s, low))
        BY <3>1, BelowFinite, FS_Subset
      <3>3. Cardinality(Below20) \in Nat /\ Cardinality(Below(s, low)) \in Nat
        BY PlacesFinite, BelowFinite
      <3> QED
        BY <1>2, <1>3, <2>1, <3>2, <3>3
    <2>2. CASE f # 0
      <3>1. Below20 \subseteq Below(s, high)
        BY <1>1, <1>4, <1>6, <2>2 DEF Below
      <3>2. Cardinality(Below20) <= Cardinality(Below(s, high))
        BY <3>1, BelowFinite, FS_Subset
      <3>3. Cardinality(Below20) \in Nat /\ Cardinality(Below(s, high)) \in Nat
        BY PlacesFinite, BelowFinite
      <3> QED
        BY <1>2, <1>4, <2>2, <3>2, <3>3
    <2> QED
      BY <2>1, <2>2
  <1>9. Cardinality(Above20) \in Nat /\ Cardinality(Below20) \in Nat
    BY PlacesFinite
  <1> HIDE DEF Above20, Below20
  <1>10. 20 * Cardinality(Above20) <= n + 19
    BY <1>1, <1>2, <1>7, <1>9
  <1>11. 20 * Cardinality(Below20) <= 19 * n
    BY <1>1, <1>2, <1>8, <1>9
  <1> QED
    BY <1>10, <1>11 DEF PercentileTrue, Above20, Below20, x, n
=============================================================================
