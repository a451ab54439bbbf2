---------------------------- MODULE RequestMetrics ----------------------------
(***************************************************************************)
(* The way of a request through the application: metrics_middleware around *)
(* the handlers (app/main.py), MetricsService, and the latency report of   *)
(* GET /healthcheck.                                                       *)
(*                                                                         *)
(* The middleware runs on the one event loop thread, the handlers in       *)
(* worker threads.  What it does after the handler has returned contains   *)
(* no await: it keeps the event loop until it is through, also while it    *)
(* waits for the metrics lock that a snapshot holds.                       *)
(*                                                                         *)
(* Durations are whole milliseconds.  The mean and the p99 of a snapshot,  *)
(* which no client sees, are left out.                                     *)
(***************************************************************************)
EXTENDS Naturals, Sequences, FiniteSets, FiniteSetsExt

CONSTANTS
  Requests,   \* identities of requests
  Fits,       \* request paths that start with /fit
  Predicts,   \* request paths that start with /predict
  Health,     \* the path /healthcheck
  Durations,  \* milliseconds a request may take
  Window,     \* latency_window_size
  Nobody      \* a free lock, an idle event loop

Paths == Fits \cup Predicts \cup {Health}

ASSUME MetricsAssumption ==
  /\ Durations \subseteq Nat
  /\ Window \in Nat
  /\ Nobody \notin Requests
  /\ Health \notin Fits \cup Predicts

VARIABLES
  count,    \* _request_count: path -> number of requests, 0 for no entry
  total,    \* _total_time_ms
  recent,   \* _latencies_ms: the last Window durations of a path
  errors,   \* _error_count
  lock,     \* the thread of which request holds MetricsService._lock
  loop,     \* the request whose middleware the event loop is running
  pc,       \* request -> its next step
  path,     \* request -> its path
  outcome,  \* request -> what became of its handler
  ms,       \* request -> the duration the middleware has measured
  left,     \* request -> the entries its snapshot has not visited yet
  seen,     \* request -> the entries its snapshot has visited
  report,   \* request -> the latency report of its healthcheck
  log,      \* history: the records made, in order
  before    \* history: request -> length of log when it was received

counters == <<count, total, recent, errors>>
snap == <<left, seen, report>>
vars == <<counters, lock, loop, pc, path, outcome, ms, snap, log, before>>

Outcomes == {"ok", "refused", "raised"}

\* The points at which a request keeps the lock, and those at which its
\* middleware keeps the event loop.
Recording == {"count", "total", "window", "error", "release"}
Locked == Recording \cup {"visit"}
Looped == Recording \cup {"acquire", "answer"}
Points == Locked \cup Looped \cup {"idle", "handler", "snapshot", "resume", "done"}

Goto(r, from, to) == pc[r] = from /\ pc' = [pc EXCEPT ![r] = to]
Tracked == {p \in Paths : count[p] > 0}

NoReport == [requests |-> 0, time |-> 0, weight |-> 0]

-----------------------------------------------------------------------------
(* Bugs this code could have.  They are no part of the specification: each *)
(* stands in for the definition its comment names, to see that a property  *)
(* would notice.                                                           *)

\* Free, without the lock.
AlwaysFree == TRUE

\* Push, with a window that keeps the oldest durations.
PushOldest(s, d) == IF Len(s) < Window THEN Append(s, d) ELSE s

\* Push, with a window without a bound.
PushAll(s, d) == Append(s, d)

\* AfterHandler, that records only what the handler answered.
OnlyAnswers(r) == IF outcome[r] = "raised" THEN "answer" ELSE "acquire"

\* NextLock, of a snapshot that keeps the lock.
KeptBy(r) == r

-----------------------------------------------------------------------------
(* numpy.percentile(s, 95), in twentieths of a millisecond: the linear     *)
(* interpolation between the two order statistics around (n - 1) * 0.95.   *)

\* The value at place k of s in ascending order, counted from 0.
OrderStatistic(s, k) ==
  CHOOSE x \in {s[i] : i \in DOMAIN s} :
    /\ Cardinality({i \in DOMAIN s : s[i] < x}) <= k
    /\ Cardinality({i \in DOMAIN s : s[i] <= x}) > k

\* (n - 1) * 0.95, in twentieths.
Position(n) == 19 * (n - 1)

Percentile95(s) ==
  LET at == Position(Len(s))
      k == at \div 20
      low == OrderStatistic(s, k)
  IN IF at % 20 = 0 THEN 20 * low
     ELSE 20 * low + (at % 20) * (OrderStatistic(s, k + 1) - low)

\* _aggregate_metrics: the sums over the entries of a group.  The report is
\* avg = time / requests and p95 = weight / (20 * requests), or zeroes.
Aggregate(entries, group) ==
  LET ps == group \cap DOMAIN entries IN
    [requests |-> MapThenSumSet(LAMBDA p : entries[p].count, ps),
     time     |-> MapThenSumSet(LAMBDA p : entries[p].total, ps),
     weight   |-> MapThenSumSet(LAMBDA p : entries[p].p95 * entries[p].count, ps)]

-----------------------------------------------------------------------------
Init ==
  /\ count = [p \in Paths |-> 0]
  /\ total = [p \in Paths |-> 0]
  /\ recent = [p \in Paths |-> <<>>]
  /\ errors = [p \in Paths |-> 0]
  /\ lock = Nobody
  /\ loop = Nobody
  /\ pc = [r \in Requests |-> "idle"]
  /\ path = [r \in Requests |-> Health]
  /\ outcome = [r \in Requests |-> "ok"]
  /\ ms = [r \in Requests |-> 0]
  /\ left = [r \in Requests |-> {}]
  /\ seen = [r \in Requests |-> <<>>]
  /\ report = [r \in Requests |-> [fit |-> NoReport, predict |-> NoReport]]
  /\ log = <<>>
  /\ before = [r \in Requests |-> 0]

\* The middleware up to call_next.
Receive(r) ==
  /\ loop = Nobody
  /\ \E p \in Paths :
       /\ path' = [path EXCEPT ![r] = p]
       /\ Goto(r, "idle", IF p = Health THEN "snapshot" ELSE "handler")
  /\ before' = [before EXCEPT ![r] = Len(log)]
  /\ UNCHANGED <<counters, lock, loop, outcome, ms, snap, log>>

\* A handler other than healthcheck returns a response, below 400 or not, or
\* raises an exception that has no handler of its own.
Handle(r) ==
  /\ Goto(r, "handler", "resume")
  /\ \E o \in Outcomes : outcome' = [outcome EXCEPT ![r] = o]
  /\ UNCHANGED <<counters, lock, loop, path, ms, snap, log, before>>

-----------------------------------------------------------------------------
(* MetricsService.snapshot, in the worker thread of a healthcheck *)

Free == lock = Nobody

SnapAcquire(r) ==
  /\ Goto(r, "snapshot", "visit")
  /\ Free
  /\ lock' = r
  /\ left' = [left EXCEPT ![r] = Tracked]
  /\ UNCHANGED <<counters, loop, path, outcome, ms, seen, report, log, before>>

\* The metrics of one path.
Entry(p) ==
  [count |-> count[p], total |-> total[p], errors |-> errors[p],
   p95 |-> IF recent[p] = <<>> THEN 0 ELSE Percentile95(recent[p])]

\* The next entry of _request_count.
SnapVisit(r) ==
  /\ pc[r] = "visit"
  /\ \E p \in left[r] :
       /\ left' = [left EXCEPT ![r] = @ \ {p}]
       /\ seen' = [seen EXCEPT ![r] =
            [q \in DOMAIN @ \cup {p} |-> IF q # p THEN @[q] ELSE Entry(p)]]
  /\ UNCHANGED <<counters, lock, loop, pc, path, outcome, ms, report, log, before>>

NextLock(r) == Nobody

\* Iterating a dictionary that has grown meanwhile raises RuntimeError.
SnapRelease(r) ==
  /\ Goto(r, "visit", "resume")
  /\ left[r] = {}
  /\ lock' = NextLock(r)
  /\ outcome' = [outcome EXCEPT ![r] =
                   IF Tracked = DOMAIN seen[r] THEN "ok" ELSE "raised"]
  /\ report' = [report EXCEPT ![r] = [fit |-> Aggregate(seen[r], Fits),
                                      predict |-> Aggregate(seen[r], Predicts)]]
  /\ UNCHANGED <<counters, loop, path, ms, left, seen, log, before>>

-----------------------------------------------------------------------------
(* metrics_middleware after call_next, and MetricsService.record *)

AfterHandler(r) == "acquire"

\* response.status_code >= 400, or no response at all.
Failed(r) == outcome[r] # "ok"

Resume(r) ==
  /\ Goto(r, "resume", AfterHandler(r))
  /\ loop = Nobody
  /\ loop' = r
  /\ \E d \in Durations : ms' = [ms EXCEPT ![r] = d]
  /\ UNCHANGED <<counters, lock, path, outcome, snap, log, before>>

RecordAcquire(r) ==
  /\ Goto(r, "acquire", "count")
  /\ Free
  /\ lock' = r
  /\ UNCHANGED <<counters, loop, path, outcome, ms, snap, log, before>>

RecordCount(r) ==
  /\ Goto(r, "count", "total")
  /\ count' = [count EXCEPT ![path[r]] = @ + 1]
  /\ UNCHANGED <<total, recent, errors, lock, loop, path, outcome, ms, snap, log,
                 before>>

RecordTotal(r) ==
  /\ Goto(r, "total", "window")
  /\ total' = [total EXCEPT ![path[r]] = @ + ms[r]]
  /\ UNCHANGED <<count, recent, errors, lock, loop, path, outcome, ms, snap,
                 log, before>>

\* deque(maxlen = Window).append
Push(s, d) ==
  IF Window = 0 THEN <<>>
  ELSE IF Len(s) < Window THEN Append(s, d) ELSE Append(Tail(s), d)

RecordWindow(r) ==
  /\ Goto(r, "window", "error")
  /\ recent' = [recent EXCEPT ![path[r]] = Push(@, ms[r])]
  /\ UNCHANGED <<count, total, errors, lock, loop, path, outcome, ms, snap,
                 log, before>>

RecordError(r) ==
  /\ Goto(r, "error", "release")
  /\ errors' = [errors EXCEPT ![path[r]] = IF Failed(r) THEN @ + 1 ELSE @]
  /\ UNCHANGED <<count, total, recent, lock, loop, path, outcome, ms, snap,
                 log, before>>

RecordRelease(r) ==
  /\ Goto(r, "release", "answer")
  /\ lock' = Nobody
  /\ log' = Append(log, [request |-> r, path |-> path[r], ms |-> ms[r],
                         failed |-> outcome[r] # "ok"])
  /\ UNCHANGED <<counters, loop, path, outcome, ms, snap, before>>

\* metrics_middleware has returned its response or raised, and the event loop is
\* free: request_id_middleware around it runs later, and touches no shared state.
Answer(r) ==
  /\ Goto(r, "answer", "done")
  /\ loop' = Nobody
  /\ UNCHANGED <<counters, lock, path, outcome, ms, snap, log, before>>

Step(r) ==
  \/ Handle(r)
  \/ SnapAcquire(r) \/ SnapVisit(r) \/ SnapRelease(r)
  \/ Resume(r) \/ RecordAcquire(r) \/ RecordCount(r) \/ RecordTotal(r)
  \/ RecordWindow(r) \/ RecordError(r) \/ RecordRelease(r) \/ Answer(r)

Terminating == (\A r \in Requests : pc[r] = "done") /\ UNCHANGED vars

Next == (\E r \in Requests : Receive(r) \/ Step(r)) \/ Terminating

\* No request can do more than finitely many steps, so a system that cannot
\* stop early, which TLC checks as the absence of deadlock, answers them all.
Spec == Init /\ [][Next]_vars

-----------------------------------------------------------------------------
(* What the counters should be, after the records h have been made.        *)

\* The places in h of the records of path p, and the n-th of them.
At(h, p) == {i \in DOMAIN h : h[i].path = p}
Place(h, p, n) ==
  CHOOSE i \in At(h, p) : Cardinality({j \in At(h, p) : j <= i}) = n

\* The durations of p, and the last Window of them.
Times(h, p) == [n \in 1 .. Cardinality(At(h, p)) |-> h[Place(h, p, n)].ms]
LastOf(s) == IF Len(s) > Window THEN SubSeq(s, Len(s) - Window + 1, Len(s)) ELSE s

TimeOf(h, p) == MapThenSumSet(LAMBDA i : h[i].ms, At(h, p))
ErrorsOf(h, p) == Cardinality({i \in At(h, p) : h[i].failed})

\* What a snapshot shows.
Expected(h) ==
  [p \in {q \in Paths : At(h, q) # {}} |->
     LET s == LastOf(Times(h, p)) IN
       [count |-> Cardinality(At(h, p)), total |-> TimeOf(h, p),
        errors |-> ErrorsOf(h, p), p95 |-> IF s = <<>> THEN 0 ELSE Percentile95(s)]]

-----------------------------------------------------------------------------
(* Properties *)

\* Type invariant.
MetricsTypeOK ==
  /\ count \in [Paths -> Nat] /\ total \in [Paths -> Nat]
  /\ recent \in [Paths -> Seq(Durations)]
  /\ \A p \in Paths : Len(recent[p]) <= Window
  /\ errors \in [Paths -> Nat]
  /\ lock \in Requests \cup {Nobody} /\ loop \in Requests \cup {Nobody}
  /\ pc \in [Requests -> Points]
  /\ path \in [Requests -> Paths] /\ outcome \in [Requests -> Outcomes]
  /\ ms \in [Requests -> Durations \cup {0}]
  /\ left \in [Requests -> SUBSET Paths]
  /\ DOMAIN seen = Requests /\ \A r \in Requests : DOMAIN seen[r] \subseteq Paths
  /\ DOMAIN report = Requests
  /\ before \in [Requests -> 0 .. Len(log)]

\* Between two records the counters are those of the history: nothing is lost
\* and the window holds the last durations of its path, whatever snapshots do.
CountersTrue ==
  (\A r \in Requests : pc[r] \notin Recording) =>
    \A p \in Paths :
      /\ count[p] = Cardinality(At(log, p))
      /\ total[p] = TimeOf(log, p)
      /\ errors[p] = ErrorsOf(log, p)
      /\ recent[p] = LastOf(Times(log, p))

\* A request is counted once, under its path, as an error exactly if its answer
\* is one, and before its client has the answer.
CountedOnce ==
  \A r \in Requests :
    LET mine == {i \in DOMAIN log : log[i].request = r} IN
      /\ \A i, j \in mine : i = j
      /\ pc[r] = "done" =>
           \E i \in mine : /\ log[i].path = path[r]
                           /\ log[i].failed <=> outcome[r] # "ok"

Healthchecks == {r \in Requests : path[r] = Health /\ pc[r] \in {"resume", "done"}}

\* healthcheck never fails for what other requests do meanwhile, and what its
\* snapshot saw, entry after entry, are the counters of one moment after it was
\* received: with all requests answered before, and no record half made.  The
\* average it reports for predictions is that of all of them up to this moment.
SnapshotIsOneMoment ==
  \A r \in Healthchecks :
    /\ outcome[r] = "ok"
    /\ \E k \in before[r] .. Len(log) :
         LET is == {i \in 1 .. k : log[i].path \in Predicts} IN
           /\ seen[r] = Expected(SubSeq(log, 1, k))
           /\ report[r].predict.requests = Cardinality(is)
           /\ report[r].predict.time = MapThenSumSet(LAMBDA i : log[i].ms, is)

\* The event loop never waits for itself: while it waits for the metrics lock,
\* the thread that holds it is a worker that needs no event loop to give it
\* back.  A lock carried into a middleware would stop every request for good.
LoopNeverWaitsForItself ==
  \A r, q \in Requests :
    loop = r /\ pc[r] = "acquire" /\ lock = q => pc[q] = "visit"

\* What a p95 is: at most a twentieth of the durations, rounded up, are above
\* it and at most 19 of 20 below it.
PercentileTrue(s) ==
  LET x == Percentile95(s) IN
    /\ 20 * Cardinality({i \in DOMAIN s : 20 * s[i] > x}) <= Len(s) + 19
    /\ 20 * Cardinality({i \in DOMAIN s : 20 * s[i] < x}) <= 19 * Len(s)

-----------------------------------------------------------------------------
(* The inductive invariant behind the properties *)

\* The lock and the event loop are kept exactly at these points; the records
\* are those of the requests that are past "release", one for each.
RequestInv ==
  /\ pc \in [Requests -> Points]
  /\ lock \in Requests \cup {Nobody} /\ loop \in Requests \cup {Nobody}
  /\ \A r \in Requests : lock = r <=> pc[r] \in Locked
  /\ \A r \in Requests : loop = r <=> pc[r] \in Looped
  /\ log \in Seq([request : Requests, path : Paths, ms : Nat, failed : BOOLEAN])
  /\ path \in [Requests -> Paths] /\ outcome \in [Requests -> Outcomes]
  /\ ms \in [Requests -> Nat]
  /\ \A i \in DOMAIN log :
       LET r == log[i].request IN
         /\ pc[r] \in {"answer", "done"}
         /\ log[i].path = path[r]
         /\ log[i].failed <=> outcome[r] # "ok"
  /\ \A i, j \in DOMAIN log : log[i].request = log[j].request => i = j
  /\ \A r \in Requests : pc[r] \in {"answer", "done"} =>
       \E i \in DOMAIN log : log[i].request = r

\* While a request records, the counters are those of the history and of as much
\* of its record as it has made.
RecordOf(r, p) ==
  LET past(steps) == p = path[r] /\ pc[r] \in steps IN
    /\ count[p] = IF past(Recording \ {"count"}) THEN Cardinality(At(log, p)) + 1
                  ELSE Cardinality(At(log, p))
    /\ total[p] = IF past({"window", "error", "release"})
                  THEN TimeOf(log, p) + ms[r] ELSE TimeOf(log, p)
    /\ recent[p] = IF past({"error", "release"})
                   THEN Push(LastOf(Times(log, p)), ms[r]) ELSE LastOf(Times(log, p))
    /\ errors[p] = IF past({"release"}) /\ Failed(r) THEN ErrorsOf(log, p) + 1
                   ELSE ErrorsOf(log, p)
RecordInv == \A r \in Requests : pc[r] \in Recording => \A p \in Paths : RecordOf(r, p)

\* What a snapshot has seen are the counters as they are, as long as it keeps
\* the lock, and those after some prefix of the history from then on.
SnapOf(r) ==
  /\ pc[r] \in {"snapshot", "visit"} => path[r] = Health
  /\ pc[r] = "handler" => path[r] # Health
  /\ pc[r] \in {"idle", "handler", "snapshot"} => seen[r] = <<>>
  /\ pc[r] = "visit" =>
       /\ seen[r] = [p \in Tracked \ left[r] |-> Entry(p)]
       /\ left[r] \subseteq Tracked
  /\ path[r] = Health /\ pc[r] \notin {"idle", "snapshot", "visit"} =>
       /\ outcome[r] = "ok"
       /\ \E k \in before[r] .. Len(log) : seen[r] = Expected(SubSeq(log, 1, k))
       /\ report[r].predict = Aggregate(seen[r], Predicts)
SnapInv == \A r \in Requests : SnapOf(r)

\* Together they are inductive: nothing is lost or counted twice, whichever
\* threads wait for the lock or run meanwhile.
MetricsInv ==
  /\ RequestInv /\ MetricsTypeOK /\ CountersTrue /\ RecordInv /\ SnapInv
  /\ \A r \in Requests : pc[r] \in Looped => ms[r] \in Durations

=============================================================================
