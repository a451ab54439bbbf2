----------------------------- MODULE TrainingData -----------------------------
(***************************************************************************)
(* What POST /fit makes of the data it is sent: the shape of the body      *)
(* (app/api/routes/fit.py), the detector, the seven rules of               *)
(* ValidationService in their order (app/services/validation_service.py),  *)
(* the series identifier, and then the training points that the fitted     *)
(* detector flags and the range and quality report kept with the model.    *)
(* The first check that fails decides the answer.                          *)
(*                                                                         *)
(* Values and timestamps are integers, so that the statistics can be       *)
(* compared exactly: with n values of sum S and sum of squares Q, n times  *)
(* a deviation from the mean is n * x - S, and n squared times the         *)
(* variance is n * Q - S^2.                                                *)
(***************************************************************************)
EXTENDS Integers, Sequences, FiniteSets, FiniteSetsExt, Functions

CONSTANTS
  Fits,   \* the requests clients may send, with the settings they meet
  Scores, \* what score_samples of an isolation forest may return
  NaN     \* a value that is not a finite number

\* The settings of ValidationService: std_threshold in tenths, the gap factor
\* in halves.
Settings ==
  [min_data_points : Int, std_threshold : Nat,
   flat_line_enabled : BOOLEAN, flat_line_window : Nat,
   temporal_gap_enabled : BOOLEAN, max_temporal_gap_factor : Nat]

FitRequest ==
  [timestamps : Seq(Int), values : Seq(Int \cup {NaN}), detector : STRING,
   safe : BOOLEAN, settings : Settings]

ASSUME FitsAssumption == Fits \subseteq FitRequest /\ Fits # {}
ASSUME ScoresAssumption == Scores \subseteq Int /\ Scores # {}
ASSUME NaNAssumption == NaN \notin Int

VARIABLES
  step,    \* how many checks the request has passed, or Ended
  fit,     \* the request
  answer,  \* HTTP status and error code
  metadata \* what is saved of the training data

vars == <<step, fit, answer, metadata>>

-----------------------------------------------------------------------------
(* Shared definitions *)

Detectors == {"gaussian", "isolation_forest"}

Unanswered == <<0, "">>
Trained == <<200, "">>
NoMetadata == [n_samples |-> 0]

\* A bug this code could have: Checks, with the order of two rules swapped.
ChecksSwapped ==
  <<"lengths", "detector", "points", "finite", "constant", "order",
    "duplicate", "flat", "gap", "series">>

\* The checks of a fit in the order the code makes them.
Checks ==
  <<"lengths", "detector", "points", "finite", "constant", "duplicate",
    "order", "flat", "gap", "series">>

\* How the exception handlers answer the error of each check.
Refusal ==
  [lengths   |-> <<422, "VALIDATION_ERROR">>,
   detector  |-> <<422, "UNSUPPORTED_DETECTOR">>,
   points    |-> <<400, "INSUFFICIENT_DATA">>,
   finite    |-> <<400, "INVALID_VALUES">>,
   constant  |-> <<400, "CONSTANT_SERIES">>,
   duplicate |-> <<400, "DUPLICATE_TIMESTAMPS">>,
   order     |-> <<400, "UNORDERED_TIMESTAMPS">>,
   flat      |-> <<400, "FLAT_LINE_DETECTED">>,
   gap       |-> <<400, "TEMPORAL_GAP_DETECTED">>,
   series    |-> <<400, "INVALID_SERIES_ID">>]

Ended == Len(Checks) + 1

Sum(s) == MapThenSumSet(LAMBDA i : s[i], DOMAIN s)
Squares(s) == [i \in DOMAIN s |-> s[i] * s[i]]

\* The square of Len(s) times the standard deviation.
Spread(s) == Len(s) * Sum(Squares(s)) - Sum(s) * Sum(s)

\* The value at place k of s in ascending order, counted from 0.
OrderStatistic(s, k) ==
  CHOOSE x \in Range(s) :
    /\ Cardinality({i \in DOMAIN s : s[i] < x}) <= k
    /\ Cardinality({i \in DOMAIN s : s[i] <= x}) > k

-----------------------------------------------------------------------------
(* More bugs this code could have.  They are no part of the specification: *)
(* each stands in for the definition its comment names.                    *)

\* Trailing, with an empty window taken for the last value.
TrailingSome(v, w) == SubSeq(v, IF w = 0 THEN Len(v) ELSE Len(v) - w + 1, Len(v))

\* Unordered, comparing the ends of the series only.
EndsUnordered(ts) == ts[Len(ts)] < ts[1]

\* Above, without the factor 3.
AboveOne(v, x, tie) ==
  LET d == Len(v) * x - Sum(v) IN
    d > 0 /\ (d * d > Spread(v) \/ (tie /\ d * d = Spread(v)))

-----------------------------------------------------------------------------
(* The checks: of the body, and the rules of validate_training_data *)

Unaligned(ts, v) == ts = <<>> \/ Len(ts) # Len(v)

TooFew(v, c) == Len(v) < c.min_data_points

NotFinite(v) == \E i \in DOMAIN v : v[i] = NaN

\* std < std_threshold.
ConstantSeries(v, c) ==
  100 * Spread(v) < (Len(v) * c.std_threshold) * (Len(v) * c.std_threshold)

Duplicates(ts) == Cardinality(Range(ts)) # Len(ts)

Unordered(ts) == \E i \in 1 .. Len(ts) - 1 : ts[i + 1] <= ts[i]

\* values[-w:], which for w = 0 is the whole list.
Trailing(v, w) == SubSeq(v, IF w = 0 THEN 1 ELSE Len(v) - w + 1, Len(v))

FlatLine(v, c) ==
  /\ c.flat_line_enabled
  /\ Len(v) >= c.flat_line_window
  /\ LET t == Range(Trailing(v, c.flat_line_window)) IN Max(t) = Min(t)

Intervals(ts) == [i \in 1 .. Len(ts) - 1 |-> ts[i + 1] - ts[i]]

\* Twice numpy.median.
Median2(s) ==
  LET h == Len(s) \div 2
  IN IF Len(s) % 2 = 1 THEN 2 * OrderStatistic(s, h)
     ELSE OrderStatistic(s, h - 1) + OrderStatistic(s, h)

TemporalGap(ts, c) ==
  /\ c.temporal_gap_enabled
  /\ Len(ts) >= 2
  /\ 4 * Max(Range(Intervals(ts)))
       > c.max_temporal_gap_factor * Median2(Intervals(ts))

\* Whether the check named c refuses the request f.
Refuses(c, f) ==
  CASE c = "lengths" -> Unaligned(f.timestamps, f.values)
    [] c = "detector" -> f.detector \notin Detectors
    [] c = "points" -> TooFew(f.values, f.settings)
    [] c = "finite" -> NotFinite(f.values)
    [] c = "constant" -> ConstantSeries(f.values, f.settings)
    [] c = "duplicate" -> Duplicates(f.timestamps)
    [] c = "order" -> Unordered(f.timestamps)
    [] c = "flat" -> FlatLine(f.values, f.settings)
    [] c = "gap" -> TemporalGap(f.timestamps, f.settings)
    [] c = "series" -> ~f.safe

-----------------------------------------------------------------------------
(* The fitted detectors, as they flag their own training points *)

\* value > mean + 3 * std.  At equality the rounding of the floats decides,
\* in one way for equal values.
Above(v, x, tie) ==
  LET d == Len(v) * x - Sum(v) IN
    d > 0 /\ (d * d > 9 * Spread(v) \/ (tie /\ d * d = 9 * Spread(v)))

\* Ten times numpy.percentile(s, 10): linear interpolation at (Len(s) - 1) / 10.
Percentile10(s) ==
  LET k == (Len(s) - 1) \div 10
      part == (Len(s) - 1) % 10
      low == OrderStatistic(s, k)
  IN IF part = 0 THEN 10 * low
     ELSE 10 * low + part * (OrderStatistic(s, k + 1) - low)

\* score < threshold, for scores that depend on the value alone.
Isolated(v, x, score) ==
  10 * score[x] < Percentile10([i \in DOMAIN v |-> score[v[i]]])

-----------------------------------------------------------------------------
(* The steps of POST /fit *)

Init ==
  /\ step = 0
  /\ fit \in Fits
  /\ answer = Unanswered
  /\ metadata = NoMetadata

\* Answered by the exception handler of the check that failed.
Refuse ==
  /\ step < Len(Checks)
  /\ Refuses(Checks[step + 1], fit)
  /\ answer' = Refusal[Checks[step + 1]]
  /\ step' = Ended
  /\ UNCHANGED <<fit, metadata>>

Pass ==
  /\ step < Len(Checks)
  /\ ~Refuses(Checks[step + 1], fit)
  /\ step' = step + 1
  /\ UNCHANGED <<fit, answer, metadata>>

\* The part of metadata.json that depends on the data.
Save(flags) ==
  /\ step = Len(Checks)
  /\ metadata' = [n_samples |-> Len(fit.values),
                  min_timestamp |-> Min(Range(fit.timestamps)),
                  max_timestamp |-> Max(Range(fit.timestamps)),
                  flags |-> flags]
  /\ answer' = Trained
  /\ step' = Ended
  /\ UNCHANGED fit

TrainGaussian ==
  /\ fit.detector = "gaussian"
  /\ \E tie \in BOOLEAN :
       Save({i \in DOMAIN fit.values : Above(fit.values, fit.values[i], tie)})

TrainForest ==
  /\ fit.detector = "isolation_forest"
  /\ \E score \in [Range(fit.values) -> Scores] :
       Save({i \in DOMAIN fit.values : Isolated(fit.values, fit.values[i], score)})

Done == step = Ended /\ UNCHANGED vars

Next == Refuse \/ Pass \/ TrainGaussian \/ TrainForest \/ Done

Spec == Init /\ [][Next]_vars

\* _build_data_quality: the seconds the data span, and by how much n_samples is
\* divided for points_per_second.
TimeSpan(m) == Max({m.max_timestamp - m.min_timestamp, 0})
RateDivisor(m) == Max({TimeSpan(m), 1})

-----------------------------------------------------------------------------
(* What the checks mean, independently of how they compute it *)

Finite(f) == NaN \notin Range(f.values)

\* The sum of the squared distances of all pairs is Len(v)^2 times the variance.
PairDistances(v) ==
  Sum([p \in {q \in (DOMAIN v) \X (DOMAIN v) : q[1] < q[2]} |->
         (v[p[1]] - v[p[2]]) * (v[p[1]] - v[p[2]])])

\* The length of the longest constant tail of v.
FlatTail(v) ==
  Max({w \in DOMAIN v : \A i \in Len(v) - w + 1 .. Len(v) : v[i] = v[Len(v)]})

\* The values in the middle of a series: not more than half of it is smaller,
\* and not more than half is greater.
Middle(s) ==
  {x \in Range(s) :
     /\ 2 * Cardinality({i \in DOMAIN s : s[i] < x}) <= Len(s)
     /\ 2 * Cardinality({i \in DOMAIN s : s[i] > x}) <= Len(s)}

\* What each check is there to refuse.
Broken(c, f) ==
  LET v == f.values
      t == f.timestamps
      conf == f.settings
  IN CASE c = "lengths" -> Len(t) # Len(v) \/ Len(t) = 0
       [] c = "detector" -> f.detector \notin Detectors
       [] c = "points" -> Len(v) < conf.min_data_points
       [] c = "finite" -> ~Finite(f)
       [] c = "constant" ->
            /\ Finite(f)
            /\ 100 * PairDistances(v)
                 < (Len(v) * conf.std_threshold) * (Len(v) * conf.std_threshold)
       [] c = "duplicate" -> \E i, j \in DOMAIN t : i # j /\ t[i] = t[j]
       [] c = "order" -> \E i, j \in DOMAIN t : i < j /\ t[i] > t[j]
       [] c = "flat" -> /\ conf.flat_line_enabled
                        /\ v # <<>>
                        /\ FlatTail(v) >= IF conf.flat_line_window = 0 THEN Len(v)
                                          ELSE conf.flat_line_window
       [] c = "gap" ->
            LET d == Intervals(t)
            IN /\ conf.temporal_gap_enabled
               /\ d # <<>>
               /\ \E i \in DOMAIN d :
                    4 * d[i] > conf.max_temporal_gap_factor
                                 * (Max(Middle(d)) + Min(Middle(d)))
       [] c = "series" -> ~f.safe

-----------------------------------------------------------------------------
(* Properties *)

\* Fail fast: the answer is that of the first check whose rule the request breaks,
\* judged on the whole series and by what the rule means, and a request that
\* breaks none is trained.  The checks rely on each other: np.std on values that
\* are finite, the comparison of neighbours on timestamps that are distinct, the
\* median interval on timestamps that increase.
FailFast ==
  step = Ended =>
    \/ answer = Trained /\ \A i \in DOMAIN Checks : ~Broken(Checks[i], fit)
    \/ \E i \in DOMAIN Checks :
         /\ answer = Refusal[Checks[i]]
         /\ Broken(Checks[i], fit)
         /\ \A j \in 1 .. i - 1 : ~Broken(Checks[j], fit)

\* docs/ai/skills.md:249 lists the five core rules "in this order, fail fast".
DocumentedRules == <<"points", "constant", "duplicate", "order", "finite">>

\* The claim of that list: a request that is refused by one of its rules breaks
\* none that stands before it there.  The code looks for NaN second, not last.
DocumentedOrder ==
  step = Ended =>
    \A i \in DOMAIN DocumentedRules :
      answer = Refusal[DocumentedRules[i]] =>
        \A j \in 1 .. i - 1 : ~Broken(DocumentedRules[j], fit)

\* The settings at their edges, which nothing validates: a window of 0 looks at
\* the whole series, which a positive std_threshold has already found to vary; a
\* window of 1 and a gap factor below 1 refuse whatever reaches them; and two
\* points have one interval, which is its own median.
EdgeSettings ==
  LET c == fit.settings
      past == {Trained, Refusal["series"]}
      n == Len(fit.timestamps)
  IN step = Ended =>
       /\ answer = Refusal["flat"] =>
            c.flat_line_window # 0 \/ c.std_threshold = 0
       /\ c.flat_line_enabled /\ c.flat_line_window = 1 =>
            answer \notin past \cup {Refusal["gap"]}
       /\ c.temporal_gap_enabled /\ n >= 2 /\ c.max_temporal_gap_factor < 2 =>
            answer \notin past
       /\ answer = Refusal["gap"] => n > 2 \/ c.max_temporal_gap_factor < 2

\* The metadata of an accepted series are those of an increasing one: it ranges
\* from its first to its last point, spans a second or more for each further
\* point, and so has a rate of at most n / (n - 1) points per second.
QualityTrue ==
  answer = Trained =>
    LET t == fit.timestamps
        n == metadata.n_samples
    IN /\ n = Len(t)
       /\ metadata.min_timestamp = t[1]
       /\ metadata.max_timestamp = t[n]
       /\ TimeSpan(metadata) = t[n] - t[1]
       /\ RateDivisor(metadata) >= n - 1

\* A detector flags few of the points it was trained on: the gaussian one at
\* most a tenth of them, for any data (Cantelli's inequality), the isolation
\* forest less than the tenth it aims at and one point more.
FewFlagged ==
  answer = Trained =>
    LET k == Cardinality(metadata.flags)
        n == metadata.n_samples
    IN IF fit.detector = "gaussian" THEN 10 * k <= n ELSE 10 * k < n + 9
=============================================================================
