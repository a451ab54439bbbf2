---------------------------- MODULE MCTrainingData ----------------------------
(***************************************************************************)
(* Small instances of TrainingData: short series for the rules, longer     *)
(* ones of few values for the flags.                                       *)
(***************************************************************************)
EXTENDS TrainingData

Conf(min, std, flat, window, gap, factor) ==
  [min_data_points : min, std_threshold : std,
   flat_line_enabled : flat, flat_line_window : window,
   temporal_gap_enabled : gap, max_temporal_gap_factor : factor]

Request(ts, vs, ds, safes, confs) ==
  [timestamps : ts, values : vs, detector : ds, safe : safes, settings : confs]

Tuples(S, n) == [1 .. n -> S]

Increasing(m, n) ==
  {t \in Tuples(0 .. m, n) : \A i \in 1 .. n - 1 : t[i] < t[i + 1]}

\* Timestamps in any order, with repetitions, and values that may be missing.
Disordered ==
  UNION {Request(Tuples(0 .. 2, n), Tuples({0, 2, NaN}, n), {"gaussian"}, {TRUE},
                 Conf({2}, {5}, {TRUE, FALSE}, {2}, {TRUE, FALSE}, {4})) : n \in 1 .. 3}

\* Increasing timestamps under all settings of the last rules and of the
\* threshold: none, any variation, and one unit.
Tuned ==
  UNION {Request(Increasing(5, n), Tuples({0, 2}, n), {"gaussian"}, {TRUE},
                 Conf({1}, {0, 1, 10}, BOOLEAN, 0 .. 2, BOOLEAN, {1, 2, 3}))
           : n \in 1 .. 4}

\* Bodies of unequal lengths, an unsupported detector, an unsafe series.
Malformed ==
  UNION {Request(Tuples(0 .. 1, n), Tuples({0, 2}, k),
                 {"gaussian", "prophet"}, BOOLEAN,
                 Conf({2}, {1}, {FALSE}, {2}, {FALSE}, {4}))
           : n \in 0 .. 2, k \in 0 .. 2}

\* i zeros, then ones, then fives: the flags do not depend on the order.
Stairs(n) ==
  {[x \in 1 .. n |-> IF x <= i THEN 0 ELSE IF x <= j THEN 1 ELSE 5]
     : i \in 0 .. n, j \in 0 .. n}

Long ==
  UNION {Request({[i \in 1 .. n |-> i]}, Stairs(n), Detectors, {TRUE},
                 Conf({10}, {0}, {FALSE}, {2}, {FALSE}, {4})) : n \in 9 .. 22}

MCFits == Disordered \cup Tuned \cup Malformed \cup Long
=============================================================================
