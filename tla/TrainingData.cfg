SPECIFICATION Spec
CONSTANTS
  Fits <- MCFits
  Scores = {0, 1, 2}
  NaN = NaN
INVARIANTS FailFast EdgeSettings QualityTrue FewFlagged
