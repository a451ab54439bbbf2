SPECIFICATION Spec
CONSTANTS
  Fits <- Disordered
  Scores = {0, 1, 2}
  NaN = NaN
INVARIANT DocumentedOrder
