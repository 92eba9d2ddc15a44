SPECIFICATION Spec
CONSTANTS
  N = 2
  NaN = NaN
  Real <- MCRealNaN
  TolNum = 1
  TolDen = 2
INVARIANT NaNNeverPasses
