SPECIFICATION FairSpec
CONSTANTS
  St = 5
  Timing <- MCTiming
INVARIANTS TypeOK FiguresConsistent BatchKept
PROPERTY Returns
