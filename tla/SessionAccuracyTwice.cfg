SPECIFICATION Spec
CONSTANTS
  Rounds = 1
  AccuracyRounds = 1
  MaxDoits = 1
  Argv <- MCAccuracyTwice
INVARIANT NoBadFree
