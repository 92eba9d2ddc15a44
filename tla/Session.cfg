SPECIFICATION FairSpec
CONSTANTS
  Rounds = 2
  AccuracyRounds = 2
  MaxDoits = 2
  Argv <- MCArgv
INVARIANTS TypeOK NoBadFree Balanced
PROPERTIES EndsUnlessMeasuring RefinesDoitProtocol
