SPECIFICATION FairSpec
CONSTANTS
  TimeRepeat = 2
  TimeMin = 4
  IterLimit = 8
  BigTime = 100
  Noise = 1
  MaxSteps = 2
  Costs <- MCCosts
  Junk <- MCJunk
  SetupTimes <- MCSetupTimes
  ClockSteps <- MCBothWays
INVARIANTS TypeOK NoStaleTimes ReportedBatchSound ReportedRunsAreLong
PROPERTIES LeavesRoundOnlyWhenShort Terminates StartsOverForever RefinesMeasurement
