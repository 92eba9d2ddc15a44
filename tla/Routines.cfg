SPECIFICATION RoutinesSpec
CONSTANTS
  N = 2
  NaN = NaN
  Real <- MCReal
  TolNum = 1
  TolDen = 2
  Problems <- HermProblems
  Junk = 1000
  Texts <- MCTexts
  MaxRank = 3
  NumberMax = 127
  CommandLines <- MCCommandLines
  LongOptions <- BenchOptions
  Machines <- MCMachines
  TmaxTry = 16384
  IntMax = 99999999
INVARIANTS VerdictIsRight LayoutAsDocumented RoundTrip TesterDecides ReferenceIsDft
  ArithIsRounded ParsesAsWritten CalibrationIsSound OptionsInOrder
