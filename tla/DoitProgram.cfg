SPECIFICATION Spec
CONSTANTS
  Problems <- MCProblems
  NoProblem = NoProblem
INVARIANTS TypeOK CanDoIsEnough FreesOnce ResultArrives
