SPECIFICATION CalSpec
CONSTANTS
  Machines <- MCMachines
  TmaxTry = 16384
  IntMax = 99999999
INVARIANT AcceptedWasMeasured
CHECK_DEADLOCK FALSE
