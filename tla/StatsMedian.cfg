SPECIFICATION Spec
CONSTANTS
  St = 5
  Timing <- MCTiming
INVARIANT MedianIsMedian
