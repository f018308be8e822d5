\* Two pairs, one of whose blocks may be taken back.
CONSTANTS
  NPairs = 2
  MaxChanges = 2
  MaxUndone = 1
SPECIFICATION DemoFairSpec
INVARIANT DriftBounded
PROPERTIES CatchesUp EndedStreamEndsDemo
CHECK_DEADLOCK FALSE
