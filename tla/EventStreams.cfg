\* Every event, asked for with any one argument fixed or none; two logs, the
\* channel holds one.
CONSTANTS
  Addr = {x, y}
  MaxLogs = 2
  LogCap = 1
SPECIFICATION StreamFairSpec
INVARIANTS OrderKept CompleteOrError
PROPERTIES DeliverySpec CallsReturn BreakIsReported
CHECK_DEADLOCK FALSE
