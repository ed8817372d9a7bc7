SPECIFICATION Spec
CONSTANTS
  Settle = 2
  Timeout = 8
  Poll = 1
  Late = 1
  MaxInvocation = 3
INVARIANTS IInv HeldForSettleTime RefusedForAReason EndsInTime
CHECK_DEADLOCK FALSE
