SPECIFICATION Spec
CONSTANTS
  a1 = a1
  a2 = a2
  AccountList <- MCAccountList
  Priority <- MCPriority
  Strategies = {"round-robin", "priority", "least-used", "smart"}
  Requests = {r1, r2}
  Window = 1
  PenaltyTime = 2
  PenaltyRate = 3
  PriorityWeight = 2
  MaxDelay = 1
  MaxTime = 3
  MaxSelections <- MCMaxSelections
SYMMETRY Symmetry
INVARIANTS
  CountIsWindow
  EvenlySpread
  AvoidsRefused
CHECK_DEADLOCK FALSE
