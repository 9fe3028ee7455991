SPECIFICATION Spec
CONSTANTS
  Scale = 1
  Tasks = {t1, t2, t3}
  Inbound = {}
  AdapterOf <- TwoAdapters
  IdOf <- TwoIds
  Cap = 1
  Budgets = {5}
  Estimates = {1}
  Costs = {1}
  ToolCost = 1
  Receipts <- ReceiptsGood
  MaxRetries = 0
  LedgerMayFail = FALSE
  MaxRestarts = 0
  MaxExpiries = 1
INVARIANTS
  MovedAtMostOnce
  LocksAreResolved
  OverrunIsBounded
SYMMETRY Alike
CHECK_DEADLOCK FALSE
