SPECIFICATION Spec
CONSTANTS
  Scale = 1
  Tasks = {"t1"}
  Inbound = {"r1"}
  AdapterOf <- OneAdapter
  IdOf <- DistinctIds
  Cap = 4
  Budgets = {0, 5}
  Estimates = {2, 5}
  Costs = {2}
  ToolCost = 1
  Receipts <- ReceiptsMixed
  MaxRetries = 1
  LedgerMayFail = TRUE
  MaxRestarts = 1
  MaxExpiries = 0
INVARIANTS
  MovedAtMostOnce
  SettledWasDelivered
  FeedbackFollowsMoney
  CleanDrain
PROPERTIES
  DeliveryIsFinal
  HandlersEnd
  
CHECK_DEADLOCK FALSE
