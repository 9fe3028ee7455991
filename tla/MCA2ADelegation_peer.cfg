SPECIFICATION Spec
CONSTANTS
  Requests = {"r4"}
  HttpRequests = {"r4"}
  Tasks = {"b"}
  TaskOf <- TaskOfRequest
  CostOf <- Costs
  PeerCosts = {2}
  InitialBalance = 2
  MaxRetries <- Retries
INVARIANT
  LockedDuringExecution
CHECK_DEADLOCK FALSE
