SPECIFICATION FairSpec
CONSTANTS
  Requests = {"r1", "r2", "r4", "r5"}
  HttpRequests = {"r4"}
  Tasks = {"a", "b", "c"}
  TaskOf <- TaskOfRequest
  CostOf <- Costs
  PeerCosts = {2}
  InitialBalance = 2
  MaxRetries <- Retries
INVARIANTS
  HonestReports
  LocalFundsComeFree
PROPERTIES
  KeepsContract
  RequestsEnd
CHECK_DEADLOCK FALSE
