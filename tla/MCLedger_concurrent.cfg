SPECIFICATION Spec
CONSTANTS
  Scale = 2
  Callers = {c1, c2}
  Ops <- AllOps
  PgAccounts <- Seeded
  PoolSize = 1
  MaxCalls = 3
INVARIANTS
  BooksBalance
  AnsweredMeansRecorded
PROPERTY
  CallsReturn
CHECK_DEADLOCK FALSE
