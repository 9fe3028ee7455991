SPECIFICATION Spec
CONSTANTS
  Calls = {c1, c2}
  Tasks = {t1, t2}
  MaxSockets = 3
INVARIANTS
  NoneForgotten
  ToldFirst
PROPERTIES
  OwnResultInTurn
  CallsSettle
CHECK_DEADLOCK FALSE
