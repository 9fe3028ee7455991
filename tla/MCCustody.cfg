SPECIFICATION CustodySpec
CONSTANTS
  Payments = {s1, s2}
  Polls = {p1, p2}
  Files = {reputation, telemetry}
  Page = 1
  Seeded = TRUE
  MaxLives = 2
INVARIANTS
  PaymentsCountOnce
  SavesHold
SYMMETRY Alike
CHECK_DEADLOCK FALSE
