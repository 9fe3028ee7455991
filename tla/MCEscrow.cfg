SPECIFICATION Spec
CONSTANTS
  Tasks = {"a", "b", "c"}
  Amounts = {0, 1, 2}
  MaxRetries <- Retries
INVARIANTS
  SavedIsFinal
  OnlyFailedIsStuck
PROPERTY
  KeepsContract
