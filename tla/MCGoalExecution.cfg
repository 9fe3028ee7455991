SPECIFICATION Spec
CONSTANTS
  Plans <- MCPlans
  PerTask = 2
  Slack = 0
  FallbackRetries = 1
INVARIANTS
  DependencyOrder
  NoDeadEnd
  NothingSkipped
  FailuresAreBounded
PROPERTY
  GoalEnds
CHECK_DEADLOCK FALSE
