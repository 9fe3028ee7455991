-------------------------- MODULE MCGoalExecution --------------------------
(* Instances of GoalExecution: the planner's chain of three stages, with fewer *)
(* retries, and a rule of one's own with two subtasks ready together.         *)
EXTENDS GoalExecution

Planned(deps, maxRetries) == [deps |-> deps, maxRetries |-> maxRetries]

Chain == <<Planned({}, 1), Planned({1}, 0), Planned({2}, 0)>>

Join == <<Planned({}, 0), Planned({}, 1), Planned({1, 2}, 0)>>

\* Nothing checks the graphs that registered rules build.
Circle == <<Planned({2}, 0), Planned({1}, 0)>>

MCPlans == {Chain, Join, Circle}
=============================================================================
