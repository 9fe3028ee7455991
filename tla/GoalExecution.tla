--------------------------- MODULE GoalExecution ---------------------------
(***************************************************************************)
(* core/agent.ts executeOpportunity: the loop that executes one goal's      *)
(* TaskGraph (core/htn), and the Morphling re-planning that rewrites the    *)
(* graph when a subtask fails.                                              *)
(*                                                                          *)
(* A subtask is known by its place in the graph, the order it was added in. *)
(* Every graph belongs to one goal and no other reads it, so one goal is    *)
(* modelled; shutdown, peers and executors are environment.  Prices, time   *)
(* limits and what the subtasks deliver are left out.                       *)
(***************************************************************************)
EXTENDS Integers, Sequences, FiniteSets

CONSTANTS
  Plans,           \* graphs the planner's rules may build: [deps, maxRetries] each
  PerTask, Slack,  \* maxIterations = size * PerTask + Slack; 5 and 10 in the code
  FallbackRetries  \* maxRetries of the subtasks that re-planning adds: 1

ASSUME GoalAssumption ==
  /\ PerTask \in Nat /\ Slack \in Nat /\ FallbackRetries \in Nat
  /\ \A p \in Plans : p \in Seq([deps : SUBSET (1..Len(p)), maxRetries : Nat])

VARIABLES
  graph,          \* the TaskGraph
  pc,             \* before the loop, at its head, in a batch, or over
  batch,          \* readyTasks still to be run; the first one is running
  iterations,
  plan,           \* the graph as the planner built it
  outcome,        \* what executeOpportunity returned
  stopped,        \* the agent is shutting down
  morphlingReplan \* whether the agent has a re-planning engine

vars == <<graph, pc, batch, iterations, plan, outcome, stopped, morphlingReplan>>

Nodes == DOMAIN graph

\* healing counts healingAttempts; instead is the subtask that took its place.
Subtask(deps, maxRetries) ==
  [deps |-> deps, status |-> "PENDING", assigned |-> FALSE, healing |-> 0,
   retryCount |-> 0, maxRetries |-> maxRetries, instead |-> 0]

Init ==
  /\ graph = <<>>
  /\ pc = "idle"
  /\ batch = <<>>
  /\ iterations = 0
  /\ plan = <<>>
  /\ outcome = "none"
  /\ stopped = FALSE
  /\ morphlingReplan \in BOOLEAN

-----------------------------------------------------------------------------
(* TaskGraph.                                                              *)

Met(n) == \A d \in graph[n].deps : graph[d].status = "COMPLETED"

Ready(n) == graph[n].status = "PENDING" /\ Met(n)

ReadyTasks == {n \in Nodes : Ready(n)}

\* A set of subtasks in the order of the graph.
Ordered(S) ==
  {s \in [1..Cardinality(S) -> S] :
     \A i, j \in 1..Cardinality(S) : i < j => s[i] < s[j]}

isCompleted == \A n \in Nodes : graph[n].status \in {"COMPLETED", "CANCELLED"}

hasFailedTasks == \E n \in Nodes : graph[n].status = "FAILED"

-----------------------------------------------------------------------------
(* The loop.                                                               *)

\* executeOpportunity is called; the economic brain is asked when not draining.
Evaluate ==
  /\ pc = "idle"
  /\ ~stopped
  /\ pc' = "planning"
  /\ UNCHANGED <<graph, batch, iterations, plan, outcome, stopped, morphlingReplan>>

\* The brain accepts, perhaps after a shutdown began.
Decompose ==
  /\ pc = "planning"
  /\ plan' \in Plans
  /\ graph' = [n \in DOMAIN plan' |-> Subtask(plan'[n].deps, plan'[n].maxRetries)]
  /\ pc' = "head"
  /\ UNCHANGED <<batch, iterations, outcome, stopped, morphlingReplan>>

Return(result) ==
  /\ pc' = "over"
  /\ outcome' = result
  /\ UNCHANGED <<graph, batch, plan, stopped, morphlingReplan>>

maxIterations == Len(plan) * PerTask + Slack

\* The condition of the loop: iterations++ counts once the first two let it.
Continues == ~isCompleted /\ ~hasFailedTasks /\ iterations < maxIterations

Refuse ==
  /\ \/ pc = "idle" /\ stopped
     \/ pc = "planning"
  /\ Return("refused")
  /\ UNCHANGED iterations

Leave ==
  /\ pc = "head"
  /\ ~Continues
  /\ Return(IF isCompleted THEN "success" ELSE "failure")
  /\ UNCHANGED iterations

Aborted ==
  /\ pc = "head"
  /\ Continues
  /\ stopped
  /\ iterations' = iterations + 1
  /\ Return("aborted")

\* Mutant: a loop with nothing ready goes round without counting.
NothingReadyWaits ==
  /\ pc = "head"
  /\ Continues
  /\ ~stopped
  /\ ReadyTasks = {}
  /\ UNCHANGED vars

NothingReady ==
  /\ pc = "head"
  /\ Continues
  /\ ~stopped
  /\ ReadyTasks = {}
  /\ iterations' = iterations + 1
  /\ Return("failure")

\* Start the first of a batch.  A subtask without an agent is given one when a
\* peer has the skill that this agent lacks.
Starts(tasks) ==
  \E found \in BOOLEAN :
    graph' = [graph EXCEPT ![Head(tasks)].status = "RUNNING",
                           ![Head(tasks)].assigned = @ \/ found]

\* Mutant: every pending subtask is taken for ready.
IterateAll ==
  /\ pc = "head"
  /\ Continues
  /\ ~stopped
  /\ \E tasks \in Ordered({n \in Nodes : graph[n].status = "PENDING"}) :
       batch' = tasks /\ tasks # <<>> /\ Starts(tasks)
  /\ iterations' = iterations + 1
  /\ pc' = "batch"
  /\ UNCHANGED <<plan, outcome, stopped, morphlingReplan>>

\* getReadyTasks, and the first of them started.
Iterate ==
  /\ pc = "head"
  /\ Continues
  /\ ~stopped
  /\ ReadyTasks # {}
  /\ \E tasks \in Ordered(ReadyTasks) : batch' = tasks /\ Starts(tasks)
  /\ iterations' = iterations + 1
  /\ pc' = "batch"
  /\ UNCHANGED <<plan, outcome, stopped, morphlingReplan>>

Running == batch[1]

Becomes(status) == [graph[Running] EXCEPT !.status = status]

\* The rest of the batch follows, whatever became of this one and of the agent.
Proceed(after) ==
  /\ batch' = Tail(batch)
  /\ IF Tail(batch) = <<>>
       THEN pc' = "head" /\ graph' = after
       ELSE /\ pc' = pc
            /\ \E found \in BOOLEAN :
                 graph' = [after EXCEPT ![batch[2]].status = "RUNNING",
                                        ![batch[2]].assigned = @ \/ found]
  /\ UNCHANGED <<iterations, plan, outcome, stopped, morphlingReplan>>

Succeeds ==
  /\ pc = "batch"
  /\ Proceed([graph EXCEPT ![Running] = Becomes("COMPLETED")])

\* Nothing re-plans.
Fails ==
  /\ pc = "batch"
  /\ ~morphlingReplan
  /\ Proceed([graph EXCEPT ![Running] = Becomes("FAILED")])

-----------------------------------------------------------------------------
(* handleSubtaskFailure.                                                   *)

Failed(n) == [graph[n] EXCEPT !.healing = @ + 1]

MayRetry(n) == graph[n].retryCount < graph[n].maxRetries

MayReroute(n) ==
  ~MayRetry(n) /\ graph[n].assigned /\ Failed(n).healing <= graph[n].maxRetries + 1

\* Strategy 1: once more, with more money and time.
Retries ==
  /\ pc = "batch"
  /\ morphlingReplan
  /\ MayRetry(Running)
  /\ Proceed([graph EXCEPT ![Running] =
       [Failed(Running) EXCEPT !.retryCount = @ + 1, !.status = "PENDING"]])

\* Mutant: a rerouted subtask is not taken from its peer.
ReroutesToPeer ==
  /\ pc = "batch"
  /\ morphlingReplan
  /\ ~MayRetry(Running) /\ graph[Running].assigned
  /\ Proceed([graph EXCEPT ![Running] = [Failed(Running) EXCEPT !.status = "PENDING"]])

\* Strategy 2: once more, here.
Reroutes ==
  /\ pc = "batch"
  /\ morphlingReplan
  /\ MayReroute(Running)
  /\ Proceed([graph EXCEPT ![Running] =
       [Failed(Running) EXCEPT !.assigned = FALSE, !.status = "PENDING"]])

\* Strategy 3: the subtask is cancelled; a first fallback step does what it should
\* have done, a second takes its place before all that depend on it.
First == Len(graph) + 1

Second == Len(graph) + 2

Rewired(n) ==
  IF Running \in graph[n].deps
  THEN [graph[n] EXCEPT !.deps = (@ \ {Running}) \cup {Second}]
  ELSE graph[n]

Replacing(n) ==
  IF n = First THEN Subtask(graph[Running].deps, FallbackRetries)
  ELSE IF n = Second THEN Subtask({First}, FallbackRetries)
  ELSE IF n = Running THEN [Failed(n) EXCEPT !.status = "CANCELLED", !.instead = Second]
  ELSE Rewired(n)

\* Mutant: what depends on the cancelled subtask is not rewired.
SplitsUnwired ==
  /\ pc = "batch"
  /\ morphlingReplan
  /\ ~MayRetry(Running) /\ ~MayReroute(Running)
  /\ Proceed([n \in 1..Second |->
       IF n \in Nodes \ {Running} THEN graph[n] ELSE Replacing(n)])

\* Mutant: a subtask that can no longer be helped is merely cancelled.
Cancels ==
  /\ pc = "batch"
  /\ morphlingReplan
  /\ ~MayRetry(Running) /\ ~MayReroute(Running)
  /\ Proceed([graph EXCEPT ![Running] = Becomes("CANCELLED")])

Splits ==
  /\ pc = "batch"
  /\ morphlingReplan
  /\ ~MayRetry(Running) /\ ~MayReroute(Running)
  /\ Proceed([n \in 1..Second |-> Replacing(n)])

-----------------------------------------------------------------------------
\* A signal: the loop sees it at its next head.
Stop ==
  /\ ~stopped
  /\ stopped' = TRUE
  /\ UNCHANGED <<graph, pc, batch, iterations, plan, outcome, morphlingReplan>>

Step ==
  \/ Evaluate \/ Decompose \/ Refuse
  \/ Leave \/ Aborted \/ NothingReady \/ Iterate
  \/ Succeeds \/ Fails
  \/ Retries \/ Reroutes \/ Splits

Next == Step \/ Stop

\* Executors and peers answer or time out.
Spec == Init /\ [][Next]_vars /\ WF_vars(Step)

-----------------------------------------------------------------------------
Statuses == {"PENDING", "RUNNING", "COMPLETED", "FAILED", "CANCELLED"}

Subtasks(k) ==
  [deps : SUBSET (1..k), status : Statuses, assigned : BOOLEAN, healing : Nat,
   retryCount : Nat, maxRetries : Nat, instead : 0..k]

TypeOK ==
  /\ graph \in [1..Len(graph) -> Subtasks(Len(graph))]
  /\ pc \in {"idle", "planning", "head", "batch", "over"}
  /\ batch \in Seq(Nodes)
  /\ pc = "batch" <=> batch # <<>>
  /\ iterations \in 0..maxIterations
  /\ plan \in Plans \cup {<<>>}
  /\ outcome \in {"none", "refused", "success", "failure", "aborted"}
  /\ stopped \in BOOLEAN
  /\ morphlingReplan \in BOOLEAN

\* A subtask is started, and done, only after all it depends on has been: however
\* the graph is rewritten while a batch computed from it before is being run.
DependencyOrder ==
  \A n \in Nodes : graph[n].status \in {"RUNNING", "COMPLETED"} => Met(n)

\* Re-planning never leaves the goal waiting for a subtask that will not be done:
\* as long as it is neither completed nor failed there is one to run, if the
\* planner's own graph could be done in the order it was built in.
Sound == \A n \in DOMAIN plan : \A d \in plan[n].deps : d < n

NoDeadEnd ==
  Sound /\ pc = "head" /\ ~isCompleted /\ ~hasFailedTasks => ReadyTasks # {}

\* A goal is reported achieved only when each subtask was done, or given up for
\* one that was done in its place.
StandsIn[n \in Nat] ==
  IF n \in Nodes /\ graph[n].status = "CANCELLED" /\ graph[n].instead > n
  THEN StandsIn[graph[n].instead] ELSE n

NothingSkipped ==
  outcome = "success" => \A n \in Nodes : graph[StandsIn[n]].status = "COMPLETED"

\* Each subtask fails at most maxRetries + 2 times, the last time after a peer it
\* had been given to.
FailuresAreBounded ==
  \A n \in Nodes : graph[n].healing <= graph[n].maxRetries + 2

\* Every goal ends, however often its subtasks fail.
GoalEnds == <>(pc = "over")
=============================================================================
