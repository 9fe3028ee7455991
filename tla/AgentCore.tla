----------------------------- MODULE AgentCore -----------------------------
(***************************************************************************)
(* core/agent.ts: the loop of every marketplace adapter through             *)
(*   DISCOVER -> TRIAGE -> BUDGET -> ACCEPT -> EXECUTE -> QUALITY           *)
(*     -> DELIVER (or REJECT) -> SETTLE -> LEARN,                           *)
(* its escrow in the double-entry ledger, the daily budget guard, incoming  *)
(* A2A requests, and the graceful shutdown that waits for all of them.      *)
(*                                                                          *)
(* Each await of handleTask ends a step, so the steps of tasks of different *)
(* adapters interleave; the code between two awaits is atomic.  Every       *)
(* awaited call may throw.  The marketplaces, the triage, the executors and *)
(* the ledger's database are environment: their answers are chosen freely.  *)
(* The ledger is persistent: Crash loses the process, not the rows.         *)
(*                                                                          *)
(* A member of Tasks is one yield of a task by a feed.  An adapter remembers *)
(* for a while, and in memory, which ids it has yielded; a task that a feed  *)
(* still lists, or numbers anew, after that is yielded a second time: that is *)
(* another member of Tasks, with the same adapter and id.                    *)
(***************************************************************************)
EXTENDS LedgerEntries, Sequences, FiniteSets

CONSTANTS
  Tasks,         \* raw tasks the adapters may yield, one for each yield
  Inbound,       \* A2A requests peers may send to this agent
  AdapterOf,     \* the adapter that yields it
  IdOf,          \* the id of a task or request; nothing makes ids distinct
  Cap,           \* dailyCapUsd
  Budgets,       \* values of a task's budgetEstimateUsd
  Estimates,     \* values of triage's expectedTotalCostUsd
  Costs,         \* values of the cost of one execution
  ToolCost,      \* the fixed cost of a System 1 execution
  Receipts,      \* settlement receipts: [revenue, fee]
  MaxRetries,    \* quality retries of one task
  LedgerMayFail, \* whether an awaited ledger write may throw
  MaxRestarts,   \* bound: restarts of the process in a behaviour
  MaxExpiries    \* bound: after it, an adapter forgets an id by a restart only

ASSUME AgentAssumption ==
  /\ Cap \in Nat
  /\ ToolCost \in Nat
  /\ MaxRetries \in Nat
  /\ LedgerMayFail \in BOOLEAN
  /\ MaxRestarts \in Nat
  /\ MaxExpiries \in Nat
  /\ Budgets \subseteq Nat
  /\ Estimates \subseteq Nat
  /\ Costs \subseteq Nat
  /\ Receipts \subseteq [revenue : Nat, fee : Nat]

VARIABLES
  pc,        \* the await each task is in
  job,       \* the locals of each task's handler
  market,    \* what the marketplace knows of each task
  rows,      \* the statuses of each task's ledger transactions, oldest first
  books,     \* the net of every ledger account
  used,      \* BudgetGuard.usedTodayUsd
  stale,     \* lastResetDate is not today
  learned,   \* costToday(): today's cost over the learning events
  feedback,  \* the reputation feedback recorded for each task
  inFlight,  \* inFlightTasks, a set of ids
  request,   \* the state of each incoming A2A request
  phase,     \* of the process: running, waiting in stop(), how the wait ended
  restarts,
  seen,      \* the ids in the adapters' seenTaskIds, each with its adapter
  forgotten  \* how often each of them has left it, by its age or a restart

taskVars == <<pc, job, market, rows, books, used, stale, learned, feedback>>

feed == <<seen, forgotten>>

vars == <<taskVars, inFlight, request, phase, restarts, feed>>

Ids == {IdOf[x] : x \in Tasks \cup Inbound}

Key(t) == <<AdapterOf[t], IdOf[t]>>

Keys == {Key(t) : t \in Tasks}

Wallet(t) == walletCodeFor(AdapterOf[t])

Stopped == phase # "running"      \* draining and stopped, set together

Over == {"offered", "dropped", "done", "lost"}

Active(t) == pc[t] \notin Over

NoReceipt == [revenue |-> 0, fee |-> 0]

Blank == [escrow |-> 0, fast |-> FALSE, a2a |-> FALSE, attempt |-> 0,
          cost |-> 0, bill |-> 0, receipt |-> NoReceipt]

Init ==
  /\ pc = [t \in Tasks |-> "offered"]
  /\ job = [t \in Tasks |-> Blank]
  /\ market = [t \in Tasks |-> "open"]
  /\ rows = [t \in Tasks |-> <<>>]
  /\ books = NoEntries
  /\ used = 0
  /\ stale = FALSE
  /\ learned = 0
  /\ feedback = [t \in Tasks |-> "none"]
  /\ inFlight = {}
  /\ request = [r \in Inbound |-> "new"]
  /\ phase = "running"
  /\ restarts = 0
  /\ seen = {}
  /\ forgotten = [k \in Keys |-> 0]

-----------------------------------------------------------------------------
(* The budget guard.                                                       *)

\* rolloverIfNeeded: what has been used once the day's change is noticed.
UsedToday == IF stale THEN 0 ELSE used

\* Mutant: the cap is compared with the estimate alone.
wouldExceedAlone(estimate) == estimate > Cap

wouldExceed(estimate) == UsedToday + estimate > Cap

Rollover == used' = UsedToday /\ stale' = FALSE

record(cost) == used' = UsedToday + cost /\ stale' = FALSE

Midnight ==
  /\ ~stale
  /\ stale' = TRUE
  /\ learned' = 0
  /\ UNCHANGED <<pc, job, market, rows, books, used, feedback, inFlight,
                 request, phase, restarts, feed>>

-----------------------------------------------------------------------------
(* Helpers of the handler.                                                 *)

Goto(t, to) == pc' = [pc EXCEPT ![t] = to]

\* The handler ends: its finally clause clears the id, its locals are gone,
\* but for what it spent and never recorded.
Finish(t) ==
  /\ Goto(t, "done")
  /\ job' = [job EXCEPT ![t] = [Blank EXCEPT !.cost = job[t].cost]]
  /\ inFlight' = inFlight \ {IdOf[t]}

Sets(t, status) == market' = [market EXCEPT ![t] = status]

\* A call to the marketplace that throws may still have taken effect.
MaybeSets(t, status) == Sets(t, status) \/ UNCHANGED market

Insert(t, status, entries) ==
  /\ rows' = [rows EXCEPT ![t] = Append(@, status)]
  /\ books' = Post(books, entries)

\* refundFunds, as the handler calls it: it never looks for a lock to refund, an
\* amount that is not positive is skipped, a throw is logged and forgotten.
Refund(t) ==
  \/ /\ AmountVerdict(job[t].escrow) = "post"
     /\ Insert(t, "failed", RefundEntries(Wallet(t), job[t].escrow))
  \/ /\ LedgerMayFail \/ AmountVerdict(job[t].escrow) = "empty"
     /\ UNCHANGED <<rows, books>>

\* Which execution path takes the task, once System 1 is out of the question.
System2(j) == IF j.a2a THEN "a2a" ELSE "execute"

-----------------------------------------------------------------------------
(* DISCOVER.  Each adapter's tasks are handled one at a time.               *)

Idle(t) ==
  \A u \in Tasks : AdapterOf[u] = AdapterOf[t] => ~Active(u)

\* Mutant: an adapter yields whatever its feed lists.
YieldsAnything(t) == seen' = seen \cup {Key(t)} /\ UNCHANGED forgotten

\* The poll passes over an id that it remembers, unless that was fifteen minutes ago, and
\* remembers those it yields.
Yields(t) ==
  /\ seen' = seen \cup {Key(t)}
  /\ \/ /\ Key(t) \notin seen
        /\ UNCHANGED forgotten
     \/ /\ Key(t) \in seen
        /\ forgotten[Key(t)] < MaxExpiries
        /\ forgotten' = [forgotten EXCEPT ![Key(t)] = @ + 1]

\* Mutant: the id is not entered in inFlightTasks.
PollUntracked(t) ==
  /\ pc[t] = "offered"
  /\ Idle(t)
  /\ ~Stopped
  /\ Yields(t)
  /\ \E b \in Budgets : job' = [job EXCEPT ![t].escrow = b]
  /\ Goto(t, "triage")
  /\ UNCHANGED <<market, rows, books, used, stale, learned, feedback, inFlight,
                 request, phase, restarts>>

Poll(t) ==
  /\ pc[t] = "offered"
  /\ Idle(t)
  /\ ~Stopped
  /\ Yields(t)
  /\ \E b \in Budgets : job' = [job EXCEPT ![t].escrow = b]
  /\ Goto(t, "triage")
  /\ inFlight' = inFlight \cup {IdOf[t]}
  /\ UNCHANGED <<market, rows, books, used, stale, learned, feedback, request,
                 phase, restarts>>

\* The poll yields a task after stop(): the loop returns without a word to the
\* marketplace.  handleTask's own draining branch is never reached from here.
Drop(t) ==
  /\ pc[t] = "offered"
  /\ Idle(t)
  /\ phase = "waiting"
  /\ \A u \in Tasks : AdapterOf[u] = AdapterOf[t] => pc[u] # "dropped"
  /\ Yields(t)
  /\ Goto(t, "dropped")
  /\ UNCHANGED <<job, market, rows, books, used, stale, learned, feedback,
                 inFlight, request, phase, restarts>>

(* TRIAGE and the BUDGET gate, read and decided in one go.                  *)

TriageThrows(t) ==
  /\ pc[t] = "triage"
  /\ Goto(t, "catch")
  /\ UNCHANGED <<job, market, rows, books, used, stale, learned, feedback,
                 inFlight, request, phase, restarts, feed>>

TriageDeclines(t) ==
  /\ pc[t] = "triage"
  /\ Goto(t, "reject")
  /\ UNCHANGED <<job, market, rows, books, used, stale, learned, feedback,
                 inFlight, request, phase, restarts, feed>>

TriageAccepts(t) ==
  /\ pc[t] = "triage"
  /\ \E e \in Estimates : Goto(t, IF wouldExceed(e) THEN "reject" ELSE "accept")
  /\ \E fast, a2a \in BOOLEAN :
       job' = [job EXCEPT ![t].fast = fast, ![t].a2a = a2a]
  /\ Rollover
  /\ UNCHANGED <<market, rows, books, learned, feedback, inFlight, request,
                 phase, restarts, feed>>

Reject(t) ==
  /\ pc[t] = "reject"
  /\ Sets(t, "rejected")
  /\ Finish(t)
  /\ UNCHANGED <<rows, books, used, stale, learned, feedback, request, phase,
                 restarts, feed>>

RejectThrows(t) ==
  /\ pc[t] = "reject"
  /\ MaybeSets(t, "rejected")
  /\ Goto(t, "catch")
  /\ UNCHANGED <<job, rows, books, used, stale, learned, feedback, inFlight,
                 request, phase, restarts, feed>>

-----------------------------------------------------------------------------
(* ACCEPT, and the escrow lock that follows it.                             *)

Accept(t) ==
  /\ pc[t] = "accept"
  /\ Sets(t, "accepted")
  /\ Goto(t, "lock")
  /\ UNCHANGED <<job, rows, books, used, stale, learned, feedback, inFlight,
                 request, phase, restarts, feed>>

\* Mutant: a refused task is triaged again.
AcceptRefusedRetries(t) ==
  /\ pc[t] = "accept"
  /\ Goto(t, "triage")
  /\ UNCHANGED <<job, market, rows, books, used, stale, learned, feedback,
                 inFlight, request, phase, restarts, feed>>

AcceptRefused(t) ==
  /\ pc[t] = "accept"
  /\ Finish(t)
  /\ UNCHANGED <<market, rows, books, used, stale, learned, feedback, request,
                 phase, restarts, feed>>

AcceptThrows(t) ==
  /\ pc[t] = "accept"
  /\ MaybeSets(t, "accepted")
  /\ Goto(t, "catch")
  /\ UNCHANGED <<job, rows, books, used, stale, learned, feedback, inFlight,
                 request, phase, restarts, feed>>

Lock(t) ==
  /\ pc[t] = "lock"
  /\ AmountVerdict(job[t].escrow) = "post"
  /\ Insert(t, "pending", LockEntries(Wallet(t), job[t].escrow))
  /\ Goto(t, IF job[t].fast THEN "system1" ELSE System2(job[t]))
  /\ UNCHANGED <<job, market, used, stale, learned, feedback, inFlight, request,
                 phase, restarts, feed>>

\* lockFunds throws, or returns null for an amount that is not positive.
LockFails(t) ==
  /\ pc[t] = "lock"
  /\ LedgerMayFail \/ AmountVerdict(job[t].escrow) = "empty"
  /\ Goto(t, "lockReject")
  /\ UNCHANGED <<job, market, rows, books, used, stale, learned, feedback,
                 inFlight, request, phase, restarts, feed>>

LockReject(t) ==
  /\ pc[t] = "lockReject"
  /\ MaybeSets(t, "rejected")
  /\ Finish(t)
  /\ UNCHANGED <<rows, books, used, stale, learned, feedback, request, phase,
                 restarts, feed>>

-----------------------------------------------------------------------------
(* EXECUTE: System 1, then an A2A peer or the local quality loop.           *)

\* Mutant: a tool's result is settled without being delivered.
System1Undelivered(t) ==
  /\ pc[t] = "system1"
  /\ record(ToolCost)
  /\ \E rec \in Receipts :
       job' = [job EXCEPT ![t].bill = ToolCost, ![t].receipt = rec]
  /\ Goto(t, "release")
  /\ UNCHANGED <<market, rows, books, learned, feedback, inFlight, request,
                 phase, restarts, feed>>

\* The cost is recorded whether the tool's result is used or not.
System1(t) ==
  /\ pc[t] = "system1"
  /\ record(ToolCost)
  /\ \/ /\ Goto(t, "deliver")
        /\ job' = [job EXCEPT ![t].bill = ToolCost]
     \/ /\ Goto(t, System2(job[t]))
        /\ job' = [job EXCEPT ![t].fast = FALSE]
  /\ UNCHANGED <<market, rows, books, learned, feedback, inFlight, request,
                 phase, restarts, feed>>

\* The awaited request to a peer is answered; its cost is recorded either way.
PeerAnswers(t) ==
  /\ pc[t] = "a2a"
  /\ \E c \in Costs :
       /\ record(c)
       /\ job' = [job EXCEPT ![t].bill = c]
  /\ UNCHANGED <<market, rows, books, learned, feedback, inFlight, request,
                 phase, restarts, feed>>

\* The branches of success and failure repeat, for a peer's work, what the local loop's
\* do: they share its steps from here.
PeerDelivers(t) == PeerAnswers(t) /\ Goto(t, "deliver")
PeerFails(t) == PeerAnswers(t) /\ Goto(t, "failReject")

A2A(t) == PeerDelivers(t) \/ PeerFails(t)

\* One pass of executeWithQuality's loop that ends it: deliver, or fail once
\* the retries are used up.  The cost of all passes is recorded.
ExecuteEnds(t) ==
  /\ pc[t] = "execute"
  /\ \/ Goto(t, "deliver")
     \/ job[t].attempt >= MaxRetries /\ Goto(t, "failReject")
  /\ \E c \in Costs :
       /\ record(job[t].cost + c)
       /\ job' = [job EXCEPT ![t].bill = job[t].cost + c, ![t].cost = 0]
  /\ UNCHANGED <<market, rows, books, learned, feedback, inFlight, request,
                 phase, restarts, feed>>

ExecuteAgain(t) ==
  /\ pc[t] = "execute"
  /\ job[t].attempt < MaxRetries
  /\ \E c \in Costs :
       job' = [job EXCEPT ![t].cost = @ + c, ![t].attempt = @ + 1]
  /\ UNCHANGED <<pc, market, rows, books, used, stale, learned, feedback,
                 inFlight, request, phase, restarts, feed>>

ExecutionThrows(t) ==
  /\ pc[t] \in {"system1", "a2a", "execute"}
  /\ Goto(t, "catch")
  /\ UNCHANGED <<job, market, rows, books, used, stale, learned, feedback,
                 inFlight, request, phase, restarts, feed>>

-----------------------------------------------------------------------------
(* Quality or the peer failed: reject, refund, learn, reflect.              *)

FailReject(t) ==
  /\ pc[t] = "failReject"
  /\ MaybeSets(t, "rejected")
  /\ Goto(t, "failRefund")
  /\ UNCHANGED <<job, rows, books, used, stale, learned, feedback, inFlight,
                 request, phase, restarts, feed>>

\* Mutant: a failed execution is not refunded.
FailRefundSkipped(t) ==
  /\ pc[t] = "failRefund"
  /\ Goto(t, "failLearn")
  /\ UNCHANGED <<job, market, rows, books, used, stale, learned, feedback,
                 inFlight, request, phase, restarts, feed>>

\* Mutant: the failure is rethrown after the refund.
FailRefundRethrows(t) ==
  /\ pc[t] = "failRefund"
  /\ Refund(t)
  /\ Goto(t, "catch")
  /\ UNCHANGED <<job, market, used, stale, learned, feedback, inFlight, request,
                 phase, restarts, feed>>

FailRefund(t) ==
  /\ pc[t] = "failRefund"
  /\ Refund(t)
  /\ Goto(t, "failLearn")
  /\ UNCHANGED <<job, market, used, stale, learned, feedback, inFlight, request,
                 phase, restarts, feed>>

\* LearningStore.record: an event with this cost, unless its insertion fails.
LearningEvent(cost) == learned' \in {learned, learned + cost}

\* recordLearning takes a budget snapshot, which rolls the day over.
recordLearning(t) == LearningEvent(job[t].bill) /\ Rollover

\* Only the local loop gives feedback of its own and goes on to reflect: a peer's
\* failure is fed back by the A2A capability.
FailLearn(t) ==
  /\ pc[t] = "failLearn"
  /\ recordLearning(t)
  /\ IF job[t].a2a
       THEN Finish(t) /\ UNCHANGED feedback
       ELSE /\ Goto(t, "evolve")
            /\ feedback' = [feedback EXCEPT ![t] = "failure"]
            /\ UNCHANGED <<job, inFlight>>
  /\ UNCHANGED <<market, rows, books, request, phase, restarts, feed>>

\* The awaited Morphling evolution cycle, whatever it ends in.
Evolve(t) ==
  /\ pc[t] = "evolve"
  /\ Finish(t)
  /\ UNCHANGED <<market, rows, books, used, stale, learned, feedback, request,
                 phase, restarts, feed>>

-----------------------------------------------------------------------------
(* DELIVER, SETTLE, LEARN.                                                  *)

Deliver(t) ==
  /\ pc[t] = "deliver"
  /\ Sets(t, "delivered")
  /\ \E rec \in Receipts : job' = [job EXCEPT ![t].receipt = rec]
  /\ Goto(t, "release")
  /\ UNCHANGED <<rows, books, used, stale, learned, feedback, inFlight, request,
                 phase, restarts, feed>>

DeliverThrows(t) ==
  /\ pc[t] = "deliver"
  /\ MaybeSets(t, "delivered")
  /\ Goto(t, "catch")
  /\ UNCHANGED <<job, rows, books, used, stale, learned, feedback, inFlight,
                 request, phase, restarts, feed>>

Settlement(j) == [revenue |-> j.receipt.revenue, fee |-> j.receipt.fee,
                  cost |-> j.bill, gas |-> 0]

\* Mutant: an unbalanced release is skipped like an empty one.
ReleaseSkipsUnbalanced(t) ==
  LET entries == ReleaseEntries(Wallet(t), Settlement(job[t])) IN
  /\ pc[t] = "release"
  /\ IF ReleaseVerdict(entries) = "post" THEN Insert(t, "settled", entries)
     ELSE UNCHANGED <<rows, books>>
  /\ Goto(t, "learn")
  /\ UNCHANGED <<job, market, used, stale, learned, feedback, inFlight, request,
                 phase, restarts, feed>>

Release(t) ==
  LET entries == ReleaseEntries(Wallet(t), Settlement(job[t])) IN
  /\ pc[t] = "release"
  /\ CASE ReleaseVerdict(entries) = "post" ->
            Insert(t, "settled", entries) /\ Goto(t, "learn")
       [] ReleaseVerdict(entries) = "empty" ->
            UNCHANGED <<rows, books>> /\ Goto(t, "learn")
       [] ReleaseVerdict(entries) = "unbalanced" ->
            UNCHANGED <<rows, books>> /\ Goto(t, "catch")
  /\ UNCHANGED <<job, market, used, stale, learned, feedback, inFlight, request,
                 phase, restarts, feed>>

ReleaseThrows(t) ==
  /\ pc[t] = "release"
  /\ LedgerMayFail
  /\ Goto(t, "catch")
  /\ UNCHANGED <<job, market, rows, books, used, stale, learned, feedback,
                 inFlight, request, phase, restarts, feed>>

Learn(t) ==
  /\ pc[t] = "learn"
  /\ recordLearning(t)
  /\ feedback' = IF job[t].fast \/ job[t].a2a
                   THEN feedback ELSE [feedback EXCEPT ![t] = "success"]
  /\ Finish(t)
  /\ UNCHANGED <<market, rows, books, request, phase, restarts, feed>>

\* Mutant: the outer catch rejects the task, delivered or not.
CatchRejects(t) ==
  /\ pc[t] = "catch"
  /\ Refund(t)
  /\ Sets(t, "rejected")
  /\ feedback' = [feedback EXCEPT ![t] = "failure"]
  /\ Finish(t)
  /\ UNCHANGED <<used, stale, learned, request, phase, restarts, feed>>

\* The outer catch: refund the budget estimate, whatever had been locked,
\* released or delivered.
Catch(t) ==
  /\ pc[t] = "catch"
  /\ Refund(t)
  /\ feedback' = [feedback EXCEPT ![t] = "failure"]
  /\ Finish(t)
  /\ UNCHANGED <<market, used, stale, learned, request, phase, restarts, feed>>

-----------------------------------------------------------------------------
(* Incoming A2A requests, and the life of the process.                     *)

\* Refused while draining (503), and otherwise when a rate limiter says so (429).
Refuse(r) ==
  /\ request[r] = "new"
  /\ phase # "exited"
  /\ request' = [request EXCEPT ![r] = "refused"]
  /\ UNCHANGED <<taskVars, inFlight, phase, restarts, feed>>

Admit(r) ==
  /\ request[r] = "new"
  /\ ~Stopped
  /\ request' = [request EXCEPT ![r] = "running"]
  /\ inFlight' = inFlight \cup {IdOf[r]}
  /\ UNCHANGED <<taskVars, phase, restarts, feed>>

\* Whatever the verification and the capability answer, the id is cleared.
Answer(r) ==
  /\ request[r] = "running"
  /\ request' = [request EXCEPT ![r] = "answered"]
  /\ inFlight' = inFlight \ {IdOf[r]}
  /\ UNCHANGED <<taskVars, phase, restarts, feed>>

\* SIGINT or SIGTERM: stop() stops the adapters and waits.
Stop ==
  /\ phase = "running"
  /\ phase' = "waiting"
  /\ UNCHANGED <<taskVars, inFlight, request, restarts, feed>>

DrainClean ==
  /\ phase = "waiting"
  /\ inFlight = {}
  /\ phase' = "clean"
  /\ UNCHANGED <<taskVars, inFlight, request, restarts, feed>>

DrainTimeout ==
  /\ phase = "waiting"
  /\ inFlight # {}
  /\ phase' = "timedout"
  /\ UNCHANGED <<taskVars, inFlight, request, restarts, feed>>

\* Handlers and what the adapters remember die with the process.
Die ==
  /\ phase' = "exited"
  /\ pc' = [t \in Tasks |->
              IF Active(t) \/ pc[t] = "dropped" THEN "lost" ELSE pc[t]]
  /\ job' = [t \in Tasks |-> Blank]
  /\ request' = [r \in Inbound |->
                   IF request[r] = "running" THEN "lost" ELSE request[r]]
  /\ inFlight' = {}
  /\ seen' = {}
  /\ forgotten' = [k \in Keys |-> forgotten[k] + (IF k \in seen THEN 1 ELSE 0)]
  /\ UNCHANGED <<market, rows, books, used, stale, learned, feedback, restarts>>


\* The wait is over: state is saved, the pool closed, and process.exit(0).
Exit == phase \in {"clean", "timedout"} /\ Die

Crash == phase # "exited" /\ restarts < MaxRestarts /\ Die

\* The guard is hydrated from the learning events, or starts from zero when
\* that fails; the ledger is not read.
Restart ==
  /\ phase = "exited"
  /\ restarts < MaxRestarts
  /\ phase' = "running"
  /\ restarts' = restarts + 1
  /\ used' \in {learned, 0}
  /\ stale' = FALSE
  /\ UNCHANGED <<pc, job, market, rows, books, learned, feedback, inFlight,
                 request, feed>>

-----------------------------------------------------------------------------
\* The steps that a handler takes by itself once its awaited call settles.
Step(t) ==
  \/ TriageThrows(t) \/ TriageDeclines(t) \/ TriageAccepts(t)
  \/ Reject(t) \/ RejectThrows(t)
  \/ Accept(t) \/ AcceptRefused(t) \/ AcceptThrows(t)
  \/ Lock(t) \/ LockFails(t) \/ LockReject(t)
  \/ System1(t) \/ A2A(t)
  \/ ExecuteEnds(t) \/ ExecuteAgain(t) \/ ExecutionThrows(t)
  \/ FailReject(t) \/ FailRefund(t) \/ FailLearn(t) \/ Evolve(t)
  \/ Deliver(t) \/ DeliverThrows(t)
  \/ Release(t) \/ ReleaseThrows(t) \/ Learn(t) \/ Catch(t)

Process == Stop \/ DrainClean \/ DrainTimeout \/ Exit \/ Crash \/ Restart

Next ==
  \/ \E t \in Tasks : Poll(t) \/ Drop(t) \/ Step(t)
  \/ \E r \in Inbound : Refuse(r) \/ Admit(r) \/ Answer(r)
  \/ Midnight
  \/ Process

\* Every awaited call settles, and the poll of inFlightTasks in stop() runs
\* until it is empty or the time is up.  Nothing makes an adapter offer a task,
\* a peer send a request, or a signal arrive.
Fairness ==
  /\ \A t \in Tasks : WF_vars(Step(t))
  /\ \A r \in Inbound : WF_vars(Answer(r))
  /\ WF_vars(DrainClean \/ DrainTimeout)
  /\ WF_vars(Exit)

Spec == Init /\ [][Next]_vars /\ Fairness

-----------------------------------------------------------------------------
Points == Over \cup {"triage", "reject", "accept", "lock", "lockReject", "system1",
                    "a2a", "execute", "failReject", "failRefund", "failLearn",
                    "evolve", "deliver", "release", "learn", "catch"}

Earnings == [revenue : Nat, fee : Nat]

Jobs == [escrow : Nat, fast : BOOLEAN, a2a : BOOLEAN, attempt : Nat, cost : Nat,
         bill : Nat, receipt : Earnings]

TypeOK ==
  /\ pc \in [Tasks -> Points]
  /\ job \in [Tasks -> Jobs]
  /\ market \in [Tasks -> {"open", "accepted", "rejected", "delivered"}]
  /\ rows \in [Tasks -> Seq({"pending", "settled", "failed"})]
  /\ books \in [Accounts -> Int]
  /\ used \in Nat
  /\ learned \in Nat
  /\ stale \in BOOLEAN
  /\ feedback \in [Tasks -> {"none", "success", "failure"}]
  /\ inFlight \subseteq Ids
  /\ request \in [Inbound -> {"new", "refused", "running", "answered", "lost"}]
  /\ phase \in {"running", "waiting", "clean", "timedout", "exited"}
  /\ restarts \in 0..MaxRestarts
  /\ seen \subseteq Keys
  /\ forgotten \in [Keys -> Nat]

HasRow(t, status) == \E i \in DOMAIN rows[t] : rows[t][i] = status

\* Whichever path a yielded task takes through System 1, a peer, the retries
\* and the error handlers, and wherever the process dies, its money moves at
\* most once after the lock: it is never settled twice, never refunded twice,
\* and never both settled and refunded.  lockFunds asks nobody whether the task
\* was there before, so what a feed lists again is locked and moved again: but
\* only as often as its adapter has forgotten the id.
MovedAtMostOnce ==
  /\ \A t \in Tasks :
       rows[t] \in {<<>>, <<"pending">>, <<"failed">>,
                   <<"pending", "settled">>, <<"pending", "failed">>}
  /\ \A k \in Keys :
       Cardinality({t \in Tasks : Key(t) = k /\ rows[t] # <<>>}) <= 1 + forgotten[k]

\* No execution is so cheap that its cost rounds to nothing.
CostsCount == \A c \in Costs : round8(c) > 0

\* When the ledger accepts every write, a handler that ends has settled or
\* refunded what it locked.  (A delivery that earns nothing, pays no fee and
\* cost nothing is not booked and keeps its lock: costs must count.)
LocksAreResolved ==
  ~LedgerMayFail /\ CostsCount /\ round8(ToolCost) > 0 =>
    \A t \in Tasks : pc[t] = "done" /\ HasRow(t, "pending") =>
      HasRow(t, "settled") \/ HasRow(t, "failed")

\* Revenue is booked only for work the marketplace received, and what it
\* received is never rejected afterwards by an error handler.  (Of a task that
\* is yielded twice, each is told of its own delivery.)
SettledWasDelivered ==
  \A t \in Tasks : HasRow(t, "settled") => market[t] = "delivered"

DeliveryIsFinal ==
  [][\A t \in Tasks : market[t] = "delivered" => market'[t] = "delivered"]_vars

\* The agent's own reputation follows the money: praise only for a settled task,
\* never for a refunded one, and blame for none that was settled.  (As above, a
\* delivery with nothing to book is praised without a settlement.)
FeedbackFollowsMoney ==
  CostsCount =>
    \A t \in Tasks :
      /\ feedback[t] = "success" => HasRow(t, "settled") /\ ~HasRow(t, "failed")
      /\ feedback[t] = "failure" => ~HasRow(t, "settled")

MaxOf(S) == CHOOSE x \in S : \A y \in S : y <= x

\* The most one task can spend: a System 1 try, then every pass of the loop.
TaskCeiling == ToolCost + (MaxRetries + 1) * MaxOf(Costs)

\* The daily cap is checked before a task and its cost recorded after it, so
\* every adapter may overrun it, but by no more than the task it has in hand:
\* until the process restarts.  A task charged before midnight and learned from
\* after it is in the sum a restart begins with, beside what the new day spent.
OverrunIsBounded ==
  restarts = 0 =>
    used <= Cap + Cardinality({AdapterOf[t] : t \in Tasks}) * TaskCeiling

\* "all in-flight tasks finished cleanly": when the wait of stop() ends without
\* its timeout, no handler is still at work.  It holds when only yields of one
\* adapter, which are handled one after the other, share an id.
CleanDrain ==
  phase = "clean" =>
    /\ \A t \in Tasks : ~Active(t)
    /\ \A r \in Inbound : request[r] # "running"

\* Every handler ends, whatever its calls answer, unless the process does.
HandlersEnd == \A t \in Tasks : Active(t) ~> ~Active(t)

=============================================================================
