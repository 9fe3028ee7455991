--------------------------- MODULE A2ADelegation ---------------------------
(***************************************************************************)
(* core/a2a-capability.ts executeTask and core/a2a-orchestrator.ts: paid    *)
(* requests for a service, each run by a remote peer over HTTP or by this   *)
(* agent's own orchestrator, with the price held by the escrow meanwhile.   *)
(*                                                                          *)
(* A request is in one of the awaits of executeTask; what runs between two  *)
(* awaits is one step.  The peer, the tool, the evaluation and the checks   *)
(* of signatures are environment.  Requests share the escrow of module      *)
(* Escrow and one wallet; two of them may carry the same task id, as when a *)
(* client sends its request again.                                          *)
(***************************************************************************)
EXTENDS Integers, FiniteSets

CONSTANTS
  Requests,     \* calls of executeTask
  HttpRequests, \* those that go to a peer with an HTTP endpoint
  Tasks,        \* task ids
  TaskOf,       \* the taskId of a request
  CostOf,       \* the costUsd of a request
  PeerCosts,    \* values of metrics.costUsd in a peer's answer
  InitialBalance,
  MaxRetries    \* of the escrow that holds a task's funds

ASSUME DelegationAssumption ==
  /\ HttpRequests \subseteq Requests
  /\ TaskOf \in [Requests -> Tasks]
  /\ CostOf \in [Requests -> Nat]
  /\ PeerCosts \subseteq Nat
  /\ InitialBalance \in Nat
  /\ MaxRetries \in [Tasks -> Nat]

VARIABLES
  store, reconciliationQueue, saved,   \* of the escrow
  pc,        \* the await a request is in
  result,    \* the result a request has, or will be answered with
  balance    \* of the AgentWallet

escrowVars == <<store, reconciliationQueue, saved>>

vars == <<escrowVars, pc, result, balance>>

Amounts == {CostOf[r] : r \in Requests}

E == INSTANCE Escrow

Result(success, escrowStatus, cost) ==
  [success |-> success, escrowStatus |-> escrowStatus, cost |-> cost]

NoResult == Result(FALSE, "none", 0)

Init ==
  /\ E!Init
  /\ pc = [r \in Requests |-> "idle"]
  /\ result = [r \in Requests |-> NoResult]
  /\ balance = InitialBalance

Http(r) == r \in HttpRequests

Go(r, from, to) == pc[r] = from /\ pc' = [pc EXCEPT ![r] = to]

Become(r, res) == result' = [result EXCEPT ![r] = res]

\* Ask the escrow for a refund, whether or not it is granted.
RefundCall(t) ==
  \/ E!Refund(t)
  \/ E!RefundFails(t)
  \/ store[t].status # "LOCKED" /\ UNCHANGED escrowVars

-----------------------------------------------------------------------------
\* The signature is rejected, the wallet is short, or the escrow does not lock.
Refuse(r) ==
  /\ Go(r, "idle", "done")
  /\ Become(r, Result(FALSE, "failed", 0))
  /\ UNCHANGED <<escrowVars, balance>>

\* Mutant: the lock is skipped for a task that has a record.
StartUnlessClosed(r) ==
  /\ Go(r, "idle", "executing")
  /\ balance >= CostOf[r]
  /\ \/ E!Lock(TaskOf[r], CostOf[r])
     \/ E!LockAnew(TaskOf[r], CostOf[r])
     \/ store[TaskOf[r]].status # "NONE" /\ UNCHANGED escrowVars
  /\ UNCHANGED <<result, balance>>

\* The wallet is only compared with the cost, nothing is reserved.
Start(r) ==
  /\ Go(r, "idle", "executing")
  /\ balance >= CostOf[r]
  /\ E!LockGranted(TaskOf[r], CostOf[r])
  /\ \/ E!Lock(TaskOf[r], CostOf[r])
     \/ store[TaskOf[r]].status = "LOCKED" /\ UNCHANGED escrowVars
  /\ UNCHANGED <<result, balance>>

\* The tool's output was accepted, or the peer says so; it may be evaluated.
Delivered(r) ==
  /\ Go(r, "executing", "evaluating")
  /\ \E cost \in IF Http(r) THEN PeerCosts ELSE {CostOf[r]} :
       Become(r, Result(TRUE, "none", cost))
  /\ UNCHANGED <<escrowVars, balance>>

\* Mutant: nothing is refunded when the tool is rejected.
ExecutionFailsUnrefunded(r) ==
  /\ ~Http(r)
  /\ Go(r, "executing", "done")
  /\ Become(r, Result(FALSE, "failed", CostOf[r]))
  /\ UNCHANGED <<escrowVars, balance>>

\* The tool was rejected, threw, or lost the race with the timeout, after which
\* its result is ignored.
ExecutionFails(r) ==
  /\ ~Http(r)
  /\ Go(r, "executing", "refunding")
  /\ Become(r, Result(FALSE, "none", CostOf[r]))
  /\ UNCHANGED <<escrowVars, balance>>

\* The peer answers that it failed, or there is no valid answer ("failed", 0), or
\* the dispatch throws ("failed", costUsd).
\* An answer that says "refunded" is believed: the funds held here are not.
PeerFails(r) ==
  /\ Http(r)
  /\ \E status \in {"released", "refunded", "failed"}, cost \in PeerCosts \cup {0, CostOf[r]} :
       /\ Go(r, "executing", IF status = "refunded" THEN "charging" ELSE "refunding")
       /\ Become(r, Result(FALSE, status, cost))
  /\ UNCHANGED <<escrowVars, balance>>

Passes(r) ==
  /\ Go(r, "evaluating", "releasing")
  /\ UNCHANGED <<escrowVars, result, balance>>

\* The work that was delivered does not count.
Discard(r) ==
  /\ Go(r, "evaluating", "refunding")
  /\ result' = [result EXCEPT ![r].success = FALSE]
  /\ UNCHANGED <<escrowVars, balance>>

\* verifyA2AResult: the peer's signature is not valid.
FailsVerification(r) == Http(r) /\ Discard(r)

\* EvalPack rejects or throws.
FailsEvaluation(r) == Discard(r)

\* Mutant: a release that the escrow refuses counts.
ReleaseAssumed(r) ==
  /\ Go(r, "releasing", "charging")
  /\ \/ E!Release(TaskOf[r])
     \/ store[TaskOf[r]].status # "LOCKED" /\ UNCHANGED escrowVars
  /\ result' = [result EXCEPT ![r].escrowStatus = "released"]
  /\ UNCHANGED balance

Release(r) ==
  /\ Go(r, "releasing", "charging")
  /\ E!ReleaseGranted(TaskOf[r])
  /\ \/ E!Release(TaskOf[r])
     \/ store[TaskOf[r]].status = "RELEASED" /\ UNCHANGED escrowVars
  /\ result' = [result EXCEPT ![r].escrowStatus = "released"]
  /\ UNCHANGED balance

\* Mutant: a request whose release was refused keeps waiting for it.
ReleaseRetried(r) ==
  /\ Go(r, "releasing", "releasing")
  /\ ~E!ReleaseGranted(TaskOf[r])
  /\ UNCHANGED <<escrowVars, result, balance>>

ReleaseRefused(r) ==
  /\ Go(r, "releasing", "refunding")
  /\ ~E!ReleaseGranted(TaskOf[r])
  /\ result' = [result EXCEPT ![r].success = FALSE]
  /\ UNCHANGED <<escrowVars, balance>>

\* The orchestrator reports what the escrow answered (refundSafely), the HTTP
\* path reports "refunded" whatever the escrow answered.
Refund(r) ==
  /\ Go(r, "refunding", "charging")
  /\ RefundCall(TaskOf[r])
  /\ result' = [result EXCEPT ![r].escrowStatus =
       IF Http(r) \/ E!RefundGranted(TaskOf[r]) THEN "refunded" ELSE "failed"]
  /\ UNCHANGED balance

\* deduct() after a released delivery: the cost of the result, which a peer
\* names itself, and silently nothing when the wallet no longer affords it.
Charge(r) ==
  /\ Go(r, "charging", "done")
  /\ LET due == result[r].success /\ result[r].escrowStatus = "released"
     IN  balance' = IF due /\ balance >= result[r].cost
                    THEN balance - result[r].cost ELSE balance
  /\ UNCHANGED <<escrowVars, result>>

Underway(r) == pc[r] \notin {"idle", "done", "lost"}

\* A graceful stop, and the process that starts from what it saved: the escrow's
\* records, but neither the requests that were under way nor the wallet.
Restart ==
  /\ saved' = store
  /\ reconciliationQueue' = {}
  /\ pc' = [r \in Requests |-> IF Underway(r) THEN "lost" ELSE pc[r]]
  /\ balance' = InitialBalance
  /\ UNCHANGED <<store, result>>

\* What the code of a request does once its request has started.
Proceed(r) ==
  \/ Delivered(r)
  \/ ExecutionFails(r)
  \/ PeerFails(r)
  \/ Passes(r)
  \/ FailsVerification(r)
  \/ FailsEvaluation(r)
  \/ Release(r)
  \/ ReleaseRefused(r)
  \/ Refund(r)
  \/ Charge(r)

Next == \E r \in Requests : Refuse(r) \/ Start(r) \/ Proceed(r)

Spec == Init /\ [][Next]_vars

RestartSpec == Init /\ [][Next \/ Restart]_vars

\* Tools are timed out, fetches aborted, and the event loop runs continuations.
Fairness == \A r \in Requests : WF_vars(Proceed(r))

FairSpec == RestartSpec /\ Fairness

-----------------------------------------------------------------------------
TypeOK ==
  /\ E!TypeOK
  /\ pc \in [Requests -> {"idle", "executing", "evaluating", "releasing",
                          "refunding", "charging", "done", "lost"}]
  /\ result \in [Requests -> [success : BOOLEAN, cost : Nat,
                   escrowStatus : {"none", "released", "refunded", "failed"}]]
  /\ balance \in Nat

\* Whatever requests for the same task do, its funds are held once and go one way.
KeepsContract == E!KeepsContract

\* What the orchestrator answers is so, and stays so: funds it says were released
\* or refunded are in that place whatever other requests for the task do (its
\* caller and the reputation of the provider rely on it).
HonestReports ==
  \A r \in Requests \ HttpRequests : pc[r] = "done" =>
    /\ result[r].escrowStatus = "released" => store[TaskOf[r]].status = "RELEASED"
    /\ result[r].escrowStatus = "refunded" => store[TaskOf[r]].status = "REFUNDED"

\* Funds that the orchestrator has locked are released or refunded when its last
\* request for the task ends, whatever happened to it: only requests that died
\* with the process leave them locked.
LocalFundsComeFree ==
  \A t \in Tasks : store[t].status = "LOCKED" =>
    \E r \in Requests : TaskOf[r] = t /\ (Underway(r) \/ pc[r] = "lost" \/ Http(r))

\* "locking funds during execution": funds are locked only while some request for
\* the task is being executed, evaluated or settled.
LockedDuringExecution ==
  \A t \in Tasks : store[t].status = "LOCKED" =>
    \E r \in Requests : TaskOf[r] = t /\ Underway(r)

\* Every request that started is answered, whatever its duplicates do, unless
\* the process stops first.
RequestsEnd == \A r \in Requests : Underway(r) ~> ~Underway(r)
=============================================================================
