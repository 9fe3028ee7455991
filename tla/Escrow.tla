------------------------------- MODULE Escrow -------------------------------
(***************************************************************************)
(* core/escrow.ts: the EscrowSystem that holds funds for A2A delegations.   *)
(*                                                                          *)
(* taskIdToEscrowIdMap never forgets a task, so a task has at most one      *)
(* escrow id for good: the two maps are one function from tasks to records, *)
(* and an escrow id is right or wrong for its task.  operation() has no     *)
(* await of its own, so a call takes effect in one step; executeWithRetry   *)
(* fails only when it may not try at all (maxRetries = 0).  Tasks never meet, *)
(* so tasks of agents with different maxRetries are checked side by side.   *)
(***************************************************************************)
EXTENDS Integers

CONSTANTS
  Tasks,        \* task ids
  Amounts,      \* amounts callers ask to lock
  MaxRetries    \* maxRetries of the escrow system that holds a task's funds

ASSUME EscrowAssumption == Amounts \subseteq Int /\ MaxRetries \in [Tasks -> Nat]

VARIABLES
  store,                \* the record of each task: its status and amount
  reconciliationQueue,  \* tasks whose refund failed
  saved                 \* the records last exported to disk

escrowVars == <<store, reconciliationQueue, saved>>

Statuses == {"NONE", "LOCKED", "RELEASED", "REFUNDED", "FAILED"}

NoRecord == [status |-> "NONE", amount |-> 0]

Init ==
  /\ store = [t \in Tasks |-> NoRecord]
  /\ reconciliationQueue = {}
  /\ saved = store

SetStatus(t, status) == store' = [store EXCEPT ![t].status = status]

-----------------------------------------------------------------------------
\* Mutant: a task is locked anew once its record is closed.
LockAnew(t, amount) ==
  /\ store[t].status # "LOCKED"
  /\ amount > 0
  /\ store' = [store EXCEPT ![t] = [status |-> "LOCKED", amount |-> amount]]
  /\ UNCHANGED <<reconciliationQueue, saved>>

\* A new record.  A task that has one is answered from it: its id again while
\* it is LOCKED, whatever the amount asked for now; an error afterwards.
Lock(t, amount) ==
  /\ store[t].status = "NONE"
  /\ amount > 0
  /\ store' = [store EXCEPT ![t] = [status |-> "LOCKED", amount |-> amount]]
  /\ UNCHANGED <<reconciliationQueue, saved>>

\* Mutant: a refunded record is released.
ReleaseUnlessReleased(t) ==
  /\ store[t].status \in {"LOCKED", "REFUNDED"}
  /\ MaxRetries[t] > 0
  /\ SetStatus(t, "RELEASED")
  /\ reconciliationQueue' = reconciliationQueue \ {t}
  /\ UNCHANGED saved

\* Whether a call of lockFunds is answered with an escrow id.
LockGranted(t, amount) ==
  \/ store[t].status = "LOCKED"
  \/ store[t].status = "NONE" /\ amount > 0

Release(t) ==
  /\ store[t].status = "LOCKED"
  /\ MaxRetries[t] > 0
  /\ SetStatus(t, "RELEASED")
  /\ reconciliationQueue' = reconciliationQueue \ {t}
  /\ UNCHANGED saved

\* Mutant: a failed record is refunded once more, and stays in the queue.
RefundAgain(t) ==
  /\ store[t].status \in {"LOCKED", "FAILED"}
  /\ SetStatus(t, "REFUNDED")
  /\ UNCHANGED <<reconciliationQueue, saved>>

\* Whether a call of releaseFunds succeeds; done before counts.
ReleaseGranted(t) ==
  \/ store[t].status = "RELEASED"
  \/ store[t].status = "LOCKED" /\ MaxRetries[t] > 0

Refund(t) ==
  /\ store[t].status = "LOCKED"
  /\ MaxRetries[t] > 0
  /\ SetStatus(t, "REFUNDED")
  /\ reconciliationQueue' = reconciliationQueue \ {t}
  /\ UNCHANGED saved

\* A refund that fails, unlike a release that fails, is set aside.
RefundFails(t) ==
  /\ store[t].status = "LOCKED"
  /\ MaxRetries[t] = 0
  /\ SetStatus(t, "FAILED")
  /\ reconciliationQueue' = reconciliationQueue \cup {t}
  /\ UNCHANGED saved

RefundGranted(t) ==
  \/ store[t].status = "REFUNDED"
  \/ store[t].status = "LOCKED" /\ MaxRetries[t] > 0

\* exportState, in the graceful stop.
Save ==
  /\ saved' = store
  /\ UNCHANGED <<store, reconciliationQueue>>

\* The process dies, or stops, at any time; importState, when it starts again,
\* restores the records saved last; the queue starts empty.
Crash ==
  /\ store' = saved
  /\ reconciliationQueue' = {}
  /\ UNCHANGED saved

Next ==
  \/ \E t \in Tasks, amount \in Amounts : Lock(t, amount)
  \/ \E t \in Tasks : Release(t) \/ Refund(t) \/ RefundFails(t)
  \/ Save
  \/ Crash

Spec == Init /\ [][Next]_escrowVars

-----------------------------------------------------------------------------
Records == [status : Statuses, amount : Int]

TypeOK ==
  /\ store \in [Tasks -> Records]
  /\ saved \in [Tasks -> Records]
  /\ reconciliationQueue \subseteq Tasks

\* The contract, and the mapping of a record's status to the place of its funds.
PlaceOf(status) ==
  CASE status = "NONE"     -> "none"
    [] status = "LOCKED"   -> "held"
    [] status = "RELEASED" -> "paid"
    [] status = "REFUNDED" -> "returned"
    [] status = "FAILED"   -> "stuck"

PlacesOf(records) == [t \in Tasks |-> PlaceOf(records[t].status)]

Contract == INSTANCE EscrowContract WITH
              funds <- PlacesOf(store), recorded <- PlacesOf(saved)

\* Funds are held once and then leave once: a record that is RELEASED, REFUNDED
\* or FAILED keeps its status, unless a crash forgets that it was ever closed.
KeepsContract == Contract!Spec

\* Whatever crashes follow, a record that was saved closed stays closed, as saved.
SavedIsFinal ==
  \A t \in Tasks : saved[t].status \in {"RELEASED", "REFUNDED", "FAILED"} =>
    store[t] = saved[t]

\* Only tasks whose refund failed are reported as stuck.
OnlyFailedIsStuck == \A t \in reconciliationQueue : store[t].status = "FAILED"
=============================================================================
