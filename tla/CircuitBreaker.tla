--------------------------- MODULE CircuitBreaker ---------------------------
(***************************************************************************)
(* core/resilience/circuit-breaker.ts as core/agent.ts                      *)
(* requestServiceFromPeer uses it: one breaker per peer, shared by the      *)
(* requests of all goals under way.                                         *)
(*                                                                          *)
(* A request asks the breaker, waits for the peer, and then records what it *)
(* got: whatever the other requests have made of the breaker meanwhile.     *)
(* Breakers of different peers share nothing.  reset and getStatus, which   *)
(* nothing calls, are left out.                                             *)
(***************************************************************************)
EXTENDS Integers

CONSTANTS
  Requests,                  \* those that may be under way together
  failureThreshold,
  resetTimeout,              \* resetTimeoutMs in ticks
  halfOpenSuccessThreshold

ASSUME BreakerAssumption ==
  /\ failureThreshold \in Nat \ {0}
  /\ resetTimeout \in Nat
  /\ halfOpenSuccessThreshold \in Nat \ {0}

VARIABLES
  state,
  failureCount,
  consecutiveSuccesses,
  sinceFailure,  \* ticks since lastFailureTime, at most resetTimeout
  waiting,       \* the requests whose answer is awaited
  failures,      \* history: failures recorded since the breaker last closed, at most
                 \* failureThreshold
  successes      \* history: successes recorded since the last failure, at most
                 \* halfOpenSuccessThreshold

breaker == <<state, failureCount, consecutiveSuccesses>>
breakerVars == <<breaker, sinceFailure, waiting, failures, successes>>

BreakerInit ==
  /\ state = "CLOSED"
  /\ failureCount = 0
  /\ consecutiveSuccesses = 0
  /\ sinceFailure = resetTimeout
  /\ waiting = {}
  /\ failures = 0
  /\ successes = 0

UpTo(bound, n) == IF n < bound THEN n ELSE bound

-----------------------------------------------------------------------------
(* updateStateIfCooldownElapsed: the breaker as getState, canExecute and    *)
(* recordSuccess first make it.  recordFailure does not.                    *)

Cooled == state = "OPEN" /\ sinceFailure = resetTimeout

Current == IF Cooled THEN "HALF_OPEN" ELSE state

\* Mutant: the successes of an earlier round of probes are kept.
ProbesKept == consecutiveSuccesses

Probes == IF Cooled THEN 0 ELSE consecutiveSuccesses

-----------------------------------------------------------------------------
\* Mutant: canExecute does not look at the clock.
AskOnceClosed(r) ==
  /\ r \notin waiting
  /\ state = "CLOSED"
  /\ waiting' = waiting \cup {r}
  /\ UNCHANGED <<breaker, sinceFailure, failures, successes>>

\* canExecute lets a request through, and executeTask is awaited.
Ask(r) ==
  /\ r \notin waiting
  /\ Current # "OPEN"
  /\ state' = Current
  /\ consecutiveSuccesses' = Probes
  /\ waiting' = waiting \cup {r}
  /\ UNCHANGED <<failureCount, sinceFailure, failures, successes>>

\* Mutant: the failures that opened the breaker are not forgotten when it closes.
ClosesUnforgiving ==
  /\ Probes + 1 >= halfOpenSuccessThreshold
  /\ state' = "CLOSED"
  /\ failureCount' = failureCount - 1
  /\ consecutiveSuccesses' = 0
  /\ failures' = 0

Closes ==
  /\ Probes + 1 >= halfOpenSuccessThreshold
  /\ state' = "CLOSED"
  /\ failureCount' = 0
  /\ consecutiveSuccesses' = 0
  /\ failures' = 0

Probed ==
  /\ Probes + 1 < halfOpenSuccessThreshold
  /\ state' = "HALF_OPEN"
  /\ consecutiveSuccesses' = Probes + 1
  /\ UNCHANGED <<failureCount, failures>>

\* In a closed breaker a success takes a failure back.
Forgives ==
  /\ failureCount' = IF failureCount > 0 THEN failureCount - 1 ELSE 0
  /\ UNCHANGED <<state, consecutiveSuccesses, failures>>

recordSuccess ==
  \/ Current = "HALF_OPEN" /\ (Closes \/ Probed)
  \/ Current = "CLOSED" /\ Forgives
  \/ Current = "OPEN" /\ UNCHANGED <<breaker, failures>>

recordFailure ==
  /\ \/ /\ state = "CLOSED"
        /\ failureCount' = failureCount + 1
        /\ state' = IF failureCount + 1 >= failureThreshold THEN "OPEN" ELSE "CLOSED"
     \/ /\ state = "HALF_OPEN"
        /\ state' = "OPEN"
        /\ failureCount' = failureThreshold
     \/ /\ state = "OPEN"
        /\ UNCHANGED <<state, failureCount>>
  /\ UNCHANGED consecutiveSuccesses

-----------------------------------------------------------------------------
Succeeds(r) ==
  /\ r \in waiting
  /\ recordSuccess
  /\ successes' = UpTo(halfOpenSuccessThreshold, successes + 1)
  /\ waiting' = waiting \ {r}
  /\ UNCHANGED sinceFailure

\* A refusal by the peer, or by this agent's own wallet or escrow.
Fails(r) ==
  /\ r \in waiting
  /\ recordFailure
  /\ sinceFailure' = 0
  /\ failures' = UpTo(failureThreshold, failures + 1)
  /\ successes' = 0
  /\ waiting' = waiting \ {r}

\* executeTask throws: the breaker is told nothing.
Throws(r) ==
  /\ r \in waiting
  /\ waiting' = waiting \ {r}
  /\ UNCHANGED <<breaker, sinceFailure, failures, successes>>

Cools ==
  /\ sinceFailure < resetTimeout
  /\ sinceFailure' = sinceFailure + 1
  /\ UNCHANGED <<breaker, waiting, failures, successes>>

Answer(r) == Succeeds(r) \/ Fails(r) \/ Throws(r)

BreakerNext ==
  \/ \E r \in Requests : Ask(r) \/ Answer(r)
  \/ Cools

\* Requests have a timeout, so each is answered; time passes.  Nobody has to ask.
BreakerSpec ==
  /\ BreakerInit /\ [][BreakerNext]_breakerVars
  /\ \A r \in Requests : WF_breakerVars(Answer(r))
  /\ WF_breakerVars(Cools)

-----------------------------------------------------------------------------
BreakerTypeOK ==
  /\ state \in {"CLOSED", "OPEN", "HALF_OPEN"}
  /\ failureCount \in 0..failureThreshold
  /\ consecutiveSuccesses \in 0..(halfOpenSuccessThreshold - 1)
  /\ sinceFailure \in 0..resetTimeout
  /\ waiting \subseteq Requests
  /\ failures \in 0..failureThreshold
  /\ successes \in 0..halfOpenSuccessThreshold

\* A closed breaker opens only after failureThreshold failures since it closed:
\* those of earlier rounds are not held against the peer.
OpensForCause ==
  [][state = "CLOSED" /\ state' = "OPEN" => failures' = failureThreshold]_breakerVars

\* It closes again only after halfOpenSuccessThreshold successes in a row, with no
\* failure of any request between them, whatever was under way when it opened.
ClosesOnRecovery ==
  [][state # "CLOSED" /\ state' = "CLOSED" => successes' = halfOpenSuccessThreshold]_breakerVars

\* While someone keeps asking, a peer whose requests have come to succeed is served
\* again for good: late failures only put it off.
Recovers ==
  /\ WF_breakerVars(\E r \in Requests : Ask(r))
  /\ <>[][~\E r \in Requests : Fails(r) \/ Throws(r)]_breakerVars
  => <>[](state = "CLOSED")
=============================================================================
