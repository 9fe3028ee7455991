-------------------------- MODULE MCA2ADelegation --------------------------
(* Instances of A2ADelegation: "r1" and "r2", both for the orchestrator,     *)
(* share a task; "r4" goes to a peer over HTTP; "r5" is for an agent whose    *)
(* escrow never manages a release or a refund.                               *)
EXTENDS A2ADelegation

TaskOfRequest ==
  [r \in Requests |-> CASE r \in {"r1", "r2"} -> "a"
                        [] r = "r4"           -> "b"
                        [] r = "r5"           -> "c"]

\* The requests that share a task ask for different amounts.
Costs == [r \in Requests |-> IF r = "r2" THEN 2 ELSE 1]

Retries == [t \in Tasks |-> IF t = "c" THEN 0 ELSE 3]
=============================================================================
