------------------------------ MODULE MCEscrow ------------------------------
(* Instances of Escrow: an agent that may try and one that may not.          *)
EXTENDS Escrow

Retries == [t \in Tasks |-> IF t = "b" THEN 0 ELSE 3]
=============================================================================
