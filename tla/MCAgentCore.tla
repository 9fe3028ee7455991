---------------------------- MODULE MCAgentCore ----------------------------
(* Instances of AgentCore: the marketplaces are two of the built-in adapters. *)
EXTENDS AgentCore, TLC

Receipt(revenue, fee) == [revenue |-> revenue, fee |-> fee]

\* A receipt that covers a task's cost and one whose fee does not leave room.
ReceiptsMixed == {Receipt(9, 1), Receipt(2, 2)}

ReceiptsGood == {Receipt(9, 1)}

OneAdapter == [x \in Tasks |-> "mock"]

\* One marketplace has a task of its own, the other all the rest.
FirstTask == CHOOSE t \in Tasks : TRUE

TwoAdapters == [x \in Tasks |-> IF x = FirstTask THEN "mock" ELSE "railway"]

\* What the other marketplace yields is alike.
Alike == Permutations(Tasks \ {FirstTask})

DistinctIds == [x \in Tasks \cup Inbound |-> x]

\* The other marketplace has one task, which it goes on listing.
TwoIds == [x \in Tasks \cup Inbound |-> IF x = FirstTask THEN "first" ELSE "other"]
=============================================================================
