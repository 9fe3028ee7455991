--------------------------- MODULE EscrowContract ---------------------------
(***************************************************************************)
(* What an escrow promises about the funds held for each task: they are     *)
(* taken once, then go one way: to the provider, back to the client, or to  *)
(* the queue a human reconciles.  Nothing else ever happens to them, but    *)
(* that a crash takes them all back to where they were last recorded.       *)
(***************************************************************************)
CONSTANT Tasks

VARIABLES
  funds,      \* where the funds of each task are
  recorded    \* where they were when the escrow was last saved

Places == {"none", "held", "paid", "returned", "stuck"}

Init ==
  /\ funds = [t \in Tasks |-> "none"]
  /\ recorded = funds

Move(t, from, to) ==
  /\ funds[t] = from
  /\ funds' = [funds EXCEPT ![t] = to]
  /\ UNCHANGED recorded

Hold(t)   == Move(t, "none", "held")
Pay(t)    == Move(t, "held", "paid")
Return(t) == Move(t, "held", "returned")
Strand(t) == Move(t, "held", "stuck")

Record == recorded' = funds /\ UNCHANGED funds

Lose == funds' = recorded /\ UNCHANGED recorded

Next ==
  \/ \E t \in Tasks : Hold(t) \/ Pay(t) \/ Return(t) \/ Strand(t)
  \/ Record
  \/ Lose

Spec == Init /\ [][Next]_<<funds, recorded>>
=============================================================================
