------------------------------ MODULE MCCustody -----------------------------
(* An instance of Custody: two payments, two lives of the process.             *)
EXTENDS Custody

\* Payments are alike, and so are polls and files.
Alike == Permutations(Payments) \cup Permutations(Polls) \cup Permutations(Files)
=============================================================================
