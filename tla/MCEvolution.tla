----------------------------- MODULE MCEvolution ----------------------------
(* An instance of Evolution: one tool, two cycles at a time, two lives.        *)
EXTENDS Evolution

\* Enough refusals in the first life to pass the last step of strictness; the second
\* life is there for what it reads from the files.
Refusals == <<5, 0>>

\* The cycles are alike.
Alike == Permutations(Cycles)
=============================================================================
