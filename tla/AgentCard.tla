----------------------------- MODULE AgentCard ------------------------------
(***************************************************************************)
(* core/dynamic-agent-card.ts and core/pricing-engine.ts: the card by which *)
(* the agent presents itself, its versions, and the price on it.            *)
(*                                                                          *)
(* The manager's methods never await, so each is an operator from a state   *)
(* of the manager to the next.  Version and build number advance together   *)
(* wherever src asks for a patch, as it always does: one number stands for  *)
(* both.  The two prices follow one formula and one stands for both.        *)
(* Signatures and the fields that never change are left out.                *)
(***************************************************************************)
EXTENDS Integers, Sequences, SequencesExt

CONSTANTS
  Tools,       \* the ids of the tools that may come to exist
  Bases,       \* base prices, in 1/10000 of a dollar
  Scores,      \* reputation scores, in 1/1000
  MaxHistory   \* maxHistorySize

ASSUME CardAssumption ==
  /\ Bases \subseteq Nat
  /\ Scores \subseteq 0..1000
  /\ MaxHistory \in Nat \ {0}

MaxOf(m, n) == IF m < n THEN n ELSE m
MinOf(m, n) == IF m < n THEN m ELSE n
Distance(m, n) == IF m < n THEN n - m ELSE m - n

-----------------------------------------------------------------------------
(* DynamicPricingEngine.calculatePricing, with its default rules            *)

\* The multiplier for a score, in 1/100000: a premium from 0.90 up, a discount below
\* 0.50.
Multiplier(score) ==
  IF score >= 900 THEN 100000 + (score - 900) * 100
  ELSE IF score < 500 THEN 100000 - (500 - score) * 30
  ELSE 100000

\* Rounded to 1/10000 of a dollar, between the floor and the ceiling.
Price(base, score) ==
  MaxOf(100, MinOf(100000, (2 * base * Multiplier(score) + 100000) \div 200000))

-----------------------------------------------------------------------------
(* The manager                                                              *)

Card(build, skills, score, base) ==
  [build |-> build, skills |-> skills, score |-> score, price |-> Price(base, score)]

\* pushHistory: the newest first, the oldest dropped.
Pushed(history, card) ==
  SubSeq(<<card>> \o history, 1, MinOf(MaxHistory, Len(history) + 1))

\* setSignedAgentCard: the card that the HTTP endpoint shows.
Served(m) == [m EXCEPT !.http = m.card]

\* registerPeer, which verifies the card first: the agent's own entry in its registry.
Registered(m) == [m EXCEPT !.peers = <<m.card>>]

\* This is how a card goes out.
Synced(m) == Registered(Served(m))

\* The constructor: the peer registry is not told of the first card.
Created(skills, score, base) ==
  LET card == Card(0, skills, score, base) IN
  [build |-> 0, card |-> card, history |-> <<card>>, http |-> card, peers |-> <<>>]

\* updateCard, with bumpVersion and buildCardPayload.
Updated(m, skills, score, base) ==
  LET card == Card(m.build + 1, skills, score, base) IN
  Synced([m EXCEPT !.build = @ + 1, !.card = card, !.history = Pushed(@, card)])

\* What an update as a reaction to a change of score looks for.  The thresholds are
\* 0.001 and 0.0001 in floating point: a difference of exactly that may or may not
\* count.
ScoreOff(m, score) ==
  {Distance(m.card.score, score) > 1} \cup
  (IF Distance(m.card.score, score) = 1 THEN {TRUE} ELSE {})
PriceOff(m, score, base) ==
  {Distance(m.card.price, Price(base, score)) > 1} \cup
  (IF Distance(m.card.price, Price(base, score)) = 1 THEN {TRUE} ELSE {})

\* The listener subscribeToReputation: the states it may leave.
Heard(m, skills, score, base) ==
  {IF scoreOff \/ priceOff THEN Updated(m, skills, score, base) ELSE m :
     scoreOff \in ScoreOff(m, score), priceOff \in PriceOff(m, score, base)}

\* syncWithReputation.
SyncedWithReputation(m, skills, score, base) ==
  {IF off THEN Updated(m, skills, score, base) ELSE m : off \in ScoreOff(m, score)}

\* Mutant: rollback restores the card and forgets to show it.
RolledBackUnseen(m, build) ==
  LET found == SelectInSeq(m.history, LAMBDA card : card.build = build) IN
  IF found = 0 THEN m
  ELSE [m EXCEPT !.card = m.history[found], !.build = build,
                 !.history = Pushed(@, m.history[found])]

\* rollback: the newest record of that build becomes the card again, its number too.
RolledBack(m, build) ==
  LET found == SelectInSeq(m.history, LAMBDA card : card.build = build) IN
  IF found = 0 THEN m
  ELSE Synced([m EXCEPT !.card = m.history[found], !.build = build,
                        !.history = Pushed(@, m.history[found])])

\* Mutant: the build number starts again at 0 under an imported card.
ImportedUnnumbered(m, saved) ==
  IF saved = <<>> THEN m
  ELSE Synced([m EXCEPT !.history = saved, !.card = Head(saved)])

\* importHistory: a saved history replaces this one and its newest card is restored.
Imported(m, saved) ==
  IF saved = <<>> THEN m
  ELSE Synced([m EXCEPT !.history = saved, !.card = Head(saved),
                        !.build = Head(saved).build])
=============================================================================
