--------------------------- MODULE EvolutionProofs --------------------------
(***************************************************************************)
(* That the ratchet only ever hardens and that what the agent publishes of  *)
(* itself is what it takes to be current, for any number of cycles, tools,  *)
(* refusals, builds and restarts.                                           *)
(***************************************************************************)
EXTENDS Evolution, SequenceTheorems, WellFoundedInduction, TLAPS

-----------------------------------------------------------------------------
(* The policy                                                               *)

\* Policy p after r refusals.
After(p, r) ==
  /\ r \in Nat
  /\ p \in [strict : 1..5, timeout : Nat, double : BOOLEAN]
  /\ p.strict = MinOf(5, 1 + r)
  /\ p.double = (r > 0)
  /\ p.timeout >= 1000
  /\ p.timeout <= 10000 - 1000 * MinOf(r, 5)

PolicyInv == After(policy, refusals)

\* A fifth less than at most 10000 - 1000r is at most 10000 - 1000(r + 1) while r <= 5,
\* and less than 5000 beyond.
LEMMA TimeoutFalls ==
  ASSUME NEW r \in Nat, NEW t \in Nat, t >= 1000, t <= 10000 - 1000 * MinOf(r, 5)
  PROVE  /\ MaxOf(1000, (t * 8) \div 10) \in Nat
         /\ MaxOf(1000, (t * 8) \div 10) >= 1000
         /\ MaxOf(1000, (t * 8) \div 10) <= 10000 - 1000 * MinOf(r + 1, 5)
<1> DEFINE d == (t * 8) \div 10
<1>1. d \in Nat /\ 10 * d <= t * 8
  OBVIOUS
<1> HIDE DEF d
<1>2. CASE r < 5
  BY <1>1, <1>2 DEF MaxOf, MinOf
<1>3. CASE r >= 5
  BY <1>1, <1>3 DEF MaxOf, MinOf
<1>4. QED
  BY <1>2, <1>3 DEF d

LEMMA RefusedHardens ==
  ASSUME PolicyInv, Refused
  PROVE  PolicyInv'
<1>1. policy' = Tightened /\ refusals' = refusals + 1
  BY DEF Refused
<1>2. /\ policy'.strict = MinOf(5, policy.strict + 1)
      /\ policy'.timeout = MaxOf(1000, (policy.timeout * 8) \div 10)
      /\ policy'.double = TRUE
      /\ policy' = [strict |-> policy'.strict, timeout |-> policy'.timeout,
                    double |-> policy'.double]
  BY <1>1 DEF Tightened
<1>3. /\ policy'.timeout \in Nat /\ policy'.timeout >= 1000
      /\ policy'.timeout <= 10000 - 1000 * MinOf(refusals', 5)
  BY <1>1, <1>2, TimeoutFalls DEF PolicyInv, After
<1>4. policy'.strict \in 1..5 /\ policy'.strict = MinOf(5, 1 + refusals')
  BY <1>1, <1>2 DEF PolicyInv, After, MinOf
<1>5. refusals' \in Nat /\ refusals' > 0
  BY <1>1 DEF PolicyInv, After
<1>6. policy' \in [strict : 1..5, timeout : Nat, double : BOOLEAN]
  <2> DEFINE s == policy'.strict
             t == policy'.timeout
  <2>1. s \in 1..5 /\ t \in Nat /\ policy' = [strict |-> s, timeout |-> t, double |-> TRUE]
    BY <1>2, <1>3, <1>4
  <2> HIDE DEF s, t
  <2>2. QED
    BY <2>1
<1>7. QED
  BY <1>2, <1>3, <1>4, <1>5, <1>6 DEF PolicyInv, After

LEMMA DefaultIsFresh == After(DefaultPolicy, 0)
<1> DEFINE p == [strict |-> 1, timeout |-> 10000, double |-> FALSE]
<1>1. /\ p \in [strict : 1..5, timeout : Nat, double : BOOLEAN]
      /\ p.strict = 1 /\ p.timeout = 10000 /\ p.double = FALSE
  OBVIOUS
<1>2. MinOf(5, 1 + 0) = 1 /\ MinOf(0, 5) = 0 /\ 0 \in Nat /\ (0 > 0) = FALSE
  BY DEF MinOf
<1>3. p = DefaultPolicy
  BY DEF DefaultPolicy
<1> HIDE DEF p
<1>4. After(p, 0)
  <2>1. p.timeout >= 1000 /\ p.timeout <= 10000 - 1000 * MinOf(0, 5)
    BY <1>1, <1>2
  <2>2. p.strict = MinOf(5, 1 + 0)
    BY <1>1, <1>2
  <2>3. p.double = (0 > 0)
    BY <1>1, <1>2
  <2>4. QED
    BY <1>1, <1>2, <2>1, <2>2, <2>3 DEF After
<1>5. QED
  BY <1>3, <1>4

LEMMA PolicyInitially == Init => PolicyInv
  BY DefaultIsFresh DEF Init, Fresh, PolicyInv

LEMMA PolicyStep == PolicyInv /\ [Next]_vars => PolicyInv'
<1> SUFFICES ASSUME PolicyInv, [Next]_vars PROVE PolicyInv'
  OBVIOUS
<1>1. ASSUME UNCHANGED <<policy, refusals>> PROVE PolicyInv'
  BY <1>1 DEF PolicyInv, After
<1>2. ASSUME NEW k \in Cycles, NEW required, Evaluate(k, required) PROVE PolicyInv'
  <2>1. Refused \/ UNCHANGED <<policy, refusals>>
    BY <1>2 DEF Evaluate, FailsChecks, ScoresTooLow, TurnedAway, Accepted
  <2>2. QED
    BY <2>1, <1>1, RefusedHardens
<1>3. ASSUME NEW k \in Cycles, CreateTool(k) PROVE PolicyInv'
  BY <1>2, <1>3 DEF CreateTool
<1>4. ASSUME NEW k \in Cycles, HotReload(k) PROVE PolicyInv'
  BY <1>2, <1>4 DEF HotReload
<1>5. ASSUME NEW t \in Tools, ToolFails(t) PROVE PolicyInv'
  BY <1>5, RefusedHardens DEF ToolFails
<1>6. CASE Exit
  <2>1. policy' = DefaultPolicy /\ refusals' = 0
    BY <1>6 DEF Exit, Fresh
  <2>2. QED
    BY <2>1, DefaultIsFresh DEF PolicyInv
<1>7. ASSUME NEW k \in Cycles, Announce(k) PROVE PolicyInv'
  BY <1>1, <1>7 DEF Announce
<1>8. ASSUME NEW k \in Cycles, NEW t \in Tools, Propose(k, t) PROVE PolicyInv'
  BY <1>1, <1>8 DEF Propose
<1>9. ASSUME NEW s \in Scores, TaskEnds(s) PROVE PolicyInv'
  BY <1>1, <1>9 DEF TaskEnds
<1>10. ASSUME NEW b \in Bases, UpdatePricing(b) PROVE PolicyInv'
  BY <1>1, <1>10 DEF UpdatePricing
<1>11. ASSUME NEW b \in 0..MaxBuild, Rollback(b) PROVE PolicyInv'
  BY <1>1, <1>11 DEF Rollback
<1>12. CASE SyncWithReputation \/ Hydrate \/ Save \/ UNCHANGED vars
  BY <1>1, <1>12 DEF SyncWithReputation, Hydrate, Save, vars, self
<1>13. CASE Start
  BY <1>1, <1>13 DEF Start, self
<1>14. QED
  BY <1>3, <1>4, <1>5, <1>6, <1>7, <1>8, <1>9, <1>10, <1>11, <1>12, <1>13 DEF Next

LEMMA PolicyInvHardens == PolicyInv => PolicyHardens
<1> SUFFICES ASSUME PolicyInv PROVE PolicyHardens
  OBVIOUS
<1>1. /\ policy.strict \in 1..5 /\ policy.double \in BOOLEAN /\ refusals \in Nat
  BY DEF PolicyInv, After
<1>2. Derived(policy).grade < 100
  <2>1. policy.strict - 1 \in 0..4
    BY <1>1
  <2>2. QED
    BY <2>1, <1>1 DEF Derived, MinOf
<1>3. Derived(policy).timeout >= 1000
  <2>1. policy.timeout \in Nat
    BY DEF PolicyInv, After
  <2>2. MinOf(10000, (policy.timeout * (20 - (policy.strict - 1))) \div 20) \in Int
    BY <2>1, <1>1 DEF MinOf
  <2>3. QED
    BY <2>2 DEF Derived, MaxOf
<1>4. Derived(policy).memory >= 64
  BY <1>1 DEF Derived, MaxOf
<1>5. QED
  BY <1>2, <1>3, <1>4 DEF PolicyHardens, PolicyInv, After

\* For any cycles and tools and any number of refusals: each one hardens the policy, and
\* a tool of full marks still has a second to run in and passes.
THEOREM RatchetHardens == Spec => []PolicyHardens
  BY PolicyInitially, PolicyStep, PolicyInvHardens, PTL DEF Spec

-----------------------------------------------------------------------------
(* The card                                                                 *)

Cards ==
  {Card(b, skills, s, price) :
     b \in Nat, skills \in [Tools -> Nat], s \in Scores, price \in Bases}

Histories == {h \in Seq(Cards) : h # <<>> /\ Len(h) <= MaxHistory}

\* A manager that shows what it takes to be current.
Shows(m) ==
  /\ m \in [build : Nat, card : Cards, history : Histories, http : Cards,
            peers : {<<>>} \cup {<<c>> : c \in Cards}]
  /\ m.http = m.card
  /\ m.card = Head(m.history)
  /\ m.card.build = m.build
  /\ m.peers \in {<<>>, <<m.card>>}

ShowInv ==
  /\ Shows(mgr)
  /\ versions \in [Tools -> Nat] /\ score \in Scores /\ base \in Bases
  /\ disk \in [history : Histories \cup {<<>>}, score : {<<>>} \cup {<<s>> : s \in Scores}]

LEMMA CardIsCard ==
  ASSUME NEW b \in Nat, NEW skills \in [Tools -> Nat], NEW s \in Scores, NEW p \in Bases
  PROVE  Card(b, skills, s, p) \in Cards /\ Card(b, skills, s, p).build = b
<1>1. Card(b, skills, s, p) \in Cards
  BY DEF Cards
<1>2. Card(b, skills, s, p).build = b
  BY DEF Card
<1>3. QED
  BY <1>1, <1>2

LEMMA CardHasBuild == \A c \in Cards : c.build \in Nat
<1> SUFFICES ASSUME NEW c \in Cards PROVE c.build \in Nat
  OBVIOUS
<1>1. PICK b \in Nat, skills \in [Tools -> Nat], s \in Scores, p \in Bases :
        c = Card(b, skills, s, p)
  BY DEF Cards
<1>2. QED
  BY <1>1, CardIsCard

LEMMA PushedHistory ==
  ASSUME NEW h \in Histories \cup {<<>>}, NEW c \in Cards
  PROVE  Pushed(h, c) \in Histories /\ Head(Pushed(h, c)) = c
<1> DEFINE all == <<c>> \o h
           n == MinOf(MaxHistory, Len(h) + 1)
<1>1. h \in Seq(Cards) /\ Len(h) \in Nat
  <2>1. CASE h = <<>>
    BY <2>1
  <2>2. CASE h \in Histories
    BY <2>2 DEF Histories
  <2>3. QED
    BY <2>1, <2>2
<1>2. all \in Seq(Cards) /\ Len(all) = Len(h) + 1 /\ all[1] = c
  BY <1>1
<1>3. n \in 1..Len(all) /\ n <= MaxHistory
  BY <1>1, <1>2, CardAssumption DEF MinOf
<1> HIDE DEF all, n
<1>4. SubSeq(all, 1, n) \in Seq(Cards) /\ Len(SubSeq(all, 1, n)) = n /\ SubSeq(all, 1, n)[1] = c
  <2>1. \A i \in 1..n : all[i] \in Cards
    BY <1>2, <1>3, ElementOfSeq
  <2>2. QED
    BY <1>2, <1>3, <2>1, SubSeqProperties
<1>5. Pushed(h, c) = SubSeq(all, 1, n)
  BY DEF Pushed, all, n
<1>6. QED
  BY <1>3, <1>4, <1>5 DEF Histories

Current(m, b, c, h) == [m EXCEPT !.build = b, !.card = c, !.history = h]

LEMMA CurrentFields ==
  ASSUME NEW B, NEW C, NEW H, NEW T, NEW P,
         NEW m \in [build : B, card : C, history : H, http : T, peers : P],
         NEW b \in B, NEW c \in C, NEW h \in H
  PROVE  Current(m, b, c, h) =
           [build |-> b, card |-> c, history |-> h, http |-> m.http, peers |-> m.peers]
<1> DEFINE q == Current(m, b, c, h)
<1>1. q \in [build : B, card : C, history : H, http : T, peers : P]
  BY DEF Current
<1>2. /\ q.build = b /\ q.card = c /\ q.history = h
      /\ q.http = m.http /\ q.peers = m.peers
  BY DEF Current
<1> HIDE DEF q
<1>3. q = [build |-> q.build, card |-> q.card, history |-> q.history, http |-> q.http,
           peers |-> q.peers]
  BY <1>1
<1>4. q = [build |-> b, card |-> c, history |-> h, http |-> m.http, peers |-> m.peers]
  BY <1>2, <1>3
<1>5. QED
  BY <1>4 DEF q

\* A card made current, at the head of a history, and sent out.
LEMMA SentOut ==
  ASSUME NEW m, Shows(m), NEW b \in Nat, NEW c \in Cards, c.build = b,
         NEW h \in Histories, Head(h) = c
  PROVE  /\ Shows(Synced(Current(m, b, c, h)))
         /\ Synced(Current(m, b, c, h)).card = c /\ Synced(Current(m, b, c, h)).build = b
<1> DEFINE q == Current(m, b, c, h)
           u == Served(q)
<1>1. q = [build |-> b, card |-> c, history |-> h, http |-> m.http, peers |-> m.peers]
  <2> DEFINE P == {<<>>} \cup {<<d>> : d \in Cards}
  <2>1. m \in [build : Nat, card : Cards, history : Histories, http : Cards, peers : P]
    BY DEF Shows
  <2> HIDE DEF P
  <2>2. QED
    BY <2>1, CurrentFields
<1> HIDE DEF q
<1>2. u = [build |-> b, card |-> c, history |-> h, http |-> c, peers |-> m.peers]
  BY <1>1 DEF Served
<1>3. Synced(q) = [u EXCEPT !.peers = <<u.card>>]
  BY DEF Synced, Registered
<1> HIDE DEF u
<1>4. Synced(q) = [build |-> b, card |-> c, history |-> h, http |-> c, peers |-> <<c>>]
  BY <1>2, <1>3
<1>5. Shows(Synced(q)) /\ Synced(q).card = c /\ Synced(q).build = b
  BY <1>4 DEF Shows
<1>6. QED
  BY <1>5 DEF q

LEMMA UpdatedShows ==
  ASSUME NEW m, Shows(m), NEW skills \in [Tools -> Nat], NEW s \in Scores, NEW p \in Bases
  PROVE  /\ Shows(Updated(m, skills, s, p))
         /\ Updated(m, skills, s, p).card = Card(m.build + 1, skills, s, p)
         /\ Updated(m, skills, s, p).build = m.build + 1
<1> DEFINE b == m.build + 1
           c == Card(b, skills, s, p)
           h == Pushed(m.history, c)
           q == [m EXCEPT !.build = b, !.card = c, !.history = h]
<1>1. m.build \in Nat /\ m.history \in Histories
  BY DEF Shows
<1>2. b \in Nat
  BY <1>1
<1>3. c \in Cards /\ c.build = b
  <2> HIDE DEF b
  <2>1. QED
    BY <1>2, CardIsCard
<1>4. h \in Histories /\ Head(h) = c
  <2> HIDE DEF c
  <2>1. QED
    BY <1>1, <1>3, PushedHistory
<1>5. Updated(m, skills, s, p) = Synced(q)
  BY DEF Updated, Shows
<1>6. q = Current(m, b, c, h)
  BY DEF Current
<1> HIDE DEF b, c, h, q
<1>7. /\ Shows(Synced(Current(m, b, c, h)))
      /\ Synced(Current(m, b, c, h)).card = c /\ Synced(Current(m, b, c, h)).build = b
  BY <1>2, <1>3, <1>4, SentOut
<1>8. Updated(m, skills, s, p).card = c /\ Updated(m, skills, s, p).build = b
  BY <1>5, <1>6, <1>7
<1>9. QED
  BY <1>5, <1>6, <1>7, <1>8 DEF b, c

LEMMA LeastNatural ==
  ASSUME NEW T, T \subseteq Nat, T # {}
  PROVE  \E x \in T : \A y \in T : x <= y
<1> DEFINE R == OpToRel(<, Nat)
<1>1. IsWellFoundedOn(R, Nat)
  BY NatLessThanWellFounded
<1>2. PICK x \in T : \A y \in T : ~ (<<y, x>> \in R)
  <2> HIDE DEF R
  <2>1. QED
    BY <1>1, WFMin
<1>3. ASSUME NEW y \in T PROVE x <= y
  <2>1. ~ (<<y, x>> \in R) /\ x \in Nat /\ y \in Nat
    BY <1>2
  <2>2. R = {s \in Nat \X Nat : s[1] < s[2]}
    BY DEF OpToRel
  <2> HIDE DEF R
  <2>3. QED
    BY <2>1, <2>2
<1>4. QED
  BY <1>3

Found(h, b) == SelectInSeq(h, LAMBDA card : card.build = b)

\* What a rollback finds bears the number that was looked for, and is the newest.
LEMMA FoundInHistory ==
  ASSUME NEW h \in Histories, NEW b, NEW found, found = Found(h, b), found # 0
  PROVE  /\ found \in 1..Len(h) /\ h[found].build = b
         /\ h[1].build = b => found = 1
<1> DEFINE I == {i \in 1..Len(h) : h[i].build = b}
<1>1. found = IF I # {} THEN Min(I) ELSE 0
  BY DEF Found, SelectInSeq
<1>2. I # {} /\ found = Min(I)
  BY <1>1
<1>3. Len(h) \in Nat
  BY DEF Histories
<1>4. I \subseteq Nat
  BY <1>3
<1> HIDE DEF I
<1>5. \E x \in I : \A y \in I : x <= y
  BY <1>2, <1>4, LeastNatural
<1>6. Min(I) \in I /\ \A y \in I : Min(I) <= y
  BY <1>5 DEF Min
<1>7. ASSUME h[1].build = b PROVE Min(I) = 1
  <2>1. 1 \in I
    BY <1>3, <1>7 DEF I, Histories
  <2>2. Min(I) \in Nat /\ Min(I) >= 1
    BY <1>6 DEF I
  <2>3. QED
    BY <1>6, <2>1, <2>2
<1>8. QED
  BY <1>2, <1>6, <1>7 DEF I

LEMMA RolledBackShows ==
  ASSUME NEW m, Shows(m), NEW b \in Nat
  PROVE  /\ Shows(RolledBack(m, b))
         /\ RolledBack(m, b).build \in {m.build, b}
         /\ RolledBack(m, b).build = m.build => RolledBack(m, b).card = m.card
<1> DEFINE found == Found(m.history, b)
           c == m.history[found]
           h == Pushed(m.history, c)
           q == [m EXCEPT !.card = c, !.build = b, !.history = h]
<1>1. m.history \in Histories
  BY DEF Shows
<1>2. RolledBack(m, b) = IF found = 0 THEN m ELSE Synced(q)
  BY DEF RolledBack, Shows, Found
<1>3. CASE found = 0
  BY <1>2, <1>3
<1>4. CASE found # 0
  <2>1. found \in 1..Len(m.history) /\ c.build = b
    BY <1>1, <1>4, FoundInHistory
  <2>2. c \in Cards
    <3>1. m.history \in Seq(Cards)
      BY <1>1 DEF Histories
    <3> HIDE DEF found
    <3>2. QED
      BY <2>1, <3>1, ElementOfSeq
  <2>3. h \in Histories /\ Head(h) = c
    <3> HIDE DEF c
    <3>1. QED
      BY <1>1, <2>2, PushedHistory
  <2>4. RolledBack(m, b) = Synced(q)
    BY <1>2, <1>4
  <2> HIDE DEF c, h, found
  <2>5. q = Current(m, b, c, h)
    BY DEF Shows, Current
  <2> HIDE DEF q
  <2>6. /\ Shows(Synced(Current(m, b, c, h)))
        /\ Synced(Current(m, b, c, h)).card = c /\ Synced(Current(m, b, c, h)).build = b
    BY <2>1, <2>2, <2>3, SentOut
  <2>7. ASSUME b = m.build PROVE c = m.card
    <3>1. m.history[1] = m.card
      BY <1>1 DEF Shows, Histories
    <3>2. m.card.build = b
      BY <2>7 DEF Shows
    <3>3. found = 1
      BY <1>1, <1>4, <3>1, <3>2, FoundInHistory DEF found
    <3>4. QED
      BY <3>1, <3>3 DEF c
  <2>8. QED
    BY <2>4, <2>5, <2>6, <2>7
<1>5. QED
  BY <1>3, <1>4

LEMMA ImportedShows ==
  ASSUME NEW m, Shows(m), NEW saved \in Histories \cup {<<>>}
  PROVE  /\ Shows(Imported(m, saved))
         /\ Imported(m, saved).build = IF saved = <<>> THEN m.build ELSE Head(saved).build
<1>1. CASE saved = <<>>
  BY <1>1 DEF Imported
<1>2. CASE saved # <<>>
  <2> DEFINE c == Head(saved)
             q == [m EXCEPT !.history = saved, !.card = c, !.build = c.build]
  <2>1. saved \in Histories
    BY <1>2
  <2>2. c \in Cards
    BY <2>1 DEF Histories
  <2>3. c.build \in Nat
    BY <2>2, CardHasBuild
  <2>4. Imported(m, saved) = Synced(q)
    BY <1>2 DEF Imported
  <2>5. q = Current(m, c.build, c, saved)
    BY DEF Shows, Current
  <2>6. Head(saved) = c
    OBVIOUS
  <2> HIDE DEF c, q
  <2>7. /\ Shows(Synced(Current(m, c.build, c, saved)))
        /\ Synced(Current(m, c.build, c, saved)).build = c.build
    BY <2>1, <2>2, <2>3, <2>6, SentOut
  <2>8. QED
    BY <1>2, <2>4, <2>5, <2>6, <2>7
<1>3. QED
  BY <1>1, <1>2

LEMMA ShowInitially == Init => ShowInv
<1> SUFFICES ASSUME Init PROVE ShowInv
  OBVIOUS
<1> DEFINE c == Card(0, NoSkills, 1000, BaseAtStart)
<1>1. NoSkills \in [Tools -> Nat] /\ 1000 \in Scores /\ BaseAtStart \in Bases
  BY EvolutionAssumption DEF NoSkills
<1>2. c \in Cards /\ c.build = 0
  BY <1>1, CardIsCard
<1>3. mgr = [build |-> 0, card |-> c, history |-> <<c>>, http |-> c, peers |-> <<>>]
  BY DEF Init, Fresh, Created
<1> HIDE DEF c
<1>4. <<c>> \in Histories /\ Head(<<c>>) = c
  BY <1>2, CardAssumption DEF Histories
<1>5. Shows(mgr)
  BY <1>2, <1>3, <1>4 DEF Shows
<1>6. versions = NoSkills /\ score = 1000 /\ base = BaseAtStart
      /\ disk = [history |-> <<>>, score |-> <<>>]
  BY DEF Init, Fresh
<1>7. QED
  BY <1>1, <1>5, <1>6 DEF ShowInv

\* What a new process begins with is shown too.
LEMMA FreshShows ==
  /\ Shows(Fresh.mgr) /\ Fresh.versions \in [Tools -> Nat]
  /\ Fresh.score \in Scores /\ Fresh.base \in Bases
<1> DEFINE c == Card(0, NoSkills, 1000, BaseAtStart)
<1>1. NoSkills \in [Tools -> Nat] /\ 1000 \in Scores /\ BaseAtStart \in Bases
  BY EvolutionAssumption DEF NoSkills
<1>2. c \in Cards /\ c.build = 0
  BY <1>1, CardIsCard
<1>3. Fresh.mgr = [build |-> 0, card |-> c, history |-> <<c>>, http |-> c, peers |-> <<>>]
  BY DEF Fresh, Created
<1> HIDE DEF c
<1>4. <<c>> \in Histories /\ Head(<<c>>) = c
  BY <1>2, CardAssumption DEF Histories
<1>5. Shows(Fresh.mgr)
  BY <1>2, <1>3, <1>4 DEF Shows
<1>6. Fresh.versions = NoSkills /\ Fresh.score = 1000 /\ Fresh.base = BaseAtStart
  BY DEF Fresh
<1>7. QED
  BY <1>1, <1>5, <1>6

LEMMA ShowStep == ShowInv /\ [Next]_vars => ShowInv'
<1> SUFFICES ASSUME ShowInv, [Next]_vars PROVE ShowInv'
  OBVIOUS
<1> USE DEF ShowInv
<1>1. ASSUME NEW k \in Cycles, CreateTool(k) \/ HotReload(k) PROVE ShowInv'
  <2>1. UNCHANGED <<score, base, mgr, disk>>
    BY <1>1 DEF CreateTool, HotReload
  <2>2. versions' \in [Tools -> Nat]
    <3>1. PICK required : Evaluate(k, required)
      BY <1>1 DEF CreateTool, HotReload
    <3>2. versions' = versions \/ \E t : versions' = [versions EXCEPT ![t] = @ + 1]
      BY <3>1 DEF Evaluate, FailsChecks, ScoresTooLow, TurnedAway, Accepted, Register
    <3>3. QED
      BY <3>2
  <2>3. QED
    BY <2>1, <2>2
<1>2. ASSUME NEW k \in Cycles, Announce(k) PROVE ShowInv'
  <2>1. mgr' = Updated(mgr, versions, score, base) /\ UNCHANGED <<versions, score, base, disk>>
    BY <1>2 DEF Announce
  <2>2. QED
    BY <2>1, UpdatedShows
<1>3. ASSUME NEW s \in Scores, TaskEnds(s) PROVE ShowInv'
  <2>1. PICK m \in Heard(mgr, versions, s, base) : mgr' = Updated(m, versions, s, base)
    BY <1>3 DEF TaskEnds
  <2>2. m = mgr \/ m = Updated(mgr, versions, s, base)
    BY <2>1 DEF Heard
  <2>3. Shows(m)
    BY <2>2, UpdatedShows
  <2>4. Shows(mgr')
    BY <2>1, <2>3, UpdatedShows
  <2>5. QED
    BY <1>3, <2>4 DEF TaskEnds
<1>4. CASE SyncWithReputation
  <2>1. mgr' = mgr \/ mgr' = Updated(mgr, versions, score, base)
    BY <1>4 DEF SyncWithReputation, SyncedWithReputation
  <2>2. Shows(mgr')
    BY <2>1, UpdatedShows
  <2>3. QED
    BY <1>4, <2>2 DEF SyncWithReputation
<1>5. ASSUME NEW b \in Bases, UpdatePricing(b) PROVE ShowInv'
  <2>1. Shows(mgr')
    BY <1>5, UpdatedShows DEF UpdatePricing
  <2>2. QED
    BY <1>5, <2>1 DEF UpdatePricing
<1>6. ASSUME NEW b \in 0..MaxBuild, Rollback(b) PROVE ShowInv'
  <2>1. b \in Nat
    BY EvolutionAssumption
  <2>2. Shows(mgr')
    BY <1>6, <2>1, RolledBackShows DEF Rollback
  <2>3. QED
    BY <1>6, <2>2 DEF Rollback
<1>7. CASE Hydrate
  <2>1. PICK saved \in {disk.history, <<>>}, s \in {disk.score, <<>>} :
          mgr' = Imported(mgr, saved) /\ score' = IF s = <<>> THEN score ELSE Head(s)
    BY <1>7 DEF Hydrate
  <2>2. saved \in Histories \cup {<<>>}
    BY <2>1
  <2>3. Shows(mgr')
    BY <2>1, <2>2, ImportedShows
  <2>4. score' \in Scores
    <3>1. disk.score \in {<<>>} \cup {<<u>> : u \in Scores}
      OBVIOUS
    <3>2. CASE s = <<>>
      BY <2>1, <3>2
    <3>3. CASE s # <<>>
      <4>1. PICK u \in Scores : s = <<u>>
        BY <2>1, <3>1, <3>3
      <4>2. QED
        BY <2>1, <3>3, <4>1
    <3>4. QED
      BY <3>2, <3>3
  <2>5. QED
    BY <1>7, <2>3, <2>4 DEF Hydrate
<1>8. CASE Save
  <2>1. PICK h \in {mgr.history, disk.history}, s \in {<<score>>, disk.score} :
          disk' = [history |-> h, score |-> s]
    BY <1>8 DEF Save
  <2>2. h \in Histories \cup {<<>>} /\ s \in {<<>>} \cup {<<u>> : u \in Scores}
    BY <2>1 DEF Shows
  <2>3. UNCHANGED <<mgr, versions, score, base>>
    BY <1>8 DEF Save, self
  <2>4. QED
    BY <2>1, <2>2, <2>3
<1>9. CASE Exit
  BY <1>9, FreshShows DEF Exit
<1>10. CASE UNCHANGED <<versions, score, base, mgr, disk>>
  BY <1>10
<1>11. QED
  <2>1. ASSUME NEW k \in Cycles, NEW t \in Tools, Propose(k, t) PROVE ShowInv'
    BY <1>10, <2>1 DEF Propose
  <2>2. ASSUME NEW t \in Tools, ToolFails(t) PROVE ShowInv'
    BY <1>10, <2>2 DEF ToolFails
  <2>3. CASE Start \/ UNCHANGED vars
    BY <1>10, <2>3 DEF Start, self, vars
  <2> HIDE DEF ShowInv
  <2>4. QED
    BY <1>1, <1>2, <1>3, <1>4, <1>5, <1>6, <1>7, <1>8, <1>9, <2>1, <2>2, <2>3 DEF Next

\* Whatever tools, scores and prices change, whatever is rolled back and whichever saves
\* and reads fail, the endpoint and the peer registry have the current card, and the
\* history has it first.
THEOREM ShownIsCurrent == Spec => []PublishedIsCurrent
<1>1. ShowInv => PublishedIsCurrent
  BY DEF ShowInv, Shows, Histories, PublishedIsCurrent
<1>2. QED
  BY <1>1, ShowInitially, ShowStep, PTL DEF Spec

-----------------------------------------------------------------------------
(* The card tells the truth.                                                *)

Phases == [pc : {"idle", "creating", "reloading", "accepted"}, tool : Tools \cup {"none"}]

InStep(m, v, s, b) ==
  m.card.skills = v /\ m.card.score = s /\ m.card.price = Price(b, s)

Quiet(cycles) == \A k \in Cycles : cycles[k].pc # "accepted"

StepInv ==
  /\ cycle \in [Cycles -> Phases]
  /\ ~restored /\ Quiet(cycle) => InStep(mgr, versions, score, base)

LEMMA UpdatedInStep ==
  ASSUME NEW m, Shows(m), NEW skills \in [Tools -> Nat], NEW s \in Scores, NEW p \in Bases
  PROVE  InStep(Updated(m, skills, s, p), skills, s, p)
<1>1. Updated(m, skills, s, p).card = Card(m.build + 1, skills, s, p)
  BY UpdatedShows
<1>2. QED
  BY <1>1 DEF InStep, Card

LEMMA FreshInStep ==
  /\ [k \in Cycles |-> Idle] \in [Cycles -> Phases]
  /\ InStep(Created(NoSkills, 1000, BaseAtStart), NoSkills, 1000, BaseAtStart)
  BY DEF Phases, Idle, InStep, Created, Card

\* Nothing is restored before the files are read.
Unread == mode \in {"off", "starting"} => ~restored

LEMMA UnreadStep == Unread /\ [Next]_vars => Unread'
<1> SUFFICES ASSUME Unread, [Next]_vars PROVE Unread'
  OBVIOUS
<1>1. ASSUME NEW k \in Cycles,
             CreateTool(k) \/ HotReload(k) \/ Announce(k) \/ \E t \in Tools : Propose(k, t)
      PROVE  Unread'
  BY <1>1 DEF Unread, Running, CreateTool, HotReload, Announce, Propose
<1>2. CASE \/ \E t \in Tools : ToolFails(t)
           \/ \E s \in Scores : TaskEnds(s)
           \/ SyncWithReputation
           \/ \E b \in Bases : UpdatePricing(b)
           \/ \E b \in 0..MaxBuild : Rollback(b)
  BY <1>2 DEF Unread, Running, ToolFails, TaskEnds, SyncWithReputation, UpdatePricing, Rollback
<1>3. CASE Start \/ Hydrate \/ Save \/ Exit \/ UNCHANGED vars
  BY <1>3 DEF Unread, Start, Hydrate, Save, Exit, vars
<1>4. QED
  BY <1>1, <1>2, <1>3 DEF Next

LEMMA StepStep == ShowInv /\ Unread /\ StepInv /\ [Next]_vars => StepInv'
<1> SUFFICES ASSUME ShowInv, Unread, StepInv, [Next]_vars PROVE StepInv'
  OBVIOUS
<1>0. Shows(mgr) /\ versions \in [Tools -> Nat] /\ score \in Scores /\ base \in Bases
  BY DEF ShowInv
<1>1. ASSUME NEW k \in Cycles, CreateTool(k) \/ HotReload(k) PROVE StepInv'
  <2>1. UNCHANGED <<score, base, mgr, restored>> /\ cycle[k].pc \in {"creating", "reloading"}
    BY <1>1 DEF CreateTool, HotReload
  <2>2. PICK required : Evaluate(k, required)
    BY <1>1 DEF CreateTool, HotReload
  <2>3. CASE TurnedAway(k)
    <3>1. cycle' = [cycle EXCEPT ![k] = Idle] /\ versions' = versions
      BY <2>3 DEF TurnedAway
    <3>2. Idle \in Phases /\ cycle' \in [Cycles -> Phases]
      BY <3>1 DEF StepInv, Phases, Idle
    <3>3. Quiet(cycle') => Quiet(cycle)
      BY <2>1, <3>1 DEF Quiet, StepInv
    <3>4. QED
      BY <2>1, <3>1, <3>2, <3>3 DEF StepInv
  <2>4. ASSUME NEW g \in Grades, Accepted(k, g, required) PROVE StepInv'
    <3>1. cycle' = [cycle EXCEPT ![k].pc = "accepted"]
      BY <2>4 DEF Accepted
    <3> DEFINE r == [cycle[k] EXCEPT !.pc = "accepted"]
    <3>2. r \in Phases /\ r.pc = "accepted"
      BY DEF StepInv, Phases
    <3>3. cycle' = [cycle EXCEPT ![k] = r]
      BY <3>1
    <3> HIDE DEF r
    <3>4. cycle' \in [Cycles -> Phases] /\ cycle'[k].pc = "accepted"
      BY <3>2, <3>3 DEF StepInv
    <3>5. QED
      BY <3>4 DEF StepInv, Quiet
  <2>5. QED
    BY <2>2, <2>3, <2>4 DEF Evaluate, FailsChecks, ScoresTooLow
<1>2. ASSUME NEW k \in Cycles, Announce(k) PROVE StepInv'
  <2>1. /\ mgr' = Updated(mgr, versions, score, base) /\ UNCHANGED <<versions, score, base>>
        /\ cycle' = [cycle EXCEPT ![k] = Idle]
    BY <1>2 DEF Announce
  <2>2. InStep(mgr', versions', score', base')
    BY <1>0, <2>1, UpdatedInStep
  <2>3. cycle' \in [Cycles -> Phases]
    BY <2>1 DEF StepInv, Phases, Idle
  <2>4. QED
    BY <2>2, <2>3 DEF StepInv
<1>3. ASSUME NEW k \in Cycles, NEW t \in Tools, Propose(k, t) PROVE StepInv'
  <2>1. PICK to \in {"creating", "reloading"} :
          cycle' = [cycle EXCEPT ![k] = [pc |-> to, tool |-> t]]
    BY <1>3 DEF Propose
  <2>2. cycle' \in [Cycles -> Phases]
    BY <2>1 DEF StepInv, Phases
  <2>3. cycle[k].pc = "idle" /\ UNCHANGED <<versions, score, base, mgr, restored>>
    BY <1>3 DEF Propose
  <2>4. Quiet(cycle') => Quiet(cycle)
    BY <2>1, <2>3 DEF Quiet, StepInv
  <2>5. QED
    BY <2>2, <2>3, <2>4 DEF StepInv
<1>4. ASSUME NEW s \in Scores, TaskEnds(s) PROVE StepInv'
  <2>1. PICK m \in Heard(mgr, versions, s, base) : mgr' = Updated(m, versions, s, base)
    BY <1>4 DEF TaskEnds
  <2>2. m = mgr \/ m = Updated(mgr, versions, s, base)
    BY <2>1 DEF Heard
  <2>3. Shows(m)
    BY <1>0, <2>2, UpdatedShows
  <2>4. InStep(mgr', versions, s, base)
    BY <1>0, <2>1, <2>3, UpdatedInStep
  <2>5. QED
    BY <1>4, <2>4 DEF TaskEnds, StepInv
<1>5. CASE SyncWithReputation
  <2>1. mgr' = Updated(mgr, versions, score, base)
    BY <1>5 DEF SyncWithReputation, SyncedWithReputation
  <2>2. InStep(mgr', versions, score, base)
    BY <1>0, <2>1, UpdatedInStep
  <2>3. QED
    BY <1>5, <2>2 DEF SyncWithReputation, StepInv
<1>6. ASSUME NEW b \in Bases, UpdatePricing(b) PROVE StepInv'
  <2>1. mgr' = Updated(mgr, versions, score, b) /\ base' = b
    BY <1>6 DEF UpdatePricing
  <2>2. InStep(mgr', versions, score, b)
    BY <1>0, <2>1, UpdatedInStep
  <2>3. QED
    BY <1>6, <2>1, <2>2 DEF UpdatePricing, StepInv
<1>7. ASSUME NEW b \in 0..MaxBuild, Rollback(b) PROVE StepInv'
  <2>1. /\ UNCHANGED <<versions, score, base, cycle>>
        /\ restored' = (restored \/ mgr' # mgr)
    BY <1>7 DEF Rollback
  <2>2. QED
    BY <2>1 DEF StepInv
<1>8. CASE Hydrate
  <2>1. PICK saved \in {disk.history, <<>>}, s \in {disk.score, <<>>} :
          /\ mgr' = Imported(mgr, saved) /\ score' = IF s = <<>> THEN score ELSE Head(s)
          /\ restored' = (saved # <<>> \/ s # <<>>)
    BY <1>8 DEF Hydrate
  <2>2. CASE saved = <<>> /\ s = <<>> /\ ~restored
    <3>1. mgr' = mgr /\ score' = score
      BY <2>1, <2>2 DEF Imported
    <3>2. QED
      BY <1>8, <2>2, <3>1 DEF Hydrate, StepInv
  <2>3. CASE saved # <<>> \/ s # <<>>
    BY <1>8, <2>1, <2>3 DEF Hydrate, StepInv
  <2>4. ~restored
    BY <1>8 DEF Hydrate, Unread
  <2>5. QED
    BY <2>2, <2>3, <2>4
<1>9. CASE Exit
  <2>1. /\ versions' = NoSkills /\ score' = 1000 /\ base' = BaseAtStart
        /\ mgr' = Created(NoSkills, 1000, BaseAtStart)
        /\ cycle' = [k \in Cycles |-> Idle]
    BY <1>9 DEF Exit, Fresh
  <2>2. QED
    BY <2>1, FreshInStep DEF StepInv
<1>10. CASE UNCHANGED <<versions, score, base, mgr, cycle, restored>>
  BY <1>10 DEF StepInv
<1>11. QED
  <2>1. ASSUME NEW t \in Tools, ToolFails(t) PROVE StepInv'
    BY <1>10, <2>1 DEF ToolFails
  <2>2. CASE Start \/ Save \/ UNCHANGED vars
    BY <1>10, <2>2 DEF Start, Save, self, vars
  <2>3. QED
    BY <1>1, <1>2, <1>3, <1>4, <1>5, <1>6, <1>7, <1>8, <1>9, <2>1, <2>2 DEF Next

\* The card has every tool in its latest version, the score and its price, unless it was
\* restored or a tool that was just accepted is about to be announced: for any number of
\* cycles under way, whatever changes between their steps.
THEOREM CardIsTrue == Spec => []CardInStep
<1>1. Init => StepInv /\ Unread
  BY FreshInStep DEF Init, Fresh, StepInv, Unread
<1>2. StepInv => CardInStep
  BY DEF StepInv, Quiet, InStep, CardInStep
<1>3. QED
  BY <1>1, <1>2, ShowInitially, ShowStep, UnreadStep, StepStep, PTL DEF Spec

-----------------------------------------------------------------------------
(* Build numbers.                                                           *)

\* The current number is the highest that was shown, as long as it never went back.
BuildInv ==
  /\ highest \in Nat
  /\ Running /\ ~rewound => mgr.build = highest
  /\ mode = "starting" => mgr.build <= highest

LEMMA BuildAdvances ==
  ASSUME ShowInv, BuildInv, Running, Shown, rewound' = rewound, mode' = mode,
         mgr'.build \in Nat, mgr'.build > mgr.build
  PROVE  BuildInv' /\ (~rewound' => mgr'.build > highest)
<1>1. mgr.build \in Nat
  BY DEF ShowInv, Shows
<1>2. highest' = MaxOf(highest, mgr'.build)
  BY DEF Shown
<1>3. QED
  BY <1>1, <1>2 DEF BuildInv, Running, MaxOf

OneCard ==
  Running /\ mgr'.card # mgr.card /\ Running' /\ ~rewound' => mgr'.card.build > highest

LEMMA BuildStep == ShowInv /\ BuildInv /\ [Next]_vars => BuildInv' /\ OneCard
<1> SUFFICES ASSUME ShowInv, BuildInv, [Next]_vars PROVE BuildInv' /\ OneCard
  OBVIOUS
<1>0. /\ Shows(mgr) /\ versions \in [Tools -> Nat] /\ score \in Scores /\ base \in Bases
      /\ mgr.build \in Nat /\ highest \in Nat
  BY DEF ShowInv, Shows, BuildInv
<1>a. Shows(mgr')
  BY ShowStep DEF ShowInv
<1>b. mgr'.card.build = mgr'.build /\ mgr'.build \in Nat
  BY <1>a DEF Shows
<1>1. ASSUME Running, Shown, rewound' = rewound, mode' = mode, mgr'.build > mgr.build
      PROVE  BuildInv' /\ OneCard
  BY <1>1, <1>b, BuildAdvances DEF OneCard
<1>2. ASSUME UNCHANGED <<mgr, rewound, highest>>, mode' # mode => mode' \in {"off", "saved"},
             mode' = "saved" => Running
      PROVE  BuildInv' /\ OneCard
  BY <1>2 DEF BuildInv, Running, OneCard
<1>3. ASSUME NEW k \in Cycles, Announce(k) PROVE BuildInv' /\ OneCard
  <2>1. mgr'.build = mgr.build + 1
    BY <1>0, <1>3, UpdatedShows DEF Announce
  <2>2. QED
    BY <1>0, <1>1, <1>3, <2>1 DEF Announce
<1>4. ASSUME NEW s \in Scores, TaskEnds(s) PROVE BuildInv' /\ OneCard
  <2>1. PICK m \in Heard(mgr, versions, s, base) : mgr' = Updated(m, versions, s, base) /\ Shown
    BY <1>4 DEF TaskEnds
  <2>2. m = mgr \/ m = Updated(mgr, versions, s, base)
    BY <2>1 DEF Heard
  <2>3. Shows(m) /\ (m.build = mgr.build \/ m.build = mgr.build + 1)
    BY <1>0, <2>2, UpdatedShows
  <2>4. mgr'.build = m.build + 1
    BY <1>0, <2>1, <2>3, UpdatedShows
  <2>5. mgr'.build > mgr.build
    BY <1>0, <2>3, <2>4
  <2>6. QED
    BY <1>1, <1>4, <2>1, <2>5 DEF TaskEnds
<1>5. CASE SyncWithReputation
  <2>1. mgr' = Updated(mgr, versions, score, base)
    BY <1>5 DEF SyncWithReputation, SyncedWithReputation
  <2>2. mgr'.build = mgr.build + 1
    BY <1>0, <2>1, UpdatedShows
  <2>3. QED
    BY <1>0, <1>1, <1>5, <2>2 DEF SyncWithReputation
<1>6. ASSUME NEW b \in Bases, UpdatePricing(b) PROVE BuildInv' /\ OneCard
  <2>1. mgr'.build = mgr.build + 1
    BY <1>0, <1>6, UpdatedShows DEF UpdatePricing
  <2>2. QED
    BY <1>0, <1>1, <1>6, <2>1 DEF UpdatePricing
<1>7. ASSUME NEW b \in 0..MaxBuild, Rollback(b) PROVE BuildInv' /\ OneCard
  <2>1. b \in Nat
    BY EvolutionAssumption
  <2>2. /\ mgr' = RolledBack(mgr, b) /\ highest' = MaxOf(highest, mgr'.build)
        /\ rewound' = (rewound \/ mgr'.build # mgr.build) /\ mode' = mode /\ Running
    BY <1>7 DEF Rollback, Shown
  <2>3. mgr'.build = mgr.build => mgr'.card = mgr.card
    BY <1>0, <2>1, <2>2, RolledBackShows
  <2>4. QED
    BY <1>0, <1>b, <2>2, <2>3 DEF BuildInv, OneCard, Running, MaxOf
<1>8. CASE Hydrate
  <2>1. PICK saved \in {disk.history, <<>>} :
          /\ mgr' = Imported(mgr, saved)
          /\ rewound' = (rewound \/ IF saved = <<>> THEN highest # 0
                                    ELSE Head(saved).build # highest)
    BY <1>8 DEF Hydrate
  <2>2. mode = "starting" /\ mode' = "on" /\ highest' = MaxOf(highest, mgr'.build)
    BY <1>8 DEF Hydrate, Shown
  <2>3. ~Running
    BY <2>2 DEF Running
  <2>4. saved \in Histories \cup {<<>>}
    BY <2>1 DEF ShowInv
  <2>5. mgr'.build = IF saved = <<>> THEN mgr.build ELSE Head(saved).build
    BY <1>0, <2>1, <2>4, ImportedShows
  <2>6. CASE saved = <<>>
    <3>1. mgr'.build = mgr.build /\ mgr.build <= highest
      BY <2>2, <2>5, <2>6 DEF BuildInv
    <3>2. highest' = highest
      BY <1>0, <2>2, <3>1 DEF MaxOf
    <3>3. ~rewound' => highest = 0
      BY <2>1, <2>6
    <3>4. ~rewound' => mgr'.build = highest'
      BY <1>0, <3>1, <3>2, <3>3
    <3>5. QED
      BY <1>0, <2>2, <2>3, <3>2, <3>4 DEF BuildInv, OneCard
  <2>7. CASE saved # <<>>
    BY <1>0, <1>b, <2>1, <2>2, <2>3, <2>5, <2>7 DEF BuildInv, OneCard, MaxOf
  <2>8. QED
    BY <2>6, <2>7
<1>9. CASE Exit
  BY <1>0, <1>9 DEF Exit, BuildInv, OneCard, Running
<1>10. CASE Start
  BY <1>0, <1>b, <1>10 DEF Start, Shown, BuildInv, OneCard, Running, MaxOf
<1>11. QED
  <2>1. ASSUME NEW k \in Cycles, CreateTool(k) \/ HotReload(k) PROVE BuildInv' /\ OneCard
    BY <1>2, <2>1 DEF CreateTool, HotReload, Running
  <2>2. ASSUME NEW k \in Cycles, NEW t \in Tools, Propose(k, t) PROVE BuildInv' /\ OneCard
    BY <1>2, <2>2 DEF Propose, Running
  <2>3. ASSUME NEW t \in Tools, ToolFails(t) PROVE BuildInv' /\ OneCard
    BY <1>2, <2>3 DEF ToolFails, Running
  <2>4. CASE Save \/ UNCHANGED vars
    BY <1>2, <2>4 DEF Save, self, vars, Running
  <2>5. QED
    BY <1>3, <1>4, <1>5, <1>6, <1>7, <1>8, <1>9, <1>10, <2>1, <2>2, <2>3, <2>4 DEF Next

\* A running agent changes its card for one whose number was never shown before, across
\* restarts, for any number of builds and lives, unless the number was set back.
THEOREM NumbersAreNew == Spec => OneCardPerBuild
<1>1. Init => BuildInv
  BY DEF Init, BuildInv, Running
<1>2. OneCard => (Running /\ mgr'.card # mgr.card /\ Running' /\ ~rewound' =>
                    mgr'.card.build > highest)
  BY DEF OneCard
<1>3. QED
  BY <1>1, <1>2, ShowInitially, ShowStep, BuildStep, PTL DEF Spec, OneCardPerBuild
=============================================================================
