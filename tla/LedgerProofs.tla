---------------------------- MODULE LedgerProofs ----------------------------
(***************************************************************************)
(* Proofs about LedgerEntries and Ledger, for every wallet, every amount and *)
(* every set of callers and calls: what the entry builders of core/ledger.ts *)
(* return, that the books of both stores always balance, and that what a     *)
(* caller was told is true of them.                                          *)
(***************************************************************************)
EXTENDS Ledger, TLAPS

-----------------------------------------------------------------------------
(* What the entry builders return, for every wallet and amount.             *)

Postings == [Accounts -> Int]

Balanced(p) == p \in Postings /\ Diff(p) = 0

\* Rounding yields an integer number of units.
LEMMA RoundType == ASSUME NEW n \in Int PROVE round8(n) \in Int
<1>1. 2 * n + Scale \in Int /\ 2 * Scale \in Nat \ {0}
  BY ScaleAssumption
<1> QED
  BY <1>1 DEF round8

\* Two opposite amounts on two accounts, one of them a wallet, balance.
LEMMA TwoSided ==
  ASSUME NEW w \in Wallets, NEW a \in {"escrow_pending", "revenue"},
         NEW x \in Int
  PROVE  Balanced([NoEntries EXCEPT ![a] = x, ![w] = -x])
BY DEF Balanced, NoEntries, Postings, Diff, Accounts, Wallets

\* Locks, refunds and deposits balance by construction.
LEMMA AmountPostings ==
  ASSUME NEW w \in Wallets, NEW n \in Int
  PROVE  /\ Balanced(LockEntries(w, n))
         /\ Balanced(RefundEntries(w, n))
         /\ Balanced(DepositEntries(w, n))
<1> DEFINE m == round8(n)
<1>1. m \in Int
  BY RoundType
<1>2. LockEntries(w, n) = [NoEntries EXCEPT !["escrow_pending"] = m, ![w] = -m]
  BY DEF LockEntries
<1>3. RefundEntries(w, n)
        = [NoEntries EXCEPT !["escrow_pending"] = -m, ![w] = m]
  BY DEF RefundEntries
<1>4. DepositEntries(w, n) = [NoEntries EXCEPT !["revenue"] = -m, ![w] = m]
  BY <1>1 DEF DepositEntries, NoEntries, Accounts, Wallets
<1> HIDE DEF m
<1>5. Balanced([NoEntries EXCEPT !["escrow_pending"] = m, ![w] = -m])
  BY <1>1, TwoSided
<1>6. ASSUME NEW a \in {"escrow_pending", "revenue"}
      PROVE  Balanced([NoEntries EXCEPT ![a] = -m, ![w] = m])
  <2>1. -m \in Int /\ -(-m) = m
    BY <1>1
  <2>2. Balanced([NoEntries EXCEPT ![a] = -m, ![w] = -(-m)])
    BY <2>1, TwoSided
  <2> QED
    BY <2>1, <2>2
<1> QED
  BY <1>2, <1>3, <1>4, <1>5, <1>6

\* A release or a settlement is a posting of integers, balanced or not.
LEMMA AdjustedType ==
  ASSUME NEW w \in Wallets, NEW a \in {"escrow_pending", "revenue"},
         NEW p \in Postings
  PROVE  Adjusted(w, a, p) \in Postings
<1>1. Diff(p) \in Int
  BY DEF Diff, Postings, Accounts, Wallets
<1> QED
  BY <1>1 DEF Adjusted, Postings, Accounts, Wallets

LEMMA SettlementType ==
  ASSUME NEW w \in Wallets, NEW s \in Amounts
  PROVE  /\ ReleaseEntries(w, s) \in Postings
         /\ SettlementEntries(w, s) \in Postings
<1>1. /\ round8(s.revenue) \in Int /\ round8(s.fee) \in Int
      /\ round8(s.cost) \in Int /\ round8(s.gas) \in Int
  BY RoundType DEF Amounts
<1>2. ASSUME NEW a \in {"escrow_pending", "revenue"}, NEW c \in Int
      PROVE  Unadjusted(w, a, c, s) \in Postings
  BY <1>1 DEF Unadjusted, Net, Entry, NoEntries, Postings, Accounts, Wallets
<1>3. Entry(round8(s.revenue)) \in Int
  BY <1>1 DEF Entry
<1>4. Unadjusted(w, "escrow_pending", Entry(round8(s.revenue)), s) \in Postings
  BY <1>2, <1>3
<1>5. Unadjusted(w, "revenue", round8(s.revenue), s) \in Postings
  BY <1>1, <1>2
<1> QED
  BY <1>4, <1>5, AdjustedType DEF ReleaseEntries, SettlementEntries

\* Balanced books stay balanced under a balanced posting.
LEMMA PostBalances ==
  ASSUME NEW books, NEW p, Balanced(books), Balanced(p)
  PROVE  Balanced(Post(books, p))
<1> DEFINE b == Post(books, p)
<1>1. \A a \in Accounts : b[a] = books[a] + p[a] /\ books[a] \in Int /\ p[a] \in Int
  BY DEF Balanced, Post, Postings
<1>2. b \in Postings
  BY <1>1 DEF Post, Postings
<1>3. Diff(books) = 0 /\ Diff(p) = 0
  BY DEF Balanced
<1> HIDE DEF b
<1>4. Diff(b) = Diff(books) + Diff(p)
  BY <1>1 DEF Diff, Accounts, Wallets
<1> QED
  BY <1>2, <1>3, <1>4 DEF Balanced, b

\* Rounding keeps an amount from turning negative.
LEMMA RoundNat == ASSUME NEW n \in Nat PROVE round8(n) \in Nat
<1>1. 2 * n + Scale \in Nat /\ 2 * Scale \in Nat \ {0}
  BY ScaleAssumption
<1>2. ASSUME NEW a \in Nat, NEW b \in Nat \ {0} PROVE a \div b \in Nat
  OBVIOUS
<1> QED
  BY <1>1, <1>2 DEF round8

NonNegative == [revenue : Nat, fee : Nat, cost : Nat, gas : Nat]

\* A release of amounts that are not negative is refused exactly when the fees
\* and costs exceed the revenue: the balance adjustment never rescues a loss,
\* and never has anything else to do.  (releaseFunds throws "not balanced", and
\* the task it was called for ends in the outer catch of handleTask.)
THEOREM ReleaseRefusesLosses ==
  ASSUME NEW w \in Wallets, NEW s \in NonNegative
  PROVE  ReleaseVerdict(ReleaseEntries(w, s)) = "unbalanced" <=> Net(s) < 0
<1> DEFINE r == round8(s.revenue)
           f == round8(s.fee)
           c == round8(s.cost)
           g == round8(s.gas)
           p == Unadjusted(w, "escrow_pending", Entry(r), s)
<1>1. r \in Nat /\ f \in Nat /\ c \in Nat /\ g \in Nat
  BY RoundNat DEF NonNegative
<1>2. Net(s) = r - f - c - g
  BY DEF Net
<1>3. Entry(r) = r /\ Entry(f) = f /\ Entry(c) = c /\ Entry(g) = g
  BY <1>1 DEF Entry
<1> HIDE DEF r, f, c, g
<1>4. p = [NoEntries EXCEPT !["escrow_pending"] = -r, ![w] = Entry(Net(s)),
                            !["platform_fee"] = f, !["execution_cost"] = c,
                            !["gas_cost"] = g]
  BY <1>3 DEF Unadjusted, r, f, c, g
<1>5. Entry(Net(s)) \in Int
  BY <1>1, <1>2 DEF Entry
<1>6. Diff(p) = Entry(Net(s)) - Net(s) /\ p[w] = Entry(Net(s))
  BY <1>1, <1>2, <1>4, <1>5 DEF Diff, NoEntries, Accounts, Wallets
<1> HIDE DEF p
<1>7. ReleaseEntries(w, s) = p
  <2>1. ReleaseEntries(w, s) = Adjusted(w, "escrow_pending", p)
    BY DEF ReleaseEntries, p, r
  <2>2. CASE Net(s) < 0
    <3>1. Diff(p) > 0 /\ p[w] = 0
      BY <1>1, <1>2, <1>6, <2>2 DEF Entry
    <3> QED
      BY <1>1, <1>2, <1>6, <2>1, <3>1 DEF Adjusted
  <2>3. CASE Net(s) >= 0
    <3>1. Diff(p) = 0
      BY <1>1, <1>2, <1>6, <2>3 DEF Entry
    <3> QED
      BY <2>1, <3>1 DEF Adjusted
  <2> QED
    BY <1>1, <1>2, <2>2, <2>3
<1>8. Diff(p) # 0 <=> Net(s) < 0
  BY <1>1, <1>2, <1>6 DEF Entry
<1>9. ReleaseVerdict(p) = "unbalanced" <=> Diff(p) # 0
  BY DEF ReleaseVerdict
<1> QED
  BY <1>7, <1>8, <1>9

-----------------------------------------------------------------------------
(* The calls.                                                               *)

\* Whatever the builders decide to post balances.
LEMMA PostedBalances ==
  ASSUME NEW op \in Ops, VerdictOf(op) = "post"
  PROVE  Balanced(Posting[op])
<1>1. Posting[op] = EntriesOf(op)
  BY DEF Posting
<1>2. op.wallet \in Wallets
  BY LedgerAssumption
<1>3. CASE op.kind \in {"lock", "refund", "deposit"} /\ op.amount \in Int
  BY <1>1, <1>2, <1>3, AmountPostings DEF EntriesOf
<1>4. CASE op.kind = "release" /\ op.amounts \in Amounts
  <2>1. EntriesOf(op) = ReleaseEntries(op.wallet, op.amounts)
    BY <1>4 DEF EntriesOf
  <2>2. ReleaseVerdict(EntriesOf(op)) = "post"
    BY <1>1, <1>4 DEF VerdictOf
  <2> QED
    BY <1>1, <1>2, <1>4, <2>1, <2>2, SettlementType DEF ReleaseVerdict, Balanced
<1>5. CASE op.kind = "settlement" /\ op.amounts \in Amounts
  <2>1. EntriesOf(op) = SettlementEntries(op.wallet, op.amounts)
    BY <1>5 DEF EntriesOf
  <2>2. SettlementVerdict(EntriesOf(op)) = "post"
    BY <1>1, <1>5 DEF VerdictOf
  <2> QED
    BY <1>1, <1>2, <1>5, <2>1, <2>2, SettlementType
    DEF SettlementVerdict, Balanced
<1> QED
  BY <1>3, <1>4, <1>5, LedgerAssumption

-----------------------------------------------------------------------------
(* The inductive invariant.  Of every call, in its record r, with the stores  *)
(* s and the k calls begun so far: a transaction is only opened for entries   *)
(* the builder posts, a call under way has no outcome, one that has not been  *)
(* committed anywhere has no row, and an answer is true of the stores.        *)

Calls == [pc : Points, op : Ops \cup {NoOp}, n : Nat, result : Outcomes]

RowsOf(s, st) == s[st].rows

Unwritten == {"asking", "looking", "connecting", "postgres"}

Opened == {"connecting", "postgres", "memory"}

True(r, s) ==
  /\ r.result = "recorded" => \E st \in Stores : [n |-> r.n, op |-> r.op] \in RowsOf(s, st)
  /\ r.result = "threw" \/ r.pc \in Unwritten =>
       \A st \in Stores : \A row \in RowsOf(s, st) : row.n # r.n
  /\ r.result = "null" /\ VerdictOf(r.op) # "empty" =>
       Checked(r.op) /\ \E st \in Stores : \E row \in RowsOf(s, st) : row.op.ref = r.op.ref

Good(r, k) ==
  /\ r \in Calls /\ r.n <= k
  /\ r.pc # "idle" => r.op \in Ops /\ r.result = "none"
  /\ r.result # "none" => r.op \in Ops
  /\ r.op \in Ops => r.n > 0
  /\ r.pc \in Opened => VerdictOf(r.op) = "post"

StoreType(s) ==
  s \in [Stores -> [books : Postings, rows : SUBSET [n : 1..MaxCalls, op : Ops]]]

BooksInv ==
  /\ isMockActive \in BOOLEAN
  /\ calls \in 0..MaxCalls
  /\ StoreType(store)
  /\ \A st \in Stores : Balanced(store[st].books)
  /\ \A st \in Stores : \A row \in RowsOf(store, st) : row.n <= calls
  /\ DOMAIN call = Callers
  /\ call = [c \in Callers |-> call[c]]
  /\ \A c \in Callers : Good(call[c], calls) /\ True(call[c], store)
  /\ \A c, d \in Callers : c # d /\ call[c].n = call[d].n => call[c].n = 0

\* The rows s gets in t all have the number n.
Gains(s, t, n) ==
  \A st \in Stores :
    /\ RowsOf(s, st) \subseteq RowsOf(t, st)
    /\ \A row \in RowsOf(t, st) : row \in RowsOf(s, st) \/ row.n = n

\* Nothing that a call does makes false what another was told.
LEMMA OthersStayTrue ==
  ASSUME NEW r, NEW s, NEW t, NEW n, True(r, s), Gains(s, t, n), r.n # n
  PROVE  True(r, t)
BY DEF True, Gains

\* A step of one call, to the record r, with or without a row of its number.
LEMMA CallStep ==
  ASSUME BooksInv, NEW c \in Callers, NEW r,
         call' = [call EXCEPT ![c] = r],
         isMockActive' \in BOOLEAN,
         calls' \in 0..MaxCalls, calls <= calls',
         StoreType(store'),
         \A st \in Stores : Balanced(store[st].books)',
         Gains(store, store', r.n),
         Good(r, calls'), True(r, store'),
         \A d \in Callers : d # c => call[d].n # r.n
  PROVE  BooksInv'
<1>1. calls \in Nat /\ calls' \in Nat /\ r.n \in Nat /\ r.n <= calls'
  BY LedgerAssumption DEF BooksInv, Good, Calls
<1>2. call'[c] = r /\ \A d \in Callers : d # c => call'[d] = call[d]
  BY DEF BooksInv
<1>3. DOMAIN call' = Callers /\ call' = [d \in Callers |-> call'[d]]
  BY DEF BooksInv
<1>4. ASSUME NEW d \in Callers PROVE Good(call'[d], calls') /\ True(call'[d], store')
  <2>1. CASE d = c
    BY <1>2, <2>1
  <2>2. CASE d # c
    <3>1. call'[d] = call[d] /\ call[d].n # r.n
      BY <1>2, <2>2
    <3>2. Good(call[d], calls) /\ True(call[d], store)
      BY DEF BooksInv
    <3>3. Good(call[d], calls')
      BY <1>1, <3>2 DEF Good, Calls
    <3>4. True(call[d], store')
      BY <3>1, <3>2, OthersStayTrue
    <3> QED
      BY <3>1, <3>3, <3>4
  <2> QED
    BY <2>1, <2>2
<1>5. ASSUME NEW st \in Stores, NEW row \in RowsOf(store', st) PROVE row.n <= calls'
  <2>1. CASE row \in RowsOf(store, st)
    <3>1. row.n \in Nat
      BY <2>1 DEF BooksInv, StoreType, RowsOf
    <3> QED
      BY <1>1, <2>1, <3>1 DEF BooksInv
  <2>2. CASE row.n = r.n
    BY <1>1, <2>2
  <2> QED
    BY <2>1, <2>2 DEF Gains
<1>6. \A d, e \in Callers : d # e /\ call'[d].n = call'[e].n => call'[d].n = 0
  BY <1>2 DEF BooksInv
<1> QED
  BY <1>3, <1>4, <1>5, <1>6 DEF BooksInv, RowsOf

\* The stores start empty, the callers idle.
LEMMA BooksInitially == Init => BooksInv
<1> SUFFICES ASSUME Init PROVE BooksInv
  OBVIOUS
<1>1. Balanced(NoEntries)
  BY DEF Balanced, Postings, NoEntries, Diff, Accounts, Wallets
<1>2. StoreType(store) /\ \A st \in Stores : store[st].books = NoEntries /\ RowsOf(store, st) = {}
  BY <1>1 DEF Init, StoreType, RowsOf, Balanced
<1>3. NoOp \notin Ops
  BY LedgerAssumption DEF NoOp
<1>4. Good(Idle, 0) /\ True(Idle, store)
  BY <1>2, <1>3 DEF Good, True, Idle, Calls, Points, Outcomes, Opened, Unwritten
<1>5. /\ call = [c \in Callers |-> Idle] /\ calls = 0 /\ isMockActive \in BOOLEAN
      /\ \A c \in Callers : call[c] = Idle
  BY DEF Init
<1>6. 0 \in 0..MaxCalls /\ Idle.n = 0
  BY LedgerAssumption DEF Idle
<1> HIDE DEF Init
<1> QED
  BY <1>1, <1>2, <1>4, <1>5, <1>6 DEF BooksInv

\* A call that goes on, having written nothing, or to write in memory.
LEMMA GoesOn ==
  ASSUME BooksInv, NEW c \in Callers, call[c].pc \in Unwritten,
         NEW pc \in {"looking", "postgres", "memory"}, Goto(c, pc),
         pc \in Opened => VerdictOf(call[c].op) = "post",
         UNCHANGED <<store, calls>>, isMockActive' \in BOOLEAN
  PROVE  BooksInv'
<1> DEFINE r == Waiting(call[c].op, call[c].n, pc)
<1>1. call' = [call EXCEPT ![c] = r]
  BY DEF Goto
<1>2. Good(call[c], calls) /\ True(call[c], store) /\ call[c].op \in Ops /\ call[c].n > 0
  BY DEF BooksInv, Good, Unwritten
<1>3. r.n = call[c].n /\ r.op = call[c].op /\ r.pc = pc /\ r.result = "none" /\ r \in Calls
  BY <1>2 DEF Waiting, Good, Calls, Points, Outcomes
<1>4. Good(r, calls)
  BY <1>2, <1>3 DEF Good
<1>5. True(r, store)
  BY <1>2, <1>3 DEF True
<1>6. \A d \in Callers : d # c => call[d].n # r.n
  BY <1>2, <1>3 DEF BooksInv, Good, Calls
<1>7. Gains(store, store, r.n)
  BY DEF Gains
<1> HIDE DEF r
<1> QED
  BY <1>1, <1>4, <1>5, <1>6, <1>7, CallStep DEF BooksInv

\* What a lookup comes to: an answer that is true of the store it asked, or a
\* transaction of entries that the builder posts.
LEMMA LookupAnswers ==
  ASSUME BooksInv, NEW op \in Ops, NEW n \in Nat \ {0}, NEW k \in Nat, n <= k,
         NEW st \in Stores, NEW mock \in BOOLEAN,
         \A s \in Stores : \A row \in RowsOf(store, s) : row.n # n
  PROVE  /\ LookedUp(op, n, st, mock).n = n
         /\ Good(LookedUp(op, n, st, mock), k)
         /\ True(LookedUp(op, n, st, mock), store)
         /\ Built(op, n, mock).n = n
         /\ Good(Built(op, n, mock), k)
         /\ True(Built(op, n, mock), store)
<1>1. VerdictOf(op) \in {"unbalanced", "empty", "post"}
  BY LedgerAssumption DEF VerdictOf, ReleaseVerdict, SettlementVerdict, AmountVerdict
<1>2. PICK pc \in {"connecting", "memory"} : pc = (IF mock THEN "memory" ELSE "connecting")
  OBVIOUS
<1>3. ASSUME NEW result \in {"threw", "null"},
             \/ result = "threw"
             \/ VerdictOf(op) = "empty"
             \/ Checked(op) /\ Known(st, op.ref)
      PROVE  /\ Answer(op, n, result).n = n /\ Good(Answer(op, n, result), k)
             /\ True(Answer(op, n, result), store)
  BY <1>3 DEF Answer, Good, True, Calls, Points, Outcomes, Opened, Unwritten, Known, RowsOf
<1>4. ASSUME VerdictOf(op) = "post"
      PROVE  Waiting(op, n, pc).n = n /\ Good(Waiting(op, n, pc), k) /\ True(Waiting(op, n, pc), store)
  BY <1>4 DEF Waiting, Good, True, Calls, Points, Outcomes, Opened
<1>5. /\ Built(op, n, mock).n = n
      /\ Good(Built(op, n, mock), k)
      /\ True(Built(op, n, mock), store)
  <2>1. CASE VerdictOf(op) = "unbalanced"
    BY <1>3, <2>1 DEF Built
  <2>2. CASE VerdictOf(op) = "empty"
    BY <1>3, <2>2 DEF Built
  <2>3. CASE VerdictOf(op) = "post"
    BY <1>2, <1>4, <2>3 DEF Built
  <2> QED
    BY <1>1, <2>1, <2>2, <2>3
<1>6. CASE Checked(op) /\ Known(st, op.ref)
  BY <1>3, <1>5, <1>6 DEF LookedUp
<1>7. CASE ~(Checked(op) /\ Known(st, op.ref))
  BY <1>5, <1>7 DEF LookedUp
<1> QED
  BY <1>6, <1>7

\* A call begins, under a number that no call and no row has.
LEMMA BeginStep ==
  ASSUME BooksInv, NEW c \in Callers, NEW op \in Ops, Begin(c, op)
  PROVE  BooksInv'
<1>1. PICK n \in Nat \ {0} : n = calls + 1 /\ n = calls' /\ n \in 0..MaxCalls /\ calls <= n
  BY LedgerAssumption DEF BooksInv, Begin
<1>2. \A s \in Stores : \A row \in RowsOf(store, s) : row.n # n
  <2>1. \A s \in Stores : \A row \in RowsOf(store, s) : row.n <= calls /\ row.n \in Nat
    BY DEF BooksInv, StoreType, RowsOf
  <2> QED
    BY <1>1, <2>1 DEF BooksInv
<1>3. \A d \in Callers : call[d].n # n
  <2>1. \A d \in Callers : call[d].n <= calls /\ call[d].n \in Nat
    BY DEF BooksInv, Good, Calls
  <2> QED
    BY <1>1, <2>1 DEF BooksInv
<1>4. PICK r : /\ call' = [call EXCEPT ![c] = r]
               /\ \/ r = LookedUp(op, n, "mem", TRUE)
                  \/ Checked(op) /\ r = Waiting(op, n, "asking")
                  \/ r = Built(op, n, FALSE)
  BY <1>1 DEF Begin
<1>5. r.n = n /\ Good(r, n) /\ True(r, store)
  <2> "mem" \in Stores /\ n \in Nat /\ n <= n
    BY DEF Stores
  <2>1. CASE r = LookedUp(op, n, "mem", TRUE)
    BY <1>2, <2>1, LookupAnswers
  <2>2. CASE r = Built(op, n, FALSE)
    BY <1>2, <2>2, LookupAnswers
  <2>3. CASE r = Waiting(op, n, "asking")
    BY <1>1, <1>2, <2>3
    DEF Waiting, Good, True, Calls, Points, Outcomes, Opened, Unwritten
  <2> QED
    BY <1>4, <2>1, <2>2, <2>3
<1>6. Gains(store, store, n) /\ store' = store /\ isMockActive' = isMockActive
  BY DEF Gains, Begin
<1> QED
  BY <1>1, <1>3, <1>4, <1>5, <1>6, CallStep DEF BooksInv

\* A SELECT is answered, by the one store or the other.
LEMMA LookupStep ==
  ASSUME BooksInv, NEW c \in Callers, call[c].pc \in Unwritten,
         NEW st \in Stores, NEW mock \in BOOLEAN,
         call' = [call EXCEPT ![c] = LookedUp(call[c].op, call[c].n, st, mock)],
         UNCHANGED <<store, calls>>, isMockActive' \in BOOLEAN
  PROVE  BooksInv'
<1>1. PICK op, n, r : op = call[c].op /\ n = call[c].n /\ r = LookedUp(op, n, st, mock)
  OBVIOUS
<1>2. Good(call[c], calls) /\ True(call[c], store) /\ calls \in Nat
  BY LedgerAssumption DEF BooksInv
<1>3. op \in Ops /\ n \in Nat \ {0} /\ n <= calls
  BY <1>1, <1>2 DEF Good, Calls, Unwritten
<1>4. \A s \in Stores : \A row \in RowsOf(store, s) : row.n # n
  BY <1>1, <1>2 DEF True
<1>5. r.n = n /\ Good(r, calls) /\ True(r, store)
  BY <1>1, <1>2, <1>3, <1>4, LookupAnswers
<1>6. \A d \in Callers : d # c => call[d].n # n
  BY <1>1, <1>3 DEF BooksInv
<1>7. Gains(store, store, n)
  BY DEF Gains
<1> QED
  BY <1>1, <1>2, <1>5, <1>6, <1>7, CallStep DEF BooksInv

\* A call writes its row and its entries into a store.
LEMMA InsertStep ==
  ASSUME BooksInv, NEW c \in Callers, call[c].pc \in {"postgres", "memory"},
         NEW st \in Stores, store' = Insert(st, c),
         Goto(c, "memory") \/ Return(c, "recorded"),
         calls' = calls, isMockActive' \in BOOLEAN
  PROVE  BooksInv'
<1>1. PICK op, n : op = call[c].op /\ n = call[c].n
  OBVIOUS
<1>2. Good(call[c], calls) /\ calls \in 0..MaxCalls
  BY DEF BooksInv
<1>3. op \in Ops /\ n \in 1..MaxCalls /\ n <= calls /\ VerdictOf(op) = "post"
  BY <1>1, <1>2, LedgerAssumption DEF Good, Calls, Opened
<1>4. PICK b, rows : /\ b = Post(store[st].books, Posting[op])
                     /\ rows = RowsOf(store, st) \cup {[n |-> n, op |-> op]}
  OBVIOUS
<1>5. Balanced(b)
  BY <1>3, <1>4, PostedBalances, PostBalances DEF BooksInv
<1>6. rows \in SUBSET [n : 1..MaxCalls, op : Ops]
  BY <1>3, <1>4 DEF BooksInv, StoreType, RowsOf
<1>7. store' = [store EXCEPT ![st] = [books |-> b, rows |-> rows]]
  BY <1>1, <1>4 DEF Insert, Row, RowsOf
<1>8. /\ store'[st] = [books |-> b, rows |-> rows]
      /\ \A s \in Stores : s # st => store'[s] = store[s]
  BY <1>7 DEF BooksInv, StoreType
<1>9. StoreType(store') /\ \A s \in Stores : Balanced(store[s].books)'
  BY <1>5, <1>6, <1>7, <1>8 DEF BooksInv, StoreType, Balanced
<1>10. Gains(store, store', n) /\ [n |-> n, op |-> op] \in RowsOf(store', st)
  BY <1>4, <1>8 DEF Gains, RowsOf
<1>11. PICK r : /\ r = Waiting(op, n, "memory") \/ r = Answer(op, n, "recorded")
                /\ call' = [call EXCEPT ![c] = r]
  BY <1>1 DEF Goto, Return
<1>12. r.n = n /\ Good(r, calls)
  BY <1>3, <1>11 DEF Waiting, Answer, Good, Calls, Points, Outcomes, Opened
<1>13. True(r, store')
  <2>1. r.op = op /\ r.pc \notin Unwritten /\ r.result \in {"none", "recorded"}
    BY <1>11 DEF Waiting, Answer, Unwritten
  <2> QED
    BY <1>10, <1>12, <2>1 DEF True
<1>14. \A d \in Callers : d # c => call[d].n # n
  BY <1>1, <1>3 DEF BooksInv
<1>15. calls' \in 0..MaxCalls /\ calls <= calls' /\ Good(r, calls')
  BY <1>2, <1>12
<1>16. /\ call' = [call EXCEPT ![c] = r] /\ Gains(store, store', r.n)
       /\ \A d \in Callers : d # c => call[d].n # r.n
  BY <1>10, <1>11, <1>12, <1>14
<1> QED
  BY <1>9, <1>13, <1>15, <1>16, CallStep

\* Every step of every call keeps the books and the answers in order.
LEMMA BooksStep == BooksInv /\ [Next]_vars => BooksInv'
<1> SUFFICES ASSUME BooksInv, [Next]_vars PROVE BooksInv'
  OBVIOUS
<1>1. isMockActive \in BOOLEAN
  BY DEF BooksInv
<1>2. \A c \in Callers : call[c].pc \in Opened => VerdictOf(call[c].op) = "post"
  BY DEF BooksInv, Good
<1>3. ASSUME NEW c \in Callers, Connect(c) PROVE BooksInv'
  <2>1. CASE At(c, "asking") /\ Goto(c, "looking")
    BY <1>1, <1>3, <2>1, GoesOn DEF Connect, At, Unwritten, Opened
  <2>2. CASE At(c, "connecting") /\ Goto(c, "postgres")
    BY <1>1, <1>2, <1>3, <2>2, GoesOn DEF Connect, At, Unwritten, Opened
  <2> QED
    BY <1>3, <2>1, <2>2 DEF Connect
<1>4. ASSUME NEW c \in Callers, ConnectFails(c) \/ Abort(c) PROVE BooksInv'
  BY <1>1, <1>2, <1>4, GoesOn DEF ConnectFails, Abort, At, Unwritten, Opened
<1>5. ASSUME NEW c \in Callers, Found(c) PROVE BooksInv'
  BY <1>1, <1>5, LookupStep DEF Found, At, Unwritten, Stores
<1>6. ASSUME NEW c \in Callers, SelectFails(c) PROVE BooksInv'
  BY <1>6, LookupStep DEF SelectFails, At, Unwritten, Stores
<1>7. ASSUME NEW c \in Callers, Commit(c) \/ CommitUnacknowledged(c) \/ InMemory(c)
      PROVE  BooksInv'
  BY <1>1, <1>7, InsertStep DEF Commit, CommitUnacknowledged, InMemory, At, Stores
<1>8. CASE PoolError \/ UNCHANGED vars
  BY <1>8 DEF PoolError, vars, BooksInv, RowsOf
<1> QED
  BY <1>3, <1>4, <1>5, <1>6, <1>7, <1>8, BeginStep DEF Next, WaitEnds

\* Double entry, for every set of callers and calls and every failure of
\* Postgres: the debits and the credits of either store are equal.
THEOREM LedgerBooks == Spec => []BooksBalance
<1>1. BooksInv => BooksBalance
  BY DEF BooksInv, BooksBalance, Balanced
<1> QED
  BY <1>1, BooksInitially, BooksStep, PTL DEF Spec

\* The variables of Ledger have their types, and a call under way is one of Ops.
THEOREM LedgerTypes == Spec => []TypeOK
<1>1. NoOp \notin Ops
  BY LedgerAssumption DEF NoOp
<1>2. BooksInv => TypeOK
  BY <1>1, LedgerAssumption DEF BooksInv, Good, TypeOK, StoreType, Calls, Postings
<1> QED
  BY <1>2, BooksInitially, BooksStep, PTL DEF Spec

\* What a call answered is true of that very call, whatever the races and
\* failures on the way: recorded means a row of its own, thrown means none.
THEOREM AnswersAreRecorded == Spec => []AnsweredMeansRecorded
<1>1. ASSUME BooksInv, NEW c \in Callers
      PROVE  LET result == call[c].result
                 op == call[c].op
             IN /\ result = "recorded" => \E st \in Stores : Row(c) \in store[st].rows
                /\ result = "threw" => \A st \in Stores : Row(c) \notin store[st].rows
                /\ result = "null" /\ VerdictOf(op) # "empty" =>
                     Checked(op) /\ \E st \in Stores : Known(st, op.ref)
  <2>1. True(call[c], store)
    BY <1>1 DEF BooksInv
  <2> QED
    BY <2>1 DEF True, RowsOf, Row, Known
<1>2. BooksInv => AnsweredMeansRecorded
  BY <1>1 DEF AnsweredMeansRecorded
<1> QED
  BY <1>2, BooksInitially, BooksStep, PTL DEF Spec
=============================================================================
