-------------------------- MODULE AgentCoreProofs --------------------------
(***************************************************************************)
(* Proofs about AgentCore, for every set of tasks, requests and adapters,   *)
(* every cap, cost and receipt, and any number of retries and restarts: the *)
(* money of a task moves at most once after its lock, market and reputation *)
(* agree with it, a clean wait leaves nobody at work, and the overrun of    *)
(* the daily cap is bounded.                                                *)
(***************************************************************************)
EXTENDS AgentCore, SequenceTheorems, FunctionTheorems, FiniteSetTheorems, TLAPS

\* Where a handler has not locked anything yet.
BeforeLock ==
  {"offered", "dropped", "triage", "reject", "accept", "lock", "lockReject"}

\* Where a handler holds a lock it has neither released nor refunded.
Locked ==
  {"system1", "a2a", "execute", "failReject", "failRefund", "deliver", "release"}

\* The histories of a task's transactions.  They are only expanded where it
\* matters which sequences they are.
Nothing == <<>>
Held == <<"pending">>
Stray == <<"failed">>
Settled == <<"pending", "settled">>
Refunded == <<"pending", "failed">>

Unmoved == {Nothing, Held}

Histories == {Nothing, Held, Stray, Settled, Refunded}

\* What the place of a handler says of its task's transactions.
Fits(place, history) ==
  /\ history \in Histories
  /\ place \in BeforeLock => history = Nothing
  /\ place \in Locked => history = Held
  /\ place = "catch" => history \in Unmoved

\* The inductive invariant.
RowsFitPlaces ==
  /\ pc \in [Tasks -> Points]
  /\ rows \in [Tasks -> Histories]
  /\ \A t \in Tasks : Fits(pc[t], rows[t])

LEMMA AppendToOne ==
  ASSUME NEW S, NEW a \in S, NEW b \in S
  PROVE  Append(<<a>>, b) = <<a, b>>
<1> DEFINE s == Append(<<a>>, b)
           u == <<a, b>>
<1>1. <<a>> \in Seq(S) /\ Len(<<a>>) = 1 /\ <<a>>[1] = a
  OBVIOUS
<1>2. s \in Seq(S) /\ Len(s) = 2 /\ s[1] = a /\ s[2] = b
  BY <1>1, AppendProperties
<1>3. u \in Seq(S) /\ Len(u) = 2 /\ u[1] = a /\ u[2] = b
  OBVIOUS
<1> HIDE DEF s, u
<1>4. \A i \in 1..Len(s) : s[i] = u[i]
  BY <1>2, <1>3
<1>5. s = u
  BY <1>2, <1>3, <1>4, SeqEqual
<1> QED
  BY <1>5 DEF s, u

\* What each kind of transaction makes of a history.
LEMMA Appends ==
  /\ Append(Nothing, "pending") = Held
  /\ Append(Nothing, "failed") = Stray
  /\ Append(Held, "settled") = Settled
  /\ Append(Held, "failed") = Refunded
<1>1. Append(<<>>, "pending") = <<"pending">>
  OBVIOUS
<1>2. Append(<<>>, "failed") = <<"failed">>
  OBVIOUS
<1> DEFINE S == {"pending", "settled", "failed"}
<1>3. Append(<<"pending">>, "settled") = <<"pending", "settled">>
  <2>1. "pending" \in S /\ "settled" \in S
    OBVIOUS
  <2> QED
    BY <2>1, AppendToOne
<1>4. Append(<<"pending">>, "failed") = <<"pending", "failed">>
  <2>1. "pending" \in S /\ "failed" \in S
    OBVIOUS
  <2> QED
    BY <2>1, AppendToOne
<1> QED
  BY <1>1, <1>2, <1>3, <1>4 DEF Nothing, Held, Stray, Settled, Refunded

\* A step of one handler that inserts nothing: the new place must fit.
LEMMA Moves ==
  ASSUME RowsFitPlaces, NEW t \in Tasks, NEW place \in Points,
         Goto(t, place), rows' = rows, Fits(place, rows[t])
  PROVE  RowsFitPlaces'
BY DEF RowsFitPlaces, Goto

\* A step of one handler that inserts a transaction.
LEMMA Inserts ==
  ASSUME RowsFitPlaces, NEW t \in Tasks, NEW place \in Points,
         NEW status, NEW entries,
         Goto(t, place), Insert(t, status, entries),
         Fits(place, Append(rows[t], status))
  PROVE  RowsFitPlaces'
<1>1. rows' = [rows EXCEPT ![t] = Append(rows[t], status)]
  BY DEF Insert
<1>2. Append(rows[t], status) \in Histories
  BY DEF Fits
<1> QED
  BY <1>1, <1>2 DEF RowsFitPlaces, Goto

\* A refund, from where the handler may refund.
LEMMA Refunds ==
  ASSUME RowsFitPlaces, NEW t \in Tasks, NEW place \in {"failLearn", "done"},
         pc[t] \in {"failRefund", "catch"}, Goto(t, place), Refund(t)
  PROVE  RowsFitPlaces'
<1>1. rows[t] \in Unmoved
  BY DEF RowsFitPlaces, Fits, Locked, Unmoved
<1>2. Fits(place, rows[t])
  BY <1>1 DEF Fits, BeforeLock, Locked, Unmoved, Histories
<1>3. Fits(place, Append(rows[t], "failed"))
  BY <1>1, Appends DEF Fits, BeforeLock, Locked, Unmoved, Histories
<1>4. CASE rows' = rows
  BY <1>2, <1>4, Moves DEF Points, Over
<1>5. CASE \E entries : Insert(t, "failed", entries)
  BY <1>3, <1>5, Inserts DEF Points, Over
<1> QED
  BY <1>4, <1>5 DEF Refund

\* The steps of one handler, by what they do to the rows.
LEMMA HandlerSteps ==
  ASSUME RowsFitPlaces, NEW t \in Tasks, Poll(t) \/ Drop(t) \/ Step(t)
  PROVE  RowsFitPlaces'
<1> USE DEF Finish, Points, Over
<1>0. Fits(pc[t], rows[t])
  BY DEF RowsFitPlaces
<1>1. CASE Poll(t) \/ Drop(t) \/ TriageThrows(t) \/ TriageDeclines(t)
           \/ Reject(t) \/ RejectThrows(t)
  <2>1. /\ pc[t] \in BeforeLock /\ rows' = rows
        /\ \E place \in {"triage", "dropped", "catch", "reject", "done"} :
             Goto(t, place)
    BY <1>1 DEF Poll, Drop, TriageThrows, TriageDeclines, Reject, RejectThrows,
                BeforeLock
  <2> QED
    BY <1>0, <2>1, Moves DEF Fits, BeforeLock, Locked, Unmoved, Histories
<1>2. CASE TriageAccepts(t) \/ Accept(t) \/ AcceptRefused(t) \/ AcceptThrows(t)
           \/ LockFails(t) \/ LockReject(t)
  <2>1. /\ pc[t] \in BeforeLock /\ rows' = rows
        /\ \E place \in {"reject", "accept", "lock", "lockReject", "catch", "done"} :
             Goto(t, place)
    BY <1>2 DEF TriageAccepts, Accept, AcceptRefused, AcceptThrows, LockFails,
                LockReject, BeforeLock
  <2> QED
    BY <1>0, <2>1, Moves DEF Fits, BeforeLock, Locked, Unmoved, Histories
<1>3. CASE Lock(t)
  <2>1. /\ pc[t] = "lock" /\ \E entries : Insert(t, "pending", entries)
        /\ \E place \in {"system1", "a2a", "execute"} : Goto(t, place)
    BY <1>3 DEF Lock, System2
  <2>2. rows[t] = Nothing
    BY <1>0, <2>1 DEF Fits, BeforeLock
  <2> QED
    BY <2>1, <2>2, Appends, Inserts DEF Fits, BeforeLock, Locked, Histories
<1>4. CASE System1(t) \/ A2A(t) \/ ExecuteEnds(t) \/ ExecutionThrows(t)
           \/ FailReject(t) \/ Deliver(t) \/ DeliverThrows(t) \/ ReleaseThrows(t)
  <2>1. /\ pc[t] \in Locked /\ rows' = rows
        /\ \E place \in {"deliver", "a2a", "execute", "failReject", "failRefund",
                        "release", "catch"} : Goto(t, place)
    BY <1>4 DEF System1, A2A, PeerDelivers, PeerFails, PeerAnswers, ExecuteEnds,
                ExecutionThrows, FailReject, Deliver,
                DeliverThrows, ReleaseThrows, System2, Locked
  <2>2. rows[t] = Held
    BY <1>0, <2>1 DEF Fits
  <2> QED
    BY <2>1, <2>2, Moves DEF Fits, BeforeLock, Locked, Unmoved, Histories
<1>5. CASE ExecuteAgain(t)
  BY <1>5 DEF ExecuteAgain, RowsFitPlaces
<1>6. CASE FailRefund(t) \/ Catch(t)
  <2>1. /\ pc[t] \in {"failRefund", "catch"} /\ Refund(t)
        /\ \E place \in {"failLearn", "done"} : Goto(t, place)
    BY <1>6 DEF FailRefund, Catch
  <2> QED
    BY <2>1, Refunds
<1>7. CASE FailLearn(t) \/ Evolve(t) \/ Learn(t)
  <2>1. rows' = rows /\ \E place \in {"evolve", "done"} : Goto(t, place)
    BY <1>7 DEF FailLearn, Evolve, Learn, recordLearning, LearningEvent
  <2> QED
    BY <1>0, <2>1, Moves DEF Fits, BeforeLock, Locked
<1>8. CASE Release(t)
  <2>1. /\ pc[t] = "release"
        /\ \/ rows' = rows /\ \E place \in {"learn", "catch"} : Goto(t, place)
           \/ Goto(t, "learn") /\ \E entries : Insert(t, "settled", entries)
    <3> DEFINE entries == ReleaseEntries(Wallet(t), Settlement(job[t]))
    <3>1. ReleaseVerdict(entries) \in {"post", "empty", "unbalanced"}
      BY DEF ReleaseVerdict
    <3> QED
      BY <1>8, <3>1 DEF Release
  <2>2. rows[t] = Held
    BY <1>0, <2>1 DEF Fits, Locked
  <2>3. CASE rows' = rows
    BY <2>1, <2>2, <2>3, Moves DEF Fits, BeforeLock, Locked, Unmoved, Histories
  <2>4. CASE Goto(t, "learn") /\ \E entries : Insert(t, "settled", entries)
    BY <2>2, <2>4, Appends, Inserts DEF Fits, BeforeLock, Locked, Histories
  <2> QED
    BY <2>1, <2>3, <2>4
<1> QED
  BY <1>1, <1>2, <1>3, <1>4, <1>5, <1>6, <1>7, <1>8 DEF Step

\* Tasks start with nothing booked.
LEMMA RowsInitially == Init => RowsFitPlaces
BY DEF Init, RowsFitPlaces, Fits, BeforeLock, Locked, Histories, Nothing, Points, Over

\* Every step of the agent keeps the rows of all tasks fitting.
LEMMA RowsStep == RowsFitPlaces /\ [Next]_vars => RowsFitPlaces'
<1> SUFFICES ASSUME RowsFitPlaces, [Next]_vars PROVE RowsFitPlaces'
  OBVIOUS
<1>1. ASSUME NEW t \in Tasks, Poll(t) \/ Drop(t) \/ Step(t)
      PROVE  RowsFitPlaces'
  BY <1>1, HandlerSteps
<1>2. CASE pc' = pc /\ rows' = rows
  BY <1>2 DEF RowsFitPlaces
<1>3. CASE Die
  BY <1>3 DEF Die, RowsFitPlaces, Fits, BeforeLock, Locked, Points, Over
<1>4. CASE Midnight \/ Stop \/ DrainClean \/ DrainTimeout \/ Restart
           \/ (\E r \in Inbound : Refuse(r) \/ Admit(r) \/ Answer(r))
           \/ UNCHANGED vars
  BY <1>2, <1>4 DEF Midnight, Stop, DrainClean, DrainTimeout, Restart, Refuse,
                    Admit, Answer, vars, taskVars
<1> QED
  BY <1>1, <1>3, <1>4 DEF Next, Process, Exit, Crash

-----------------------------------------------------------------------------
\* The postings a handler makes.

Postings == [Accounts -> Int]

LEMMA RoundType == ASSUME NEW n \in Int PROVE round8(n) \in Int
<1>1. 2 * n + Scale \in Int /\ 2 * Scale \in Nat \ {0}
  BY ScaleAssumption
<1> QED
  BY <1>1 DEF round8

LEMMA PostingTypes ==
  ASSUME NEW w \in Wallets
  PROVE  /\ \A n \in Int : LockEntries(w, n) \in Postings /\ RefundEntries(w, n) \in Postings
         /\ \A s \in Amounts : ReleaseEntries(w, s) \in Postings
<1>1. ASSUME NEW n \in Int
      PROVE  LockEntries(w, n) \in Postings /\ RefundEntries(w, n) \in Postings
  <2> DEFINE m == round8(n)
  <2>1. m \in Int /\ -m \in Int
    BY RoundType
  <2>2. LockEntries(w, n) = [NoEntries EXCEPT !["escrow_pending"] = m, ![w] = -m]
    BY DEF LockEntries
  <2>3. RefundEntries(w, n) = [NoEntries EXCEPT !["escrow_pending"] = -m, ![w] = m]
    BY DEF RefundEntries
  <2>4. ASSUME NEW x \in Int, NEW y \in Int
        PROVE  [NoEntries EXCEPT !["escrow_pending"] = x, ![w] = y] \in Postings
    BY DEF NoEntries, Postings, Accounts, Wallets
  <2> HIDE DEF m
  <2> QED
    BY <2>1, <2>2, <2>3, <2>4
<1>2. ASSUME NEW s \in Amounts PROVE ReleaseEntries(w, s) \in Postings
  <2> DEFINE p == Unadjusted(w, "escrow_pending", Entry(round8(s.revenue)), s)
  <2>1. /\ round8(s.revenue) \in Int /\ round8(s.fee) \in Int
        /\ round8(s.cost) \in Int /\ round8(s.gas) \in Int
    BY RoundType DEF Amounts
  <2>2. p \in Postings
    BY <2>1 DEF Unadjusted, Net, Entry, NoEntries, Postings, Accounts, Wallets
  <2> HIDE DEF p
  <2>3. Diff(p) \in Int
    BY <2>2 DEF Diff, Postings, Accounts, Wallets
  <2>4. Adjusted(w, "escrow_pending", p) \in Postings
    BY <2>2, <2>3 DEF Adjusted, Postings, Accounts, Wallets
  <2> QED
    BY <2>4 DEF ReleaseEntries, p
<1> QED
  BY <1>1, <1>2

\* Rounding keeps an amount from turning negative.
LEMMA RoundNat == ASSUME NEW n \in Nat PROVE round8(n) \in Nat
<1>1. 2 * n + Scale \in Nat /\ 2 * Scale \in Nat \ {0}
  BY ScaleAssumption
<1>2. ASSUME NEW a \in Nat, NEW b \in Nat \ {0} PROVE a \div b \in Nat
  OBVIOUS
<1> QED
  BY <1>1, <1>2 DEF round8

\* More never rounds to less than something.
LEMMA RoundCounts ==
  ASSUME NEW m \in Nat, NEW n \in Nat, round8(n) > 0
  PROVE  round8(m + n) > 0
<1> DEFINE d == 2 * Scale
           a == 2 * n + Scale
           b == 2 * (m + n) + Scale
<1>1. d \in Nat \ {0} /\ a \in Nat /\ b \in Nat /\ a <= b
  BY ScaleAssumption
<1>2. round8(n) = a \div d /\ round8(m + n) = b \div d
  BY DEF round8
<1> HIDE DEF a, b, d
<1>3. a >= d
  <2>1. ASSUME a < d PROVE FALSE
    <3>1. a \div d = 0
      BY <1>1, <2>1
    <3> QED
      BY <1>2, <3>1
  <2> QED
    BY <1>1, <2>1
<1>4. b \div d \in Nat /\ b \div d # 0
  BY <1>1, <1>3
<1> QED
  BY <1>2, <1>4

NonNegative == [revenue : Nat, fee : Nat, cost : Nat, gas : Nat]

\* A release with a cost that counts is not skipped as empty.
LEMMA CostsAreBooked ==
  ASSUME NEW w \in Wallets, NEW s \in NonNegative, round8(s.cost) > 0
  PROVE  ReleaseVerdict(ReleaseEntries(w, s)) # "empty"
<1> DEFINE p == Unadjusted(w, "escrow_pending", Entry(round8(s.revenue)), s)
<1>1. p["execution_cost"] = Entry(round8(s.cost))
  BY DEF Unadjusted, NoEntries, Accounts, Wallets
<1>2. p["execution_cost"] # 0
  BY <1>1, RoundNat DEF Entry, NonNegative
<1>3. p = [a \in Accounts |-> p[a]]
  BY DEF Unadjusted, NoEntries
<1> HIDE DEF p
<1>4. Adjusted(w, "escrow_pending", p)["execution_cost"] = p["execution_cost"]
  BY <1>3 DEF Adjusted, Accounts, Wallets
<1>5. ReleaseEntries(w, s) = Adjusted(w, "escrow_pending", p)
  BY DEF ReleaseEntries, p
<1>6. NoEntries["execution_cost"] = 0
  BY DEF NoEntries, Accounts
<1>7. ReleaseEntries(w, s) # NoEntries
  BY <1>2, <1>4, <1>5, <1>6
<1> QED
  BY <1>7 DEF ReleaseVerdict

-----------------------------------------------------------------------------
\* Types.

LEMMA WalletType == ASSUME NEW t \in Tasks PROVE Wallet(t) \in Wallets
BY DEF Wallet, walletCodeFor, Wallets

Statuses == {"pending", "settled", "failed"}

LEMMA InsertType ==
  ASSUME TypeOK, NEW t \in Tasks, NEW status \in Statuses,
         NEW entries \in Postings, Insert(t, status, entries)
  PROVE  /\ rows' \in [Tasks -> Seq(Statuses)]
         /\ books' \in [Accounts -> Int]
<1>1. rows \in [Tasks -> Seq(Statuses)]
  BY DEF TypeOK, Statuses
<1>2. Append(rows[t], status) \in Seq(Statuses)
  BY <1>1
<1>3. rows' = [rows EXCEPT ![t] = Append(rows[t], status)]
  BY DEF Insert
<1>4. rows' \in [Tasks -> Seq(Statuses)]
  BY <1>1, <1>2, <1>3
<1>5. books' \in [Accounts -> Int]
  BY DEF Insert, Post, Postings, TypeOK
<1> QED
  BY <1>4, <1>5

\* The postings of the handler.
LEMMA RefundType ==
  ASSUME TypeOK, NEW t \in Tasks, Refund(t)
  PROVE  /\ rows' \in [Tasks -> Seq(Statuses)]
         /\ books' \in [Accounts -> Int]
<1>1. job[t].escrow \in Int
  BY DEF TypeOK, Jobs
<1>2. RefundEntries(Wallet(t), job[t].escrow) \in Postings
  BY <1>1, WalletType, PostingTypes
<1>3. CASE rows' = rows /\ books' = books
  BY <1>3 DEF TypeOK, Statuses
<1>4. CASE Insert(t, "failed", RefundEntries(Wallet(t), job[t].escrow))
  BY <1>2, <1>4, InsertType DEF Statuses
<1> QED
  BY <1>3, <1>4 DEF Refund

LEMMA LockType ==
  ASSUME TypeOK, NEW t \in Tasks, Lock(t)
  PROVE  /\ rows' \in [Tasks -> Seq(Statuses)]
         /\ books' \in [Accounts -> Int]
<1>1. job[t].escrow \in Int
  BY DEF TypeOK, Jobs
<1>2. LockEntries(Wallet(t), job[t].escrow) \in Postings
  BY <1>1, WalletType, PostingTypes
<1> QED
  BY <1>2, InsertType DEF Lock, Statuses

LEMMA ReleaseType ==
  ASSUME TypeOK, NEW t \in Tasks, Release(t)
  PROVE  /\ rows' \in [Tasks -> Seq(Statuses)]
         /\ books' \in [Accounts -> Int]
<1> DEFINE entries == ReleaseEntries(Wallet(t), Settlement(job[t]))
<1>1. Settlement(job[t]) \in Amounts
  BY DEF TypeOK, Jobs, Earnings, Settlement, Amounts
<1>2. entries \in Postings
  BY <1>1, WalletType, PostingTypes
<1>3. ReleaseVerdict(entries) \in {"post", "empty", "unbalanced"}
  BY DEF ReleaseVerdict
<1>4. Insert(t, "settled", entries) \/ (rows' = rows /\ books' = books)
  BY <1>3 DEF Release
<1> HIDE DEF entries
<1>5. CASE Insert(t, "settled", entries)
  BY <1>2, <1>5, InsertType DEF Statuses
<1>6. CASE rows' = rows /\ books' = books
  BY <1>6 DEF TypeOK, Statuses
<1> QED
  BY <1>4, <1>5, <1>6

\* Updating the locals of a handler, and the guard.
LEMMA JobType ==
  ASSUME TypeOK, NEW t \in Tasks, NEW j \in Jobs, job' = [job EXCEPT ![t] = j]
  PROVE  job' \in [Tasks -> Jobs]
BY DEF TypeOK

LEMMA JobUpdates ==
  ASSUME NEW j \in Jobs
  PROVE  /\ j.cost \in Nat /\ j.attempt \in Nat
         /\ \A m \in Nat : /\ [j EXCEPT !.escrow = m] \in Jobs
                           /\ [j EXCEPT !.bill = m] \in Jobs
                           /\ [j EXCEPT !.cost = m] \in Jobs
         /\ \A m, n \in Nat : /\ [j EXCEPT !.bill = m, !.cost = n] \in Jobs
                              /\ [j EXCEPT !.cost = m, !.attempt = n] \in Jobs
         /\ \A b \in BOOLEAN : [j EXCEPT !.fast = b] \in Jobs
         /\ \A b, c \in BOOLEAN : [j EXCEPT !.fast = b, !.a2a = c] \in Jobs
         /\ \A rec \in Earnings : [j EXCEPT !.receipt = rec] \in Jobs
BY DEF Jobs

LEMMA FinishType ==
  ASSUME TypeOK, NEW t \in Tasks, Finish(t)
  PROVE  /\ pc' \in [Tasks -> Points]
         /\ job' \in [Tasks -> Jobs]
         /\ inFlight' \subseteq Ids
<1>1. Blank \in Jobs
  BY DEF Blank, NoReceipt, Jobs, Earnings
<1>2. job[t] \in Jobs
  BY DEF TypeOK
<1>3. [Blank EXCEPT !.cost = job[t].cost] \in Jobs
  BY <1>1, <1>2, JobUpdates
<1>4. job' \in [Tasks -> Jobs]
  BY <1>3, JobType DEF Finish
<1> QED
  BY <1>4 DEF Finish, Goto, TypeOK, Points, Over

LEMMA GuardType ==
  ASSUME TypeOK
  PROVE  /\ UsedToday \in Nat
         /\ \A cost \in Nat : record(cost) => used' \in Nat /\ stale' \in BOOLEAN
         /\ Rollover => used' \in Nat /\ stale' \in BOOLEAN
<1>1. UsedToday \in Nat
  BY DEF TypeOK, UsedToday
<1>2. ASSUME NEW cost \in Nat, record(cost)
      PROVE  used' \in Nat /\ stale' \in BOOLEAN
  <2>1. used' = UsedToday + cost /\ stale' = FALSE
    BY <1>2 DEF record
  <2>2. used' \in Nat
    BY <1>1, <2>1
  <2> QED
    BY <2>1, <2>2
<1>3. ASSUME Rollover PROVE used' \in Nat /\ stale' \in BOOLEAN
  BY <1>1, <1>3 DEF Rollover
<1> QED
  BY <1>1, <1>2, <1>3

-----------------------------------------------------------------------------
(* What the adapters remember of the ids they yielded.                      *)

FeedTypes == seen \subseteq Keys /\ forgotten \in [Keys -> Nat]

\* Only a poll adds to it; the steps of a handler leave it alone.
LEMMA HandlersFeed ==
  ASSUME NEW t \in Tasks, Poll(t) \/ Drop(t) \/ Step(t)
  PROVE  \/ (Poll(t) \/ Drop(t)) /\ Yields(t)
         \/ Step(t) /\ UNCHANGED feed
<1>1. CASE Poll(t) \/ Drop(t)
  BY <1>1 DEF Poll, Drop
<1>2. CASE TriageThrows(t) \/ TriageDeclines(t) \/ TriageAccepts(t)
           \/ Reject(t) \/ RejectThrows(t) \/ Accept(t) \/ AcceptRefused(t)
           \/ AcceptThrows(t) \/ Lock(t) \/ LockFails(t) \/ LockReject(t)
  BY <1>2 DEF Step, TriageThrows, TriageDeclines, TriageAccepts, Reject, RejectThrows,
              Accept, AcceptRefused, AcceptThrows, Lock, LockFails, LockReject
<1>3. CASE System1(t) \/ A2A(t) \/ ExecuteEnds(t) \/ ExecuteAgain(t)
           \/ ExecutionThrows(t) \/ FailReject(t) \/ FailRefund(t) \/ Evolve(t)
           \/ Deliver(t) \/ DeliverThrows(t) \/ Release(t) \/ ReleaseThrows(t)
           \/ Catch(t) \/ FailLearn(t) \/ Learn(t)
  BY <1>3 DEF Step, System1, A2A, PeerDelivers, PeerFails, PeerAnswers, ExecuteEnds,
              ExecuteAgain, ExecutionThrows, FailReject, FailRefund, Evolve, Deliver,
              DeliverThrows, Release, ReleaseThrows, Catch, FailLearn, Learn
<1> QED
  BY <1>1, <1>2, <1>3 DEF Step

LEMMA YieldTypes ==
  ASSUME FeedTypes, NEW t \in Tasks, Yields(t) PROVE FeedTypes'
<1>1. Key(t) \in Keys
  BY DEF Keys
<1>2. forgotten[Key(t)] + 1 \in Nat
  BY <1>1 DEF FeedTypes
<1> QED
  BY <1>1, <1>2 DEF FeedTypes, Yields

\* The steps of a handler keep the types.
LEMMA HandlerTypes ==
  ASSUME TypeOK, NEW t \in Tasks, Poll(t) \/ Drop(t) \/ Step(t)
  PROVE  TypeOK'
<1> seen' \subseteq Keys /\ forgotten' \in [Keys -> Nat]
  BY HandlersFeed, YieldTypes DEF FeedTypes, TypeOK, feed
<1> USE AgentAssumption DEF TypeOK, Goto, Points, Over
<1>1. Blank \in Jobs /\ Statuses = {"pending", "settled", "failed"}
  BY DEF Blank, NoReceipt, Statuses, Jobs, Earnings
<1>2. CASE Drop(t)
  BY <1>1, <1>2 DEF Drop
<1>3. CASE TriageThrows(t)
  BY <1>1, <1>3 DEF TriageThrows
<1>4. CASE TriageDeclines(t)
  BY <1>1, <1>4 DEF TriageDeclines
<1>5. CASE Reject(t)
  <2>1. Finish(t)
    BY <1>5 DEF Reject
  <2> QED
    BY <1>5, <2>1, FinishType DEF Reject, Sets
<1>6. CASE RejectThrows(t)
  BY <1>1, <1>6 DEF RejectThrows, MaybeSets, Sets
<1>7. CASE Accept(t)
  BY <1>1, <1>7 DEF Accept, Sets
<1>8. CASE AcceptRefused(t)
  <2>1. Finish(t)
    BY <1>8 DEF AcceptRefused
  <2> QED
    BY <1>8, <2>1, FinishType DEF AcceptRefused
<1>9. CASE AcceptThrows(t)
  BY <1>1, <1>9 DEF AcceptThrows, MaybeSets, Sets
<1>10. CASE LockFails(t)
  BY <1>1, <1>10 DEF LockFails
<1>11. CASE LockReject(t)
  <2>1. Finish(t)
    BY <1>11 DEF LockReject
  <2> QED
    BY <1>11, <2>1, FinishType DEF LockReject, MaybeSets, Sets
<1>12. CASE System1(t)
  <2>1. \/ job' = [job EXCEPT ![t] = [job[t] EXCEPT !.bill = ToolCost]]
        \/ job' = [job EXCEPT ![t] = [job[t] EXCEPT !.fast = FALSE]]
    BY <1>12 DEF System1
  <2>2. /\ [job[t] EXCEPT !.bill = ToolCost] \in Jobs
        /\ [job[t] EXCEPT !.fast = FALSE] \in Jobs
    BY JobUpdates
  <2>3. job' \in [Tasks -> Jobs]
    BY <2>1, <2>2, JobType
  <2>4. used' \in Nat /\ stale' \in BOOLEAN
    BY <1>12, GuardType DEF System1
  <2>5. \E place \in {"deliver", "a2a", "execute"} : Goto(t, place)
    BY <1>12 DEF System1, System2
  <2> QED
    BY <1>12, <2>3, <2>4, <2>5 DEF System1
<1>13. CASE A2A(t)
  <2>1. PICK c \in Costs :
          record(c) /\ job' = [job EXCEPT ![t] = [job[t] EXCEPT !.bill = c]]
    BY <1>13 DEF A2A, PeerDelivers, PeerFails, PeerAnswers
  <2>2. [job[t] EXCEPT !.bill = c] \in Jobs
    BY JobUpdates
  <2>3. job' \in [Tasks -> Jobs] /\ used' \in Nat /\ stale' \in BOOLEAN
    BY <2>1, <2>2, JobType, GuardType
  <2>4. \E place \in {"deliver", "failReject"} : Goto(t, place)
    BY <1>13 DEF A2A, PeerDelivers, PeerFails, PeerAnswers
  <2> QED
    BY <1>13, <2>3, <2>4 DEF A2A, PeerDelivers, PeerFails, PeerAnswers
<1>14. CASE ExecuteEnds(t)
  <2>1. PICK c \in Costs :
          /\ record(job[t].cost + c)
          /\ job' = [job EXCEPT ![t] = [job[t] EXCEPT !.bill = job[t].cost + c,
                                                    !.cost = 0]]
    BY <1>14 DEF ExecuteEnds
  <2>2. job[t].cost + c \in Nat
    <3>1. job[t] \in Jobs /\ c \in Nat
      OBVIOUS
    <3>2. job[t].cost \in Nat /\ job[t].attempt \in Nat
      BY <3>1, JobUpdates
    <3> QED
      BY <3>1, <3>2
  <2>3. [job[t] EXCEPT !.bill = job[t].cost + c, !.cost = 0] \in Jobs
    BY <2>2, JobUpdates
  <2>4. job' \in [Tasks -> Jobs] /\ used' \in Nat /\ stale' \in BOOLEAN
    BY <2>1, <2>2, <2>3, JobType, GuardType
  <2>5. \E place \in {"deliver", "failReject"} : Goto(t, place)
    BY <1>14 DEF ExecuteEnds
  <2> QED
    BY <1>14, <2>4, <2>5 DEF ExecuteEnds
<1>15. CASE ExecuteAgain(t)
  <2>1. PICK c \in Costs :
          job' = [job EXCEPT ![t] = [job[t] EXCEPT !.cost = job[t].cost + c,
                                                  !.attempt = job[t].attempt + 1]]
    BY <1>15 DEF ExecuteAgain
  <2>2. job[t].cost + c \in Nat /\ job[t].attempt + 1 \in Nat
    <3>1. job[t] \in Jobs /\ c \in Nat
      OBVIOUS
    <3>2. job[t].cost \in Nat /\ job[t].attempt \in Nat
      BY <3>1, JobUpdates
    <3> QED
      BY <3>1, <3>2
  <2>3. [job[t] EXCEPT !.cost = job[t].cost + c,
                       !.attempt = job[t].attempt + 1] \in Jobs
    BY <2>2, JobUpdates
  <2>4. job' \in [Tasks -> Jobs]
    BY <2>1, <2>3, JobType
  <2> QED
    BY <1>15, <2>4 DEF ExecuteAgain
<1>16. CASE ExecutionThrows(t)
  BY <1>1, <1>16 DEF ExecutionThrows
<1>17. CASE FailReject(t)
  BY <1>1, <1>17 DEF FailReject, MaybeSets, Sets
<1>18. CASE FailLearn(t)
  <2>1. used' \in Nat /\ stale' \in BOOLEAN
    BY <1>18, GuardType DEF FailLearn, recordLearning, LearningEvent
  <2>2. learned' \in Nat
    <3>1. learned' = learned \/ learned' = learned + job[t].bill
      BY <1>18 DEF FailLearn, recordLearning, LearningEvent
    <3>2. job[t].bill \in Nat
      BY DEF Jobs
    <3> QED
      BY <3>1, <3>2
  <2>3. CASE job[t].a2a
    <3>1. Finish(t) /\ feedback' = feedback
      BY <1>18, <2>3 DEF FailLearn, recordLearning, LearningEvent
    <3> QED
      BY <1>18, <2>1, <2>2, <3>1, FinishType DEF FailLearn, recordLearning, LearningEvent
  <2>4. CASE ~job[t].a2a
    <3>1. /\ Goto(t, "evolve") /\ feedback' = [feedback EXCEPT ![t] = "failure"]
          /\ UNCHANGED <<job, inFlight>>
      BY <1>18, <2>4 DEF FailLearn, recordLearning, LearningEvent
    <3> QED
      BY <1>18, <2>1, <2>2, <3>1 DEF FailLearn, recordLearning, LearningEvent
  <2> QED
    BY <2>3, <2>4
<1>19. CASE Evolve(t)
  <2>1. Finish(t)
    BY <1>19 DEF Evolve
  <2> QED
    BY <1>19, <2>1, FinishType DEF Evolve
<1>20. CASE Deliver(t)
  <2>1. PICK rec \in Receipts :
          job' = [job EXCEPT ![t] = [job[t] EXCEPT !.receipt = rec]]
    BY <1>20 DEF Deliver
  <2>2. [job[t] EXCEPT !.receipt = rec] \in Jobs
    <3>1. job[t] \in Jobs /\ rec \in Earnings
      BY DEF Earnings
    <3> QED
      BY <3>1, JobUpdates
  <2>3. job' \in [Tasks -> Jobs]
    BY <2>1, <2>2, JobType
  <2> QED
    BY <1>20, <2>3 DEF Deliver, Sets
<1>21. CASE DeliverThrows(t)
  BY <1>1, <1>21 DEF DeliverThrows, MaybeSets, Sets
<1>22. CASE ReleaseThrows(t)
  BY <1>1, <1>22 DEF ReleaseThrows
<1>23. CASE Learn(t)
  <2>1. used' \in Nat /\ stale' \in BOOLEAN
    BY <1>23, GuardType DEF Learn, recordLearning, LearningEvent
  <2>2. learned' \in Nat
    <3>1. learned' = learned \/ learned' = learned + job[t].bill
      BY <1>23 DEF Learn, recordLearning, LearningEvent
    <3>2. job[t].bill \in Nat
      BY DEF Jobs
    <3> QED
      BY <3>1, <3>2
  <2>3. feedback' = feedback \/ feedback' = [feedback EXCEPT ![t] = "success"]
    BY <1>23 DEF Learn, recordLearning, LearningEvent
  <2>4. Finish(t)
    BY <1>23 DEF Learn, recordLearning, LearningEvent
  <2> QED
    BY <1>23, <2>1, <2>2, <2>3, <2>4, FinishType DEF Learn, recordLearning, LearningEvent
<1>24. CASE Poll(t)
  <2>1. PICK b \in Budgets :
          job' = [job EXCEPT ![t] = [job[t] EXCEPT !.escrow = b]]
    BY <1>24 DEF Poll
  <2>4. IdOf[t] \in Ids
    BY DEF Ids
  <2>2. [job[t] EXCEPT !.escrow = b] \in Jobs
    BY JobUpdates
  <2>3. job' \in [Tasks -> Jobs]
    BY <2>1, <2>2, JobType
  <2> QED
    BY <1>24, <2>3, <2>4 DEF Poll
<1>25. CASE TriageAccepts(t)
  <2>1. PICK fast \in BOOLEAN, a2a \in BOOLEAN :
          job' = [job EXCEPT ![t] = [job[t] EXCEPT !.fast = fast, !.a2a = a2a]]
    BY <1>25, ZenonT(40) DEF TriageAccepts
  <2>2. [job[t] EXCEPT !.fast = fast, !.a2a = a2a] \in Jobs
    BY JobUpdates
  <2>3. job' \in [Tasks -> Jobs]
    BY <2>1, <2>2, JobType
  <2>4. used' \in Nat /\ stale' \in BOOLEAN
    BY <1>25, GuardType DEF TriageAccepts
  <2>5. \E place \in {"reject", "accept"} : Goto(t, place)
    BY <1>25 DEF TriageAccepts
  <2> QED
    BY <1>25, <2>3, <2>4, <2>5 DEF TriageAccepts
<1>26. CASE Lock(t)
  <2>1. rows' \in [Tasks -> Seq(Statuses)] /\ books' \in [Accounts -> Int]
    BY <1>26, LockType
  <2> QED
    BY <1>1, <1>26, <2>1 DEF Lock, System2
<1>27. CASE FailRefund(t)
  <2>1. rows' \in [Tasks -> Seq(Statuses)] /\ books' \in [Accounts -> Int]
    BY <1>27, RefundType DEF FailRefund
  <2> QED
    BY <1>1, <1>27, <2>1 DEF FailRefund
<1>28. CASE Catch(t)
  <2>1. rows' \in [Tasks -> Seq(Statuses)] /\ books' \in [Accounts -> Int]
    BY <1>28, RefundType DEF Catch
  <2> QED
    BY <1>28, <2>1, FinishType DEF Catch, Statuses
<1>29. CASE Release(t)
  <2>1. rows' \in [Tasks -> Seq(Statuses)] /\ books' \in [Accounts -> Int]
    BY <1>29, ReleaseType
  <2>2. /\ Goto(t, "learn") \/ Goto(t, "catch")
        /\ UNCHANGED <<job, market, used, stale, learned, feedback, inFlight,
                       request, phase, restarts>>
    <3>1. ReleaseVerdict(ReleaseEntries(Wallet(t), Settlement(job[t])))
            \in {"post", "empty", "unbalanced"}
      BY DEF ReleaseVerdict
    <3> QED
      BY <1>29, <3>1 DEF Release
  <2> QED
    BY <1>1, <2>1, <2>2
<1> QED
  BY <1>2, <1>3, <1>4, <1>5, <1>6, <1>7, <1>8, <1>9, <1>10, <1>11, <1>12,
     <1>13, <1>14, <1>15, <1>16, <1>17, <1>18, <1>19, <1>20, <1>21, <1>22,
     <1>23, <1>24, <1>25, <1>26, <1>27, <1>28, <1>29 DEF Step

\* The initial types.
LEMMA TypesInitially == Init => TypeOK
<1> SUFFICES ASSUME Init PROVE TypeOK
  OBVIOUS
<1>1. Blank \in Jobs
  BY DEF Blank, NoReceipt, Jobs, Earnings
<1>2. <<>> \in Seq({"pending", "settled", "failed"})
  OBVIOUS
<1>3. books \in [Accounts -> Int]
  BY DEF Init, NoEntries
<1>4. MaxRestarts \in Nat
  BY AgentAssumption
<1> QED
  <2>1. pc \in [Tasks -> Points] /\ job \in [Tasks -> Jobs]
    BY <1>1 DEF Init, Points, Over
  <2>2. rows \in [Tasks -> Seq({"pending", "settled", "failed"})]
    BY <1>2 DEF Init
  <2>3. used \in Nat /\ learned \in Nat /\ stale \in BOOLEAN
    BY DEF Init
  <2>4. /\ restarts \in 0..MaxRestarts /\ inFlight \subseteq Ids
        /\ seen \subseteq Keys /\ forgotten \in [Keys -> Nat]
    BY <1>4 DEF Init
  <2> QED
    BY <1>3, <2>1, <2>2, <2>3, <2>4 DEF Init, TypeOK

\* Every step keeps the types.
LEMMA TypesStep == TypeOK /\ [Next]_vars => TypeOK'
<1> SUFFICES ASSUME TypeOK, [Next]_vars PROVE TypeOK'
  OBVIOUS
<1>1. ASSUME NEW t \in Tasks, Poll(t) \/ Drop(t) \/ Step(t)
      PROVE  TypeOK'
  BY <1>1, HandlerTypes
<1>7. ASSUME UNCHANGED feed \/ Die PROVE seen' \subseteq Keys /\ forgotten' \in [Keys -> Nat]
  <2>1. CASE UNCHANGED feed
    BY <2>1 DEF feed, TypeOK
  <2>2. CASE Die
    <3>1. ASSUME NEW k \in Keys PROVE forgotten[k] + (IF k \in seen THEN 1 ELSE 0) \in Nat
      BY DEF TypeOK
    <3> QED
      BY <2>2, <3>1 DEF Die
  <2> QED
    BY <1>7, <2>1, <2>2
<1> USE AgentAssumption, <1>7 DEF TypeOK, Ids
<1>2. CASE \E r \in Inbound : Refuse(r) \/ Admit(r) \/ Answer(r)
  BY <1>2, ZenonT(40) DEF Refuse, Admit, Answer, taskVars
<1>3. CASE Die
  <2>1. Blank \in Jobs
    BY DEF Blank, NoReceipt, Jobs, Earnings
  <2> QED
    BY <1>3, <2>1 DEF Die, Points, Over
<1>4. CASE Midnight \/ Stop \/ DrainClean \/ DrainTimeout
  <2>1. CASE Midnight
    BY <2>1 DEF Midnight
  <2>2. CASE Stop \/ DrainClean \/ DrainTimeout
    BY <2>2 DEF Stop, DrainClean, DrainTimeout, taskVars
  <2> QED
    BY <1>4, <2>1, <2>2
<1>6. CASE Restart
  <2>1. restarts' \in 0..MaxRestarts /\ used' \in Nat
    BY <1>6 DEF Restart
  <2> QED
    BY <1>6, <2>1 DEF Restart
<1>5. CASE UNCHANGED vars
  BY <1>5 DEF vars, taskVars
<1> QED
  BY <1>1, <1>2, <1>3, <1>4, <1>5, <1>6 DEF Next, Process, Exit, Crash

\* The variables keep their types: the guard's figures never turn negative, no
\* handler gets to a place that is not in the code, the books stay integers.
THEOREM AgentTypes == Spec => []TypeOK
BY TypesInitially, TypesStep, PTL DEF Spec

-----------------------------------------------------------------------------
(* What a handler's place says of the marketplace, the feedback and the     *)
(* money together.                                                          *)

\* Where the marketplace cannot have received anything yet.
Unreceived ==
  BeforeLock \cup {"system1", "a2a", "execute", "failReject", "failRefund",
                   "failLearn", "evolve", "deliver"}

Lockable(j) == AmountVerdict(j.escrow) = "post"

\* The costs of the local loop and the peers count, those of all executions count.
AllCostsCount == CostsCount /\ round8(ToolCost) > 0

\* With a ledger that accepts every write.
Reliable == ~LedgerMayFail

Agrees(place, history, status, opinion, j) ==
  /\ place \in Unreceived => status # "delivered"
  /\ place \in {"release", "learn"} => status = "delivered"
  /\ history = Settled => status = "delivered"
  /\ place \in {"failLearn", "evolve"} => history \in {Held, Refunded}
  /\ place \notin {"evolve", "done", "lost"} => opinion = "none"
  /\ opinion = "failure" => history # Settled
  /\ CostsCount /\ opinion = "success" => history = Settled
  /\ place = "system1" => j.fast
  /\ place \in {"deliver", "release"} /\ CostsCount /\ ~j.fast => round8(j.bill) > 0
  /\ place \in {"deliver", "release"} /\ AllCostsCount => round8(j.bill) > 0
  /\ place = "learn" /\ CostsCount /\ ~j.fast => history = Settled
  /\ place = "learn" /\ AllCostsCount => history = Settled
  /\ Reliable /\ place \in Locked \cup {"catch"} /\ history = Held => Lockable(j)
  /\ Reliable /\ place \in {"failLearn", "evolve"} => history = Refunded
  /\ Reliable /\ AllCostsCount /\ place = "done" => history # Held

MoneyAgrees ==
  /\ TypeOK
  /\ RowsFitPlaces
  /\ \A t \in Tasks : Agrees(pc[t], rows[t], market[t], feedback[t], job[t])

LEMMA HistoriesDiffer ==
  /\ Nothing # Held /\ Nothing # Stray /\ Nothing # Settled /\ Nothing # Refunded
  /\ Held # Stray /\ Held # Settled /\ Held # Refunded
  /\ Stray # Settled /\ Stray # Refunded /\ Settled # Refunded
BY DEF Nothing, Held, Stray, Settled, Refunded

\* What the updates of a handler's step do to its own task.
LEMMA Updates ==
  ASSUME TypeOK, NEW t \in Tasks
  PROVE  /\ \A p : Goto(t, p) => pc'[t] = p
         /\ \A m : Sets(t, m) => market'[t] = m
         /\ \A m : MaybeSets(t, m) => market'[t] \in {market[t], m}
         /\ \A m, e : Insert(t, m, e) => rows'[t] = Append(rows[t], m)
         /\ Finish(t) => pc'[t] = "done"
BY DEF TypeOK, Goto, Sets, MaybeSets, Insert, Finish

\* A step of one handler leaves the other tasks alone.
LEMMA Elsewhere ==
  ASSUME TypeOK, NEW t \in Tasks, Poll(t) \/ Drop(t) \/ Step(t),
         NEW u \in Tasks, u # t
  PROVE  /\ pc'[u] = pc[u] /\ rows'[u] = rows[u] /\ market'[u] = market[u]
         /\ feedback'[u] = feedback[u] /\ job'[u] = job[u]
<1> USE DEF TypeOK, Goto, Finish, Sets, MaybeSets
<1>1. CASE Poll(t) \/ Drop(t) \/ TriageThrows(t) \/ TriageDeclines(t)
           \/ TriageAccepts(t) \/ Reject(t) \/ RejectThrows(t)
  BY <1>1 DEF Poll, Drop, TriageThrows, TriageDeclines, TriageAccepts, Reject,
              RejectThrows
<1>2. CASE Accept(t) \/ AcceptRefused(t) \/ AcceptThrows(t) \/ LockFails(t)
           \/ LockReject(t)
  BY <1>2 DEF Accept, AcceptRefused, AcceptThrows, LockFails, LockReject
<1>3. CASE Lock(t)
  BY <1>3 DEF Lock, Insert
<1>4. CASE System1(t) \/ A2A(t) \/ ExecuteEnds(t) \/ ExecuteAgain(t)
           \/ ExecutionThrows(t)
  BY <1>4 DEF System1, A2A, PeerDelivers, PeerFails, PeerAnswers, ExecuteEnds,
              ExecuteAgain, ExecutionThrows
<1>5. CASE FailReject(t) \/ Evolve(t) \/ Deliver(t) \/ DeliverThrows(t)
           \/ ReleaseThrows(t)
  BY <1>5 DEF FailReject, Evolve, Deliver, DeliverThrows, ReleaseThrows
<1>6. CASE FailRefund(t)
  BY <1>6 DEF FailRefund, Refund, Insert
<1>7. CASE Catch(t)
  BY <1>7 DEF Catch, Refund, Insert
<1>8. CASE FailLearn(t)
  BY <1>8 DEF FailLearn, recordLearning, LearningEvent
<1>9. CASE Learn(t)
  BY <1>9 DEF Learn, recordLearning, LearningEvent
<1>10. CASE Release(t)
  <2>1. ReleaseVerdict(ReleaseEntries(Wallet(t), Settlement(job[t])))
          \in {"post", "empty", "unbalanced"}
    BY DEF ReleaseVerdict
  <2>2. /\ rows' = rows \/ \E e : Insert(t, "settled", e)
        /\ \E place \in Points : Goto(t, place)
        /\ UNCHANGED <<job, market, feedback>>
    BY <1>10, <2>1 DEF Release, Points
  <2> QED
    BY <2>2 DEF Insert
<1> QED
  BY <1>1, <1>2, <1>3, <1>4, <1>5, <1>6, <1>7, <1>8, <1>9, <1>10 DEF Step

\* The task of the handler that steps, before and after.
Agreeing(t) == Agrees(pc[t], rows[t], market[t], feedback[t], job[t])

\* Before the lock: nothing is booked, and the marketplace has received nothing.
LEMMA EarlySteps ==
  ASSUME MoneyAgrees, NEW t \in Tasks,
         \/ Poll(t) \/ Drop(t) \/ TriageThrows(t) \/ TriageDeclines(t)
         \/ TriageAccepts(t) \/ Reject(t) \/ RejectThrows(t)
         \/ Accept(t) \/ AcceptRefused(t) \/ AcceptThrows(t)
         \/ LockFails(t) \/ LockReject(t)
  PROVE  Agreeing(t)'
<1>1. /\ pc[t] \in BeforeLock /\ rows' = rows /\ feedback' = feedback
      /\ pc'[t] \in BeforeLock \cup {"catch", "done"}
      /\ market'[t] \in {market[t], "accepted", "rejected"}
  <2> USE Updates DEF MoneyAgrees, BeforeLock
  <2>1. CASE Poll(t) \/ Drop(t) \/ TriageThrows(t) \/ TriageDeclines(t)
             \/ TriageAccepts(t)
    BY <2>1 DEF Poll, Drop, TriageThrows, TriageDeclines, TriageAccepts
  <2>2. CASE Reject(t) \/ RejectThrows(t) \/ Accept(t) \/ AcceptRefused(t)
             \/ AcceptThrows(t) \/ LockFails(t) \/ LockReject(t)
    BY <2>2 DEF Reject, RejectThrows, Accept, AcceptRefused, AcceptThrows,
                LockFails, LockReject
  <2> QED
    BY <2>1, <2>2
<1>2. rows[t] = Nothing /\ Agreeing(t)
  BY <1>1 DEF MoneyAgrees, RowsFitPlaces, Fits, Agreeing
<1> QED
  BY <1>1, <1>2, HistoriesDiffer
  DEF Agreeing, Agrees, BeforeLock, Locked, Unreceived

\* The lock, the executions and their failure: the lock is held, nothing received.
LEMMA HeldSteps ==
  ASSUME MoneyAgrees, NEW t \in Tasks,
         \/ ExecuteAgain(t) \/ ExecutionThrows(t) \/ FailReject(t)
         \/ DeliverThrows(t) \/ ReleaseThrows(t)
  PROVE  Agreeing(t)'
<1>1. /\ pc[t] \in Locked /\ rows' = rows /\ feedback' = feedback
      /\ market'[t] \in {"delivered", "rejected", market[t]}
      /\ \/ pc'[t] = "catch"
         \/ /\ pc[t] = "execute" /\ pc'[t] = "execute" /\ market' = market
         \/ /\ pc[t] = "failReject" /\ pc'[t] = "failRefund"
            /\ market'[t] \in {market[t], "rejected"}
  BY Updates DEF MoneyAgrees, Locked, ExecuteAgain, ExecutionThrows, FailReject,
                 DeliverThrows, ReleaseThrows
<1>2. job'[t].escrow = job[t].escrow
  BY DEF MoneyAgrees, TypeOK, Jobs, ExecuteAgain, ExecutionThrows, FailReject,
         DeliverThrows, ReleaseThrows
<1>3. rows[t] = Held /\ Agreeing(t)
  BY <1>1 DEF MoneyAgrees, RowsFitPlaces, Fits, Agreeing
<1> QED
  BY <1>1, <1>2, <1>3, HistoriesDiffer
  DEF Agreeing, Agrees, BeforeLock, Locked, Unreceived, Lockable

LEMMA LockStep ==
  ASSUME MoneyAgrees, NEW t \in Tasks, Lock(t)
  PROVE  Agreeing(t)'
<1>1. /\ pc[t] = "lock" /\ job' = job /\ market' = market /\ feedback' = feedback
      /\ rows'[t] = Append(rows[t], "pending") /\ Lockable(job[t])
      /\ pc'[t] \in {"system1", "a2a", "execute"}
      /\ pc'[t] = "system1" => job[t].fast
  BY Updates DEF MoneyAgrees, Lock, System2, Lockable
<1>2. rows'[t] = Held /\ Agreeing(t)
  BY <1>1, Appends DEF MoneyAgrees, RowsFitPlaces, Fits, Agreeing, BeforeLock
<1> QED
  BY <1>1, <1>2, HistoriesDiffer DEF Agreeing, Agrees, BeforeLock, Locked, Unreceived

\* The executions: what is delivered has a bill.
LEMMA ExecutionSteps ==
  ASSUME MoneyAgrees, NEW t \in Tasks, System1(t) \/ A2A(t) \/ ExecuteEnds(t)
  PROVE  Agreeing(t)'
<1> DEFINE Billed ==
      /\ CostsCount /\ ~job'[t].fast => round8(job'[t].bill) > 0
      /\ AllCostsCount => round8(job'[t].bill) > 0
<1>0. job[t] \in Jobs
  BY DEF MoneyAgrees, TypeOK
<1>1. /\ pc[t] \in {"system1", "a2a", "execute"}
      /\ rows' = rows /\ feedback' = feedback /\ market' = market
      /\ pc'[t] \in {"deliver", "a2a", "execute", "failReject"}
  BY Updates DEF MoneyAgrees, System1, System2, A2A, PeerDelivers, PeerFails,
                 PeerAnswers, ExecuteEnds
<1>2. /\ job'[t].escrow = job[t].escrow
      /\ pc'[t] = "deliver" => Billed
  <2>1. CASE System1(t)
    <3>1. job[t].fast
      BY <2>1 DEF System1, MoneyAgrees, Agrees
    <3>2. CASE job' = [job EXCEPT ![t] = [job[t] EXCEPT !.bill = ToolCost]]
      BY <1>0, <3>1, <3>2 DEF MoneyAgrees, TypeOK, Jobs, AllCostsCount
    <3>3. CASE /\ pc'[t] \in {"a2a", "execute"}
               /\ job' = [job EXCEPT ![t] = [job[t] EXCEPT !.fast = FALSE]]
      BY <1>0, <3>3 DEF MoneyAgrees, TypeOK, Jobs
    <3> QED
      BY <2>1, <3>2, <3>3, Updates DEF System1, System2, MoneyAgrees
  <2>2. CASE A2A(t)
    <3>1. PICK c \in Costs : job' = [job EXCEPT ![t] = [job[t] EXCEPT !.bill = c]]
      BY <2>2 DEF A2A, PeerDelivers, PeerFails, PeerAnswers
    <3>2. job'[t].bill = c /\ job'[t].escrow = job[t].escrow
      BY <1>0, <3>1 DEF MoneyAgrees, TypeOK, Jobs
    <3> QED
      BY <3>2 DEF CostsCount, AllCostsCount
  <2>3. CASE ExecuteEnds(t)
    <3>1. PICK c \in Costs :
            job' = [job EXCEPT ![t] = [job[t] EXCEPT !.bill = job[t].cost + c,
                                                     !.cost = 0]]
      BY <2>3 DEF ExecuteEnds
    <3>2. job'[t].bill = job[t].cost + c /\ job'[t].escrow = job[t].escrow
      BY <1>0, <3>1 DEF MoneyAgrees, TypeOK, Jobs
    <3>3. job[t].cost \in Nat /\ c \in Nat
      BY <1>0, AgentAssumption DEF Jobs
    <3>4. round8(c) > 0 => round8(job[t].cost + c) > 0
      BY <3>3, RoundCounts
    <3> QED
      BY <3>2, <3>4 DEF CostsCount, AllCostsCount
  <2> QED
    BY <2>1, <2>2, <2>3
<1>3. rows[t] = Held /\ Agreeing(t)
  BY <1>1 DEF MoneyAgrees, RowsFitPlaces, Fits, Agreeing, Locked
<1> QED
  BY <1>1, <1>2, <1>3, HistoriesDiffer
  DEF Agreeing, Agrees, BeforeLock, Locked, Unreceived, Lockable

\* A refund that the ledger cannot fail is made, when there is something to refund.
LEMMA RefundsHeld ==
  ASSUME MoneyAgrees, NEW t \in Tasks, Refund(t)
  PROVE  /\ \/ rows'[t] = rows[t]
            \/ rows'[t] = Append(rows[t], "failed")
         /\ Reliable /\ Lockable(job[t]) => rows'[t] = Append(rows[t], "failed")
BY Updates DEF MoneyAgrees, Refund, Reliable, Lockable, AmountVerdict

\* The work failed: it is refunded, and blamed.
LEMMA FailureSteps ==
  ASSUME MoneyAgrees, NEW t \in Tasks, FailRefund(t) \/ FailLearn(t) \/ Evolve(t)
  PROVE  Agreeing(t)'
<1>0. Agreeing(t) /\ Fits(pc[t], rows[t])
  BY DEF MoneyAgrees, RowsFitPlaces, Agreeing
<1>1. CASE FailRefund(t)
  <2>1. /\ pc[t] = "failRefund" /\ pc'[t] = "failLearn" /\ rows[t] = Held
        /\ UNCHANGED <<job, market, feedback>>
    BY <1>0, <1>1, Updates DEF FailRefund, MoneyAgrees, Fits, Locked
  <2>2. /\ rows'[t] \in {Held, Refunded}
        /\ Reliable => rows'[t] = Refunded
    BY <1>0, <1>1, <2>1, RefundsHeld, Appends
    DEF FailRefund, Agreeing, Agrees, Locked
  <2> QED
    BY <1>0, <2>1, <2>2, HistoriesDiffer
    DEF Agreeing, Agrees, BeforeLock, Locked, Unreceived
<1>2. CASE FailLearn(t) \/ Evolve(t)
  <2>1. /\ pc[t] \in {"failLearn", "evolve"} /\ rows' = rows /\ market' = market
        /\ pc'[t] \in {"evolve", "done"}
        /\ feedback'[t] \in {feedback[t], "failure"}
    BY <1>2, Updates DEF FailLearn, recordLearning, LearningEvent, Evolve, MoneyAgrees, TypeOK
  <2> QED
    BY <1>0, <2>1, HistoriesDiffer
    DEF Agreeing, Agrees, BeforeLock, Locked, Unreceived
<1> QED
  BY <1>1, <1>2

\* The work is received, settled and praised.
LEMMA SuccessSteps ==
  ASSUME MoneyAgrees, NEW t \in Tasks, Deliver(t) \/ Release(t) \/ Learn(t)
  PROVE  Agreeing(t)'
<1>0. Agreeing(t) /\ Fits(pc[t], rows[t]) /\ job[t] \in Jobs
  BY DEF MoneyAgrees, RowsFitPlaces, Agreeing, TypeOK
<1>1. CASE Deliver(t)
  <2>1. PICK rec \in Receipts :
          job' = [job EXCEPT ![t] = [job[t] EXCEPT !.receipt = rec]]
    BY <1>1 DEF Deliver
  <2>2. /\ job'[t].escrow = job[t].escrow /\ job'[t].fast = job[t].fast
        /\ job'[t].bill = job[t].bill
    BY <1>0, <2>1 DEF MoneyAgrees, TypeOK, Jobs
  <2>3. /\ pc[t] = "deliver" /\ pc'[t] = "release" /\ market'[t] = "delivered"
        /\ UNCHANGED <<rows, feedback>>
    BY <1>1, Updates DEF Deliver, MoneyAgrees
  <2> QED
    BY <1>0, <2>2, <2>3, HistoriesDiffer
    DEF Agreeing, Agrees, Fits, BeforeLock, Locked, Unreceived, Lockable
<1>2. CASE Release(t)
  <2> DEFINE entries == ReleaseEntries(Wallet(t), Settlement(job[t]))
  <2>1. ReleaseVerdict(entries) \in {"post", "empty", "unbalanced"}
    BY DEF ReleaseVerdict
  <2>2. round8(job[t].bill) > 0 => ReleaseVerdict(entries) # "empty"
    <3>1. Settlement(job[t]) \in NonNegative /\ Settlement(job[t]).cost = job[t].bill
      BY <1>0 DEF Jobs, Earnings, Settlement, NonNegative
    <3> QED
      BY <3>1, WalletType, CostsAreBooked
  <2>3. /\ pc[t] = "release" /\ rows[t] = Held
        /\ UNCHANGED <<job, market, feedback>>
    BY <1>0, <1>2 DEF Release, Fits, Locked
  <2>4. \/ ReleaseVerdict(entries) = "post" /\ pc'[t] = "learn" /\ rows'[t] = Settled
        \/ ReleaseVerdict(entries) = "empty" /\ pc'[t] = "learn" /\ rows' = rows
        \/ pc'[t] = "catch" /\ rows' = rows
    <3>1. \/ ReleaseVerdict(entries) = "post" /\ Goto(t, "learn")
             /\ Insert(t, "settled", entries)
          \/ ReleaseVerdict(entries) = "empty" /\ Goto(t, "learn") /\ rows' = rows
          \/ Goto(t, "catch") /\ rows' = rows
      BY <1>2, <2>1 DEF Release
    <3> HIDE DEF entries
    <3> QED
      BY <2>3, <3>1, Updates, Appends DEF MoneyAgrees
  <2> HIDE DEF entries
  <2> QED
    BY <1>0, <2>2, <2>3, <2>4, HistoriesDiffer
    DEF Agreeing, Agrees, BeforeLock, Locked, Unreceived
<1>3. CASE Learn(t)
  <2>1. /\ pc[t] = "learn" /\ pc'[t] = "done" /\ rows' = rows /\ market' = market
        /\ \/ feedback'[t] = feedback[t]
           \/ feedback'[t] = "success" /\ ~job[t].fast
    BY <1>3, Updates DEF Learn, recordLearning, LearningEvent, MoneyAgrees, TypeOK
  <2> QED
    BY <1>0, <2>1, HistoriesDiffer DEF Agreeing, Agrees, BeforeLock, Locked, Unreceived
<1> QED
  BY <1>1, <1>2, <1>3

\* The outer catch: what is held is refunded, and blamed.
LEMMA CatchStep ==
  ASSUME MoneyAgrees, NEW t \in Tasks, Catch(t)
  PROVE  Agreeing(t)'
<1>0. Agreeing(t) /\ Fits(pc[t], rows[t])
  BY DEF MoneyAgrees, RowsFitPlaces, Agreeing
<1>1. /\ pc[t] = "catch" /\ pc'[t] = "done" /\ feedback'[t] = "failure"
      /\ market' = market /\ rows[t] \in {Nothing, Held}
  BY <1>0, Updates DEF Catch, MoneyAgrees, TypeOK, Fits, Unmoved
<1>2. /\ rows'[t] \in {Nothing, Held, Stray, Refunded}
      /\ Reliable => rows'[t] # Held
  BY <1>0, <1>1, RefundsHeld, Appends, HistoriesDiffer DEF Catch, Agreeing, Agrees
<1> QED
  BY <1>0, <1>1, <1>2, HistoriesDiffer
  DEF Agreeing, Agrees, BeforeLock, Locked, Unreceived

\* Tasks start with nothing booked, received or said.
LEMMA AgreementInitially == Init => MoneyAgrees
<1> SUFFICES ASSUME Init PROVE MoneyAgrees
  OBVIOUS
<1>1. ASSUME NEW t \in Tasks PROVE Agreeing(t)
  <2>1. pc[t] = "offered" /\ rows[t] = Nothing /\ market[t] = "open"
        /\ feedback[t] = "none"
    BY DEF Init, Nothing
  <2> QED
    BY <2>1, HistoriesDiffer DEF Agreeing, Agrees, BeforeLock, Locked, Unreceived
<1> QED
  BY <1>1, TypesInitially, RowsInitially DEF MoneyAgrees, Agreeing

\* Every step of the agent keeps places, money, marketplace and feedback agreed.
LEMMA AgreementStep == MoneyAgrees /\ [Next]_vars => MoneyAgrees'
<1> SUFFICES ASSUME MoneyAgrees, [Next]_vars PROVE MoneyAgrees'
  OBVIOUS
<1>1. TypeOK' /\ RowsFitPlaces'
  BY TypesStep, RowsStep DEF MoneyAgrees
<1>2. SUFFICES ASSUME NEW u \in Tasks PROVE Agreeing(u)'
  BY <1>1 DEF MoneyAgrees, Agreeing
<1>3. Agreeing(u)
  BY DEF MoneyAgrees, Agreeing
<1>4. ASSUME NEW t \in Tasks, Poll(t) \/ Drop(t) \/ Step(t) PROVE Agreeing(u)'
  <2>1. CASE u = t
    BY <1>4, <2>1, EarlySteps, HeldSteps, LockStep, ExecutionSteps, FailureSteps,
       SuccessSteps, CatchStep DEF Step
  <2>2. CASE u # t
    <3>1. /\ pc'[u] = pc[u] /\ rows'[u] = rows[u] /\ market'[u] = market[u]
          /\ feedback'[u] = feedback[u] /\ job'[u] = job[u]
      BY <1>4, <2>2, Elsewhere DEF MoneyAgrees
    <3> QED
      BY <1>3, <3>1 DEF Agreeing
  <2> QED
    BY <2>1, <2>2
<1>5. CASE pc' = pc /\ rows' = rows /\ market' = market /\ feedback' = feedback
           /\ job' = job
  BY <1>3, <1>5 DEF Agreeing
<1>6. CASE Die
  <2>1. /\ rows' = rows /\ market' = market /\ feedback' = feedback
        /\ \/ (Active(u) \/ pc[u] = "dropped") /\ pc'[u] = "lost"
           \/ pc'[u] = pc[u] /\ pc[u] \in Over
    BY <1>6 DEF Die, Active
  <2> QED
    BY <1>3, <2>1 DEF Agreeing, Agrees, BeforeLock, Locked, Unreceived, Over
<1>7. CASE \/ Midnight \/ Stop \/ DrainClean \/ DrainTimeout \/ Restart
           \/ (\E r \in Inbound : Refuse(r) \/ Admit(r) \/ Answer(r))
           \/ UNCHANGED vars
  BY <1>5, <1>7 DEF Midnight, Stop, DrainClean, DrainTimeout, Restart, Refuse,
                    Admit, Answer, vars, taskVars
<1> QED
  BY <1>4, <1>6, <1>7 DEF Next, Process, Exit, Crash

\* The rows of a task, read as the properties read them.
LEMMA RowsRead ==
  ASSUME RowsFitPlaces, NEW t \in Tasks
  PROVE  /\ HasRow(t, "settled") <=> rows[t] = Settled
         /\ HasRow(t, "pending") <=> rows[t] \in {Held, Settled, Refunded}
         /\ HasRow(t, "failed") <=> rows[t] \in {Stray, Refunded}
<1>1. rows[t] \in Histories
  BY DEF RowsFitPlaces
<1> QED
  BY <1>1, HistoriesDiffer
  DEF HasRow, Histories, Nothing, Held, Stray, Settled, Refunded

\* Revenue is booked only for what the marketplace received.
THEOREM OnlyDeliveriesSettle == Spec => []SettledWasDelivered
<1>1. MoneyAgrees => SettledWasDelivered
  BY RowsRead DEF MoneyAgrees, Agrees, SettledWasDelivered
<1> QED
  BY <1>1, AgreementInitially, AgreementStep, PTL DEF Spec

\* Praise and blame go the way of the money, wherever the process dies.
THEOREM FeedbackIsEarned == Spec => []FeedbackFollowsMoney
<1>1. MoneyAgrees => FeedbackFollowsMoney
  BY RowsRead, HistoriesDiffer DEF MoneyAgrees, Agrees, FeedbackFollowsMoney
<1> QED
  BY <1>1, AgreementInitially, AgreementStep, PTL DEF Spec

\* With a ledger that accepts every write, no handler ends with its lock held.
THEOREM LocksResolve == Spec => []LocksAreResolved
<1>1. MoneyAgrees => LocksAreResolved
  BY RowsRead, HistoriesDiffer
  DEF MoneyAgrees, Agrees, LocksAreResolved, Reliable, AllCostsCount
<1> QED
  BY <1>1, AgreementInitially, AgreementStep, PTL DEF Spec

\* No step takes back what the marketplace received: rejects are sent before.
THEOREM DeliveriesStay == Spec => DeliveryIsFinal
<1> DEFINE Keeps == \A t \in Tasks : market[t] = "delivered" => market'[t] = "delivered"
<1>1. MoneyAgrees /\ [Next]_vars => [Keeps]_vars
  <2> SUFFICES ASSUME MoneyAgrees, [Next]_vars, NEW u \in Tasks,
                      market[u] = "delivered"
               PROVE  market'[u] = "delivered"
    OBVIOUS
  <2>1. Agreeing(u)
    BY DEF MoneyAgrees, Agreeing
  <2>2. pc[u] \notin Unreceived
    BY <2>1 DEF Agreeing, Agrees
  <2>3. ASSUME NEW t \in Tasks, Poll(t) \/ Drop(t) \/ Step(t)
        PROVE  market'[u] = "delivered"
    <3>1. CASE u = t
      <4>1. \/ ReleaseThrows(t) \/ Release(t) \/ Learn(t) \/ Catch(t)
        BY <2>2, <2>3, <3>1
        DEF Poll, Drop, Step, TriageThrows, TriageDeclines, TriageAccepts, Reject,
            RejectThrows, Accept, AcceptRefused, AcceptThrows, Lock, LockFails,
            LockReject, System1, A2A, PeerDelivers, PeerFails, PeerAnswers,
            ExecuteEnds, ExecuteAgain, ExecutionThrows, FailReject, FailRefund,
            FailLearn, Evolve, Deliver, DeliverThrows, Unreceived, BeforeLock
      <4> QED
        BY <4>1 DEF ReleaseThrows, Release, Learn, Catch
    <3>2. CASE u # t
      BY <2>3, <3>2, Elsewhere DEF MoneyAgrees
    <3> QED
      BY <3>1, <3>2
  <2>4. CASE \/ Midnight \/ Stop \/ DrainClean \/ DrainTimeout \/ Restart \/ Die
             \/ (\E r \in Inbound : Refuse(r) \/ Admit(r) \/ Answer(r))
             \/ UNCHANGED vars
    BY <2>4 DEF Midnight, Stop, DrainClean, DrainTimeout, Restart, Die, Refuse,
                Admit, Answer, vars, taskVars
  <2> QED
    BY <2>3, <2>4 DEF Next, Process, Exit, Crash
<1> QED
  BY <1>1, AgreementInitially, AgreementStep, PTL DEF Spec, DeliveryIsFinal

-----------------------------------------------------------------------------
(* A task is taken once, and once more for every time it was forgotten.     *)

Taken(k) == {t \in Tasks : Key(t) = k /\ pc[t] # "offered"}

Remembered(k) == IF k \in seen THEN 1 ELSE 0

TakenAsForgotten ==
  /\ TypeOK
  /\ RowsFitPlaces
  /\ \A k \in Keys : Cardinality(Taken(k)) <= forgotten[k] + Remembered(k)

LEMMA TakenStep ==
  ASSUME IsFiniteSet(Tasks)
  PROVE  TakenAsForgotten /\ [Next]_vars => TakenAsForgotten'
<1> SUFFICES ASSUME TakenAsForgotten, [Next]_vars PROVE TakenAsForgotten'
  OBVIOUS
<1>1. TypeOK /\ TypeOK' /\ RowsFitPlaces'
  BY TypesStep, RowsStep DEF TakenAsForgotten
<1>2. SUFFICES ASSUME NEW k \in Keys
               PROVE  Cardinality(Taken(k)') <= forgotten'[k] + Remembered(k)'
  BY <1>1 DEF TakenAsForgotten
<1>3. PICK n, f, g : /\ n = Cardinality(Taken(k)) /\ f = forgotten[k] /\ g = forgotten'[k]
                     /\ n \in Nat /\ f \in Nat /\ g \in Nat /\ n <= f + Remembered(k)
  <2>1. IsFiniteSet(Taken(k))
    BY FS_Subset DEF Taken
  <2>2. Cardinality(Taken(k)) \in Nat
    BY <2>1, FS_CardinalityType
  <2> QED
    BY <1>1, <2>2 DEF TakenAsForgotten, TypeOK
<1>4. ASSUME Taken(k)' \subseteq Taken(k), f + Remembered(k) <= g + Remembered(k)'
      PROVE  Cardinality(Taken(k)') <= g + Remembered(k)'
  <2>1. IsFiniteSet(Taken(k))
    BY FS_Subset DEF Taken
  <2>2. IsFiniteSet(Taken(k)') /\ Cardinality(Taken(k)') <= n
    BY <1>3, <1>4, <2>1, FS_Subset
  <2>3. Cardinality(Taken(k)') \in Nat
    BY <2>2, FS_CardinalityType
  <2> QED
    BY <1>3, <1>4, <2>2, <2>3 DEF Remembered
<1>5. ASSUME NEW t \in Tasks, Step(t), UNCHANGED feed PROVE g = f /\ Taken(k)' \subseteq Taken(k)
  <2>1. pc[t] # "offered"
    BY <1>5 DEF Step, TriageThrows, TriageDeclines, TriageAccepts, Reject,
     RejectThrows, Accept, AcceptRefused, AcceptThrows, Lock, LockFails, LockReject, System1,
     A2A, PeerDelivers, PeerFails, PeerAnswers, ExecuteEnds, ExecuteAgain, ExecutionThrows,
     FailReject, FailRefund, FailLearn, Evolve, Deliver, DeliverThrows, Release,
     ReleaseThrows, Learn, Catch
  <2>2. \A u \in Tasks : u # t => pc'[u] = pc[u]
    BY <1>1, <1>5, Elsewhere
  <2> QED
    BY <1>3, <1>5, <2>1, <2>2 DEF Taken, feed, Key
<1>6. ASSUME NEW t \in Tasks, Poll(t) \/ Drop(t), Yields(t)
      PROVE  Cardinality(Taken(k)') <= g + Remembered(k)'
  <2>0. PICK l \in Keys : /\ l = Key(t) /\ seen' = seen \cup {l}
                          /\ \/ l \notin seen /\ forgotten' = forgotten
                             \/ l \in seen /\ forgotten' = [forgotten EXCEPT ![l] = @ + 1]
    BY <1>6 DEF Yields, Keys
  <2> forgotten \in [Keys -> Nat]
    BY <1>1 DEF TypeOK
  <2>1. \A u \in Tasks : u # t => pc'[u] = pc[u]
    BY <1>1, <1>6, Elsewhere
  <2>2. CASE Key(t) # k
    <3>1. Taken(k)' \subseteq Taken(k)
      BY <2>1, <2>2 DEF Taken, Key
    <3>2. g = f /\ Remembered(k)' = Remembered(k)
      BY <1>3, <2>0, <2>2 DEF Remembered
    <3> QED
      BY <1>3, <1>4, <3>1, <3>2 DEF Remembered
  <2>3. CASE Key(t) = k
    <3>1. Remembered(k)' = 1 /\ g = f + Remembered(k)
      BY <1>3, <2>0, <2>3 DEF Remembered
    <3>2. PICK S : S = Taken(k) /\ IsFiniteSet(S)
      BY FS_Subset DEF Taken
    <3>3. Taken(k)' \subseteq S \cup {t}
      BY <2>1, <3>2 DEF Taken, Key
    <3>4. IsFiniteSet(S \cup {t}) /\ Cardinality(S \cup {t}) \in {n, n + 1}
      BY <1>3, <3>2, FS_AddElement
    <3>5. IsFiniteSet(Taken(k)') /\ Cardinality(Taken(k)') <= Cardinality(S \cup {t})
      BY <3>3, <3>4, FS_Subset
    <3>6. Cardinality(Taken(k)') \in Nat
      BY <3>5, FS_CardinalityType
    <3>7. Remembered(k) \in {0, 1}
      BY DEF Remembered
    <3> QED
      BY <1>3, <3>1, <3>4, <3>5, <3>6, <3>7
  <2> QED
    BY <2>2, <2>3
<1>7. ASSUME NEW t \in Tasks, Poll(t) \/ Drop(t) \/ Step(t)
      PROVE  Cardinality(Taken(k)') <= g + Remembered(k)'
  <2>1. CASE (Poll(t) \/ Drop(t)) /\ Yields(t)
    BY <1>6, <2>1
  <2>2. CASE Step(t) /\ UNCHANGED feed
    BY <1>3, <1>4, <1>5, <2>2 DEF feed, Remembered
  <2> QED
    BY <1>7, <2>1, <2>2, HandlersFeed
<1>8. CASE pc' = pc /\ UNCHANGED feed
  BY <1>3, <1>4, <1>8 DEF feed, Remembered, Taken, Key
<1>9. CASE Die
  <2>1. Taken(k)' \subseteq Taken(k)
    BY <1>9 DEF Die, Taken, Key, Active, Over
  <2>2. g = f + Remembered(k) /\ Remembered(k)' = 0
    BY <1>3, <1>9 DEF Die, Remembered
  <2> QED
    BY <1>3, <1>4, <2>1, <2>2 DEF Remembered
<1>10. CASE Midnight \/ Stop \/ DrainClean \/ DrainTimeout \/ Restart
            \/ (\E r \in Inbound : Refuse(r) \/ Admit(r) \/ Answer(r))
            \/ UNCHANGED vars
  BY <1>8, <1>10 DEF Midnight, Stop, DrainClean, DrainTimeout, Restart, Refuse,
                     Admit, Answer, vars, taskVars
<1> QED
  BY <1>3, <1>7, <1>9, <1>10 DEF Next, Process, Exit, Crash

\* Whatever the marketplaces, the executors, the ledger and the process do, the
\* money of a yielded task moves at most once after its lock, and a task that is
\* yielded again moves money again only as often as its adapter forgot the id.
THEOREM MoneyMovesOnce ==
  ASSUME IsFiniteSet(Tasks)
  PROVE  Spec => []MovedAtMostOnce
<1>1. Init => TakenAsForgotten
  <2> SUFFICES ASSUME Init PROVE \A k \in Keys : Cardinality(Taken(k)) <= forgotten[k] + Remembered(k)
    BY TypesInitially, RowsInitially DEF TakenAsForgotten
  <2>1. \A k \in Keys : Taken(k) = {} /\ forgotten[k] = 0 /\ Remembered(k) = 0
    BY DEF Init, Taken, Remembered
  <2> QED
    BY <2>1, FS_EmptySet
<1>2. TakenAsForgotten => MovedAtMostOnce
  <2> SUFFICES ASSUME TakenAsForgotten PROVE MovedAtMostOnce
    OBVIOUS
  <2>1. \A t \in Tasks :
          /\ rows[t] \in {<<>>, <<"pending">>, <<"failed">>,
                          <<"pending", "settled">>, <<"pending", "failed">>}
          /\ rows[t] # <<>> => pc[t] # "offered"
    BY DEF TakenAsForgotten, RowsFitPlaces, Fits, BeforeLock, Histories, Nothing, Held, Stray,
           Settled, Refunded
  <2>2. ASSUME NEW k \in Keys
        PROVE  Cardinality({t \in Tasks : Key(t) = k /\ rows[t] # <<>>}) <= 1 + forgotten[k]
    <3>1. PICK S, T : S = {t \in Tasks : Key(t) = k /\ rows[t] # <<>>} /\ T = Taken(k)
      OBVIOUS
    <3>2. S \subseteq T /\ IsFiniteSet(T)
      BY <2>1, <3>1, FS_Subset DEF Taken
    <3>3. IsFiniteSet(S) /\ Cardinality(S) <= Cardinality(T)
      BY <3>2, FS_Subset
    <3>4. Cardinality(S) \in Nat /\ Cardinality(T) \in Nat
      BY <3>2, <3>3, FS_CardinalityType
    <3>5. Cardinality(T) <= forgotten[k] + Remembered(k) /\ forgotten[k] \in Nat
      BY <3>1 DEF TakenAsForgotten, TypeOK
    <3> QED
      BY <3>1, <3>3, <3>4, <3>5 DEF Remembered
  <2> QED
    BY <2>1, <2>2 DEF MovedAtMostOnce
<1>3. TakenAsForgotten /\ [Next]_vars => TakenAsForgotten'
  BY TakenStep
<1> QED
  BY <1>1, <1>2, <1>3, PTL DEF Spec

-----------------------------------------------------------------------------
(* Each adapter's tasks are handled one after the other.                    *)

\* An adapter has one task in hand.
OneEach == \A t, u \in Tasks : Active(t) /\ Active(u) /\ AdapterOf[t] = AdapterOf[u] => t = u

\* An adapter takes a task only with none in hand.
LEMMA HandlerOneEach ==
  ASSUME TypeOK, OneEach, NEW t \in Tasks, Poll(t) \/ Drop(t) \/ Step(t)
  PROVE  OneEach'
<1>1. \A u \in Tasks : u # t => (Active(u)' <=> Active(u))
  BY Elsewhere DEF Active
<1>2. Active(t) \/ Poll(t) \/ Drop(t)
  BY DEF Active, Over, Step, TriageThrows, TriageDeclines, TriageAccepts, Reject,
     RejectThrows, Accept, AcceptRefused, AcceptThrows, Lock, LockFails, LockReject, System1,
     A2A, PeerDelivers, PeerFails, PeerAnswers, ExecuteEnds, ExecuteAgain, ExecutionThrows,
     FailReject, FailRefund, FailLearn, Evolve, Deliver, DeliverThrows, Release,
     ReleaseThrows, Learn, Catch
<1>3. CASE Active(t)
  BY <1>1, <1>3 DEF OneEach
<1>4. CASE Poll(t) \/ Drop(t)
  <2>1. \A u \in Tasks : AdapterOf[u] = AdapterOf[t] => ~Active(u)
    BY <1>4 DEF Poll, Drop, Idle
  <2> QED
    BY <1>1, <2>1 DEF OneEach
<1> QED
  BY <1>2, <1>3, <1>4

LEMMA OneEachStep == TypeOK /\ OneEach /\ [Next]_vars => OneEach'
<1> SUFFICES ASSUME TypeOK, OneEach, [Next]_vars PROVE OneEach'
  OBVIOUS
<1>1. ASSUME NEW t \in Tasks, Poll(t) \/ Drop(t) \/ Step(t) PROVE OneEach'
  BY <1>1, HandlerOneEach
<1>2. CASE pc' = pc
  BY <1>2 DEF OneEach, Active
<1>3. CASE Die
  BY <1>3 DEF Die, OneEach, Active, Over
<1>4. CASE Midnight \/ Stop \/ DrainClean \/ DrainTimeout \/ Restart
           \/ (\E r \in Inbound : Refuse(r) \/ Admit(r) \/ Answer(r))
           \/ UNCHANGED vars
  BY <1>2, <1>4 DEF Midnight, Stop, DrainClean, DrainTimeout, Restart, Refuse,
                    Admit, Answer, vars, taskVars
<1> QED
  BY <1>1, <1>3, <1>4 DEF Next, Process, Exit, Crash

-----------------------------------------------------------------------------
(* The drain of stop().                                                     *)

\* Ids tell tasks and requests apart, but for what one adapter yields more than
\* once (nothing in the code makes them).
IdsDiffer ==
  /\ Tasks \cap Inbound = {}
  /\ \A x, y \in Tasks \cup Inbound :
       IdOf[x] = IdOf[y] =>
         \/ x = y
         \/ x \in Tasks /\ y \in Tasks /\ AdapterOf[x] = AdapterOf[y]

\* Whatever is at work is in inFlightTasks, and a clean wait ended with none.
Tracked ==
  /\ \A t \in Tasks : Active(t) => IdOf[t] \in inFlight
  /\ \A r \in Inbound : request[r] = "running" => IdOf[r] \in inFlight
  /\ phase = "clean" => inFlight = {}

\* A handler enters its id when it begins and clears it when it ends.
LEMMA HandlersTrack ==
  ASSUME TypeOK, NEW t \in Tasks, Poll(t) \/ Drop(t) \/ Step(t)
  PROVE  \/ Poll(t)
         \/ Active(t) /\ Finish(t) /\ UNCHANGED <<request, phase>>
         \/ /\ UNCHANGED <<inFlight, request, phase>>
            /\ Active(t) \/ pc'[t] = "dropped"
<1> USE Updates DEF Active, Over
<1>1. CASE Drop(t) \/ TriageThrows(t) \/ TriageDeclines(t) \/ TriageAccepts(t)
           \/ Reject(t) \/ RejectThrows(t) \/ Accept(t) \/ AcceptRefused(t)
           \/ AcceptThrows(t) \/ Lock(t) \/ LockFails(t) \/ LockReject(t)
  BY <1>1 DEF Drop, TriageThrows, TriageDeclines, TriageAccepts, Reject,
              RejectThrows, Accept, AcceptRefused, AcceptThrows, Lock, LockFails,
              LockReject
<1>2. CASE System1(t) \/ A2A(t) \/ ExecuteEnds(t) \/ ExecuteAgain(t)
           \/ ExecutionThrows(t) \/ FailReject(t) \/ FailRefund(t) \/ Evolve(t)
           \/ Deliver(t) \/ DeliverThrows(t) \/ Release(t) \/ ReleaseThrows(t)
           \/ Catch(t)
  BY <1>2 DEF System1, A2A, PeerDelivers, PeerFails, PeerAnswers, ExecuteEnds,
              ExecuteAgain, ExecutionThrows, FailReject, FailRefund, Evolve, Deliver,
              DeliverThrows, Release, ReleaseThrows, Catch
<1>3. CASE FailLearn(t) \/ Learn(t)
  BY <1>3 DEF FailLearn, Learn, recordLearning, LearningEvent
<1> QED
  BY <1>1, <1>2, <1>3 DEF Step

\* When ids tell tasks and requests apart, but for the yields of one adapter, a
\* wait of stop() that ends without its timeout has waited for all of them.
THEOREM DrainsClean ==
  ASSUME IdsDiffer
  PROVE  Spec => []CleanDrain
<1>1. Init => Tracked /\ OneEach
  BY DEF Init, Tracked, OneEach, Active, Over
<1>2. TypeOK /\ OneEach /\ Tracked /\ [Next]_vars => Tracked'
  <2> SUFFICES ASSUME TypeOK, OneEach, Tracked, [Next]_vars PROVE Tracked'
    OBVIOUS
  <2>1. ASSUME NEW t \in Tasks, Poll(t) \/ Drop(t) \/ Step(t) PROVE Tracked'
    <3>1. \A u \in Tasks : u # t => pc'[u] = pc[u]
      BY <2>1, Elsewhere
    <3>2. CASE Poll(t)
      BY <3>1, <3>2 DEF Poll, Tracked, Active, Stopped
    <3>3. CASE Active(t) /\ Finish(t) /\ UNCHANGED <<request, phase>>
      <4>1. pc'[t] = "done" /\ inFlight' = inFlight \ {IdOf[t]}
        BY <3>3, Updates DEF Finish
      <4>2. \A u \in Tasks : u # t /\ Active(u) => IdOf[u] # IdOf[t]
        BY <3>3 DEF IdsDiffer, OneEach
      <4>3. \A r \in Inbound : IdOf[r] # IdOf[t]
        BY DEF IdsDiffer
      <4>4. \A u \in Tasks : Active(u)' => IdOf[u] \in inFlight'
        BY <3>1, <4>1, <4>2 DEF Tracked, Active, Over
      <4>5. \A r \in Inbound : request'[r] = "running" => IdOf[r] \in inFlight'
        BY <3>3, <4>1, <4>3 DEF Tracked
      <4> QED
        BY <3>3, <4>1, <4>4, <4>5 DEF Tracked, Active
    <3>4. CASE /\ UNCHANGED <<inFlight, request, phase>>
               /\ Active(t) \/ pc'[t] = "dropped"
      BY <3>1, <3>4 DEF Tracked, Active, Over
    <3> QED
      BY <2>1, <3>2, <3>3, <3>4, HandlersTrack
  <2>2. ASSUME NEW r \in Inbound, Refuse(r) \/ Admit(r) \/ Answer(r) PROVE Tracked'
    <3>1. CASE Refuse(r)
      BY <3>1 DEF Refuse, Tracked, TypeOK, taskVars, Active
    <3>2. CASE Admit(r)
      BY <3>2 DEF Admit, Tracked, TypeOK, taskVars, Active, Stopped
    <3>3. CASE Answer(r)
      <4>1. r \notin Tasks
        BY DEF IdsDiffer
      <4>2. \A x \in Tasks : IdOf[x] # IdOf[r]
        BY <4>1 DEF IdsDiffer
      <4>3. \A q \in Inbound : q # r => IdOf[q] # IdOf[r]
        BY <4>1 DEF IdsDiffer
      <4>4. /\ inFlight' = inFlight \ {IdOf[r]} /\ pc' = pc /\ phase' = phase
            /\ request' = [request EXCEPT ![r] = "answered"]
        BY <3>3 DEF Answer, taskVars
      <4>5. \A t \in Tasks : Active(t)' => IdOf[t] \in inFlight'
        BY <4>2, <4>4 DEF Tracked, Active, Over
      <4>6. \A q \in Inbound : request'[q] = "running" => IdOf[q] \in inFlight'
        BY <4>3, <4>4 DEF Tracked, TypeOK
      <4>7. phase' = "clean" => inFlight' = {}
        BY <4>4 DEF Tracked
      <4> QED
        BY <4>5, <4>6, <4>7 DEF Tracked, Active
    <3> QED
      BY <2>2, <3>1, <3>2, <3>3
  <2>3. CASE Die
    BY <2>3 DEF Die, Tracked, Active, Over
  <2>4. CASE Midnight \/ Stop \/ DrainClean \/ DrainTimeout \/ Restart
             \/ UNCHANGED vars
    BY <2>4 DEF Midnight, Stop, DrainClean, DrainTimeout, Restart, vars,
                taskVars, Tracked, Active
  <2> QED
    BY <2>1, <2>2, <2>3, <2>4 DEF Next, Process, Exit, Crash
<1>3. Tracked => CleanDrain
  BY DEF Tracked, CleanDrain
<1> QED
  BY <1>1, <1>2, <1>3, OneEachStep, TypesInitially, TypesStep, PTL DEF Spec

-----------------------------------------------------------------------------
(* The daily cap.                                                           *)

AdapterIds == {AdapterOf[t] : t \in Tasks}

\* There is a most expensive execution, and there are finitely many adapters.
SpendingIsFinite ==
  /\ \E m \in Costs : \A c \in Costs : c <= m
  /\ IsFiniteSet(AdapterIds)

Dearest == MaxOf(Costs)
AllPasses == (MaxRetries + 1) * Dearest

\* The tasks past the budget gate that may still record a System 1 try, and those that
\* may still record the cost of an execution.
Tries == {"accept", "lock", "system1"}
Runs == Tries \cup {"a2a", "execute"}
ToTry == {t \in Tasks : pc[t] \in Tries}
ToRun == {t \in Tasks : pc[t] \in Runs}

\* What the passes so far of a task in hand have cost.
PassesAddUp ==
  \A t \in Tasks :
    /\ pc[t] = "offered" => job[t].attempt = 0 /\ job[t].cost = 0
    /\ Active(t) => job[t].attempt <= MaxRetries /\ job[t].cost <= job[t].attempt * Dearest

\* What is used and what those in hand may still record.
Reserved == ToolCost * Cardinality(ToTry) + AllPasses * Cardinality(ToRun)
Afforded == Cap + Cardinality(AdapterIds) * TaskCeiling
WithinReach == restarts = 0 => used + Reserved <= Afforded

LEMMA TimesMore ==
  ASSUME NEW k \in Nat, NEW a \in Nat, NEW b \in Nat, a <= b
  PROVE  k * a \in Nat /\ k * b \in Nat /\ k * a <= k * b
<1>1. PICK d \in Nat : b = a + d
  <2>1. b - a \in Nat /\ b = a + (b - a)
    OBVIOUS
  <2> QED
    BY <2>1
<1>2. k * b = k * a + k * d
  BY <1>1
<1>3. k * a \in Nat /\ k * d \in Nat
  OBVIOUS
<1> QED
  BY <1>2, <1>3

LEMMA DearestCosts ==
  ASSUME SpendingIsFinite
  PROVE  /\ Dearest \in Nat /\ AllPasses \in Nat
         /\ \A c \in Costs : c \in Nat /\ c <= Dearest
         /\ Dearest <= AllPasses
         /\ TaskCeiling = ToolCost + AllPasses
<1>1. PICK m \in Costs : \A c \in Costs : c <= m
  BY DEF SpendingIsFinite
<1>2. Dearest \in Costs /\ \A c \in Costs : c <= Dearest
  BY <1>1 DEF Dearest, MaxOf
<1>3. Dearest \in Nat /\ \A c \in Costs : c \in Nat
  BY <1>2, AgentAssumption
<1>4. 1 \in Nat /\ MaxRetries + 1 \in Nat /\ 1 <= MaxRetries + 1
  BY AgentAssumption
<1>5. Dearest * 1 <= Dearest * (MaxRetries + 1) /\ Dearest * (MaxRetries + 1) \in Nat
  BY <1>3, <1>4, TimesMore
<1>6. AllPasses = Dearest * (MaxRetries + 1) /\ Dearest * 1 = Dearest
  BY <1>3, <1>4 DEF AllPasses
<1> QED
  BY <1>2, <1>3, <1>5, <1>6 DEF TaskCeiling, AllPasses, Dearest

\* Of tasks of different adapters there are no more than adapters.
OneEachOf(S) == \A t, u \in S : AdapterOf[t] = AdapterOf[u] => t = u

LEMMA OneForEach ==
  ASSUME SpendingIsFinite, NEW S \in SUBSET Tasks, OneEachOf(S)
  PROVE  IsFiniteSet(S) /\ Cardinality(S) \in Nat /\ Cardinality(S) <= Cardinality(AdapterIds)
<1> DEFINE f == [t \in S |-> AdapterOf[t]]
<1>1. f \in [S -> AdapterIds]
  BY DEF AdapterIds
<1>2. \A t, u \in S : f[t] = f[u] => t = u
  BY DEF OneEachOf
<1>3. f \in Injection(S, AdapterIds)
  BY <1>1, <1>2, Fun_IsInj
<1>4. IsFiniteSet(S) /\ Cardinality(S) <= Cardinality(AdapterIds)
  BY <1>3, FS_Injection DEF SpendingIsFinite
<1> QED
  BY <1>4, FS_CardinalityType

\* What such tasks may still record, as many as they are, fits above the cap.
LEMMA Affordable ==
  ASSUME SpendingIsFinite, NEW A \in SUBSET Tasks, NEW B \in SUBSET Tasks,
         OneEachOf(A), OneEachOf(B)
  PROVE  LET reserved == ToolCost * Cardinality(A) + AllPasses * Cardinality(B) IN
         /\ IsFiniteSet(A) /\ IsFiniteSet(B)
         /\ Cardinality(A) \in Nat /\ Cardinality(B) \in Nat
         /\ reserved \in Nat /\ Afforded \in Nat /\ Cap + reserved <= Afforded
<1> USE AgentAssumption
<1>1. PICK n \in Nat : n = Cardinality(AdapterIds)
  BY FS_CardinalityType DEF SpendingIsFinite
<1>2. PICK a \in Nat : a = Cardinality(A) /\ a <= n /\ IsFiniteSet(A)
  BY <1>1, OneForEach
<1>3. PICK b \in Nat : b = Cardinality(B) /\ b <= n /\ IsFiniteSet(B)
  BY <1>1, OneForEach
<1>4. ToolCost * a \in Nat /\ ToolCost * n \in Nat /\ ToolCost * a <= ToolCost * n
  BY <1>2, TimesMore
<1>5. PICK p \in Nat : p = AllPasses
  BY DearestCosts
<1>6. p * b \in Nat /\ p * n \in Nat /\ p * b <= p * n
  BY <1>3, <1>5, TimesMore
<1>7. n * TaskCeiling = ToolCost * n + p * n
  <2>1. TaskCeiling = ToolCost + p
    BY <1>5, DearestCosts
  <2>2. n * (ToolCost + p) = ToolCost * n + p * n
    BY <1>1, <1>5
  <2> QED
    BY <2>1, <2>2
<1>8. Afforded = Cap + n * TaskCeiling
  BY <1>1 DEF Afforded
<1> QED
  BY <1>2, <1>3, <1>4, <1>5, <1>6, <1>7, <1>8

\* What those in hand may still record fits above the cap, and so it does after a step.
LEMMA Afford ==
  ASSUME SpendingIsFinite, OneEach
  PROVE  /\ IsFiniteSet(ToTry) /\ IsFiniteSet(ToRun)
         /\ Cardinality(ToTry) \in Nat /\ Cardinality(ToRun) \in Nat
         /\ Reserved \in Nat /\ Afforded \in Nat /\ Cap + Reserved <= Afforded
<1>1. PICK A, B : A = ToTry /\ B = ToRun
  OBVIOUS
<1>2. A \in SUBSET Tasks /\ B \in SUBSET Tasks /\ OneEachOf(A) /\ OneEachOf(B)
  BY <1>1 DEF ToTry, ToRun, Tries, Runs, Active, Over, OneEach, OneEachOf
<1> QED
  BY <1>1, <1>2, Affordable DEF Reserved

LEMMA AffordThen ==
  ASSUME SpendingIsFinite, OneEach'
  PROVE  /\ IsFiniteSet(ToTry') /\ IsFiniteSet(ToRun')
         /\ Cardinality(ToTry') \in Nat /\ Cardinality(ToRun') \in Nat
         /\ Reserved' \in Nat /\ Cap + Reserved' <= Afforded
<1>1. PICK A, B : A = ToTry' /\ B = ToRun'
  OBVIOUS
<1>2. A \in SUBSET Tasks /\ B \in SUBSET Tasks /\ OneEachOf(A) /\ OneEachOf(B)
  BY <1>1 DEF ToTry, ToRun, Tries, Runs, Active, Over, OneEach, OneEachOf
<1>3. Reserved' = ToolCost * Cardinality(A) + AllPasses * Cardinality(B)
  BY <1>1 DEF Reserved, AllPasses, Dearest
<1> QED
  BY <1>1, <1>2, <1>3, Affordable

\* What a handler's step does to the guard, and to what its own task may still record.
LEMMA HandlerSpends ==
  ASSUME TypeOK, SpendingIsFinite, PassesAddUp, NEW t \in Tasks, Poll(t) \/ Drop(t) \/ Step(t)
  PROVE  \/ /\ used' <= used
            /\ pc'[t] \in Tries => pc[t] \in Tries
            /\ pc'[t] \in Runs => pc[t] \in Runs
         \/ used' <= Cap
         \/ /\ used' <= used + ToolCost
            /\ pc[t] \in Tries /\ pc'[t] \notin Tries
         \/ /\ used' <= used + AllPasses
            /\ pc[t] \in Runs /\ pc[t] \notin Tries /\ pc'[t] \notin Runs
<1> USE DEF Tries, Runs
<1>1. /\ used \in Nat /\ UsedToday \in Nat /\ UsedToday <= used
      /\ \A p : Goto(t, p) => pc'[t] = p
      /\ Finish(t) => pc'[t] = "done"
      /\ Cap \in Nat /\ ToolCost \in Nat /\ Estimates \subseteq Nat
  BY AgentAssumption, Updates DEF UsedToday, TypeOK
<1>2. CASE Poll(t) \/ Drop(t) \/ TriageThrows(t) \/ TriageDeclines(t)
           \/ Reject(t) \/ RejectThrows(t)
  BY <1>1, <1>2 DEF Poll, Drop, TriageThrows, TriageDeclines, Reject, RejectThrows
<1>3. CASE TriageAccepts(t)
  <2>1. PICK e \in Estimates : Goto(t, IF wouldExceed(e) THEN "reject" ELSE "accept")
    BY <1>3 DEF TriageAccepts
  <2>2. used' = UsedToday
    BY <1>3 DEF TriageAccepts, Rollover
  <2>3. CASE wouldExceed(e)
    BY <1>1, <2>1, <2>2, <2>3
  <2>4. CASE ~wouldExceed(e)
    BY <1>1, <2>1, <2>2, <2>4 DEF wouldExceed
  <2> QED
    BY <2>3, <2>4
<1>4. CASE Accept(t) \/ AcceptRefused(t) \/ AcceptThrows(t) \/ LockFails(t) \/ LockReject(t)
  BY <1>1, <1>4 DEF Accept, AcceptRefused, AcceptThrows, LockFails, LockReject
<1>5. CASE Lock(t)
  BY <1>1, <1>5 DEF Lock, System2
<1>6. CASE System1(t)
  <2>1. pc[t] = "system1" /\ used' = UsedToday + ToolCost
    BY <1>6 DEF System1, record
  <2>2. pc'[t] \in {"deliver", "a2a", "execute"}
    BY <1>1, <1>6 DEF System1, System2
  <2> QED
    BY <1>1, <2>1, <2>2
<1>7. CASE A2A(t)
  <2>1. PICK c \in Costs : record(c)
    BY <1>7 DEF A2A, PeerDelivers, PeerFails, PeerAnswers
  <2>2. pc[t] = "a2a" /\ pc'[t] \in {"deliver", "failReject"}
    BY <1>1, <1>7 DEF A2A, PeerDelivers, PeerFails, PeerAnswers
  <2>3. used' = UsedToday + c /\ c \in Nat /\ c <= Dearest /\ Dearest <= AllPasses
        /\ Dearest \in Nat /\ AllPasses \in Nat
    BY <2>1, DearestCosts DEF record
  <2> QED
    BY <1>1, <2>2, <2>3
<1>8. CASE ExecuteEnds(t)
  <2>1. PICK c \in Costs : record(job[t].cost + c)
    BY <1>8 DEF ExecuteEnds
  <2>2. pc[t] = "execute" /\ pc'[t] \in {"deliver", "failReject"}
    BY <1>1, <1>8 DEF ExecuteEnds
  <2>3. PICK a \in Nat, p \in Nat, d \in Nat :
          a = job[t].attempt /\ p = job[t].cost /\ d = Dearest /\ a <= MaxRetries /\ p <= a * d
    BY <2>2, DearestCosts DEF PassesAddUp, TypeOK, Jobs, Active, Over
  <2>4. c \in Nat /\ c <= d
    BY <2>3, DearestCosts
  <2>5. used' = UsedToday + (p + c)
    BY <2>1, <2>3 DEF record
  <2>6. p + c <= AllPasses
    <3>1. a + 1 \in Nat /\ MaxRetries + 1 \in Nat /\ a + 1 <= MaxRetries + 1
      BY <2>3, AgentAssumption
    <3>2. d * (a + 1) <= d * (MaxRetries + 1)
      BY <3>1, TimesMore
    <3>3. d * (a + 1) = a * d + d /\ AllPasses = d * (MaxRetries + 1)
      BY <2>3, <3>1 DEF AllPasses
    <3>4. a * d \in Nat
      OBVIOUS
    <3> QED
      BY <2>3, <2>4, <3>1, <3>2, <3>3, <3>4, DearestCosts
  <2>7. AllPasses \in Nat
    BY DearestCosts
  <2> QED
    BY <1>1, <2>2, <2>4, <2>5, <2>6, <2>7
<1>9. CASE ExecuteAgain(t) \/ ExecutionThrows(t) \/ FailReject(t) \/ FailRefund(t) \/ Evolve(t)
           \/ Deliver(t) \/ DeliverThrows(t) \/ ReleaseThrows(t) \/ Catch(t)
  BY <1>1, <1>9 DEF ExecuteAgain, ExecutionThrows, FailReject, FailRefund, Evolve,
     Deliver, DeliverThrows, ReleaseThrows, Catch
<1>10. CASE FailLearn(t) \/ Learn(t)
  <2>1. used' = UsedToday
    BY <1>10 DEF FailLearn, Learn, recordLearning, Rollover
  <2>2. pc'[t] \in {"done", "evolve"}
    BY <1>1, <1>10 DEF FailLearn, Learn
  <2> QED
    BY <1>1, <2>1, <2>2
<1>11. CASE Release(t)
  <2>1. ReleaseVerdict(ReleaseEntries(Wallet(t), Settlement(job[t])))
          \in {"post", "empty", "unbalanced"}
    BY DEF ReleaseVerdict
  <2>2. used' = used /\ pc'[t] \in {"learn", "catch"}
    BY <1>1, <1>11, <2>1 DEF Release
  <2> QED
    BY <1>1, <2>2
<1> QED
  BY <1>2, <1>3, <1>4, <1>5, <1>6, <1>7, <1>8, <1>9, <1>10, <1>11 DEF Step

\* The passes of a task add up as its handler goes on.
LEMMA HandlerAddsUp ==
  ASSUME TypeOK, SpendingIsFinite, PassesAddUp, NEW t \in Tasks, Poll(t) \/ Drop(t) \/ Step(t)
  PROVE  PassesAddUp'
<1>1. \A u \in Tasks : u # t => pc'[u] = pc[u] /\ job'[u] = job[u]
  BY Elsewhere
<1>2. job[t] \in Jobs /\ pc[t] \in Points
  BY DEF TypeOK
<1>3. pc'[t] # "offered" /\ (pc[t] = "offered" => Poll(t) \/ Drop(t))
  <2> USE DEF Goto, Finish, TypeOK
  <2>1. CASE Poll(t) \/ Drop(t) \/ TriageThrows(t) \/ TriageDeclines(t) \/ TriageAccepts(t)
             \/ Reject(t) \/ RejectThrows(t) \/ Accept(t) \/ AcceptRefused(t)
             \/ AcceptThrows(t) \/ LockFails(t) \/ LockReject(t)
    BY <2>1 DEF Poll, Drop, TriageThrows, TriageDeclines, TriageAccepts, Reject, RejectThrows,
       Accept, AcceptRefused, AcceptThrows, LockFails, LockReject
  <2>2. CASE Lock(t) \/ System1(t) \/ A2A(t) \/ ExecuteEnds(t) \/ ExecuteAgain(t)
             \/ ExecutionThrows(t)
    BY <2>2 DEF Lock, System1, A2A, PeerDelivers, PeerFails, PeerAnswers, ExecuteEnds,
       ExecuteAgain, ExecutionThrows, System2
  <2>3. CASE FailReject(t) \/ FailRefund(t) \/ FailLearn(t) \/ Evolve(t) \/ Deliver(t)
             \/ DeliverThrows(t) \/ ReleaseThrows(t) \/ Learn(t) \/ Catch(t)
    BY <2>3 DEF FailReject, FailRefund, FailLearn, Evolve, Deliver, DeliverThrows,
       ReleaseThrows, Learn, Catch
  <2>4. CASE Release(t)
    <3>1. ReleaseVerdict(ReleaseEntries(Wallet(t), Settlement(job[t])))
            \in {"post", "empty", "unbalanced"}
      BY DEF ReleaseVerdict
    <3> QED
      BY <2>4, <3>1 DEF Release
  <2> QED
    BY <2>1, <2>2, <2>3, <2>4 DEF Step
<1>4. \/ job'[t].attempt = job[t].attempt /\ job'[t].cost = job[t].cost
      \/ job'[t].attempt = job[t].attempt /\ job'[t].cost = 0
      \/ ~Active(t)'
      \/ ExecuteAgain(t)
  <2> USE <1>2 DEF Jobs, TypeOK
  <2>1. CASE Finish(t)
    BY <2>1, Updates DEF Active, Over
  <2>2. CASE UNCHANGED job
    BY <2>2
  <2>3. CASE Poll(t) \/ TriageAccepts(t) \/ System1(t) \/ Deliver(t)
    <3>1. CASE Poll(t)
      <4>1. PICK m \in Budgets : job' = [job EXCEPT ![t].escrow = m]
        BY <3>1 DEF Poll
      <4> QED
        BY <4>1
    <3>2. CASE TriageAccepts(t)
      <4>1. PICK f \in BOOLEAN, g \in BOOLEAN : job' = [job EXCEPT ![t].fast = f, ![t].a2a = g]
        BY <3>2 DEF TriageAccepts
      <4> QED
        BY <4>1
    <3>3. CASE System1(t)
      <4>1. job' = [job EXCEPT ![t].bill = ToolCost] \/ job' = [job EXCEPT ![t].fast = FALSE]
        BY <3>3 DEF System1
      <4> QED
        BY <4>1
    <3>4. CASE Deliver(t)
      <4>1. PICK r \in Receipts : job' = [job EXCEPT ![t].receipt = r]
        BY <3>4 DEF Deliver
      <4> QED
        BY <4>1
    <3> QED
      BY <2>3, <3>1, <3>2, <3>3, <3>4
  <2>4. CASE A2A(t) \/ ExecuteEnds(t)
    <3>1. CASE A2A(t)
      <4>1. PICK c \in Costs : job' = [job EXCEPT ![t].bill = c]
        BY <3>1 DEF A2A, PeerDelivers, PeerFails, PeerAnswers
      <4> QED
        BY <4>1
    <3>2. CASE ExecuteEnds(t)
      <4>1. PICK n : job' = [job EXCEPT ![t].bill = n, ![t].cost = 0]
        BY <3>2 DEF ExecuteEnds
      <4> QED
        BY <4>1
    <3> QED
      BY <2>4, <3>1, <3>2
  <2>5. CASE Drop(t) \/ TriageThrows(t) \/ TriageDeclines(t)
             \/ Reject(t) \/ RejectThrows(t) \/ Accept(t) \/ AcceptRefused(t)
             \/ AcceptThrows(t) \/ Lock(t) \/ LockFails(t) \/ LockReject(t) \/ ExecutionThrows(t)
    BY <2>1, <2>2, <2>5 DEF Drop, TriageThrows, TriageDeclines, Reject, RejectThrows,
       Accept, AcceptRefused, AcceptThrows, Lock, LockFails, LockReject, ExecutionThrows
  <2>6. CASE FailReject(t) \/ FailRefund(t) \/ FailLearn(t) \/ Evolve(t)
             \/ DeliverThrows(t) \/ ReleaseThrows(t) \/ Learn(t) \/ Catch(t)
    BY <2>1, <2>2, <2>6 DEF FailReject, FailRefund, FailLearn, Evolve, DeliverThrows,
       ReleaseThrows, Learn, Catch
  <2>7. CASE Release(t)
    BY <2>2, <2>7 DEF Release
  <2> QED
    BY <2>3, <2>4, <2>5, <2>6, <2>7 DEF Step
<1>5. PICK d \in Nat : d = Dearest
  BY DearestCosts
<1>6. pc[t] = "offered" \/ Active(t)
  BY DEF Poll, Drop, Active, Over, Step, TriageThrows, TriageDeclines, TriageAccepts, Reject,
     RejectThrows, Accept, AcceptRefused, AcceptThrows, Lock, LockFails, LockReject, System1,
     A2A, PeerDelivers, PeerFails, PeerAnswers, ExecuteEnds, ExecuteAgain, ExecutionThrows,
     FailReject, FailRefund, FailLearn, Evolve, Deliver, DeliverThrows, Release,
     ReleaseThrows, Learn, Catch
<1>7. PICK a \in Nat, p \in Nat : a = job[t].attempt /\ p = job[t].cost
  BY <1>2 DEF Jobs
<1>8. a <= MaxRetries /\ p <= a * d
  <2>1. CASE pc[t] = "offered"
    <3>1. a = 0 /\ p = 0
      BY <1>7, <2>1 DEF PassesAddUp
    <3>2. 0 * d = 0
      OBVIOUS
    <3> QED
      BY <3>1, <3>2, AgentAssumption
  <2>2. CASE Active(t)
    BY <1>5, <1>7, <2>2 DEF PassesAddUp
  <2> QED
    BY <1>6, <2>1, <2>2
<1>9. Active(t)' => job'[t].attempt <= MaxRetries /\ job'[t].cost <= job'[t].attempt * d
  <2>1. CASE ExecuteAgain(t)
    <3>1. PICK c \in Costs : job' = [job EXCEPT ![t].cost = @ + c, ![t].attempt = @ + 1]
      BY <2>1 DEF ExecuteAgain
    <3>2. job'[t].cost = p + c /\ job'[t].attempt = a + 1
      BY <1>2, <1>7, <3>1 DEF TypeOK, Jobs
    <3>3. a < MaxRetries /\ MaxRetries \in Nat
      BY <1>7, <2>1, AgentAssumption DEF ExecuteAgain
    <3>4. c \in Nat /\ c <= d
      BY <1>5, DearestCosts
    <3>5. (a + 1) * d = a * d + d /\ a * d \in Nat
      OBVIOUS
    <3>6. p + c <= (a + 1) * d
      BY <1>8, <3>4, <3>5
    <3> QED
      BY <3>2, <3>3, <3>6
  <2>2. CASE job'[t].attempt = a /\ job'[t].cost = p
    BY <1>8, <2>2
  <2>3. CASE job'[t].attempt = a /\ job'[t].cost = 0
    <3>1. 0 <= a * d
      OBVIOUS
    <3> QED
      BY <1>8, <2>3, <3>1
  <2> QED
    BY <1>4, <1>7, <2>1, <2>2, <2>3
<1>10. \A u \in Tasks : u # t => (Active(u)' <=> Active(u))
  BY <1>1 DEF Active
<1> QED
  BY <1>1, <1>3, <1>5, <1>9, <1>10 DEF PassesAddUp, Dearest

\* A handler's step keeps what is used and reserved within reach.
LEMMA HandlerWithin ==
  ASSUME TypeOK, SpendingIsFinite, OneEach, OneEach', PassesAddUp, WithinReach,
         NEW t \in Tasks, Poll(t) \/ Drop(t) \/ Step(t), restarts' = restarts
  PROVE  WithinReach'
<1> SUFFICES ASSUME restarts = 0 PROVE used' + Reserved' <= Afforded
  BY DEF WithinReach, Afforded, AdapterIds, TaskCeiling
<1> USE AgentAssumption
<1>1. \A u \in Tasks : u # t => pc'[u] = pc[u]
  BY Elsewhere
<1>2. used + Reserved <= Afforded /\ used \in Nat /\ used' \in Nat
  <2>1. TypeOK'
    BY HandlerTypes
  <2> QED
    BY <2>1 DEF WithinReach, TypeOK
<1>3. PICK a \in Nat, b \in Nat :
        /\ a = Cardinality(ToTry) /\ b = Cardinality(ToRun)
        /\ IsFiniteSet(ToTry) /\ IsFiniteSet(ToRun)
  BY Afford
<1>4. PICK p \in Nat : p = AllPasses
  BY DearestCosts
<1>5. Reserved = ToolCost * a + p * b /\ Afforded \in Int
  BY <1>3, <1>4, Afford DEF Reserved
<1>6. PICK c \in Nat, d \in Nat :
        /\ c = Cardinality(ToTry') /\ d = Cardinality(ToRun')
        /\ Reserved' = ToolCost * c + p * d
        /\ Reserved' \in Nat /\ Cap + Reserved' <= Afforded
  <2>1. /\ Cardinality(ToTry') \in Nat /\ Cardinality(ToRun') \in Nat
        /\ Reserved' \in Nat /\ Cap + Reserved' <= Afforded
    BY AffordThen
  <2>2. Reserved' = ToolCost * Cardinality(ToTry') + p * Cardinality(ToRun')
    BY <1>4 DEF Reserved, AllPasses, Dearest
  <2> QED
    BY <2>1, <2>2
<1>7. /\ pc'[t] \in Tries => pc[t] \in Tries
      /\ pc'[t] \in Runs => pc[t] \in Runs
      => c <= a /\ d <= b
  <2> SUFFICES ASSUME pc'[t] \in Tries => pc[t] \in Tries, pc'[t] \in Runs => pc[t] \in Runs
               PROVE  c <= a /\ d <= b
    OBVIOUS
  <2>1. ToTry' \in SUBSET ToTry /\ ToRun' \in SUBSET ToRun
    BY <1>1 DEF ToTry, ToRun
  <2> QED
    BY <1>3, <1>6, <2>1, FS_Subset
<1>8. pc[t] \in Tries /\ pc'[t] \notin Tries => c <= a - 1
  <2> SUFFICES ASSUME pc[t] \in Tries, pc'[t] \notin Tries PROVE c <= a - 1
    OBVIOUS
  <2>1. t \in ToTry /\ ToTry' \in SUBSET (ToTry \ {t})
    BY <1>1 DEF ToTry
  <2>2. IsFiniteSet(ToTry \ {t}) /\ Cardinality(ToTry \ {t}) = a - 1
    BY <1>3, <2>1, FS_RemoveElement
  <2>3. Cardinality(ToTry') <= Cardinality(ToTry \ {t})
    BY <2>1, <2>2, FS_Subset
  <2> QED
    BY <1>6, <2>2, <2>3
<1>9. pc[t] \in Runs /\ pc'[t] \notin Runs => d <= b - 1
  <2> SUFFICES ASSUME pc[t] \in Runs, pc'[t] \notin Runs PROVE d <= b - 1
    OBVIOUS
  <2>1. t \in ToRun /\ ToRun' \in SUBSET (ToRun \ {t})
    BY <1>1 DEF ToRun
  <2>2. IsFiniteSet(ToRun \ {t}) /\ Cardinality(ToRun \ {t}) = b - 1
    BY <1>3, <2>1, FS_RemoveElement
  <2>3. Cardinality(ToRun') <= Cardinality(ToRun \ {t})
    BY <2>1, <2>2, FS_Subset
  <2> QED
    BY <1>6, <2>2, <2>3
<1>10. c <= a => ToolCost * c <= ToolCost * a
  BY TimesMore
<1>11. d <= b => p * d <= p * b
  BY TimesMore
<1>12. c <= a - 1 => ToolCost * c + ToolCost <= ToolCost * a
  <2> SUFFICES ASSUME c <= a - 1 PROVE ToolCost * c + ToolCost <= ToolCost * a
    OBVIOUS
  <2>1. c + 1 \in Nat /\ c + 1 <= a
    OBVIOUS
  <2>2. ToolCost * (c + 1) <= ToolCost * a
    BY <2>1, TimesMore
  <2>3. ToolCost * (c + 1) = ToolCost * c + ToolCost
    OBVIOUS
  <2> QED
    BY <2>2, <2>3
<1>13. d <= b - 1 => p * d + p <= p * b
  <2> SUFFICES ASSUME d <= b - 1 PROVE p * d + p <= p * b
    OBVIOUS
  <2>1. d + 1 \in Nat /\ d + 1 <= b
    OBVIOUS
  <2>2. p * (d + 1) <= p * b
    BY <2>1, TimesMore
  <2>3. p * (d + 1) = p * d + p
    OBVIOUS
  <2> QED
    BY <2>2, <2>3
<1>14. PICK wa \in Nat, wb \in Nat, wc \in Nat, wd \in Nat :
         wa = ToolCost * a /\ wb = p * b /\ wc = ToolCost * c /\ wd = p * d
  OBVIOUS
<1>15. CASE used' <= used /\ c <= a /\ d <= b
  BY <1>2, <1>5, <1>6, <1>10, <1>11, <1>14, <1>15
<1>16. CASE used' <= Cap
  BY <1>2, <1>5, <1>6, <1>16
<1>17. CASE used' <= used + ToolCost /\ c <= a - 1 /\ d <= b
  BY <1>2, <1>5, <1>6, <1>11, <1>12, <1>14, <1>17
<1>18. CASE used' <= used + p /\ c <= a /\ d <= b - 1
  BY <1>2, <1>5, <1>6, <1>10, <1>13, <1>14, <1>18
<1>19. \/ used' <= used /\ c <= a /\ d <= b
       \/ used' <= Cap
       \/ used' <= used + ToolCost /\ c <= a - 1 /\ d <= b
       \/ used' <= used + p /\ c <= a /\ d <= b - 1
  <2>1. Tries \subseteq Runs
    BY DEF Tries, Runs
  <2> QED
    BY <1>4, <1>7, <1>8, <1>9, <2>1, HandlerSpends
<1> QED
  BY <1>15, <1>16, <1>17, <1>18, <1>19

Reaches == OneEach /\ PassesAddUp /\ WithinReach

LEMMA ReachInitially == ASSUME SpendingIsFinite PROVE Init => Reaches
<1> SUFFICES ASSUME Init PROVE Reaches
  OBVIOUS
<1>1. \A t \in Tasks : pc[t] = "offered" /\ job[t] = Blank
  BY DEF Init
<1>2. OneEach
  BY <1>1 DEF OneEach, Active, Over
<1>3. PassesAddUp
  BY <1>1 DEF PassesAddUp, Active, Over, Blank
<1>4. WithinReach
  <2>1. used = 0 /\ Cap \in Nat
    BY AgentAssumption DEF Init
  <2>2. Reserved \in Nat /\ Afforded \in Nat /\ Cap + Reserved <= Afforded
    BY <1>2, Afford
  <2> QED
    BY <2>1, <2>2 DEF WithinReach
<1> QED
  BY <1>2, <1>3, <1>4 DEF Reaches

\* A process that dies has nothing in hand, and one that restarts reserves nothing.
LEMMA DeathWithin ==
  ASSUME TypeOK, SpendingIsFinite, Reaches, Die
  PROVE  Reaches'
<1>1. \A t \in Tasks : ~Active(t)' /\ job'[t] = Blank
  BY DEF Die, Active, Over
<1>2. OneEach'
  BY <1>1 DEF OneEach
<1>3. PassesAddUp'
  BY <1>1 DEF PassesAddUp, Blank
<1>4. WithinReach'
  <2>1. ToTry' = {} /\ ToRun' = {}
    BY <1>1 DEF ToTry, ToRun, Tries, Runs, Active, Over
  <2>2. Cardinality(ToTry') = 0 /\ Cardinality(ToRun') = 0
    BY <2>1, FS_EmptySet
  <2>3. PICK p \in Nat : p = AllPasses
    BY DearestCosts
  <2>4. ToolCost * 0 = 0 /\ p * 0 = 0
    BY AgentAssumption
  <2>5. Reserved' = 0
    BY <2>2, <2>3, <2>4 DEF Reserved, AllPasses, Dearest
  <2>6. Reserved \in Nat /\ Afforded \in Nat
    BY Afford DEF Reaches
  <2>7. Afforded' = Afforded
    BY DEF Afforded, AdapterIds, TaskCeiling
  <2>8. used' = used /\ restarts' = restarts /\ used \in Nat
    BY DEF Die, TypeOK
  <2> QED
    BY <2>5, <2>6, <2>7, <2>8 DEF Reaches, WithinReach
<1> QED
  BY <1>2, <1>3, <1>4 DEF Reaches

LEMMA ReachStep ==
  ASSUME SpendingIsFinite, TypeOK, Reaches, [Next]_vars
  PROVE  Reaches'
<1>1. ASSUME NEW t \in Tasks, Poll(t) \/ Drop(t) \/ Step(t) PROVE Reaches'
  <2>1. OneEach'
    BY <1>1, HandlerOneEach DEF Reaches
  <2>2. PassesAddUp'
    BY <1>1, HandlerAddsUp DEF Reaches
  <2>3. restarts' = restarts
    BY <1>1 DEF Poll, Drop, Step, TriageThrows, TriageDeclines, TriageAccepts, Reject,
       RejectThrows, Accept, AcceptRefused, AcceptThrows, Lock, LockFails, LockReject,
       System1, A2A, PeerDelivers, PeerFails, PeerAnswers, ExecuteEnds, ExecuteAgain,
       ExecutionThrows, FailReject, FailRefund, FailLearn, Evolve, Deliver, DeliverThrows,
       Release, ReleaseThrows, Learn, Catch
  <2> QED
    BY <1>1, <2>1, <2>2, <2>3, HandlerWithin DEF Reaches
<1>2. CASE UNCHANGED <<pc, job, used, restarts>>
  BY <1>2 DEF Reaches, OneEach, Active, PassesAddUp, WithinReach, Reserved, ToTry, ToRun,
     Afforded, AdapterIds, AllPasses, Dearest, TaskCeiling
<1>3. CASE Midnight \/ Stop \/ DrainClean \/ DrainTimeout
           \/ UNCHANGED vars
  BY <1>2, <1>3 DEF Midnight, Stop, DrainClean, DrainTimeout, vars, taskVars
<1>4. ASSUME NEW r \in Inbound, Refuse(r) \/ Admit(r) \/ Answer(r) PROVE Reaches'
  BY <1>2, <1>4 DEF Refuse, Admit, Answer, taskVars
<1>5. CASE Exit \/ Crash
  BY <1>5, DeathWithin DEF Exit, Crash
<1>6. CASE Restart
  <2>1. restarts' # 0 /\ UNCHANGED <<pc, job>>
    BY <1>6 DEF Restart, TypeOK
  <2> QED
    BY <2>1 DEF Reaches, OneEach, Active, PassesAddUp, WithinReach, Dearest
<1> QED
  BY <1>1, <1>3, <1>4, <1>5, <1>6 DEF Next, Process

\* OverrunIsBounded, for any number of tasks, adapters and retries.  The guard compares
\* the estimate with what is left of the cap before a task (budget.ts wouldExceed) and
\* the agent records the cost after it, each pass of the quality loop included: since
\* an adapter has one task in hand, the overrun is at most one task's for each.
THEOREM SpendingIsBounded == ASSUME SpendingIsFinite PROVE Spec => []OverrunIsBounded
<1>1. TypeOK /\ Reaches => OverrunIsBounded
  <2> SUFFICES ASSUME TypeOK, Reaches, restarts = 0 PROVE used <= Afforded
    BY DEF OverrunIsBounded, Afforded, AdapterIds
  <2>1. Reserved \in Nat /\ Afforded \in Nat
    BY Afford DEF Reaches
  <2> QED
    BY <2>1 DEF TypeOK, Reaches, WithinReach
<1>2. Init => TypeOK /\ Reaches
  BY TypesInitially, ReachInitially
<1>3. TypeOK /\ Reaches /\ [Next]_vars => TypeOK' /\ Reaches'
  BY TypesStep, ReachStep
<1> QED
  BY <1>1, <1>2, <1>3, PTL DEF Spec
=============================================================================
