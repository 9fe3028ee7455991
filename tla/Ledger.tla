------------------------------- MODULE Ledger -------------------------------
(***************************************************************************)
(* core/ledger.ts over persistence/pool.ts: concurrent calls of the five    *)
(* recording operations, each an idempotency SELECT (settlements and        *)
(* deposits only) followed by one database transaction, against a Postgres  *)
(* store that may fail at any statement and an in-memory store that the     *)
(* whole process switches to, for good, at the first error.                 *)
(*                                                                          *)
(* A call that needs Postgres first waits for one of the pool's connections, *)
(* at most three seconds (connectionTimeoutMillis), and then for the answer  *)
(* to its statements, for which the pool sets no limit: they may never come. *)
(*                                                                          *)
(* A store is reduced to what the properties read: the net of each account  *)
(* over all entries, and which call wrote each row of transactions.          *)
(* The in-memory transaction runs statement by statement, but nothing it    *)
(* does can fail and its writes commute with those of other calls, so it is *)
(* one step, taken where its first row is inserted.                         *)
(***************************************************************************)
EXTENDS LedgerEntries, FiniteSets

CONSTANTS
  Callers,       \* concurrent callers of the ledger, one call each at a time
  Ops,           \* the calls they may make
  PgAccounts,    \* the accounts the migrations seed in Postgres
  PoolSize,      \* connections of the pool
  MaxCalls       \* bound: calls begun in a behaviour

ASSUME LedgerAssumption ==
  /\ PgAccounts \subseteq Accounts
  /\ PoolSize \in Nat
  /\ MaxCalls \in Nat
  /\ \A op \in Ops :
       /\ op.wallet \in Wallets
       /\ \/ op.kind \in {"lock", "refund", "deposit"} /\ op.amount \in Int
          \/ op.kind \in {"release", "settlement"} /\ op.amounts \in Amounts

VARIABLES
  isMockActive,  \* the process has switched to the in-memory store
  store,         \* "pg" and "mem" |-> [books, rows]
  call,          \* per caller: where its call is, the call, its number, its outcome
  calls          \* calls begun so far: the number of the latest

vars == <<isMockActive, store, call, calls>>

Stores == {"pg", "mem"}

Checked(op) == op.kind \in {"settlement", "deposit"}

EntriesOf(op) ==
  CASE op.kind = "lock"       -> LockEntries(op.wallet, op.amount)
    [] op.kind = "refund"     -> RefundEntries(op.wallet, op.amount)
    [] op.kind = "deposit"    -> DepositEntries(op.wallet, op.amount)
    [] op.kind = "release"    -> ReleaseEntries(op.wallet, op.amounts)
    [] op.kind = "settlement" -> SettlementEntries(op.wallet, op.amounts)

\* The posting of every call, computed once.
Posting == [op \in Ops |-> EntriesOf(op)]

VerdictOf(op) ==
  CASE op.kind = "release"    -> ReleaseVerdict(Posting[op])
    [] op.kind = "settlement" -> SettlementVerdict(Posting[op])
    [] OTHER                  -> AmountVerdict(op.amount)

NoOp == [kind |-> "none"]

Idle == [pc |-> "idle", op |-> NoOp, n |-> 0, result |-> "none"]

Init ==
  /\ isMockActive \in BOOLEAN
  /\ store = [st \in Stores |-> [books |-> NoEntries, rows |-> {}]]
  /\ call = [c \in Callers |-> Idle]
  /\ calls = 0

-----------------------------------------------------------------------------

At(c, pc) == call[c].pc = pc

\* Where a call goes next: on to pc, or back to its caller with a result.
Waiting(op, n, pc) == [pc |-> pc, op |-> op, n |-> n, result |-> "none"]

Answer(op, n, result) == [pc |-> "idle", op |-> op, n |-> n, result |-> result]

Goto(c, pc) == call' = [call EXCEPT ![c] = Waiting(@.op, @.n, pc)]

Return(c, result) == call' = [call EXCEPT ![c] = Answer(@.op, @.n, result)]

\* Mutant: a settlement whose entries do not balance is posted all the same.
BuiltUnbalanced(op, n, mock) ==
  IF VerdictOf(op) = "empty" THEN Answer(op, n, "null")
  ELSE Waiting(op, n, IF mock THEN "memory" ELSE "connecting")

\* The entries are built: throw, return null, or open the transaction, which
\* withTransaction does in the store of that moment.
Built(op, n, mock) ==
  CASE VerdictOf(op) = "unbalanced" -> Answer(op, n, "threw")
    [] VerdictOf(op) = "empty"      -> Answer(op, n, "null")
    [] VerdictOf(op) = "post"       ->
         Waiting(op, n, IF mock THEN "memory" ELSE "connecting")

\* The idempotency check: any row of that task_id, whatever wrote it, skips
\* the call.  lockFunds, releaseFunds and refundFunds do not check.
Known(st, ref) == \E row \in store[st].rows : row.op.ref = ref

LookedUp(op, n, st, mock) ==
  IF Checked(op) /\ Known(st, op.ref)
    THEN Answer(op, n, "null")
    ELSE Built(op, n, mock)

\* A call runs to its first await: the in-memory store is asked and answers at
\* once, Postgres needs a connection.
Begin(c, op) ==
  /\ At(c, "idle")
  /\ calls < MaxCalls
  /\ calls' = calls + 1
  /\ call' = [call EXCEPT ![c] =
                IF isMockActive THEN LookedUp(op, calls', "mem", TRUE)
                ELSE IF Checked(op) THEN Waiting(op, calls', "asking")
                ELSE Built(op, calls', FALSE)]
  /\ UNCHANGED <<isMockActive, store>>

\* The call holds a connection: Postgres has its statement, or its transaction.
Held(c) == call[c].pc \in {"looking", "postgres"}

\* A connection is free, or a new one is opened.
Connect(c) ==
  /\ Cardinality({d \in Callers : Held(d)}) < PoolSize
  /\ \/ At(c, "asking") /\ Goto(c, "looking")
     \/ At(c, "connecting") /\ Goto(c, "postgres")
  /\ UNCHANGED <<isMockActive, store, calls>>

\* The SELECT is answered.
Found(c) ==
  /\ At(c, "looking")
  /\ call' = [call EXCEPT ![c] = LookedUp(@.op, @.n, "pg", isMockActive)]
  /\ UNCHANGED <<isMockActive, store, calls>>

\* No connection in time, or the SELECT fails: the in-memory store answers it.
SelectFails(c) ==
  /\ At(c, "asking") \/ At(c, "looking")
  /\ isMockActive' = TRUE
  /\ call' = [call EXCEPT ![c] = LookedUp(@.op, @.n, "mem", TRUE)]
  /\ UNCHANGED <<store, calls>>

\* No connection in time: the transaction runs in memory.
ConnectFails(c) ==
  /\ At(c, "connecting")
  /\ isMockActive' = TRUE
  /\ Goto(c, "memory")
  /\ UNCHANGED <<store, calls>>

\* Postgres rejects a posting to an account it was not seeded with.
Acceptable(op) == \A a \in Accounts : Posting[op][a] # 0 => a \in PgAccounts

\* The row a call writes, and the books with its entries.
Row(c) == [n |-> call[c].n, op |-> call[c].op]

Insert(st, c) ==
  [store EXCEPT ![st] = [books |-> Post(store[st].books, Posting[call[c].op]),
                         rows |-> store[st].rows \cup {Row(c)}]]

Commit(c) ==
  /\ At(c, "postgres")
  /\ Acceptable(call[c].op)
  /\ store' = Insert("pg", c)
  /\ Return(c, "recorded")
  /\ UNCHANGED <<isMockActive, calls>>

\* COMMIT took effect but its acknowledgement was lost: fn runs again in memory.
CommitUnacknowledged(c) ==
  /\ At(c, "postgres")
  /\ Acceptable(call[c].op)
  /\ store' = Insert("pg", c)
  /\ isMockActive' = TRUE
  /\ Goto(c, "memory")
  /\ UNCHANGED calls

\* Mutant: the rollback is taken for a success.
AbortReturns(c) ==
  /\ At(c, "postgres")
  /\ isMockActive' = TRUE
  /\ Return(c, "recorded")
  /\ UNCHANGED <<store, calls>>

\* Mutant: the transaction is retried on Postgres, without a limit.
AbortRetries(c) ==
  /\ At(c, "postgres")
  /\ Goto(c, "connecting")
  /\ UNCHANGED <<isMockActive, store, calls>>

\* Any failure before COMMIT: rolled back, fn runs again in memory.
Abort(c) ==
  /\ At(c, "postgres")
  /\ isMockActive' = TRUE
  /\ Goto(c, "memory")
  /\ UNCHANGED <<store, calls>>

InMemory(c) ==
  /\ At(c, "memory")
  /\ store' = Insert("mem", c)
  /\ Return(c, "recorded")
  /\ UNCHANGED <<isMockActive, calls>>

\* The pool's 'error' event: an idle connection broke.
PoolError ==
  /\ ~isMockActive
  /\ isMockActive' = TRUE
  /\ UNCHANGED <<store, call, calls>>

\* The wait for a connection ends, one way or the other.
WaitEnds(c) == Connect(c) \/ SelectFails(c) \/ ConnectFails(c)

Next ==
  \/ \E c \in Callers, op \in Ops : Begin(c, op)
  \/ \E c \in Callers :
       \/ WaitEnds(c)
       \/ Found(c)
       \/ Commit(c)
       \/ CommitUnacknowledged(c)
       \/ Abort(c)
       \/ InMemory(c)
  \/ PoolError

\* The pool bounds the wait for a connection and the in-memory store answers at
\* once.  Nothing makes Postgres answer: no query or statement timeout is set.
Fairness ==
  \A c \in Callers :
    /\ WF_vars((At(c, "asking") \/ At(c, "connecting")) /\ WaitEnds(c))
    /\ WF_vars(InMemory(c))

Spec == Init /\ [][Next]_vars /\ Fairness

-----------------------------------------------------------------------------
Outcomes == {"none", "recorded", "null", "threw"}

Points == {"idle", "asking", "looking", "connecting", "postgres", "memory"}

TypeOK ==
  /\ isMockActive \in BOOLEAN
  /\ calls \in 0..MaxCalls
  /\ store \in [Stores -> [books : [Accounts -> Int],
                           rows : SUBSET [n : 1..MaxCalls, op : Ops]]]
  /\ \A c \in Callers :
       /\ call[c].pc \in Points
       /\ call[c].op \in Ops \cup {NoOp}
       /\ call[c].n \in 0..calls
       /\ call[c].result \in Outcomes
       /\ call[c].pc # "idle" => call[c].op # NoOp

\* Double entry: in either store the debits of all entries equal the credits,
\* across concurrent calls, refused settlements and the switch of stores
\* (ledger.ts verifyIntegrity: "Should always be 0").
BooksBalance == \A st \in Stores : Diff(store[st].books) = 0

\* What a call tells its caller is true of that very call.  A call answered with
\* a transaction has written its own row, in the one store or the other; a call
\* that threw has written none.  A lock, a release or a refund is answered with
\* null only when its entries are empty; a settlement or a deposit also when
\* another transaction carries its task_id, be it a lock's: recordSettlement's
\* SELECT asks for no more than that.
AnsweredMeansRecorded ==
  \A c \in Callers :
    LET result == call[c].result
        op == call[c].op
    IN
    /\ result = "recorded" => \E st \in Stores : Row(c) \in store[st].rows
    /\ result = "threw" => \A st \in Stores : Row(c) \notin store[st].rows
    /\ result = "null" /\ VerdictOf(op) # "empty" =>
         Checked(op) /\ \E st \in Stores : Known(st, op.ref)

\* A call returns unless Postgres keeps its own statement waiting for ever: a
\* statement that hangs, and holds its connection, delays no other caller for
\* longer than the pool's timeout.
CallsReturn ==
  \A c \in Callers :
    []<>~Held(c) => (call[c].pc # "idle" ~> call[c].pc = "idle")
=============================================================================
