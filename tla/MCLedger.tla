------------------------------ MODULE MCLedger ------------------------------
(* Instances of Ledger.  The calls: an escrow lock and refund, a release that *)
(* balances, one whose fees exceed its revenue and one with nothing to post,  *)
(* a settlement of the task the lock is for, and two on-chain deposits, one   *)
(* to the wallet the migrations seed and one to the wallet they do not.       *)
EXTENDS Ledger

AmountsOf(r, f, c, g) == [revenue |-> r, fee |-> f, cost |-> c, gas |-> g]

Lock    == [kind |-> "lock", ref |-> "task", wallet |-> "wallet_mock", amount |-> 5]
Refund  == [kind |-> "refund", ref |-> "task", wallet |-> "wallet_mock", amount |-> 5]
NoLock  == [kind |-> "lock", ref |-> "task", wallet |-> "wallet_mock", amount |-> 0]
Release == [kind |-> "release", ref |-> "task", wallet |-> "wallet_mock",
            amounts |-> AmountsOf(9, 2, 3, 1)]
Loss    == [Release EXCEPT !.amounts = AmountsOf(2, 2, 3, 1)]
Nothing == [Release EXCEPT !.amounts = AmountsOf(0, 0, 0, 0)]
Settle  == [kind |-> "settlement", ref |-> "task", wallet |-> "wallet_railway",
            amounts |-> AmountsOf(9, 1, 2, 3)]
Deposit == [kind |-> "deposit", ref |-> "tx", wallet |-> "wallet_internal",
            amount |-> 3]
Solana  == [Deposit EXCEPT !.ref = "sig", !.wallet = "wallet_solana"]

AllOps == {Lock, Refund, NoLock, Release, Loss, Nothing, Settle, Deposit, Solana}

Seeded == Accounts \ {"wallet_solana"}
=============================================================================
