--------------------------- MODULE LedgerEntries ---------------------------
(***************************************************************************)
(* The entries that core/ledger.ts builds for each financial event, as     *)
(* pure operators.                                                         *)
(*                                                                         *)
(* An entry list names every account at most once and every entry is       *)
(* one-sided, so a list is represented by a posting: a function from       *)
(* accounts to integers, positive for a debit, negative for a credit, zero *)
(* for no entry.  Amounts are integers in units of 1e-8 USD, the precision *)
(* of ledger_entries.debit and .credit; the inputs of the builders are in  *)
(* fractions of that unit (Scale fractions to the unit), so that round8    *)
(* has something to round.                                                 *)
(***************************************************************************)
EXTENDS Integers

CONSTANT Scale      \* input fractions per 1e-8 USD

ASSUME ScaleAssumption == Scale \in Nat \ {0}

Wallets == {"wallet_mock", "wallet_railway", "wallet_okx", "wallet_clustly",
            "wallet_internal", "wallet_solana"}

Accounts == Wallets \cup {"escrow_pending", "platform_fee", "execution_cost",
                          "gas_cost", "revenue", "equity"}

\* The wallet an adapter is paid into.
walletCodeFor(adapterId) ==
  CASE adapterId = "mock"    -> "wallet_mock"
    [] adapterId = "railway" -> "wallet_railway"
    [] adapterId = "okx"     -> "wallet_okx"
    [] adapterId = "clustly" -> "wallet_clustly"
    [] OTHER                 -> "wallet_internal"

\* Math.round: to the nearest unit, halves towards plus infinity.
round8(n) == (2 * n + Scale) \div (2 * Scale)

\* `if (x > 0) entries.push(...)`: an amount that is not positive makes no entry.
Entry(x) == IF x > 0 THEN x ELSE 0

NoEntries == [a \in Accounts |-> 0]

\* Signed sum over the chart of accounts: total debit minus total credit.
Diff(p) ==
  p["wallet_mock"] + p["wallet_railway"] + p["wallet_okx"]
  + p["wallet_clustly"] + p["wallet_internal"] + p["wallet_solana"]
  + p["escrow_pending"] + p["platform_fee"] + p["execution_cost"]
  + p["gas_cost"] + p["revenue"] + p["equity"]

\* The books after a posting.  Balances are derived from the entries.
Post(books, p) == [a \in Accounts |-> books[a] + p[a]]

-----------------------------------------------------------------------------
(* Escrow lock and refund: opposite postings of the same two accounts.     *)

LockEntries(wallet, amount) ==
  [NoEntries EXCEPT !["escrow_pending"] = round8(amount),
                    ![wallet] = -round8(amount)]

RefundEntries(wallet, amount) ==
  [NoEntries EXCEPT !["escrow_pending"] = -round8(amount),
                    ![wallet] = round8(amount)]

(* On-chain deposit: wallet debited, revenue credited.                     *)
DepositEntries(wallet, amount) ==
  [NoEntries EXCEPT ![wallet] = round8(amount), !["revenue"] = -round8(amount)]

-----------------------------------------------------------------------------
(* Settlement and escrow release differ in the account they credit and in   *)
(* whether a non-positive credit is entered at all; the debits are the same.*)

Amounts == [revenue : Int, fee : Int, cost : Int, gas : Int]

Net(s) ==
  round8(s.revenue) - round8(s.fee) - round8(s.cost) - round8(s.gas)

\* The entries before the balance adjustment.
Unadjusted(wallet, credited, credit, s) ==
  [NoEntries EXCEPT ![credited] = -credit,
                    ![wallet] = Entry(Net(s)),
                    !["platform_fee"] = Entry(round8(s.fee)),
                    !["execution_cost"] = Entry(round8(s.cost)),
                    !["gas_cost"] = Entry(round8(s.gas))]

\* The residual goes to the wallet entry; without one, and only when the
\* credits are the larger side, to the first entry, the credited account.
Adjusted(wallet, credited, p) ==
  CASE Diff(p) # 0 /\ p[wallet] > 0   -> [p EXCEPT ![wallet] = @ - Diff(p)]
    [] Diff(p) < 0 /\ p[wallet] <= 0  -> [p EXCEPT ![credited] = @ - Diff(p)]
    [] OTHER                          -> p

ReleaseEntries(wallet, s) ==
  Adjusted(wallet, "escrow_pending",
           Unadjusted(wallet, "escrow_pending", Entry(round8(s.revenue)), s))

SettlementEntries(wallet, s) ==
  Adjusted(wallet, "revenue",
           Unadjusted(wallet, "revenue", round8(s.revenue), s))

\* What the builders decide: refuse an unbalanced list, skip an empty one (only
\* a release can be empty, a settlement always enters its revenue), or post.
ReleaseVerdict(p) ==
  IF Diff(p) # 0 THEN "unbalanced"
  ELSE IF p = NoEntries THEN "empty" ELSE "post"

SettlementVerdict(p) == IF Diff(p) # 0 THEN "unbalanced" ELSE "post"

\* lockFunds, refundFunds and recordPaymentDeposit skip a non-positive amount.
AmountVerdict(amount) == IF round8(amount) <= 0 THEN "empty" ELSE "post"
=============================================================================
