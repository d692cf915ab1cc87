-------------------------------- MODULE MCLedger --------------------------------
(***************************************************************************)
(* Instances of Ledger for TLC.                                            *)
(***************************************************************************)
EXTENDS Ledger, TLC

CONSTANTS a1, a2, a3,   \* customer accounts
          usd, eur      \* currencies, and their clearing accounts

TwoAccounts == {a1, a2}
ThreeAccounts == {a1, a2, a3}
OneCurrency == {usd}
TwoCurrencies == {usd, eur}
AllUsd == [a \in Accounts |-> usd]
ThirdInEur == [a \in Accounts |-> IF a = a3 THEN eur ELSE usd]

\* The clearing account mirrors what customers have paid in.
FundedRows == Accounts \cup {usd}
FundedUsd == [a \in Rows |-> IF a \in Accounts THEN 2 ELSE IF a = usd THEN -2 * Cardinality(Accounts) ELSE 0]
\* a2 is not opened yet, and the euro has no clearing account.
PartlyOpenedRows == {a1, a3, usd}
PartlyFunded == [a \in Rows |-> IF a = a1 THEN 1 ELSE IF a = usd THEN -1 ELSE 0]

TransferOf(a, b, n) ==
    [kind |-> "transfer", account |-> a, to |-> b, amount |-> n, currency |-> CurrencyOf[a], stepUp |-> FALSE]
DepositOf(a, n) ==
    [kind |-> "deposit", account |-> a, to |-> a, amount |-> n, currency |-> CurrencyOf[a], stepUp |-> FALSE]
WithdrawOf(a, n) == [DepositOf(a, n) EXCEPT !.kind = "withdraw"]

\* Everything at once on the same rows, in both lock orders.
ContendedCommands ==
    {TransferOf(a1, a2, 1), TransferOf(a2, a1, 2), WithdrawOf(a1, 2), DepositOf(a1, 1)}

\* The refusals, the missing accounts and the clearing account's creation.
EdgeCommands ==
    {TransferOf(a1, a2, 1), TransferOf(a1, a3, 1), TransferOf(a1, a1, 1), TransferOf(a1, usd, 1),
     TransferOf(a1, a2, 0), TransferOf(a1, a2, 3), [TransferOf(a1, a2, 3) EXCEPT !.stepUp = TRUE],
     DepositOf(a1, 1), DepositOf(a1, 3), DepositOf(a1, 0), DepositOf(a3, 2),
     [DepositOf(a1, 1) EXCEPT !.currency = eur],
     WithdrawOf(a1, 1), WithdrawOf(a2, 0), WithdrawOf(a2, 1)}

RequestSymmetry == Permutations(Requests)

===============================================================================
