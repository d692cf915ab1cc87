------------------------------- MODULE LedgerBase -------------------------------
(***************************************************************************)
(* What the ledger modules share: accounts, currencies, the money-movement *)
(* commands and the two ledger legs each command posts.                    *)
(*                                                                         *)
(* A currency has at most one SYSTEM (CASH_CLEARING) account: unique index *)
(* uk_account_system_currency.  The currency therefore also names that     *)
(* account, and Rows == Accounts \cup Currencies is the set of every       *)
(* account, customer or system, that may have an account_balance row.      *)
(***************************************************************************)
EXTENDS Integers

CONSTANTS
    Accounts,       \* customer accounts (CHECKING, SAVINGS)
    Currencies,     \* ISO currencies; also the clearing account of each
    CurrencyOf,     \* [Accounts -> Currencies], fixed when an account is opened
    Requests,       \* HTTP requests that move money
    Commands,       \* the commands the requests may carry
    MaxLong,        \* Long.MAX_VALUE: the largest balance in minor units
    StepUpThreshold,\* FernbankProperties.auth.stepUpThresholdMinorUnits
    Opened,         \* the accounts that exist at the start
    Opening         \* [Rows -> Int], their balances at the start

Rows == Accounts \cup Currencies

\* Java's signed long: one more negative value than positive ones.
Long == (-MaxLong - 1) .. MaxLong

Kinds == {"transfer", "deposit", "withdraw"}

\* TransferCommand and DepositWithdrawCommand.  A deposit or a withdrawal is
\* on "account" and does not use "to"; the amount carries a currency of its own.
CommandType ==
    [kind: Kinds, account: Accounts, to: Rows, amount: Long,
     currency: Currencies, stepUp: BOOLEAN]

ASSUME LedgerConstants ==
    /\ Accounts \cap Currencies = {}
    /\ CurrencyOf \in [Accounts -> Currencies]
    /\ MaxLong \in Nat
    /\ StepUpThreshold \in Nat
    /\ Commands \subseteq CommandType
    /\ Opened \subseteq Rows
    /\ Opening \in [Rows -> Long]
    /\ \A a \in Rows : a \notin Opened => Opening[a] = 0
    /\ \A a \in Accounts : Opening[a] >= 0

CurrencyOfRow(a) == IF a \in Accounts THEN CurrencyOf[a] ELSE a

\* The clearing account a deposit or a withdrawal is booked against.
Clearing(c) == CurrencyOf[c.account]

\* The account a command debits.  In all three executors this row is read
\* before the credited one, and flushed before it.
Debit(c) == IF c.kind = "deposit" THEN Clearing(c) ELSE c.account

\* The account a command credits.
Credit(c) ==
    IF c.kind = "transfer" THEN c.to
    ELSE IF c.kind = "deposit" THEN c.account
    ELSE Clearing(c)

===============================================================================
