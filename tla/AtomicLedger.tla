------------------------------ MODULE AtomicLedger ------------------------------
(***************************************************************************)
(* What the ledger promises its callers, without attempts, versions, row   *)
(* locks or retries: each request is settled once, either by moving its    *)
(* amount between the two accounts in one indivisible step, against the    *)
(* balances of that very moment, or by moving nothing.                     *)
(***************************************************************************)
EXTENDS LedgerBase

VARIABLES
    cmd,        \* [Requests -> Commands], what each request asks for
    opened,     \* the accounts that exist
    balance,    \* [Rows -> Int]
    settled     \* [Requests -> {"no", "moved", "refused"}]

avars == <<cmd, opened, balance, settled>>

Init ==
    /\ cmd \in [Requests -> Commands]
    /\ opened = Opened
    /\ balance = Opening
    /\ settled = [r \in Requests |-> "no"]

\* The money of request r moves.  Only a system account may be overdrawn, the
\* legs are in one currency, and a system account is opened by its first use.
Move(r) ==
    LET c == cmd[r]
        d == Debit(c)
        e == Credit(c)
    IN  /\ settled[r] = "no"
        /\ c.amount > 0
        /\ d # e
        /\ CurrencyOfRow(d) = c.currency
        /\ CurrencyOfRow(e) = c.currency
        /\ {d, e} \cap Accounts \subseteq opened
        /\ d \in Accounts => balance[d] >= c.amount
        /\ balance[d] - c.amount \in Long
        /\ balance[e] + c.amount \in Long
        /\ balance' = [balance EXCEPT ![d] = @ - c.amount, ![e] = @ + c.amount]
        /\ opened' = opened \cup {d, e}
        /\ settled' = [settled EXCEPT ![r] = "moved"]
        /\ UNCHANGED cmd

\* Requests settled without moving money: one that is refused, or all those in
\* progress when the process dies.
Refuse(S) ==
    /\ \A r \in S : settled[r] = "no"
    /\ settled' = [r \in Requests |-> IF r \in S THEN "refused" ELSE settled[r]]
    /\ UNCHANGED <<cmd, opened, balance>>

Open(a) ==
    /\ a \notin opened
    /\ opened' = opened \cup {a}
    /\ UNCHANGED <<cmd, balance, settled>>

Next ==
    \/ \E r \in Requests : Move(r)
    \/ \E S \in SUBSET Requests : Refuse(S)
    \/ \E a \in Accounts : Open(a)

Spec == Init /\ [][Next]_avars

===============================================================================
