------------------------------ MODULE LedgerProofs ------------------------------
(***************************************************************************)
(* Proofs about Ledger for every set of accounts, currencies, requests and *)
(* commands.                                                               *)
(***************************************************************************)
EXTENDS Ledger, SumTheorems, TLAPS

\* What the checks of LoadAccount leave true of an attempt.
Accepted(r) ==
    LET c == cmd[r]
    IN  /\ c.amount > 0
        /\ Debit(c) # Credit(c)
        /\ status[c.account] # "ABSENT"
        /\ c.kind = "transfer" => status[c.to] # "ABSENT"

\* An attempt that does not create the clearing account has found it; for one
\* that does, the account is still absent or has been created, and then
\* updated, by another request.
ClearingKnown(r) ==
    LET u == Clearing(cmd[r])
    IN  cmd[r].kind # "transfer" =>
            IF snap[r].creates THEN status[u] = "ABSENT" \/ version[u] > 0
            ELSE status[u] # "ABSENT"

\* A row that was read is the current one as long as its version is.
ReadOf(a, row) ==
    /\ row.version <= version[a]
    /\ row.version = version[a] => row.balance = balance[a]

DebitRead(r) ==
    LET c == cmd[r]
        d == Debit(c)
    IN  /\ CurrencyOfRow(d) = c.currency
        /\ snap[r].debit.balance - c.amount \in Long
        /\ d \in Accounts => snap[r].debit.balance - c.amount >= 0
        /\ ReadOf(d, snap[r].debit)

CreditRead(r) ==
    LET c == cmd[r]
        e == Credit(c)
    IN  /\ CurrencyOfRow(e) = c.currency
        /\ snap[r].credit.balance + c.amount \in Long
        /\ ReadOf(e, snap[r].credit)

\* The locks an attempt holds protect what it has read.
HoldsInsert(r) ==
    LET u == Clearing(cmd[r])
    IN  lock[u] = r /\ status[u] = "ABSENT"

HoldsDebit(r) ==
    LET d == Debit(cmd[r])
    IN  lock[d] = r /\ version[d] = snap[r].debit.version

RequestInv(r) ==
    /\ phase[r] = "done" <=> result[r] # "PENDING"
    /\ snap[r].creates => /\ cmd[r].kind # "transfer"
                          /\ phase[r] \notin {"account", "clearing", "done"}
    /\ phase[r] \notin {"account", "done"} => Accepted(r)
    /\ phase[r] = "clearing" => cmd[r].kind # "transfer"
    /\ phase[r] \notin {"account", "clearing", "done"} => ClearingKnown(r)
    /\ phase[r] \in {"credit", "insert", "updateDebit", "updateCredit"} => DebitRead(r)
    /\ phase[r] \in {"insert", "updateDebit", "updateCredit"} => CreditRead(r)
    /\ phase[r] = "insert" => snap[r].creates
    /\ phase[r] \in {"updateDebit", "updateCredit"} /\ snap[r].creates => HoldsInsert(r)
    /\ phase[r] = "updateCredit" => HoldsDebit(r)

RequestsInv == \A r \in Requests : RequestInv(r)

AbsentRows == \A a \in Rows : status[a] = "ABSENT" => balance[a] = 0 /\ version[a] = 0

IInv ==
    /\ TypeOK
    /\ RequestsInv
    /\ AbsentRows
    /\ BalanceMatchesEntries
    /\ NoOverdraft

-------------------------------------------------------------------------------
(* The two legs of a command *)

\* Both legs of a command are accounts, and they and its clearing account have rows.
LEMMA LegsAreRows ==
    ASSUME NEW c \in Commands
    PROVE  /\ c \in CommandType
           /\ c.amount \in Int
           /\ c.currency \in Currencies
           /\ c.account \in Accounts
           /\ c.account \in Rows
           /\ c.to \in Rows
           /\ Clearing(c) \in Currencies
           /\ Clearing(c) \in Rows
           /\ Clearing(c) \notin Accounts
           /\ Debit(c) \in Rows
           /\ Credit(c) \in Rows
<1>1. c \in CommandType
  BY LedgerConstants
<1>2. /\ c.amount \in Long /\ c.currency \in Currencies /\ c.account \in Accounts
      /\ c.to \in Rows
  BY <1>1 DEF CommandType
<1>3. Clearing(c) \in Currencies
  BY <1>2, LedgerConstants DEF Clearing
<1> QED
  BY <1>1, <1>2, <1>3, LedgerConstants DEF Debit, Credit, Rows, Long

-------------------------------------------------------------------------------
(* Steps that leave the rows alone *)

\* A request whose own state, rows and locks a step leaves alone keeps its part
\* of the invariant.
LEMMA FrameRequest ==
    ASSUME TypeOK, NEW q \in Requests, RequestInv(q), UNCHANGED <<cmd, status, balance, version>>,
           phase'[q] = phase[q], snap'[q] = snap[q], result'[q] = result[q],
           \A a \in Rows : lock[a] = q => lock'[a] = q
    PROVE  RequestInv(q)'
<1> cmd[q] \in Commands
  BY DEF TypeOK
<1> /\ Debit(cmd[q]) \in Rows
    /\ Clearing(cmd[q]) \in Rows
  BY LegsAreRows
<1>1. cmd' = cmd /\ status' = status /\ balance' = balance /\ version' = version
  OBVIOUS
<1>2. /\ Accepted(q)' <=> Accepted(q)
      /\ ClearingKnown(q)' <=> ClearingKnown(q)
  BY <1>1 DEF Accepted, ClearingKnown
<1>3. /\ DebitRead(q)' <=> DebitRead(q)
      /\ CreditRead(q)' <=> CreditRead(q)
  BY <1>1 DEF DebitRead, CreditRead, ReadOf
<1>4. HoldsInsert(q) => HoldsInsert(q)'
  BY <1>1 DEF HoldsInsert
<1>5. HoldsDebit(q) => HoldsDebit(q)'
  BY <1>1 DEF HoldsDebit
<1> QED
  BY <1>1, <1>2, <1>3, <1>4, <1>5 DEF RequestInv

\* The parts of the invariant that only speak of rows.
LEMMA FrameRows ==
    ASSUME IInv, UNCHANGED rowVars
    PROVE  AbsentRows' /\ BalanceMatchesEntries' /\ NoOverdraft'
BY DEF IInv, rowVars, AbsentRows, BalanceMatchesEntries, NoOverdraft

\* An attempt that has ended, or not begun, claims nothing.
LEMMA IdleRequest ==
    ASSUME NEW r \in Requests,
           phase'[r] \in {"account", "done"}, snap'[r] = NoSnapshot,
           phase'[r] = "done" <=> result'[r] # "PENDING"
    PROVE  RequestInv(r)'
BY DEF RequestInv, NoSnapshot

\* The empty snapshot, with which an attempt begins, is a snapshot.
LEMMA NoSnapshotType == NoSnapshot \in Snapshot
BY LedgerConstants DEF NoSnapshot, Snapshot, RowRead, NewRow, Long

\* Answering a request with an exception, its locks released, keeps the invariant.
LEMMA RefuseKeeps ==
    ASSUME IInv, NEW r \in Requests, NEW why \in Refusals, Refuse(r, why)
    PROVE  IInv'
<1> USE DEF Refuse
<1>1. TypeOK'
  BY NoSnapshotType DEF IInv, TypeOK, rowVars, Released, Phases
<1>2. ASSUME NEW q \in Requests PROVE RequestInv(q)'
  <2>1. CASE q = r
    BY <2>1, IdleRequest DEF IInv, TypeOK, Refusals
  <2>2. CASE q # r
    BY <2>2, FrameRequest DEF IInv, TypeOK, RequestsInv, rowVars, Released
  <2> QED BY <2>1, <2>2
<1> QED
  BY <1>1, <1>2, FrameRows DEF IInv, RequestsInv

\* So does a retry, or giving up, after a stale version.
LEMMA StaleKeeps ==
    ASSUME IInv, NEW r \in Requests, Stale(r), phase[r] # "done"
    PROVE  IInv'
<1> USE DEF Stale, Retry, GiveUp
<1>1. TypeOK'
  <2>1. failures[r] + 1 \in 0..MaxAttempts
    BY LedgerBounds DEF IInv, TypeOK
  <2>2. CASE Retry(r)
    BY <2>1, <2>2, NoSnapshotType DEF IInv, TypeOK, rowVars, Released, Phases
  <2>3. CASE GiveUp(r)
    BY <2>1, <2>3, NoSnapshotType DEF IInv, TypeOK, rowVars, Released, Phases, Refusals
  <2> QED BY <2>2, <2>3
<1>2. ASSUME NEW q \in Requests PROVE RequestInv(q)'
  <2>1. CASE q = r
    <3>1. result[r] = "PENDING"
      BY DEF IInv, RequestsInv, RequestInv
    <3> QED
      BY <2>1, <3>1, IdleRequest DEF IInv, TypeOK
  <2>2. CASE q # r
    BY <2>2, FrameRequest DEF IInv, TypeOK, RequestsInv, rowVars, Released
  <2> QED BY <2>1, <2>2
<1>3. UNCHANGED rowVars
  OBVIOUS
<1> QED
  BY <1>1, <1>2, <1>3, FrameRows DEF IInv, RequestsInv

-------------------------------------------------------------------------------
(* The reads *)

\* A step of r that moves only its own attempt on, and not to its end.
LEMMA LocalStep ==
    ASSUME IInv, NEW r \in Requests, phase'[r] \in Phases, snap'[r] \in Snapshot,
           phase' = [phase EXCEPT ![r] = phase'[r]],
           snap' = [snap EXCEPT ![r] = snap'[r]],
           UNCHANGED <<cmd, rowVars, lock, failures, result>>,
           RequestInv(r)'
    PROVE  IInv'
<1>1. TypeOK'
  BY DEF IInv, TypeOK, rowVars
<1>2. ASSUME NEW q \in Requests, q # r PROVE RequestInv(q)'
  BY <1>2, FrameRequest DEF IInv, TypeOK, RequestsInv, rowVars
<1> QED
  BY <1>1, <1>2, FrameRows DEF IInv, RequestsInv

\* What LoadAccount has checked when it finds no reason to refuse.
LEMMA Acceptance ==
    ASSUME NEW c \in Commands, Refusal(c) = "none"
    PROVE  /\ c.amount > 0
           /\ Debit(c) # Credit(c)
           /\ status[c.account] # "ABSENT"
           /\ c.kind = "transfer" => status[c.to] # "ABSENT"
<1>1. c.amount \in Int /\ c.account \in Accounts /\ Clearing(c) \notin Accounts /\ c.kind \in Kinds
  BY LegsAreRows DEF CommandType
<1>2. CASE c.kind = "transfer"
  BY <1>1, <1>2 DEF Refusal, TransferRefusal, Debit, Credit
<1>3. CASE c.kind = "deposit"
  BY <1>1, <1>3 DEF Refusal, DepositRefusal, Debit, Credit
<1>4. CASE c.kind = "withdraw"
  BY <1>1, <1>4 DEF Refusal, WithdrawRefusal, Debit, Credit
<1> QED
  BY <1>1, <1>2, <1>3, <1>4 DEF Kinds

\* Every answer that is not "none" is one of the refusals.
LEMMA RefusalTypes ==
    /\ \A c : Refusal(c) \in Refusals \cup {"none"}
    /\ \A a, c, n : MoneyRefusal(a, c, n) \in Refusals \cup {"none"}
    /\ \A a, c, n : DebitRefusal(a, c, n) \in Refusals \cup {"none"}
<1>1. ASSUME NEW c PROVE Refusal(c) \in Refusals \cup {"none"}
  BY DEF Refusal, TransferRefusal, DepositRefusal, WithdrawRefusal, Refusals
<1>2. ASSUME NEW a, NEW c, NEW n PROVE MoneyRefusal(a, c, n) \in Refusals \cup {"none"}
  BY DEF MoneyRefusal, Refusals
<1>3. ASSUME NEW a, NEW c, NEW n PROVE DebitRefusal(a, c, n) \in Refusals \cup {"none"}
  BY <1>2 DEF DebitRefusal, Refusals
<1> QED
  BY <1>1, <1>2, <1>3

\* The checks on the account rows: an attempt goes on only with what Accepted says.
LEMMA LoadAccountKeeps ==
    ASSUME IInv, NEW r \in Requests, LoadAccount(r)
    PROVE  IInv'
<1> DEFINE c == cmd[r]
<1>0. c \in Commands /\ phase[r] = "account"
  BY DEF LoadAccount, IInv, TypeOK
<1>1. CASE Refusal(c) # "none"
  <2>1. Refuse(r, Refusal(c))
    BY <1>1 DEF LoadAccount
  <2> QED BY <1>1, <2>1, RefusalTypes, RefuseKeeps
<1>2. CASE Refusal(c) = "none"
  <2>1. /\ phase' = [phase EXCEPT ![r] = IF c.kind = "transfer" THEN "debit" ELSE "clearing"]
        /\ UNCHANGED <<cmd, rowVars, lock, snap, failures, result>>
    BY <1>2 DEF LoadAccount
  <2>2. phase'[r] = IF c.kind = "transfer" THEN "debit" ELSE "clearing"
    BY <2>1 DEF IInv, TypeOK
  <2>3. snap'[r] = snap[r] /\ snap' = [snap EXCEPT ![r] = snap'[r]] /\ snap'[r] \in Snapshot
    BY <2>1 DEF IInv, TypeOK
  <2>4. Accepted(r)'
    BY <1>0, <1>2, <2>1, Acceptance DEF Accepted, rowVars
  <2>5. ~snap[r].creates /\ result[r] = "PENDING"
    BY <1>0 DEF IInv, RequestsInv, RequestInv
  <2>6. RequestInv(r)'
    BY <2>1, <2>2, <2>3, <2>4, <2>5 DEF RequestInv, ClearingKnown
  <2> QED
    BY <2>1, <2>2, <2>3, <2>6, LocalStep DEF Phases
<1> QED BY <1>1, <1>2

\* Looking for the clearing account: an attempt that plans to create it saw no row.
LEMMA FindClearingKeeps ==
    ASSUME IInv, NEW r \in Requests, FindClearing(r)
    PROVE  IInv'
<1> DEFINE u == Clearing(cmd[r])
<1>0. cmd[r] \in Commands /\ phase[r] = "clearing" /\ snap[r] \in Snapshot
  BY DEF FindClearing, IInv, TypeOK
<1>1. /\ phase' = [phase EXCEPT ![r] = "debit"]
      /\ snap'[r] = [snap[r] EXCEPT !.creates = (status[u] = "ABSENT")]
      /\ snap' = [snap EXCEPT ![r] = snap'[r]]
      /\ UNCHANGED <<cmd, rowVars, lock, failures, result>>
  BY DEF FindClearing, IInv, TypeOK
<1>2. phase'[r] = "debit"
  BY <1>1 DEF IInv, TypeOK
<1>3. snap'[r] \in Snapshot /\ (snap'[r].creates <=> status[u] = "ABSENT")
  BY <1>0, <1>1 DEF Snapshot
<1>4. Accepted(r) /\ cmd[r].kind # "transfer" /\ result[r] = "PENDING"
  BY <1>0 DEF IInv, RequestsInv, RequestInv
<1>5. Accepted(r)' /\ ClearingKnown(r)'
  BY <1>1, <1>3, <1>4 DEF Accepted, ClearingKnown, rowVars
<1>6. RequestInv(r)'
  BY <1>1, <1>2, <1>3, <1>4, <1>5 DEF RequestInv
<1> QED
  BY <1>1, <1>2, <1>3, <1>6, LocalStep DEF Phases

\* A row is current when it is read; a row the attempt will insert itself stands
\* for an absent one.
LEMMA ReadIsCurrent ==
    ASSUME IInv, NEW r \in Requests, NEW a \in Rows,
           phase[r] \notin {"account", "clearing", "done"}
    PROVE  Read(r, a) \in RowRead /\ ReadOf(a, Read(r, a))
<1>0. balance[a] \in Long /\ version[a] \in Nat
  BY DEF IInv, TypeOK
<1>1. CASE snap[r].creates /\ a = Clearing(cmd[r])
  <2>1. Read(r, a) = [balance |-> 0, version |-> 0]
    BY <1>1 DEF Read, NewRow
  <2>2. status[a] = "ABSENT" \/ version[a] > 0
    BY <1>1 DEF IInv, RequestsInv, RequestInv, ClearingKnown
  <2>3. status[a] = "ABSENT" => balance[a] = 0
    BY DEF IInv, AbsentRows
  <2> QED
    BY <1>0, <2>1, <2>2, <2>3, LedgerConstants DEF ReadOf, RowRead, Long
<1>2. CASE ~(snap[r].creates /\ a = Clearing(cmd[r]))
  BY <1>0, <1>2 DEF Read, ReadOf, RowRead
<1> QED BY <1>1, <1>2

\* Reading the debited row and checking the funds against what was read.
LEMMA LoadDebitKeeps ==
    ASSUME IInv, NEW r \in Requests, LoadDebit(r)
    PROVE  IInv'
<1> DEFINE c == cmd[r]
           d == Debit(c)
           row == Read(r, d)
           why == DebitRefusal(d, c, row.balance - c.amount)
<1>0. c \in Commands /\ phase[r] = "debit" /\ d \in Rows /\ snap[r] \in Snapshot
  BY LegsAreRows DEF LoadDebit, IInv, TypeOK
<1>1. CASE why # "none"
  <2>1. Refuse(r, why)
    BY <1>1 DEF LoadDebit
  <2>2. why \in Refusals
    BY <1>1, RefusalTypes
  <2> HIDE DEF why
  <2> QED BY <2>1, <2>2, RefuseKeeps
<1>2. CASE why = "none"
  <2>1. /\ phase' = [phase EXCEPT ![r] = "credit"]
        /\ snap'[r] = [snap[r] EXCEPT !.debit = row]
        /\ snap' = [snap EXCEPT ![r] = snap'[r]]
        /\ UNCHANGED <<cmd, rowVars, lock, failures, result>>
    BY <1>2 DEF LoadDebit, IInv, TypeOK
  <2>2. phase'[r] = "credit"
    BY <2>1 DEF IInv, TypeOK
  <2>3. row \in RowRead /\ ReadOf(d, row)
    BY <1>0, ReadIsCurrent
  <2>4. snap'[r] \in Snapshot /\ snap'[r].debit = row /\ snap'[r].creates = snap[r].creates
    BY <1>0, <2>1, <2>3 DEF Snapshot
  <2>5. /\ CurrencyOfRow(d) = c.currency
        /\ row.balance - c.amount \in Long
        /\ d \in Accounts => ~(row.balance - c.amount < 0)
    BY <1>2, Zenon DEF DebitRefusal, MoneyRefusal
  <2>6. row.balance - c.amount \in Int
    BY <2>5 DEF Long
  <2>7. DebitRead(r)'
    BY <2>1, <2>3, <2>4, <2>5, <2>6 DEF DebitRead, ReadOf, rowVars
  <2>8. /\ Accepted(r) /\ ClearingKnown(r) /\ result[r] = "PENDING"
        /\ snap[r].creates => c.kind # "transfer"
    BY <1>0 DEF IInv, RequestsInv, RequestInv
  <2>9. Accepted(r)' /\ ClearingKnown(r)'
    BY <2>1, <2>4, <2>8 DEF Accepted, ClearingKnown, rowVars
  <2>10. RequestInv(r)'
    BY <2>1, <2>2, <2>4, <2>7, <2>8, <2>9 DEF RequestInv
  <2> QED
    BY <2>1, <2>2, <2>4, <2>10, LocalStep DEF Phases
<1> QED BY <1>1, <1>2

\* Reading the credited row.
LEMMA LoadCreditKeeps ==
    ASSUME IInv, NEW r \in Requests, LoadCredit(r)
    PROVE  IInv'
<1> DEFINE c == cmd[r]
           e == Credit(c)
           row == Read(r, e)
           why == MoneyRefusal(e, c, row.balance + c.amount)
<1>0. c \in Commands /\ phase[r] = "credit" /\ e \in Rows /\ snap[r] \in Snapshot
  BY LegsAreRows DEF LoadCredit, IInv, TypeOK
<1>1. CASE why # "none"
  <2>1. Refuse(r, why)
    BY <1>1 DEF LoadCredit
  <2>2. why \in Refusals
    BY <1>1, RefusalTypes
  <2> HIDE DEF why
  <2> QED BY <2>1, <2>2, RefuseKeeps
<1>2. CASE why = "none"
  <2>1. /\ phase' = [phase EXCEPT ![r] = IF snap[r].creates THEN "insert" ELSE "updateDebit"]
        /\ snap'[r] = [snap[r] EXCEPT !.credit = row]
        /\ snap' = [snap EXCEPT ![r] = snap'[r]]
        /\ UNCHANGED <<cmd, rowVars, lock, failures, result>>
    BY <1>2 DEF LoadCredit, IInv, TypeOK
  <2>2. phase'[r] = IF snap[r].creates THEN "insert" ELSE "updateDebit"
    BY <2>1 DEF IInv, TypeOK
  <2>3. row \in RowRead /\ ReadOf(e, row)
    BY <1>0, ReadIsCurrent
  <2>4. /\ snap'[r] \in Snapshot /\ snap'[r].credit = row
        /\ snap'[r].creates = snap[r].creates /\ snap'[r].debit = snap[r].debit
    BY <1>0, <2>1, <2>3 DEF Snapshot
  <2>5. /\ CurrencyOfRow(e) = c.currency
        /\ row.balance + c.amount \in Long
    BY <1>2, Zenon DEF MoneyRefusal
  <2>6. CreditRead(r)'
    BY <2>1, <2>3, <2>4, <2>5 DEF CreditRead, ReadOf, rowVars
  <2>7. /\ Accepted(r) /\ ClearingKnown(r) /\ DebitRead(r) /\ result[r] = "PENDING"
        /\ snap[r].creates => c.kind # "transfer"
    BY <1>0 DEF IInv, RequestsInv, RequestInv
  <2>8. Accepted(r)' /\ ClearingKnown(r)' /\ DebitRead(r)'
    BY <2>1, <2>4, <2>7 DEF Accepted, ClearingKnown, DebitRead, ReadOf, rowVars
  <2>9. RequestInv(r)'
    BY <2>1, <2>2, <2>4, <2>6, <2>7, <2>8 DEF RequestInv
  <2> QED
    BY <2>1, <2>2, <2>4, <2>9, LocalStep DEF Phases
<1> QED BY <1>1, <1>2

-------------------------------------------------------------------------------
(* The flush *)

\* A step of r that takes the lock of row a, free or its own, and moves on.
LEMMA LockStep ==
    ASSUME IInv, NEW r \in Requests, NEW a \in Rows, lock[a] \in {None, r},
           phase'[r] \in Phases,
           phase' = [phase EXCEPT ![r] = phase'[r]],
           lock' = [lock EXCEPT ![a] = r],
           UNCHANGED <<cmd, rowVars, snap, failures, result>>,
           RequestInv(r)'
    PROVE  IInv'
<1>1. TypeOK'
  BY DEF IInv, TypeOK, rowVars
<1>2. ASSUME NEW q \in Requests, q # r PROVE RequestInv(q)'
  BY <1>2, FrameRequest, LedgerBounds DEF IInv, TypeOK, RequestsInv, rowVars
<1> QED
  BY <1>1, <1>2, FrameRows DEF IInv, RequestsInv

\* Taking the unique key of the clearing account: nobody else can insert it now.
LEMMA InsertClearingKeeps ==
    ASSUME IInv, NEW r \in Requests, InsertClearing(r)
    PROVE  IInv'
<1> DEFINE u == Clearing(cmd[r])
<1>0. cmd[r] \in Commands /\ phase[r] = "insert" /\ u \in Rows
  BY LegsAreRows DEF InsertClearing, IInv, TypeOK
<1>1. CASE ~Current(r)
  BY <1>1, RefuseKeeps DEF InsertClearing, Refusals
<1>2. CASE Current(r)
  <2>1. /\ ~Waits(r)
        /\ lock' = [lock EXCEPT ![u] = r]
        /\ phase' = [phase EXCEPT ![r] = "updateDebit"]
        /\ UNCHANGED <<cmd, rowVars, snap, failures, result>>
    BY <1>2 DEF InsertClearing
  <2>2. phase'[r] = "updateDebit" /\ lock'[u] = r
    BY <1>0, <2>1 DEF IInv, TypeOK
  <2>3. status[u] = "ABSENT" /\ lock[u] \in {None, r}
    BY <1>0, <1>2, <2>1 DEF Waits, Current, Wants, Flushing
  <2>4. /\ Accepted(r) /\ ClearingKnown(r) /\ DebitRead(r) /\ CreditRead(r)
        /\ result[r] = "PENDING" /\ snap[r].creates /\ cmd[r].kind # "transfer"
    BY <1>0 DEF IInv, RequestsInv, RequestInv
  <2>5. /\ Accepted(r)' /\ ClearingKnown(r)' /\ DebitRead(r)' /\ CreditRead(r)'
    BY <2>1, <2>4 DEF Accepted, ClearingKnown, DebitRead, CreditRead, ReadOf, rowVars
  <2>6. HoldsInsert(r)'
    BY <2>1, <2>2, <2>3 DEF HoldsInsert, rowVars
  <2>7. RequestInv(r)'
    BY <2>1, <2>2, <2>4, <2>5, <2>6 DEF RequestInv
  <2> QED
    BY <1>0, <2>1, <2>2, <2>3, <2>7, LockStep DEF Phases
<1> QED BY <1>1, <1>2

\* Locking the debited row at the version that was read: it stays current.
LEMMA UpdateDebitKeeps ==
    ASSUME IInv, NEW r \in Requests, UpdateDebit(r)
    PROVE  IInv'
<1> DEFINE d == Debit(cmd[r])
<1>0. cmd[r] \in Commands /\ phase[r] = "updateDebit" /\ d \in Rows /\ Clearing(cmd[r]) \in Rows
  BY LegsAreRows DEF UpdateDebit, IInv, TypeOK
<1>1. CASE ~Current(r)
  BY <1>0, <1>1, StaleKeeps DEF UpdateDebit
<1>2. CASE Current(r)
  <2>1. /\ ~Waits(r)
        /\ lock' = [lock EXCEPT ![d] = r]
        /\ phase' = [phase EXCEPT ![r] = "updateCredit"]
        /\ UNCHANGED <<cmd, rowVars, snap, failures, result>>
    BY <1>2 DEF UpdateDebit
  <2>2. /\ phase'[r] = "updateCredit" /\ lock'[d] = r
        /\ \A a \in Rows : lock[a] = r => lock'[a] = r
    BY <1>0, <2>1 DEF IInv, TypeOK
  <2>3. version[d] = snap[r].debit.version /\ lock[d] \in {None, r}
    BY <1>0, <1>2, <2>1 DEF Waits, Current, Wants, Flushing
  <2>4. /\ Accepted(r) /\ ClearingKnown(r) /\ DebitRead(r) /\ CreditRead(r)
        /\ result[r] = "PENDING"
        /\ snap[r].creates => cmd[r].kind # "transfer" /\ HoldsInsert(r)
    BY <1>0 DEF IInv, RequestsInv, RequestInv
  <2>5. /\ Accepted(r)' /\ ClearingKnown(r)' /\ DebitRead(r)' /\ CreditRead(r)'
    BY <2>1, <2>4 DEF Accepted, ClearingKnown, DebitRead, CreditRead, ReadOf, rowVars
  <2>6. HoldsDebit(r)' /\ (snap[r].creates => HoldsInsert(r)')
    BY <1>0, <2>1, <2>2, <2>3, <2>4 DEF HoldsInsert, HoldsDebit, rowVars
  <2>7. RequestInv(r)'
    BY <2>1, <2>2, <2>4, <2>5, <2>6 DEF RequestInv
  <2> QED
    BY <1>0, <2>1, <2>2, <2>3, <2>7, LockStep DEF Phases
<1> QED BY <1>1, <1>2

\* What the entries of a command with two different legs do to the sums.
LEMMA PostEntriesEffect ==
    ASSUME TypeOK, NEW c \in Commands, Debit(c) # Credit(c)
    PROVE  /\ PostEntries(c) \in [Rows -> [Currencies -> Int]]
           /\ \A a \in Rows : \A u \in Currencies :
                 PostEntries(c)[a][u] =
                     IF u # c.currency THEN entrySum[a][u]
                     ELSE IF a = Debit(c) THEN entrySum[a][u] - c.amount
                     ELSE IF a = Credit(c) THEN entrySum[a][u] + c.amount
                     ELSE entrySum[a][u]
<1>1. /\ Debit(c) \in Rows /\ Credit(c) \in Rows /\ c.currency \in Currencies /\ c.amount \in Int
  BY LegsAreRows
<1>2. entrySum \in [Rows -> [Currencies -> Int]]
  BY DEF TypeOK
<1> DEFINE d == Debit(c)
           e == Credit(c)
           v == c.currency
           f == [entrySum EXCEPT ![d] = [entrySum[d] EXCEPT ![v] = @ - c.amount]]
           g == [f EXCEPT ![e] = [f[e] EXCEPT ![v] = @ + c.amount]]
<1>3. PostEntries(c) = g
  BY DEF PostEntries
<1>4. /\ f \in [Rows -> [Currencies -> Int]]
      /\ \A a \in Rows : a # d => f[a] = entrySum[a]
      /\ \A u \in Currencies : f[d][u] = IF u = v THEN entrySum[d][u] - c.amount ELSE entrySum[d][u]
  <2>1. [entrySum[d] EXCEPT ![v] = @ - c.amount] \in [Currencies -> Int]
    BY <1>1, <1>2
  <2> QED BY <1>1, <1>2, <2>1
<1> HIDE DEF f
<1>5. /\ g \in [Rows -> [Currencies -> Int]]
      /\ \A a \in Rows : a # e => g[a] = f[a]
      /\ \A u \in Currencies : g[e][u] = IF u = v THEN f[e][u] + c.amount ELSE f[e][u]
  <2>1. [f[e] EXCEPT ![v] = @ + c.amount] \in [Currencies -> Int]
    BY <1>1, <1>4
  <2> QED BY <1>1, <1>4, <2>1
<1> HIDE DEF g
<1> QED
  BY <1>1, <1>3, <1>4, <1>5

\* When an attempt commits, both its reads are current: the step has the effect
\* an atomic one would have.
LEMMA CommitEffect ==
    ASSUME IInv, NEW r \in Requests, phase[r] = "updateCredit", Current(r), ~Waits(r), Commit(r)
    PROVE  LET c == cmd[r]
               d == Debit(c)
               e == Credit(c)
           IN  /\ c \in Commands /\ d \in Rows /\ e \in Rows /\ d # e /\ c.amount > 0
               /\ CurrencyOfRow(d) = c.currency /\ CurrencyOfRow(e) = c.currency
               /\ lock[d] = r /\ lock[e] \in {None, r}
               /\ balance[d] - c.amount \in Long /\ balance[e] + c.amount \in Long
               /\ d \in Accounts => balance[d] - c.amount >= 0
               /\ balance' = [balance EXCEPT ![d] = @ - c.amount, ![e] = @ + c.amount]
               /\ version' = [version EXCEPT ![d] = @ + 1, ![e] = @ + 1]
<1> DEFINE c == cmd[r]
           d == Debit(c)
           e == Credit(c)
<1>1. c \in Commands /\ d \in Rows /\ e \in Rows
  BY LegsAreRows DEF IInv, TypeOK
<1>2. Accepted(r) /\ DebitRead(r) /\ CreditRead(r) /\ HoldsDebit(r)
  BY DEF IInv, RequestsInv, RequestInv
<1>3. /\ snap[r].debit.version = version[d] /\ snap[r].debit.balance = balance[d]
  BY <1>2 DEF DebitRead, HoldsDebit, ReadOf
<1>4. /\ snap[r].credit.version = version[e] /\ snap[r].credit.balance = balance[e]
  BY <1>2 DEF CreditRead, ReadOf, Current
<1>5. lock[e] \in {None, r}
  BY DEF Waits, Wants, Flushing
<1>6. d # e /\ c.amount > 0
  BY <1>2 DEF Accepted
<1>7. balance \in [Rows -> Long] /\ version \in [Rows -> Nat]
  BY DEF IInv, TypeOK
<1>8. /\ balance' = [balance EXCEPT ![d] = @ - c.amount, ![e] = @ + c.amount]
      /\ version' = [version EXCEPT ![d] = @ + 1, ![e] = @ + 1]
  BY <1>1, <1>3, <1>4, <1>6, <1>7 DEF Commit
<1>9. /\ CurrencyOfRow(d) = c.currency /\ CurrencyOfRow(e) = c.currency
      /\ balance[d] - c.amount \in Long /\ balance[e] + c.amount \in Long
      /\ d \in Accounts => balance[d] - c.amount >= 0
      /\ lock[d] = r
  BY <1>2, <1>3, <1>4 DEF DebitRead, CreditRead, HoldsDebit
<1> QED
  BY <1>1, <1>5, <1>6, <1>8, <1>9

\* The status column after a commit: only an absent clearing account, whose key
\* the attempt holds and which is one of its legs, becomes ACTIVE.
LEMMA CommitStatus ==
    ASSUME IInv, NEW r \in Requests, phase[r] = "updateCredit", Commit(r)
    PROVE  LET c == cmd[r]
               u == Clearing(c)
           IN  /\ status' \in [Rows -> Statuses]
               /\ \A a \in Rows : status'[a] # status[a] =>
                     /\ a = u /\ u \in {Debit(c), Credit(c)} /\ lock[u] = r
                     /\ status[a] = "ABSENT" /\ status'[a] = "ACTIVE"
               /\ status'[Debit(c)] # "ABSENT"
               /\ status'[Credit(c)] # "ABSENT"
               /\ {Debit(c), Credit(c)} \cap Accounts \subseteq {a \in Rows : status[a] # "ABSENT"}
<1> DEFINE c == cmd[r]
           u == Clearing(c)
<1>1. /\ c \in Commands /\ u \in Rows /\ u \notin Accounts /\ c.account \in Rows
      /\ c.to \in Rows /\ c.kind \in Kinds
  BY LegsAreRows DEF IInv, TypeOK, CommandType
<1>2. /\ Accepted(r) /\ ClearingKnown(r)
      /\ snap[r].creates => c.kind # "transfer" /\ HoldsInsert(r)
  BY DEF IInv, RequestsInv, RequestInv
<1>3. status \in [Rows -> Statuses]
  BY DEF IInv, TypeOK
<1>4. /\ status' = [status EXCEPT ![u] = IF snap[r].creates THEN "ACTIVE" ELSE @]
  BY DEF Commit
<1>5. c.kind # "transfer" => u \in {Debit(c), Credit(c)}
  BY <1>1 DEF Debit, Credit, Kinds
<1>6. ASSUME NEW a \in Rows, status'[a] # status[a]
      PROVE  /\ a = u /\ u \in {Debit(c), Credit(c)} /\ lock[u] = r
             /\ status[a] = "ABSENT" /\ status'[a] = "ACTIVE"
  <2>1. a = u /\ snap[r].creates /\ status'[a] = "ACTIVE"
    BY <1>1, <1>3, <1>4, <1>6
  <2> QED
    BY <1>2, <1>5, <2>1 DEF HoldsInsert
<1>7. status' \in [Rows -> Statuses]
  BY <1>1, <1>3, <1>4 DEF Statuses
<1>8. \A a \in Rows : status[a] # "ABSENT" => status'[a] # "ABSENT"
  BY <1>6
<1>9. c.kind # "transfer" => status'[u] # "ABSENT"
  BY <1>1, <1>2, <1>3, <1>4 DEF ClearingKnown
<1>10. status[c.account] # "ABSENT" /\ (c.kind = "transfer" => status[c.to] # "ABSENT")
  BY <1>2 DEF Accepted
<1>11. status'[Debit(c)] # "ABSENT" /\ status'[Credit(c)] # "ABSENT"
  BY <1>1, <1>8, <1>9, <1>10 DEF Debit, Credit, Kinds
<1>12. {Debit(c), Credit(c)} \cap Accounts \subseteq {a \in Rows : status[a] # "ABSENT"}
  BY <1>1, <1>10 DEF Debit, Credit, Kinds
<1> QED
  BY <1>6, <1>7, <1>11, <1>12

\* A commit leaves the other attempts sound: what they read is either untouched
\* or has a newer version now, and the rows they hold are not among its legs.
LEMMA CommitKeepsOthers ==
    ASSUME IInv, NEW r \in Requests, phase[r] = "updateCredit", Current(r), ~Waits(r), Commit(r),
           NEW q \in Requests, q # r
    PROVE  RequestInv(q)'
<1> DEFINE d == Debit(cmd[r])
           e == Credit(cmd[r])
<1>0. /\ cmd' = cmd /\ phase'[q] = phase[q] /\ snap'[q] = snap[q] /\ result'[q] = result[q]
      /\ \A a \in Rows : lock[a] = q => lock'[a] = q
  BY DEF Commit, IInv, TypeOK, Released
<1>1. /\ cmd[q] \in Commands /\ Debit(cmd[q]) \in Rows /\ Credit(cmd[q]) \in Rows
      /\ Clearing(cmd[q]) \in Rows /\ cmd[q].account \in Rows /\ cmd[q].to \in Rows
      /\ snap[q] \in Snapshot
  BY LegsAreRows DEF IInv, TypeOK
<1>2. RequestInv(q)
  BY DEF IInv, RequestsInv
<1>3. /\ d \in Rows /\ e \in Rows /\ d # e /\ lock[d] = r /\ lock[e] \in {None, r}
      /\ balance' = [balance EXCEPT ![d] = @ - cmd[r].amount, ![e] = @ + cmd[r].amount]
      /\ version' = [version EXCEPT ![d] = @ + 1, ![e] = @ + 1]
  BY CommitEffect
<1>4. balance \in [Rows -> Long] /\ version \in [Rows -> Nat]
  BY DEF IInv, TypeOK
<1>5. \A a \in Rows : /\ version'[a] >= version[a]
                      /\ version'[a] = version[a] => balance'[a] = balance[a]
                      /\ a \in {d, e} => version'[a] > 0
                      /\ lock[a] = q => version'[a] = version[a]
  BY <1>3, <1>4, LedgerBounds
<1>6. \A a \in Rows : /\ status[a] # "ABSENT" => status'[a] # "ABSENT"
                      /\ status'[a] # status[a] => a \in {d, e} /\ lock[a] = r
  BY CommitStatus
<1>7. Accepted(q) => Accepted(q)'
  BY <1>0, <1>1, <1>6 DEF Accepted
<1>8. ClearingKnown(q) => ClearingKnown(q)'
  <2> DEFINE u == Clearing(cmd[q])
  <2>1. u \in Rows /\ version[u] \in Nat /\ version'[u] \in Nat
    BY <1>1, <1>3, <1>4
  <2>2. /\ status[u] # "ABSENT" => status'[u] # "ABSENT"
        /\ version[u] > 0 => version'[u] > 0
        /\ status[u] = "ABSENT" => status'[u] = "ABSENT" \/ version'[u] > 0
    BY <1>5, <1>6, <2>1
  <2> QED
    BY <1>0, <2>2 DEF ClearingKnown
<1>9. \A a \in Rows : \A row \in RowRead : ReadOf(a, row) => ReadOf(a, row)'
  BY <1>4, <1>5, <1>3 DEF ReadOf, RowRead
<1>10. snap[q].debit \in RowRead /\ snap[q].credit \in RowRead
  BY <1>1 DEF Snapshot
<1>11. DebitRead(q) => DebitRead(q)'
  BY <1>0, <1>1, <1>9, <1>10 DEF DebitRead, ReadOf
<1>12. CreditRead(q) => CreditRead(q)'
  BY <1>0, <1>1, <1>9, <1>10 DEF CreditRead, ReadOf
<1>13. HoldsInsert(q) => HoldsInsert(q)'
  BY <1>0, <1>1, <1>6 DEF HoldsInsert
<1>14. HoldsDebit(q) => HoldsDebit(q)'
  BY <1>0, <1>1, <1>5 DEF HoldsDebit
<1> QED
  BY <1>0, <1>2, <1>7, <1>8, <1>11, <1>12, <1>13, <1>14 DEF RequestInv

\* The commit keeps every part of the invariant.
LEMMA CommitKeeps ==
    ASSUME IInv, NEW r \in Requests, phase[r] = "updateCredit", Current(r), ~Waits(r), Commit(r)
    PROVE  IInv'
<1> DEFINE c == cmd[r]
           d == Debit(c)
           e == Credit(c)
<1>1. /\ c \in Commands /\ d \in Rows /\ e \in Rows /\ d # e
      /\ CurrencyOfRow(d) = c.currency /\ CurrencyOfRow(e) = c.currency
      /\ balance[d] - c.amount \in Long /\ balance[e] + c.amount \in Long
      /\ d \in Accounts => balance[d] - c.amount >= 0
      /\ c.amount > 0
      /\ balance' = [balance EXCEPT ![d] = @ - c.amount, ![e] = @ + c.amount]
      /\ version' = [version EXCEPT ![d] = @ + 1, ![e] = @ + 1]
  BY CommitEffect
<1>2. balance \in [Rows -> Long] /\ version \in [Rows -> Nat] /\ c.amount \in Int
  BY <1>1, LegsAreRows DEF IInv, TypeOK
<1>3. entrySum' = PostEntries(c)
  BY DEF Commit
<1>4. TypeOK'
  <2>1. balance' \in [Rows -> Long] /\ version' \in [Rows -> Nat]
    BY <1>1, <1>2
  <2>2. entrySum' \in [Rows -> [Currencies -> Int]]
    BY <1>1, <1>3, PostEntriesEffect DEF IInv
  <2>3. status' \in [Rows -> Statuses]
    BY CommitStatus
  <2>4. /\ cmd' = cmd /\ failures' = failures /\ lock' = Released(r)
        /\ phase' = [phase EXCEPT ![r] = "done"]
        /\ snap' = [snap EXCEPT ![r] = NoSnapshot]
        /\ result' = [result EXCEPT ![r] = "OK"]
    BY DEF Commit
  <2>5. lock' \in [Rows -> Requests \cup {None}]
    BY <2>4 DEF Released, IInv, TypeOK
  <2> QED
    BY <2>1, <2>2, <2>3, <2>4, <2>5, NoSnapshotType DEF IInv, TypeOK, Phases
<1>5. RequestsInv'
  <2>1. RequestInv(r)'
    BY IdleRequest DEF Commit, IInv, TypeOK
  <2> QED
    BY <2>1, CommitKeepsOthers DEF RequestsInv
<1>6. AbsentRows'
  <2>1. \A a \in Rows : status'[a] = "ABSENT" => status[a] = "ABSENT" /\ a # d /\ a # e
    BY CommitStatus
  <2> QED
    BY <1>1, <1>2, <2>1 DEF AbsentRows, IInv
<1>7. BalanceMatchesEntries'
  <2> SUFFICES ASSUME NEW a \in Rows, NEW u \in Currencies
               PROVE  entrySum'[a][u] = IF u = CurrencyOfRow(a) THEN balance'[a] ELSE 0
    BY DEF BalanceMatchesEntries
  <2>1. entrySum[a][u] = IF u = CurrencyOfRow(a) THEN balance[a] ELSE 0
    BY DEF IInv, BalanceMatchesEntries
  <2>2. entrySum'[a][u] =
           IF u # c.currency THEN entrySum[a][u]
           ELSE IF a = d THEN entrySum[a][u] - c.amount
           ELSE IF a = e THEN entrySum[a][u] + c.amount
           ELSE entrySum[a][u]
    BY <1>1, <1>3, PostEntriesEffect DEF IInv
  <2>3. balance'[a] = IF a = d THEN balance[a] - c.amount
                      ELSE IF a = e THEN balance[a] + c.amount ELSE balance[a]
    BY <1>1, <1>2
  <2>4. CASE u = c.currency /\ u = CurrencyOfRow(a)
    BY <2>1, <2>2, <2>3, <2>4
  <2>5. CASE u = c.currency /\ u # CurrencyOfRow(a)
    <3>1. a # d /\ a # e
      BY <1>1, <2>5
    <3> QED BY <2>1, <2>2, <2>5, <3>1
  <2>6. CASE u # c.currency
    <3>1. u = CurrencyOfRow(a) => a # d /\ a # e
      BY <1>1, <2>6
    <3> QED BY <2>1, <2>2, <2>3, <2>6, <3>1
  <2> QED
    BY <2>4, <2>5, <2>6
<1>8. NoOverdraft'
  <2>1. \A a \in Accounts : a \in Rows /\ balance[a] >= 0
    BY DEF NoOverdraft, IInv, Rows
  <2> SUFFICES ASSUME NEW a \in Accounts PROVE balance'[a] >= 0
    BY DEF NoOverdraft
  <2>2. balance[a] \in Long
    BY <1>2, <2>1
  <2>3. balance[a] \in Int
    BY <2>2 DEF Long
  <2> QED
    BY <1>1, <1>2, <2>1, <2>3
<1> QED
  BY <1>4, <1>5, <1>6, <1>7, <1>8 DEF IInv

\* The last UPDATE either fails on a stale version or commits.
LEMMA UpdateCreditKeeps ==
    ASSUME IInv, NEW r \in Requests, UpdateCredit(r)
    PROVE  IInv'
<1>1. CASE ~Current(r)
  BY <1>1, StaleKeeps DEF UpdateCredit
<1>2. CASE Current(r)
  BY <1>2, CommitKeeps DEF UpdateCredit
<1> QED BY <1>1, <1>2

-------------------------------------------------------------------------------
(* The other writers *)

\* A step that only sets the status of accounts: one that exists never becomes
\* absent, and an absent one stays at balance 0 and version 0.
LEMMA StatusStep ==
    ASSUME IInv, NEW a \in Rows, NEW s \in {"ACTIVE", "FROZEN"},
           status[a] = "ABSENT" => a \in Accounts,
           status' = [status EXCEPT ![a] = s],
           UNCHANGED <<cmd, balance, version, entrySum, lock, phase, snap, failures, result>>
    PROVE  IInv'
<1>1. TypeOK'
  BY DEF IInv, TypeOK, Statuses
<1>2. ASSUME NEW q \in Requests PROVE RequestInv(q)'
  <2>1. /\ cmd[q] \in Commands /\ Clearing(cmd[q]) \in Rows /\ Clearing(cmd[q]) \notin Accounts
        /\ cmd[q].account \in Rows /\ cmd[q].to \in Rows
    BY LegsAreRows DEF IInv, TypeOK
  <2>2. RequestInv(q)
    BY DEF IInv, RequestsInv
  <2>3. status \in [Rows -> Statuses]
    BY DEF IInv, TypeOK
  <2>4. /\ \A b \in Rows : status[b] # "ABSENT" => status'[b] # "ABSENT"
        /\ \A b \in Rows : b \notin Accounts /\ status[b] = "ABSENT" => status'[b] = "ABSENT"
    BY <2>3
  <2>5. Accepted(q) => Accepted(q)'
    BY <2>1, <2>4 DEF Accepted
  <2>6. ClearingKnown(q) => ClearingKnown(q)'
    BY <2>1, <2>4 DEF ClearingKnown
  <2>7. HoldsInsert(q) => HoldsInsert(q)'
    BY <2>1, <2>4 DEF HoldsInsert
  <2>8. /\ DebitRead(q) => DebitRead(q)'
        /\ CreditRead(q) => CreditRead(q)'
        /\ HoldsDebit(q) => HoldsDebit(q)'
    BY DEF DebitRead, CreditRead, HoldsDebit, ReadOf
  <2> QED
    BY <2>2, <2>5, <2>6, <2>7, <2>8 DEF RequestInv
<1>3. AbsentRows' /\ BalanceMatchesEntries' /\ NoOverdraft'
  BY DEF IInv, TypeOK, AbsentRows, BalanceMatchesEntries, NoOverdraft
<1> QED
  BY <1>1, <1>2, <1>3 DEF IInv, RequestsInv

\* A crash ends every attempt and releases every lock.
LEMMA CrashKeeps ==
    ASSUME IInv, Crash
    PROVE  IInv'
<1>1. TypeOK'
  BY NoSnapshotType DEF Crash, IInv, TypeOK, rowVars, Phases, Refusals
<1>2. ASSUME NEW q \in Requests PROVE RequestInv(q)'
  <2>1. /\ phase'[q] = IF InProgress(q) THEN "done" ELSE phase[q]
        /\ snap'[q] = NoSnapshot
        /\ result'[q] = IF InProgress(q) THEN "Crashed" ELSE result[q]
    BY DEF Crash
  <2>2. phase[q] = "done" <=> result[q] # "PENDING"
    BY DEF IInv, RequestsInv, RequestInv
  <2>3. ~InProgress(q) => phase[q] \in {"account", "done"}
    BY DEF InProgress
  <2> QED
    BY <2>1, <2>2, <2>3, IdleRequest
<1>3. UNCHANGED rowVars
  BY DEF Crash
<1> QED
  BY <1>1, <1>2, <1>3, FrameRows DEF IInv, RequestsInv

-------------------------------------------------------------------------------
(* The inductive invariant *)

\* The invariant holds in a reconciled ledger in which no request has begun.
LEMMA InitInv == Init => IInv
<1> SUFFICES ASSUME Init PROVE IInv
  OBVIOUS
<1> USE DEF Init
<1>1. TypeOK
  <2>1. entrySum \in [Rows -> [Currencies -> Int]]
    BY LedgerConstants DEF Long
  <2> QED
    BY <2>1, NoSnapshotType, LedgerConstants, LedgerBounds DEF TypeOK, Statuses, Phases
<1>2. RequestsInv
  BY DEF RequestsInv, RequestInv, NoSnapshot
<1>3. AbsentRows
  BY LedgerConstants DEF AbsentRows
<1>4. BalanceMatchesEntries
  BY DEF BalanceMatchesEntries
<1>5. NoOverdraft
  BY LedgerConstants DEF NoOverdraft
<1> QED
  BY <1>1, <1>2, <1>3, <1>4, <1>5 DEF IInv

\* Every step keeps the invariant: one case for each action.
LEMMA StepInv == IInv /\ [Next]_vars => IInv'
<1> SUFFICES ASSUME IInv, [Next]_vars PROVE IInv'
  OBVIOUS
<1>1. ASSUME NEW r \in Requests, LoadAccount(r) PROVE IInv'
  BY <1>1, LoadAccountKeeps
<1>2. ASSUME NEW r \in Requests, FindClearing(r) PROVE IInv'
  BY <1>2, FindClearingKeeps
<1>3. ASSUME NEW r \in Requests, LoadDebit(r) PROVE IInv'
  BY <1>3, LoadDebitKeeps
<1>4. ASSUME NEW r \in Requests, LoadCredit(r) PROVE IInv'
  BY <1>4, LoadCreditKeeps
<1>5. ASSUME NEW r \in Requests, InsertClearing(r) PROVE IInv'
  BY <1>5, InsertClearingKeeps
<1>6. ASSUME NEW r \in Requests, UpdateDebit(r) PROVE IInv'
  BY <1>6, UpdateDebitKeeps
<1>7. ASSUME NEW r \in Requests, UpdateCredit(r) PROVE IInv'
  BY <1>7, UpdateCreditKeeps
<1>8. ASSUME NEW r \in Requests, AbortDeadlocked(r) PROVE IInv'
  BY <1>8, RefuseKeeps DEF AbortDeadlocked, Refusals
<1>9. ASSUME NEW a \in Accounts, OpenAccount(a) PROVE IInv'
  BY <1>9, StatusStep DEF OpenAccount, Rows
<1>10. ASSUME NEW a \in Rows, Freeze(a) PROVE IInv'
  BY <1>10, StatusStep DEF Freeze
<1>11. CASE Crash
  BY <1>11, CrashKeeps
<1>12. CASE UNCHANGED vars
  BY <1>12 DEF vars, IInv, TypeOK, RequestsInv, RequestInv, Accepted, ClearingKnown, DebitRead,
               CreditRead, ReadOf, HoldsInsert, HoldsDebit, AbsentRows,
               BalanceMatchesEntries, NoOverdraft
<1> QED
  BY <1>1, <1>2, <1>3, <1>4, <1>5, <1>6, <1>7, <1>8, <1>9, <1>10, <1>11, <1>12
     DEF Next, Step

\* The inductive invariant: what an attempt has read is current unless a newer
\* version is committed, and a row whose lock it holds stays current until it ends.
THEOREM LedgerInvariant == Spec => []IInv
BY InitInv, StepInv, PTL DEF Spec

\* Balances stay within a Java long, the counters within their bounds.
THEOREM TypeCorrect == Spec => []TypeOK
<1>1. IInv => TypeOK
  BY DEF IInv
<1> QED BY <1>1, LedgerInvariant, PTL

\* ReconciliationService.reconcile would find every balance equal to the sum of
\* its entries in every state of the database, whatever the number of accounts,
\* requests and retries.
THEOREM Reconciled == Spec => []BalanceMatchesEntries
<1>1. IInv => BalanceMatchesEntries
  BY DEF IInv
<1> QED BY <1>1, LedgerInvariant, PTL

\* No customer account is ever overdrawn.
THEOREM NeverOverdrawn == Spec => []NoOverdraft
<1>1. IInv => NoOverdraft
  BY DEF IInv
<1> QED BY <1>1, LedgerInvariant, PTL

-------------------------------------------------------------------------------
(* The books balance *)

\* Only a commit posts entries.
LEMMA EntriesStep ==
    ASSUME [Next]_vars
    PROVE  \/ entrySum' = entrySum
           \/ \E r \in Requests : /\ phase[r] = "updateCredit" /\ Current(r) /\ ~Waits(r)
                                  /\ Commit(r)
<1>1. ASSUME NEW r \in Requests, Step(r)
      PROVE  \/ entrySum' = entrySum
             \/ phase[r] = "updateCredit" /\ Current(r) /\ ~Waits(r) /\ Commit(r)
  BY <1>1 DEF Step, LoadAccount, FindClearing, LoadDebit, LoadCredit, InsertClearing, UpdateDebit,
              UpdateCredit, Stale, Retry, GiveUp, Refuse, rowVars
<1>2. ASSUME NEW r \in Requests, AbortDeadlocked(r) PROVE entrySum' = entrySum
  BY <1>2 DEF AbortDeadlocked, Refuse, rowVars
<1>3. CASE \E a \in Rows : OpenAccount(a) \/ Freeze(a)
  BY <1>3 DEF OpenAccount, Freeze
<1>4. CASE Crash \/ UNCHANGED vars
  BY <1>4 DEF Crash, vars, rowVars
<1> QED
  BY <1>1, <1>2, <1>3, <1>4 DEF Next, Rows

\* The two entries of a commit are of one currency and cancel out.
LEMMA CommitBalances ==
    ASSUME IInv, NEW r \in Requests, phase[r] = "updateCredit", Current(r), ~Waits(r), Commit(r),
           NEW u \in Currencies
    PROVE  SumFunctionOnSet([a \in Rows |-> entrySum[a][u]], Rows)
             = SumFunctionOnSet([a \in Rows |-> entrySum'[a][u]], Rows)
<1> DEFINE c == cmd[r]
           d == Debit(c)
           e == Credit(c)
           f == [a \in Rows |-> entrySum[a][u]]
           g == [a \in Rows |-> entrySum'[a][u]]
<1>1. c \in Commands /\ d \in Rows /\ e \in Rows /\ d # e /\ c.amount \in Int
  BY CommitEffect, LegsAreRows
<1>2. TypeOK /\ entrySum \in [Rows -> [Currencies -> Int]]
  BY DEF IInv, TypeOK
<1>3. entrySum' = PostEntries(c)
  BY DEF Commit
<1>4. \A a \in Rows : f[a] = entrySum[a][u] /\ g[a] = PostEntries(c)[a][u]
  BY <1>3
<1> HIDE DEF f, g, c
<1>5. \A a \in Rows : f[a] \in Int /\ g[a] \in Int
  BY <1>1, <1>2, <1>4, PostEntriesEffect
<1>6. /\ f[d] + f[e] = g[d] + g[e]
      /\ \A a \in Rows \ {d, e} : f[a] = g[a]
  BY <1>1, <1>2, <1>4, <1>5, PostEntriesEffect
<1>7. IsFiniteSet(Rows)
  BY BalancedOpening
<1>8. SumFunctionOnSet(f, Rows) = SumFunctionOnSet(g, Rows)
  BY <1>1, <1>5, <1>6, <1>7, SumOfMoved
<1> QED
  BY <1>8 DEF f, g

\* Money is neither made nor lost: for every number of accounts, currencies and
\* requests, whatever is retried, refused, aborted or cut off, the entries of a
\* currency sum to zero in every state.
THEOREM BooksBalance == Spec => []ZeroSumByCurrency
<1>1. Init => ZeroSumByCurrency
  <2> SUFFICES ASSUME Init, NEW u \in Currencies
               PROVE  SumFunctionOnSet([a \in Rows |-> entrySum[a][u]], Rows) = 0
    BY DEF ZeroSumByCurrency
  <2> DEFINE f == [a \in Rows |-> entrySum[a][u]]
             g == [a \in Rows |-> IF u = CurrencyOfRow(a) THEN Opening[a] ELSE 0]
  <2>1. \A a \in Rows : f[a] = g[a]
    BY DEF Init
  <2>2. f = g
    BY <2>1
  <2> HIDE DEF f, g
  <2>3. SumFunctionOnSet(g, Rows) = 0
    BY BalancedOpening DEF g
  <2>4. SumFunctionOnSet(f, Rows) = 0
    BY <2>2, <2>3
  <2> QED
    BY <2>4 DEF f
<1>2. IInv /\ ZeroSumByCurrency /\ [Next]_vars => ZeroSumByCurrency'
  <2> SUFFICES ASSUME IInv, ZeroSumByCurrency, [Next]_vars, NEW u \in Currencies
               PROVE  SumFunctionOnSet([a \in Rows |-> entrySum'[a][u]], Rows) = 0
    BY DEF ZeroSumByCurrency
  <2>1. SumFunctionOnSet([a \in Rows |-> entrySum[a][u]], Rows) = 0
    BY DEF ZeroSumByCurrency
  <2>2. CASE entrySum' = entrySum
    BY <2>1, <2>2
  <2>3. CASE \E r \in Requests : /\ phase[r] = "updateCredit" /\ Current(r) /\ ~Waits(r)
                                 /\ Commit(r)
    BY <2>1, <2>3, CommitBalances
  <2> QED
    BY <2>2, <2>3, EntriesStep
<1> QED
  BY <1>1, <1>2, LedgerInvariant, PTL DEF Spec

-------------------------------------------------------------------------------
(* Failed attempts *)

\* The other requests that have succeeded.
OthersOK(r) == {q \in Requests \ {r} : result[q] = "OK"}

\* What the current attempt has read is no longer so, and it will find that out.
Outdated(r) ==
    LET c == cmd[r]
    IN  \/ /\ snap[r].creates
           /\ status[Clearing(c)] # "ABSENT"
        \/ /\ phase[r] \in {"credit", "insert", "updateDebit", "updateCredit"}
           /\ snap[r].debit.version # version[Debit(c)]
        \/ /\ phase[r] \in {"insert", "updateDebit", "updateCredit"}
           /\ snap[r].credit.version # version[Credit(c)]

\* There is a commit of another request for each failed attempt, and one more while
\* the current attempt is bound to fail.
CommitFor(r) ==
    /\ failures[r] <= Cardinality(OthersOK(r))
    /\ Outdated(r) => failures[r] < Cardinality(OthersOK(r))

FailuresInv ==
    /\ IsFiniteSet({q \in Requests : result[q] = "OK"})
    /\ \A r \in Requests : CommitFor(r)

\* An attempt that has read nothing is not outdated.
LEMMA NothingRead ==
    ASSUME NEW r \in Requests, phase'[r] \in {"account", "done"}, snap'[r] = NoSnapshot
    PROVE  ~Outdated(r)'
BY DEF Outdated, NoSnapshot

\* A step in which nobody succeeds, and nobody gets outdated: an attempt may fail if
\* it was outdated, and is not any more.
LEMMA NobodySucceeds ==
    ASSUME IInv, FailuresInv, \A q \in Requests : result'[q] = "OK" <=> result[q] = "OK",
           NEW S \in SUBSET Requests,
           \A r \in Requests \ S : failures'[r] = failures[r] /\ (Outdated(r)' => Outdated(r)),
           \A r \in S : failures'[r] = failures[r] + 1 /\ Outdated(r) /\ ~Outdated(r)'
    PROVE  FailuresInv'
<1>1. {q \in Requests : result[q] = "OK"}' = {q \in Requests : result[q] = "OK"}
  OBVIOUS
<1>2. ASSUME NEW r \in Requests PROVE CommitFor(r)'
  <2>1. OthersOK(r)' = OthersOK(r)
    BY DEF OthersOK
  <2>2. CommitFor(r)
    BY DEF FailuresInv
  <2>3. IsFiniteSet(OthersOK(r))
    BY FS_Subset DEF FailuresInv, OthersOK
  <2>4. Cardinality(OthersOK(r)) \in Nat /\ failures[r] \in Nat
    BY <2>3, FS_CardinalityType, LedgerBounds DEF IInv, TypeOK
  <2> QED
    BY <2>1, <2>2, <2>4 DEF CommitFor
<1> QED
  BY <1>1, <1>2 DEF FailuresInv

\* What another request's step leaves alone is outdated only if it was before.
LEMMA FrameOutdated ==
    ASSUME NEW r \in Requests, UNCHANGED <<cmd, status, version>>,
           phase'[r] = phase[r], snap'[r] = snap[r]
    PROVE  Outdated(r)' => Outdated(r)
<1>1. cmd' = cmd /\ status' = status /\ version' = version
  OBVIOUS
<1> QED
  BY <1>1 DEF Outdated

\* A step of one request's attempt that leaves the rows alone.
LEMMA OwnStep ==
    ASSUME IInv, FailuresInv, NEW r \in Requests, UNCHANGED <<cmd, rowVars, failures>>,
           \A q \in Requests : result'[q] = "OK" <=> result[q] = "OK",
           \A q \in Requests \ {r} : phase'[q] = phase[q] /\ snap'[q] = snap[q],
           Outdated(r)' => Outdated(r)
    PROVE  FailuresInv'
<1>1. ASSUME NEW q \in Requests PROVE failures'[q] = failures[q] /\ (Outdated(q)' => Outdated(q))
  <2>1. CASE q = r
    BY <2>1
  <2>2. CASE q # r
    BY <2>2, FrameOutdated DEF rowVars
  <2> QED BY <2>1, <2>2
<1> QED
  BY <1>1, NobodySucceeds, {} \in SUBSET Requests, Zenon

\* A refusal is no success.
LEMMA RefuseKeepsFailures ==
    ASSUME IInv, FailuresInv, NEW r \in Requests, NEW why \in Refusals, phase[r] # "done",
           Refuse(r, why)
    PROVE  FailuresInv'
<1>1. result[r] = "PENDING"
  BY DEF IInv, RequestsInv, RequestInv
<1>2. \A q \in Requests : result'[q] = "OK" <=> result[q] = "OK"
  BY <1>1 DEF Refuse, Refusals, IInv, TypeOK
<1>3. /\ \A q \in Requests \ {r} : phase'[q] = phase[q] /\ snap'[q] = snap[q]
      /\ phase'[r] = "done" /\ snap'[r] = NoSnapshot
  BY DEF Refuse, IInv, TypeOK
<1> QED
  BY <1>2, <1>3, NothingRead, OwnStep DEF Refuse

\* An attempt fails because it is outdated, and what comes next starts afresh.
LEMMA StaleKeepsFailures ==
    ASSUME IInv, FailuresInv, NEW r \in Requests, phase[r] # "done", Outdated(r), Stale(r)
    PROVE  FailuresInv'
<1>1. result[r] = "PENDING"
  BY DEF IInv, RequestsInv, RequestInv
<1>2. \A q \in Requests : result'[q] = "OK" <=> result[q] = "OK"
  BY <1>1 DEF Stale, Retry, GiveUp, IInv, TypeOK
<1>3. /\ \A q \in Requests \ {r} : phase'[q] = phase[q] /\ snap'[q] = snap[q]
      /\ phase'[r] \in {"account", "done"} /\ snap'[r] = NoSnapshot
      /\ UNCHANGED <<cmd, status, version>>
  BY DEF Stale, Retry, GiveUp, rowVars, IInv, TypeOK
<1>4. /\ \A q \in Requests \ {r} : failures'[q] = failures[q]
      /\ failures'[r] = failures[r] + 1
  BY DEF Stale, Retry, GiveUp, IInv, TypeOK
<1>5. \A q \in Requests \ {r} : Outdated(q)' => Outdated(q)
  BY <1>3, FrameOutdated
<1>6. ~Outdated(r)'
  BY <1>3, NothingRead
<1> QED
  BY <1>2, <1>4, <1>5, <1>6, NobodySucceeds, {r} \in SUBSET Requests

\* A row is read as it is, unless the attempt is outdated already: the clearing
\* account it means to create has been created by another.
LEMMA ReadIsFresh ==
    ASSUME IInv, NEW r \in Requests, NEW a \in Rows, ~Outdated(r)
    PROVE  Read(r, a).version = version[a]
<1>1. CASE snap[r].creates /\ a = Clearing(cmd[r])
  <2>1. status[a] = "ABSENT"
    BY <1>1 DEF Outdated
  <2> QED
    BY <1>1, <2>1 DEF IInv, AbsentRows, Read, NewRow
<1>2. CASE ~(snap[r].creates /\ a = Clearing(cmd[r]))
  BY <1>2 DEF Read
<1> QED BY <1>1, <1>2

\* The reads.
LEMMA LoadKeepsFailures ==
    ASSUME IInv, FailuresInv, NEW r \in Requests,
           LoadAccount(r) \/ FindClearing(r) \/ LoadDebit(r) \/ LoadCredit(r)
    PROVE  FailuresInv'
<1> DEFINE c == cmd[r]
<1>0. /\ c \in Commands /\ Debit(c) \in Rows /\ Credit(c) \in Rows /\ Clearing(c) \in Rows
      /\ snap \in [Requests -> Snapshot] /\ phase \in [Requests -> Phases]
  BY LegsAreRows DEF IInv, TypeOK
<1>1. CASE LoadAccount(r) /\ Refusal(c) # "none"
  BY <1>1, RefusalTypes, RefuseKeepsFailures DEF LoadAccount
<1>2. CASE LoadAccount(r) /\ Refusal(c) = "none"
  <2>1. ~snap[r].creates
    BY <1>2 DEF LoadAccount, IInv, RequestsInv, RequestInv
  <2>2. /\ UNCHANGED <<cmd, rowVars, failures, snap, result>>
        /\ phase'[r] \in {"debit", "clearing"}
        /\ \A q \in Requests \ {r} : phase'[q] = phase[q]
    BY <1>0, <1>2 DEF LoadAccount
  <2>3. ~Outdated(r)'
    BY <2>1, <2>2 DEF Outdated
  <2> QED
    BY <2>2, <2>3, OwnStep
<1>3. CASE FindClearing(r)
  <2>1. /\ UNCHANGED <<cmd, rowVars, failures, result>>
        /\ phase'[r] = "debit"
        /\ \A q \in Requests \ {r} : phase'[q] = phase[q] /\ snap'[q] = snap[q]
        /\ snap'[r].creates = (status[Clearing(c)] = "ABSENT")
    BY <1>0, <1>3 DEF FindClearing, Snapshot
  <2>2. ~Outdated(r)'
    BY <2>1 DEF Outdated, rowVars
  <2> QED
    BY <2>1, <2>2, OwnStep
<1>4. CASE LoadDebit(r)
  <2> DEFINE row == Read(r, Debit(c))
             why == DebitRefusal(Debit(c), c, row.balance - c.amount)
  <2>1. why \in Refusals \cup {"none"} /\ phase[r] # "done"
    BY <1>4, RefusalTypes DEF LoadDebit
  <2>2. CASE why # "none"
    <3>1. Refuse(r, why)
      BY <1>4, <2>2 DEF LoadDebit
    <3> HIDE DEF why
    <3> QED BY <2>1, <2>2, <3>1, RefuseKeepsFailures
  <2>3. CASE why = "none"
    <3>1. /\ UNCHANGED <<cmd, rowVars, failures, result>>
          /\ phase' = [phase EXCEPT ![r] = "credit"]
          /\ snap' = [snap EXCEPT ![r].debit = row]
      BY <1>4, <2>3 DEF LoadDebit
    <3> HIDE DEF why, row
    <3>2. /\ phase'[r] = "credit"
          /\ \A q \in Requests \ {r} : phase'[q] = phase[q] /\ snap'[q] = snap[q]
          /\ snap'[r].creates = snap[r].creates /\ snap'[r].debit = row
      BY <1>0, <3>1 DEF Snapshot
    <3>3. ~Outdated(r) => row.version = version[Debit(c)]
      BY <1>0, ReadIsFresh DEF row
    <3>4. UNCHANGED <<cmd, status, version>>
      BY <3>1 DEF rowVars
    <3>5. Outdated(r)' => Outdated(r)
      BY <3>2, <3>3, <3>4 DEF Outdated
    <3> QED
      BY <3>1, <3>2, <3>5, OwnStep
  <2> QED BY <2>2, <2>3
<1>5. CASE LoadCredit(r)
  <2> DEFINE row == Read(r, Credit(c))
             why == MoneyRefusal(Credit(c), c, row.balance + c.amount)
  <2>1. why \in Refusals \cup {"none"} /\ phase[r] # "done"
    BY <1>5, RefusalTypes DEF LoadCredit
  <2>2. CASE why # "none"
    <3>1. Refuse(r, why)
      BY <1>5, <2>2 DEF LoadCredit
    <3> HIDE DEF why
    <3> QED BY <2>1, <2>2, <3>1, RefuseKeepsFailures
  <2>3. CASE why = "none"
    <3>1. /\ UNCHANGED <<cmd, rowVars, failures, result>>
          /\ phase[r] = "credit"
          /\ phase' = [phase EXCEPT ![r] = IF snap[r].creates THEN "insert" ELSE "updateDebit"]
          /\ snap' = [snap EXCEPT ![r].credit = row]
      BY <1>5, <2>3 DEF LoadCredit
    <3> HIDE DEF why, row
    <3>2. /\ \A q \in Requests \ {r} : phase'[q] = phase[q] /\ snap'[q] = snap[q]
          /\ snap'[r].creates = snap[r].creates /\ snap'[r].debit = snap[r].debit
          /\ snap'[r].credit = row
      BY <1>0, <3>1 DEF Snapshot
    <3>3. ~Outdated(r) => row.version = version[Credit(c)]
      BY <1>0, ReadIsFresh DEF row
    <3>4. UNCHANGED <<cmd, status, version>>
      BY <3>1 DEF rowVars
    <3>5. Outdated(r)' => Outdated(r)
      BY <3>1, <3>2, <3>3, <3>4 DEF Outdated
    <3> QED
      BY <3>1, <3>2, <3>5, OwnStep
  <2> QED BY <2>2, <2>3
<1> QED
  BY <1>1, <1>2, <1>3, <1>4, <1>5

\* The statements of the flush before the last one.
LEMMA FlushKeepsFailures ==
    ASSUME IInv, FailuresInv, NEW r \in Requests, InsertClearing(r) \/ UpdateDebit(r)
    PROVE  FailuresInv'
<1>0. phase \in [Requests -> Phases]
  BY DEF IInv, TypeOK
<1>1. CASE InsertClearing(r) /\ ~Current(r)
  BY <1>1, RefuseKeepsFailures DEF InsertClearing, Refusals
<1>2. CASE UpdateDebit(r) /\ ~Current(r)
  <2>1. phase[r] = "updateDebit" /\ Stale(r)
    BY <1>2 DEF UpdateDebit
  <2>2. Outdated(r)
    BY <1>2, <2>1 DEF Current, Outdated
  <2> QED
    BY <2>1, <2>2, StaleKeepsFailures
<1>3. CASE (InsertClearing(r) \/ UpdateDebit(r)) /\ Current(r)
  <2>1. /\ UNCHANGED <<cmd, rowVars, failures, snap, result>>
        /\ phase[r] \in {"insert", "updateDebit"} /\ phase'[r] \in {"updateDebit", "updateCredit"}
        /\ \A q \in Requests \ {r} : phase'[q] = phase[q]
    BY <1>0, <1>3 DEF InsertClearing, UpdateDebit
  <2>2. UNCHANGED <<cmd, status, version>>
    BY <2>1 DEF rowVars
  <2>3. Outdated(r)' => Outdated(r)
    BY <2>1, <2>2 DEF Outdated
  <2> QED
    BY <2>1, <2>3, OwnStep
<1> QED
  BY <1>1, <1>2, <1>3

\* A commit is one more success for every other request, whatever it has read.
LEMMA CommitKeepsFailures ==
    ASSUME IInv, FailuresInv, NEW r \in Requests, phase[r] = "updateCredit", Commit(r)
    PROVE  FailuresInv'
<1>1. result[r] = "PENDING" /\ result \in [Requests -> {"PENDING", "OK"} \cup Refusals]
  BY DEF IInv, TypeOK, RequestsInv, RequestInv
<1>2. result' = [result EXCEPT ![r] = "OK"] /\ failures' = failures
  BY DEF Commit
<1>3. IsFiniteSet({q \in Requests : result[q] = "OK"})
  BY DEF FailuresInv
<1>4. {q \in Requests : result'[q] = "OK"} = {q \in Requests : result[q] = "OK"} \cup {r}
  BY <1>1, <1>2
<1>5. IsFiniteSet({q \in Requests : result'[q] = "OK"})
  BY <1>3, <1>4, FS_AddElement
<1>6. ASSUME NEW q \in Requests PROVE CommitFor(q)'
  <2>1. CommitFor(q)
    BY DEF FailuresInv
  <2>2. IsFiniteSet(OthersOK(q))
    BY <1>3, FS_Subset DEF OthersOK
  <2>3. Cardinality(OthersOK(q)) \in Nat /\ failures[q] \in Nat
    BY <2>2, FS_CardinalityType, LedgerBounds DEF IInv, TypeOK
  <2>4. CASE q = r
    <3>1. OthersOK(q)' = OthersOK(q)
      BY <1>1, <1>2, <2>4 DEF OthersOK
    <3>2. ~Outdated(q)'
      BY <2>4, NothingRead DEF Commit, IInv, TypeOK
    <3> QED
      BY <1>2, <2>1, <3>1, <3>2 DEF CommitFor
  <2>5. CASE q # r
    <3>1. OthersOK(q)' = OthersOK(q) \cup {r} /\ r \notin OthersOK(q)
      BY <1>1, <1>2, <2>5 DEF OthersOK
    <3>2. Cardinality(OthersOK(q)') = Cardinality(OthersOK(q)) + 1
      BY <2>2, <3>1, FS_AddElement
    <3>3. failures'[q] < Cardinality(OthersOK(q)')
      BY <1>2, <2>1, <2>3, <3>2 DEF CommitFor
    <3> QED
      BY <1>2, <2>1, <2>3, <3>2 DEF CommitFor
  <2> QED BY <2>4, <2>5
<1> QED
  BY <1>5, <1>6 DEF FailuresInv

\* Every step keeps the count.
LEMMA FailuresStep == IInv /\ FailuresInv /\ [Next]_vars => FailuresInv'
<1> SUFFICES ASSUME IInv, FailuresInv, [Next]_vars PROVE FailuresInv'
  OBVIOUS
<1>1. ASSUME NEW r \in Requests, Step(r) PROVE FailuresInv'
  <2>1. CASE LoadAccount(r) \/ FindClearing(r) \/ LoadDebit(r) \/ LoadCredit(r)
    BY <2>1, LoadKeepsFailures
  <2>2. CASE InsertClearing(r) \/ UpdateDebit(r)
    BY <2>2, FlushKeepsFailures
  <2>3. CASE UpdateCredit(r) /\ Current(r)
    BY <2>3, CommitKeepsFailures DEF UpdateCredit
  <2>4. CASE UpdateCredit(r) /\ ~Current(r)
    <3>1. phase[r] = "updateCredit" /\ Stale(r)
      BY <2>4 DEF UpdateCredit
    <3>2. Outdated(r)
      BY <2>4, <3>1 DEF Current, Outdated
    <3> QED
      BY <3>1, <3>2, StaleKeepsFailures
  <2> QED
    BY <1>1, <2>1, <2>2, <2>3, <2>4 DEF Step
<1>2. ASSUME NEW r \in Requests, AbortDeadlocked(r) PROVE FailuresInv'
  <2>1. phase[r] # "done"
    BY <1>2 DEF AbortDeadlocked, WaitCycle, Waits, Flushing
  <2> QED
    BY <1>2, <2>1, RefuseKeepsFailures DEF AbortDeadlocked, Refusals
<1>3. ASSUME NEW a \in Rows, (a \in Accounts /\ OpenAccount(a)) \/ Freeze(a) PROVE FailuresInv'
  <2>1. ASSUME NEW q \in Requests PROVE Outdated(q)' => Outdated(q)
    <3>1. Clearing(cmd[q]) \in Rows /\ Clearing(cmd[q]) \notin Accounts
      BY LegsAreRows DEF IInv, TypeOK
    <3>2. status'[Clearing(cmd[q])] # "ABSENT" => status[Clearing(cmd[q])] # "ABSENT"
      BY <1>3, <3>1 DEF OpenAccount, Freeze, IInv, TypeOK
    <3>3. UNCHANGED <<cmd, version, phase, snap>>
      BY <1>3 DEF OpenAccount, Freeze
    <3> QED
      BY <3>2, <3>3 DEF Outdated
  <2>2. UNCHANGED <<result, failures>>
    BY <1>3 DEF OpenAccount, Freeze
  <2> QED
    BY <2>1, <2>2, NobodySucceeds, {} \in SUBSET Requests
<1>4. CASE Crash
  <2>1. \A q \in Requests : result'[q] = "OK" <=> result[q] = "OK"
    BY <1>4 DEF Crash, InProgress, IInv, RequestsInv, RequestInv
  <2>2. \A q \in Requests : phase'[q] \in {"account", "done"} /\ snap'[q] = NoSnapshot
    BY <1>4 DEF Crash, InProgress, IInv, TypeOK
  <2>3. \A q \in Requests : ~Outdated(q)'
    BY <2>2, NothingRead
  <2>4. failures' = failures
    BY <1>4 DEF Crash
  <2> QED
    BY <2>1, <2>3, <2>4, NobodySucceeds, {} \in SUBSET Requests
<1>5. CASE UNCHANGED vars
  <2>1. \A q \in Requests : Outdated(q)' => Outdated(q)
    BY <1>5, FrameOutdated DEF vars
  <2>2. UNCHANGED <<result, failures>>
    BY <1>5 DEF vars
  <2> QED
    BY <2>1, <2>2, NobodySucceeds, {} \in SUBSET Requests
<1> QED
  BY <1>1, <1>2, <1>3, <1>4, <1>5 DEF Next, Rows

\* An optimistic lock fails only where somebody else got ahead: for every number of
\* requests in flight, one that failed n times was passed by n others that
\* succeeded.
THEOREM FailuresAreCommits == Spec => []FailuresNeedCommits
<1>1. Init => FailuresInv
  <2> SUFFICES ASSUME Init PROVE FailuresInv
    OBVIOUS
  <2>1. {q \in Requests : result[q] = "OK"} = {}
    BY DEF Init
  <2>2. ASSUME NEW r \in Requests PROVE OthersOK(r) = {} /\ failures[r] = 0 /\ ~Outdated(r)
    BY DEF Init, OthersOK, Outdated, NoSnapshot
  <2> QED
    BY <2>1, <2>2, FS_EmptySet DEF FailuresInv, CommitFor
<1>2. FailuresInv => FailuresNeedCommits
  BY DEF FailuresInv, CommitFor, OthersOK, FailuresNeedCommits
<1> QED
  BY <1>1, <1>2, FailuresStep, LedgerInvariant, PTL DEF Spec

-------------------------------------------------------------------------------
(* Nobody hangs on a lock *)

\* The requests that may hold a lock.
Holders == {q \in Requests : phase[q] \in {"updateDebit", "updateCredit"}}

\* A lock is held by a request that is in the middle of its flush, of which there are
\* finitely many; and a request that is not answered has an attempt left.
LockInv ==
    /\ IsFiniteSet(Holders)
    /\ \A a \in Rows : lock[a] # None => lock[a] \in Holders
    /\ \A r \in Requests : phase[r] # "done" => failures[r] < MaxAttempts

\* A request goes on with its attempt, and takes a lock only when it flushes.
LEMMA GoingOnKeepsLocks ==
    ASSUME TypeOK, LockInv, NEW r \in Requests, phase[r] # "done",
           phase' = [phase EXCEPT ![r] = phase'[r]], UNCHANGED failures,
           \A a \in Rows : lock'[a] \in {lock[a], r},
           \/ phase'[r] \in {"updateDebit", "updateCredit"}
           \/ r \notin Holders /\ lock' = lock
    PROVE  LockInv'
<1>1. \A q \in Requests : q # r => phase'[q] = phase[q]
  BY DEF TypeOK
<1>2. Holders' \subseteq Holders \cup {r}
  BY <1>1 DEF Holders
<1>3. IsFiniteSet(Holders \cup {r})
  BY FS_AddElement DEF LockInv
<1>4. IsFiniteSet(Holders')
  BY <1>2, <1>3, FS_Subset
<1>5. ASSUME NEW a \in Rows, lock'[a] # None PROVE lock'[a] \in Holders'
  <2>1. CASE phase'[r] \in {"updateDebit", "updateCredit"}
    BY <1>1, <1>5, <2>1 DEF LockInv, Holders
  <2>2. CASE r \notin Holders /\ lock' = lock
    BY <1>1, <1>5, <2>2 DEF LockInv, Holders
  <2> QED
    BY <2>1, <2>2
<1>6. \A q \in Requests : phase'[q] # "done" => failures'[q] < MaxAttempts
  BY <1>1 DEF LockInv
<1> QED
  BY <1>4, <1>5, <1>6 DEF LockInv

\* An attempt ends: its locks are released, and another one begins only if there is
\* one left.
LEMMA EndingKeepsLocks ==
    ASSUME TypeOK, LockInv, NEW r \in Requests, phase'[r] \in {"account", "done"},
           phase' = [phase EXCEPT ![r] = phase'[r]], lock' = Released(r),
           \A q \in Requests : q # r => failures'[q] = failures[q],
           phase'[r] = "account" => failures'[r] < MaxAttempts
    PROVE  LockInv'
<1>1. \A q \in Requests : q # r => phase'[q] = phase[q]
  BY DEF TypeOK
<1>2. Holders' = Holders \ {r}
  BY <1>1 DEF Holders
<1>3. IsFiniteSet(Holders')
  BY <1>2, FS_Subset DEF LockInv
<1>4. ASSUME NEW a \in Rows, lock'[a] # None PROVE lock'[a] \in Holders'
  BY <1>2, <1>4 DEF LockInv, Released
<1>5. \A q \in Requests : phase'[q] # "done" => failures'[q] < MaxAttempts
  BY <1>1 DEF LockInv
<1> QED
  BY <1>3, <1>4, <1>5 DEF LockInv

\* A refusal ends the attempt.
LEMMA RefuseKeepsLocks ==
    ASSUME TypeOK, LockInv, NEW r \in Requests, NEW why, Refuse(r, why)
    PROVE  LockInv'
BY EndingKeepsLocks DEF Refuse, TypeOK

\* So does a stale version.
LEMMA StaleKeepsLocks ==
    ASSUME TypeOK, LockInv, NEW r \in Requests, Stale(r)
    PROVE  LockInv'
<1>1. failures[r] + 1 = failures'[r] /\ \A q \in Requests : q # r => failures'[q] = failures[q]
  BY DEF Stale, Retry, GiveUp, TypeOK
<1>2. CASE Retry(r)
  BY <1>1, <1>2, EndingKeepsLocks DEF Retry, TypeOK
<1>3. CASE GiveUp(r)
  BY <1>1, <1>3, EndingKeepsLocks DEF GiveUp, TypeOK
<1> QED
  BY <1>2, <1>3 DEF Stale

\* Every step keeps the locks with those who flush.
LEMMA LocksStep == IInv /\ LockInv /\ [Next]_vars => LockInv'
<1> SUFFICES ASSUME TypeOK, LockInv, [Next]_vars PROVE LockInv'
  BY DEF IInv
<1>1. ASSUME NEW r \in Requests, LoadAccount(r) PROVE LockInv'
  <2>1. CASE Refusal(cmd[r]) # "none"
    BY <1>1, <2>1, RefuseKeepsLocks DEF LoadAccount
  <2>2. CASE Refusal(cmd[r]) = "none"
    BY <1>1, <2>2, GoingOnKeepsLocks DEF LoadAccount, TypeOK, Holders
  <2> QED BY <2>1, <2>2
<1>2. ASSUME NEW r \in Requests, FindClearing(r) PROVE LockInv'
  BY <1>2, GoingOnKeepsLocks DEF FindClearing, TypeOK, Holders
<1>3. ASSUME NEW r \in Requests, LoadDebit(r) \/ LoadCredit(r) PROVE LockInv'
  <2>1. \/ \E why : Refuse(r, why)
        \/ /\ phase[r] \in {"debit", "credit"} /\ UNCHANGED <<lock, failures>>
           /\ phase' = [phase EXCEPT ![r] = phase'[r]]
    BY <1>3 DEF LoadDebit, LoadCredit, TypeOK
  <2>2. phase[r] \in {"debit", "credit"} => r \notin Holders /\ phase[r] # "done"
    BY DEF Holders
  <2> QED
    BY <2>1, <2>2, RefuseKeepsLocks, GoingOnKeepsLocks
<1>4. ASSUME NEW r \in Requests, InsertClearing(r) \/ UpdateDebit(r) PROVE LockInv'
  <2>1. CASE ~Current(r)
    BY <1>4, <2>1, RefuseKeepsLocks, StaleKeepsLocks DEF InsertClearing, UpdateDebit
  <2>2. CASE Current(r)
    <3>1. /\ phase[r] # "done" /\ phase'[r] \in {"updateDebit", "updateCredit"}
          /\ phase' = [phase EXCEPT ![r] = phase'[r]] /\ failures' = failures
      BY <1>4, <2>2 DEF InsertClearing, UpdateDebit, TypeOK
    <3>2. \A a \in Rows : lock'[a] \in {lock[a], r}
      BY <1>4, <2>2 DEF InsertClearing, UpdateDebit, TypeOK
    <3> QED
      BY <3>1, <3>2, GoingOnKeepsLocks
  <2> QED BY <2>1, <2>2
<1>5. ASSUME NEW r \in Requests, UpdateCredit(r) PROVE LockInv'
  <2>1. CASE ~Current(r)
    BY <1>5, <2>1, StaleKeepsLocks DEF UpdateCredit
  <2>2. CASE Current(r)
    BY <1>5, <2>2, EndingKeepsLocks DEF UpdateCredit, Commit, TypeOK
  <2> QED BY <2>1, <2>2
<1>6. ASSUME NEW r \in Requests, AbortDeadlocked(r) PROVE LockInv'
  BY <1>6, RefuseKeepsLocks DEF AbortDeadlocked
<1>7. CASE \/ \E a \in Accounts : OpenAccount(a)
           \/ \E a \in Rows : Freeze(a)
           \/ UNCHANGED vars
  <2>1. UNCHANGED <<lock, phase, failures>>
    BY <1>7 DEF OpenAccount, Freeze, vars
  <2> QED
    BY <2>1 DEF LockInv, Holders
<1>8. CASE Crash
  <2>1. \A q \in Requests : phase'[q] = "done" \/ (phase[q] = "account" /\ phase'[q] = phase[q])
    BY <1>8 DEF Crash, InProgress, TypeOK
  <2>2. Holders' = {}
    BY <2>1 DEF Holders
  <2>3. lock' = [a \in Rows |-> None] /\ failures' = failures
    BY <1>8 DEF Crash
  <2> QED
    BY <2>1, <2>2, <2>3, FS_EmptySet DEF LockInv
<1> QED
  BY <1>1, <1>2, <1>3, <1>4, <1>5, <1>6, <1>7, <1>8 DEF Next, Step

\* The request can take its next step: it is not answered, has an attempt left and
\* does not wait.
GoesOn(r) == phase[r] # "done" /\ failures[r] < MaxAttempts /\ ~Waits(r)

\* The request is in a cycle, which PostgreSQL breaks.
InCycle(r) == \E S \in SUBSET Requests : r \in S /\ WaitCycle(S)

\* A set of requests that holds whoever its members wait for.
Closed(S) == \A q \in S : Waits(q) => lock[Wants(q)] \in S

\* The row a request waits for is locked by one that may hold it.
LEMMA WaitsForHolder ==
    ASSUME TypeOK, LockInv, NEW q \in Requests, Waits(q)
    PROVE  lock[Wants(q)] \in Holders
<1>1. Wants(q) \in Rows
  BY LegsAreRows DEF Wants, TypeOK
<1> QED
  BY <1>1 DEF LockInv, Waits

\* Finitely many requests that wait for one another contain a cycle: the smallest
\* of their parts that holds whoever its members wait for.
LEMMA WaitersCycle ==
    ASSUME NEW S \in SUBSET Requests, IsFiniteSet(S), S # {}, Closed(S),
           \A q \in S : Waits(q)
    PROVE  \E q \in S : InCycle(q)
<1> DEFINE B == {T \in SUBSET S : T # {} /\ Closed(T)}
<1>1. PICK T \in B : \A U \in B : U \subseteq T => U = T
  <2>1. B \in SUBSET (SUBSET S) /\ S \in B
    OBVIOUS
  <2> HIDE DEF B
  <2> QED
    BY <2>1, Smallest
<1> DEFINE held == {lock[Wants(q)] : q \in T}
<1>2. held \subseteq T /\ held # {}
  BY DEF Closed
<1>3. Closed(held)
  BY <1>2 DEF Closed
<1>4. held = T
  BY <1>1, <1>2, <1>3
<1>5. WaitCycle(T) /\ T \in SUBSET Requests
  BY <1>4 DEF WaitCycle
<1> QED
  BY <1>5 DEF InCycle

\* Whoever is not answered, or somebody it waits for, gets on.
GetsOn ==
    \A r \in Requests : phase[r] # "done" =>
        \A S \in SUBSET Requests : r \in S /\ Closed(S) =>
            \E q \in S : GoesOn(q) \/ InCycle(q)

\* From every state a waiting request gets on: among those it waits for, directly or
\* through others, one can take its next step or is in a cycle that is broken.  This is
\* what EveryRequestAnswered needs of the locks: none is left behind by a request that
\* has ended, and no chain of waiting requests ends in nothing.
THEOREM NobodyHangs == Spec => []GetsOn
<1>1. Init => LockInv
  <2> SUFFICES ASSUME Init PROVE LockInv
    OBVIOUS
  <2>1. Holders = {}
    BY DEF Init, Holders
  <2> QED
    BY <2>1, LedgerBounds, FS_EmptySet DEF Init, LockInv
<1>2. ASSUME TypeOK, LockInv, NEW r \in Requests, phase[r] # "done",
             NEW S \in SUBSET Requests, r \in S, Closed(S),
             \A q \in S : ~GoesOn(q)
      PROVE  \E q \in S : InCycle(q)
  <2> DEFINE W == {q \in S \cap Holders : Waits(q)}
  <2>1. ASSUME NEW q \in S, Waits(q) PROVE lock[Wants(q)] \in W
    <3>1. lock[Wants(q)] \in S \cap Holders
      BY <1>2, <2>1, WaitsForHolder DEF Closed
    <3> QED
      BY <1>2, <3>1 DEF GoesOn, LockInv, Holders
  <2>2. Waits(r)
    BY <1>2 DEF GoesOn, LockInv
  <2>3. W # {} /\ Closed(W)
    BY <1>2, <2>1, <2>2 DEF Closed
  <2>4. IsFiniteSet(W)
    <3>1. W \subseteq Holders /\ IsFiniteSet(Holders)
      BY <1>2 DEF LockInv
    <3> HIDE DEF W
    <3> QED
      BY <3>1, FS_Subset
  <2>5. W \in SUBSET Requests /\ W \subseteq S /\ \A q \in W : Waits(q)
    OBVIOUS
  <2> HIDE DEF W
  <2> QED
    BY <2>3, <2>4, <2>5, WaitersCycle
<1>3. IInv /\ LockInv => GetsOn
  BY <1>2 DEF IInv, GetsOn
<1> QED
  BY <1>1, <1>3, LocksStep, LedgerInvariant, PTL DEF Spec

-------------------------------------------------------------------------------
(* The ledger implements AtomicLedger *)

\* The initial states of the ledger are initial states of AtomicLedger.
LEMMA InitRefines == Init => Atomic!Init
<1> SUFFICES ASSUME Init PROVE Atomic!Init
  OBVIOUS
<1>1. ExistingRows = Opened
  BY LedgerConstants DEF Init, ExistingRows
<1>2. Settled = [r \in Requests |-> "no"]
  BY DEF Init, Settled
<1> QED
  BY <1>1, <1>2 DEF Init, Atomic!Init

\* A step that settles no request and opens no account is invisible.
LEMMA Invisible ==
    ASSUME UNCHANGED <<cmd, status, balance, result>>
    PROVE  UNCHANGED Atomic!avars
BY DEF Atomic!avars, ExistingRows, Settled

\* A step that answers the requests of S with refusals is a refusal.
LEMMA RefusalRefines ==
    ASSUME IInv, NEW S \in SUBSET Requests, \A r \in S : result[r] = "PENDING",
           \A r \in S : result'[r] \in Refusals,
           \A r \in Requests \ S : result'[r] = result[r],
           UNCHANGED <<cmd, status, balance>>
    PROVE  Atomic!Next
<1>1. \A r \in S : Settled[r] = "no"
  BY DEF Settled
<1>2. Settled' = [r \in Requests |-> IF r \in S THEN "refused" ELSE Settled[r]]
  <2>1. \A r \in S : result'[r] # "PENDING" /\ result'[r] # "OK"
    BY DEF Refusals
  <2> QED
    BY <2>1 DEF Settled
<1>3. ExistingRows' = ExistingRows
  BY DEF ExistingRows
<1>4. Atomic!Refuse(S)
  BY <1>1, <1>2, <1>3 DEF Atomic!Refuse
<1> QED
  BY <1>4 DEF Atomic!Next

\* A request answered with an exception is one refused.
LEMMA RefuseRefines ==
    ASSUME IInv, NEW r \in Requests, NEW why \in Refusals, phase[r] # "done", Refuse(r, why)
    PROVE  Atomic!Next
<1>1. result[r] = "PENDING"
  BY DEF IInv, RequestsInv, RequestInv
<1>2. result'[r] = why /\ \A q \in Requests \ {r} : result'[q] = result[q]
  BY DEF Refuse, IInv, TypeOK
<1>3. UNCHANGED <<cmd, status, balance>>
  BY DEF Refuse, rowVars
<1> QED
  BY <1>1, <1>2, <1>3, RefusalRefines, {r} \in SUBSET Requests

\* A retry is invisible; giving up is a refusal.
LEMMA StaleRefines ==
    ASSUME IInv, NEW r \in Requests, phase[r] # "done", Stale(r)
    PROVE  Atomic!Next \/ UNCHANGED Atomic!avars
<1>1. CASE Retry(r)
  BY <1>1, Invisible DEF Retry, rowVars
<1>2. CASE GiveUp(r)
  <2>1. result[r] = "PENDING"
    BY DEF IInv, RequestsInv, RequestInv
  <2>2. result'[r] = "RetriesExhausted" /\ \A q \in Requests \ {r} : result'[q] = result[q]
    BY <1>2 DEF GiveUp, IInv, TypeOK
  <2>3. UNCHANGED <<cmd, status, balance>>
    BY <1>2 DEF GiveUp, rowVars
  <2>4. result'[r] \in Refusals
    BY <2>2 DEF Refusals
  <2> QED
    BY <2>1, <2>2, <2>3, <2>4, RefusalRefines, {r} \in SUBSET Requests
<1> QED
  BY <1>1, <1>2 DEF Stale

\* A commit is an indivisible movement against the balances of that moment.
LEMMA CommitRefines ==
    ASSUME IInv, NEW r \in Requests, phase[r] = "updateCredit", Current(r), ~Waits(r), Commit(r)
    PROVE  Atomic!Move(r)
<1> DEFINE c == cmd[r]
           d == Debit(c)
           e == Credit(c)
<1>1. /\ c \in Commands /\ d \in Rows /\ e \in Rows /\ d # e /\ c.amount > 0
      /\ CurrencyOfRow(d) = c.currency /\ CurrencyOfRow(e) = c.currency
      /\ balance[d] - c.amount \in Long /\ balance[e] + c.amount \in Long
      /\ d \in Accounts => balance[d] - c.amount >= 0
      /\ balance' = [balance EXCEPT ![d] = @ - c.amount, ![e] = @ + c.amount]
  BY CommitEffect
<1>2. d \in Accounts => balance[d] >= c.amount
  <2>1. balance[d] \in Long /\ c.amount \in Int
    BY <1>1, LegsAreRows DEF IInv, TypeOK
  <2>2. balance[d] \in Int
    BY <2>1 DEF Long
  <2> QED
    BY <1>1, <2>1, <2>2
<1>3. {d, e} \cap Accounts \subseteq ExistingRows
  BY CommitStatus DEF ExistingRows
<1>4. ExistingRows' = ExistingRows \cup {d, e}
  BY <1>1, CommitStatus DEF ExistingRows
<1>5. Settled[r] = "no" /\ Settled' = [Settled EXCEPT ![r] = "moved"]
  <2>1. result[r] = "PENDING"
    BY DEF IInv, RequestsInv, RequestInv
  <2>2. result' = [result EXCEPT ![r] = "OK"] /\ result \in [Requests -> {"PENDING", "OK"} \cup Refusals]
    BY DEF Commit, IInv, TypeOK
  <2> QED
    BY <2>1, <2>2 DEF Settled
<1>6. cmd' = cmd
  BY DEF Commit
<1> QED
  BY <1>1, <1>2, <1>3, <1>4, <1>5, <1>6
     DEF Atomic!Move, Atomic!Debit, Atomic!Credit, Atomic!CurrencyOfRow, Atomic!Clearing,
         Atomic!Long, Debit, Credit, CurrencyOfRow, Clearing, Long

\* Every step of the ledger is a step of AtomicLedger or invisible.
LEMMA StepRefines == IInv /\ [Next]_vars => [Atomic!Next]_(Atomic!avars)
<1> SUFFICES ASSUME IInv, [Next]_vars PROVE Atomic!Next \/ UNCHANGED Atomic!avars
  OBVIOUS
<1>1. ASSUME NEW r \in Requests, LoadAccount(r) PROVE Atomic!Next \/ UNCHANGED Atomic!avars
  <2>1. CASE Refusal(cmd[r]) # "none"
    BY <1>1, <2>1, RefusalTypes, RefuseRefines DEF LoadAccount
  <2>2. CASE Refusal(cmd[r]) = "none"
    BY <1>1, <2>2, Invisible DEF LoadAccount, rowVars
  <2> QED BY <2>1, <2>2
<1>2. ASSUME NEW r \in Requests, FindClearing(r) PROVE Atomic!Next \/ UNCHANGED Atomic!avars
  BY <1>2, Invisible DEF FindClearing, rowVars
<1>3. ASSUME NEW r \in Requests, LoadDebit(r) PROVE Atomic!Next \/ UNCHANGED Atomic!avars
  <2> DEFINE c == cmd[r]
             why == DebitRefusal(Debit(c), c, Read(r, Debit(c)).balance - c.amount)
  <2>0. why \in Refusals \cup {"none"} /\ phase[r] # "done"
    BY <1>3, RefusalTypes DEF LoadDebit
  <2>1. CASE why # "none"
    <3>1. Refuse(r, why)
      BY <1>3, <2>1 DEF LoadDebit
    <3> HIDE DEF why
    <3> QED BY <2>0, <2>1, <3>1, RefuseRefines
  <2>2. CASE why = "none"
    BY <1>3, <2>2, Invisible DEF LoadDebit, rowVars
  <2> QED BY <2>1, <2>2
<1>4. ASSUME NEW r \in Requests, LoadCredit(r) PROVE Atomic!Next \/ UNCHANGED Atomic!avars
  <2> DEFINE c == cmd[r]
             why == MoneyRefusal(Credit(c), c, Read(r, Credit(c)).balance + c.amount)
  <2>0. why \in Refusals \cup {"none"} /\ phase[r] # "done"
    BY <1>4, RefusalTypes DEF LoadCredit
  <2>1. CASE why # "none"
    <3>1. Refuse(r, why)
      BY <1>4, <2>1 DEF LoadCredit
    <3> HIDE DEF why
    <3> QED BY <2>0, <2>1, <3>1, RefuseRefines
  <2>2. CASE why = "none"
    BY <1>4, <2>2, Invisible DEF LoadCredit, rowVars
  <2> QED BY <2>1, <2>2
<1>5. ASSUME NEW r \in Requests, InsertClearing(r) PROVE Atomic!Next \/ UNCHANGED Atomic!avars
  <2>1. CASE Current(r)
    BY <1>5, <2>1, Invisible DEF InsertClearing, rowVars
  <2>2. CASE ~Current(r)
    BY <1>5, <2>2, RefuseRefines DEF InsertClearing, Refusals
  <2> QED BY <2>1, <2>2
<1>6. ASSUME NEW r \in Requests, UpdateDebit(r) PROVE Atomic!Next \/ UNCHANGED Atomic!avars
  <2>1. CASE Current(r)
    BY <1>6, <2>1, Invisible DEF UpdateDebit, rowVars
  <2>2. CASE ~Current(r)
    BY <1>6, <2>2, StaleRefines DEF UpdateDebit
  <2> QED BY <2>1, <2>2
<1>7. ASSUME NEW r \in Requests, UpdateCredit(r) PROVE Atomic!Next \/ UNCHANGED Atomic!avars
  <2>1. CASE Current(r)
    BY <1>7, <2>1, CommitRefines DEF UpdateCredit, Atomic!Next
  <2>2. CASE ~Current(r)
    BY <1>7, <2>2, StaleRefines DEF UpdateCredit
  <2> QED BY <2>1, <2>2
<1>8. ASSUME NEW r \in Requests, AbortDeadlocked(r) PROVE Atomic!Next \/ UNCHANGED Atomic!avars
  <2>1. phase[r] # "done"
    BY <1>8 DEF AbortDeadlocked, WaitCycle, Waits, Flushing
  <2> QED
    BY <1>8, <2>1, RefuseRefines DEF AbortDeadlocked, Refusals
<1>9. ASSUME NEW a \in Accounts, OpenAccount(a) PROVE Atomic!Next \/ UNCHANGED Atomic!avars
  <2>1. a \notin ExistingRows /\ a \in Rows
    BY <1>9 DEF OpenAccount, ExistingRows, Rows
  <2>2. ExistingRows' = ExistingRows \cup {a}
    BY <1>9, <2>1 DEF OpenAccount, ExistingRows, IInv, TypeOK
  <2>3. Atomic!Open(a)
    BY <1>9, <2>1, <2>2 DEF OpenAccount, Atomic!Open, Settled
  <2> QED
    BY <2>3 DEF Atomic!Next
<1>10. ASSUME NEW a \in Rows, Freeze(a) PROVE Atomic!Next \/ UNCHANGED Atomic!avars
  <2>1. ExistingRows' = ExistingRows
    BY <1>10 DEF Freeze, ExistingRows, IInv, TypeOK
  <2> QED
    BY <1>10, <2>1 DEF Freeze, Atomic!avars, Settled
<1>11. ASSUME Crash PROVE Atomic!Next \/ UNCHANGED Atomic!avars
  <2> DEFINE S == {r \in Requests : InProgress(r)}
  <2>1. /\ \A r \in S : result[r] = "PENDING"
        /\ \A r \in S : result'[r] \in Refusals
        /\ \A r \in Requests \ S : result'[r] = result[r]
    BY <1>11 DEF Crash, InProgress, IInv, RequestsInv, RequestInv, Refusals
  <2>2. UNCHANGED <<cmd, status, balance>>
    BY <1>11 DEF Crash, rowVars
  <2>3. S \in SUBSET Requests
    OBVIOUS
  <2> HIDE DEF S
  <2> QED
    BY <2>1, <2>2, <2>3, RefusalRefines
<1>12. CASE UNCHANGED vars
  BY <1>12, Invisible DEF vars
<1> QED
  BY <1>1, <1>2, <1>3, <1>4, <1>5, <1>6, <1>7, <1>8, <1>9, <1>10, <1>11, <1>12
     DEF Next, Step

\* Attempts, versions, row locks, deadlocks, retries and crashes together are no
\* more than indivisible movements of money and refusals.
THEOREM LedgerIsAtomic == Spec => AtomicSpec
BY InitRefines, StepRefines, LedgerInvariant, PTL DEF Spec, AtomicSpec, Atomic!Spec

-------------------------------------------------------------------------------
(* Freezing an account *)

\* The debiting attempts of a frozen account only drain: to get past the status
\* check, an attempt must see the account ACTIVE.
LEMMA FreezeStep ==
    ASSUME IInv, [Next]_vars, NEW a \in Accounts, status[a] = "FROZEN"
    PROVE  InFlightDebits(a)' \subseteq InFlightDebits(a)
<1> SUFFICES ASSUME NEW r \in Requests, Debit(cmd[r])' = a, phase'[r] \notin {"account", "done"},
                    phase[r] \in {"account", "done"} \/ Debit(cmd[r]) # a
             PROVE  FALSE
  BY DEF InFlightDebits
<1>0. cmd' = cmd
  BY DEF Next, Step, LoadAccount, FindClearing, LoadDebit, LoadCredit, InsertClearing, UpdateDebit,
         UpdateCredit, Commit, Stale, Retry, GiveUp, Refuse, AbortDeadlocked, OpenAccount, Freeze,
         Crash, vars
<1>1. phase[r] \in {"account", "done"} /\ Debit(cmd[r]) = a
  BY <1>0
<1>2. phase'[r] # phase[r]
  BY <1>1
<1>3. LoadAccount(r)
  <2>1. ASSUME NEW q \in Requests, Step(q) PROVE q = r
    BY <1>2, <2>1 DEF Step, LoadAccount, FindClearing, LoadDebit, LoadCredit, InsertClearing, UpdateDebit,
         UpdateCredit, Commit, Stale, Retry, GiveUp, Refuse, IInv, TypeOK
  <2>2. ASSUME NEW q \in Requests, AbortDeadlocked(q) PROVE FALSE
    BY <1>2, <2>2 DEF AbortDeadlocked, Refuse, IInv, TypeOK
  <2>3. ~Crash
    BY <1>2 DEF Crash
  <2>4. Step(r)
    BY <1>2, <2>1, <2>2, <2>3 DEF Next, OpenAccount, Freeze, vars
  <2> QED
    BY <1>1, <2>4 DEF Step, FindClearing, LoadDebit, LoadCredit, InsertClearing, UpdateDebit, UpdateCredit
<1>4. Refusal(cmd[r]) = "none"
  BY <1>2, <1>3 DEF LoadAccount, Refuse, IInv, TypeOK
<1>5. cmd[r] \in Commands /\ cmd[r].kind \in Kinds
  BY LegsAreRows DEF IInv, TypeOK, CommandType
<1>6. cmd[r].kind # "deposit" /\ cmd[r].account = a
  BY <1>1, <1>5, LegsAreRows DEF Debit
<1> QED
  BY <1>4, <1>5, <1>6 DEF Refusal, TransferRefusal, WithdrawRefusal, Kinds

\* AdminAccountService.freeze cannot be undone by a request that is retried.
THEOREM FreezeDrains == Spec => FreezeIsFinal
<1>1. IInv /\ [Next]_vars =>
        [\A a \in Accounts :
            status[a] = "FROZEN" => InFlightDebits(a)' \subseteq InFlightDebits(a)]_vars
  BY FreezeStep
<1> QED
  BY <1>1, LedgerInvariant, PTL DEF Spec, FreezeIsFinal

===============================================================================
