--------------------------------- MODULE Ledger ---------------------------------
(***************************************************************************)
(* The ledger core of the backend: TransferExecutor and                    *)
(* DepositWithdrawExecutor run inside OptimisticRetryTemplate, next to     *)
(* OpenAccountService and AdminAccountService.                             *)
(*                                                                         *)
(* An attempt is one REQUIRES_NEW transaction at READ COMMITTED.  It reads *)
(* the account rows, then the debited and the credited balance rows, each  *)
(* in a statement (and a snapshot) of its own; Hibernate writes nothing    *)
(* before the commit, where it flushes INSERTs, then the balance UPDATEs   *)
(* in the order the rows were loaded.  Each UPDATE is "... WHERE           *)
(* version = ?", takes the row lock until the transaction ends, and        *)
(* counting no row it raises ObjectOptimisticLockingFailureException,      *)
(* which the retry template answers with a new attempt.                    *)
(*                                                                         *)
(* The ledger_entry table is kept as what the reconciliation queries ask   *)
(* of it: the sum of an account's entries, per currency of the entries.    *)
(***************************************************************************)
EXTENDS LedgerBase, FiniteSetsExt

CONSTANTS
    MaxAttempts,    \* OptimisticRetryTemplate.MAX_ATTEMPTS
    None            \* "no transaction holds this lock"

ASSUME LedgerBounds ==
    /\ MaxAttempts \in Nat \ {0}
    /\ None \notin Requests

\* The books that the run starts with are balanced: every transaction of the past
\* has posted two entries that cancel out.
ASSUME BalancedOpening ==
    /\ IsFiniteSet(Rows)
    /\ \A u \in Currencies :
          SumFunctionOnSet([a \in Rows |-> IF u = CurrencyOfRow(a) THEN Opening[a] ELSE 0], Rows) = 0

VARIABLES
    cmd,        \* [Requests -> Commands]: what each request asks for
    status,     \* account.status, or "ABSENT" where there is no row
    balance,    \* account_balance.balance_minor_units (0 where absent)
    version,    \* account_balance.version (0 where absent)
    entrySum,   \* [Rows -> [Currencies -> Int]]: sums over ledger_entry
    lock,       \* the transaction that holds a balance row's write lock
    phase,      \* where the request's current attempt is
    snap,       \* what that attempt has read
    failures,   \* attempts of the request that ended in a stale version
    result      \* how the request was answered

rowVars == <<status, balance, version, entrySum>>
vars == <<cmd, status, balance, version, entrySum, lock, phase, snap, failures, result>>

Statuses == {"ABSENT", "ACTIVE", "FROZEN"}

\* The steps of an attempt, named for what is to be done next.
Phases == {"account", "clearing", "debit", "credit",
           "insert", "updateDebit", "updateCredit", "done"}

Refusals == {"InvalidAmount", "SameAccount", "StepUpRequired", "AccountNotFound",
             "CurrencyMismatch", "AccountNotActive", "InsufficientFunds", "Overflow",
             "DataIntegrity", "LockFailure", "RetriesExhausted", "Crashed"}

RowRead == [balance: Long, version: Nat]
NewRow == [balance |-> 0, version |-> 0]
Snapshot == [creates: BOOLEAN, debit: RowRead, credit: RowRead]
NoSnapshot == [creates |-> FALSE, debit |-> NewRow, credit |-> NewRow]

TypeOK ==
    /\ cmd \in [Requests -> Commands]
    /\ status \in [Rows -> Statuses]
    /\ balance \in [Rows -> Long]
    /\ version \in [Rows -> Nat]
    /\ entrySum \in [Rows -> [Currencies -> Int]]
    /\ lock \in [Rows -> Requests \cup {None}]
    /\ phase \in [Requests -> Phases]
    /\ snap \in [Requests -> Snapshot]
    /\ failures \in [Requests -> 0..MaxAttempts]
    /\ result \in [Requests -> {"PENDING", "OK"} \cup Refusals]

\* A reconciled ledger: each balance is the sum of its entries.
Init ==
    /\ cmd \in [Requests -> Commands]
    /\ status = [a \in Rows |-> IF a \in Opened THEN "ACTIVE" ELSE "ABSENT"]
    /\ balance = Opening
    /\ version = [a \in Rows |-> 0]
    /\ entrySum = [a \in Rows |-> [u \in Currencies |->
                      IF u = CurrencyOfRow(a) THEN Opening[a] ELSE 0]]
    /\ lock = [a \in Rows |-> None]
    /\ phase = [r \in Requests |-> "account"]
    /\ snap = [r \in Requests |-> NoSnapshot]
    /\ failures = [r \in Requests |-> 0]
    /\ result = [r \in Requests |-> "PENDING"]

-------------------------------------------------------------------------------
(* Ends of an attempt *)

\* Mutant: a rollback that leaves its row locks behind.
ReleasedLeaks(r) == lock

Released(r) == [a \in Rows |-> IF lock[a] = r THEN None ELSE lock[a]]

\* An exception the retry template does not catch: rollback, and the answer.
Refuse(r, why) ==
    /\ lock' = Released(r)
    /\ phase' = [phase EXCEPT ![r] = "done"]
    /\ snap' = [snap EXCEPT ![r] = NoSnapshot]
    /\ result' = [result EXCEPT ![r] = why]
    /\ UNCHANGED <<cmd, rowVars, failures>>

\* Mutant: a retry that flushes what the failed attempt had read once more.
RetryWithoutReading(r) ==
    /\ failures[r] + 1 < MaxAttempts
    /\ lock' = Released(r)
    /\ phase' = [phase EXCEPT ![r] = "updateDebit"]
    /\ failures' = [failures EXCEPT ![r] = @ + 1]
    /\ UNCHANGED <<cmd, rowVars, snap, result>>

\* OptimisticRetryTemplate.execute catching a stale version: rollback, backoff,
\* and a new attempt from the beginning unless this was the last one.
Retry(r) ==
    /\ failures[r] + 1 < MaxAttempts
    /\ lock' = Released(r)
    /\ phase' = [phase EXCEPT ![r] = "account"]
    /\ snap' = [snap EXCEPT ![r] = NoSnapshot]
    /\ failures' = [failures EXCEPT ![r] = @ + 1]
    /\ UNCHANGED <<cmd, rowVars, result>>

GiveUp(r) ==
    /\ failures[r] + 1 = MaxAttempts
    /\ lock' = Released(r)
    /\ phase' = [phase EXCEPT ![r] = "done"]
    /\ snap' = [snap EXCEPT ![r] = NoSnapshot]
    /\ failures' = [failures EXCEPT ![r] = @ + 1]
    /\ result' = [result EXCEPT ![r] = "RetriesExhausted"]
    /\ UNCHANGED <<cmd, rowVars>>

Stale(r) == Retry(r) \/ GiveUp(r)

-------------------------------------------------------------------------------
(* The reads *)

\* The checks an executor makes before it touches a balance row, in the order
\* it makes them; "none" when the command passes.
TransferRefusal(c) ==
    IF c.amount <= 0 THEN "InvalidAmount"
    ELSE IF c.account = c.to THEN "SameAccount"
    ELSE IF c.amount >= StepUpThreshold /\ ~c.stepUp THEN "StepUpRequired"
    ELSE IF "ABSENT" \in {status[c.account], status[c.to]} THEN "AccountNotFound"
    ELSE IF CurrencyOfRow(c.account) # CurrencyOfRow(c.to) THEN "CurrencyMismatch"
    ELSE IF status[c.account] # "ACTIVE" THEN "AccountNotActive"
    ELSE "none"

\* A FROZEN account may still be credited: deposit() never looks at the status.
DepositRefusal(c) ==
    IF c.amount <= 0 THEN "InvalidAmount"
    ELSE IF status[c.account] = "ABSENT" THEN "AccountNotFound"
    ELSE "none"

\* Mutant: a withdrawal that, like a deposit, ignores the status.
WithdrawRefusalIgnoresStatus(c) == DepositRefusal(c)

WithdrawRefusal(c) ==
    IF c.amount <= 0 THEN "InvalidAmount"
    ELSE IF status[c.account] = "ABSENT" THEN "AccountNotFound"
    ELSE IF status[c.account] # "ACTIVE" THEN "AccountNotActive"
    ELSE "none"

Refusal(c) ==
    IF c.kind = "transfer" THEN TransferRefusal(c)
    ELSE IF c.kind = "deposit" THEN DepositRefusal(c)
    ELSE WithdrawRefusal(c)

LoadAccount(r) ==
    LET c == cmd[r]
        why == Refusal(c)
    IN  /\ phase[r] = "account"
        /\ \/ /\ why # "none"
              /\ Refuse(r, why)
           \/ /\ why = "none"
              /\ phase' = [phase EXCEPT ![r] =
                              IF c.kind = "transfer" THEN "debit" ELSE "clearing"]
              /\ UNCHANGED <<cmd, rowVars, lock, snap, failures, result>>

\* getOrCreateCashClearing: the new account is only scheduled for insertion, so
\* the DataIntegrityViolationException createCashClearing catches cannot be
\* raised inside its try block, but by the flush (InsertClearing).
FindClearing(r) ==
    /\ phase[r] = "clearing"
    /\ snap' = [snap EXCEPT ![r].creates = (status[Clearing(cmd[r])] = "ABSENT")]
    /\ phase' = [phase EXCEPT ![r] = "debit"]
    /\ UNCHANGED <<cmd, rowVars, lock, failures, result>>

\* findById on a balance row: the attempt sees the row it is about to insert
\* itself, or the committed one.
Read(r, a) ==
    IF snap[r].creates /\ a = Clearing(cmd[r]) THEN NewRow
    ELSE [balance |-> balance[a], version |-> version[a]]

\* Mutants: arithmetic that wraps around, and amounts of any currency.
MoneyRefusalWraps(a, c, sum) == IF CurrencyOfRow(a) # c.currency THEN "CurrencyMismatch" ELSE "none"
MoneyRefusalAnyCurrency(a, c, sum) == IF sum \notin Long THEN "Overflow" ELSE "none"

\* Money.add and Money.subtract: one currency, and no silent wrap-around.
MoneyRefusal(a, c, sum) ==
    IF CurrencyOfRow(a) # c.currency THEN "CurrencyMismatch"
    ELSE IF sum \notin Long THEN "Overflow"
    ELSE "none"

\* Mutant: an overdraft of one minor unit passes.
DebitRefusalOffByOne(a, c, sum) ==
    IF MoneyRefusal(a, c, sum) # "none" THEN MoneyRefusal(a, c, sum)
    ELSE IF a \in Accounts /\ sum < -1 THEN "InsufficientFunds"
    ELSE "none"

\* Only a customer's account must cover the amount.
DebitRefusal(a, c, sum) ==
    IF MoneyRefusal(a, c, sum) # "none" THEN MoneyRefusal(a, c, sum)
    ELSE IF a \in Accounts /\ sum < 0 THEN "InsufficientFunds"
    ELSE "none"

LoadDebit(r) ==
    LET c == cmd[r]
        row == Read(r, Debit(c))
        why == DebitRefusal(Debit(c), c, row.balance - c.amount)
    IN  /\ phase[r] = "debit"
        /\ \/ /\ why # "none"
              /\ Refuse(r, why)
           \/ /\ why = "none"
              /\ snap' = [snap EXCEPT ![r].debit = row]
              /\ phase' = [phase EXCEPT ![r] = "credit"]
              /\ UNCHANGED <<cmd, rowVars, lock, failures, result>>

LoadCredit(r) ==
    LET c == cmd[r]
        row == Read(r, Credit(c))
        why == MoneyRefusal(Credit(c), c, row.balance + c.amount)
    IN  /\ phase[r] = "credit"
        /\ \/ /\ why # "none"
              /\ Refuse(r, why)
           \/ /\ why = "none"
              /\ snap' = [snap EXCEPT ![r].credit = row]
              /\ phase' = [phase EXCEPT ![r] =
                              IF snap[r].creates THEN "insert" ELSE "updateDebit"]
              /\ UNCHANGED <<cmd, rowVars, lock, failures, result>>

-------------------------------------------------------------------------------
(* The flush *)

\* The row whose lock (for "insert": whose unique key) the attempt needs next.
Wants(r) ==
    IF phase[r] = "insert" THEN Clearing(cmd[r])
    ELSE IF phase[r] = "updateDebit" THEN Debit(cmd[r])
    ELSE Credit(cmd[r])

Flushing(r) == phase[r] \in {"insert", "updateDebit", "updateCredit"}

\* Mutants: balance rows without @Version, and no unique index on the SYSTEM
\* account's currency.
CurrentWithoutVersion(r) ==
    phase[r] = "insert" => status[Clearing(cmd[r])] = "ABSENT"
CurrentWithoutIndex(r) ==
    IF phase[r] = "insert" \/ snap[r].creates THEN TRUE
    ELSE IF phase[r] = "updateDebit"
         THEN version[Debit(cmd[r])] = snap[r].debit.version
         ELSE version[Credit(cmd[r])] = snap[r].credit.version

\* The statement still finds what the attempt read: no such key, or the version.
Current(r) ==
    IF phase[r] = "insert" THEN status[Clearing(cmd[r])] = "ABSENT"
    ELSE IF phase[r] = "updateDebit"
         THEN version[Debit(cmd[r])] = snap[r].debit.version
         ELSE version[Credit(cmd[r])] = snap[r].credit.version

\* A statement that finds its row locked waits for that transaction to end, and
\* looks again; one that does not find it fails without waiting.
Waits(r) == Flushing(r) /\ Current(r) /\ lock[Wants(r)] \notin {None, r}

\* INSERT INTO account for the SYSTEM account: waits for another transaction
\* that inserts the same key, and violates the index if that one committed.
InsertClearing(r) ==
    /\ phase[r] = "insert"
    /\ \/ /\ ~Current(r)
          /\ Refuse(r, "DataIntegrity")
       \/ /\ Current(r)
          /\ ~Waits(r)
          /\ lock' = [lock EXCEPT ![Clearing(cmd[r])] = r]
          /\ phase' = [phase EXCEPT ![r] = "updateDebit"]
          /\ UNCHANGED <<cmd, rowVars, snap, failures, result>>

UpdateDebit(r) ==
    /\ phase[r] = "updateDebit"
    /\ \/ /\ ~Current(r)
          /\ Stale(r)
       \/ /\ Current(r)
          /\ ~Waits(r)
          /\ lock' = [lock EXCEPT ![Debit(cmd[r])] = r]
          /\ phase' = [phase EXCEPT ![r] = "updateCredit"]
          /\ UNCHANGED <<cmd, rowVars, snap, failures, result>>

\* Mutant: only the debit is booked.
PostEntriesOneLeg(c) == [entrySum EXCEPT ![Debit(c)][c.currency] = @ - c.amount]

\* The ledger entries of the command, both in the currency of its amount.
PostEntries(c) ==
    [entrySum EXCEPT ![Debit(c)][c.currency] = @ - c.amount,
                     ![Credit(c)][c.currency] = @ + c.amount]

\* The last UPDATE and the COMMIT, which makes every write of the attempt
\* visible: absolute balances computed from what was read, the two entries,
\* and the clearing account if this attempt created it.
Commit(r) ==
    LET c == cmd[r]
        d == Debit(c)
        e == Credit(c)
    IN  /\ balance' = [balance EXCEPT ![d] = snap[r].debit.balance - c.amount,
                                      ![e] = snap[r].credit.balance + c.amount]
        /\ version' = [version EXCEPT ![d] = snap[r].debit.version + 1,
                                      ![e] = snap[r].credit.version + 1]
        /\ entrySum' = PostEntries(c)
        /\ status' = [status EXCEPT ![Clearing(c)] = IF snap[r].creates THEN "ACTIVE" ELSE @]
        /\ lock' = Released(r)
        /\ phase' = [phase EXCEPT ![r] = "done"]
        /\ snap' = [snap EXCEPT ![r] = NoSnapshot]
        /\ result' = [result EXCEPT ![r] = "OK"]
        /\ UNCHANGED <<cmd, failures>>

UpdateCredit(r) ==
    /\ phase[r] = "updateCredit"
    /\ \/ /\ ~Current(r)
          /\ Stale(r)
       \/ /\ Current(r)
          /\ ~Waits(r)
          /\ Commit(r)

\* A set of transactions each of which waits for a lock another one holds.
WaitCycle(S) ==
    /\ \A q \in S : Waits(q)
    /\ {lock[Wants(q)] : q \in S} = S

\* PostgreSQL aborts one transaction of a wait-for cycle.  The error is a
\* CannotAcquireLockException, which the retry template does not catch.
AbortDeadlocked(r) ==
    /\ \E S \in SUBSET Requests : r \in S /\ WaitCycle(S)
    /\ Refuse(r, "LockFailure")

-------------------------------------------------------------------------------
(* The other writers *)

OpenAccount(a) ==
    /\ status[a] = "ABSENT"
    /\ status' = [status EXCEPT ![a] = "ACTIVE"]
    /\ UNCHANGED <<cmd, balance, version, entrySum, lock, phase, snap, failures, result>>

\* AdminAccountService.freeze, on any existing account; there is no unfreeze.
Freeze(a) ==
    /\ status[a] # "ABSENT"
    /\ status' = [status EXCEPT ![a] = "FROZEN"]
    /\ UNCHANGED <<cmd, balance, version, entrySum, lock, phase, snap, failures, result>>

\* A request the backend has begun to work on and not answered.
InProgress(r) ==
    /\ phase[r] # "done"
    /\ phase[r] # "account" \/ failures[r] > 0

\* The backend process dies: PostgreSQL rolls the open transactions back.
Crash ==
    /\ \E r \in Requests : InProgress(r)
    /\ lock' = [a \in Rows |-> None]
    /\ phase' = [r \in Requests |-> IF InProgress(r) THEN "done" ELSE phase[r]]
    /\ snap' = [r \in Requests |-> NoSnapshot]
    /\ result' = [r \in Requests |-> IF InProgress(r) THEN "Crashed" ELSE result[r]]
    /\ UNCHANGED <<cmd, rowVars, failures>>

\* The request's own thread.
Step(r) ==
    \/ LoadAccount(r)
    \/ FindClearing(r)
    \/ LoadDebit(r)
    \/ LoadCredit(r)
    \/ InsertClearing(r)
    \/ UpdateDebit(r)
    \/ UpdateCredit(r)

Next ==
    \/ \E r \in Requests : Step(r) \/ AbortDeadlocked(r)
    \/ \E a \in Accounts : OpenAccount(a)
    \/ \E a \in Rows : Freeze(a)
    \/ Crash

Spec == Init /\ [][Next]_vars

\* Request threads run, and PostgreSQL's deadlock_timeout fires.
Fairness == \A r \in Requests : WF_vars(Step(r)) /\ WF_vars(AbortDeadlocked(r))

FairSpec == Spec /\ Fairness

-------------------------------------------------------------------------------
(* Properties *)

\* Reconciliation's per-account check, in every state: a balance is the sum of
\* the account's ledger entries, all of them in the account's currency.  The
\* balance is written as an absolute value computed from an earlier read, the
\* entries are inserted, so a lost update would part them.
BalanceMatchesEntries ==
    \A a \in Rows : \A u \in Currencies :
        entrySum[a][u] = IF u = CurrencyOfRow(a) THEN balance[a] ELSE 0

\* Reconciliation's first check: the entries of each currency sum to zero.
ZeroSumByCurrency ==
    \A u \in Currencies : SumFunctionOnSet([a \in Rows |-> entrySum[a][u]], Rows) = 0

\* A stale version is always another request's commit: a request fails at most
\* as often as other requests succeed, so MAX_ATTEMPTS bounds the contention
\* that the retry template survives.
FailuresNeedCommits ==
    \A r \in Requests :
        failures[r] <= Cardinality({q \in Requests \ {r} : result[q] = "OK"})

\* No interleaving of withdrawals and transfers overdraws a customer's account
\* (the funds check reads a row that other transactions may then change).
NoOverdraft == \A a \in Accounts : balance[a] >= 0

\* Attempts of the requests that would debit a and have seen it ACTIVE.
InFlightDebits(a) ==
    {r \in Requests : Debit(cmd[r]) = a /\ phase[r] \notin {"account", "done"}}

\* Once an account is frozen no further attempt to debit it gets past the status
\* check, a retried one included: what is in flight can only drain.
FreezeIsFinal ==
    [][\A a \in Accounts :
          status[a] = "FROZEN" => InFlightDebits(a)' \subseteq InFlightDebits(a)]_vars

\* Every request is answered: row locks are always released again, deadlocks are
\* broken, and the retries end.
EveryRequestAnswered == \A r \in Requests : <>(phase[r] = "done")

\* The refinement mapping.
ExistingRows == {a \in Rows : status[a] # "ABSENT"}

Settled ==
    [r \in Requests |-> IF result[r] = "PENDING" THEN "no"
                        ELSE IF result[r] = "OK" THEN "moved" ELSE "refused"]

Atomic == INSTANCE AtomicLedger WITH opened <- ExistingRows, settled <- Settled

\* Every committed attempt moves its amount against the balances of the moment
\* it commits, with the funds there, and a request that is retried, refused,
\* aborted or cut off by a crash moves nothing more.
AtomicSpec == Atomic!Spec

===============================================================================
