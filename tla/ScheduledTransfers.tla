--------------------------- MODULE ScheduledTransfers ---------------------------
(***************************************************************************)
(* ScheduleTransferService and the batch job, ScheduledTransferRunner, in  *)
(* any number of backend processes.                                        *)
(*                                                                         *)
(* executeDueTransfers is one transaction around the whole batch: it locks *)
(* the due rows (PESSIMISTIC_WRITE), and the statuses, the audit events    *)
(* and the idempotency records of the batch commit with it.  The money of  *)
(* each transfer moves in a REQUIRES_NEW transaction, which commits before *)
(* the batch does.  Whether the ledger accepts a movement is its choice    *)
(* (module Ledger), but for the step-up check: the job passes              *)
(* stepUpVerified = false.                                                 *)
(***************************************************************************)
EXTENDS TransferRows

CONSTANTS
    Large,          \* those of at least stepUpThresholdMinorUnits
    MaxAttempts,    \* ScheduledTransferRunner.MAX_ATTEMPTS
    MaxCrashes,     \* bound on the crashes of runners
    None            \* "no runner"

ASSUME ScheduledTransfersConstants ==
    /\ Large \subseteq Transfers
    /\ MaxAttempts \in Nat \ {0}
    /\ MaxCrashes \in Nat
    /\ None \notin Runners

VARIABLES
    due,        \* the transfers whose scheduled_for has come
    attempts,   \* attempt_count
    reason,     \* failure_reason
    record,     \* the transfers with an idempotency record
    stage,      \* where a runner's transaction is
    batch,      \* the transfers it works on
    outcome     \* what became of each of them in this transaction

vars == <<status, due, attempts, reason, record, moved, lock, stage, batch, outcome, crashes>>
rowVars == <<status, due, attempts, reason, record>>

Statuses == {"NONE", "PENDING", "EXECUTED", "FAILED"}
Reasons == {"none", "StepUpRequired", "Refused"}
Outcomes == {"open", "executed", "StepUpRequired", "Refused"}
AllOpen == [t \in Transfers |-> "open"]

TypeOK ==
    /\ status \in [Transfers -> Statuses]
    /\ due \subseteq Transfers
    /\ attempts \in [Transfers -> 0..MaxAttempts]
    /\ reason \in [Transfers -> Reasons]
    /\ record \subseteq Transfers
    /\ moved \in [Transfers -> Nat]
    /\ lock \in [Transfers -> Runners \cup {None}]
    /\ stage \in [Runners -> {"idle", "locking", "working"}]
    /\ batch \in [Runners -> SUBSET Transfers]
    /\ outcome \in [Runners -> [Transfers -> Outcomes]]
    /\ crashes \in 0..MaxCrashes

Init ==
    /\ status = [t \in Transfers |-> "NONE"]
    /\ due = {}
    /\ attempts = [t \in Transfers |-> 0]
    /\ reason = [t \in Transfers |-> "none"]
    /\ record = {}
    /\ moved = [t \in Transfers |-> 0]
    /\ lock = [t \in Transfers |-> None]
    /\ stage = [w \in Runners |-> "idle"]
    /\ batch = [w \in Runners |-> {}]
    /\ outcome = [w \in Runners |-> AllOpen]
    /\ crashes = 0

\* ScheduleTransferService.schedule with a command it accepts.
Schedule(t) ==
    /\ status[t] = "NONE"
    /\ status' = [status EXCEPT ![t] = "PENDING"]
    /\ UNCHANGED <<due, attempts, reason, record, moved, lock, stage, batch, outcome, crashes>>

\* Time passes scheduled_for, which may also have been in the past already.
ComesDue(t) ==
    /\ t \notin due
    /\ due' = due \cup {t}
    /\ UNCHANGED <<status, attempts, reason, record, moved, lock, stage, batch, outcome, crashes>>

IsPending(t) == status[t] = "PENDING"

\* The SELECT ... FOR UPDATE finds its rows in the snapshot of this moment.
Select(w) ==
    /\ stage[w] = "idle"
    /\ batch' = [batch EXCEPT ![w] = {t \in due : IsPending(t)}]
    /\ stage' = [stage EXCEPT ![w] = "locking"]
    /\ UNCHANGED <<rowVars, moved, lock, outcome, crashes>>

\* Mutant: a row is taken as it was when the query began.
StillWanted(w, t) == TRUE

\* A row that had to be waited for is taken only if it still fits the query.
Fits(w, t) == IsPending(t)

\* Mutant: the query without @Lock(PESSIMISTIC_WRITE).
LockRowsUnlocked(w) ==
    /\ stage[w] = "locking"
    /\ stage' = [stage EXCEPT ![w] = "working"]
    /\ UNCHANGED <<rowVars, moved, lock, batch, outcome, crashes>>

\* ... waits until nobody holds any of them, and locks them.
LockRows(w) ==
    LET rows == {t \in batch[w] : Fits(w, t)}
    IN  /\ stage[w] = "locking"
        /\ \A t \in batch[w] : lock[t] = None
        /\ lock' = [t \in Transfers |-> IF t \in rows THEN w ELSE lock[t]]
        /\ batch' = [batch EXCEPT ![w] = rows]
        /\ stage' = [stage EXCEPT ![w] = "working"]
        /\ UNCHANGED <<rowVars, moved, outcome, crashes>>

Working(w, t) == stage[w] = "working" /\ t \in batch[w] /\ outcome[w][t] = "open"

Settle(w, t, what) ==
    /\ outcome' = [outcome EXCEPT ![w][t] = what]
    /\ UNCHANGED <<rowVars, lock, stage, batch, crashes>>

\* transferService.transfer succeeds: a committed record is replayed, otherwise
\* the ledger moves the money in a transaction of its own.
Execute(w, t) ==
    /\ Working(w, t)
    /\ t \in Large => t \in record
    /\ moved' = [moved EXCEPT ![t] = IF t \in record THEN @ ELSE @ + 1]
    /\ Settle(w, t, "executed")

\* The ledger refuses (funds, status, currency, locks), or asks for step-up.
Fail(w, t) ==
    /\ Working(w, t)
    /\ t \notin record
    /\ Settle(w, t, IF t \in Large THEN "StepUpRequired" ELSE "Refused")
    /\ UNCHANGED moved

\* Mutant: the failed attempt is not counted.
AttemptsNotCounted(w, t) == attempts[t]

\* recordFailedAttempt, once for each pass in which the transfer failed.
AttemptsAfter(w, t) ==
    IF t \in batch[w] /\ outcome[w][t] # "executed" THEN attempts[t] + 1 ELSE attempts[t]

\* Mutant: markExecuted after the catch block, not inside the try.
StatusAfterAnyOutcome(w, t) == IF t \in batch[w] THEN "EXECUTED" ELSE status[t]

\* markExecuted, or markFailed after the last attempt.
StatusAfter(w, t) ==
    IF t \notin batch[w] THEN status[t]
    ELSE IF outcome[w][t] = "executed" THEN "EXECUTED"
    ELSE IF AttemptsAfter(w, t) >= MaxAttempts THEN "FAILED"
    ELSE "PENDING"

\* saveAll and the commit of the batch, when the loop is through.
Commit(w) ==
    /\ stage[w] = "working"
    /\ \A t \in batch[w] : outcome[w][t] # "open"
    /\ status' = [t \in Transfers |-> StatusAfter(w, t)]
    /\ attempts' = [t \in Transfers |-> AttemptsAfter(w, t)]
    /\ reason' = [t \in Transfers |->
                     IF t \in batch[w] /\ outcome[w][t] # "executed" THEN outcome[w][t]
                     ELSE reason[t]]
    /\ record' = record \cup {t \in batch[w] : outcome[w][t] = "executed"}
    /\ lock' = [t \in Transfers |-> IF lock[t] = w THEN None ELSE lock[t]]
    /\ stage' = [stage EXCEPT ![w] = "idle"]
    /\ batch' = [batch EXCEPT ![w] = {}]
    /\ outcome' = [outcome EXCEPT ![w] = AllOpen]
    /\ UNCHANGED <<due, moved, crashes>>

\* The process dies, or the commit fails: the batch is rolled back, and the money
\* that has moved stays moved.
Crash(w) ==
    /\ stage[w] # "idle"
    /\ crashes < MaxCrashes
    /\ crashes' = crashes + 1
    /\ lock' = [t \in Transfers |-> IF lock[t] = w THEN None ELSE lock[t]]
    /\ stage' = [stage EXCEPT ![w] = "idle"]
    /\ batch' = [batch EXCEPT ![w] = {}]
    /\ outcome' = [outcome EXCEPT ![w] = AllOpen]
    /\ UNCHANGED <<rowVars, moved>>

\* The job thread of one process.
Run(w) ==
    \/ Select(w)
    \/ LockRows(w)
    \/ \E t \in Transfers : Execute(w, t) \/ Fail(w, t)
    \/ Commit(w)

Next ==
    \/ \E t \in Transfers : Schedule(t) \/ ComesDue(t)
    \/ \E w \in Runners : Run(w) \/ Crash(w)

Spec == Init /\ [][Next]_vars

\* @Scheduled(fixedDelay) starts the job again and again, and its steps end.
FairSpec == Spec /\ \A w \in Runners : WF_vars(Run(w))

-------------------------------------------------------------------------------
(* Properties *)

\* A due transfer is executed or, after MAX_ATTEMPTS, marked FAILED.
DueIsSettled ==
    \A t \in Transfers :
        status[t] = "PENDING" /\ t \in due ~> status[t] \in {"EXECUTED", "FAILED"}

===============================================================================
