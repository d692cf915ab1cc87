------------------------------ MODULE TransferRows ------------------------------
(***************************************************************************)
(* The table scheduled_transfer and the postings made for its rows, and    *)
(* what a customer may rely on, whatever the batch job does (module        *)
(* ScheduledTransfers).                                                    *)
(***************************************************************************)
EXTENDS Naturals

CONSTANTS
    Transfers,      \* scheduled transfers
    Runners         \* backend processes, one job thread each

VARIABLES
    status,     \* scheduled_transfer.status, "NONE" before it is scheduled
    moved,      \* how often the ledger has moved the transfer's amount
    lock,       \* the runner that holds the row's lock
    crashes     \* crashes of runners so far

\* The runner sends each transfer under the key "scheduled-transfer-<id>", so that it
\* is posted once; beyond the first, there is at most one posting for each crash of a
\* runner, with any number of runners at work on the same rows.
ExtraPostingsNeedCrashes == \A t \in Transfers : moved[t] <= 1 + crashes

\* What the customer is shown: EXECUTED means the money has moved; and as long as
\* no runner has crashed, PENDING or FAILED that it has not, except while a
\* runner is at work on the transfer.
StatusTellsTheTruth ==
    \A t \in Transfers :
        /\ status[t] = "EXECUTED" => moved[t] >= 1
        /\ status[t] # "EXECUTED" /\ crashes = 0 /\ lock[t] \notin Runners => moved[t] = 0

\* A settled transfer is never taken up again, by a runner that had selected it
\* before another one settled it.
SettledIsFinal ==
    [][\A t \in Transfers : status[t] \in {"EXECUTED", "FAILED"} =>
          status'[t] = status[t] /\ moved'[t] = moved[t]]_<<status, moved>>

=================================================================================
