--------------------------------- MODULE Pages ---------------------------------
(***************************************************************************)
(* The pages that change something at the backend: the transfer wizard     *)
(* (TransferPage), the payees and their two dialogs (PayeesPage) and the   *)
(* MFA tab of the profile (MfaTab), with the mutations they send and the   *)
(* answers that come back to a page that has changed, or gone, meanwhile.  *)
(*                                                                         *)
(* One page is mounted at a time and its state lasts as long as it is:     *)
(* a visit.  A call is a mutation in flight; it outlives the visit that    *)
(* sent it, its setState does not.  Calls are numbered in the order they   *)
(* are sent, and the number doubles as the Idempotency-Key of apiFetch:    *)
(* every call has a key of its own.  A call may be executed and its answer *)
(* lost, and executed after its sender has given it up.                    *)
(***************************************************************************)
EXTENDS Integers, FiniteSets

CONSTANTS
    Sources, Recipients, Amounts,   \* what a valid field of the transfer can hold
    Large,          \* the amounts that need step-up
    Payees,         \* details that payeeSchema accepts
    None,           \* a field that is empty or does not validate; no dialog, no call
    MaxCalls,       \* bound: mutations sent
    MaxVisits,      \* bound: pages mounted
    MaxLost         \* bound: answers lost

ASSUME PageConstants ==
    /\ MaxCalls \in Nat \ {0} /\ MaxVisits \in Nat /\ MaxLost \in Nat
    /\ Large \subseteq Amounts
    /\ None \notin Sources \cup Recipients \cup Amounts \cup Payees
    /\ None \notin 1..MaxCalls

VARIABLES
    page, visit,            \* the mounted page, and how many have been
    step, form,             \* TransferPage
    addOpen, pendingPayee,  \* PayeesPage: the dialog of a new payee
    deleteTarget,           \*   and the one that asks before it deletes
    enrollment,             \* MfaTab: the enrolment whose secret is on the screen
    recoveryCodes,          \*   the confirmation whose codes are
    savedRecoveryCodes,     \*   the check box under them
    calls,                  \* the calls made so far
    reviewed,               \* history: the order under the last click on Confirm
    elevated,               \* backend: the session's token carries step-up
    secret, mfaEnabled,     \* backend: the enrolment codes are verified with
    reenrolled              \* history: an enrolment was executed with MFA on

transferVars == <<step, form, reviewed>>
payeeVars == <<addOpen, pendingPayee, deleteTarget>>
mfaVars == <<enrollment, recoveryCodes, savedRecoveryCodes>>
backend == <<elevated, secret, mfaEnabled, reenrolled>>
vars == <<page, visit, transferVars, payeeVars, mfaVars, calls, backend>>

Steps == {"source", "recipient", "amount", "review", "step-up", "receipt"}
Forms == [source: Sources \cup {None}, recipient: Recipients \cup {None},
          amount: Amounts \cup {None}]
NoForm == [source |-> None, recipient |-> None, amount |-> None]

\* A call: what it asks for, for which visit and whether its details have been
\* changed on the screen since ("stale"); the order reviewed when it was sent; what
\* the backend did with it ("no" when nothing yet) and whether its promise settled,
\* or was rejected for a lost answer.
Kinds == {"transfer", "stepUp", "addPayee", "deletePayee", "enroll", "confirm"}
Results == {"ok", "refused", "stepUpRequired"}
ArgsOf(k) ==
    CASE k \in {"transfer", "stepUp"} -> Forms
      [] k \in {"addPayee", "deletePayee"} -> Payees
      [] k = "enroll" -> {None}
      [] k = "confirm" -> 1..MaxCalls
CallsOf(k) ==
    [kind: {k}, arg: ArgsOf(k), visit: 1..MaxVisits, seen: Forms, stale: BOOLEAN,
     exec: Results \cup {"no"}, end: {"open", "told", "lost"}]
IsCall(c) == c.kind \in Kinds /\ c \in CallsOf(c.kind)

ASSUME NoneIsNoCall == \A k \in Kinds : None \notin CallsOf(k)

Ids == 1..MaxCalls
Sent == {i \in Ids : calls[i] # None}

TypeOK ==
    /\ page \in {"none", "transfer", "payees", "mfa"}
    /\ visit \in 0..MaxVisits
    /\ page # "none" => visit > 0
    /\ step \in Steps /\ form \in Forms /\ reviewed \in Forms
    /\ addOpen \in BOOLEAN
    /\ pendingPayee \in Payees \cup {None} /\ deleteTarget \in Payees \cup {None}
    /\ enrollment \in Ids \cup {None} /\ recoveryCodes \in Ids \cup {None}
    /\ savedRecoveryCodes \in BOOLEAN
    /\ DOMAIN calls = Ids /\ \A i \in Sent : IsCall(calls[i])
    /\ elevated \in BOOLEAN /\ mfaEnabled \in BOOLEAN /\ reenrolled \in BOOLEAN
    /\ secret \in Ids \cup {None}

Init ==
    /\ page = "none" /\ visit = 0
    /\ step = "source" /\ form = NoForm /\ reviewed = NoForm
    /\ addOpen = FALSE /\ pendingPayee = None /\ deleteTarget = None
    /\ enrollment = None /\ recoveryCodes = None /\ savedRecoveryCodes = FALSE
    /\ calls = [i \in Ids |-> None]
    /\ elevated = FALSE /\ secret = None /\ mfaEnabled = FALSE /\ reenrolled = FALSE

-------------------------------------------------------------------------------
(* Calls *)

Open(i) == calls[i].end = "open"

\* Mutant: a page kept its state, and took its answers, when it is mounted again.
HereOnAnyVisit(i) == page # "none"

\* The component that sent the call is still mounted.
Here(i) == page # "none" /\ calls[i].visit = visit

\* isPending of the page's mutation.
Pending(k) == \E i \in Sent : calls[i].kind = k /\ Open(i) /\ Here(i)

NewCall(k, a, seen) ==
    [kind |-> k, arg |-> a, seen |-> seen, visit |-> visit, stale |-> FALSE,
     exec |-> "no", end |-> "open"]

\* apiFetch: the next call, with a key of its own.
Send(cs, c) ==
    \E i \in Ids :
        /\ cs[i] = None /\ \A j \in 1..(i - 1) : cs[j] # None
        /\ calls' = [cs EXCEPT ![i] = c]

\* What is on the screen is changed under the page's calls of these kinds.
Touched(ks) ==
    [i \in Ids |-> IF i \in Sent /\ calls[i].kind \in ks /\ Open(i) /\ Here(i)
                   THEN [calls[i] EXCEPT !.stale = TRUE] ELSE calls[i]]

\* Call i settles with its result, or with an error when the answer was lost.
Settled(i, r) == [calls EXCEPT ![i].end = IF r = "lost" THEN "lost" ELSE "told"]
Outcomes(i) ==
    ({calls[i].exec} \ {"no"}) \cup
    (IF Cardinality({j \in Sent : calls[j].end = "lost"}) < MaxLost THEN {"lost"} ELSE {})
Settles(i, k, r) ==
    i \in Sent /\ calls[i].kind = k /\ Open(i) /\ r \in Outcomes(i)

\* A page is mounted, with the initial values of its useState.
Mount(p) ==
    /\ page = "none" /\ visit < MaxVisits
    /\ page' = p /\ visit' = visit + 1
    /\ UNCHANGED <<transferVars, payeeVars, mfaVars, calls, backend>>

\* It is left, and its state with it: for another route, another tab of the profile,
\* or a sign-out.
Leave ==
    /\ page # "none" /\ page' = "none"
    /\ step' = "source" /\ form' = NoForm /\ reviewed' = NoForm
    /\ addOpen' = FALSE /\ pendingPayee' = None /\ deleteTarget' = None
    /\ enrollment' = None /\ recoveryCodes' = None /\ savedRecoveryCodes' = FALSE
    /\ UNCHANGED <<visit, calls, backend>>

-------------------------------------------------------------------------------
(* The transfer wizard *)

OnTransfer == page = "transfer" /\ UNCHANGED <<page, visit, payeeVars, mfaVars, backend>>

\* buildTransferBody(): not null.
Complete(f) == None \notin {f.source, f.recipient, f.amount}

\* The field a step edits.
FieldOf == [source |-> "source", recipient |-> "recipient", amount |-> "amount"]
Edit(f) ==
    /\ OnTransfer /\ step \in DOMAIN FieldOf
    /\ f # form /\ \A x \in DOMAIN form \ {FieldOf[step]} : f[x] = form[x]
    /\ form' = f
    /\ calls' = Touched({"transfer", "stepUp"})
    /\ UNCHANGED <<step, reviewed>>

\* The selected payee is not in the list that is fetched again: no account number.
WithoutPayee(f) == [f EXCEPT !.recipient = None]
PayeeListChanges ==
    /\ OnTransfer /\ form.recipient # None /\ step # "receipt"
    /\ form' = WithoutPayee(form)
    /\ calls' = Touched({"transfer", "stepUp"})
    /\ UNCHANGED <<step, reviewed>>

\* Continue and Review, and the Back of the three later steps.
Continue ==
    /\ OnTransfer
    /\ \/ step = "source" /\ form.source # None /\ step' = "recipient"
       \/ step = "recipient" /\ form.recipient # None /\ step' = "amount"
       \/ step = "amount" /\ Complete(form) /\ step' = "review"
    /\ UNCHANGED <<form, reviewed, calls>>
BackTo == [recipient |-> "source", amount |-> "recipient", review |-> "amount"]
Back ==
    /\ OnTransfer /\ step \in DOMAIN BackTo /\ step' = BackTo[step]
    /\ UNCHANGED <<form, reviewed, calls>>

\* Mutant: the button is not disabled while the transfer is being sent.
MayConfirmAgain == step = "review"

MayConfirm == step = "review" /\ ~Pending("transfer")

\* Confirm transfer: handleConfirm.
HandleConfirm ==
    /\ OnTransfer /\ MayConfirm /\ Complete(form)
    /\ reviewed' = form
    /\ Send(calls, NewCall("transfer", form, form))
    /\ UNCHANGED <<step, form>>

\* Verify and send: handleStepUp keeps the details of this rendering for later.
HandleStepUp ==
    /\ OnTransfer /\ step = "step-up"
    /\ ~Pending("stepUp") /\ ~Pending("transfer")
    /\ Send(calls, NewCall("stepUp", form, reviewed))
    /\ UNCHANGED <<step, form, reviewed>>

\* Mutant: what is sent is read from the screen, not kept from the click.
StepUpSettlesOnScreen(i, r) ==
    /\ Settles(i, "stepUp", r)
    /\ IF r = "ok" /\ Complete(form)
       THEN Send(Settled(i, r),
                 [calls[i] EXCEPT !.kind = "transfer", !.arg = form, !.exec = "no"])
       ELSE calls' = Settled(i, r)
    /\ UNCHANGED <<page, visit, transferVars, payeeVars, mfaVars, backend>>

\* Its second half: the transfer is sent once the code is accepted, by a page that
\* has been left as well.
StepUpSettles(i, r) ==
    /\ Settles(i, "stepUp", r)
    /\ IF r = "ok" /\ Complete(calls[i].arg)
       THEN Send(Settled(i, r), [calls[i] EXCEPT !.kind = "transfer", !.exec = "no"])
       ELSE calls' = Settled(i, r)
    /\ UNCHANGED <<page, visit, transferVars, payeeVars, mfaVars, backend>>

\* submitTransfer after the await: the receipt, the step-up step, or a toast.
StepAfter(r) ==
    IF r = "ok" THEN "receipt" ELSE IF r = "stepUpRequired" THEN "step-up" ELSE step
TransferSettles(i, r) ==
    /\ Settles(i, "transfer", r)
    /\ calls' = Settled(i, r)
    /\ step' = IF Here(i) THEN StepAfter(r) ELSE step
    /\ UNCHANGED <<page, visit, form, reviewed, payeeVars, mfaVars, backend>>

-------------------------------------------------------------------------------
(* The payees *)

OnPayees == page = "payees" /\ UNCHANGED <<page, visit, transferVars, mfaVars, backend>>

OpenDialog ==
    /\ OnPayees /\ ~addOpen /\ deleteTarget = None /\ addOpen' = TRUE
    /\ UNCHANGED <<pendingPayee, deleteTarget, calls>>

OnSubmitDetails(p) ==
    /\ OnPayees /\ addOpen /\ pendingPayee = None
    /\ pendingPayee' = p
    /\ calls' = Touched({"addPayee"})
    /\ UNCHANGED <<addOpen, deleteTarget>>

\* Back in the dialog, or the dialog closed.
LeaveDialog(open) ==
    /\ OnPayees /\ addOpen /\ (open => pendingPayee # None)
    /\ addOpen' = open /\ pendingPayee' = None
    /\ calls' = Touched({"addPayee"})
    /\ UNCHANGED deleteTarget

ConfirmAddPayee ==
    /\ OnPayees /\ addOpen /\ pendingPayee # None /\ ~Pending("addPayee")
    /\ Send(calls, NewCall("addPayee", pendingPayee, NoForm))
    /\ UNCHANGED payeeVars

AddPayeeSettles(i, r) ==
    /\ Settles(i, "addPayee", r)
    /\ calls' = Settled(i, r)
    /\ IF r = "ok" /\ Here(i)
       THEN addOpen' = FALSE /\ pendingPayee' = None
       ELSE UNCHANGED <<addOpen, pendingPayee>>
    /\ UNCHANGED <<page, visit, transferVars, deleteTarget, mfaVars, backend>>

\* Delete in the list (p), Cancel in its dialog (None).
SetDeleteTarget(p) ==
    /\ OnPayees /\ ~addOpen /\ (p = None) # (deleteTarget = None)
    /\ deleteTarget' = p
    /\ calls' = Touched({"deletePayee"})
    /\ UNCHANGED <<addOpen, pendingPayee>>

ConfirmDeletePayee ==
    /\ OnPayees /\ deleteTarget # None /\ ~Pending("deletePayee")
    /\ Send(calls, NewCall("deletePayee", deleteTarget, NoForm))
    /\ UNCHANGED payeeVars

DeletePayeeSettles(i, r) ==
    /\ Settles(i, "deletePayee", r)
    /\ calls' = Settled(i, r)
    /\ deleteTarget' = IF Here(i) THEN None ELSE deleteTarget
    /\ UNCHANGED <<page, visit, transferVars, addOpen, pendingPayee, mfaVars, backend>>

-------------------------------------------------------------------------------
(* The MFA tab *)

OnMfa == page = "mfa" /\ UNCHANGED <<page, visit, transferVars, payeeVars, backend>>

StartEnrollment ==
    /\ OnMfa /\ enrollment = None /\ recoveryCodes = None /\ ~Pending("enroll")
    /\ Send(calls, NewCall("enroll", None, NoForm))
    /\ UNCHANGED mfaVars

EnrollSettles(i, r) ==
    /\ Settles(i, "enroll", r)
    /\ calls' = Settled(i, r)
    /\ enrollment' = IF r = "ok" /\ Here(i) THEN i ELSE enrollment
    /\ UNCHANGED <<page, visit, transferVars, payeeVars, recoveryCodes,
                   savedRecoveryCodes, backend>>

\* The user scans the secret on the screen and types a code of it.
OnConfirm ==
    /\ OnMfa /\ enrollment # None /\ recoveryCodes = None /\ ~Pending("confirm")
    /\ Send(calls, NewCall("confirm", enrollment, NoForm))
    /\ UNCHANGED mfaVars

ConfirmSettles(i, r) ==
    /\ Settles(i, "confirm", r)
    /\ calls' = Settled(i, r)
    /\ recoveryCodes' = IF r = "ok" /\ Here(i) THEN i ELSE recoveryCodes
    /\ UNCHANGED <<page, visit, transferVars, payeeVars, enrollment,
                   savedRecoveryCodes, backend>>

TickSaved ==
    /\ OnMfa /\ recoveryCodes # None
    /\ savedRecoveryCodes' = ~savedRecoveryCodes
    /\ UNCHANGED <<enrollment, recoveryCodes, calls>>

Done ==
    /\ OnMfa /\ recoveryCodes # None /\ savedRecoveryCodes
    /\ recoveryCodes' = None /\ enrollment' = None
    /\ UNCHANGED <<savedRecoveryCodes, calls>>

-------------------------------------------------------------------------------
(* The backend *)

\* Mutant: any code confirms.
AcceptedAlways(c) == TRUE

\* confirmEnrollment verifies the code with the secret of the latest enrolment.
Accepted(c) == c.arg = secret

\* A call is executed, or refused: for step-up, for a wrong code, or for a reason
\* of its own (funds, a duplicate, a missing row).
Answers(c) ==
    CASE c.kind = "transfer" /\ c.arg.amount \in Large /\ ~elevated -> {"stepUpRequired"}
      [] c.kind = "enroll" -> {"ok"}
      [] c.kind = "confirm" -> {IF Accepted(c) THEN "ok" ELSE "refused"}
      [] OTHER -> {"ok", "refused"}

Execute(i, r) ==
    /\ i \in Sent /\ calls[i].exec = "no" /\ r \in Answers(calls[i])
    /\ calls' = [calls EXCEPT ![i].exec = r]
    /\ elevated' = (elevated \/ (calls[i].kind = "stepUp" /\ r = "ok"))
    /\ secret' = IF calls[i].kind = "enroll" THEN i ELSE secret
    /\ mfaEnabled' = (mfaEnabled \/ (calls[i].kind = "confirm" /\ r = "ok"))
    /\ reenrolled' = (reenrolled \/ (calls[i].kind = "enroll" /\ mfaEnabled))
    /\ UNCHANGED <<page, visit, transferVars, payeeVars, mfaVars>>

\* The elevated token expires, or a refresh replaces it.
ElevationEnds ==
    /\ elevated /\ elevated' = FALSE
    /\ UNCHANGED <<page, visit, transferVars, payeeVars, mfaVars, calls, secret, mfaEnabled,
                   reenrolled>>

Next ==
    \/ \E p \in {"transfer", "payees", "mfa"} : Mount(p)
    \/ Leave
    \/ \E f \in Forms : Edit(f)
    \/ PayeeListChanges \/ Continue \/ Back
    \/ HandleConfirm \/ HandleStepUp
    \/ OpenDialog \/ (\E p \in Payees : OnSubmitDetails(p))
    \/ (\E open \in BOOLEAN : LeaveDialog(open)) \/ ConfirmAddPayee
    \/ (\E p \in Payees \cup {None} : SetDeleteTarget(p)) \/ ConfirmDeletePayee
    \/ StartEnrollment \/ OnConfirm \/ TickSaved \/ Done
    \/ \E i \in Ids, r \in Results \cup {"lost"} :
          \/ StepUpSettles(i, r) \/ TransferSettles(i, r)
          \/ AddPayeeSettles(i, r) \/ DeletePayeeSettles(i, r)
          \/ EnrollSettles(i, r) \/ ConfirmSettles(i, r)
    \/ \E i \in Ids, r \in Results : Execute(i, r)
    \/ ElevationEnds

Spec == Init /\ [][Next]_vars

-------------------------------------------------------------------------------
(* Properties *)

\* A visit to the transfer page moves money once, however often the user clicks,
\* steps back, edits and verifies: two of its transfers are executed only when the
\* answer of the first was lost, and the user, told that it failed, sent it again
\* under a new key.
OneTransferPerVisit ==
    \A i, j \in Sent :
        /\ i < j
        /\ calls[i].kind = "transfer" /\ calls[j].kind = "transfer"
        /\ calls[i].visit = calls[j].visit
        /\ calls[i].exec = "ok" /\ calls[j].exec = "ok"
        => calls[i].end = "lost"

\* The backend is asked to move what the user has reviewed: a transfer that goes out
\* after the step-up is the one the user confirmed, unless the details were edited
\* while the attempt that was answered with step-up-required was on its way (the Back
\* of the review step stays enabled, the one of the step-up step does not exist).
SentWasReviewed ==
    \A j \in Sent : calls[j].kind = "transfer" /\ calls[j].arg # calls[j].seen =>
        \E i \in 1..(j - 1) : /\ calls[i].kind = "transfer"
                              /\ calls[i].visit = calls[j].visit
                              /\ calls[i].stale

Screen == <<step, addOpen, pendingPayee, deleteTarget, enrollment, recoveryCodes>>
OnScreen(c) ==
    CASE c.kind \in {"transfer", "stepUp"} -> form = c.arg
      [] c.kind = "addPayee" -> pendingPayee = c.arg
      [] c.kind = "deletePayee" -> deleteTarget = c.arg
      [] c.kind \in {"enroll", "confirm"} -> enrollment = c.arg

\* An answer changes only the screen it is about: when a call settles and moves the
\* wizard on, closes a dialog or shows a secret or codes, the page shows what the
\* call was sent for, unless the user has changed it while the call was under way (a
\* dialog opened for another payee since is closed).  Answers to a page that was left
\* change nothing on the next one, whatever was changed before.
AnswerFitsScreen ==
    [][\A i \in Sent : Open(i) /\ calls'[i].end # "open" /\ Screen' # Screen =>
          calls[i].visit = visit /\ (calls[i].stale \/ OnScreen(calls[i]))]_vars

\* Once MFA is on, the backend verifies codes with a secret whose enrolment the user
\* has confirmed; it does otherwise (and locks the user's authenticator out) only if
\* an enrolment is executed after the confirmation, as enroll() replaces the secret
\* of an account at once.
LockedOutNeedsEnrolment ==
    mfaEnabled /\ ~reenrolled =>
        \E i \in Sent : /\ calls[i].kind = "confirm" /\ calls[i].exec = "ok"
                        /\ calls[i].arg = secret
===============================================================================
