------------------------------ MODULE PagesProofs ------------------------------
(***************************************************************************)
(* What the pages guarantee for every number of calls and visits, and      *)
(* whatever order the answers come back in.                                *)
(***************************************************************************)
EXTENDS Pages, TLAPS

\* The page waits for the answer of call i.
Awaited(i) == Open(i) /\ Here(i)

\* The wizard's calls: the transfers and the step-ups between them.
WizardKinds == {"transfer", "stepUp"}
InWizard(i) == calls[i].kind \in WizardKinds

\* The calls of the wizard on the same visit.
SameVisit(i, j) == InWizard(i) /\ InWizard(j) /\ calls[i].visit = calls[j].visit

\* Ids are handed out in order.
SentIsPrefix == \A i \in Sent : \A j \in 1..(i - 1) : j \in Sent

\* No call is of a visit to come, and only an executed call is told its result.
CallsArePast ==
    \A i \in Sent : calls[i].visit <= visit /\ (calls[i].end = "told" => calls[i].exec # "no")

\* A transfer whose result was something else than success, as far as the page knows.
NotDone(i) == calls[i].end = "lost" \/ (calls[i].end = "told" /\ calls[i].exec # "ok")

\* The wizard sends one call after the other: all but its latest have settled, and
\* none of their transfers has succeeded as far as the page knows.
OneAfterTheOther ==
    \A i, j \in Sent : i < j /\ SameVisit(i, j) =>
        ~Open(i) /\ (calls[i].kind = "transfer" => NotDone(i))

\* The step shown fits what the wizard has been told: the receipt after a success,
\* the step-up step as long as a code is being verified; a page begins at the first.
StepFits ==
    /\ page = "none" => step = "source"
    /\ \A i \in Sent : Here(i) =>
         /\ calls[i].kind = "transfer" /\ calls[i].end = "told" /\ calls[i].exec = "ok"
              => step = "receipt"
         /\ calls[i].kind = "stepUp" /\ Open(i) => step = "step-up"

\* A transfer of the visit was being sent while the details were edited.
EditedUnder(v, n) ==
    \E i \in 1..(n - 1) : calls[i].kind = "transfer" /\ calls[i].visit = v /\ calls[i].stale

\* An awaited call of the wizard carries the order under the last click on Confirm,
\* and one that differs from its details has an edited transfer before it.
SeenIsReviewed ==
    \A j \in Sent : InWizard(j) =>
        /\ Awaited(j) => calls[j].seen = reviewed
        /\ Complete(calls[j].arg) /\ calls[j].arg # calls[j].seen =>
              EditedUnder(calls[j].visit, j)
ReviewAtStepUp ==
    step = "step-up" /\ Complete(form) /\ form # reviewed =>
        \E i \in Sent : calls[i].kind = "transfer" /\ calls[i].visit = visit /\ calls[i].stale

\* A transfer carries all its details.
TransfersComplete == \A i \in Sent : calls[i].kind = "transfer" => Complete(calls[i].arg)

\* A page awaits one call of a kind.
OneAwaited ==
    \A i, j \in Sent : Awaited(i) /\ Awaited(j) /\ calls[i].kind = calls[j].kind => i = j

\* The screen shows what an awaited call was sent for, unless it was changed meanwhile.
Shows(i) ==
    /\ InWizard(i) => form = calls[i].arg
    /\ calls[i].kind = "addPayee" => pendingPayee = calls[i].arg
    /\ calls[i].kind = "deletePayee" => deleteTarget = calls[i].arg
    /\ calls[i].kind \in {"enroll", "confirm"} => enrollment = calls[i].arg
FitsScreen == \A i \in Sent : Awaited(i) => calls[i].stale \/ Shows(i)

\* The MFA tab shows nothing while it enrols, and no codes while it confirms.
MfaFits ==
    \A i \in Sent : Awaited(i) =>
        /\ calls[i].kind = "enroll" => enrollment = None /\ recoveryCodes = None
        /\ calls[i].kind = "confirm" => enrollment = calls[i].arg /\ recoveryCodes = None

\* The inductive invariant: the calls, the wizard, and what the page shows.
CallsInv == SentIsPrefix /\ CallsArePast
WizardInv ==
    /\ OneAfterTheOther /\ StepFits
    /\ SeenIsReviewed /\ ReviewAtStepUp /\ TransfersComplete
ShownInv == OneAwaited /\ FitsScreen /\ MfaFits
IInv == TypeOK /\ CallsInv /\ WizardInv /\ ShownInv /\ LockedOutNeedsEnrolment

-------------------------------------------------------------------------------
(* Calls *)

\* The fields of a call.
LEMMA CallFields ==
    ASSUME NEW c, IsCall(c)
    PROVE  /\ c.kind \in Kinds /\ c.arg \in ArgsOf(c.kind)
           /\ c.visit \in 1..MaxVisits /\ c.seen \in Forms /\ c.stale \in BOOLEAN
           /\ c.exec \in Results \cup {"no"} /\ c.end \in {"open", "told", "lost"}
           /\ c # None
BY NoneIsNoCall DEF IsCall, CallsOf

\* A record with the right fields is a call.
LEMMA CallMade ==
    ASSUME NEW k \in Kinds, NEW a \in ArgsOf(k), NEW v \in 1..MaxVisits, NEW s \in Forms,
           NEW t \in BOOLEAN, NEW x \in Results \cup {"no"},
           NEW e \in {"open", "told", "lost"}
    PROVE  IsCall([kind |-> k, arg |-> a, seen |-> s, visit |-> v, stale |-> t,
                   exec |-> x, end |-> e])
BY DEF IsCall, CallsOf

\* A call that is marked as stale is a call.
LEMMA CallMarked ==
    ASSUME NEW c, IsCall(c), NEW d, d = [c EXCEPT !.stale = TRUE]
    PROVE  /\ IsCall(d) /\ d # None /\ d.stale = TRUE
           /\ d.kind = c.kind /\ d.arg = c.arg /\ d.visit = c.visit /\ d.seen = c.seen
           /\ d.exec = c.exec /\ d.end = c.end
<1>1. IsCall(d)
  BY DEF IsCall, CallsOf
<1> QED
  BY <1>1, CallFields DEF IsCall, CallsOf

\* So is one with an answer of the backend,
LEMMA CallExecuted ==
    ASSUME NEW c, IsCall(c), NEW x \in Results, NEW d, d = [c EXCEPT !.exec = x]
    PROVE  /\ IsCall(d) /\ d # None /\ d.exec = x
           /\ d.kind = c.kind /\ d.arg = c.arg /\ d.visit = c.visit /\ d.seen = c.seen
           /\ d.stale = c.stale /\ d.end = c.end
<1>1. IsCall(d)
  BY DEF IsCall, CallsOf
<1> QED
  BY <1>1, CallFields DEF IsCall, CallsOf

\* and one that has settled.
LEMMA CallEnded ==
    ASSUME NEW c, IsCall(c), NEW x \in {"told", "lost"}, NEW d, d = [c EXCEPT !.end = x]
    PROVE  /\ IsCall(d) /\ d # None /\ d.end = x
           /\ d.kind = c.kind /\ d.arg = c.arg /\ d.visit = c.visit /\ d.seen = c.seen
           /\ d.stale = c.stale /\ d.exec = c.exec
<1>1. IsCall(d)
  BY DEF IsCall, CallsOf
<1> QED
  BY <1>1, CallFields DEF IsCall, CallsOf

\* What no step changes in a call that has been sent.
Kept(i) ==
    /\ calls'[i].kind = calls[i].kind /\ calls'[i].arg = calls[i].arg
    /\ calls'[i].visit = calls[i].visit /\ calls'[i].seen = calls[i].seen
    /\ calls[i].stale => calls'[i].stale

\* The calls as a typed function.
CallsOK == DOMAIN calls = Ids /\ \A i \in Sent : IsCall(calls[i])

\* An edit marks the awaited calls of the kinds it is about, and nothing else.
LEMMA TouchedDoes ==
    ASSUME CallsOK, NEW ks, calls' = Touched(ks)
    PROVE  /\ CallsOK' /\ Sent' = Sent
           /\ \A i \in Sent : /\ Kept(i)
                              /\ calls'[i].exec = calls[i].exec /\ calls'[i].end = calls[i].end
                              /\ IF calls[i].kind \in ks /\ Awaited(i) THEN calls'[i].stale
                                 ELSE calls'[i].stale = calls[i].stale
<1>1. \A i \in Ids : calls'[i] = IF i \in Sent /\ calls[i].kind \in ks /\ Awaited(i)
                                 THEN [calls[i] EXCEPT !.stale = TRUE] ELSE calls[i]
  BY DEF Touched, Awaited
<1>2. DOMAIN calls' = Ids
  BY DEF Touched
<1>3. ASSUME NEW i \in Sent
      PROVE  /\ Kept(i) /\ IsCall(calls'[i]) /\ calls'[i] # None
             /\ calls'[i].exec = calls[i].exec /\ calls'[i].end = calls[i].end
             /\ IF calls[i].kind \in ks /\ Awaited(i) THEN calls'[i].stale
                ELSE calls'[i].stale = calls[i].stale
  <2>1. i \in Ids /\ IsCall(calls[i]) /\ calls[i] # None
    BY DEF CallsOK, Sent
  <2>2. CASE calls[i].kind \in ks /\ Awaited(i)
    <3>1. calls'[i] = [calls[i] EXCEPT !.stale = TRUE]
      BY <1>1, <2>1, <2>2
    <3> DEFINE c == calls[i]
               d == calls'[i]
    <3> HIDE DEF c, d
    <3>a. IsCall(c) /\ d = [c EXCEPT !.stale = TRUE]
      BY <2>1, <3>1 DEF c, d
    <3>b. /\ IsCall(d) /\ d # None /\ d.stale = TRUE
          /\ d.kind = c.kind /\ d.arg = c.arg /\ d.visit = c.visit /\ d.seen = c.seen
          /\ d.exec = c.exec /\ d.end = c.end
      BY <3>a, CallMarked
    <3>2. /\ IsCall(calls'[i]) /\ calls'[i] # None /\ calls'[i].stale = TRUE
          /\ calls'[i].kind = calls[i].kind /\ calls'[i].arg = calls[i].arg
          /\ calls'[i].visit = calls[i].visit /\ calls'[i].seen = calls[i].seen
          /\ calls'[i].exec = calls[i].exec /\ calls'[i].end = calls[i].end
      BY <3>b DEF c, d
    <3> QED
      BY <2>2, <3>2 DEF Kept
  <2>3. CASE ~(calls[i].kind \in ks /\ Awaited(i))
    <3>1. calls'[i] = calls[i]
      BY <1>1, <2>1, <2>3
    <3> QED
      BY <2>1, <2>3, <3>1 DEF Kept
  <2> QED
    BY <2>2, <2>3
<1>4. Sent' = Sent
  BY <1>1, <1>3 DEF Sent
<1> QED
  BY <1>2, <1>3, <1>4 DEF CallsOK

\* A call that settles is told its result, or its answer is lost.
LEMMA SettledDoes ==
    ASSUME CallsOK, NEW i \in Sent, NEW r
    PROVE  LET cs == Settled(i, r) IN
           /\ DOMAIN cs = Ids
           /\ \A j \in Ids : j # i => cs[j] = calls[j]
           /\ IsCall(cs[i]) /\ cs[i] # None
           /\ cs[i].kind = calls[i].kind /\ cs[i].arg = calls[i].arg
           /\ cs[i].visit = calls[i].visit /\ cs[i].seen = calls[i].seen
           /\ cs[i].stale = calls[i].stale /\ cs[i].exec = calls[i].exec
           /\ cs[i].end = IF r = "lost" THEN "lost" ELSE "told"
<1> DEFINE e == IF r = "lost" THEN "lost" ELSE "told"
<1>1. Settled(i, r) = [calls EXCEPT ![i] = [calls[i] EXCEPT !.end = e]]
  BY DEF Settled
<1>2. i \in Ids /\ IsCall(calls[i]) /\ e \in {"told", "lost"}
  BY DEF CallsOK, Sent
<1>3. Settled(i, r)[i] = [calls[i] EXCEPT !.end = e]
  BY <1>1, <1>2 DEF CallsOK
<1> HIDE DEF e
<1>4. /\ IsCall(Settled(i, r)[i]) /\ Settled(i, r)[i] # None
      /\ Settled(i, r)[i].end = e
      /\ Settled(i, r)[i].kind = calls[i].kind /\ Settled(i, r)[i].arg = calls[i].arg
      /\ Settled(i, r)[i].visit = calls[i].visit /\ Settled(i, r)[i].seen = calls[i].seen
      /\ Settled(i, r)[i].stale = calls[i].stale /\ Settled(i, r)[i].exec = calls[i].exec
  BY <1>2, <1>3, CallEnded
<1> QED
  BY <1>1, <1>2, <1>4 DEF CallsOK, e

\* The same for the step of a call that sends no other.
LEMMA SettledStep ==
    ASSUME CallsOK, NEW i \in Sent, NEW r, calls' = Settled(i, r)
    PROVE  /\ CallsOK' /\ Sent' = Sent
           /\ \A j \in Sent : /\ Kept(j) /\ calls'[j].stale = calls[j].stale
                              /\ calls'[j].exec = calls[j].exec
                              /\ j # i => calls'[j].end = calls[j].end
           /\ calls'[i].end = IF r = "lost" THEN "lost" ELSE "told"
<1>1. Sent' = Sent /\ CallsOK'
  BY SettledDoes DEF CallsOK, Sent
<1> QED
  BY <1>1, SettledDoes DEF Sent, Kept

\* The backend's answer is recorded with the call.
LEMMA ExecuteDoes ==
    ASSUME CallsOK, NEW i \in Sent, NEW r \in Results, calls' = [calls EXCEPT ![i].exec = r]
    PROVE  /\ CallsOK' /\ Sent' = Sent
           /\ \A j \in Sent : /\ Kept(j) /\ calls'[j].stale = calls[j].stale
                              /\ calls'[j].end = calls[j].end
                              /\ j # i => calls'[j].exec = calls[j].exec
           /\ calls'[i].exec = r
<1>1. i \in Ids /\ IsCall(calls[i])
  BY DEF CallsOK, Sent
<1>2. calls'[i] = [calls[i] EXCEPT !.exec = r] /\ DOMAIN calls' = Ids
  BY <1>1 DEF CallsOK
<1>3. \A j \in Ids : j # i => calls'[j] = calls[j]
  BY <1>1 DEF CallsOK
<1>4. IsCall(calls'[i]) /\ calls'[i] # None
  BY <1>1, <1>2, CallExecuted
<1>5. Sent' = Sent /\ CallsOK'
  BY <1>2, <1>3, <1>4 DEF CallsOK, Sent
<1> QED
  BY <1>1, <1>2, <1>3, <1>5, CallExecuted DEF Sent, Kept

\* A call that is sent comes after all the others.
LEMMA SendTo ==
    ASSUME SentIsPrefix, NEW cs, DOMAIN cs = Ids, \A j \in Ids : cs[j] # None <=> j \in Sent,
           \A j \in Sent : IsCall(cs[j]), NEW c, IsCall(c), Send(cs, c)
    PROVE  \E n \in Ids :
             /\ CallsOK' /\ SentIsPrefix' /\ n \notin Sent /\ Sent' = Sent \cup {n}
             /\ calls'[n] = c
             /\ \A j \in Sent : j < n /\ calls'[j] = cs[j]
<1>1. PICK n \in Ids : /\ cs[n] = None /\ \A j \in 1..(n - 1) : cs[j] # None
                       /\ calls' = [cs EXCEPT ![n] = c]
  BY DEF Send
<1>2. c # None
  BY CallFields
<1>3. calls'[n] = c /\ DOMAIN calls' = Ids /\ \A j \in Ids : j # n => calls'[j] = cs[j]
  BY <1>1
<1>4. Sent' = Sent \cup {n} /\ n \notin Sent
  BY <1>1, <1>2, <1>3 DEF Sent
<1>5. CallsOK'
  BY <1>3, <1>4 DEF CallsOK, Sent
<1>6. \A j \in Sent : j < n /\ calls'[j] = cs[j]
  BY <1>1, <1>3, <1>4, PageConstants DEF SentIsPrefix, Sent, Ids
<1>7. SentIsPrefix'
  BY <1>1, <1>4, PageConstants DEF SentIsPrefix, Sent, Ids
<1> QED
  BY <1>3, <1>4, <1>5, <1>6, <1>7

\* Sending a call takes the first free number, and that number only.
LEMMA SendDoes ==
    ASSUME CallsOK, SentIsPrefix, NEW c, IsCall(c), Send(calls, c)
    PROVE  \E n \in Ids :
             /\ CallsOK' /\ SentIsPrefix' /\ n \notin Sent /\ Sent' = Sent \cup {n}
             /\ calls'[n] = c
             /\ \A j \in Sent : j < n /\ calls'[j] = calls[j]
<1>1. \A j \in Ids : calls[j] # None <=> j \in Sent
  BY DEF Sent
<1> QED
  BY <1>1, SendTo DEF CallsOK

-------------------------------------------------------------------------------
(* What several actions have in common *)

\* Calls are added, and those sent keep what the backend did with them.
Grows == Sent \subseteq Sent' /\ \A i \in Sent : Kept(i) /\ calls'[i].exec = calls[i].exec

\* The calls of the wizard are left alone, and none is added.
WizardCallsKept ==
    /\ Grows
    /\ \A i \in Sent : InWizard(i) =>
          calls'[i].end = calls[i].end /\ calls'[i].stale = calls[i].stale
    /\ \A i \in Sent' \ Sent : calls'[i].kind \notin WizardKinds

\* The type invariant, apart from the calls.
LEMMA CallsTyped == TypeOK => CallsOK
BY DEF TypeOK, CallsOK

\* The secret in use stays confirmed as long as the backend is not asked.
LEMMA LockedOutKept ==
    ASSUME LockedOutNeedsEnrolment, Grows, UNCHANGED backend
    PROVE  LockedOutNeedsEnrolment'
BY DEF LockedOutNeedsEnrolment, Grows, Kept, backend

\* A page that is not the wizard, or an answer to it, does not disturb the wizard.
LEMMA WizardKept ==
    ASSUME WizardInv, CallsOK, SentIsPrefix, WizardCallsKept, UNCHANGED <<page, visit, transferVars>>
    PROVE  WizardInv'
<1> USE DEF WizardInv
<1>1. \A i \in Sent' : InWizard(i)' => i \in Sent /\ InWizard(i)
  BY DEF WizardCallsKept, Grows, Kept, InWizard
<1>2. \A i \in Sent : Kept(i) /\ calls'[i].exec = calls[i].exec
  BY DEF WizardCallsKept, Grows
<1>3. \A i \in Sent : InWizard(i) =>
        calls'[i].end = calls[i].end /\ calls'[i].stale = calls[i].stale
  BY DEF WizardCallsKept
<1>4. OneAfterTheOther'
  BY <1>1, <1>2, <1>3 DEF OneAfterTheOther, SameVisit, InWizard, Open, NotDone, Kept
<1>5. StepFits'
  BY <1>1, <1>2, <1>3 DEF StepFits, Here, Open, Kept, InWizard, WizardKinds, transferVars
<1>6. SeenIsReviewed'
  <2> SUFFICES ASSUME NEW j \in Sent', InWizard(j)'
               PROVE  /\ Awaited(j)' => calls'[j].seen = reviewed'
                      /\ Complete(calls'[j].arg) /\ calls'[j].arg # calls'[j].seen =>
                            EditedUnder(calls[j].visit, j)'
    BY DEF SeenIsReviewed
  <2>1. j \in Sent /\ InWizard(j) /\ Kept(j) /\ calls'[j].end = calls[j].end
    BY <1>1, <1>2, <1>3
  <2>2. \A i \in 1..(j - 1) : i \in Sent
    BY <2>1 DEF SentIsPrefix
  <2>3. EditedUnder(calls[j].visit, j) => EditedUnder(calls[j].visit, j)'
    BY <1>2, <2>1, <2>2 DEF EditedUnder, Kept
  <2> QED
    BY <2>1, <2>3 DEF SeenIsReviewed, Awaited, Open, Here, Kept, transferVars
<1>7. ReviewAtStepUp'
  <2>1. \A i \in Sent : i \in Sent' /\ Kept(i)
    BY <1>2 DEF WizardCallsKept, Grows
  <2> QED
    BY <2>1 DEF ReviewAtStepUp, Kept, transferVars
<1>8. TransfersComplete'
  BY <1>1, <1>2 DEF TransfersComplete, Kept, InWizard, WizardKinds
<1> QED
  BY <1>4, <1>5, <1>6, <1>7, <1>8

-------------------------------------------------------------------------------
(* Mounting and leaving a page *)

\* A page that is mounted awaits nothing, and what was asked of it is over.
LEMMA FreshPage ==
    ASSUME IInv, UNCHANGED <<calls, backend>>, TypeOK', \A i \in Sent : ~Here(i)', CallsArePast',
           step' # "step-up", page' = "none" => step' = "source"
    PROVE  IInv'
<1> USE DEF IInv, WizardInv, CallsInv, ShownInv
<1>1. Sent' = Sent
  BY DEF Sent
<1>2. SentIsPrefix' /\ OneAfterTheOther' /\ TransfersComplete'
  BY <1>1 DEF SentIsPrefix, OneAfterTheOther, TransfersComplete, SameVisit, InWizard, Open, NotDone
<1>3. StepFits' /\ ReviewAtStepUp'
  BY <1>1 DEF StepFits, ReviewAtStepUp
<1>4. SeenIsReviewed'
  BY <1>1 DEF SeenIsReviewed, InWizard, Awaited, EditedUnder
<1>5. OneAwaited' /\ FitsScreen' /\ MfaFits'
  BY <1>1 DEF OneAwaited, FitsScreen, MfaFits, Awaited
<1>6. LockedOutNeedsEnrolment'
  BY <1>1 DEF LockedOutNeedsEnrolment, backend
<1> QED
  BY <1>1, <1>2, <1>3, <1>4, <1>5, <1>6

\* A page is mounted.
LEMMA MountKeeps ==
    ASSUME IInv, NEW p \in {"transfer", "payees", "mfa"}, Mount(p)
    PROVE  IInv'
<1> USE DEF IInv, WizardInv, CallsInv
<1>1. TypeOK'
  BY PageConstants DEF Mount, TypeOK, transferVars, payeeVars, mfaVars, backend, Sent
<1>2. visit \in Nat /\ visit' = visit + 1 /\ calls' = calls /\ Sent' = Sent
  BY PageConstants DEF Mount, TypeOK, Sent
<1>3. \A i \in Sent : calls[i].visit \in Nat /\ calls[i].visit <= visit
  BY CallFields, PageConstants DEF TypeOK, CallsArePast
<1>4. CallsArePast' /\ \A i \in Sent : ~Here(i)'
  BY <1>2, <1>3 DEF CallsArePast, Here
<1>5. step' = "source"
  BY DEF Mount, StepFits, transferVars
<1> QED
  BY <1>1, <1>2, <1>4, <1>5, FreshPage DEF Mount

\* It is left.
LEMMA LeaveKeeps ==
    ASSUME IInv, Leave
    PROVE  IInv'
<1> USE DEF IInv, CallsInv
<1>1. NoForm \in Forms
  BY DEF NoForm, Forms
<1>2. TypeOK'
  BY <1>1 DEF Leave, TypeOK, Steps, backend, Sent
<1>3. CallsArePast' /\ \A i \in Sent : ~Here(i)'
  BY DEF Leave, CallsArePast, Here, Sent
<1> QED
  BY <1>2, <1>3, FreshPage DEF Leave

-------------------------------------------------------------------------------
(* The wizard *)

\* Editing, and a payee that goes.
LEMMA EditKeeps ==
    ASSUME IInv, NEW f \in Forms, Edit(f) \/ (PayeeListChanges /\ f = WithoutPayee(form))
    PROVE  IInv'
<1> USE DEF IInv, WizardInv, CallsInv, ShownInv
<1>1. /\ UNCHANGED <<page, visit, step, reviewed, payeeVars, mfaVars, backend>>
      /\ form' = f /\ calls' = Touched({"transfer", "stepUp"})
      /\ step = "step-up" => ~Complete(f)
  BY DEF Edit, PayeeListChanges, OnTransfer, FieldOf, Complete, WithoutPayee, TypeOK, Forms
<1>2. /\ CallsOK' /\ Sent' = Sent
      /\ \A i \in Sent : /\ Kept(i)
                         /\ calls'[i].exec = calls[i].exec /\ calls'[i].end = calls[i].end
                         /\ IF calls[i].kind \in {"transfer", "stepUp"} /\ Awaited(i)
                            THEN calls'[i].stale ELSE calls'[i].stale = calls[i].stale
  BY <1>1, CallsTyped, TouchedDoes
<1>3. TypeOK'
  BY <1>1, <1>2 DEF TypeOK, CallsOK, payeeVars, mfaVars, backend
<1>4. SentIsPrefix' /\ CallsArePast'
  BY <1>1, <1>2 DEF SentIsPrefix, CallsArePast, Kept
<1>5. OneAfterTheOther' /\ StepFits' /\ TransfersComplete'
  BY <1>1, <1>2 DEF OneAfterTheOther, StepFits, TransfersComplete, SameVisit, InWizard, Open, Here,
                    NotDone, Kept
<1>6. SeenIsReviewed'
  <2> SUFFICES ASSUME NEW j \in Sent', InWizard(j)'
               PROVE  /\ Awaited(j)' => calls'[j].seen = reviewed'
                      /\ Complete(calls'[j].arg) /\ calls'[j].arg # calls'[j].seen =>
                            EditedUnder(calls[j].visit, j)'
    BY DEF SeenIsReviewed
  <2>1. j \in Sent /\ InWizard(j) /\ Kept(j) /\ calls'[j].end = calls[j].end
    BY <1>2 DEF InWizard, Kept
  <2>2. \A i \in 1..(j - 1) : i \in Sent
    BY <2>1 DEF SentIsPrefix
  <2>3. EditedUnder(calls[j].visit, j) => EditedUnder(calls[j].visit, j)'
    BY <1>2, <2>1, <2>2 DEF EditedUnder, Kept
  <2> QED
    BY <1>1, <2>1, <2>3 DEF SeenIsReviewed, Awaited, Open, Here, Kept
<1>7. ReviewAtStepUp'
  BY <1>1 DEF ReviewAtStepUp
<1>8. OneAwaited' /\ MfaFits'
  BY <1>1, <1>2 DEF OneAwaited, MfaFits, Awaited, Open, Here, Kept, mfaVars
<1>9. FitsScreen'
  <2> SUFFICES ASSUME NEW i \in Sent', Awaited(i)'
               PROVE  calls'[i].stale \/ Shows(i)'
    BY DEF FitsScreen
  <2>1. i \in Sent /\ Awaited(i) /\ Kept(i)
    BY <1>1, <1>2 DEF Awaited, Open, Here, Kept
  <2>2. calls[i].stale \/ Shows(i)
    BY <2>1 DEF FitsScreen
  <2>3. ~InWizard(i) /\ Shows(i) => Shows(i)'
    BY <1>1, <2>1 DEF Shows, InWizard, Kept, payeeVars, mfaVars
  <2> QED
    BY <1>2, <2>1, <2>2, <2>3 DEF InWizard, WizardKinds, Kept
<1>10. LockedOutNeedsEnrolment'
  BY <1>1, <1>2, LockedOutKept DEF Grows
<1> QED
  BY <1>3, <1>4, <1>5, <1>6, <1>7, <1>8, <1>9, <1>10

\* Continue and Back: the step shown is neither the receipt nor the step-up before and
\* after, so the visit has neither succeeded nor is it verifying a code.
LEMMA StepsKeep ==
    ASSUME IInv, Continue \/ Back
    PROVE  IInv'
<1> USE DEF IInv, WizardInv, CallsInv, ShownInv
<1>1. /\ UNCHANGED <<page, visit, form, reviewed, payeeVars, mfaVars, calls, backend>>
      /\ page = "transfer"
      /\ step \notin {"step-up", "receipt"} /\ step' \in Steps \ {"step-up", "receipt"}
  BY DEF Continue, Back, OnTransfer, BackTo, Steps
<1>2. Sent' = Sent
  BY <1>1 DEF Sent
<1>3. TypeOK'
  BY <1>1, <1>2 DEF TypeOK, payeeVars, mfaVars, backend
<1>4. SentIsPrefix' /\ CallsArePast' /\ OneAfterTheOther' /\ TransfersComplete' /\ ReviewAtStepUp'
  BY <1>1, <1>2 DEF SentIsPrefix, CallsArePast, OneAfterTheOther, TransfersComplete, ReviewAtStepUp,
                    SameVisit, InWizard, Open, NotDone
<1>5. StepFits'
  BY <1>1, <1>2 DEF StepFits, Here, Open
<1>6. SeenIsReviewed'
  BY <1>1, <1>2 DEF SeenIsReviewed, InWizard, Awaited, Open, Here, EditedUnder
<1>7. OneAwaited' /\ FitsScreen' /\ MfaFits'
  BY <1>1, <1>2 DEF OneAwaited, FitsScreen, MfaFits, Shows, InWizard, Awaited, Open, Here, payeeVars,
                    mfaVars
<1>8. LockedOutNeedsEnrolment'
  BY <1>1, <1>2 DEF LockedOutNeedsEnrolment, backend
<1> QED
  BY <1>3, <1>4, <1>5, <1>6, <1>7, <1>8

\* A call is left as it is, or is a step-up that is told its result.
Settling(j) ==
    /\ Kept(j) /\ calls'[j].exec = calls[j].exec /\ calls'[j].stale = calls[j].stale
    /\ \/ calls'[j].end = calls[j].end
       \/ /\ calls[j].kind = "stepUp" /\ Open(j) /\ calls[j].exec # "no"
          /\ calls'[j].end = "told"

\* The wizard sends a call: all its calls of the visit have settled, and none of the
\* transfers has succeeded as far as the page knows.
LEMMA WizardSends ==
    ASSUME IInv, NEW n \in Ids, n \notin Sent, Sent' = Sent \cup {n}, CallsOK', SentIsPrefix',
           \A j \in Sent : j < n /\ Settling(j),
           calls'[n].kind \in WizardKinds, calls'[n].end = "open", calls'[n].exec = "no",
           calls'[n].visit <= visit,
           \A j \in Sent : InWizard(j) /\ calls[j].visit = calls'[n].visit =>
                               ~Open(j)' /\ (calls[j].kind = "transfer" => NotDone(j)),
           calls'[n].kind = "stepUp" /\ Here(n)' => step = "step-up",
           calls'[n].kind = "transfer" => Complete(calls'[n].arg),
           Here(n)' => calls'[n].seen = reviewed',
           Complete(calls'[n].arg) /\ calls'[n].arg # calls'[n].seen =>
               \E i \in Sent : /\ calls[i].kind = "transfer" /\ calls[i].stale
                               /\ calls[i].visit = calls'[n].visit,
           Here(n)' => calls'[n].stale \/ form = calls'[n].arg,
           reviewed' # reviewed => step # "step-up" /\ page = "transfer" /\ calls'[n].visit = visit,
           reviewed' \in Forms,
           UNCHANGED <<page, visit, step, form, payeeVars, mfaVars, backend>>
    PROVE  IInv'
<1> USE DEF IInv, WizardInv, CallsInv, ShownInv
<1>1. \A j \in Sent : /\ j \in Sent' /\ j # n /\ Kept(j) /\ (Here(j)' <=> Here(j))
                      /\ calls'[j].exec = calls[j].exec /\ calls'[j].stale = calls[j].stale
                      /\ Open(j)' => Open(j)
                      /\ calls[j].kind # "stepUp" => calls'[j].end = calls[j].end
  BY DEF Here, Open, Settling, Kept
<1>2. TypeOK'
  BY DEF TypeOK, CallsOK, payeeVars, mfaVars, backend
<1>3. CallsArePast'
  BY <1>1 DEF CallsArePast, Settling, Kept
<1>4. OneAfterTheOther'
  <2> SUFFICES ASSUME NEW i \in Sent', NEW j \in Sent', i < j, SameVisit(i, j)'
               PROVE  (~Open(i) /\ (calls[i].kind = "transfer" => NotDone(i)))'
    BY DEF OneAfterTheOther
  <2>1. i \in Sent /\ Kept(i) /\ i \in Nat /\ j \in Nat
    BY <1>1, PageConstants DEF Ids, Sent
  <2>2. (Open(i)' => Open(i)) /\ (calls[i].kind = "transfer" => (NotDone(i)' <=> NotDone(i)))
    BY <1>1, <2>1 DEF NotDone
  <2>3. CASE j \in Sent
    <3>1. SameVisit(i, j) /\ Kept(j)
      BY <1>1, <2>1, <2>3 DEF SameVisit, InWizard, Kept
    <3> QED
      BY <2>1, <2>2, <2>3, <3>1 DEF OneAfterTheOther, Kept
  <2>4. CASE j = n
    <3>1. InWizard(i) /\ calls[i].visit = calls'[n].visit
      BY <2>1, <2>4 DEF SameVisit, InWizard, Kept
    <3> QED
      BY <2>1, <2>2, <3>1 DEF Kept
  <2> QED
    BY <2>3, <2>4
<1>5. StepFits'
  BY <1>1 DEF StepFits, Open, Kept
<1>6. SeenIsReviewed'
  <2> SUFFICES ASSUME NEW j \in Sent', InWizard(j)'
               PROVE  /\ Awaited(j)' => calls'[j].seen = reviewed'
                      /\ Complete(calls'[j].arg) /\ calls'[j].arg # calls'[j].seen =>
                            EditedUnder(calls[j].visit, j)'
    BY DEF SeenIsReviewed
  <2>1. CASE j \in Sent
    <3>1. InWizard(j) /\ Kept(j)
      BY <1>1, <2>1 DEF InWizard, Kept
    <3>2. Awaited(j)' => Awaited(j) /\ reviewed' = reviewed
      BY <1>1, <2>1, <3>1 DEF Awaited, Here, Open, Kept
    <3>3. \A i \in 1..(j - 1) : i \in Sent /\ Kept(i)
      BY <1>1, <2>1 DEF SentIsPrefix
    <3>4. EditedUnder(calls[j].visit, j) => EditedUnder(calls[j].visit, j)'
      BY <3>1, <3>3 DEF EditedUnder, Kept
    <3> QED
      BY <2>1, <3>1, <3>2, <3>4 DEF SeenIsReviewed, Kept
  <2>2. CASE j = n
    <3>1. \A i \in Sent : i \in 1..(n - 1) /\ Kept(i)
      BY <1>1, PageConstants DEF Ids, Sent
    <3> QED
      BY <2>2, <3>1 DEF EditedUnder, Awaited, Kept
  <2> QED
    BY <2>1, <2>2
<1>7. ReviewAtStepUp' /\ TransfersComplete'
  BY <1>1 DEF ReviewAtStepUp, TransfersComplete, Kept
<1>8. \A j \in Sent : ~(Awaited(j)' /\ InWizard(j) /\ Here(n)')
  BY <1>1 DEF Awaited, Here, Kept
<1>9. OneAwaited'
  <2>1. \A j \in Sent : Awaited(j)' /\ Awaited(n)' => calls'[j].kind # calls'[n].kind
    BY <1>1, <1>8 DEF Awaited, InWizard, Kept
  <2> QED
    BY <1>1, <2>1 DEF OneAwaited, Awaited, Kept
<1>10. FitsScreen'
  <2> SUFFICES ASSUME NEW j \in Sent', Awaited(j)'
               PROVE  calls'[j].stale \/ Shows(j)'
    BY DEF FitsScreen
  <2>1. CASE j \in Sent
    BY <1>1, <2>1 DEF FitsScreen, Shows, InWizard, Awaited, Kept, payeeVars, mfaVars
  <2>2. CASE j = n
    BY <2>2 DEF Shows, InWizard, Awaited, WizardKinds
  <2> QED
    BY <2>1, <2>2
<1>11. MfaFits'
  BY <1>1 DEF MfaFits, Awaited, Kept, mfaVars, WizardKinds
<1>12. LockedOutNeedsEnrolment'
  BY <1>1, LockedOutKept DEF Grows, Kept
<1> QED
  BY <1>2, <1>3, <1>4, <1>5, <1>6, <1>7, <1>9, <1>10, <1>11, <1>12

\* The wizard may send its next call: none is on its way, and none has succeeded.
LEMMA WizardIsFree ==
    ASSUME IInv, page = "transfer", step \in {"review", "step-up"}, ~Pending("transfer"),
           step = "step-up" => ~Pending("stepUp"), NEW j \in Sent, InWizard(j),
           calls[j].visit = visit
    PROVE  ~Open(j) /\ (calls[j].kind = "transfer" => NotDone(j))
<1>1. Here(j) /\ calls[j].end \in {"open", "told", "lost"}
  BY CallFields DEF IInv, TypeOK, Here
<1> QED
  BY <1>1 DEF IInv, WizardInv, StepFits, Pending, InWizard, WizardKinds, NotDone, Open

\* Confirm transfer.
LEMMA HandleConfirmKeeps ==
    ASSUME IInv, HandleConfirm
    PROVE  IInv'
<1> DEFINE c == NewCall("transfer", form, form)
<1>1. c = [kind |-> "transfer", arg |-> form, seen |-> form, visit |-> visit, stale |-> FALSE,
           exec |-> "no", end |-> "open"]
  BY DEF NewCall
<1> HIDE DEF c
<1>2. IsCall(c)
  <2>1. "transfer" \in Kinds /\ ArgsOf("transfer") = Forms
    BY DEF Kinds, ArgsOf
  <2>2. visit \in 1..MaxVisits /\ form \in Forms /\ reviewed \in Forms
    BY PageConstants DEF HandleConfirm, OnTransfer, IInv, TypeOK
  <2> QED
    BY <1>1, <2>1, <2>2, CallMade
<1>3. PICK n \in Ids : /\ CallsOK' /\ SentIsPrefix' /\ n \notin Sent /\ Sent' = Sent \cup {n}
                       /\ calls'[n] = c
                       /\ \A j \in Sent : j < n /\ calls'[j] = calls[j]
  <2>1. Send(calls, c)
    BY DEF HandleConfirm, c
  <2> QED
    BY <1>2, <2>1, CallsTyped, SendDoes DEF IInv, CallsInv
<1>4. /\ page = "transfer" /\ step = "review" /\ ~Pending("transfer") /\ Complete(form)
      /\ reviewed' = form
      /\ UNCHANGED <<page, visit, step, form, payeeVars, mfaVars, backend>>
  BY DEF HandleConfirm, OnTransfer, MayConfirm
<1>5. visit \in Nat /\ form \in Forms
  BY PageConstants DEF IInv, TypeOK
<1>6. /\ calls'[n].kind = "transfer" /\ calls'[n].end = "open" /\ calls'[n].exec = "no"
      /\ calls'[n].visit = visit /\ calls'[n].seen = form /\ calls'[n].arg = form
  BY <1>1, <1>3
<1>7. \A j \in Sent : Settling(j)
  BY <1>3 DEF Settling, Kept
<1>8. \A j \in Sent : InWizard(j) /\ calls[j].visit = calls'[n].visit =>
                          ~Open(j)' /\ (calls[j].kind = "transfer" => NotDone(j))
  BY <1>3, <1>4, <1>6, WizardIsFree DEF Open
<1> QED
  BY <1>3, <1>4, <1>5, <1>6, <1>7, <1>8, WizardSends DEF WizardKinds

\* Verify and send.
LEMMA HandleStepUpKeeps ==
    ASSUME IInv, HandleStepUp
    PROVE  IInv'
<1> DEFINE c == NewCall("stepUp", form, reviewed)
<1>1. c = [kind |-> "stepUp", arg |-> form, seen |-> reviewed, visit |-> visit, stale |-> FALSE,
           exec |-> "no", end |-> "open"]
  BY DEF NewCall
<1> HIDE DEF c
<1>2. IsCall(c)
  <2>1. "stepUp" \in Kinds /\ ArgsOf("stepUp") = Forms
    BY DEF Kinds, ArgsOf
  <2>2. visit \in 1..MaxVisits /\ form \in Forms /\ reviewed \in Forms
    BY PageConstants DEF HandleStepUp, OnTransfer, IInv, TypeOK
  <2> QED
    BY <1>1, <2>1, <2>2, CallMade
<1>3. PICK n \in Ids : /\ CallsOK' /\ SentIsPrefix' /\ n \notin Sent /\ Sent' = Sent \cup {n}
                       /\ calls'[n] = c
                       /\ \A j \in Sent : j < n /\ calls'[j] = calls[j]
  <2>1. Send(calls, c)
    BY DEF HandleStepUp, c
  <2> QED
    BY <1>2, <2>1, CallsTyped, SendDoes DEF IInv, CallsInv
<1>4. /\ page = "transfer" /\ step = "step-up" /\ ~Pending("transfer") /\ ~Pending("stepUp")
      /\ reviewed' = reviewed
      /\ UNCHANGED <<page, visit, step, form, payeeVars, mfaVars, backend>>
  BY DEF HandleStepUp, OnTransfer
<1>5. visit \in Nat /\ reviewed \in Forms
  BY PageConstants DEF IInv, TypeOK
<1>6. /\ calls'[n].kind = "stepUp" /\ calls'[n].end = "open" /\ calls'[n].exec = "no"
      /\ calls'[n].visit = visit /\ calls'[n].seen = reviewed /\ calls'[n].arg = form
  BY <1>1, <1>3
<1>7. \A j \in Sent : Settling(j)
  BY <1>3 DEF Settling, Kept
<1>8. \A j \in Sent : InWizard(j) /\ calls[j].visit = calls'[n].visit =>
                          ~Open(j)' /\ (calls[j].kind = "transfer" => NotDone(j))
  BY <1>3, <1>4, <1>6, WizardIsFree DEF Open
<1>9. Complete(calls'[n].arg) /\ calls'[n].arg # calls'[n].seen =>
        \E i \in Sent : /\ calls[i].kind = "transfer" /\ calls[i].stale
                        /\ calls[i].visit = calls'[n].visit
  BY <1>4, <1>6 DEF IInv, WizardInv, ReviewAtStepUp
<1> QED
  BY <1>3, <1>4, <1>5, <1>6, <1>7, <1>8, <1>9, WizardSends DEF WizardKinds

\* What settles has been sent, is open, and has been executed if it is told.
LEMMA SettlesOpen ==
    ASSUME NEW i, NEW k, NEW r, Settles(i, k, r)
    PROVE  /\ i \in Sent /\ calls[i].kind = k /\ Open(i)
           /\ r # "lost" => r = calls[i].exec /\ r # "no"
BY DEF Settles, Outcomes

\* The call that settles leaves those of the other visits and kinds alone.
LEMMA SettledKeeps ==
    ASSUME IInv, NEW i \in Sent, NEW r, r # "lost" => calls[i].exec # "no", calls' = Settled(i, r),
           UNCHANGED <<visit, backend>>
    PROVE  CallsInv' /\ LockedOutNeedsEnrolment'
<1>1. /\ CallsOK' /\ Sent' = Sent
      /\ \A j \in Sent : /\ Kept(j) /\ calls'[j].stale = calls[j].stale
                         /\ calls'[j].exec = calls[j].exec
                         /\ j # i => calls'[j].end = calls[j].end
      /\ calls'[i].end = IF r = "lost" THEN "lost" ELSE "told"
  BY CallsTyped, SettledStep DEF IInv
<1>2. CallsInv'
  BY <1>1 DEF IInv, CallsInv, SentIsPrefix, CallsArePast, Kept
<1>3. LockedOutNeedsEnrolment'
  BY <1>1, LockedOutKept DEF IInv, Grows
<1> QED
  BY <1>2, <1>3

\* A call of the wizard settles: two of a visit are never under way, so the step that a
\* transfer leads to contradicts no other call of the visit.
LEMMA WizardSettles ==
    ASSUME IInv, NEW i \in Sent, NEW r \in Results \cup {"lost"}, InWizard(i), Open(i),
           r # "lost" => r = calls[i].exec, calls' = Settled(i, r),
           step' = IF calls[i].kind = "transfer" /\ Here(i) THEN StepAfter(r) ELSE step,
           UNCHANGED <<page, visit, form, reviewed, payeeVars, mfaVars, backend>>
    PROVE  IInv'
<1> USE DEF IInv, WizardInv, CallsInv, ShownInv
<1>1. /\ CallsOK' /\ Sent' = Sent
      /\ \A j \in Sent : /\ Kept(j) /\ calls'[j].stale = calls[j].stale
                         /\ calls'[j].exec = calls[j].exec
                         /\ j # i => calls'[j].end = calls[j].end
      /\ calls'[i].end = IF r = "lost" THEN "lost" ELSE "told"
  BY CallsTyped, SettledStep
<1>2. r # "lost" => calls[i].exec # "no"
  BY DEF Results
<1>3. CallsInv' /\ LockedOutNeedsEnrolment'
  BY <1>2, SettledKeeps
<1>4. TypeOK'
  BY <1>1 DEF TypeOK, CallsOK, StepAfter, Steps, payeeVars, mfaVars, backend
<1>5. \A j \in Sent : (Here(j)' <=> Here(j)) /\ (Open(j)' => Open(j)) /\ (Awaited(j)' => Awaited(j))
  BY <1>1 DEF Here, Open, Awaited, Kept
<1>6. ASSUME NEW j \in Sent, j # i, SameVisit(i, j)
      PROVE  ~Open(j) /\ (calls[j].kind = "transfer" => NotDone(j))
  <2>1. i \in Nat /\ j \in Nat
    BY PageConstants DEF Sent, Ids
  <2>2. SameVisit(j, i)
    BY <1>6 DEF SameVisit
  <2> QED
    BY <1>6, <2>1, <2>2 DEF OneAfterTheOther
<1>7. OneAfterTheOther'
  <2> SUFFICES ASSUME NEW j \in Sent, NEW k \in Sent, j < k, SameVisit(j, k)'
               PROVE  (~Open(j) /\ (calls[j].kind = "transfer" => NotDone(j)))'
    BY <1>1 DEF OneAfterTheOther
  <2>1. SameVisit(j, k)
    BY <1>1 DEF SameVisit, InWizard, Kept
  <2>2. ~Open(j) /\ (calls[j].kind = "transfer" => NotDone(j))
    BY <2>1 DEF OneAfterTheOther
  <2> QED
    BY <1>1, <2>2 DEF Open, NotDone, Kept
<1>8. StepFits'
  <2>1. page' = "none" => step' = "source"
    BY DEF StepFits, Here
  <2>2. ASSUME NEW j \in Sent, Here(j)', calls'[j].kind = "transfer", calls'[j].end = "told",
               calls'[j].exec = "ok"
        PROVE  step' = "receipt"
    <3>1. Here(j) /\ calls[j].kind = "transfer" /\ calls[j].exec = "ok"
      BY <1>1, <1>5, <2>2 DEF Kept
    <3>2. CASE j = i
      BY <1>1, <2>2, <3>1, <3>2 DEF StepAfter
    <3>3. CASE j # i
      <4>1. calls[j].end = "told" /\ step = "receipt"
        BY <1>1, <2>2, <3>1, <3>3 DEF StepFits
      <4>2. ~Here(i)
        BY <1>6, <3>1, <3>3, <4>1 DEF SameVisit, InWizard, WizardKinds, Here, NotDone
      <4> QED
        BY <4>1, <4>2
    <3> QED
      BY <3>2, <3>3
  <2>3. ASSUME NEW j \in Sent, Here(j)', calls'[j].kind = "stepUp", Open(j)'
        PROVE  step' = "step-up"
    <3>1. Here(j) /\ calls[j].kind = "stepUp" /\ Open(j) /\ j # i
      BY <1>1, <1>5, <2>3 DEF Kept, Open
    <3>2. ~Here(i)
      BY <1>6, <3>1 DEF SameVisit, InWizard, WizardKinds, Here
    <3> QED
      BY <3>1, <3>2 DEF StepFits
  <2> QED
    BY <1>1, <2>1, <2>2, <2>3 DEF StepFits
<1>9. SeenIsReviewed'
  <2> SUFFICES ASSUME NEW j \in Sent', InWizard(j)'
               PROVE  /\ Awaited(j)' => calls'[j].seen = reviewed'
                      /\ Complete(calls'[j].arg) /\ calls'[j].arg # calls'[j].seen =>
                            EditedUnder(calls[j].visit, j)'
    BY DEF SeenIsReviewed
  <2>1. j \in Sent /\ InWizard(j) /\ Kept(j)
    BY <1>1 DEF InWizard, Kept
  <2>2. \A k \in 1..(j - 1) : k \in Sent
    BY <2>1 DEF SentIsPrefix
  <2>3. EditedUnder(calls[j].visit, j) => EditedUnder(calls[j].visit, j)'
    BY <1>1, <2>1, <2>2 DEF EditedUnder, Kept
  <2> QED
    BY <1>5, <2>1, <2>3 DEF SeenIsReviewed, Kept
<1>10. ReviewAtStepUp'
  <2> SUFFICES ASSUME step' = "step-up", Complete(form), form # reviewed
               PROVE  \E j \in Sent : calls[j].kind = "transfer" /\ calls[j].visit = visit /\ calls[j].stale
    BY <1>1 DEF ReviewAtStepUp, Kept
  <2>1. CASE step = "step-up"
    BY <2>1 DEF ReviewAtStepUp
  <2>2. CASE step # "step-up"
    <3>1. calls[i].kind = "transfer" /\ Here(i) /\ Awaited(i) /\ calls[i].visit = visit
      BY <2>2 DEF Awaited, Here
    <3>2. calls[i].stale \/ form = calls[i].arg
      BY <3>1 DEF FitsScreen, Shows
    <3>3. CASE form = calls[i].arg
      <4>1. EditedUnder(visit, i)
        BY <3>1, <3>3 DEF SeenIsReviewed
      <4>2. \A k \in 1..(i - 1) : k \in Sent
        BY DEF SentIsPrefix
      <4> QED
        BY <4>1, <4>2 DEF EditedUnder
    <3> QED
      BY <3>1, <3>2, <3>3
  <2> QED
    BY <2>1, <2>2
<1>11. TransfersComplete'
  BY <1>1 DEF TransfersComplete, Kept
<1>12. OneAwaited' /\ FitsScreen' /\ MfaFits'
  BY <1>1, <1>5 DEF OneAwaited, FitsScreen, MfaFits, Shows, InWizard, Kept, payeeVars, mfaVars
<1> QED
  BY <1>3, <1>4, <1>7, <1>8, <1>9, <1>10, <1>11, <1>12

\* submitTransfer after the await.
LEMMA TransferSettlesKeeps ==
    ASSUME IInv, NEW i \in Ids, NEW r \in Results \cup {"lost"}, TransferSettles(i, r)
    PROVE  IInv'
<1>1. i \in Sent /\ calls[i].kind = "transfer" /\ Open(i) /\ (r # "lost" => r = calls[i].exec)
  BY SettlesOpen DEF TransferSettles
<1> QED
  BY <1>1, WizardSettles DEF TransferSettles, InWizard, WizardKinds

\* handleStepUp after the await: the transfer takes the place of its step-up, as the
\* only call of the visit under way.
LEMMA StepUpSettlesKeeps ==
    ASSUME IInv, NEW i \in Ids, NEW r \in Results \cup {"lost"}, StepUpSettles(i, r)
    PROVE  IInv'
<1>1. i \in Sent /\ calls[i].kind = "stepUp" /\ Open(i) /\ (r # "lost" => r = calls[i].exec /\ r # "no")
  BY SettlesOpen DEF StepUpSettles
<1>2. UNCHANGED <<page, visit, step, form, reviewed, payeeVars, mfaVars, backend>>
  BY DEF StepUpSettles, transferVars
<1>3. CASE ~(r = "ok" /\ Complete(calls[i].arg))
  <2>1. calls' = Settled(i, r)
    BY <1>3 DEF StepUpSettles
  <2> QED
    BY <1>1, <1>2, <2>1, WizardSettles DEF InWizard, WizardKinds
<1>4. CASE r = "ok" /\ Complete(calls[i].arg)
  <2> DEFINE cs == Settled(i, r)
             c == [calls[i] EXCEPT !.kind = "transfer", !.exec = "no"]
  <2>1. Send(cs, c)
    BY <1>4 DEF StepUpSettles
  <2>2. IsCall(calls[i])
    BY <1>1 DEF IInv, TypeOK
  <2>3. /\ IsCall(c) /\ c.kind = "transfer" /\ c.exec = "no" /\ c.end = "open"
        /\ c.arg = calls[i].arg /\ c.visit = calls[i].visit /\ c.seen = calls[i].seen
        /\ c.stale = calls[i].stale
    <3>1. calls[i] \in CallsOf("stepUp") /\ ArgsOf("stepUp") = ArgsOf("transfer")
      BY <1>1, <2>2 DEF IsCall, ArgsOf
    <3> QED
      BY <1>1, <3>1 DEF IsCall, CallsOf, Kinds, Open
  <2>4. /\ DOMAIN cs = Ids /\ \A j \in Ids : cs[j] # None <=> j \in Sent
        /\ \A j \in Sent : IsCall(cs[j])
    BY <1>1, CallsTyped, SettledDoes DEF IInv, CallsOK, Sent
  <2> HIDE DEF cs, c
  <2>5. PICK n \in Ids : /\ CallsOK' /\ SentIsPrefix' /\ n \notin Sent /\ Sent' = Sent \cup {n}
                         /\ calls'[n] = c
                         /\ \A j \in Sent : j < n /\ calls'[j] = cs[j]
    BY <2>1, <2>3, <2>4, SendTo DEF IInv, CallsInv
  <2>6. \A j \in Sent : Settling(j)
    BY <1>1, <1>4, <2>5, CallsTyped, SettledDoes DEF IInv, cs, Settling, Kept, Sent, Open
  <2>7. \A j \in Sent : InWizard(j) /\ calls[j].visit = calls'[n].visit =>
                            ~Open(j)' /\ (calls[j].kind = "transfer" => NotDone(j))
    <3> SUFFICES ASSUME NEW j \in Sent, InWizard(j), calls[j].visit = calls'[n].visit
                 PROVE  ~Open(j)' /\ (calls[j].kind = "transfer" => NotDone(j))
      OBVIOUS
    <3>1. SameVisit(i, j) /\ SameVisit(j, i) /\ i \in Nat /\ j \in Nat
      BY <1>1, <2>3, <2>5, PageConstants DEF SameVisit, InWizard, WizardKinds, Sent, Ids
    <3>2. CASE j = i
      BY <1>1, <1>4, <2>5, <3>2, CallsTyped, SettledDoes DEF IInv, cs, Open
    <3>3. CASE j # i
      <4>1. ~Open(j) /\ (calls[j].kind = "transfer" => NotDone(j))
        BY <1>1, <3>1, <3>3 DEF IInv, WizardInv, OneAfterTheOther
      <4> QED
        BY <2>6, <4>1 DEF Settling, Open
    <3> QED
      BY <3>2, <3>3
  <2>8. Complete(c.arg) /\ c.arg # c.seen =>
          \E k \in Sent : calls[k].kind = "transfer" /\ calls[k].stale /\ calls[k].visit = c.visit
    <3>1. \A k \in 1..(i - 1) : k \in Sent
      BY <1>1 DEF IInv, CallsInv, SentIsPrefix
    <3> QED
      BY <1>1, <2>3, <3>1 DEF IInv, WizardInv, SeenIsReviewed, InWizard, WizardKinds, EditedUnder
  <2>9. Here(n)' => Awaited(i)
    BY <1>1, <1>2, <2>3, <2>5 DEF Here, Awaited
  <2>10. Awaited(i) => c.seen = reviewed /\ (c.stale \/ form = c.arg)
    BY <1>1, <2>3 DEF IInv, WizardInv, ShownInv, SeenIsReviewed, FitsScreen, Shows, InWizard, WizardKinds
  <2>11. c.visit <= visit /\ reviewed \in Forms
    BY <1>1, <2>3 DEF IInv, CallsInv, CallsArePast, TypeOK
  <2> QED
    BY <1>2, <1>4, <2>3, <2>5, <2>6, <2>7, <2>8, <2>9, <2>10, <2>11, WizardSends DEF WizardKinds
<1> QED
  BY <1>3, <1>4

-------------------------------------------------------------------------------
(* The other pages *)

\* The dialogs of the payees are changed, and the awaited calls of that kind marked.
LEMMA DialogKeeps ==
    ASSUME IInv, NEW k \in {"addPayee", "deletePayee"}, calls' = Touched({k}),
           UNCHANGED <<page, visit, transferVars, mfaVars, backend>>,
           addOpen' \in BOOLEAN, pendingPayee' \in Payees \cup {None},
           deleteTarget' \in Payees \cup {None},
           k # "addPayee" => pendingPayee' = pendingPayee,
           k # "deletePayee" => deleteTarget' = deleteTarget
    PROVE  IInv'
<1> USE DEF IInv, CallsInv, ShownInv
<1>1. /\ CallsOK' /\ Sent' = Sent
      /\ \A i \in Sent : /\ Kept(i)
                         /\ calls'[i].exec = calls[i].exec /\ calls'[i].end = calls[i].end
                         /\ IF calls[i].kind \in {k} /\ Awaited(i)
                            THEN calls'[i].stale ELSE calls'[i].stale = calls[i].stale
  BY CallsTyped, TouchedDoes
<1>2. TypeOK'
  BY <1>1 DEF TypeOK, CallsOK, transferVars, mfaVars, backend
<1>3. SentIsPrefix' /\ CallsArePast'
  BY <1>1 DEF SentIsPrefix, CallsArePast, Kept
<1>4. Grows /\ WizardCallsKept
  BY <1>1 DEF Grows, WizardCallsKept, InWizard, WizardKinds
<1>5. WizardInv' /\ LockedOutNeedsEnrolment'
  BY <1>4, WizardKept, LockedOutKept, CallsTyped
<1>6. \A i \in Sent : Awaited(i)' <=> Awaited(i)
  BY <1>1 DEF Awaited, Open, Here, Kept
<1>7. OneAwaited' /\ MfaFits'
  <2>1. OneAwaited'
    BY <1>1, <1>6 DEF OneAwaited, Kept
  <2>2. MfaFits'
    <3> SUFFICES ASSUME NEW i \in Sent, Awaited(i)
                 PROVE  /\ calls[i].kind = "enroll" =>
                              enrollment' = None /\ recoveryCodes' = None
                        /\ calls[i].kind = "confirm" =>
                              enrollment' = calls[i].arg /\ recoveryCodes' = None
      BY <1>1, <1>6 DEF MfaFits, Kept
    <3> QED
      BY DEF MfaFits, mfaVars
  <2> QED
    BY <2>1, <2>2
<1>8. FitsScreen'
  <2> SUFFICES ASSUME NEW i \in Sent, Awaited(i)
               PROVE  calls'[i].stale \/ Shows(i)'
    BY <1>1, <1>6 DEF FitsScreen
  <2>1. Kept(i) /\ (calls[i].stale \/ Shows(i))
    BY <1>1 DEF FitsScreen
  <2>2. calls[i].kind # k /\ Shows(i) => Shows(i)'
    BY <2>1 DEF Shows, InWizard, Kept, transferVars, mfaVars
  <2> QED
    BY <1>1, <2>1, <2>2 DEF Kept
<1> QED
  BY <1>2, <1>3, <1>5, <1>7, <1>8

\* A page sends a call for what it shows, and awaits no other of its kind.
LEMMA PageSends ==
    ASSUME IInv, NEW k \in {"addPayee", "deletePayee", "enroll", "confirm"}, NEW a \in ArgsOf(k),
           page # "none", ~Pending(k), Send(calls, NewCall(k, a, NoForm)),
           k = "addPayee" => pendingPayee = a,
           k = "deletePayee" => deleteTarget = a,
           k \in {"enroll", "confirm"} => enrollment = a /\ recoveryCodes = None,
           UNCHANGED <<page, visit, transferVars, payeeVars, mfaVars, backend>>
    PROVE  IInv'
<1> USE DEF IInv, CallsInv, ShownInv
<1> DEFINE c == NewCall(k, a, NoForm)
<1>1. c = [kind |-> k, arg |-> a, seen |-> NoForm, visit |-> visit, stale |-> FALSE,
           exec |-> "no", end |-> "open"]
  BY DEF NewCall
<1> HIDE DEF c
<1>2. visit \in 1..MaxVisits /\ NoForm \in Forms /\ k \in Kinds
  BY PageConstants DEF TypeOK, NoForm, Forms, Kinds
<1>3. IsCall(c)
  BY <1>1, <1>2, CallMade
<1>4. Send(calls, c)
  BY DEF c
<1>5. PICK n \in Ids : /\ CallsOK' /\ SentIsPrefix' /\ n \notin Sent /\ Sent' = Sent \cup {n}
                       /\ calls'[n] = c
                       /\ \A j \in Sent : j < n /\ calls'[j] = calls[j]
  BY <1>3, <1>4, CallsTyped, SendDoes
<1>6. /\ calls'[n].kind = k /\ calls'[n].end = "open" /\ calls'[n].exec = "no"
      /\ calls'[n].visit = visit /\ calls'[n].arg = a
  BY <1>1, <1>5
<1>7. \A j \in Sent : /\ j \in Sent' /\ j # n /\ calls'[j] = calls[j]
                      /\ (Awaited(j)' <=> Awaited(j))
  BY <1>5 DEF Awaited, Open, Here
<1>8. TypeOK'
  BY <1>5 DEF TypeOK, CallsOK, transferVars, payeeVars, mfaVars, backend
<1>9. CallsArePast'
  BY <1>2, <1>5, <1>6 DEF CallsArePast
<1>10. Grows /\ WizardCallsKept
  BY <1>5, <1>6 DEF Grows, WizardCallsKept, Kept, WizardKinds
<1>11. WizardInv' /\ LockedOutNeedsEnrolment'
  BY <1>10, WizardKept, LockedOutKept, CallsTyped
<1>12. OneAwaited'
  <2>1. \A j \in Sent : Awaited(j) => calls[j].kind # k
    BY DEF Pending, Awaited
  <2> QED
    BY <1>5, <1>6, <1>7, <2>1 DEF OneAwaited
<1>13. FitsScreen'
  <2>1. Shows(n)'
    BY <1>6 DEF Shows, InWizard, WizardKinds, payeeVars, mfaVars
  <2>2. \A j \in Sent : Shows(j)' <=> Shows(j)
    BY <1>7 DEF Shows, InWizard, transferVars, payeeVars, mfaVars
  <2> QED
    BY <1>5, <1>7, <2>1, <2>2 DEF FitsScreen
<1>14. MfaFits'
  <2>1. k = "enroll" => a = None
    BY DEF ArgsOf
  <2> QED
    BY <1>5, <1>6, <1>7, <2>1 DEF MfaFits, mfaVars
<1> QED
  BY <1>5, <1>8, <1>9, <1>11, <1>12, <1>13, <1>14

\* A page's call settles: the answer may change what the page shows for it, and only
\* while it is awaited.
LEMMA PageSettles ==
    ASSUME IInv, NEW k \in {"addPayee", "deletePayee", "enroll", "confirm"}, NEW i, NEW r,
           Settles(i, k, r), calls' = Settled(i, r),
           UNCHANGED <<page, visit, transferVars, savedRecoveryCodes, backend>>,
           ~Here(i) => UNCHANGED <<payeeVars, mfaVars>>,
           addOpen' \in BOOLEAN, pendingPayee' \in Payees \cup {None},
           deleteTarget' \in Payees \cup {None}, enrollment' \in Ids \cup {None},
           recoveryCodes' \in Ids \cup {None},
           k # "addPayee" => pendingPayee' = pendingPayee,
           k # "deletePayee" => deleteTarget' = deleteTarget,
           k # "enroll" => enrollment' = enrollment,
           k # "confirm" => recoveryCodes' = recoveryCodes
    PROVE  IInv'
<1> USE DEF IInv, CallsInv, ShownInv
<1>1. i \in Sent /\ calls[i].kind = k /\ Open(i) /\ (r # "lost" => calls[i].exec # "no")
  BY SettlesOpen
<1>2. /\ CallsOK' /\ Sent' = Sent
      /\ \A j \in Sent : /\ Kept(j) /\ calls'[j].stale = calls[j].stale
                         /\ calls'[j].exec = calls[j].exec
                         /\ j # i => calls'[j].end = calls[j].end
      /\ calls'[i].end = IF r = "lost" THEN "lost" ELSE "told"
  BY <1>1, CallsTyped, SettledStep
<1>3. CallsInv' /\ LockedOutNeedsEnrolment'
  BY <1>1, SettledKeeps
<1>4. TypeOK'
  BY <1>2 DEF TypeOK, CallsOK, transferVars, backend
<1>5. WizardInv'
  <2>1. Grows /\ WizardCallsKept
    BY <1>1, <1>2 DEF Grows, WizardCallsKept, InWizard, WizardKinds
  <2> QED
    BY <2>1, WizardKept, CallsTyped
<1>6. \A j \in Sent : Awaited(j)' => Awaited(j) /\ j # i
  BY <1>2 DEF Awaited, Open, Here, Kept
<1>7. OneAwaited'
  BY <1>2, <1>6 DEF OneAwaited, Kept
<1>8. ASSUME NEW j \in Sent, Awaited(j)', Here(i)
      PROVE  calls[j].kind # k
  BY <1>1, <1>6, <1>8 DEF OneAwaited, Awaited
<1>9. MfaFits'
  <2> SUFFICES ASSUME NEW j \in Sent, Awaited(j)'
               PROVE  /\ calls[j].kind = "enroll" => enrollment' = None /\ recoveryCodes' = None
                      /\ calls[j].kind = "confirm" => enrollment' = calls[j].arg /\ recoveryCodes' = None
    BY <1>2 DEF MfaFits, Kept
  <2>1. CASE ~Here(i)
    BY <1>6, <2>1 DEF MfaFits, mfaVars
  <2>2. CASE Here(i)
    <3>1. Awaited(i) /\ Awaited(j) /\ calls[j].kind # k
      BY <1>1, <1>6, <1>8, <2>2 DEF Awaited
    <3>2. k = "confirm" => enrollment = calls[i].arg /\ calls[i].arg # None
      BY <1>1, <3>1, CallFields, PageConstants DEF MfaFits, TypeOK, ArgsOf
    <3>3. k = "confirm" => calls[j].kind # "enroll"
      BY <3>1, <3>2 DEF MfaFits
    <3>4. k = "enroll" => calls[j].kind # "confirm"
      <4>1. calls[j].kind = "confirm" => enrollment = calls[j].arg /\ calls[j].arg # None
        BY <3>1, CallFields, PageConstants DEF MfaFits, TypeOK, ArgsOf
      <4> QED
        BY <1>1, <3>1, <4>1 DEF MfaFits
    <3> QED
      BY <3>1, <3>3, <3>4 DEF MfaFits
  <2> QED
    BY <2>1, <2>2
<1>10. FitsScreen'
  <2> SUFFICES ASSUME NEW j \in Sent, Awaited(j)'
               PROVE  calls'[j].stale \/ Shows(j)'
    BY <1>2 DEF FitsScreen
  <2>1. Kept(j) /\ Awaited(j) /\ calls'[j].stale = calls[j].stale /\ (calls[j].stale \/ Shows(j))
    BY <1>2, <1>6 DEF FitsScreen
  <2>2. CASE ~Here(i)
    BY <2>1, <2>2 DEF Shows, InWizard, Kept, transferVars, payeeVars, mfaVars
  <2>3. CASE Here(i)
    <3>1. calls[j].kind # k
      BY <1>8, <2>3
    <3>2. calls[j].kind \in {"enroll", "confirm"} => Shows(j)'
      <4>1. calls[j].kind = "enroll" => calls[j].arg = None
        BY CallFields DEF TypeOK, ArgsOf
      <4>2. calls'[j].kind = calls[j].kind /\ calls'[j].arg = calls[j].arg
        BY <2>1 DEF Kept
      <4> QED
        BY <1>2, <1>9, <4>1, <4>2 DEF MfaFits, Shows, InWizard, WizardKinds
    <3>3. calls[j].kind \notin {"enroll", "confirm"} /\ Shows(j) => Shows(j)'
      BY <2>1, <3>1 DEF Shows, InWizard, Kept, transferVars
    <3> QED
      BY <2>1, <3>2, <3>3
  <2> QED
    BY <2>2, <2>3
<1> QED
  BY <1>3, <1>4, <1>5, <1>7, <1>9, <1>10

\* The payees and their dialogs.
LEMMA PayeesKeep ==
    ASSUME IInv,
           \/ OpenDialog \/ (\E p \in Payees : OnSubmitDetails(p))
           \/ (\E open \in BOOLEAN : LeaveDialog(open)) \/ ConfirmAddPayee
           \/ (\E p \in Payees \cup {None} : SetDeleteTarget(p)) \/ ConfirmDeletePayee
    PROVE  IInv'
<1>0. /\ addOpen \in BOOLEAN /\ pendingPayee \in Payees \cup {None}
      /\ deleteTarget \in Payees \cup {None}
  BY DEF IInv, TypeOK
<1>1. CASE OpenDialog
  <2>1. /\ UNCHANGED <<page, visit, transferVars, pendingPayee, deleteTarget, mfaVars, backend, calls>>
        /\ addOpen' = TRUE /\ Sent' = Sent
    BY <1>1 DEF OpenDialog, OnPayees, Sent
  <2>2. TypeOK' /\ CallsInv'
    BY <2>1 DEF IInv, TypeOK, CallsInv, SentIsPrefix, CallsArePast, transferVars, mfaVars, backend
  <2>3. Grows /\ WizardCallsKept
    BY <2>1 DEF Grows, WizardCallsKept, Kept
  <2>4. WizardInv' /\ LockedOutNeedsEnrolment'
    BY <2>1, <2>3, WizardKept, LockedOutKept, CallsTyped DEF IInv, CallsInv
  <2>5. ShownInv'
    BY <2>1 DEF IInv, ShownInv, OneAwaited, FitsScreen, MfaFits, Awaited, Open, Here, Shows, InWizard,
                transferVars, mfaVars
  <2> QED
    BY <2>2, <2>4, <2>5 DEF IInv
<1>2. CASE \E p \in Payees : OnSubmitDetails(p)
  BY <1>0, <1>2, DialogKeeps DEF OnSubmitDetails, OnPayees
<1>3. CASE \E open \in BOOLEAN : LeaveDialog(open)
  BY <1>0, <1>3, DialogKeeps DEF LeaveDialog, OnPayees
<1>4. CASE \E p \in Payees \cup {None} : SetDeleteTarget(p)
  BY <1>0, <1>4, DialogKeeps DEF SetDeleteTarget, OnPayees
<1>5. CASE ConfirmAddPayee
  <2>1. pendingPayee \in ArgsOf("addPayee")
    BY <1>0, <1>5 DEF ConfirmAddPayee, ArgsOf
  <2> QED
    BY <1>5, <2>1, PageSends DEF ConfirmAddPayee, OnPayees
<1>6. CASE ConfirmDeletePayee
  <2>1. deleteTarget \in ArgsOf("deletePayee")
    BY <1>0, <1>6 DEF ConfirmDeletePayee, ArgsOf
  <2> QED
    BY <1>6, <2>1, PageSends DEF ConfirmDeletePayee, OnPayees
<1> QED
  BY <1>1, <1>2, <1>3, <1>4, <1>5, <1>6

\* The MFA tab.
LEMMA MfaKeeps ==
    ASSUME IInv, StartEnrollment \/ OnConfirm \/ TickSaved \/ Done
    PROVE  IInv'
<1>1. CASE StartEnrollment
  <2>1. None \in ArgsOf("enroll")
    BY DEF ArgsOf
  <2> QED
    BY <1>1, <2>1, PageSends DEF StartEnrollment, OnMfa
<1>2. CASE OnConfirm
  <2>1. enrollment \in ArgsOf("confirm")
    BY <1>2 DEF OnConfirm, ArgsOf, IInv, TypeOK, Ids
  <2> QED
    BY <1>2, <2>1, PageSends DEF OnConfirm, OnMfa
<1>3. CASE TickSaved \/ Done
  <2>1. /\ UNCHANGED <<page, visit, transferVars, payeeVars, backend, calls>>
        /\ Sent' = Sent /\ recoveryCodes # None
        /\ \/ UNCHANGED <<enrollment, recoveryCodes>>
           \/ enrollment' = None /\ recoveryCodes' = None
    BY <1>3 DEF TickSaved, Done, OnMfa, Sent
  <2>2. TypeOK' /\ CallsInv'
    <3>1. savedRecoveryCodes' \in BOOLEAN
      BY <1>3 DEF TickSaved, Done, IInv, TypeOK
    <3> QED
      BY <2>1, <3>1 DEF IInv, TypeOK, CallsInv, SentIsPrefix, CallsArePast, transferVars, payeeVars, backend
  <2>3. Grows /\ WizardCallsKept
    BY <2>1 DEF Grows, WizardCallsKept, Kept
  <2>4. WizardInv' /\ LockedOutNeedsEnrolment'
    BY <2>1, <2>3, WizardKept, LockedOutKept, CallsTyped DEF IInv, CallsInv
  <2>5. \A i \in Sent : /\ Awaited(i)' <=> Awaited(i)
                        /\ Awaited(i) => calls[i].kind \notin {"enroll", "confirm"}
    BY <2>1 DEF IInv, ShownInv, MfaFits, Awaited, Open, Here
  <2>6. ShownInv'
    BY <2>1, <2>5 DEF IInv, ShownInv, OneAwaited, FitsScreen, MfaFits, Shows, InWizard,
                      transferVars, payeeVars
  <2> QED
    BY <2>2, <2>4, <2>6 DEF IInv
<1> QED
  BY <1>1, <1>2, <1>3

\* The answers to these pages.
LEMMA AnswersKeep ==
    ASSUME IInv, NEW i \in Ids, NEW r,
           \/ AddPayeeSettles(i, r) \/ DeletePayeeSettles(i, r)
           \/ EnrollSettles(i, r) \/ ConfirmSettles(i, r)
    PROVE  IInv'
<1>0. /\ addOpen \in BOOLEAN /\ pendingPayee \in Payees \cup {None}
      /\ deleteTarget \in Payees \cup {None}
      /\ enrollment \in Ids \cup {None} /\ recoveryCodes \in Ids \cup {None}
  BY DEF IInv, TypeOK
<1>1. CASE AddPayeeSettles(i, r)
  BY <1>0, <1>1, PageSettles DEF AddPayeeSettles, payeeVars, mfaVars
<1>2. CASE DeletePayeeSettles(i, r)
  BY <1>0, <1>2, PageSettles DEF DeletePayeeSettles, payeeVars, mfaVars
<1>3. CASE EnrollSettles(i, r)
  BY <1>0, <1>3, PageSettles DEF EnrollSettles, payeeVars, mfaVars
<1>4. CASE ConfirmSettles(i, r)
  BY <1>0, <1>4, PageSettles DEF ConfirmSettles, payeeVars, mfaVars
<1> QED
  BY <1>1, <1>2, <1>3, <1>4

-------------------------------------------------------------------------------
(* The backend *)

\* A call is executed.
LEMMA ExecuteKeeps ==
    ASSUME IInv, NEW i \in Ids, NEW r \in Results, Execute(i, r)
    PROVE  IInv'
<1> USE DEF IInv, WizardInv, CallsInv, ShownInv
<1>1. /\ i \in Sent /\ calls[i].exec = "no" /\ r \in Answers(calls[i])
      /\ calls' = [calls EXCEPT ![i].exec = r]
      /\ UNCHANGED <<page, visit, transferVars, payeeVars, mfaVars>>
  BY DEF Execute
<1>2. /\ CallsOK' /\ Sent' = Sent
      /\ \A j \in Sent : /\ Kept(j) /\ calls'[j].stale = calls[j].stale
                         /\ calls'[j].end = calls[j].end
                         /\ j # i => calls'[j].exec = calls[j].exec
      /\ calls'[i].exec = r
  BY <1>1, CallsTyped, ExecuteDoes
<1>3. calls[i].end # "told" /\ r # "no"
  BY <1>1 DEF CallsArePast, Results
<1>4. TypeOK'
  <2>1. elevated' \in BOOLEAN /\ mfaEnabled' \in BOOLEAN /\ reenrolled' \in BOOLEAN
    BY DEF Execute, TypeOK
  <2>2. secret' \in Ids \cup {None}
    BY DEF Execute, TypeOK
  <2> QED
    BY <1>1, <1>2, <2>1, <2>2 DEF TypeOK, CallsOK, transferVars, payeeVars, mfaVars
<1>5. CallsInv'
  BY <1>1, <1>2, <1>3 DEF SentIsPrefix, CallsArePast, Kept
<1>6. \A j \in Sent : /\ (Open(j)' <=> Open(j)) /\ (Here(j)' <=> Here(j))
                      /\ (Awaited(j)' <=> Awaited(j)) /\ (NotDone(j) => NotDone(j)')
  BY <1>1, <1>2, <1>3 DEF Open, Here, Awaited, NotDone, Kept
<1>7. OneAfterTheOther'
  BY <1>2, <1>6 DEF OneAfterTheOther, SameVisit, InWizard, Kept
<1>8. StepFits'
  BY <1>1, <1>2, <1>3, <1>6 DEF StepFits, Kept, transferVars
<1>9. SeenIsReviewed'
  <2> SUFFICES ASSUME NEW j \in Sent', InWizard(j)'
               PROVE  /\ Awaited(j)' => calls'[j].seen = reviewed'
                      /\ Complete(calls'[j].arg) /\ calls'[j].arg # calls'[j].seen =>
                            EditedUnder(calls[j].visit, j)'
    BY DEF SeenIsReviewed
  <2>1. j \in Sent /\ InWizard(j) /\ Kept(j)
    BY <1>2 DEF InWizard, Kept
  <2>2. \A k \in 1..(j - 1) : k \in Sent
    BY <2>1 DEF SentIsPrefix
  <2>3. EditedUnder(calls[j].visit, j) => EditedUnder(calls[j].visit, j)'
    BY <1>2, <2>1, <2>2 DEF EditedUnder, Kept
  <2> QED
    BY <1>1, <1>6, <2>1, <2>3 DEF SeenIsReviewed, Kept, transferVars
<1>10. ReviewAtStepUp' /\ TransfersComplete'
  BY <1>1, <1>2 DEF ReviewAtStepUp, TransfersComplete, Kept, transferVars
<1>11. OneAwaited'
  BY <1>2, <1>6 DEF OneAwaited, Kept
<1>12. FitsScreen' /\ MfaFits'
  BY <1>1, <1>2, <1>6 DEF FitsScreen, MfaFits, Shows, InWizard, Kept, transferVars, payeeVars, mfaVars
<1>13. LockedOutNeedsEnrolment'
  <2> SUFFICES ASSUME mfaEnabled', ~reenrolled'
               PROVE  \E j \in Sent : /\ calls'[j].kind = "confirm" /\ calls'[j].exec = "ok"
                                      /\ calls'[j].arg = secret'
    BY <1>2 DEF LockedOutNeedsEnrolment
  <2>1. CASE calls[i].kind = "confirm" /\ r = "ok"
    <3>1. calls[i].arg = secret /\ secret' = secret
      BY <1>1, <2>1 DEF Execute, Answers, Accepted
    <3> QED
      BY <1>1, <1>2, <2>1, <3>1 DEF Kept
  <2>2. CASE ~(calls[i].kind = "confirm" /\ r = "ok")
    <3>1. mfaEnabled /\ ~reenrolled /\ calls[i].kind # "enroll" /\ secret' = secret
      BY <2>2 DEF Execute
    <3>2. PICK j \in Sent : /\ calls[j].kind = "confirm" /\ calls[j].exec = "ok"
                            /\ calls[j].arg = secret
      BY <3>1 DEF LockedOutNeedsEnrolment
    <3> QED
      BY <1>1, <1>2, <3>1, <3>2 DEF Kept
  <2> QED
    BY <2>1, <2>2
<1> QED
  BY <1>4, <1>5, <1>7, <1>8, <1>9, <1>10, <1>11, <1>12, <1>13

\* The elevation of the session ends, or nothing happens.
LEMMA QuietKeeps ==
    ASSUME IInv, ElevationEnds \/ UNCHANGED vars
    PROVE  IInv'
<1>1. /\ UNCHANGED <<page, visit, transferVars, payeeVars, mfaVars, calls, secret, mfaEnabled, reenrolled>>
      /\ elevated' \in BOOLEAN /\ Sent' = Sent
  BY DEF ElevationEnds, vars, backend, IInv, TypeOK, Sent
<1>2. TypeOK' /\ CallsInv' /\ LockedOutNeedsEnrolment'
  BY <1>1 DEF IInv, TypeOK, CallsInv, SentIsPrefix, CallsArePast, LockedOutNeedsEnrolment,
              transferVars, payeeVars, mfaVars
<1>3. Grows /\ WizardCallsKept
  BY <1>1 DEF Grows, WizardCallsKept, Kept
<1>4. WizardInv'
  BY <1>1, <1>3, WizardKept, CallsTyped DEF IInv, CallsInv
<1>5. ShownInv'
  BY <1>1 DEF IInv, ShownInv, OneAwaited, FitsScreen, MfaFits, Awaited, Open, Here, Shows, InWizard,
              transferVars, payeeVars, mfaVars
<1> QED
  BY <1>2, <1>4, <1>5 DEF IInv

-------------------------------------------------------------------------------
(* The theorems *)

\* At the start no page is mounted and nothing has been sent.
LEMMA InitInv == Init => IInv
<1> SUFFICES ASSUME Init PROVE IInv
  OBVIOUS
<1>1. Sent = {} /\ DOMAIN calls = Ids /\ NoForm \in Forms
  BY DEF Init, Sent, NoForm, Forms
<1>2. TypeOK
  <2>1. /\ addOpen \in BOOLEAN /\ savedRecoveryCodes \in BOOLEAN /\ elevated \in BOOLEAN
        /\ mfaEnabled \in BOOLEAN /\ reenrolled \in BOOLEAN
    BY DEF Init
  <2>2. \A i \in Sent : IsCall(calls[i])
    BY <1>1
  <2> QED
    BY <1>1, <2>1, <2>2, PageConstants DEF Init, TypeOK, Steps
<1>3. CallsInv /\ WizardInv /\ ShownInv /\ LockedOutNeedsEnrolment
  BY <1>1 DEF Init, CallsInv, SentIsPrefix, CallsArePast, WizardInv, OneAfterTheOther, StepFits,
              SeenIsReviewed, ReviewAtStepUp, TransfersComplete, ShownInv, OneAwaited, FitsScreen,
              MfaFits, LockedOutNeedsEnrolment
<1> QED
  BY <1>2, <1>3 DEF IInv

\* Every step keeps the invariant.
LEMMA NextInv == IInv /\ [Next]_vars => IInv'
<1> SUFFICES ASSUME IInv, [Next]_vars PROVE IInv'
  OBVIOUS
<1>1. CASE \E p \in {"transfer", "payees", "mfa"} : Mount(p)
  BY <1>1, MountKeeps
<1>2. CASE Leave
  BY <1>2, LeaveKeeps
<1>3. CASE \E f \in Forms : Edit(f)
  BY <1>3, EditKeeps
<1>4. CASE PayeeListChanges
  <2>1. WithoutPayee(form) \in Forms
    BY DEF IInv, TypeOK, Forms, WithoutPayee
  <2> QED
    BY <1>4, <2>1, EditKeeps
<1>5. CASE Continue \/ Back
  BY <1>5, StepsKeep
<1>6. CASE HandleConfirm
  BY <1>6, HandleConfirmKeeps
<1>7. CASE HandleStepUp
  BY <1>7, HandleStepUpKeeps
<1>8. CASE \/ OpenDialog \/ (\E p \in Payees : OnSubmitDetails(p))
           \/ (\E open \in BOOLEAN : LeaveDialog(open)) \/ ConfirmAddPayee
           \/ (\E p \in Payees \cup {None} : SetDeleteTarget(p)) \/ ConfirmDeletePayee
  BY <1>8, PayeesKeep
<1>9. CASE StartEnrollment \/ OnConfirm \/ TickSaved \/ Done
  BY <1>9, MfaKeeps
<1>10. ASSUME NEW i \in Ids, NEW r \in Results \cup {"lost"},
              \/ StepUpSettles(i, r) \/ TransferSettles(i, r)
              \/ AddPayeeSettles(i, r) \/ DeletePayeeSettles(i, r)
              \/ EnrollSettles(i, r) \/ ConfirmSettles(i, r)
       PROVE  IInv'
  BY <1>10, StepUpSettlesKeeps, TransferSettlesKeeps, AnswersKeep
<1>11. CASE \E i \in Ids, r \in Results : Execute(i, r)
  BY <1>11, ExecuteKeeps
<1>12. CASE ElevationEnds \/ UNCHANGED vars
  BY <1>12, QuietKeeps
<1> QED
  BY <1>1, <1>2, <1>3, <1>4, <1>5, <1>6, <1>7, <1>8, <1>9, <1>10, <1>11, <1>12 DEF Next

\* The invariant holds throughout.
LEMMA Invariance == Spec => []IInv
BY InitInv, NextInv, PTL DEF Spec

\* The state of the pages and of every call keeps its type.
THEOREM TypeCorrect == Spec => []TypeOK
<1>1. IInv => TypeOK
  BY DEF IInv
<1> QED
  BY <1>1, Invariance, PTL

\* A visit moves money once unless an answer was lost: the wizard sends its next call
\* only when the last has settled, and goes no further once it knows of a success.
THEOREM WizardMovesMoneyOnce == Spec => []OneTransferPerVisit
<1>1. IInv => OneTransferPerVisit
  BY DEF IInv, WizardInv, OneAfterTheOther, SameVisit, InWizard, WizardKinds, NotDone,
         OneTransferPerVisit
<1> QED
  BY <1>1, Invariance, PTL

\* What goes out after the step-up is what was confirmed, unless the details were edited
\* while an earlier transfer of the visit was on its way.
THEOREM WizardSendsWhatWasReviewed == Spec => []SentWasReviewed
<1>1. IInv => SentWasReviewed
  <2> SUFFICES ASSUME IInv, NEW j \in Sent, calls[j].kind = "transfer", calls[j].arg # calls[j].seen
               PROVE  EditedUnder(calls[j].visit, j)
    BY DEF SentWasReviewed, EditedUnder
  <2> QED
    BY DEF IInv, WizardInv, SeenIsReviewed, TransfersComplete, InWizard, WizardKinds
<1> QED
  BY <1>1, Invariance, PTL

\* With MFA on, the secret in use is one whose enrolment was confirmed, unless an
\* enrolment was executed after.
THEOREM SecretWasConfirmed == Spec => []LockedOutNeedsEnrolment
<1>1. IInv => LockedOutNeedsEnrolment
  BY DEF IInv
<1> QED
  BY <1>1, Invariance, PTL

\* What a call finds on the screen, kind by kind.
LEMMA ShowsIsOnScreen ==
    ASSUME NEW i, calls[i].kind \in Kinds
    PROVE  Shows(i) => OnScreen(calls[i])
BY DEF OnScreen, Shows, Kinds, InWizard, WizardKinds

\* An answer that changes the screen is awaited by the page: nothing else settles in the
\* steps that send, edit, execute or navigate.
LEMMA AnswerIsAwaited ==
    ASSUME IInv, Next, NEW i \in Sent, Open(i), calls'[i].end # "open", Screen' # Screen
    PROVE  Awaited(i)
<1> USE CallsTyped DEF IInv
<1>1. calls' # calls
  BY DEF Open
<1>2. ASSUME NEW ks PROVE calls' # Touched(ks)
  BY TouchedDoes DEF Open
<1>3. ASSUME NEW c PROVE ~Send(calls, c)
  <2> SUFFICES ASSUME Send(calls, c) PROVE FALSE
    OBVIOUS
  <2>1. PICK n \in Ids : calls[n] = None /\ calls' = [calls EXCEPT ![n] = c]
    BY DEF Send
  <2>2. n # i /\ i \in Ids
    BY <2>1 DEF Sent
  <2> QED
    BY <2>1, <2>2 DEF CallsOK, Open
<1>4. ASSUME NEW j \in Ids, NEW r \in Results PROVE ~Execute(j, r)
  BY ExecuteDoes DEF Execute, Open
<1>5. ASSUME NEW j \in Ids, NEW r, j \in Sent, calls' = Settled(j, r) PROVE j = i
  BY <1>5, SettledStep DEF Open
<1>6. PICK j \in Ids, r \in Results \cup {"lost"} :
        \/ StepUpSettles(j, r) \/ TransferSettles(j, r)
        \/ AddPayeeSettles(j, r) \/ DeletePayeeSettles(j, r)
        \/ EnrollSettles(j, r) \/ ConfirmSettles(j, r)
  BY <1>1, <1>2, <1>3, <1>4
     DEF Next, Mount, Leave, Edit, PayeeListChanges, Continue, Back, HandleConfirm, HandleStepUp,
         OpenDialog, OnSubmitDetails, LeaveDialog, ConfirmAddPayee, SetDeleteTarget,
         ConfirmDeletePayee, StartEnrollment, OnConfirm, TickSaved, Done, ElevationEnds
<1>7. ~StepUpSettles(j, r)
  BY DEF StepUpSettles, Screen, transferVars, payeeVars, mfaVars
<1>8. j \in Sent /\ calls' = Settled(j, r)
  BY <1>6, <1>7 DEF TransferSettles, AddPayeeSettles, DeletePayeeSettles, EnrollSettles,
                    ConfirmSettles, Settles
<1>9. j = i
  BY <1>5, <1>8
<1>10. Here(j)
  BY <1>6, <1>7 DEF TransferSettles, AddPayeeSettles, DeletePayeeSettles, EnrollSettles,
                    ConfirmSettles, Screen, transferVars, payeeVars, mfaVars
<1> QED
  BY <1>9, <1>10 DEF Awaited

\* An answer changes only the screen it is about: a page awaits one call of a kind, and
\* what it shows for it is what the call was sent for or was changed by the user meanwhile.
THEOREM AnswersFitTheirScreen == Spec => AnswerFitsScreen
<1>1. IInv /\ [Next]_vars =>
        [\A i \in Sent : Open(i) /\ calls'[i].end # "open" /\ Screen' # Screen =>
           calls[i].visit = visit /\ (calls[i].stale \/ OnScreen(calls[i]))]_vars
  <2> SUFFICES ASSUME IInv, Next, NEW i \in Sent, Open(i), calls'[i].end # "open",
                      Screen' # Screen
               PROVE  calls[i].visit = visit /\ (calls[i].stale \/ OnScreen(calls[i]))
    OBVIOUS
  <2>1. Awaited(i)
    BY AnswerIsAwaited
  <2>2. calls[i].stale \/ Shows(i)
    BY <2>1 DEF IInv, ShownInv, FitsScreen
  <2>3. calls[i].kind \in Kinds
    BY CallFields DEF IInv, TypeOK
  <2> QED
    BY <2>1, <2>2, <2>3, ShowsIsOnScreen DEF Awaited, Here
<1> QED
  BY <1>1, Invariance, PTL DEF Spec, AnswerFitsScreen

===============================================================================
