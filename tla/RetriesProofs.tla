----------------------------- MODULE RetriesProofs -----------------------------
(***************************************************************************)
(* What holds of the two parts of the backend that may see one piece of    *)
(* work twice: the idempotency guard, for every number of calls, keys and  *)
(* payloads, with overlapping calls, faults and expiring records; and the  *)
(* batch job, for every number of transfers, backend processes, attempts   *)
(* and crashes.                                                            *)
(***************************************************************************)
EXTENDS Idempotency, TransferRows, TLAPS

CONSTANTS Large, MaxAttempts, MaxCrashes
VARIABLES due, attempts, reason, recorded, stage, batch, outcome

\* The batch job.  What is assumed of its constants is a hypothesis of its theorems.
Job == INSTANCE ScheduledTransfers WITH record <- recorded

-------------------------------------------------------------------------------
(* The guard *)

\* How far a call is determines what of it has committed.
Progress(c) ==
    /\ phase[c] = "done" <=> answer[c] # "none"
    /\ phase[c] \in {"lookup", "operate"} => c \notin effect
    /\ phase[c] = "audit" => c \in effect
    /\ phase[c] = "save" => c \in effect \cap audited

\* What an answer says about the record of the call's key.
Answered(c) ==
    /\ answer[c] = "ok" => record[KeyOf(c)] = c
    /\ answer[c] \in {"replay", "integrity"} => record[KeyOf(c)] # None
    /\ answer[c] = "replay" => SameHash(c, record[KeyOf(c)])
    /\ answer[c] \in {"replay", "conflict", "refused"} => c \notin effect
    /\ answer[c] \in {"ok", "integrity"} /\ c \in effect => c \in audited

\* A payee is never between its effect and its record.
PayeeAtomic(c) ==
    request[c].endpoint = "payee" =>
        /\ phase[c] \notin {"audit", "save"}
        /\ c \in effect <=> answer[c] = "ok"

\* A record belongs to a call of its key that has taken effect.
RecordOfEffect ==
    \A k \in Keys : record[k] # None =>
        record[k] \in effect \cap audited /\ KeyOf(record[k]) = k

CallsInv == \A c \in Calls : Progress(c) /\ Answered(c) /\ PayeeAtomic(c)

\* The inductive invariant.
IInv == TypeOK /\ CallsInv /\ RecordOfEffect

-------------------------------------------------------------------------------

\* The key of a call is one of the keys.
LEMMA KeyType ==
    ASSUME TypeOK, NEW c \in Calls
    PROVE  KeyOf(c) \in Keys /\ request[c] \in RequestType
BY IdempotencyConstants DEF TypeOK, KeyOf, RequestType

\* Before the first call there is no effect and no record.
LEMMA InitInv == Init => IInv
BY IdempotencyConstants
   DEF Init, IInv, TypeOK, CallsInv, Progress, Answered, PayeeAtomic, RecordOfEffect,
       Phases, Answers

\* A step of call c that saves no record keeps the invariant when it keeps what
\* the invariant says of c.
LEMMA OwnStep ==
    ASSUME IInv, NEW c \in Calls, TypeOK',
           UNCHANGED <<request, record>>,
           \A d \in Calls \ {c} : phase'[d] = phase[d] /\ answer'[d] = answer[d],
           \A d \in Calls \ {c} : /\ d \in effect' <=> d \in effect
                                  /\ d \in audited' <=> d \in audited,
           effect \subseteq effect', audited \subseteq audited',
           Progress(c)', Answered(c)', PayeeAtomic(c)'
    PROVE  IInv'
<1>1. ASSUME NEW d \in Calls \ {c} PROVE Progress(d)' /\ Answered(d)' /\ PayeeAtomic(d)'
  BY <1>1 DEF IInv, CallsInv, Progress, Answered, PayeeAtomic, KeyOf, SameHash
<1>2. RecordOfEffect'
  BY DEF IInv, RecordOfEffect, KeyOf
<1> QED
  BY <1>1, <1>2 DEF IInv, CallsInv

\* A step of call c that saves the record of its key, where there was none.
LEMMA RecordStep ==
    ASSUME IInv, NEW c \in Calls, TypeOK',
           UNCHANGED request,
           KeyFree(KeyOf(c)),
           record' = [record EXCEPT ![KeyOf(c)] = c],
           \A d \in Calls \ {c} : phase'[d] = phase[d] /\ answer'[d] = answer[d],
           \A d \in Calls \ {c} : /\ d \in effect' <=> d \in effect
                                  /\ d \in audited' <=> d \in audited,
           effect \subseteq effect', audited \subseteq audited',
           c \in effect' \cap audited',
           Progress(c)', Answered(c)', PayeeAtomic(c)'
    PROVE  IInv'
<1>0. KeyOf(c) \in Keys /\ c # None /\ record[KeyOf(c)] = None
  BY KeyType, IdempotencyConstants DEF IInv, KeyFree
<1>1. ASSUME NEW d \in Calls \ {c} PROVE Progress(d)' /\ Answered(d)' /\ PayeeAtomic(d)'
  <2>1. KeyOf(d) \in Keys /\ KeyOf(d)' = KeyOf(d) /\ d # None
    BY KeyType, IdempotencyConstants DEF IInv, KeyOf
  <2>2. Progress(d)' /\ PayeeAtomic(d)'
    BY <1>1 DEF IInv, CallsInv, Progress, PayeeAtomic
  \* No call of the saved key can have been answered from a record.
  <2>3. KeyOf(d) = KeyOf(c) => answer[d] \notin {"ok", "replay", "integrity"}
    BY <1>0, <2>1 DEF IInv, CallsInv, Answered
  <2>4. KeyOf(d) # KeyOf(c) => record'[KeyOf(d)] = record[KeyOf(d)]
    BY <1>0, <2>1 DEF IInv, TypeOK
  <2>5. Answered(d)
    BY DEF IInv, CallsInv
  <2>6. Answered(d)'
    BY <1>1, <2>1, <2>3, <2>4, <2>5 DEF Answered, SameHash
  <2> QED BY <2>2, <2>6
<1>2. RecordOfEffect'
  BY <1>0 DEF IInv, TypeOK, RecordOfEffect, KeyOf
<1> QED
  BY <1>1, <1>2 DEF IInv, CallsInv

-------------------------------------------------------------------------------
(* The steps *)

\* The lookup answers from a live record or goes on without any effect.
LEMMA LookupKeeps ==
    ASSUME IInv, NEW c \in Calls, Lookup(c)
    PROVE  IInv'
<1>0. KeyOf(c) \in Keys /\ KeyOf(c)' = KeyOf(c)
  BY KeyType DEF IInv, Lookup, KeyOf
<1>1. TypeOK'
  BY <1>0 DEF IInv, TypeOK, Lookup, Enter, Answer, Phases, Answers
<1>2. Progress(c)' /\ PayeeAtomic(c)'
  BY DEF IInv, TypeOK, CallsInv, Progress, PayeeAtomic, Lookup, Enter, Answer
<1>3. Answered(c)'
  BY <1>0 DEF IInv, TypeOK, CallsInv, Progress, Answered, SameHash, Lookup, Enter, Answer,
              Live
<1> QED
  BY <1>1, <1>2, <1>3, OwnStep DEF IInv, TypeOK, Lookup, Enter, Answer

\* A refused operation leaves nothing behind.
LEMMA RefuseKeeps ==
    ASSUME IInv, NEW c \in Calls, Refuse(c)
    PROVE  IInv'
<1>1. TypeOK'
  BY DEF IInv, TypeOK, Refuse, Answer, Phases, Answers
<1>2. Progress(c)' /\ PayeeAtomic(c)' /\ Answered(c)'
  BY DEF IInv, TypeOK, CallsInv, Progress, Answered, PayeeAtomic, Refuse, Answer
<1> QED
  BY <1>1, <1>2, OwnStep DEF IInv, TypeOK, Refuse, Answer

\* The transactions between the lookup and the record.
LEMMA OperationKeeps ==
    ASSUME IInv, NEW c \in Calls, Move(c) \/ Audit(c) \/ Serve(c)
    PROVE  IInv'
<1>1. TypeOK'
  BY DEF IInv, TypeOK, Move, Audit, Serve, Phases
<1>2. Progress(c)' /\ PayeeAtomic(c)'
  BY DEF IInv, TypeOK, CallsInv, Progress, PayeeAtomic, Move, Audit, Serve
<1>3. answer'[c] = "none"
  BY DEF IInv, TypeOK, CallsInv, Progress, Move, Audit, Serve
<1>4. Answered(c)'
  BY <1>3 DEF Answered
<1> QED
  BY <1>1, <1>2, <1>4, OwnStep DEF IInv, TypeOK, Move, Audit, Serve

\* The record's own transaction.
LEMMA SaveKeeps ==
    ASSUME IInv, NEW c \in Calls, Save(c)
    PROVE  IInv'
<1>0. KeyOf(c) \in Keys /\ KeyOf(c)' = KeyOf(c)
  BY KeyType DEF IInv, Save, KeyOf
<1>1. TypeOK'
  BY DEF IInv, TypeOK, Save, Answer, Phases, Answers
<1>2. Progress(c)' /\ PayeeAtomic(c)'
  BY DEF IInv, TypeOK, CallsInv, Progress, PayeeAtomic, Save, Answer
<1>3. c \in effect \cap audited
  BY DEF IInv, CallsInv, Progress, Save
<1>4. CASE KeyFree(KeyOf(c))
  <2>1. Answered(c)'
    BY <1>0, <1>3, <1>4 DEF IInv, TypeOK, Answered, Save, Answer
  <2> QED
    BY <1>1, <1>2, <1>3, <1>4, <2>1, RecordStep DEF IInv, TypeOK, Save, Answer
<1>5. CASE ~KeyFree(KeyOf(c))
  <2>1. Answered(c)'
    BY <1>0, <1>3, <1>5 DEF IInv, TypeOK, Answered, Save, Answer, KeyFree
  <2> QED
    BY <1>1, <1>2, <1>5, <2>1, OwnStep DEF IInv, TypeOK, Save, Answer
<1> QED BY <1>4, <1>5

\* Payee, audit event and record in one transaction.
LEMMA AddPayeeKeeps ==
    ASSUME IInv, NEW c \in Calls, AddPayee(c)
    PROVE  IInv'
<1>0. KeyOf(c) \in Keys /\ KeyOf(c)' = KeyOf(c)
  BY KeyType DEF IInv, AddPayee, KeyOf
<1>1. TypeOK'
  BY <1>0 DEF IInv, TypeOK, AddPayee, Answer, Phases, Answers
<1>2. CASE KeyFree(KeyOf(c))
  <2>1. Progress(c)' /\ PayeeAtomic(c)' /\ Answered(c)'
    BY <1>0, <1>2 DEF IInv, TypeOK, CallsInv, Progress, Answered, PayeeAtomic, AddPayee,
                      Answer
  <2> QED
    BY <1>1, <1>2, <2>1, RecordStep DEF IInv, TypeOK, AddPayee, Answer
<1>3. CASE ~KeyFree(KeyOf(c))
  <2>1. Progress(c)' /\ PayeeAtomic(c)' /\ Answered(c)'
    BY <1>0, <1>3 DEF IInv, TypeOK, CallsInv, Progress, Answered, PayeeAtomic, AddPayee,
                      Answer,
                      KeyFree
  <2> QED
    BY <1>1, <1>3, <2>1, OwnStep DEF IInv, TypeOK, AddPayee, Answer
<1> QED BY <1>2, <1>3

\* A call that is cut off leaves what it has committed.
LEMMA CutOffKeeps ==
    ASSUME IInv, NEW c \in Calls, CutOff(c)
    PROVE  IInv'
<1>1. TypeOK'
  BY DEF IInv, TypeOK, CutOff, InProgress, Answer, Phases, Answers
<1>2. Progress(c)' /\ PayeeAtomic(c)' /\ Answered(c)'
  BY DEF IInv, TypeOK, CallsInv, Progress, Answered, PayeeAtomic, CutOff, InProgress, Answer
<1> QED
  BY <1>1, <1>2, OwnStep DEF IInv, TypeOK, CutOff, InProgress, Answer

\* Every step keeps the invariant.
LEMMA StepInv == IInv /\ [Next]_vars => IInv'
<1> SUFFICES ASSUME IInv, [Next]_vars PROVE IInv'
  OBVIOUS
<1>1. ASSUME NEW c \in Calls, Execute(c) PROVE IInv'
  BY <1>1, LookupKeeps, RefuseKeeps, OperationKeeps, SaveKeeps, AddPayeeKeeps DEF Execute
<1>2. ASSUME NEW c \in Calls, CutOff(c) PROVE IInv'
  BY <1>2, CutOffKeeps
<1>3. ASSUME NEW k \in Keys, Expire(k) PROVE IInv'
  BY <1>3 DEF Expire, IInv, TypeOK, CallsInv, Progress, Answered, PayeeAtomic,
              RecordOfEffect,
              KeyOf, SameHash
<1>4. CASE UNCHANGED vars
  BY <1>4 DEF vars, IInv, TypeOK, CallsInv, Progress, Answered, PayeeAtomic, RecordOfEffect,
              KeyOf, SameHash
<1> QED
  BY <1>1, <1>2, <1>3, <1>4 DEF Next

-------------------------------------------------------------------------------
(* Calls that are never disturbed *)

\* While no calls of its key overlap and its record has not expired, a call in
\* progress is the only one, and there is no record yet.
Undisturbed(c) ==
    KeyOf(c) \notin overlaps \cup expired =>
        /\ answer[c] # "integrity"
        /\ InProgress(c) =>
              /\ record[KeyOf(c)] = None
              /\ \A d \in CallsOf(KeyOf(c)) : InProgress(d) => d = c

AloneInv == \A c \in Calls : Undisturbed(c)

\* A call that is let through is alone, or its key is noted as overlapping.
LEMMA LookupAlone ==
    ASSUME IInv, AloneInv, NEW c \in Calls, Lookup(c)
    PROVE  AloneInv'
<1>0. KeyOf(c) \in Keys /\ \A d \in Calls : KeyOf(d)' = KeyOf(d)
  BY KeyType DEF IInv, Lookup, KeyOf
<1>1. CASE Live(KeyOf(c))
  BY <1>0, <1>1 DEF Lookup, Answer, IInv, TypeOK, AloneInv, Undisturbed, InProgress, CallsOf
<1>2. CASE ~Live(KeyOf(c))
  <2>1. /\ Enter(c)
        /\ UNCHANGED <<request, effect, audited, record, expired, answer>>
    BY <1>2 DEF Lookup, Enter
  <2>2. \A d \in Calls \ {c} : InProgress(d)' <=> InProgress(d)
    BY <2>1 DEF Enter, InProgress, IInv, TypeOK
  <2>3. ASSUME NEW d \in Calls, KeyOf(d) # KeyOf(c) PROVE Undisturbed(d)'
    BY <1>0, <2>1, <2>2, <2>3 DEF AloneInv, Undisturbed, Enter, CallsOf
  <2>4. ASSUME NEW d \in Calls, KeyOf(d) = KeyOf(c),
               KeyOf(c) \notin overlaps' \cup expired'
        PROVE  Undisturbed(d)'
    <3>1. \A e \in Calls : KeyOf(e) = KeyOf(c) => ~InProgress(e)
      BY <2>1, <2>4 DEF Enter, CallsOf
    <3>2. record[KeyOf(c)] = None
      BY <1>2, <2>1, <2>4 DEF Live
    <3>3. answer'[d] # "integrity"
      BY <2>1, <2>4 DEF AloneInv, Undisturbed, Enter
    <3>4. \A e \in Calls : KeyOf(e) = KeyOf(c) /\ InProgress(e)' => e = c
      BY <2>2, <3>1
    <3> QED
      BY <1>0, <2>1, <2>4, <3>2, <3>3, <3>4 DEF Undisturbed, CallsOf
  <2> QED
    BY <1>0, <2>3, <2>4 DEF AloneInv, Undisturbed
<1> QED BY <1>1, <1>2

\* A step of a call in progress, or its end.
LEMMA ProgressAlone ==
    ASSUME IInv, AloneInv, NEW c \in Calls, InProgress(c),
           UNCHANGED <<request, overlaps, expired>>,
           \A d \in Calls \ {c} : phase'[d] = phase[d] /\ answer'[d] = answer[d],
           \A k \in Keys \ {KeyOf(c)} : record'[k] = record[k],
           answer'[c] = "integrity" => ~KeyFree(KeyOf(c)),
           InProgress(c)' => UNCHANGED record
    PROVE  AloneInv'
<1>0. \A d \in Calls : KeyOf(d)' = KeyOf(d) /\ KeyOf(d) \in Keys
  BY KeyType DEF IInv, KeyOf
<1>1. ASSUME NEW d \in Calls, KeyOf(d) # KeyOf(c) PROVE Undisturbed(d)'
  <2>1. \A e \in Calls : KeyOf(e) = KeyOf(d) => (InProgress(e)' <=> InProgress(e))
    BY <1>1 DEF InProgress
  <2> QED
    BY <1>0, <1>1, <2>1 DEF AloneInv, Undisturbed, CallsOf
<1>2. ASSUME NEW d \in Calls, KeyOf(d) = KeyOf(c),
             KeyOf(c) \notin overlaps \cup expired
      PROVE  Undisturbed(d)'
  <2>1. record[KeyOf(c)] = None
    BY <1>2 DEF AloneInv, Undisturbed
  <2>2. \A e \in Calls : KeyOf(e) = KeyOf(c) /\ InProgress(e) => e = c
    BY <1>2 DEF AloneInv, Undisturbed, CallsOf
  <2>3. \A e \in Calls : KeyOf(e) = KeyOf(c) /\ InProgress(e)' => e = c
    BY <2>2 DEF InProgress
  <2>4. answer'[d] # "integrity"
    BY <1>2, <2>1 DEF AloneInv, Undisturbed, KeyFree
  <2>5. InProgress(d)' => record'[KeyOf(c)] = None
    BY <1>2, <2>1, <2>3
  <2> QED
    BY <1>0, <1>2, <2>3, <2>4, <2>5 DEF Undisturbed, CallsOf
<1> QED
  BY <1>0, <1>1, <1>2 DEF AloneInv, Undisturbed

\* Every step keeps undisturbed calls alone.
LEMMA StepAlone == IInv /\ AloneInv /\ [Next]_vars => AloneInv'
<1> SUFFICES ASSUME IInv, AloneInv, [Next]_vars PROVE AloneInv'
  OBVIOUS
<1>1. ASSUME NEW c \in Calls, Lookup(c) PROVE AloneInv'
  BY <1>1, LookupAlone
<1>2. ASSUME NEW c \in Calls, Refuse(c) \/ CutOff(c) PROVE AloneInv'
  BY <1>2, ProgressAlone DEF Refuse, CutOff, Answer, InProgress, IInv, TypeOK
<1>3. ASSUME NEW c \in Calls, Move(c) \/ Audit(c) \/ Serve(c) PROVE AloneInv'
  <2>1. answer[c] = "none"
    BY <1>3 DEF Move, Audit, Serve, IInv, CallsInv, Progress
  <2> QED
    BY <1>3, <2>1, ProgressAlone DEF Move, Audit, Serve, InProgress, IInv, TypeOK
<1>4. ASSUME NEW c \in Calls, Save(c) PROVE AloneInv'
  BY <1>4, KeyType, ProgressAlone DEF Save, Answer, InProgress, IInv, TypeOK
<1>5. ASSUME NEW c \in Calls, AddPayee(c) PROVE AloneInv'
  BY <1>5, KeyType, ProgressAlone DEF AddPayee, Answer, InProgress, IInv, TypeOK
<1>6. ASSUME NEW k \in Keys, Expire(k) PROVE AloneInv'
  BY <1>6 DEF Expire, AloneInv, Undisturbed, InProgress, CallsOf, KeyOf
<1>7. CASE UNCHANGED vars
  BY <1>7 DEF vars, AloneInv, Undisturbed, InProgress, CallsOf, KeyOf
<1> QED
  BY <1>1, <1>2, <1>3, <1>4, <1>5, <1>6, <1>7 DEF Next, Execute

-------------------------------------------------------------------------------
(* The properties *)

\* The inductive invariant: how far a call is says what of it has committed, and
\* a record belongs to an operation that has.
THEOREM GuardInvariant == Spec => []IInv
BY InitInv, StepInv, PTL DEF Spec

\* Two calls of one key are never both told that they have carried it out.
THEOREM SuccessIsUnique == Spec => []OneSuccessPerKey
<1>1. IInv => OneSuccessPerKey
  BY DEF IInv, CallsInv, Answered, OneSuccessPerKey
<1> QED BY <1>1, GuardInvariant, PTL

\* A replayed response is the response of an operation that has committed, with
\* its audit event, for the same key and payload.
THEOREM AnswersAreTrue == Spec => []AnswerMeansDone
<1>1. ASSUME IInv PROVE AnswerMeansDone
  <2>1. ASSUME NEW c \in Calls, answer[c] \in {"ok", "replay"}
        PROVE  \E d \in effect \cap audited :
                  KeyOf(d) = KeyOf(c) /\ request[d].hash = request[c].hash
    <3>1. KeyOf(c) \in Keys /\ record[KeyOf(c)] # None
      BY <1>1, <2>1, KeyType, IdempotencyConstants DEF IInv, CallsInv, Answered
    <3>2. record[KeyOf(c)] \in effect \cap audited /\ KeyOf(record[KeyOf(c)]) = KeyOf(c)
      BY <1>1, <3>1 DEF IInv, RecordOfEffect
    <3>3. request[record[KeyOf(c)]].hash = request[c].hash
      BY <1>1, <2>1 DEF IInv, CallsInv, Answered, SameHash
    <3> QED BY <3>2, <3>3
  <2> QED BY <2>1 DEF AnswerMeansDone
<1> QED BY <1>1, GuardInvariant, PTL

\* Only a call that is cut off between its effect and its record can leave an
\* effect that a later call of the key will not find.
THEOREM EffectsAreRecorded == Spec => []EffectIsRecorded
<1>1. ASSUME IInv, NEW c \in effect
      PROVE  \/ phase[c] \in {"audit", "save"}
             \/ record[KeyOf(c)] # None /\ c \in audited
             \/ answer[c] = "lost"
  <2>1. c \in Calls /\ phase[c] \in Phases /\ answer[c] \in Answers /\ c # None
    BY <1>1, IdempotencyConstants DEF IInv, TypeOK
  <2> QED
    BY <1>1, <2>1 DEF IInv, CallsInv, Progress, Answered, Phases, Answers
<1>2. IInv => EffectIsRecorded
  BY <1>1 DEF EffectIsRecorded
<1> QED BY <1>2, GuardInvariant, PTL

\* A second effect needs overlapping calls, an expired record or a lost call:
\* otherwise the first effect's record answers every later call.
THEOREM SecondEffectsNeedFaults == Spec => []SecondEffectNeedsFault
<1>1. Init => AloneInv
  BY DEF Init, AloneInv, Undisturbed, InProgress
<1>2. ASSUME IInv, AloneInv, NEW c \in effect, NEW d \in effect,
             KeyOf(c) = KeyOf(d), c # d,
             KeyOf(c) \notin overlaps \cup expired,
             \A e \in CallsOf(KeyOf(c)) : answer[e] # "lost"
      PROVE  FALSE
  <2>1. \A e \in {c, d} : /\ e \in Calls /\ e # None
                          /\ KeyOf(e) = KeyOf(c)
                          /\ phase[e] \in Phases /\ answer[e] \in Answers
                          /\ answer[e] \notin {"lost", "integrity"}
    BY <1>2, IdempotencyConstants DEF IInv, TypeOK, AloneInv, Undisturbed, CallsOf
  <2>2. \A e \in {c, d} : InProgress(e) \/ record[KeyOf(c)] = e
    BY <1>2, <2>1 DEF IInv, CallsInv, Progress, Answered, InProgress, Phases, Answers
  <2>3. \A e \in {c, d} : InProgress(e) => record[KeyOf(c)] = None
    BY <1>2, <2>1 DEF AloneInv, Undisturbed
  <2>4. ~(InProgress(c) /\ InProgress(d))
    BY <1>2, <2>1 DEF AloneInv, Undisturbed, CallsOf
  <2> QED
    BY <1>2, <2>1, <2>2, <2>3, <2>4
<1>3. IInv /\ AloneInv => SecondEffectNeedsFault
  BY <1>2 DEF SecondEffectNeedsFault
<1> QED BY <1>1, <1>3, StepAlone, GuardInvariant, PTL DEF Spec

\* addPayee is exactly-once for each key.
THEOREM PayeeExactlyOnce == Spec => []PayeeAddedOnce
<1>1. IInv => PayeeAddedOnce
  <2> SUFFICES ASSUME IInv, NEW c \in Calls, request[c].endpoint = "payee"
               PROVE  /\ c \in effect <=> answer[c] = "ok"
                      /\ \A d \in effect :
                            request[d].endpoint = "payee" /\ KeyOf(d) = KeyOf(c) /\ c \in effect
                                => c = d
    BY DEF PayeeAddedOnce
  <2>1. c \in effect <=> answer[c] = "ok"
    BY DEF IInv, CallsInv, PayeeAtomic
  <2>2. ASSUME NEW d \in effect, request[d].endpoint = "payee", KeyOf(d) = KeyOf(c), c \in effect
        PROVE  c = d
    <3>1. d \in Calls
      BY DEF IInv, TypeOK
    <3>2. answer[d] = "ok" /\ answer[c] = "ok"
      BY <2>1, <2>2, <3>1 DEF IInv, CallsInv, PayeeAtomic
    <3> QED
      BY <2>2, <3>1, <3>2 DEF IInv, CallsInv, Answered
  <2> QED BY <2>1, <2>2
<1> QED BY <1>1, GuardInvariant, PTL

-------------------------------------------------------------------------------
(* The batch job: the inductive invariant *)

\* A runner at work holds the locks of exactly its batch, whose rows are PENDING,
\* and has settled nothing outside of it.
Holds(w) ==
    /\ \A t \in Transfers : lock[t] = w <=> stage[w] = "working" /\ t \in batch[w]
    /\ stage[w] = "working" => \A t \in batch[w] : status[t] = "PENDING"
    /\ \A t \in Transfers : outcome[w][t] # "open" => lock[t] = w

\* The money of t has moved in a batch that is still open.
InFlight(t) == lock[t] # None /\ outcome[lock[t]][t] = "executed"

\* The postings of a transfer: none before it is settled, unless it is in flight
\* or was lost to a crash.
Postings(t) ==
    /\ status[t] # "EXECUTED" /\ ~InFlight(t) => moved[t] <= crashes
    /\ moved[t] <= 1 + crashes
    /\ status[t] = "EXECUTED" \/ InFlight(t) => moved[t] >= 1

\* A record commits with the status: the job never has a response to replay.
Recorded == \A t \in Transfers : t \in recorded <=> status[t] = "EXECUTED"

\* A transfer that may be tried again has an attempt left.
Attempts == \A t \in Transfers : status[t] \in {"NONE", "PENDING"} => attempts[t] < MaxAttempts

\* The inductive invariant.
JobInv ==
    /\ Job!TypeOK
    /\ \A w \in Runners : Holds(w)
    /\ \A t \in Transfers : Postings(t)
    /\ Recorded
    /\ Attempts

-------------------------------------------------------------------------------

\* Nothing is scheduled, moved or locked at the start.
LEMMA JobInit ==
    ASSUME Job!ScheduledTransfersConstants
    PROVE  Job!Init => JobInv
BY DEF Job!Init, JobInv, Job!TypeOK, Holds, Postings, InFlight, Recorded, Attempts,
       Job!AllOpen, Job!Statuses,
       Job!Reasons, Job!Outcomes

\* Scheduling a transfer, or its coming due.
LEMMA ScheduleKeeps ==
    ASSUME Job!ScheduledTransfersConstants,
           JobInv, NEW t \in Transfers, Job!Schedule(t) \/ Job!ComesDue(t)
    PROVE  JobInv'
<1>1. Job!TypeOK'
  BY DEF JobInv, Job!TypeOK, Job!Schedule, Job!ComesDue, Job!Statuses
<1>2. ASSUME NEW w \in Runners PROVE Holds(w)'
  BY DEF JobInv, Job!TypeOK, Holds, Job!Schedule, Job!ComesDue
<1>3. ASSUME NEW u \in Transfers PROVE Postings(u)'
  BY DEF JobInv, Job!TypeOK, Postings, InFlight, Job!Schedule, Job!ComesDue
<1>4. Recorded' /\ Attempts'
  BY DEF JobInv, Job!TypeOK, Recorded, Attempts, Job!Schedule, Job!ComesDue
<1> QED
  BY <1>1, <1>2, <1>3, <1>4 DEF JobInv

\* The query finds its rows.
LEMMA SelectKeeps ==
    ASSUME Job!ScheduledTransfersConstants,
           JobInv, NEW w \in Runners, Job!Select(w)
    PROVE  JobInv'
<1>1. Job!TypeOK'
  BY DEF JobInv, Job!TypeOK, Job!Select, Job!rowVars
<1>2. ASSUME NEW v \in Runners PROVE Holds(v)'
  BY DEF JobInv, Job!TypeOK, Holds, Job!Select, Job!rowVars
<1>3. ASSUME NEW u \in Transfers PROVE Postings(u)'
  BY DEF JobInv, Job!TypeOK, Postings, InFlight, Job!Select, Job!rowVars
<1>4. Recorded' /\ Attempts'
  BY DEF JobInv, Job!TypeOK, Recorded, Attempts, Job!Select, Job!rowVars
<1> QED
  BY <1>1, <1>2, <1>3, <1>4 DEF JobInv

\* The rows are locked once nobody else holds them and if they still fit.
LEMMA LockRowsKeeps ==
    ASSUME Job!ScheduledTransfersConstants,
           JobInv, NEW w \in Runners, Job!LockRows(w)
    PROVE  JobInv'
<1> DEFINE rows == {t \in batch[w] : Job!Fits(w, t)}
<1>0. /\ rows \in SUBSET Transfers
      /\ \A t \in rows : lock[t] = None /\ status[t] = "PENDING"
      /\ stage[w] = "locking"
  BY DEF JobInv, Job!TypeOK, Job!LockRows, Job!Fits, Job!IsPending
<1>1. /\ lock' = [t \in Transfers |-> IF t \in rows THEN w ELSE lock[t]]
      /\ batch' = [batch EXCEPT ![w] = rows]
      /\ stage' = [stage EXCEPT ![w] = "working"]
      /\ UNCHANGED <<Job!rowVars, moved, outcome, crashes>>
  BY DEF Job!LockRows
<1> HIDE DEF rows
<1>2. Job!TypeOK'
  BY <1>0, <1>1 DEF JobInv, Job!TypeOK, Job!rowVars
<1>3. \A t \in Transfers : lock[t] # w
  BY <1>0 DEF JobInv, Holds
<1>4. ASSUME NEW v \in Runners PROVE Holds(v)'
  <2>1. CASE v = w
    BY <1>0, <1>1, <1>3, <2>1 DEF JobInv, Job!TypeOK, Holds, Job!rowVars
  <2>2. CASE v # w
    BY <1>0, <1>1, <2>2 DEF JobInv, Job!TypeOK, Holds, Job!rowVars
  <2> QED BY <2>1, <2>2
<1>5. ASSUME NEW u \in Transfers PROVE Postings(u)'
  <2>1. outcome[w][u] = "open"
    BY <1>3 DEF JobInv, Holds
  <2>2. InFlight(u)' <=> InFlight(u)
    BY <1>0, <1>1, <2>1 DEF JobInv, Job!TypeOK, InFlight
  <2> QED
    BY <1>1, <2>2 DEF JobInv, Postings, Job!rowVars
<1>6. Recorded' /\ Attempts'
  BY <1>1 DEF JobInv, Recorded, Attempts, Job!rowVars
<1> QED
  BY <1>2, <1>4, <1>5, <1>6 DEF JobInv

\* Settling one transfer of the batch leaves every lock and row as it is.
LEMMA SettleKeeps ==
    ASSUME Job!ScheduledTransfersConstants,
           JobInv, NEW w \in Runners, NEW t \in Transfers, Job!Working(w, t),
           NEW what \in Job!Outcomes \ {"open"}, Job!Settle(w, t, what)
    PROVE  /\ \A v \in Runners : Holds(v)'
           /\ Recorded' /\ Attempts'
           /\ lock[t] = w /\ status[t] = "PENDING" /\ ~InFlight(t) /\ t \notin recorded
           /\ InFlight(t)' <=> what = "executed"
           /\ \A u \in Transfers \ {t} : InFlight(u)' <=> InFlight(u)
<1>1. lock[t] = w /\ status[t] = "PENDING" /\ t \notin recorded
  BY DEF JobInv, Holds, Job!Working, Recorded
<1>2. ~InFlight(t)
  BY <1>1 DEF InFlight, Job!Working
<1>3. ASSUME NEW v \in Runners PROVE Holds(v)'
  BY <1>1 DEF JobInv, Job!TypeOK, Holds, Job!Settle, Job!rowVars
<1>4. Recorded' /\ Attempts'
  BY DEF JobInv, Recorded, Attempts, Job!Settle, Job!rowVars
<1>5. InFlight(t)' <=> what = "executed"
  BY <1>1 DEF JobInv, Job!TypeOK, InFlight, Job!Settle
<1>6. ASSUME NEW u \in Transfers \ {t} PROVE InFlight(u)' <=> InFlight(u)
  BY <1>6 DEF JobInv, Job!TypeOK, InFlight, Job!Settle
<1> QED
  BY <1>1, <1>2, <1>3, <1>4, <1>5, <1>6

\* The money moves: t is now in flight, and was not before.
LEMMA ExecuteKeeps ==
    ASSUME Job!ScheduledTransfersConstants,
           JobInv, NEW w \in Runners, NEW t \in Transfers, Job!Execute(w, t)
    PROVE  JobInv'
<1>1. Job!Working(w, t) /\ Job!Settle(w, t, "executed") /\ "executed" \in Job!Outcomes \ {"open"}
  BY DEF Job!Execute, Job!Outcomes
<1>2. /\ \A v \in Runners : Holds(v)'
      /\ Recorded' /\ Attempts'
      /\ status[t] = "PENDING" /\ ~InFlight(t) /\ t \notin recorded
      /\ InFlight(t)'
      /\ \A u \in Transfers \ {t} : InFlight(u)' <=> InFlight(u)
  BY <1>1, SettleKeeps
<1>3. moved' = [moved EXCEPT ![t] = @ + 1]
  BY <1>2 DEF Job!Execute
<1>4. Job!TypeOK'
  BY <1>1, <1>3 DEF JobInv, Job!TypeOK, Job!Settle, Job!rowVars
<1>5. Postings(t)'
  BY <1>1, <1>2, <1>3 DEF JobInv, Job!TypeOK, Postings, Job!Settle, Job!rowVars
<1>6. ASSUME NEW u \in Transfers \ {t} PROVE Postings(u)'
  BY <1>1, <1>2, <1>3, <1>6 DEF JobInv, Job!TypeOK, Postings, Job!Settle, Job!rowVars
<1> QED
  BY <1>2, <1>4, <1>5, <1>6 DEF JobInv

\* The ledger refuses.
LEMMA FailKeeps ==
    ASSUME Job!ScheduledTransfersConstants,
           JobInv, NEW w \in Runners, NEW t \in Transfers, Job!Fail(w, t)
    PROVE  JobInv'
<1>1. PICK what \in {"StepUpRequired", "Refused"} : Job!Settle(w, t, what)
  BY DEF Job!Fail
<1>2. Job!Working(w, t) /\ what \in Job!Outcomes \ {"open"} /\ what # "executed" /\ moved' = moved
  BY DEF Job!Fail, Job!Outcomes
<1>3. /\ \A v \in Runners : Holds(v)'
      /\ Recorded' /\ Attempts'
      /\ \A u \in Transfers : InFlight(u)' <=> InFlight(u)
  BY <1>1, <1>2, SettleKeeps
<1>4. Job!TypeOK'
  BY <1>1, <1>2 DEF JobInv, Job!TypeOK, Job!Settle, Job!rowVars
<1>5. ASSUME NEW u \in Transfers PROVE Postings(u)'
  BY <1>1, <1>2, <1>3 DEF JobInv, Job!TypeOK, Postings, Job!Settle, Job!rowVars
<1> QED
  BY <1>3, <1>4, <1>5 DEF JobInv

\* A runner that ends its transaction gives up its locks and nobody else's.
LEMMA EndKeepsHolds ==
    ASSUME Job!ScheduledTransfersConstants,
           JobInv, NEW w \in Runners,
           lock' = [t \in Transfers |-> IF lock[t] = w THEN None ELSE lock[t]],
           stage' = [stage EXCEPT ![w] = "idle"],
           batch' = [batch EXCEPT ![w] = {}],
           outcome' = [outcome EXCEPT ![w] = Job!AllOpen],
           \A t \in Transfers : lock[t] # w => status'[t] = status[t]
    PROVE  /\ \A v \in Runners : Holds(v)'
           /\ \A t \in Transfers : InFlight(t)' <=> InFlight(t) /\ lock[t] # w
<1>1. ASSUME NEW v \in Runners PROVE Holds(v)'
  <2>1. CASE v = w
    BY <2>1 DEF JobInv, Job!TypeOK, Holds, Job!AllOpen
  <2>2. CASE v # w
    BY <2>2 DEF JobInv, Job!TypeOK, Holds
  <2> QED BY <2>1, <2>2
<1>2. ASSUME NEW t \in Transfers PROVE InFlight(t)' <=> InFlight(t) /\ lock[t] # w
  BY DEF JobInv, Job!TypeOK, InFlight
<1> QED
  BY <1>1, <1>2

\* The batch commits: what was in flight is EXECUTED and recorded.
LEMMA CommitKeeps ==
    ASSUME Job!ScheduledTransfersConstants,
           JobInv, NEW w \in Runners, Job!Commit(w)
    PROVE  JobInv'
<1>1. \A t \in Transfers : t \in batch[w] <=> lock[t] = w
  BY DEF JobInv, Holds, Job!Commit
<1>2. \A t \in batch[w] : /\ t \in Transfers
                          /\ status[t] = "PENDING"
                          /\ outcome[w][t] \in Job!Outcomes \ {"open"}
                          /\ attempts[t] < MaxAttempts
                          /\ t \notin recorded
  BY DEF JobInv, Job!TypeOK, Holds, Recorded, Attempts, Job!Commit
<1>3. ASSUME NEW t \in Transfers
      PROVE  /\ status'[t] = Job!StatusAfter(w, t)
             /\ attempts'[t] = Job!AttemptsAfter(w, t)
             /\ t \in recorded' <=> t \in recorded \/ (t \in batch[w] /\ outcome[w][t] = "executed")
             /\ moved'[t] = moved[t] /\ crashes' = crashes
  BY DEF Job!Commit, JobInv, Job!TypeOK
<1>4. ASSUME NEW t \in Transfers
      PROVE  Job!AttemptsAfter(w, t) \in 0..MaxAttempts /\ Job!StatusAfter(w, t) \in Job!Statuses
  BY <1>2 DEF Job!AttemptsAfter, Job!StatusAfter, JobInv, Job!TypeOK, Job!Statuses
<1>5. Job!TypeOK'
  <2>1. status' \in [Transfers -> Job!Statuses] /\ attempts' \in [Transfers -> 0..MaxAttempts]
    BY <1>4 DEF Job!Commit
  <2>2. reason' \in [Transfers -> Job!Reasons]
    BY <1>2 DEF Job!Commit, JobInv, Job!TypeOK, Job!Reasons, Job!Outcomes
  <2>3. /\ recorded' \subseteq Transfers
        /\ lock' \in [Transfers -> Runners \cup {None}]
        /\ stage' \in [Runners -> {"idle", "locking", "working"}]
        /\ batch' \in [Runners -> SUBSET Transfers]
        /\ outcome' \in [Runners -> [Transfers -> Job!Outcomes]]
    BY <1>2 DEF Job!Commit, JobInv, Job!TypeOK, Job!AllOpen, Job!Outcomes
  <2> QED
    BY <2>1, <2>2, <2>3 DEF Job!Commit, JobInv, Job!TypeOK
<1>6. \A t \in Transfers : lock[t] # w => status'[t] = status[t]
  BY <1>1, <1>3 DEF Job!StatusAfter
<1>7. /\ \A v \in Runners : Holds(v)'
      /\ \A t \in Transfers : InFlight(t)' <=> InFlight(t) /\ lock[t] # w
  BY <1>6, EndKeepsHolds DEF Job!Commit
<1>8. ASSUME NEW t \in Transfers PROVE Postings(t)'
  <2>1. CASE t \notin batch[w]
    BY <1>1, <1>3, <1>7, <2>1 DEF JobInv, Postings, Job!StatusAfter
  <2>2. CASE t \in batch[w] /\ outcome[w][t] = "executed"
    <3>1. InFlight(t)
      BY <1>1, <2>2 DEF InFlight
    <3>2. status'[t] = "EXECUTED"
      BY <1>3, <2>2 DEF Job!StatusAfter
    <3> QED
      BY <1>3, <3>1, <3>2 DEF JobInv, Postings
  <2>3. CASE t \in batch[w] /\ outcome[w][t] # "executed"
    <3>1. ~InFlight(t) /\ status[t] = "PENDING"
      BY <1>1, <1>2, <2>3 DEF InFlight
    <3>2. status'[t] # "EXECUTED" /\ ~InFlight(t)'
      BY <1>3, <1>7, <2>3, <3>1 DEF Job!StatusAfter
    <3> QED
      BY <1>3, <3>1, <3>2 DEF JobInv, Postings
  <2> QED BY <2>1, <2>2, <2>3
<1>9. Recorded'
  BY <1>2, <1>3 DEF JobInv, Recorded, Job!StatusAfter
<1>10. Attempts'
  <2>1. ASSUME NEW t \in Transfers, Job!StatusAfter(w, t) \in {"NONE", "PENDING"}
        PROVE  Job!AttemptsAfter(w, t) < MaxAttempts
    <3>1. CASE t \in batch[w]
      BY <1>4, <2>1, <3>1 DEF Job!StatusAfter
    <3>2. CASE t \notin batch[w]
      BY <2>1, <3>2 DEF Job!StatusAfter, Job!AttemptsAfter, JobInv, Attempts
    <3> QED BY <3>1, <3>2
  <2> QED BY <1>3, <2>1 DEF Attempts
<1> QED
  BY <1>5, <1>7, <1>8, <1>9, <1>10 DEF JobInv

\* The batch is rolled back: what was in flight is charged to the crash.
LEMMA CrashKeeps ==
    ASSUME Job!ScheduledTransfersConstants,
           JobInv, NEW w \in Runners, Job!Crash(w)
    PROVE  JobInv'
<1>1. Job!TypeOK'
  BY DEF JobInv, Job!TypeOK, Job!Crash, Job!rowVars, Job!AllOpen, Job!Outcomes
<1>2. /\ \A v \in Runners : Holds(v)'
      /\ \A t \in Transfers : InFlight(t)' <=> InFlight(t) /\ lock[t] # w
  BY EndKeepsHolds DEF Job!Crash, Job!rowVars
<1>3. ASSUME NEW t \in Transfers PROVE Postings(t)'
  BY <1>2 DEF JobInv, Job!TypeOK, Postings, Job!Crash, Job!rowVars
<1>4. Recorded' /\ Attempts'
  BY DEF JobInv, Recorded, Attempts, Job!Crash, Job!rowVars
<1> QED
  BY <1>1, <1>2, <1>3, <1>4 DEF JobInv

\* Every step keeps the invariant.
LEMMA JobStep ==
    ASSUME Job!ScheduledTransfersConstants
    PROVE  JobInv /\ [Job!Next]_Job!vars => JobInv'
<1> SUFFICES ASSUME JobInv, [Job!Next]_Job!vars PROVE JobInv'
  OBVIOUS
<1>1. ASSUME NEW t \in Transfers, Job!Schedule(t) \/ Job!ComesDue(t) PROVE JobInv'
  BY <1>1, ScheduleKeeps
<1>2. ASSUME NEW w \in Runners, Job!Run(w) PROVE JobInv'
  BY <1>2, SelectKeeps, LockRowsKeeps, ExecuteKeeps, FailKeeps, CommitKeeps DEF Job!Run
<1>3. ASSUME NEW w \in Runners, Job!Crash(w) PROVE JobInv'
  BY <1>3, CrashKeeps
<1>4. CASE UNCHANGED Job!vars
  BY <1>4 DEF Job!vars, JobInv, Job!TypeOK, Holds, Postings, InFlight, Recorded, Attempts
<1> QED
  BY <1>1, <1>2, <1>3, <1>4 DEF Job!Next

-------------------------------------------------------------------------------
(* The properties *)

\* The inductive invariant: locks, open batches and postings belong together.
THEOREM RunnerInvariant ==
    ASSUME Job!ScheduledTransfersConstants
    PROVE  Job!Spec => []JobInv
BY JobInit, JobStep, PTL DEF Job!Spec

\* However many backend processes run the job, a transfer is posted at most once,
\* and once more for each crash.
THEOREM PostingsAreBounded ==
    ASSUME Job!ScheduledTransfersConstants
    PROVE  Job!Spec => []ExtraPostingsNeedCrashes
<1>1. JobInv => ExtraPostingsNeedCrashes
  BY DEF JobInv, Postings, ExtraPostingsNeedCrashes
<1> QED BY <1>1, RunnerInvariant, PTL

\* The status column agrees with the ledger.
THEOREM StatusIsTrue ==
    ASSUME Job!ScheduledTransfersConstants
    PROVE  Job!Spec => []StatusTellsTheTruth
<1>1. JobInv => StatusTellsTheTruth
  <2> SUFFICES ASSUME JobInv, NEW t \in Transfers
               PROVE  /\ status[t] = "EXECUTED" => moved[t] >= 1
                      /\ status[t] # "EXECUTED" /\ crashes = 0 /\ lock[t] \notin Runners => moved[t] = 0
    BY DEF StatusTellsTheTruth
  <2>1. moved[t] \in Nat /\ lock[t] \in Runners \cup {None}
    BY DEF JobInv, Job!TypeOK
  <2> QED
    BY <2>1 DEF JobInv, Postings, InFlight
<1> QED BY <1>1, RunnerInvariant, PTL

\* A step changes nothing about a settled transfer.
LEMMA SettledStep ==
    ASSUME Job!ScheduledTransfersConstants,
           JobInv, [Job!Next]_Job!vars,
           NEW t \in Transfers, status[t] \in {"EXECUTED", "FAILED"}
    PROVE  status'[t] = status[t] /\ moved'[t] = moved[t]
<1>1. ASSUME NEW u \in Transfers, Job!Schedule(u) \/ Job!ComesDue(u)
      PROVE  status'[t] = status[t] /\ moved'[t] = moved[t]
  BY <1>1 DEF JobInv, Job!TypeOK, Job!Schedule, Job!ComesDue
<1>2. ASSUME NEW w \in Runners, Job!Select(w) \/ Job!LockRows(w) \/ Job!Crash(w)
      PROVE  status'[t] = status[t] /\ moved'[t] = moved[t]
  BY <1>2 DEF Job!Select, Job!LockRows, Job!Crash, Job!rowVars
<1>3. ASSUME NEW w \in Runners, NEW u \in Transfers, Job!Execute(w, u) \/ Job!Fail(w, u)
      PROVE  status'[t] = status[t] /\ moved'[t] = moved[t]
  <2>1. u # t
    BY <1>3 DEF JobInv, Holds, Job!Execute, Job!Fail, Job!Working
  <2> QED
    BY <1>3, <2>1 DEF JobInv, Job!TypeOK, Job!Execute, Job!Fail, Job!Settle, Job!rowVars
<1>4. ASSUME NEW w \in Runners, Job!Commit(w)
      PROVE  status'[t] = status[t] /\ moved'[t] = moved[t]
  <2>1. t \notin batch[w]
    BY <1>4 DEF JobInv, Holds, Job!Commit
  <2> QED
    BY <1>4, <2>1 DEF Job!Commit, Job!StatusAfter
<1>5. CASE UNCHANGED Job!vars
  BY <1>5 DEF Job!vars
<1> QED
  BY <1>1, <1>2, <1>3, <1>4, <1>5 DEF Job!Next, Job!Run

\* EXECUTED and FAILED are final, with any number of runners.
THEOREM SettledStays ==
    ASSUME Job!ScheduledTransfersConstants
    PROVE  Job!Spec => SettledIsFinal
<1>1. JobInv /\ [Job!Next]_Job!vars =>
        [\A t \in Transfers : status[t] \in {"EXECUTED", "FAILED"} =>
            status'[t] = status[t] /\ moved'[t] = moved[t]]_<<status, moved>>
  BY SettledStep
<1> QED
  BY <1>1, RunnerInvariant, PTL DEF Job!Spec, SettledIsFinal

===============================================================================
