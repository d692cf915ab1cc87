------------------------------ MODULE Idempotency ------------------------------
(***************************************************************************)
(* IdempotencyGuard.execute around the write endpoints of the backend.     *)
(*                                                                         *)
(* The guard is not transactional itself, so what is committed together    *)
(* depends on the endpoint:                                                *)
(*   "movement"  transfer, deposit, withdraw: the operation (a REQUIRES_NEW *)
(*               transaction, see Ledger), its audit event and the         *)
(*               idempotency record are three transactions;                *)
(*   "service"   open account, schedule, freeze, change password: the      *)
(*               operation with its audit event, then the record;          *)
(*   "payee"     add payee: everything in the caller's transaction.        *)
(*                                                                         *)
(* A key stands for a (user_id, idempotency_key) pair, a hash for the part *)
(* of the request that canonicalize covers.  A record is never deleted;    *)
(* after RECORD_TTL it is ignored.                                         *)
(***************************************************************************)
EXTENDS Naturals

CONSTANTS
    Calls,      \* calls of a write endpoint
    Keys,       \* (user, Idempotency-Key) pairs
    Hashes,     \* SHA-256 of the canonicalized payload
    Requests,   \* the requests a call may make
    None        \* "no record"

Endpoints == {"movement", "service", "payee"}

RequestType == [endpoint: Endpoints, key: Keys, hash: Hashes]

ASSUME IdempotencyConstants ==
    /\ Requests \subseteq RequestType
    /\ None \notin Calls

VARIABLES
    request,    \* [Calls -> Requests]
    phase,      \* what the call does next
    answer,     \* how it was answered
    effect,     \* the calls whose operation has committed
    audited,    \* the calls whose audit event has committed
    record,     \* [Keys -> Calls \cup {None}]: the call that saved the key's record
    expired,    \* the keys whose record is past its expires_at
    overlaps    \* history: the keys of which two calls were in progress at once

vars == <<request, phase, answer, effect, audited, record, expired, overlaps>>

Phases == {"lookup", "operate", "audit", "save", "done"}
Answers == {"none", "ok", "replay", "conflict", "refused", "integrity", "lost"}

TypeOK ==
    /\ request \in [Calls -> Requests]
    /\ phase \in [Calls -> Phases]
    /\ answer \in [Calls -> Answers]
    /\ effect \subseteq Calls
    /\ audited \subseteq Calls
    /\ record \in [Keys -> Calls \cup {None}]
    /\ expired \subseteq Keys
    /\ overlaps \subseteq Keys

Init ==
    /\ request \in [Calls -> Requests]
    /\ phase = [c \in Calls |-> "lookup"]
    /\ answer = [c \in Calls |-> "none"]
    /\ effect = {}
    /\ audited = {}
    /\ record = [k \in Keys |-> None]
    /\ expired = {}
    /\ overlaps = {}

KeyOf(c) == request[c].key
CallsOf(k) == {c \in Calls : KeyOf(c) = k}

\* A record the lookup takes notice of.
Live(k) == record[k] # None /\ k \notin expired

Answer(c, a) ==
    /\ phase' = [phase EXCEPT ![c] = "done"]
    /\ answer' = [answer EXCEPT ![c] = a]

\* A call the lookup has let through and that is not over.
InProgress(c) == phase[c] \notin {"lookup", "done"}

\* A call is let through: remember whether another one of its key has been.
Enter(c) ==
    /\ phase' = [phase EXCEPT ![c] = "operate"]
    /\ overlaps' = overlaps \cup {k \in {KeyOf(c)} : \E d \in CallsOf(k) : InProgress(d)}
    /\ UNCHANGED answer

\* Mutant: the payload is not compared.
AnyHash(c, d) == TRUE

SameHash(c, d) == request[c].hash = request[d].hash

\* Mutant: a record of another payload is taken for no record.
LookupByHash(c) ==
    /\ phase[c] = "lookup"
    /\ IF Live(KeyOf(c)) /\ SameHash(c, record[KeyOf(c)])
       THEN Answer(c, "replay") /\ UNCHANGED overlaps
       ELSE Enter(c)
    /\ UNCHANGED <<request, effect, audited, record, expired>>

\* findByUserIdAndIdempotencyKey, and what is answered from the record.
Lookup(c) ==
    /\ phase[c] = "lookup"
    /\ \/ /\ ~Live(KeyOf(c))
          /\ Enter(c)
       \/ /\ Live(KeyOf(c))
          /\ Answer(c, IF SameHash(c, record[KeyOf(c)]) THEN "replay" ELSE "conflict")
          /\ UNCHANGED overlaps
    /\ UNCHANGED <<request, effect, audited, record, expired>>

\* operation.get() throws: its transaction is rolled back, nothing is recorded.
Refuse(c) ==
    /\ phase[c] = "operate"
    /\ Answer(c, "refused")
    /\ UNCHANGED <<request, effect, audited, record, expired, overlaps>>

\* TransferService, DepositWithdrawService: the money movement commits.
Move(c) ==
    /\ phase[c] = "operate"
    /\ request[c].endpoint = "movement"
    /\ effect' = effect \cup {c}
    /\ phase' = [phase EXCEPT ![c] = "audit"]
    /\ UNCHANGED <<request, answer, audited, record, expired, overlaps>>

\* auditLogger.record outside of any transaction but the repository's own.
Audit(c) ==
    /\ phase[c] = "audit"
    /\ audited' = audited \cup {c}
    /\ phase' = [phase EXCEPT ![c] = "save"]
    /\ UNCHANGED <<request, answer, effect, record, expired, overlaps>>

\* The @Transactional services, whose audit event commits with the operation.
Serve(c) ==
    /\ phase[c] = "operate"
    /\ request[c].endpoint = "service"
    /\ effect' = effect \cup {c}
    /\ audited' = audited \cup {c}
    /\ phase' = [phase EXCEPT ![c] = "save"]
    /\ UNCHANGED <<request, answer, record, expired, overlaps>>

\* Mutant: no unique key; a second record takes the first one's place.
NoUniqueKey(k) == TRUE

\* The record's INSERT finds the unique key (user_id, idempotency_key) free.
KeyFree(k) == record[k] = None

\* idempotencyRecordRepository.save, in a transaction of its own; the unique key
\* answers a second record, also next to one that has expired, with a 409.
Save(c) ==
    /\ phase[c] = "save"
    /\ \/ /\ KeyFree(KeyOf(c))
          /\ record' = [record EXCEPT ![KeyOf(c)] = c]
          /\ Answer(c, "ok")
       \/ /\ ~KeyFree(KeyOf(c))
          /\ Answer(c, "integrity")
          /\ UNCHANGED record
    /\ UNCHANGED <<request, effect, audited, expired, overlaps>>

\* PayeeService.addPayee is @Transactional: payee, audit event and record commit
\* together or, when the key is taken, not at all.
AddPayee(c) ==
    /\ phase[c] = "operate"
    /\ request[c].endpoint = "payee"
    /\ \/ /\ KeyFree(KeyOf(c))
          /\ effect' = effect \cup {c}
          /\ audited' = audited \cup {c}
          /\ record' = [record EXCEPT ![KeyOf(c)] = c]
          /\ Answer(c, "ok")
       \/ /\ ~KeyFree(KeyOf(c))
          /\ Answer(c, "integrity")
          /\ UNCHANGED <<effect, audited, record>>
    /\ UNCHANGED <<request, expired, overlaps>>

\* The call ends where it is: what has committed stays, the rest is not done.
CutOff(c) ==
    /\ InProgress(c)
    /\ Answer(c, "lost")
    /\ UNCHANGED <<request, effect, audited, record, expired, overlaps>>

\* Mutant: an expired record is deleted, with a call of its key in progress.
ExpireDeletes(k) ==
    /\ Live(k)
    /\ record' = [record EXCEPT ![k] = None]
    /\ UNCHANGED <<request, phase, answer, effect, audited, expired, overlaps>>

\* Twenty-four hours pass.
Expire(k) ==
    /\ Live(k)
    /\ expired' = expired \cup {k}
    /\ UNCHANGED <<request, phase, answer, effect, audited, record, overlaps>>

Execute(c) ==
    \/ Lookup(c)
    \/ Refuse(c)
    \/ Move(c)
    \/ Audit(c)
    \/ Serve(c)
    \/ Save(c)
    \/ AddPayee(c)

Next ==
    \/ \E c \in Calls : Execute(c) \/ CutOff(c)
    \/ \E k \in Keys : Expire(k)

Spec == Init /\ [][Next]_vars

-------------------------------------------------------------------------------
(* Properties *)

\* The promise of the Idempotency-Key header: however often a key is sent, the
\* operation behind it takes effect at most once.
AtMostOnce == \A c, d \in effect : KeyOf(c) = KeyOf(d) => c = d

\* At most one call per key is told that it has carried the operation out; every
\* other one learns that it has not, or that it may not have.
OneSuccessPerKey ==
    \A c, d \in Calls :
        answer[c] = "ok" /\ answer[d] = "ok" /\ KeyOf(c) = KeyOf(d) => c = d

\* A call that is answered with a result, its own or a replayed one, stands for
\* an operation that has taken effect and been audited, for the same key and the
\* same payload.
AnswerMeansDone ==
    \A c \in Calls : answer[c] \in {"ok", "replay"} =>
        \E d \in effect \cap audited : KeyOf(d) = KeyOf(c) /\ request[d].hash = request[c].hash

\* An effect is audited and covered by a record as soon as its call is over, so
\* that a later call is answered from it, unless the call was cut off in between.
EffectIsRecorded ==
    \A c \in effect :
        \/ phase[c] \in {"audit", "save"}
        \/ record[KeyOf(c)] # None /\ c \in audited
        \/ answer[c] = "lost"

\* What it takes for an operation to take effect twice under one key: two calls
\* of the key in progress at once, a record that expired, or a call cut off
\* before its record was saved.  A client that waits for each answer and gets
\* one is safe, whatever it sends.
SecondEffectNeedsFault ==
    \A c, d \in effect : KeyOf(c) = KeyOf(d) /\ c # d =>
        \/ KeyOf(c) \in overlaps \cup expired
        \/ \E e \in CallsOf(KeyOf(c)) : answer[e] = "lost"

\* A payee is added at most once per key, and exactly when the call succeeds,
\* whatever overlaps, is cut off or expires: its record commits with it.
PayeeAddedOnce ==
    \A c \in Calls : request[c].endpoint = "payee" =>
        /\ c \in effect <=> answer[c] = "ok"
        /\ \A d \in effect :
              request[d].endpoint = "payee" /\ KeyOf(d) = KeyOf(c) /\ c \in effect => c = d

===============================================================================
