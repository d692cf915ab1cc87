----------------------------- MODULE RefreshTokens -----------------------------
(***************************************************************************)
(* The refresh tokens of the backend: AuthenticationService.login (and     *)
(* MfaService.verify), refresh and logout, and SessionService.             *)
(*                                                                         *)
(* Each call is one READ COMMITTED transaction that reads the presented    *)
(* token's row and, at its commit, INSERTs the successor and UPDATEs the   *)
(* row.  RefreshToken has no @Version and the row is not locked when it is *)
(* read, so two transactions may act on the same read.  A call that throws *)
(* is rolled back, with everything it wrote.                               *)
(***************************************************************************)
EXTENDS TokenRows

CONSTANTS
    Workers,    \* request threads of the backend
    None        \* "no token"

ASSUME RefreshTokensConstants == None \notin Tokens

VARIABLES
    expired,    \* the tokens past their expires_at
    job         \* what a worker has read and is about to write

vars == <<state, family, parent, expired, job, detected, ended, raced>>

Idle == [op |-> "idle", token |-> None]
Jobs == [op: {"refresh", "logout"}, token: Tokens] \cup {Idle}

TypeOK ==
    /\ state \in [Tokens -> {"unissued", "active", "revoked"}]
    /\ family \in [Tokens -> Tokens \cup {None}]
    /\ parent \in [Tokens -> Tokens \cup {None}]
    /\ expired \subseteq Tokens
    /\ job \in [Workers -> Jobs]
    /\ detected \subseteq Tokens
    /\ ended \subseteq Tokens
    /\ raced \subseteq Tokens

Init ==
    /\ state = [t \in Tokens |-> "unissued"]
    /\ family = [t \in Tokens |-> None]
    /\ parent = [t \in Tokens |-> None]
    /\ expired = {}
    /\ job = [w \in Workers |-> Idle]
    /\ detected = {}
    /\ ended = {}
    /\ raced = {}

\* issueTokenPair, after a password or an MFA code: a family of its own.
Login(w, t) ==
    /\ job[w] = Idle
    /\ ~Issued(t)
    /\ state' = [state EXCEPT ![t] = "active"]
    /\ family' = [family EXCEPT ![t] = t]
    /\ UNCHANGED <<parent, expired, job, detected, ended, raced>>

\* refresh() or logout() has read an active token; an expired one is refused
\* by refresh(), but not by logout().
ReadToken(w, t, op) ==
    /\ job[w] = Idle
    /\ state[t] = "active"
    /\ op = "refresh" => t \notin expired
    /\ job' = [job EXCEPT ![w] = [op |-> op, token |-> t]]
    /\ raced' = raced \cup {u \in {t} : \E v \in Workers : job[v].token = u}
    /\ UNCHANGED <<state, family, parent, expired, detected, ended>>

\* refresh() has read a revoked token.  revokeFamily and the audit event are
\* written in the transaction that InvalidRefreshTokenException then rolls back.
RefreshReused(w, t) ==
    /\ job[w] = Idle
    /\ state[t] = "revoked"
    /\ detected' = detected \cup {family[t]}
    /\ UNCHANGED <<state, family, parent, expired, job, ended, raced>>

\* Mutant: the rotated token's row is saved as it was read.
RotatedStateAsRead(t, u) == [state EXCEPT ![t] = "active", ![u] = "active"]

\* The rows a rotation of t into u writes.
RotatedState(t, u) == [state EXCEPT ![t] = "revoked", ![u] = "active"]

\* The commit of a rotation, whatever has happened to the row since it was read.
CommitRefresh(w, u) ==
    LET t == job[w].token
    IN  /\ job[w].op = "refresh"
        /\ ~Issued(u)
        /\ state' = RotatedState(t, u)
        /\ family' = [family EXCEPT ![u] = family[t]]
        /\ parent' = [parent EXCEPT ![u] = t]
        /\ job' = [job EXCEPT ![w] = Idle]
        /\ UNCHANGED <<expired, detected, ended, raced>>

\* Mutant: logging out forgets the session without revoking its token.
LoggedOutStateKept(t) == state

LoggedOutState(t) == [state EXCEPT ![t] = "revoked"]

\* The commit of logout(), or of SessionService.revokeSession.
CommitLogout(w) ==
    LET t == job[w].token
    IN  /\ job[w].op = "logout"
        /\ state' = LoggedOutState(t)
        /\ ended' = ended \cup {family[t]}
        /\ job' = [job EXCEPT ![w] = Idle]
        /\ UNCHANGED <<family, parent, expired, detected, raced>>

\* The transaction is rolled back: the process dies, or the statement fails.
Rollback(w) ==
    /\ job[w] # Idle
    /\ job' = [job EXCEPT ![w] = Idle]
    /\ UNCHANGED <<state, family, parent, expired, detected, ended, raced>>

\* expires_at passes.
Expire(t) ==
    /\ Issued(t)
    /\ t \notin expired
    /\ expired' = expired \cup {t}
    /\ UNCHANGED <<state, family, parent, job, detected, ended, raced>>

Next ==
    \/ \E w \in Workers :
          \/ \E t \in Tokens :
                \/ Login(w, t)
                \/ \E op \in {"refresh", "logout"} : ReadToken(w, t, op)
                \/ RefreshReused(w, t)
                \/ CommitRefresh(w, t)
          \/ CommitLogout(w)
          \/ Rollback(w)
    \/ \E t \in Tokens : Expire(t)

Spec == Init /\ [][Next]_vars

===============================================================================
