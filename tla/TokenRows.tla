------------------------------- MODULE TokenRows -------------------------------
(***************************************************************************)
(* The table refresh_token, and what a session may rely on, whichever      *)
(* transactions write it (module RefreshTokens).                           *)
(*                                                                         *)
(* A family is named by its first token.                                   *)
(***************************************************************************)
EXTENDS Naturals

CONSTANT Tokens     \* the rows

VARIABLES
    state,      \* "unissued", or by revoked_at: "active" or "revoked"
    family,     \* family_id
    parent,     \* the token a refresh has replaced by this one
    detected,   \* families for which a call was answered as a reuse
    ended,      \* families whose active token a logout has revoked
    raced       \* history: tokens read by two transactions at once

Issued(t) == state[t] # "unissued"

\* Once a token has been rotated it is of no use any more, whatever was written
\* to its row by transactions that read it earlier.
RotatedIsRevoked ==
    \A u \in Tokens : parent[u] \in Tokens => state[parent[u]] = "revoked"

\* No transaction brings a revoked token back, although none checks that the row
\* is as it was read.
RevokedIsFinal ==
    [][\A t \in Tokens : state[t] = "revoked" => state'[t] = "revoked"]_state

\* Rotation is a chain, so that of two clients that present a token the second is
\* found out: a token gets two successors only when two transactions had read it
\* before either committed.
TwoSuccessorsNeedRace ==
    \A t, u \in Tokens :
        parent[t] \in Tokens /\ parent[t] = parent[u] /\ t # u => parent[t] \in raced

\* After a logout the session cannot be continued, its family is all revoked,
\* unless some token of the family was read by two transactions at once.
LogoutEndsUnlessRaced ==
    \A t \in Tokens : Issued(t) /\ family[t] \in ended =>
        state[t] = "revoked" \/ \E u \in raced : family[u] = family[t]

\* Presenting an already-rotated refresh token revokes its entire family.
ReuseRevokesFamily ==
    \A t \in Tokens : Issued(t) /\ family[t] \in detected => state[t] = "revoked"

===============================================================================
