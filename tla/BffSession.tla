------------------------------ MODULE BffSession ------------------------------
(***************************************************************************)
(* The sessions of the BFF: the access-token cache with its per-session    *)
(* refresh lock (AccessTokenCacheService), the authenticated calls to the  *)
(* backend (BackendClientService), the auth, proxy and dashboard handlers  *)
(* that use them, and the two cookies of the browser.                      *)
(*                                                                         *)
(* The BFF is one Node.js process: code between two awaits is one step.    *)
(* Requests of several tabs, and the polls of the notification service,    *)
(* overlap at their awaits; answers of the backend may be lost; responses  *)
(* reach the browser in any order.                                         *)
(*                                                                         *)
(* Refresh tokens are numbered in the order the backend issues them.  An   *)
(* access token has no identity here: the backend may answer any of them   *)
(* with 401, and the cache only knows whether its own is fresh.            *)
(***************************************************************************)
EXTENDS Naturals

CONSTANTS
    Sessions,   \* session ids (each is the one of a login: a token family)
    Requests,   \* handlers that may be running at the same time
    MaxToken,   \* bound: refresh tokens issued
    None        \* "no session", "no entry", "no request"

Tokens == 1..MaxToken

Entries == [tok: Tokens, fresh: BOOLEAN]

\* SessionPayload: the content of the session cookie.
Payloads == [sid: Sessions, tok: Tokens]

ASSUME BffConstants ==
    /\ MaxToken \in Nat
    /\ None \notin Sessions \cup Requests \cup Entries \cup Payloads

VARIABLES
    cache,      \* cache: session -> entry
    lock,       \* refreshLocks: session -> the request whose refresh is in flight
    refresh,    \* callRefresh started by a request: what was sent, what came back
    req,        \* the running handlers
    cookie,     \* the browser's session cookie, as the BFF decrypts it
    csrf,       \* the browser's CSRF cookie
    sub,        \* the payload a notification poller was started with
    issued,     \* backend: how many refresh tokens have been issued
    token,      \* backend: the state of each
    owner,      \* backend: the family of each
    lost,       \* history: sessions whose newest token may have been lost
    out,        \* history: sessions whose logout the BFF has handled
    raced,      \* history: ... while they were in use, or with a stale token
    crossed     \* history: sessions in use when the cookies were cleared

vars == <<cache, lock, refresh, req, cookie, csrf, sub, issued, token, owner,
          lost, out, raced, crossed>>

backend == <<issued, token, owner>>
browser == <<cookie, csrf, sub>>
history == <<lost, out, raced, crossed>>

\* "proxy" stands for the proxied calls, "dashboard" for the handlers that return a
\* value (dashboard, mfaEnroll, mfaEnrollConfirm), "login" also for mfaVerify.
Kinds == {"proxy", "dashboard", "stepUp", "poll", "login", "logout"}

\* The Set-Cookie headers of a response.
Keep == [op |-> "keep", sid |-> None, tok |-> 0]
Clear == [op |-> "clear", sid |-> None, tok |-> 0]
CookieWrites == [op: {"keep", "clear", "rotate", "start"},
                 sid: Sessions \cup {None}, tok: 0..MaxToken]

\* A handler: the payload of its session, where it stands, how many calls to the
\* backend it has sent and how many took effect, whose refresh it waits for, the
\* last answer with the token in it, and the cookies of its response.
Idle == [kind |-> "proxy", pc |-> "idle", session |-> None, calls |-> 0,
         effects |-> 0, on |-> None, status |-> "none", tok |-> 0, set |-> Keep]
Handlers == [kind: Kinds,
             pc: {"idle", "wait", "call", "answered", "respond"},
             session: Payloads \cup {None}, calls: 0..2, effects: 0..2,
             on: Requests \cup {None},
             status: {"none", "ok", "401", "error", "mfa"},
             tok: 0..MaxToken, set: CookieWrites]

\* callRefresh: the token sent, and the one that came back.
NoRefresh == [st |-> "none", sid |-> None, tok |-> 0, new |-> 0]
Refreshes == [st: {"none", "sent", "ok", "refused", "failed"},
              sid: Sessions \cup {None}, tok: 0..MaxToken, new: 0..MaxToken]

TypeOK ==
    /\ cache \in [Sessions -> Entries \cup {None}]
    /\ lock \in [Sessions -> Requests \cup {None}]
    /\ refresh \in [Requests -> Refreshes]
    /\ req \in [Requests -> Handlers]
    /\ cookie \in Payloads \cup {None}
    /\ csrf \in BOOLEAN
    /\ sub \in Payloads \cup {None}
    /\ issued \in 0..MaxToken
    /\ token \in [Tokens -> {"unissued", "active", "rotated", "revoked"}]
    /\ owner \in [Tokens -> Sessions \cup {None}]
    /\ lost \subseteq Sessions
    /\ out \subseteq Sessions
    /\ raced \subseteq Sessions
    /\ crossed \subseteq Sessions

Init ==
    /\ cache = [s \in Sessions |-> None]
    /\ lock = [s \in Sessions |-> None]
    /\ refresh = [r \in Requests |-> NoRefresh]
    /\ req = [r \in Requests |-> Idle]
    /\ cookie = None
    /\ csrf = FALSE
    /\ sub = None
    /\ issued = 0
    /\ token = [t \in Tokens |-> "unissued"]
    /\ owner = [t \in Tokens |-> None]
    /\ lost = {}
    /\ out = {}
    /\ raced = {}
    /\ crossed = {}

-------------------------------------------------------------------------------
(* AccessTokenCacheService *)

\* Mutant: the request's own refresh token, though it may have been rotated.
CurrentTokenOfRequest(p) == p.tok

\* The newest refresh token the BFF knows: the cache's, else the request's own.
CurrentToken(p) == IF cache[p.sid] # None THEN cache[p.sid].tok ELSE p.tok

IsFresh(s) == cache[s] # None /\ cache[s].fresh

\* Mutant: refreshWithLock does not look for a refresh in flight.
RefreshWithoutLock(r, s, t) ==
    /\ lock' = [lock EXCEPT ![s] = r]
    /\ refresh' = [refresh EXCEPT ![r] =
            [st |-> "sent", sid |-> s, tok |-> t, new |-> 0]]

\* refreshWithLock: join the refresh in flight, or send one.
RefreshWithLock(r, s, t) ==
    IF lock[s] # None
    THEN UNCHANGED <<lock, refresh>>
    ELSE /\ lock' = [lock EXCEPT ![s] = r]
         /\ refresh' = [refresh EXCEPT ![r] =
                [st |-> "sent", sid |-> s, tok |-> t, new |-> 0]]

\* Mutant: a request that joins a refresh awaits a promise of its own.
AwaitedOwn(r, s) == r

\* The request whose promise r awaits after refreshWithLock.
Awaited(r, s) == IF lock[s] # None THEN lock[s] ELSE r

\* The backend rotates an active token, and refuses any other (what it writes
\* about the reuse of a rotated one is rolled back: RefreshTokens).
RefreshAtBackend(r) ==
    LET f == refresh[r]
    IN  /\ f.st = "sent"
        /\ \/ /\ token[f.tok] = "active"
              /\ issued < MaxToken
              /\ issued' = issued + 1
              /\ token' = [token EXCEPT ![f.tok] = "rotated", ![issued + 1] = "active"]
              /\ owner' = [owner EXCEPT ![issued + 1] = owner[f.tok]]
              /\ refresh' = [refresh EXCEPT ![r].st = "ok", ![r].new = issued + 1]
           \/ /\ token[f.tok] # "active"
              /\ refresh' = [refresh EXCEPT ![r].st = "refused"]
              /\ UNCHANGED backend
        /\ UNCHANGED <<cache, lock, req, browser, history>>

\* callRefresh fails: the backend was not reached, or its answer is lost.
RefreshFails(r) ==
    /\ refresh[r].st \in {"sent", "ok"}
    /\ refresh' = [refresh EXCEPT ![r].st = "failed"]
    /\ UNCHANGED <<cache, lock, req, browser, backend, history>>

\* What the requests that await the refresh of r go on with: the call to the
\* backend, or (the promise is rejected) an error response; a poll swallows it.
\* (A response that sets no cookie is over when it is sent.)
Respond(h, w) ==
    IF w = Keep THEN Idle
    ELSE [Idle EXCEPT !.pc = "respond", !.session = h.session, !.set = w]
Resumed(h, ok) == IF ok THEN [h EXCEPT !.pc = "call", !.on = None] ELSE Respond(h, Keep)

\* The promise of r settles: then() fills the cache, finally() drops the lock of
\* the session, whosever it is, and everyone who awaits it goes on.
SettleRefresh(r) ==
    LET f == refresh[r]
        ok == f.st = "ok"
    IN  /\ f.st \in {"ok", "refused", "failed"}
        /\ cache' = IF ok THEN [cache EXCEPT ![f.sid] = [tok |-> f.new, fresh |-> TRUE]]
                          ELSE cache
        /\ lock' = [lock EXCEPT ![f.sid] = None]
        /\ refresh' = [refresh EXCEPT ![r] = NoRefresh]
        /\ req' = [q \in Requests |->
                      IF req[q].pc = "wait" /\ req[q].on = r
                      THEN Resumed(req[q], ok) ELSE req[q]]
        /\ lost' = IF f.st = "failed" /\ (f.new # 0 \/ cache[f.sid] = None)
                   THEN lost \cup {f.sid} ELSE lost
        /\ UNCHANGED <<browser, backend, out, raced, crossed>>

\* The cached access token comes within the refresh skew of its expiry.
Expire(s) ==
    /\ IsFresh(s)
    /\ cache' = [cache EXCEPT ![s].fresh = FALSE]
    /\ UNCHANGED <<lock, refresh, req, browser, backend, history>>

\* sweep: an entry long expired, whose session is not being refreshed.
Sweep(s) ==
    /\ cache[s] # None
    /\ ~cache[s].fresh
    /\ lock[s] = None
    /\ cache' = [cache EXCEPT ![s] = None]
    /\ lost' = lost \cup {s}
    /\ UNCHANGED <<lock, refresh, req, browser, backend, out, raced, crossed>>

-------------------------------------------------------------------------------
(* Requests: middleware, guards, handlers, interceptor *)

\* SessionContextMiddleware decrypts the cookie; a poll has the payload that its
\* subscription was made with.
SessionOf(k) == IF k = "poll" THEN sub ELSE cookie

\* CsrfGuard (the frontend echoes the cookie, if it has one; a proxied call may be
\* a GET, which passes) and requireSession.
Admitted(k) ==
    /\ k \in {"stepUp", "login", "logout"} /\ cookie # None => csrf
    /\ k \notin {"login", "logout"} => SessionOf(k) # None

\* requestRaw, up to its first await: resolveAccessToken.
StartCall(r, k) ==
    LET p == SessionOf(k)
        h == [Idle EXCEPT !.kind = k, !.session = p]
    IN  /\ k \notin {"login", "logout"}
        /\ req[r].pc = "idle"
        /\ Admitted(k)
        /\ \/ /\ IsFresh(p.sid)
              /\ req' = [req EXCEPT ![r] = [h EXCEPT !.pc = "call"]]
              /\ UNCHANGED <<lock, refresh>>
           \/ /\ ~IsFresh(p.sid)
              /\ RefreshWithLock(r, p.sid, CurrentToken(p))
              /\ req' = [req EXCEPT ![r] = [h EXCEPT !.pc = "wait", !.on = Awaited(r, p.sid)]]
        /\ UNCHANGED <<cache, browser, backend, history>>

\* login, mfaVerify and logout post to the backend without an access token; a
\* logout without a session only clears the cookies.
StartAuth(r, k) ==
    /\ k \in {"login", "logout"}
    /\ req[r].pc = "idle"
    /\ Admitted(k)
    /\ LET h == [Idle EXCEPT !.kind = k, !.session = cookie, !.pc = "call"]
       IN  req' = [req EXCEPT ![r] =
                     IF k = "logout" /\ cookie = None THEN Respond(h, Clear) ELSE h]
    /\ UNCHANGED <<cache, lock, refresh, browser, backend, history>>

Authenticated(h) == h.kind \notin {"login", "logout"}

\* doRequest: the backend applies the call, refuses it, or (502) is not heard of,
\* before or after it has applied it.
CallAtBackend(r) ==
    LET h == req[r]
    IN  /\ h.pc = "call"
        /\ Authenticated(h)
        /\ \E st \in {"ok", "401", "error"}, e \in {0, 1} :
              /\ st = "ok" => e = 1
              /\ st = "401" => e = 0
              /\ req' = [req EXCEPT ![r].pc = "answered", ![r].status = st,
                                   ![r].calls = h.calls + 1, ![r].effects = h.effects + e]
        /\ UNCHANGED <<cache, lock, refresh, browser, backend, history>>

\* The backend's login or MFA verification: a first token of a new family, a
\* challenge, or an error.
LoginAtBackend(r) ==
    /\ req[r].pc = "call"
    /\ req[r].kind = "login"
    /\ \/ \E s \in Sessions :
             /\ issued < MaxToken
             /\ \A t \in Tokens : owner[t] # s
             /\ issued' = issued + 1
             /\ token' = [token EXCEPT ![issued + 1] = "active"]
             /\ owner' = [owner EXCEPT ![issued + 1] = s]
             /\ req' = [req EXCEPT ![r].pc = "answered", ![r].status = "ok",
                                  ![r].tok = issued + 1]
       \/ \E st \in {"mfa", "error"} :
             /\ req' = [req EXCEPT ![r].pc = "answered", ![r].status = st]
             /\ UNCHANGED backend
    /\ UNCHANGED <<cache, lock, refresh, browser, history>>

\* The backend's logout revokes an active token and ignores any other; the answer
\* may be lost, or the call ("ok": the token is known to be revoked).
LogoutAtBackend(r) ==
    LET t == req[r].session.tok
    IN  /\ req[r].pc = "call"
        /\ req[r].kind = "logout"
        /\ \/ /\ token[t] = "active"
              /\ token' = [token EXCEPT ![t] = "revoked"]
              /\ \E st \in {"ok", "error"} :
                    req' = [req EXCEPT ![r].pc = "answered", ![r].status = st]
           \/ /\ req' = [req EXCEPT ![r].pc = "answered", ![r].status = "error"]
              /\ UNCHANGED token
        /\ UNCHANGED <<cache, lock, refresh, browser, issued, owner, history>>

\* Mutant: requestRaw repeats a call whatever its error was.
RetriesAnyError(h) == h.status \in {"401", "error"} /\ h.calls = 1

\* requestRaw repeats a call once, and only after a 401.
Retries(h) == h.status = "401" /\ h.calls = 1

\* requestRaw after a 401: forceRefresh drops the entry, newest token and all,
\* and refreshes with that token (or joins the refresh in flight).
ForceRefresh(r) ==
    LET h == req[r]
        s == h.session.sid
    IN  /\ h.pc = "answered"
        /\ Authenticated(h)
        /\ Retries(h)
        /\ cache' = [cache EXCEPT ![s] = None]
        /\ RefreshWithLock(r, s, CurrentToken(h.session))
        /\ req' = [req EXCEPT ![r].pc = "wait", ![r].status = "none",
                             ![r].on = Awaited(r, s)]
        /\ UNCHANGED <<browser, backend, history>>

\* The handler throws: an error response, and no cookie.
FailCall(r) ==
    LET h == req[r]
    IN  /\ h.pc = "answered"
        /\ Authenticated(h)
        /\ h.status # "ok"
        /\ ~Retries(h)
        /\ req' = [req EXCEPT ![r] = Respond(h, Keep)]
        /\ UNCHANGED <<cache, lock, refresh, browser, backend, history>>

\* SessionCookieSyncInterceptor: the cookie follows the cache's refresh token.
\* ch is the cache when the handler returns.
Synced(h, ch) ==
    LET p == h.session
    IN  IF p # None /\ ch[p.sid] # None /\ ch[p.sid].tok # p.tok
        THEN [op |-> "rotate", sid |-> p.sid, tok |-> ch[p.sid].tok]
        ELSE Keep

\* overwriteElevated: a new access token beside the refresh token of the entry.
Elevated(s) == [cache EXCEPT ![s].fresh = TRUE]

\* The call succeeded.  The proxy has sent its response before the interceptor
\* sees it; stepUp fails if the entry is gone.
FinishCall(r) ==
    LET h == req[r]
        s == h.session.sid
        respond(w) == req' = [req EXCEPT ![r] = Respond(h, w)]
    IN  /\ h.pc = "answered"
        /\ Authenticated(h)
        /\ h.status = "ok"
        /\ \/ /\ h.kind \in {"proxy", "poll"}
              /\ respond(Keep)
              /\ UNCHANGED cache
           \/ /\ h.kind = "dashboard"
              /\ respond(Synced(h, cache))
              /\ UNCHANGED cache
           \/ /\ h.kind = "stepUp"
              /\ cache[s] # None
              /\ cache' = Elevated(s)
              /\ respond(Synced(h, cache'))
           \/ /\ h.kind = "stepUp"
              /\ cache[s] = None
              /\ respond(Keep)
              /\ UNCHANGED cache
        /\ UNCHANGED <<lock, refresh, browser, backend, history>>

\* startSessionIfAuthenticated: the cookies and the cache entry of a new session.
\* The interceptor then looks at the session the request came with, and the
\* cookie it writes is the one the browser keeps.
FinishLogin(r) ==
    LET h == req[r]
        s == owner[h.tok]
        sync == Synced(h, cache)
    IN  /\ h.pc = "answered"
        /\ h.kind = "login"
        /\ \/ /\ h.status = "ok"
              /\ cache' = [cache EXCEPT ![s] = [tok |-> h.tok, fresh |-> TRUE]]
              /\ req' = [req EXCEPT ![r] = Respond(h,
                    IF sync.op = "rotate" THEN [sync EXCEPT !.op = "start"]
                    ELSE [op |-> "start", sid |-> s, tok |-> h.tok])]
           \/ /\ h.status = "mfa"
              /\ req' = [req EXCEPT ![r] = Respond(h, sync)]
              /\ UNCHANGED cache
           \/ /\ h.status = "error"
              /\ req' = [req EXCEPT ![r] = Respond(h, Keep)]
              /\ UNCHANGED cache
        /\ UNCHANGED <<lock, refresh, browser, backend, history>>

\* Mutant: invalidate forgets the lock and keeps the entry.
InvalidatedLockOnly(s) == cache

\* invalidate
Invalidated(s) == [cache EXCEPT ![s] = None]

InUse(s) == {r \in Requests : req[r].session # None /\ req[r].session.sid = s}

\* logout, whatever the backend answered.
FinishLogout(r) ==
    LET h == req[r]
        s == h.session.sid
    IN  /\ h.pc = "answered"
        /\ h.kind = "logout"
        /\ cache' = Invalidated(s)
        /\ lock' = [lock EXCEPT ![s] = None]
        /\ req' = [req EXCEPT ![r] = Respond(h, Clear)]
        /\ out' = out \cup {s}
        /\ raced' = IF h.status = "ok" /\ InUse(s) = {r} THEN raced ELSE raced \cup {s}
        /\ UNCHANGED <<refresh, browser, backend, lost, crossed>>

\* Mutant: only a login's response has a CSRF cookie, a rotation drops it.
CsrfOfLoginOnly(w) == w.op = "start"

\* startSession sets both cookies, clearSession clears both, and the interceptor
\* sets the session cookie only.
CsrfAfter(w) == w.op = "start" \/ (csrf /\ w.op # "clear")

\* The response reaches the browser, in any order with the others.
Deliver(r) ==
    LET w == req[r].set
    IN  /\ req[r].pc = "respond"
        /\ req' = [req EXCEPT ![r] = Idle]
        /\ cookie' = IF w.op = "clear" THEN None ELSE [sid |-> w.sid, tok |-> w.tok]
        /\ csrf' = CsrfAfter(w)
        /\ crossed' = IF w.op = "clear"
                      THEN crossed \cup {s \in Sessions : InUse(s) \ {r} # {}}
                      ELSE crossed
        /\ UNCHANGED <<cache, lock, refresh, sub, backend, lost, out, raced>>

\* The browser has gone, or the connection breaks.
LoseResponse(r) ==
    /\ req[r].pc = "respond"
    /\ req' = [req EXCEPT ![r] = Idle]
    /\ UNCHANGED <<cache, lock, refresh, browser, backend, history>>

\* GET /bff/notifications: the poller keeps the payload of its first subscriber.
Subscribe ==
    /\ sub = None
    /\ cookie # None
    /\ sub' = cookie
    /\ UNCHANGED <<cache, lock, refresh, req, cookie, csrf, backend, history>>

\* The process is restarted.  Without BFF_SESSION_ENCRYPTION_KEY the cookies of
\* the old process cannot be decrypted any more.
Restart(keyIsKept) ==
    /\ cache' = [s \in Sessions |-> None]
    /\ lock' = [s \in Sessions |-> None]
    /\ refresh' = [r \in Requests |-> NoRefresh]
    /\ req' = [r \in Requests |-> Idle]
    /\ cookie' = IF keyIsKept THEN cookie ELSE None
    /\ sub' = None
    /\ lost' = lost \cup {owner[t] : t \in 1..issued}
    /\ UNCHANGED <<csrf, backend, out, raced, crossed>>

Next ==
    \/ \E r \in Requests :
          \/ \E k \in Kinds : StartCall(r, k) \/ StartAuth(r, k)
          \/ RefreshAtBackend(r) \/ RefreshFails(r) \/ SettleRefresh(r)
          \/ CallAtBackend(r) \/ LoginAtBackend(r) \/ LogoutAtBackend(r)
          \/ ForceRefresh(r) \/ FailCall(r)
          \/ FinishCall(r) \/ FinishLogin(r) \/ FinishLogout(r)
          \/ Deliver(r) \/ LoseResponse(r)
    \/ \E s \in Sessions : Expire(s) \/ Sweep(s)
    \/ Subscribe
    \/ \E keyIsKept \in BOOLEAN : Restart(keyIsKept)

Spec == Init /\ [][Next]_vars

-------------------------------------------------------------------------------
(* Properties *)

\* A logout of the session has taken effect, at the BFF or at the backend.
Ended(s) == s \in out \/ \E t \in Tokens : owner[t] = s /\ token[t] = "revoked"

\* The BFF never trips the backend's reuse detection on its own: a refresh on its
\* way carries the active token, except for a session that has been logged out, or
\* whose newest token was lost with a failed refresh, to sweep(), or with the
\* process.
ReuseNeedsLoss ==
    \A r \in Requests :
        refresh[r].st = "sent" /\ token[refresh[r].tok] # "active"
            => refresh[r].sid \in lost \/ Ended(refresh[r].sid)

\* Single flight: two refreshes of one session are under way only after its logout.
OneRefreshPerSession ==
    \A r, q \in Requests :
        /\ r # q
        /\ refresh[r].st # "none"
        /\ refresh[q].st # "none"
        /\ refresh[r].sid = refresh[q].sid
        => refresh[r].sid \in out

\* requestRaw may send a browser's call twice, but it takes effect at most once.
AppliedOnce == \A r \in Requests : req[r].effects <= 1

\* A logout that has revoked the session's token while no other request used the
\* session is final: no call is made for the session afterwards, not by a poller
\* that another tab has left running either.
LogoutIsFinal ==
    \A r \in Requests :
        req[r].pc = "call" /\ Authenticated(req[r]) /\ req[r].session.sid \in out
            => req[r].session.sid \in raced

\* A browser with a session cookie but without its CSRF cookie can neither log in
\* nor log out.  This happens only when a response of the session was still on its
\* way as the cookies were cleared.
CsrfFollowsSession ==
    cookie # None /\ ~csrf => cookie.sid \in crossed

\* No request waits for nothing: the refresh it awaits is the one of its session, and
\* it is still under way, also after a logout has dropped the lock and others have
\* refreshed again.  (As every refresh settles, every request is resumed.)
WaitersAreResumed ==
    \A r \in Requests :
        req[r].pc = "wait" =>
            /\ req[r].on # None
            /\ refresh[req[r].on].st # "none"
            /\ refresh[req[r].on].sid = req[r].session.sid

===============================================================================
