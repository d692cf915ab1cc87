--------------------------- MODULE BffSessionProofs ---------------------------
(***************************************************************************)
(* Proofs about the sessions of the BFF, for any number of sessions,       *)
(* requests and refresh tokens.                                            *)
(***************************************************************************)
EXTENDS BffSession, TLAPS

\* What the phase of a handler says about its other fields.
SaneHandler(h, n) ==
    /\ h.effects <= 1
    /\ h.pc = "idle" => h = Idle
    /\ h.pc \in {"wait", "call"} => h.calls <= 1 /\ h.effects = 0
    /\ h.pc = "answered" /\ h.status = "401" => h.effects = 0
    /\ h.pc = "wait" => Authenticated(h)
    /\ h.pc = "respond" => h.kind # "poll"
    /\ h.pc \in {"wait", "call", "answered"} /\ h.kind # "login" => h.session \in Payloads
    /\ h.pc = "answered" /\ h.kind = "login" /\ h.status = "ok" => h.tok \in 1..n
    /\ h.pc = "respond" => \/ h.set = Clear
                           \/ /\ h.set.op \in {"rotate", "start"}
                              /\ h.set.sid \in Sessions
                              /\ h.set.tok \in Tokens

SaneRefresh(f) ==
    f.st # "none" => /\ f.sid \in Sessions
                     /\ f.tok \in Tokens
                     /\ f.st = "ok" => f.new \in Tokens

\* The backend has issued the tokens up to issued, each for a session.
Issued ==
    \A t \in Tokens :
        /\ t <= issued => owner[t] \in Sessions /\ token[t] # "unissued"
        /\ t > issued => owner[t] = None /\ token[t] = "unissued"

Sane ==
    /\ TypeOK
    /\ Issued
    /\ \A r \in Requests : SaneHandler(req[r], issued) /\ SaneRefresh(refresh[r])

-------------------------------------------------------------------------------

\* The idle handler is one.
LEMMA IdleIsSane ==
    ASSUME NEW n
    PROVE  Idle \in Handlers /\ SaneHandler(Idle, n) /\ NoRefresh \in Refreshes
<1> USE BffConstants DEF Tokens
<1>1. Keep \in CookieWrites
  BY DEF Keep, CookieWrites
<1>2. Idle \in Handlers
  BY <1>1 DEF Idle, Handlers, Kinds
<1>3. SaneHandler(Idle, n)
  BY DEF SaneHandler, Idle, Authenticated
<1> QED BY <1>2, <1>3 DEF NoRefresh, Refreshes

\* Responding ends a handler, or leaves the cookies to be delivered.
LEMMA RespondIsSane ==
    ASSUME NEW h \in Handlers, NEW w \in CookieWrites, NEW n,
           \/ w = Keep
           \/ w = Clear
           \/ w.op \in {"rotate", "start"} /\ w.sid \in Sessions /\ w.tok \in Tokens
    PROVE  Respond(h, w) \in Handlers /\ SaneHandler(Respond(h, w), n)
<1>1. CASE w = Keep
  BY <1>1, IdleIsSane DEF Respond
<1>2. CASE w # Keep
  <2> DEFINE x == [Idle EXCEPT !.pc = "respond", !.session = h.session, !.set = w]
  <2>1. Respond(h, w) = x
    BY <1>2 DEF Respond
  <2>2. x \in Handlers
    BY IdleIsSane DEF Handlers
  <2>3. x.pc = "respond" /\ x.effects = 0 /\ x.set = w /\ x.kind = "proxy"
    BY DEF Idle
  <2>4. SaneHandler(x, n)
    BY <2>3, <1>2 DEF SaneHandler
  <2> QED BY <2>1, <2>2, <2>4
<1> QED BY <1>1, <1>2

\* What the interceptor writes is the token of an entry.
LEMMA SyncedIsSane ==
    ASSUME NEW h \in Handlers, NEW ch \in [Sessions -> Entries \cup {None}]
    PROVE  /\ Synced(h, ch) \in CookieWrites
           /\ \/ Synced(h, ch) = Keep
              \/ /\ Synced(h, ch).op = "rotate"
                 /\ Synced(h, ch).sid = h.session.sid
                 /\ h.session \in Payloads
                 /\ ch[h.session.sid] # None
                 /\ Synced(h, ch).tok = ch[h.session.sid].tok
                 /\ Synced(h, ch).sid \in Sessions
                 /\ Synced(h, ch).tok \in Tokens
<1> USE BffConstants DEF Tokens
<1>1. Keep \in CookieWrites
  BY DEF Keep, CookieWrites
<1>2. CASE Synced(h, ch) = Keep
  BY <1>1, <1>2
<1>3. CASE Synced(h, ch) # Keep
  <2>1. /\ h.session # None
        /\ ch[h.session.sid] # None
        /\ Synced(h, ch) = [op |-> "rotate", sid |-> h.session.sid, tok |-> ch[h.session.sid].tok]
    BY <1>3 DEF Synced
  <2>2. h.session \in Payloads
    BY <2>1 DEF Handlers
  <2>3. h.session.sid \in Sessions
    BY <2>2 DEF Payloads
  <2>4. ch[h.session.sid] \in Entries
    BY <2>1, <2>3
  <2>5. ch[h.session.sid].tok \in Tokens
    BY <2>4 DEF Entries
  <2> QED BY <2>1, <2>2, <2>3, <2>5 DEF CookieWrites
<1> QED BY <1>2, <1>3

\* A step that changes one handler, and issues no token or one.
LEMMA OneHandler ==
    ASSUME Sane, NEW r \in Requests, NEW h \in Handlers,
           req' = [req EXCEPT ![r] = h],
           issued' \in {issued, issued + 1}, SaneHandler(h, issued')
    PROVE  /\ req' \in [Requests -> Handlers]
           /\ \A q \in Requests : SaneHandler(req'[q], issued')
<1>1. req' \in [Requests -> Handlers]
  BY DEF Sane, TypeOK
<1>2. ASSUME NEW q \in Requests
      PROVE  SaneHandler(req'[q], issued')
  <2>1. CASE q = r
    BY <2>1 DEF Sane, TypeOK
  <2>2. CASE q # r
    <3>1. req'[q] = req[q] /\ SaneHandler(req[q], issued)
      BY <2>2 DEF Sane, TypeOK
    <3>2. 1..issued \subseteq 1..issued'
      BY BffConstants DEF Sane, TypeOK
    <3> QED BY <3>1, <3>2 DEF SaneHandler
  <2> QED BY <2>1, <2>2
<1> QED BY <1>1, <1>2

\* The process starts in a sane state.
LEMMA InitSane == Init => Sane
<1> SUFFICES ASSUME Init PROVE Sane
  OBVIOUS
<1> USE BffConstants
<1>0. Idle \in Handlers /\ NoRefresh \in Refreshes /\ SaneHandler(Idle, issued)
  BY IdleIsSane
<1>1. TypeOK
  <2>1. csrf \in BOOLEAN /\ cookie \in Payloads \cup {None} /\ sub \in Payloads \cup {None}
    BY Zenon DEF Init
  <2>2. /\ cache \in [Sessions -> Entries \cup {None}]
        /\ lock \in [Sessions -> Requests \cup {None}]
        /\ refresh \in [Requests -> Refreshes]
        /\ req \in [Requests -> Handlers]
    BY <1>0 DEF Init
  <2>3. issued \in 0..MaxToken
    BY DEF Init
  <2>4. /\ token \in [Tokens -> {"unissued", "active", "rotated", "revoked"}]
        /\ owner \in [Tokens -> Sessions \cup {None}]
    BY DEF Init
  <2> QED BY <2>1, <2>2, <2>3, <2>4 DEF Init, TypeOK
<1>2. Issued
  BY DEF Init, Issued, Tokens
<1>3. ASSUME NEW r \in Requests
      PROVE  SaneHandler(req[r], issued) /\ SaneRefresh(refresh[r])
  BY <1>0 DEF Init, SaneRefresh, NoRefresh
<1> QED BY <1>1, <1>2, <1>3 DEF Sane

\* Where a refresh is started or joined, refresh and lock keep their types, and the
\* refresh awaited is somebody's.
LEMMA RefreshStarts ==
    ASSUME Sane, NEW r \in Requests, NEW s \in Sessions, NEW t \in Tokens,
           RefreshWithLock(r, s, t)
    PROVE  /\ lock' \in [Sessions -> Requests \cup {None}]
           /\ refresh' \in [Requests -> Refreshes]
           /\ \A q \in Requests : SaneRefresh(refresh'[q])
           /\ Awaited(r, s) \in Requests
<1>1. /\ lock \in [Sessions -> Requests \cup {None}]
      /\ refresh \in [Requests -> Refreshes]
      /\ \A q \in Requests : SaneRefresh(refresh[q])
  BY DEF Sane, TypeOK
<1>2. CASE lock[s] # None
  BY <1>1, <1>2 DEF RefreshWithLock, Awaited
<1>3. CASE lock[s] = None
  <2> DEFINE f == [st |-> "sent", sid |-> s, tok |-> t, new |-> 0]
  <2>1. f \in Refreshes /\ SaneRefresh(f)
    BY BffConstants DEF Refreshes, SaneRefresh, Tokens
  <2>2. lock' = [lock EXCEPT ![s] = r] /\ refresh' = [refresh EXCEPT ![r] = f]
    BY <1>3 DEF RefreshWithLock
  <2> HIDE DEF f
  <2> QED BY <1>1, <1>3, <2>1, <2>2 DEF Awaited
<1> QED BY <1>2, <1>3

\* The token the cache or the request knows.
LEMMA CurrentIsToken ==
    ASSUME TypeOK, NEW p \in Payloads
    PROVE  p.sid \in Sessions /\ p.tok \in Tokens /\ CurrentToken(p) \in Tokens
<1>1. p.sid \in Sessions /\ p.tok \in Tokens
  BY DEF Payloads
<1>2. cache[p.sid] \in Entries \cup {None}
  BY <1>1 DEF TypeOK
<1> QED BY <1>1, <1>2 DEF CurrentToken, Entries

\* A handler that calls the backend, or first waits for an access token.
LEMMA StartCallSane ==
    ASSUME Sane, NEW r \in Requests, NEW k \in Kinds, StartCall(r, k)
    PROVE  Sane'
<1> DEFINE p == SessionOf(k)
           h == [Idle EXCEPT !.kind = k, !.session = p]
<1>1. p \in Payloads
  BY DEF StartCall, Admitted, SessionOf, Sane, TypeOK
<1>2. p.sid \in Sessions /\ CurrentToken(p) \in Tokens
  BY <1>1, CurrentIsToken DEF Sane
<1>0. Idle \in Handlers
  BY IdleIsSane
<1>3. ASSUME NEW q \in Requests \cup {None}, NEW pc \in {"wait", "call"}
      PROVE  [h EXCEPT !.pc = pc, !.on = q] \in Handlers
             /\ SaneHandler([h EXCEPT !.pc = pc, !.on = q], issued)
  <2> DEFINE x == [h EXCEPT !.pc = pc, !.on = q]
  <2>1. x \in Handlers
    BY <1>0, <1>1 DEF Handlers
  <2>2. x.pc = pc /\ x.kind = k /\ x.calls = 0 /\ x.effects = 0 /\ x.session = p
    BY DEF Idle
  <2>3. SaneHandler(x, issued)
    BY <1>1, <2>2 DEF SaneHandler, Authenticated, StartCall
  <2> QED BY <2>1, <2>3
<1>4. UNCHANGED <<cache, browser, backend, history>>
  BY DEF StartCall
<1>5. CASE IsFresh(p.sid) /\ UNCHANGED <<lock, refresh>>
           /\ req' = [req EXCEPT ![r] = [h EXCEPT !.pc = "call"]]
  <2> DEFINE x == [h EXCEPT !.pc = "call"]
  <2>a. x \in Handlers
    BY <1>0, <1>1 DEF Handlers
  <2>b. x.pc = "call" /\ x.kind = k /\ x.calls = 0 /\ x.effects = 0 /\ x.session = p
    BY DEF Idle
  <2>1. x \in Handlers /\ SaneHandler(x, issued)
    BY <1>1, <2>a, <2>b DEF SaneHandler, Authenticated, StartCall
  <2>2. /\ req' \in [Requests -> Handlers]
        /\ \A q \in Requests : SaneHandler(req'[q], issued')
    <3> HIDE DEF x
    <3> QED BY <1>4, <1>5, <2>1, OneHandler DEF backend, x
  <2> QED BY <2>2, <1>4, <1>5 DEF Sane, TypeOK, Issued, browser, backend, history
<1>6. CASE RefreshWithLock(r, p.sid, CurrentToken(p))
           /\ req' = [req EXCEPT ![r] = [h EXCEPT !.pc = "wait", !.on = Awaited(r, p.sid)]]
  <2>1. /\ lock' \in [Sessions -> Requests \cup {None}]
        /\ refresh' \in [Requests -> Refreshes]
        /\ \A q \in Requests : SaneRefresh(refresh'[q])
        /\ Awaited(r, p.sid) \in Requests
    BY <1>2, <1>6, RefreshStarts
  <2>2. /\ req' \in [Requests -> Handlers]
        /\ \A q \in Requests : SaneHandler(req'[q], issued')
    <3> HIDE DEF h, p
    <3> QED BY <1>3, <1>4, <1>6, <2>1, OneHandler DEF backend
  <2> QED BY <2>1, <2>2, <1>4 DEF Sane, TypeOK, Issued, browser, backend, history
<1> QED BY <1>5, <1>6 DEF StartCall

\* A login or a logout that is sent on, or answered at once.
LEMMA StartAuthSane ==
    ASSUME Sane, NEW r \in Requests, NEW k \in Kinds, StartAuth(r, k)
    PROVE  Sane'
<1> DEFINE h == [Idle EXCEPT !.kind = k, !.session = cookie, !.pc = "call"]
           x == IF k = "logout" /\ cookie = None THEN Respond(h, Clear) ELSE h
<1>1. Idle \in Handlers
  BY IdleIsSane
<1>2. h \in Handlers
  BY <1>1 DEF Handlers, Sane, TypeOK
<1>3. Clear \in CookieWrites
  BY BffConstants DEF Clear, CookieWrites
<1>4. Respond(h, Clear) \in Handlers /\ SaneHandler(Respond(h, Clear), issued)
  BY <1>2, <1>3, RespondIsSane
<1>5. h.pc = "call" /\ h.kind = k /\ h.calls = 0 /\ h.effects = 0 /\ h.session = cookie
  BY DEF Idle
<1>6. ~(k = "logout" /\ cookie = None) => SaneHandler(h, issued)
  BY <1>5 DEF SaneHandler, StartAuth, Sane, TypeOK
<1>7. x \in Handlers /\ SaneHandler(x, issued)
  BY <1>2, <1>4, <1>6
<1>8. /\ UNCHANGED <<cache, lock, refresh, browser, backend, history>>
      /\ req' = [req EXCEPT ![r] = x]
  BY DEF StartAuth
<1>9. /\ req' \in [Requests -> Handlers]
      /\ \A q \in Requests : SaneHandler(req'[q], issued')
  <2> HIDE DEF x
  <2> QED BY <1>7, <1>8, OneHandler DEF backend
<1> QED BY <1>8, <1>9 DEF Sane, TypeOK, Issued, browser, backend, history

\* The backend rotates a token or refuses it.
LEMMA RefreshAtBackendSane ==
    ASSUME Sane, NEW r \in Requests, RefreshAtBackend(r)
    PROVE  Sane'
<1> DEFINE f == refresh[r]
<1>1. f \in Refreshes /\ f.st = "sent" /\ f.sid \in Sessions /\ f.tok \in Tokens
  BY DEF RefreshAtBackend, Sane, TypeOK, SaneRefresh
<1>2. UNCHANGED <<cache, lock, req, browser, history>>
  BY DEF RefreshAtBackend
<1>3. CASE /\ token[f.tok] = "active"
           /\ issued < MaxToken
           /\ issued' = issued + 1
           /\ token' = [token EXCEPT ![f.tok] = "rotated", ![issued + 1] = "active"]
           /\ owner' = [owner EXCEPT ![issued + 1] = owner[f.tok]]
           /\ refresh' = [refresh EXCEPT ![r].st = "ok", ![r].new = issued + 1]
  <2>1. issued + 1 \in Tokens /\ issued' \in 0..MaxToken /\ issued \in Nat
    BY <1>3, BffConstants DEF Tokens, Sane, TypeOK
  <2>2. f.tok <= issued /\ owner[f.tok] \in Sessions
    <3>1. ~(f.tok > issued)
      BY <1>1, <1>3 DEF Sane, Issued
    <3>2. f.tok \in Nat
      BY <1>1, BffConstants DEF Tokens
    <3>3. f.tok <= issued
      BY <3>1, <3>2, <2>1
    <3> QED BY <1>1, <3>3 DEF Sane, Issued
  <2>3. /\ token' \in [Tokens -> {"unissued", "active", "rotated", "revoked"}]
        /\ owner' \in [Tokens -> Sessions \cup {None}]
    BY <1>1, <1>3, <2>1, <2>2 DEF Sane, TypeOK
  <2>4. Issued'
    BY <1>1, <1>3, <2>1, <2>2, BffConstants DEF Sane, TypeOK, Issued, Tokens
  <2>5. /\ refresh' \in [Requests -> Refreshes]
        /\ \A q \in Requests : SaneRefresh(refresh'[q])
    <3> DEFINE g == [f EXCEPT !.st = "ok", !.new = issued + 1]
    <3>1. refresh' = [refresh EXCEPT ![r] = g]
      BY <1>3 DEF Sane, TypeOK
    <3>2. issued + 1 \in 0..MaxToken
      BY <2>1, BffConstants DEF Tokens
    <3>3. g \in Refreshes /\ SaneRefresh(g)
      BY <1>1, <2>1, <3>2 DEF Refreshes, SaneRefresh
    <3> HIDE DEF g
    <3> QED BY <3>1, <3>3 DEF Sane, TypeOK
  <2>6. \A q \in Requests : SaneHandler(req'[q], issued')
    <3>1. 1..issued \subseteq 1..issued'
      BY <1>3, <2>1
    <3> QED BY <3>1, <1>2 DEF Sane, SaneHandler
  <2> QED BY <1>2, <2>1, <2>3, <2>4, <2>5, <2>6 DEF Sane, TypeOK, browser, history
<1>4. CASE refresh' = [refresh EXCEPT ![r].st = "refused"] /\ UNCHANGED backend
  <2>1. /\ refresh' \in [Requests -> Refreshes]
        /\ \A q \in Requests : SaneRefresh(refresh'[q])
    <3> DEFINE g == [f EXCEPT !.st = "refused"]
    <3>1. refresh' = [refresh EXCEPT ![r] = g]
      BY <1>4 DEF Sane, TypeOK
    <3>2. g \in Refreshes /\ SaneRefresh(g)
      BY <1>1 DEF Refreshes, SaneRefresh
    <3> HIDE DEF g
    <3> QED BY <3>1, <3>2 DEF Sane, TypeOK
  <2> QED BY <1>2, <1>4, <2>1 DEF Sane, TypeOK, Issued, browser, backend, history
<1> QED BY <1>3, <1>4 DEF RefreshAtBackend

\* A refresh that fails keeps its session and its tokens.
LEMMA RefreshFailsSane ==
    ASSUME Sane, NEW r \in Requests, RefreshFails(r)
    PROVE  Sane'
<1> DEFINE g == [refresh[r] EXCEPT !.st = "failed"]
<1>1. refresh[r] \in Refreshes /\ SaneRefresh(refresh[r]) /\ refresh[r].st # "none"
  BY DEF RefreshFails, Sane, TypeOK
<1>2. refresh' = [refresh EXCEPT ![r] = g]
  BY DEF RefreshFails, Sane, TypeOK
<1>3. g \in Refreshes /\ SaneRefresh(g)
  BY <1>1 DEF Refreshes, SaneRefresh
<1>4. /\ refresh' \in [Requests -> Refreshes]
      /\ \A q \in Requests : SaneRefresh(refresh'[q])
  <2> HIDE DEF g
  <2> QED BY <1>2, <1>3 DEF Sane, TypeOK
<1>5. UNCHANGED <<cache, lock, req, browser, backend, history>>
  BY DEF RefreshFails
<1> QED BY <1>4, <1>5 DEF Sane, TypeOK, Issued, browser, backend, history

\* A refresh that settles fills the cache and resumes its waiters.
LEMMA SettleRefreshSane ==
    ASSUME Sane, NEW r \in Requests, SettleRefresh(r)
    PROVE  Sane'
<1> DEFINE f == refresh[r]
           ok == f.st = "ok"
<1>1. f \in Refreshes /\ f.sid \in Sessions /\ (ok => f.new \in Tokens)
  BY DEF SettleRefresh, Sane, TypeOK, SaneRefresh
<1>2. cache' \in [Sessions -> Entries \cup {None}]
  <2>1. CASE ok
    <3>1. [tok |-> f.new, fresh |-> TRUE] \in Entries
      BY <1>1, <2>1 DEF Entries
    <3>2. cache' = [cache EXCEPT ![f.sid] = [tok |-> f.new, fresh |-> TRUE]]
      BY <2>1 DEF SettleRefresh
    <3> QED BY <3>1, <3>2 DEF Sane, TypeOK
  <2>2. CASE ~ok
    BY <2>2 DEF SettleRefresh, Sane, TypeOK
  <2> QED BY <2>1, <2>2
<1>3. lock' \in [Sessions -> Requests \cup {None}]
  BY DEF SettleRefresh, Sane, TypeOK
<1>4. /\ refresh' \in [Requests -> Refreshes]
      /\ \A q \in Requests : SaneRefresh(refresh'[q])
  <2>1. NoRefresh \in Refreshes
    BY IdleIsSane
  <2>2. SaneRefresh(NoRefresh)
    BY DEF SaneRefresh, NoRefresh
  <2>3. refresh' = [refresh EXCEPT ![r] = NoRefresh]
    BY DEF SettleRefresh
  <2> QED BY <2>1, <2>2, <2>3 DEF Sane, TypeOK
<1>5. UNCHANGED <<browser, backend, out, raced, crossed>> /\ lost' \subseteq Sessions
  BY <1>1 DEF SettleRefresh, Sane, TypeOK
<1>6. ASSUME NEW q \in Requests
      PROVE  req'[q] \in Handlers /\ SaneHandler(req'[q], issued)
  <2>1. req[q] \in Handlers /\ SaneHandler(req[q], issued)
    BY DEF Sane, TypeOK
  <2>2. CASE ~(req[q].pc = "wait" /\ req[q].on = r)
    BY <2>1, <2>2 DEF SettleRefresh
  <2>3. CASE req[q].pc = "wait" /\ req[q].on = r
    <3>1. req'[q] = Resumed(req[q], ok)
      BY <2>3 DEF SettleRefresh
    <3>2. CASE ok
      <4> DEFINE x == [req[q] EXCEPT !.pc = "call", !.on = None]
      <4>1. req'[q] = x
        BY <3>1, <3>2 DEF Resumed
      <4>2. x \in Handlers
        BY <2>1 DEF Handlers
      <4>3. /\ x.pc = "call" /\ x.calls = req[q].calls /\ x.effects = req[q].effects
            /\ x.session = req[q].session /\ x.kind = req[q].kind
        BY <2>1 DEF Handlers
      <4>4. SaneHandler(x, issued)
        BY <2>1, <2>3, <4>3 DEF SaneHandler
      <4> QED BY <4>1, <4>2, <4>4
    <3>3. CASE ~ok
      <4>1. req'[q] = Idle
        BY <3>1, <3>3 DEF Resumed, Respond
      <4> QED BY <4>1, IdleIsSane
    <3> QED BY <3>2, <3>3
  <2> QED BY <2>2, <2>3
<1>7. req' \in [Requests -> Handlers]
  <2>1. req' = [q \in Requests |-> IF req[q].pc = "wait" /\ req[q].on = r
                                   THEN Resumed(req[q], ok) ELSE req[q]]
    BY DEF SettleRefresh
  <2>2. \A q \in Requests : req'[q] \in Handlers
    BY <1>6
  <2> QED BY <2>1, <2>2
<1> QED BY <1>2, <1>3, <1>4, <1>5, <1>6, <1>7
        DEF Sane, TypeOK, Issued, browser, backend

\* An entry that expires or is swept.
LEMMA CacheAgesSane ==
    ASSUME Sane, NEW s \in Sessions, Expire(s) \/ Sweep(s)
    PROVE  Sane'
<1>1. cache' \in [Sessions -> Entries \cup {None}]
  <2>1. CASE Expire(s)
    <3> DEFINE e == [cache[s] EXCEPT !.fresh = FALSE]
    <3>1. cache[s] \in Entries
      BY <2>1 DEF Expire, IsFresh, Sane, TypeOK
    <3>2. e \in Entries
      BY <3>1 DEF Entries
    <3>3. cache' = [cache EXCEPT ![s] = e]
      BY <2>1 DEF Expire, Sane, TypeOK
    <3> HIDE DEF e
    <3> QED BY <3>2, <3>3 DEF Sane, TypeOK
  <2>2. CASE Sweep(s)
    BY <2>2 DEF Sweep, Sane, TypeOK
  <2> QED BY <2>1, <2>2
<1>2. UNCHANGED <<lock, refresh, req, browser, backend, out, raced, crossed>>
  BY DEF Expire, Sweep, history
<1>3. lost' \subseteq Sessions
  BY DEF Expire, Sweep, history, Sane, TypeOK
<1> QED BY <1>1, <1>2, <1>3 DEF Sane, TypeOK, Issued, browser, backend

\* A call takes effect at most once: it is repeated only after a 401.
LEMMA CallAtBackendSane ==
    ASSUME Sane, NEW r \in Requests, CallAtBackend(r)
    PROVE  Sane'
<1> DEFINE h == req[r]
<1>1. PICK st \in {"ok", "401", "error"}, e \in {0, 1} :
         /\ st = "401" => e = 0
         /\ req' = [req EXCEPT ![r].pc = "answered", ![r].status = st,
                               ![r].calls = h.calls + 1, ![r].effects = h.effects + e]
  BY DEF CallAtBackend
<1> DEFINE x == [h EXCEPT !.pc = "answered", !.status = st,
                          !.calls = h.calls + 1, !.effects = h.effects + e]
<1>2. h \in Handlers /\ SaneHandler(h, issued) /\ h.pc = "call" /\ Authenticated(h)
  BY DEF CallAtBackend, Sane, TypeOK
<1>3. req' = [req EXCEPT ![r] = x]
  BY <1>1 DEF Sane, TypeOK
<1>4. h.calls \in 0..1 /\ h.effects = 0
  BY <1>2 DEF SaneHandler, Handlers
<1>5. h.calls + 1 \in 0..2 /\ h.effects + e = e /\ e \in 0..2
  BY <1>4
<1>6. x \in Handlers
  BY <1>2, <1>5 DEF Handlers
<1>7. /\ x.pc = "answered" /\ x.status = st /\ x.effects = e
      /\ x.session = h.session /\ x.kind = h.kind
  BY <1>2, <1>5 DEF Handlers
<1>8. SaneHandler(x, issued)
  BY <1>1, <1>2, <1>7 DEF SaneHandler, Authenticated
<1>9. UNCHANGED <<cache, lock, refresh, browser, backend, history>>
  BY DEF CallAtBackend
<1>10. /\ req' \in [Requests -> Handlers]
       /\ \A q \in Requests : SaneHandler(req'[q], issued')
  <2> HIDE DEF x
  <2> QED BY <1>3, <1>6, <1>8, <1>9, OneHandler DEF backend
<1> QED BY <1>9, <1>10 DEF Sane, TypeOK, Issued, browser, backend, history

\* A login issues the next token, or none.
LEMMA LoginAtBackendSane ==
    ASSUME Sane, NEW r \in Requests, LoginAtBackend(r)
    PROVE  Sane'
<1> DEFINE h == req[r]
<1>1. h \in Handlers /\ SaneHandler(h, issued) /\ h.pc = "call" /\ h.kind = "login"
  BY DEF LoginAtBackend, Sane, TypeOK
<1>2. UNCHANGED <<cache, lock, refresh, browser, history>>
  BY DEF LoginAtBackend
<1>3. ASSUME NEW s \in Sessions, issued < MaxToken, issued' = issued + 1,
             token' = [token EXCEPT ![issued + 1] = "active"],
             owner' = [owner EXCEPT ![issued + 1] = s],
             req' = [req EXCEPT ![r].pc = "answered", ![r].status = "ok",
                                ![r].tok = issued + 1]
      PROVE  Sane'
  <2> DEFINE x == [h EXCEPT !.pc = "answered", !.status = "ok", !.tok = issued + 1]
  <2>1. /\ issued + 1 \in Tokens /\ issued' \in 0..MaxToken /\ issued \in Nat
        /\ issued + 1 \in 0..MaxToken /\ issued + 1 \in 1..issued'
    BY <1>3, BffConstants DEF Tokens, Sane, TypeOK
  <2>2. /\ token' \in [Tokens -> {"unissued", "active", "rotated", "revoked"}]
        /\ owner' \in [Tokens -> Sessions \cup {None}]
    BY <1>3, <2>1 DEF Sane, TypeOK
  <2>3. Issued'
    BY <1>3, <2>1, BffConstants DEF Sane, TypeOK, Issued, Tokens
  <2>4. req' = [req EXCEPT ![r] = x]
    BY <1>3 DEF Sane, TypeOK
  <2>5. x \in Handlers
    BY <1>1, <2>1 DEF Handlers
  <2>6. /\ x.pc = "answered" /\ x.status = "ok" /\ x.tok = issued + 1
        /\ x.effects = h.effects /\ x.kind = h.kind
    BY <1>1 DEF Handlers
  <2>7. SaneHandler(x, issued')
    BY <1>1, <2>1, <2>6 DEF SaneHandler
  <2>8. /\ req' \in [Requests -> Handlers]
        /\ \A q \in Requests : SaneHandler(req'[q], issued')
    <3> HIDE DEF x
    <3> QED BY <1>3, <2>4, <2>5, <2>7, OneHandler
  <2> QED BY <1>2, <2>1, <2>2, <2>3, <2>8 DEF Sane, TypeOK, browser, history
<1>4. ASSUME NEW st \in {"mfa", "error"}, UNCHANGED backend,
             req' = [req EXCEPT ![r].pc = "answered", ![r].status = st]
      PROVE  Sane'
  <2> DEFINE x == [h EXCEPT !.pc = "answered", !.status = st]
  <2>1. req' = [req EXCEPT ![r] = x]
    BY <1>4 DEF Sane, TypeOK
  <2>2. x \in Handlers
    BY <1>1 DEF Handlers
  <2>3. /\ x.pc = "answered" /\ x.status = st
        /\ x.effects = h.effects /\ x.kind = h.kind
    BY <1>1 DEF Handlers
  <2>4. SaneHandler(x, issued)
    BY <1>1, <2>3 DEF SaneHandler
  <2>5. /\ req' \in [Requests -> Handlers]
        /\ \A q \in Requests : SaneHandler(req'[q], issued')
    <3> HIDE DEF x
    <3> QED BY <1>4, <2>1, <2>2, <2>4, OneHandler DEF backend
  <2> QED BY <1>2, <1>4, <2>5 DEF Sane, TypeOK, Issued, browser, backend, history
<1> QED BY <1>3, <1>4 DEF LoginAtBackend

\* A logout revokes the token of its session, or none.
LEMMA LogoutAtBackendSane ==
    ASSUME Sane, NEW r \in Requests, LogoutAtBackend(r)
    PROVE  Sane'
<1> DEFINE h == req[r]
           t == h.session.tok
<1>1. h \in Handlers /\ SaneHandler(h, issued) /\ h.pc = "call" /\ h.kind = "logout"
  BY DEF LogoutAtBackend, Sane, TypeOK
<1>2. h.session \in Payloads /\ t \in Tokens
  BY <1>1 DEF SaneHandler, Payloads
<1>3. PICK st \in {"ok", "error"} :
         req' = [req EXCEPT ![r].pc = "answered", ![r].status = st]
  BY DEF LogoutAtBackend
<1> DEFINE x == [h EXCEPT !.pc = "answered", !.status = st]
<1>4. req' = [req EXCEPT ![r] = x]
  BY <1>3 DEF Sane, TypeOK
<1>5. x \in Handlers
  BY <1>1 DEF Handlers
<1>6. /\ x.pc = "answered" /\ x.status = st /\ x.session = h.session
      /\ x.effects = h.effects /\ x.kind = h.kind
  BY <1>1 DEF Handlers
<1>7. SaneHandler(x, issued)
  BY <1>1, <1>6 DEF SaneHandler
<1>8. UNCHANGED <<cache, lock, refresh, browser, issued, owner, history>>
  BY DEF LogoutAtBackend
<1>9. /\ req' \in [Requests -> Handlers]
      /\ \A q \in Requests : SaneHandler(req'[q], issued')
  <2> HIDE DEF x
  <2> QED BY <1>4, <1>5, <1>7, <1>8, OneHandler
<1>10. token' = token \/ (token[t] = "active" /\ token' = [token EXCEPT ![t] = "revoked"])
  BY DEF LogoutAtBackend
<1>11. token' \in [Tokens -> {"unissued", "active", "rotated", "revoked"}] /\ Issued'
  BY <1>2, <1>8, <1>10 DEF Sane, TypeOK, Issued
<1> QED BY <1>8, <1>9, <1>11 DEF Sane, TypeOK, browser, history

\* A call that is repeated waits without having had an effect.
LEMMA ForceRefreshSane ==
    ASSUME Sane, NEW r \in Requests, ForceRefresh(r)
    PROVE  Sane'
<1> DEFINE h == req[r]
           s == h.session.sid
           x == [h EXCEPT !.pc = "wait", !.status = "none", !.on = Awaited(r, s)]
<1>1. /\ h \in Handlers /\ SaneHandler(h, issued) /\ h.pc = "answered"
      /\ Authenticated(h) /\ Retries(h)
  BY DEF ForceRefresh, Sane, TypeOK
<1>2. h.session \in Payloads
  BY <1>1 DEF SaneHandler, Authenticated
<1>3. s \in Sessions /\ CurrentToken(h.session) \in Tokens
  BY <1>2, CurrentIsToken DEF Sane
<1>4. /\ lock' \in [Sessions -> Requests \cup {None}]
      /\ refresh' \in [Requests -> Refreshes]
      /\ \A q \in Requests : SaneRefresh(refresh'[q])
      /\ Awaited(r, s) \in Requests
  BY <1>3, RefreshStarts DEF ForceRefresh
<1>5. req' = [req EXCEPT ![r] = x]
  BY DEF ForceRefresh, Sane, TypeOK
<1>6. x \in Handlers
  BY <1>1, <1>4 DEF Handlers
<1>7. /\ x.pc = "wait" /\ x.session = h.session /\ x.calls = h.calls
      /\ x.effects = h.effects /\ x.kind = h.kind
  BY <1>1 DEF Handlers
<1>8. SaneHandler(x, issued)
  BY <1>1, <1>7 DEF SaneHandler, Retries, Authenticated
<1>9. UNCHANGED <<browser, backend, history>>
  BY DEF ForceRefresh
<1>10. /\ req' \in [Requests -> Handlers]
       /\ \A q \in Requests : SaneHandler(req'[q], issued')
  <2> HIDE DEF x
  <2> QED BY <1>5, <1>6, <1>8, <1>9, OneHandler DEF backend
<1>11. cache' \in [Sessions -> Entries \cup {None}]
  BY DEF ForceRefresh, Sane, TypeOK
<1> QED BY <1>4, <1>9, <1>10, <1>11 DEF Sane, TypeOK, Issued, browser, backend, history

\* The last step of a handler: it responds with some cookies, and leaves the backend,
\* the browser and the refreshes alone.
LEMMA RespondsSane ==
    ASSUME Sane, NEW r \in Requests, NEW w \in CookieWrites,
           \/ w = Keep
           \/ w = Clear
           \/ w.op \in {"rotate", "start"} /\ w.sid \in Sessions /\ w.tok \in Tokens,
           req' = [req EXCEPT ![r] = Respond(req[r], w)],
           cache' \in [Sessions -> Entries \cup {None}],
           lock' \in [Sessions -> Requests \cup {None}],
           UNCHANGED <<refresh, browser, backend, lost, crossed>>,
           out' \subseteq Sessions, raced' \subseteq Sessions
    PROVE  Sane'
<1>1. req[r] \in Handlers
  BY DEF Sane, TypeOK
<1>2. Respond(req[r], w) \in Handlers /\ SaneHandler(Respond(req[r], w), issued)
  BY <1>1, RespondIsSane
<1>3. /\ req' \in [Requests -> Handlers]
      /\ \A q \in Requests : SaneHandler(req'[q], issued')
  BY <1>2, OneHandler DEF backend
<1> QED BY <1>3 DEF Sane, TypeOK, Issued, browser, backend

\* What a response says that sets no cookie, or clears them.
LEMMA CookieConstants == Keep \in CookieWrites /\ Clear \in CookieWrites
BY BffConstants DEF Keep, Clear, CookieWrites

\* An error response ends the handler.
LEMMA FailCallSane ==
    ASSUME Sane, NEW r \in Requests, FailCall(r)
    PROVE  Sane'
<1>1. /\ req' = [req EXCEPT ![r] = Respond(req[r], Keep)]
      /\ UNCHANGED <<cache, lock, refresh, browser, backend, history>>
  BY DEF FailCall
<1> QED BY <1>1, CookieConstants, RespondsSane DEF Sane, TypeOK, history

\* A finished call writes at most the token of its session's entry.
LEMMA FinishCallSane ==
    ASSUME Sane, NEW r \in Requests, FinishCall(r)
    PROVE  Sane'
<1> DEFINE h == req[r]
           s == h.session.sid
<1>1. /\ h \in Handlers /\ SaneHandler(h, issued) /\ h.pc = "answered" /\ Authenticated(h)
      /\ cache \in [Sessions -> Entries \cup {None}]
  BY DEF FinishCall, Sane, TypeOK
<1>2. h.session \in Payloads /\ s \in Sessions
  BY <1>1 DEF SaneHandler, Authenticated, Payloads
<1>3. UNCHANGED <<lock, refresh, browser, backend, history>>
  BY DEF FinishCall
<1>4. CASE req' = [req EXCEPT ![r] = Respond(h, Keep)] /\ UNCHANGED cache
  BY <1>3, <1>4, CookieConstants, RespondsSane DEF Sane, TypeOK, history
<1>5. CASE req' = [req EXCEPT ![r] = Respond(h, Synced(h, cache))] /\ UNCHANGED cache
  <2>1. /\ Synced(h, cache) \in CookieWrites
        /\ \/ Synced(h, cache) = Keep
           \/ /\ Synced(h, cache).op \in {"rotate", "start"}
              /\ Synced(h, cache).sid \in Sessions
              /\ Synced(h, cache).tok \in Tokens
    BY <1>1, SyncedIsSane
  <2> QED BY <1>3, <1>5, <2>1, RespondsSane DEF Sane, TypeOK, history
<1>6. CASE /\ cache[s] # None
           /\ cache' = Elevated(s)
           /\ req' = [req EXCEPT ![r] = Respond(h, Synced(h, cache'))]
  <2> DEFINE e == [cache[s] EXCEPT !.fresh = TRUE]
  <2>1. cache[s] \in Entries
    BY <1>1, <1>2, <1>6
  <2>2. e \in Entries
    BY <2>1 DEF Entries
  <2>3. cache' = [cache EXCEPT ![s] = e]
    BY <1>1, <1>6 DEF Elevated
  <2>4. cache' \in [Sessions -> Entries \cup {None}]
    <3> HIDE DEF e
    <3> QED BY <1>1, <2>2, <2>3
  <2>5. /\ Synced(h, cache') \in CookieWrites
        /\ \/ Synced(h, cache') = Keep
           \/ /\ Synced(h, cache').op \in {"rotate", "start"}
              /\ Synced(h, cache').sid \in Sessions
              /\ Synced(h, cache').tok \in Tokens
    BY <1>1, <2>4, SyncedIsSane
  <2> QED BY <1>3, <1>6, <2>4, <2>5, RespondsSane DEF Sane, TypeOK, history
<1> QED BY <1>4, <1>5, <1>6 DEF FinishCall

\* A finished login caches the token it was issued.
LEMMA FinishLoginSane ==
    ASSUME Sane, NEW r \in Requests, FinishLogin(r)
    PROVE  Sane'
<1> DEFINE h == req[r]
           s == owner[h.tok]
           sync == Synced(h, cache)
           w == IF sync.op = "rotate" THEN [sync EXCEPT !.op = "start"]
                ELSE [op |-> "start", sid |-> s, tok |-> h.tok]
<1>1. /\ h \in Handlers /\ SaneHandler(h, issued) /\ h.pc = "answered" /\ h.kind = "login"
      /\ cache \in [Sessions -> Entries \cup {None}]
  BY DEF FinishLogin, Sane, TypeOK
<1>2. UNCHANGED <<lock, refresh, browser, backend, history>>
  BY DEF FinishLogin
<1>3. /\ sync \in CookieWrites
      /\ \/ sync = Keep
         \/ sync.op = "rotate" /\ sync.sid \in Sessions /\ sync.tok \in Tokens
  BY <1>1, SyncedIsSane
<1>4. CASE /\ h.status = "ok"
           /\ cache' = [cache EXCEPT ![s] = [tok |-> h.tok, fresh |-> TRUE]]
           /\ req' = [req EXCEPT ![r] = Respond(h, w)]
  <2>1. h.tok \in 1..issued
    BY <1>1, <1>4 DEF SaneHandler
  <2>2. h.tok \in Tokens /\ h.tok <= issued
    BY <2>1, BffConstants DEF Sane, TypeOK, Tokens
  <2>3. s \in Sessions
    BY <2>2 DEF Sane, Issued
  <2>4. cache' \in [Sessions -> Entries \cup {None}]
    <3>1. [tok |-> h.tok, fresh |-> TRUE] \in Entries
      BY <2>2 DEF Entries
    <3> QED BY <1>1, <1>4, <3>1
  <2>5. w \in CookieWrites /\ w.op = "start" /\ w.sid \in Sessions /\ w.tok \in Tokens
    <3>1. CASE sync.op = "rotate"
      <4>1. sync \in CookieWrites /\ sync.sid \in Sessions /\ sync.tok \in Tokens
        BY <1>3, <3>1 DEF Keep
      <4> HIDE DEF sync
      <4> QED BY <3>1, <4>1 DEF CookieWrites
    <3>2. CASE sync.op # "rotate"
      <4>1. h.tok \in 0..MaxToken
        BY <2>2, BffConstants DEF Tokens
      <4> QED BY <3>2, <2>2, <2>3, <4>1 DEF CookieWrites
    <3> QED BY <3>1, <3>2
  <2> HIDE DEF w
  <2> QED BY <1>2, <1>4, <2>4, <2>5, RespondsSane DEF Sane, TypeOK, history
<1>5. CASE req' = [req EXCEPT ![r] = Respond(h, sync)] /\ UNCHANGED cache
  <2> HIDE DEF sync
  <2> QED BY <1>2, <1>3, <1>5, RespondsSane DEF Sane, TypeOK, history
<1>6. CASE req' = [req EXCEPT ![r] = Respond(h, Keep)] /\ UNCHANGED cache
  BY <1>2, <1>6, CookieConstants, RespondsSane DEF Sane, TypeOK, history
<1> QED BY <1>4, <1>5, <1>6 DEF FinishLogin

\* A finished logout drops the entry and the lock.
LEMMA FinishLogoutSane ==
    ASSUME Sane, NEW r \in Requests, FinishLogout(r)
    PROVE  Sane'
<1> DEFINE h == req[r]
           s == h.session.sid
<1>1. h.session \in Payloads /\ s \in Sessions
  BY DEF FinishLogout, Sane, TypeOK, SaneHandler, Payloads
<1>2. /\ req' = [req EXCEPT ![r] = Respond(h, Clear)]
      /\ UNCHANGED <<refresh, browser, backend, lost, crossed>>
      /\ cache' \in [Sessions -> Entries \cup {None}]
      /\ lock' \in [Sessions -> Requests \cup {None}]
  BY DEF FinishLogout, Invalidated, Sane, TypeOK
<1>3. out' \subseteq Sessions /\ raced' \subseteq Sessions
  BY <1>1 DEF FinishLogout, Sane, TypeOK
<1> QED BY <1>2, <1>3, CookieConstants, RespondsSane

\* A delivered response leaves a payload in the cookie, or nothing.
LEMMA DeliverSane ==
    ASSUME Sane, NEW r \in Requests, Deliver(r) \/ LoseResponse(r)
    PROVE  Sane'
<1>1. req[r].pc = "respond" /\ req' = [req EXCEPT ![r] = Idle]
  BY DEF Deliver, LoseResponse
<1>2. UNCHANGED <<cache, lock, refresh, sub, backend, lost, out, raced>>
  BY DEF Deliver, LoseResponse, browser, history
<1>3. /\ req' \in [Requests -> Handlers]
      /\ \A q \in Requests : SaneHandler(req'[q], issued')
  BY <1>1, <1>2, IdleIsSane, OneHandler DEF backend
<1>4. cookie' \in Payloads \cup {None}
  <2>1. CASE Deliver(r)
    <3> DEFINE w == req[r].set
    <3>1. \/ w = Clear
          \/ w.op \in {"rotate", "start"} /\ w.sid \in Sessions /\ w.tok \in Tokens
      BY <1>1 DEF Sane, SaneHandler
    <3>2. CASE w.op = "clear"
      BY <2>1, <3>2 DEF Deliver
    <3>3. CASE w.op # "clear"
      <4>1. cookie' = [sid |-> w.sid, tok |-> w.tok]
        BY <2>1, <3>3 DEF Deliver
      <4>2. w.sid \in Sessions /\ w.tok \in Tokens
        BY <3>1, <3>3 DEF Clear
      <4> HIDE DEF w
      <4> QED BY <4>1, <4>2 DEF Payloads
    <3> QED BY <3>2, <3>3
  <2>2. CASE LoseResponse(r)
    BY <2>2 DEF LoseResponse, browser, Sane, TypeOK
  <2> QED BY <2>1, <2>2
<1>5. csrf' \in BOOLEAN
  <2>1. csrf \in BOOLEAN
    BY DEF Sane, TypeOK
  <2>2. CASE Deliver(r)
    <3>1. csrf' = CsrfAfter(req[r].set)
      BY <2>2 DEF Deliver
    <3> QED BY <2>1, <3>1, Zenon DEF CsrfAfter
  <2>3. CASE LoseResponse(r)
    BY <2>1, <2>3 DEF LoseResponse, browser
  <2> QED BY <2>2, <2>3
<1>6. crossed' \subseteq Sessions
  BY DEF Deliver, LoseResponse, history, Sane, TypeOK
<1> QED BY <1>2, <1>3, <1>4, <1>5, <1>6 DEF Sane, TypeOK, Issued, backend

\* A poller takes the payload of the cookie.
LEMMA SubscribeSane == Sane /\ Subscribe => Sane'
BY DEF Sane, TypeOK, Issued, Subscribe, backend, history

\* A restart leaves the cookies and the backend.
LEMMA RestartSane ==
    ASSUME Sane, NEW k \in BOOLEAN, Restart(k)
    PROVE  Sane'
<1>1. /\ Idle \in Handlers /\ NoRefresh \in Refreshes /\ SaneHandler(Idle, issued)
      /\ SaneRefresh(NoRefresh)
  BY IdleIsSane DEF SaneRefresh, NoRefresh
<1>2. /\ cache' \in [Sessions -> Entries \cup {None}]
      /\ lock' \in [Sessions -> Requests \cup {None}]
      /\ refresh' \in [Requests -> Refreshes]
      /\ req' \in [Requests -> Handlers]
      /\ \A q \in Requests : req'[q] = Idle /\ refresh'[q] = NoRefresh
  BY <1>1 DEF Restart
<1>3. UNCHANGED <<csrf, backend, out, raced, crossed>>
      /\ cookie' \in Payloads \cup {None} /\ sub' \in Payloads \cup {None}
  BY DEF Restart, Sane, TypeOK
<1>4. lost' \subseteq Sessions
  <2>1. \A t \in 1..issued : t \in Tokens /\ t <= issued
    BY BffConstants DEF Sane, TypeOK, Tokens
  <2>2. \A t \in 1..issued : owner[t] \in Sessions
    BY <2>1 DEF Sane, Issued
  <2> QED BY <2>2 DEF Restart, Sane, TypeOK
<1> QED BY <1>1, <1>2, <1>3, <1>4 DEF Sane, TypeOK, Issued, backend

\* Every step keeps the shape of the state.
LEMMA NextSane == Sane /\ [Next]_vars => Sane'
<1> SUFFICES ASSUME Sane, [Next]_vars PROVE Sane'
  OBVIOUS
<1>1. CASE UNCHANGED vars
  BY <1>1 DEF vars, Sane, TypeOK, Issued
<1>2. CASE Next
  BY <1>2, StartCallSane, StartAuthSane, RefreshAtBackendSane, RefreshFailsSane,
     SettleRefreshSane, CacheAgesSane, CallAtBackendSane, LoginAtBackendSane,
     LogoutAtBackendSane, ForceRefreshSane, FailCallSane, FinishCallSane,
     FinishLoginSane, FinishLogoutSane, DeliverSane, SubscribeSane, RestartSane
  DEF Next
<1> QED BY <1>1, <1>2

\* TypeOK, and what a handler's phase says of it, hold throughout: a handler in
\* progress has a session, a response writes a whole cookie or none, a token that was
\* issued has its family.
THEOREM HandlersAreSane == Spec => []Sane
BY InitSane, NextSane, PTL DEF Spec

\* A call that requestRaw repeats after a 401 takes effect at most once.
THEOREM CallsAreAppliedOnce == Spec => []AppliedOnce
<1>1. Sane => AppliedOnce
  BY DEF Sane, SaneHandler, AppliedOnce
<1> QED BY <1>1, HandlersAreSane, PTL

-------------------------------------------------------------------------------
(* Refreshes in flight *)

\* The request that has started a refresh waits for it.
Owned ==
    \A r \in Requests :
        refresh[r].st # "none" => req[r].pc = "wait" /\ req[r].on = r

\* A lock is held for a refresh of its session that is under way.
Locked ==
    \A s \in Sessions :
        lock[s] # None => refresh[lock[s]].st # "none" /\ refresh[lock[s]].sid = s

\* Before a logout, a refresh under way holds the lock of its session.
Single ==
    \A r \in Requests :
        refresh[r].st # "none" /\ refresh[r].sid \notin out => lock[refresh[r].sid] = r

Flights == Owned /\ Locked /\ Single /\ WaitersAreResumed

\* A step that neither starts nor ends a refresh.
LEMMA FlightsKept ==
    ASSUME Sane, Flights,
           \A q \in Requests : req[q].pc = "wait" \/ req'[q].pc = "wait" => req'[q] = req[q],
           \A q \in Requests : /\ refresh'[q].st = "none" <=> refresh[q].st = "none"
                               /\ refresh'[q].sid = refresh[q].sid,
           UNCHANGED <<lock, out>>
    PROVE  Flights'
<1> USE DEF Flights
<1>1. Owned'
  BY DEF Owned
<1>2. Locked'
  BY DEF Locked, Sane, TypeOK
<1>3. Single'
  BY DEF Single
<1>4. WaitersAreResumed'
  <2> SUFFICES ASSUME NEW r \in Requests, req'[r].pc = "wait"
               PROVE  /\ req'[r].on # None
                      /\ refresh'[req'[r].on].st # "none"
                      /\ refresh'[req'[r].on].sid = req'[r].session.sid
    BY DEF WaitersAreResumed
  <2>1. req'[r] = req[r] /\ req[r].on \in Requests
    BY DEF WaitersAreResumed, Sane, TypeOK, Handlers
  <2> QED BY <2>1 DEF WaitersAreResumed
<1> QED BY <1>1, <1>2, <1>3, <1>4

\* A step in which r joins the refresh of its session, or starts one.
LEMMA FlightBegins ==
    ASSUME Sane, Flights, NEW r \in Requests, NEW s \in Sessions, NEW t \in Tokens,
           NEW h \in Handlers,
           req[r].pc # "wait", RefreshWithLock(r, s, t),
           req' = [req EXCEPT ![r] = h],
           h.pc = "wait", h.on = Awaited(r, s), h.session.sid = s,
           UNCHANGED out
    PROVE  Flights'
<1> USE DEF Flights
<1>1. refresh[r].st = "none"
  BY DEF Owned
<1>2. /\ lock \in [Sessions -> Requests \cup {None}]
      /\ refresh \in [Requests -> Refreshes]
      /\ req \in [Requests -> Handlers]
  BY DEF Sane, TypeOK
<1>3. /\ req'[r] = h
      /\ \A q \in Requests \ {r} : req'[q] = req[q]
  BY <1>2
<1>4. \A q \in Requests : req[q].pc = "wait" => req[q].on \in Requests /\ req[q].on # r
  BY <1>1, <1>2 DEF WaitersAreResumed, Handlers
<1>5. CASE lock[s] # None
  <2>1. lock' = lock /\ refresh' = refresh /\ h.on = lock[s]
    BY <1>5 DEF RefreshWithLock, Awaited
  <2>2. Owned'
    BY <1>1, <1>3, <2>1 DEF Owned
  <2>3. Locked' /\ Single'
    BY <2>1 DEF Locked, Single
  <2>4. WaitersAreResumed'
    BY <1>3, <1>5, <2>1 DEF WaitersAreResumed, Locked
  <2> QED BY <2>2, <2>3, <2>4
<1>6. CASE lock[s] = None
  <2> DEFINE f == [st |-> "sent", sid |-> s, tok |-> t, new |-> 0]
  <2>1. lock' = [lock EXCEPT ![s] = r] /\ refresh' = [refresh EXCEPT ![r] = f] /\ h.on = r
    BY <1>6 DEF RefreshWithLock, Awaited
  <2>2. /\ refresh'[r].st = "sent" /\ refresh'[r].sid = s
        /\ \A q \in Requests \ {r} : refresh'[q] = refresh[q]
    BY <1>2, <2>1
  <2>3. /\ lock'[s] = r
        /\ \A u \in Sessions \ {s} : lock'[u] = lock[u]
    BY <1>2, <2>1
  <2>4. Owned'
    BY <1>3, <2>1, <2>2 DEF Owned
  <2>5. Locked'
    BY <1>1, <1>2, <2>2, <2>3, BffConstants DEF Locked
  <2>6. Single'
    <3> SUFFICES ASSUME NEW q \in Requests, refresh'[q].st # "none", refresh'[q].sid \notin out
                 PROVE  lock'[refresh'[q].sid] = q
      BY DEF Single
    <3>1. CASE q = r
      BY <3>1, <2>2, <2>3
    <3>2. CASE q # r
      <4>1. lock[refresh[q].sid] = q /\ refresh[q].sid \in Sessions
        BY <3>2, <2>2 DEF Single, Sane, SaneRefresh
      <4> QED BY <4>1, <3>2, <2>2, <2>3, <1>6, BffConstants
    <3> QED BY <3>1, <3>2
  <2>7. WaitersAreResumed'
    BY <1>3, <1>4, <2>1, <2>2, BffConstants DEF WaitersAreResumed
  <2> QED BY <2>4, <2>5, <2>6, <2>7
<1> QED BY <1>5, <1>6

\* A refresh that settles has nobody left who waits for it.
LEMMA SettleFlights ==
    ASSUME Sane, Flights, NEW r \in Requests, SettleRefresh(r)
    PROVE  Flights'
<1> USE DEF Flights
<1> DEFINE f == refresh[r]
<1>1. /\ lock \in [Sessions -> Requests \cup {None}]
      /\ refresh \in [Requests -> Refreshes]
      /\ req \in [Requests -> Handlers]
      /\ f.st # "none" /\ f.sid \in Sessions
  BY DEF Sane, TypeOK, SettleRefresh, SaneRefresh
<1>2. /\ refresh'[r].st = "none"
      /\ \A q \in Requests \ {r} : refresh'[q] = refresh[q]
  BY <1>1 DEF SettleRefresh, NoRefresh
<1>3. /\ lock'[f.sid] = None
      /\ \A u \in Sessions \ {f.sid} : lock'[u] = lock[u]
  BY <1>1 DEF SettleRefresh
<1>4. ASSUME NEW q \in Requests
      PROVE  /\ req[q].pc = "wait" /\ req[q].on # r => req'[q] = req[q]
             /\ req'[q].pc = "wait" => req[q] = req'[q] /\ req[q].on # r
  <2>1. CASE ~(req[q].pc = "wait" /\ req[q].on = r)
    BY <2>1 DEF SettleRefresh
  <2>2. CASE req[q].pc = "wait" /\ req[q].on = r
    <3>1. req'[q] = Resumed(req[q], f.st = "ok") /\ req[q] \in Handlers
      BY <1>1, <2>2 DEF SettleRefresh
    <3>2. req'[q].pc # "wait"
      BY <3>1 DEF Resumed, Respond, Idle, Handlers
    <3> QED BY <2>2, <3>2
  <2> QED BY <2>1, <2>2
<1>5. Owned'
  <2> SUFFICES ASSUME NEW q \in Requests, refresh'[q].st # "none"
               PROVE  req'[q].pc = "wait" /\ req'[q].on = q
    BY DEF Owned
  <2>1. q # r /\ refresh'[q] = refresh[q]
    BY <1>2
  <2>2. req[q].pc = "wait" /\ req[q].on = q
    BY <2>1 DEF Owned
  <2> QED BY <1>4, <2>1, <2>2
<1>6. Locked'
  <2> SUFFICES ASSUME NEW u \in Sessions, lock'[u] # None
               PROVE  refresh'[lock'[u]].st # "none" /\ refresh'[lock'[u]].sid = u
    BY DEF Locked
  <2>1. u # f.sid /\ lock'[u] = lock[u] /\ lock[u] \in Requests
    BY <1>1, <1>3
  <2>2. refresh[lock[u]].st # "none" /\ refresh[lock[u]].sid = u
    BY <2>1 DEF Locked
  <2> QED BY <1>2, <2>1, <2>2
<1>7. Single'
  <2> SUFFICES ASSUME NEW q \in Requests, refresh'[q].st # "none", refresh'[q].sid \notin out'
               PROVE  lock'[refresh'[q].sid] = q
    BY DEF Single
  <2>1. q # r /\ refresh'[q] = refresh[q] /\ out' = out
    BY <1>2 DEF SettleRefresh
  <2>2. lock[refresh[q].sid] = q /\ refresh[q].sid \in Sessions
    BY <2>1 DEF Single, Sane, SaneRefresh
  <2>3. refresh[q].sid # f.sid
    BY <1>1, <2>1, <2>2 DEF Single
  <2> QED BY <1>3, <2>1, <2>2, <2>3
<1>8. WaitersAreResumed'
  <2> SUFFICES ASSUME NEW q \in Requests, req'[q].pc = "wait"
               PROVE  /\ req'[q].on # None
                      /\ refresh'[req'[q].on].st # "none"
                      /\ refresh'[req'[q].on].sid = req'[q].session.sid
    BY DEF WaitersAreResumed
  <2>1. req'[q] = req[q] /\ req[q].on # r
    BY <1>4
  <2>2. /\ req[q].on \in Requests
        /\ refresh[req[q].on].st # "none"
        /\ refresh[req[q].on].sid = req[q].session.sid
    BY <1>1, <2>1 DEF WaitersAreResumed, Handlers
  <2> QED BY <1>2, <2>1, <2>2, BffConstants
<1> QED BY <1>5, <1>6, <1>7, <1>8

\* A step of a handler that waits neither before nor after it.
LEMMA QuietStep ==
    ASSUME Sane, Flights, NEW r \in Requests, NEW h,
           req' = [req EXCEPT ![r] = h], req[r].pc # "wait", h.pc # "wait",
           UNCHANGED <<refresh, lock, out>>
    PROVE  Flights'
<1>1. \A q \in Requests : req[q].pc = "wait" \/ req'[q].pc = "wait" => req'[q] = req[q]
  BY DEF Sane, TypeOK
<1> QED BY <1>1, FlightsKept

\* A handler that responds waits for nothing.
LEMMA RespondDoesNotWait ==
    ASSUME NEW h, NEW w
    PROVE  Respond(h, w).pc # "wait"
BY DEF Respond, Idle

\* A handler joins the refresh of its session, starts one, or needs none.
LEMMA StartCallFlights ==
    ASSUME Sane, Flights, NEW r \in Requests, NEW k \in Kinds, StartCall(r, k)
    PROVE  Flights'
<1> DEFINE p == SessionOf(k)
           h == [Idle EXCEPT !.kind = k, !.session = p]
<1>1. p \in Payloads
  BY DEF StartCall, Admitted, SessionOf, Sane, TypeOK
<1>2. p.sid \in Sessions /\ CurrentToken(p) \in Tokens
  BY <1>1, CurrentIsToken DEF Sane
<1>3. req[r].pc # "wait" /\ out' = out
  BY DEF StartCall, history
<1>4. CASE UNCHANGED <<lock, refresh>> /\ req' = [req EXCEPT ![r] = [h EXCEPT !.pc = "call"]]
  <2> DEFINE x == [h EXCEPT !.pc = "call"]
  <2>1. x.pc = "call"
    BY DEF Idle
  <2> HIDE DEF x
  <2> QED BY <1>3, <1>4, <2>1, QuietStep DEF x
<1>5. CASE RefreshWithLock(r, p.sid, CurrentToken(p))
           /\ req' = [req EXCEPT ![r] = [h EXCEPT !.pc = "wait", !.on = Awaited(r, p.sid)]]
  <2> DEFINE x == [h EXCEPT !.pc = "wait", !.on = Awaited(r, p.sid)]
  <2>1. x.pc = "wait" /\ x.on = Awaited(r, p.sid) /\ x.session = p
    BY DEF Idle
  <2>2. Awaited(r, p.sid) \in Requests
    BY <1>2, <1>5, RefreshStarts
  <2>3. Idle \in Handlers
    BY IdleIsSane
  <2>4. x \in Handlers
    BY <1>1, <2>2, <2>3 DEF Handlers
  <2>5. x.session.sid = p.sid /\ req' = [req EXCEPT ![r] = x]
    BY <1>5, <2>1
  <2> HIDE DEF x, p
  <2> QED BY <1>2, <1>3, <1>5, <2>1, <2>4, <2>5, FlightBegins
<1> QED BY <1>4, <1>5 DEF StartCall

\* So does one that repeats its call.
LEMMA ForceRefreshFlights ==
    ASSUME Sane, Flights, NEW r \in Requests, ForceRefresh(r)
    PROVE  Flights'
<1> DEFINE h == req[r]
           s == h.session.sid
           x == [h EXCEPT !.pc = "wait", !.status = "none", !.on = Awaited(r, s)]
<1>1. h \in Handlers /\ SaneHandler(h, issued) /\ h.pc = "answered" /\ Authenticated(h)
  BY DEF ForceRefresh, Sane, TypeOK
<1>2. h.session \in Payloads
  BY <1>1 DEF SaneHandler, Authenticated
<1>3. s \in Sessions /\ CurrentToken(h.session) \in Tokens
  BY <1>2, CurrentIsToken DEF Sane
<1>4. RefreshWithLock(r, s, CurrentToken(h.session)) /\ Awaited(r, s) \in Requests
  BY <1>3, RefreshStarts DEF ForceRefresh
<1>5. req' = [req EXCEPT ![r] = x] /\ out' = out
  BY DEF ForceRefresh, Sane, TypeOK, history
<1>6. x \in Handlers
  BY <1>1, <1>4 DEF Handlers
<1>7. x.pc = "wait" /\ x.session = h.session /\ x.on = Awaited(r, s)
  BY <1>1 DEF Handlers
<1> HIDE DEF x
<1> QED BY <1>1, <1>3, <1>4, <1>5, <1>6, <1>7, FlightBegins

\* A logout drops a lock; its refresh stays awaited.
LEMMA FinishLogoutFlights ==
    ASSUME Sane, Flights, NEW r \in Requests, FinishLogout(r)
    PROVE  Flights'
<1> USE DEF Flights
<1> DEFINE s == req[r].session.sid
<1>1. s \in Sessions /\ req[r].pc = "answered"
  BY DEF FinishLogout, Sane, TypeOK, SaneHandler, Payloads
<1>2. /\ refresh' = refresh /\ out' = out \cup {s}
      /\ lock' = [lock EXCEPT ![s] = None]
      /\ req' = [req EXCEPT ![r] = Respond(req[r], Clear)]
  BY DEF FinishLogout
<1>3. \A q \in Requests : req[q].pc = "wait" \/ req'[q].pc = "wait" => req'[q] = req[q]
  BY <1>1, <1>2, RespondDoesNotWait DEF Sane, TypeOK
<1>4. Owned'
  BY <1>2, <1>3 DEF Owned
<1>5. Locked'
  BY <1>1, <1>2 DEF Locked, Sane, TypeOK
<1>6. Single'
  <2> SUFFICES ASSUME NEW q \in Requests, refresh[q].st # "none", refresh[q].sid \notin out'
               PROVE  lock'[refresh[q].sid] = q
    BY <1>2 DEF Single
  <2>1. lock[refresh[q].sid] = q /\ refresh[q].sid # s /\ refresh[q].sid \in Sessions
    BY <1>2 DEF Single, Sane, SaneRefresh
  <2> QED BY <1>2, <2>1 DEF Sane, TypeOK
<1>7. WaitersAreResumed'
  BY <1>2, <1>3 DEF WaitersAreResumed
<1> QED BY <1>4, <1>5, <1>6, <1>7

\* A restart ends every refresh, and every handler with it.
LEMMA RestartFlights ==
    ASSUME Sane, Flights, NEW k \in BOOLEAN, Restart(k)
    PROVE  Flights'
<1>1. \A r \in Requests : req'[r].pc = "idle" /\ refresh'[r].st = "none"
  BY DEF Restart, Idle, NoRefresh
<1>2. \A s \in Sessions : lock'[s] = None
  BY DEF Restart
<1> QED BY <1>1, <1>2 DEF Flights, Owned, Locked, Single, WaitersAreResumed

\* Every step keeps refreshes, locks and waiters together.
LEMMA NextFlights == Sane /\ Flights /\ [Next]_vars => Flights'
<1> SUFFICES ASSUME Sane, Flights, [Next]_vars PROVE Flights'
  OBVIOUS
<1>1. CASE UNCHANGED vars
  BY <1>1 DEF vars, Flights, Owned, Locked, Single, WaitersAreResumed
<1>2. ASSUME NEW r \in Requests, NEW k \in Kinds, StartAuth(r, k)
      PROVE  Flights'
  <2> DEFINE h == [Idle EXCEPT !.kind = k, !.session = cookie, !.pc = "call"]
             x == IF k = "logout" /\ cookie = None THEN Respond(h, Clear) ELSE h
  <2>1. h.pc = "call"
    BY DEF Idle
  <2>2. x.pc # "wait"
    BY <2>1, RespondDoesNotWait
  <2>3. /\ req' = [req EXCEPT ![r] = x] /\ req[r].pc # "wait"
        /\ UNCHANGED <<refresh, lock, out>>
    BY <1>2 DEF StartAuth, history
  <2> HIDE DEF x
  <2> QED BY <2>2, <2>3, QuietStep
<1>3. ASSUME NEW r \in Requests, RefreshAtBackend(r) \/ RefreshFails(r)
      PROVE  Flights'
  <2>1. UNCHANGED <<req, lock, out>>
    BY <1>3 DEF RefreshAtBackend, RefreshFails, history
  <2>2. \A q \in Requests : /\ refresh'[q].st = "none" <=> refresh[q].st = "none"
                            /\ refresh'[q].sid = refresh[q].sid
    BY <1>3 DEF RefreshAtBackend, RefreshFails, Sane, TypeOK, Refreshes
  <2> QED BY <2>1, <2>2, FlightsKept
<1>4. ASSUME NEW r \in Requests,
             CallAtBackend(r) \/ LoginAtBackend(r) \/ LogoutAtBackend(r)
      PROVE  Flights'
  <2>1. req[r] \in Handlers /\ req[r].pc # "wait" /\ UNCHANGED <<refresh, lock, out>>
    BY <1>4 DEF CallAtBackend, LoginAtBackend, LogoutAtBackend, history, Sane, TypeOK
  <2>2. req'[r].pc = "answered" /\ \A q \in Requests \ {r} : req'[q] = req[q]
    BY <1>4 DEF CallAtBackend, LoginAtBackend, LogoutAtBackend, Sane, TypeOK, Handlers
  <2> QED BY <2>1, <2>2, FlightsKept
<1>5. ASSUME NEW r \in Requests, FailCall(r) \/ FinishCall(r) \/ FinishLogin(r)
      PROVE  Flights'
  <2>1. PICK w : req' = [req EXCEPT ![r] = Respond(req[r], w)]
    BY <1>5 DEF FailCall, FinishCall, FinishLogin
  <2>2. req[r].pc # "wait" /\ UNCHANGED <<refresh, lock, out>>
    BY <1>5 DEF FailCall, FinishCall, FinishLogin, history
  <2> QED BY <2>1, <2>2, RespondDoesNotWait, QuietStep
<1>6. ASSUME NEW r \in Requests, Deliver(r) \/ LoseResponse(r)
      PROVE  Flights'
  <2>1. req' = [req EXCEPT ![r] = Idle] /\ req[r].pc # "wait" /\ Idle.pc # "wait"
    BY <1>6 DEF Deliver, LoseResponse, Idle
  <2>2. UNCHANGED <<refresh, lock, out>>
    BY <1>6 DEF Deliver, LoseResponse, history
  <2> QED BY <2>1, <2>2, QuietStep
<1>7. ASSUME NEW s \in Sessions, Expire(s) \/ Sweep(s)
      PROVE  Flights'
  <2>1. UNCHANGED <<req, refresh, lock, out>>
    BY <1>7 DEF Expire, Sweep, history
  <2> QED BY <2>1, FlightsKept
<1>8. CASE Subscribe
  <2>1. UNCHANGED <<req, refresh, lock, out>>
    BY <1>8 DEF Subscribe, history
  <2> QED BY <2>1, FlightsKept
<1> QED BY <1>1, <1>2, <1>3, <1>4, <1>5, <1>6, <1>7, <1>8, StartCallFlights,
           ForceRefreshFlights, SettleFlights, FinishLogoutFlights, RestartFlights
        DEF Next

\* Refreshes, locks and waiting requests fit together, whatever a logout drops.
THEOREM FlightInvariant == Spec => [](Sane /\ Flights)
<1>1. Init => Flights
  BY DEF Init, Flights, Owned, Locked, Single, WaitersAreResumed, Idle, NoRefresh
<1> QED BY <1>1, InitSane, NextSane, NextFlights, PTL DEF Spec

\* The refresh a request waits for is under way, so it will settle and resume it.
THEOREM NobodyWaitsForNothing == Spec => []WaitersAreResumed
<1>1. Sane /\ Flights => WaitersAreResumed
  BY DEF Flights
<1> QED BY <1>1, FlightInvariant, PTL

\* Single flight: a session has two refreshes under way only after its logout.
THEOREM SingleFlight == Spec => []OneRefreshPerSession
<1>1. Sane /\ Flights => OneRefreshPerSession
  BY DEF Flights, Single, OneRefreshPerSession
<1> QED BY <1>1, FlightInvariant, PTL

-------------------------------------------------------------------------------
(* The CSRF cookie *)

\* While the CSRF cookie is missing, requests that may still write the session cookie
\* belong to a session that was in use when the cookies were cleared.
Guarded ==
    /\ CsrfFollowsSession
    /\ \A r \in Requests :
          req[r].session # None /\ req[r].kind # "poll"
              => csrf \/ req[r].session.sid \in crossed
    /\ \A r \in Requests :
          req[r].pc = "respond" /\ req[r].set.op = "rotate"
              => /\ req[r].session \in Payloads
                 /\ req[r].set.sid = req[r].session.sid

\* A step that leaves the cookies alone and changes one handler: it keeps its session,
\* gives it up, or takes the cookie's.
LEMMA GuardedKept ==
    ASSUME Sane, Guarded, NEW r \in Requests, NEW h,
           req' = [req EXCEPT ![r] = h],
           UNCHANGED <<cookie, csrf, crossed>>,
           \/ h.session = None
           \/ h.kind = "poll"
           \/ h.session = cookie
           \/ h.session = req[r].session /\ req[r].kind # "poll",
           h.pc = "respond" /\ h.set.op = "rotate" =>
               h.session \in Payloads /\ h.set.sid = h.session.sid
    PROVE  Guarded'
<1>1. req'[r] = h /\ \A q \in Requests \ {r} : req'[q] = req[q]
  BY DEF Sane, TypeOK
<1>2. CsrfFollowsSession'
  BY DEF Guarded, CsrfFollowsSession
<1>3. ASSUME NEW q \in Requests, req'[q].session # None, req'[q].kind # "poll"
      PROVE  csrf' \/ req'[q].session.sid \in crossed'
  <2>1. CASE q # r
    BY <1>1, <1>3, <2>1 DEF Guarded
  <2>2. CASE q = r /\ h.session = cookie
    BY <1>1, <1>3, <2>2 DEF Guarded, CsrfFollowsSession
  <2>3. CASE q = r /\ h.session = req[r].session /\ req[r].kind # "poll"
    BY <1>1, <1>3, <2>3 DEF Guarded
  <2> QED BY <1>1, <1>3, <2>1, <2>2, <2>3
<1>4. ASSUME NEW q \in Requests, req'[q].pc = "respond", req'[q].set.op = "rotate"
      PROVE  req'[q].session \in Payloads /\ req'[q].set.sid = req'[q].session.sid
  BY <1>1, <1>4 DEF Guarded
<1> QED BY <1>2, <1>3, <1>4 DEF Guarded

\* The same for a handler that responds, with what the interceptor writes or less.
LEMMA GuardedRespond ==
    ASSUME Sane, Guarded, NEW r \in Requests, NEW w,
           req' = [req EXCEPT ![r] = Respond(req[r], w)],
           UNCHANGED <<cookie, csrf, crossed>>,
           w # Keep => req[r].kind # "poll",
           w.op = "rotate" => req[r].session \in Payloads /\ w.sid = req[r].session.sid
    PROVE  Guarded'
<1> DEFINE h == Respond(req[r], w)
<1>1. CASE w = Keep
  <2>1. h.session = None /\ h.pc = "idle"
    BY <1>1 DEF Respond, Idle
  <2> HIDE DEF h
  <2> QED BY <2>1, GuardedKept DEF h
<1>2. CASE w # Keep
  <2>1. h.session = req[r].session /\ h.set = w
    BY <1>2 DEF Respond, Idle
  <2> HIDE DEF h
  <2> QED BY <1>2, <2>1, GuardedKept DEF h
<1> QED BY <1>1, <1>2

\* A delivered response: cleared cookies cross the requests still running.
LEMMA DeliverGuarded ==
    ASSUME Sane, Guarded, NEW r \in Requests, Deliver(r)
    PROVE  Guarded'
<1> DEFINE w == req[r].set
<1>1. /\ req' = [req EXCEPT ![r] = Idle] /\ req[r].pc = "respond"
      /\ req \in [Requests -> Handlers]
      /\ cookie' = (IF w.op = "clear" THEN None ELSE [sid |-> w.sid, tok |-> w.tok])
      /\ csrf' = CsrfAfter(w)
      /\ crossed' = IF w.op = "clear"
                    THEN crossed \cup {s \in Sessions : InUse(s) \ {r} # {}}
                    ELSE crossed
  BY DEF Deliver, Sane, TypeOK
<1>2. /\ req'[r].session = None /\ req'[r].pc = "idle"
      /\ \A q \in Requests \ {r} : req'[q] = req[q]
  BY <1>1 DEF Idle
<1>3. \/ w.op = "clear"
      \/ w.op \in {"rotate", "start"} /\ w.sid \in Sessions /\ w.tok \in Tokens
  BY <1>1 DEF Sane, SaneHandler, Clear
<1>4. \A q \in Requests :
         req'[q].pc = "respond" /\ req'[q].set.op = "rotate"
             => req'[q].session \in Payloads /\ req'[q].set.sid = req'[q].session.sid
  BY <1>2 DEF Guarded
<1>5. CASE w.op = "clear"
  <2>1. CsrfFollowsSession'
    BY <1>1, <1>5 DEF CsrfFollowsSession
  <2>2. ASSUME NEW q \in Requests, req'[q].session # None
        PROVE  req'[q].session.sid \in crossed'
    <3>1. q # r /\ req'[q] = req[q]
      BY <1>2, <2>2
    <3>2. req[q].session \in Payloads
      BY <1>1, <2>2, <3>1 DEF Handlers
    <3>3. req[q].session.sid \in Sessions /\ q \in InUse(req[q].session.sid)
      BY <2>2, <3>1, <3>2 DEF InUse, Payloads
    <3> QED BY <1>1, <1>5, <3>1, <3>3
  <2> QED BY <1>4, <2>1, <2>2 DEF Guarded
<1>6. CASE w.op = "start"
  <2>1. csrf'
    BY <1>1, <1>6 DEF CsrfAfter
  <2> QED BY <1>4, <2>1 DEF Guarded, CsrfFollowsSession
<1>7. CASE w.op = "rotate"
  <2>1. (csrf' <=> csrf) /\ crossed' = crossed /\ cookie' = [sid |-> w.sid, tok |-> w.tok]
    BY <1>1, <1>7 DEF CsrfAfter
  <2>2. /\ req[r].session \in Payloads /\ w.sid = req[r].session.sid
    BY <1>1, <1>7 DEF Guarded
  <2>3. cookie'.sid = w.sid
    BY <2>1
  <2>4. req[r].kind # "poll" => CsrfFollowsSession'
    <3>1. req[r].session # None
      BY <2>2, BffConstants
    <3> QED BY <2>1, <2>2, <2>3, <3>1 DEF Guarded, CsrfFollowsSession
  <2>5. req[r].kind # "poll"
    BY <1>1 DEF Sane, SaneHandler
  <2>6. ASSUME NEW q \in Requests, req'[q].session # None, req'[q].kind # "poll"
        PROVE  csrf' \/ req'[q].session.sid \in crossed'
    BY <1>2, <2>1, <2>6 DEF Guarded
  <2> QED BY <1>4, <2>4, <2>5, <2>6 DEF Guarded
<1> QED BY <1>3, <1>5, <1>6, <1>7

\* Every step keeps the CSRF cookie beside the session cookie.
LEMMA NextGuarded == Sane /\ Guarded /\ [Next]_vars => Guarded'
<1> SUFFICES ASSUME Sane, Guarded, [Next]_vars PROVE Guarded'
  OBVIOUS
<1>1. ASSUME UNCHANGED <<req, cookie, csrf, crossed>>
      PROVE  Guarded'
  BY <1>1 DEF Guarded, CsrfFollowsSession
<1>2. ASSUME NEW r \in Requests, NEW k \in Kinds, StartCall(r, k)
      PROVE  Guarded'
  <2> DEFINE h == [Idle EXCEPT !.kind = k, !.session = SessionOf(k)]
             call == [h EXCEPT !.pc = "call"]
             wait(q) == [h EXCEPT !.pc = "wait", !.on = q]
  <2>a. call.kind = k /\ call.session = SessionOf(k) /\ call.pc # "respond"
    BY DEF Idle
  <2>b. \A q : wait(q).kind = k /\ wait(q).session = SessionOf(k) /\ wait(q).pc # "respond"
    BY DEF Idle
  <2>c. \/ req' = [req EXCEPT ![r] = call]
        \/ req' = [req EXCEPT ![r] = wait(Awaited(r, SessionOf(k).sid))]
    BY <1>2 DEF StartCall
  <2>1. PICK x : /\ req' = [req EXCEPT ![r] = x]
                 /\ x.kind = k /\ x.session = SessionOf(k) /\ x.pc # "respond"
    <3> HIDE DEF call, wait
    <3> QED BY <2>a, <2>b, <2>c
  <2>2. UNCHANGED <<cookie, csrf, crossed>>
    BY <1>2 DEF StartCall, browser, history
  <2> QED BY <2>1, <2>2, GuardedKept DEF SessionOf
<1>3. ASSUME NEW r \in Requests, NEW k \in Kinds, StartAuth(r, k)
      PROVE  Guarded'
  <2> DEFINE h == [Idle EXCEPT !.kind = k, !.session = cookie, !.pc = "call"]
             x == IF k = "logout" /\ cookie = None THEN Respond(h, Clear) ELSE h
  <2>1. x.session = cookie /\ (x.pc = "respond" => x.set.op # "rotate")
    BY DEF Idle, Respond, Clear, Keep
  <2>2. req' = [req EXCEPT ![r] = x] /\ UNCHANGED <<cookie, csrf, crossed>>
    BY <1>3 DEF StartAuth, browser, history
  <2> HIDE DEF x
  <2> QED BY <2>1, <2>2, GuardedKept
<1>4. ASSUME NEW r \in Requests, SettleRefresh(r)
      PROVE  Guarded'
  <2>1. UNCHANGED <<cookie, csrf, crossed>>
    BY <1>4 DEF SettleRefresh, browser
  <2>2. ASSUME NEW q \in Requests
        PROVE  \/ req'[q] = req[q]
               \/ /\ req'[q].pc # "respond"
                  /\ \/ req'[q].session = None
                     \/ req'[q].session = req[q].session /\ req'[q].kind = req[q].kind
    BY <1>4 DEF SettleRefresh, Resumed, Respond, Idle, Sane, TypeOK, Handlers
  <2> QED BY <2>1, <2>2 DEF Guarded, CsrfFollowsSession
<1>5. ASSUME NEW r \in Requests,
             CallAtBackend(r) \/ LoginAtBackend(r) \/ LogoutAtBackend(r) \/ ForceRefresh(r)
      PROVE  Guarded'
  <2>1. UNCHANGED <<cookie, csrf, crossed>>
    BY <1>5 DEF CallAtBackend, LoginAtBackend, LogoutAtBackend, ForceRefresh, browser, history
  <2>2. /\ req'[r].pc # "respond"
        /\ req'[r].session = req[r].session /\ req'[r].kind = req[r].kind
        /\ \A q \in Requests \ {r} : req'[q] = req[q]
    BY <1>5 DEF CallAtBackend, LoginAtBackend, LogoutAtBackend, ForceRefresh,
                Sane, TypeOK, Handlers
  <2> QED BY <2>1, <2>2 DEF Guarded, CsrfFollowsSession
<1>6. ASSUME NEW r \in Requests, FailCall(r)
      PROVE  Guarded'
  BY <1>6, GuardedRespond DEF FailCall, browser, history, Keep
<1>7. ASSUME NEW r \in Requests, FinishCall(r)
      PROVE  Guarded'
  <2>1. req[r] \in Handlers /\ cache \in [Sessions -> Entries \cup {None}]
        /\ UNCHANGED <<cookie, csrf, crossed>>
    BY <1>7 DEF FinishCall, Sane, TypeOK, browser, history
  <2>2. cache' \in [Sessions -> Entries \cup {None}]
    BY <1>7, FinishCallSane DEF Sane, TypeOK
  <2>3. CASE req' = [req EXCEPT ![r] = Respond(req[r], Keep)]
    BY <2>1, <2>3, GuardedRespond DEF Keep
  <2>4. ASSUME NEW ch \in [Sessions -> Entries \cup {None}], req[r].kind # "poll",
               req' = [req EXCEPT ![r] = Respond(req[r], Synced(req[r], ch))]
        PROVE  Guarded'
    <3>1. Synced(req[r], ch).op = "rotate" =>
             req[r].session \in Payloads /\ Synced(req[r], ch).sid = req[r].session.sid
      BY <2>1, SyncedIsSane DEF Keep
    <3> QED BY <2>1, <2>4, <3>1, GuardedRespond
  <2> QED BY <1>7, <2>1, <2>2, <2>3, <2>4 DEF FinishCall
<1>8. ASSUME NEW r \in Requests, FinishLogin(r)
      PROVE  Guarded'
  <2>1. /\ req[r] \in Handlers /\ cache \in [Sessions -> Entries \cup {None}]
        /\ UNCHANGED <<cookie, csrf, crossed>> /\ req[r].kind # "poll"
    BY <1>8 DEF FinishLogin, Sane, TypeOK, browser, history
  <2> DEFINE sync == Synced(req[r], cache)
  <2>2. sync.op = "rotate" => req[r].session \in Payloads /\ sync.sid = req[r].session.sid
    BY <2>1, SyncedIsSane DEF Keep
  <2>3. sync \in CookieWrites
    BY <2>1, SyncedIsSane
  <2>4. PICK w : /\ req' = [req EXCEPT ![r] = Respond(req[r], w)]
                 /\ w.op = "start" \/ w = sync \/ w = Keep
    <3> HIDE DEF sync
    <3> QED BY <1>8, <2>3 DEF FinishLogin, sync, CookieWrites
  <2>5. w.op = "rotate" => req[r].session \in Payloads /\ w.sid = req[r].session.sid
    BY <2>2, <2>4 DEF Keep
  <2> QED BY <2>1, <2>4, <2>5, GuardedRespond
<1>9. ASSUME NEW r \in Requests, FinishLogout(r)
      PROVE  Guarded'
  BY <1>9, GuardedRespond DEF FinishLogout, browser, Clear, Keep
<1>10. ASSUME NEW r \in Requests, LoseResponse(r)
       PROVE  Guarded'
  <2>1. Idle.session = None /\ Idle.pc = "idle"
    BY DEF Idle
  <2> HIDE DEF Idle
  <2> QED BY <1>10, <2>1, GuardedKept DEF LoseResponse, browser, history
<1>11. ASSUME NEW k \in BOOLEAN, Restart(k)
       PROVE  Guarded'
  <2>1. \A r \in Requests : req'[r].session = None /\ req'[r].pc = "idle"
    BY <1>11 DEF Restart, Idle
  <2>2. UNCHANGED <<csrf, crossed>> /\ cookie' \in {cookie, None}
    BY <1>11 DEF Restart
  <2> QED BY <2>1, <2>2 DEF Guarded, CsrfFollowsSession
<1>12. CASE UNCHANGED vars
  BY <1>1, <1>12 DEF vars
<1>13. ASSUME NEW r \in Requests, RefreshAtBackend(r) \/ RefreshFails(r)
       PROVE  Guarded'
  BY <1>1, <1>13 DEF RefreshAtBackend, RefreshFails, browser, history
<1>14. ASSUME NEW s \in Sessions, Expire(s) \/ Sweep(s)
       PROVE  Guarded'
  BY <1>1, <1>14 DEF Expire, Sweep, browser, history
<1>15. CASE Subscribe
  BY <1>1, <1>15 DEF Subscribe, history
<1> QED BY <1>2, <1>3, <1>4, <1>5, <1>6, <1>7, <1>8, <1>9, <1>10, <1>11, <1>12, <1>13,
           <1>14, <1>15, DeliverGuarded DEF Next

\* The browser has the session cookie without the CSRF cookie only when a response of
\* that session was on its way as the cookies were cleared.
THEOREM CsrfIsKept == Spec => []CsrfFollowsSession
<1>1. Init => Guarded
  BY DEF Init, Guarded, CsrfFollowsSession, Idle
<1>2. Guarded => CsrfFollowsSession
  BY DEF Guarded
<1> QED BY <1>1, <1>2, NextGuarded, HandlersAreSane, PTL DEF Spec

-------------------------------------------------------------------------------
(***************************************************************************)
(* The refresh tokens that the BFF holds: it presents a rotated token only *)
(* after a loss, and a logout that nothing raced is final.                 *)
(***************************************************************************)

\* Token t is held for session s: in a cookie, by a handler or in its response ...
Carries(s, t) ==
    \/ cookie # None /\ cookie.sid = s /\ cookie.tok = t
    \/ sub # None /\ sub.sid = s /\ sub.tok = t
    \/ \E r \in Requests : /\ req[r].session # None
                           /\ req[r].session.sid = s /\ req[r].session.tok = t
    \/ \E r \in Requests : /\ req[r].pc = "respond"
                           /\ req[r].set.op \in {"rotate", "start"}
                           /\ req[r].set.sid = s /\ req[r].set.tok = t

\* ... by the cache ...
Caches(s, t) == cache[s] # None /\ cache[s].tok = t

\* ... or by a refresh in flight.
Flies(s, t) ==
    \E r \in Requests : /\ refresh[r].st # "none"
                        /\ refresh[r].sid = s
                        /\ refresh[r].tok = t \/ refresh[r].new = t

Held(s, t) == Carries(s, t) \/ Caches(s, t) \/ Flies(s, t)

\* A token belongs to the session it is held for.
Families ==
    /\ \A s \in Sessions, t \in Tokens : Held(s, t) => owner[t] = s
    /\ \A s \in out : \E t \in Tokens : owner[t] = s

\* A session has one active token at most, and none once one was revoked.
Rows ==
    \A t, u \in Tokens :
        /\ owner[t] = owner[u] /\ owner[u] # None
        /\ token[u] = "active" /\ token[t] \in {"active", "revoked"}
        => t = u

\* A login that the backend has accepted and the BFF has not yet finished: nobody
\* else knows of its session.
Pending(h) == h.pc = "answered" /\ h.kind = "login" /\ h.status = "ok"

Newcomers ==
    \A r \in Requests : Pending(req[r]) =>
        /\ token[req[r].tok] = "active"
        /\ \A u \in Tokens : owner[u] = owner[req[r].tok] => u = req[r].tok
        /\ \A s \in Sessions, t \in Tokens : owner[req[r].tok] = s => ~Held(s, t)
        /\ owner[req[r].tok] \notin out
        /\ \A q \in Requests : q # r /\ Pending(req[q]) => req[q].tok # req[r].tok

\* A logout that was answered "ok" has revoked its token.
Revoking ==
    \A r \in Requests :
        req[r].pc = "answered" /\ req[r].kind = "logout" /\ req[r].status = "ok"
            => token[req[r].session.tok] = "revoked"

Lineage == Families /\ Rows /\ Newcomers /\ Revoking

-------------------------------------------------------------------------------
(* Who holds what *)

\* A handler that takes its session from the browser carries nothing new.
LEMMA CarriesKept ==
    ASSUME Sane, NEW r \in Requests, NEW h, NEW s \in Sessions, NEW t \in Tokens,
           req' = [req EXCEPT ![r] = h], UNCHANGED <<cookie, sub>>,
           h.session \in {None, req[r].session, cookie, sub},
           ~(h.pc = "respond" /\ h.set.op \in {"rotate", "start"}
             /\ h.set.sid = s /\ h.set.tok = t),
           Carries(s, t)'
    PROVE  Carries(s, t)
<1>1. req'[r] = h /\ \A q \in Requests \ {r} : req'[q] = req[q]
  BY DEF Sane, TypeOK
<1>2. CASE (cookie # None /\ cookie.sid = s /\ cookie.tok = t)
           \/ (sub # None /\ sub.sid = s /\ sub.tok = t)
  BY <1>2 DEF Carries
<1>3. ASSUME NEW q \in Requests, req'[q].session # None,
             req'[q].session.sid = s, req'[q].session.tok = t
      PROVE  Carries(s, t)
  BY <1>1, <1>3 DEF Carries
<1>4. ASSUME NEW q \in Requests, req'[q].pc = "respond",
             req'[q].set.op \in {"rotate", "start"}, req'[q].set.sid = s, req'[q].set.tok = t
      PROVE  Carries(s, t)
  BY <1>1, <1>4 DEF Carries
<1> QED BY <1>2, <1>3, <1>4 DEF Carries

\* A response has the session of its handler, and the cookies it was given.
LEMMA RespondShape ==
    ASSUME NEW h, NEW w
    PROVE  /\ Respond(h, w).session \in {None, h.session}
           /\ Respond(h, w).pc \in {"idle", "respond"}
           /\ Respond(h, w).pc = "respond" => w # Keep /\ Respond(h, w).set = w
BY DEF Respond, Idle

\* Where a refresh is started with the token that the cache or the request knows.
LEMMA FliesKept ==
    ASSUME Sane, NEW r \in Requests, NEW p \in Payloads, NEW s \in Sessions, NEW t \in Tokens,
           Carries(p.sid, p.tok),
           RefreshWithLock(r, p.sid, CurrentToken(p)), Flies(s, t)'
    PROVE  Held(s, t)
<1>1. p.sid \in Sessions /\ t # 0
  BY BffConstants DEF Payloads, Tokens
<1>2. CASE lock[p.sid] # None
  BY <1>2 DEF RefreshWithLock, Flies, Held
<1>3. CASE lock[p.sid] = None
  <2> DEFINE f == [st |-> "sent", sid |-> p.sid, tok |-> CurrentToken(p), new |-> 0]
  <2>1. refresh' = [refresh EXCEPT ![r] = f] /\ refresh \in [Requests -> Refreshes]
    BY <1>3 DEF RefreshWithLock, Sane, TypeOK
  <2>2. PICK q \in Requests : /\ refresh'[q].st # "none" /\ refresh'[q].sid = s
                              /\ refresh'[q].tok = t \/ refresh'[q].new = t
    BY DEF Flies
  <2>3. CASE q # r
    BY <2>1, <2>2, <2>3 DEF Flies, Held
  <2>4. CASE q = r
    <3>1. s = p.sid /\ t = CurrentToken(p)
      BY <1>1, <2>1, <2>2, <2>4
    <3> QED BY <3>1 DEF CurrentToken, Held, Caches
  <2> QED BY <2>3, <2>4
<1> QED BY <1>2, <1>3

\* What a handler may do without taking hold of anything new.
LEMMA StartCallHeld ==
    ASSUME Sane, NEW r \in Requests, NEW k \in Kinds, StartCall(r, k),
           NEW s \in Sessions, NEW t \in Tokens, Held(s, t)'
    PROVE  Held(s, t)
<1> DEFINE p == SessionOf(k)
           h == [Idle EXCEPT !.kind = k, !.session = p]
           call == [h EXCEPT !.pc = "call"]
           wait(q) == [h EXCEPT !.pc = "wait", !.on = q]
<1>1. p \in Payloads /\ p \in {cookie, sub} /\ p # None
  BY DEF StartCall, Admitted, SessionOf, Sane, TypeOK
<1>2. Carries(p.sid, p.tok)
  BY <1>1 DEF Carries
<1>3. UNCHANGED <<cache, cookie, sub>>
  BY DEF StartCall, browser
<1>4. call.session = p /\ call.pc # "respond"
      /\ \A q : wait(q).session = p /\ wait(q).pc # "respond"
  BY DEF Idle
<1>5. \/ req' = [req EXCEPT ![r] = call]
      \/ req' = [req EXCEPT ![r] = wait(Awaited(r, p.sid))]
  BY DEF StartCall
<1>6. Carries(s, t)' => Carries(s, t)
  <2>1. PICK x : req' = [req EXCEPT ![r] = x] /\ x.session = p /\ x.pc # "respond"
    <3> HIDE DEF call, wait, p
    <3> QED BY <1>4, <1>5
  <2> QED BY <1>1, <1>3, <2>1, CarriesKept
<1>7. Caches(s, t)' => Caches(s, t)
  BY <1>3 DEF Caches
<1>8. Flies(s, t)' => Held(s, t)
  <2>1. CASE UNCHANGED refresh
    BY <2>1 DEF Flies, Held
  <2>2. CASE RefreshWithLock(r, p.sid, CurrentToken(p))
    <3> HIDE DEF p
    <3> QED BY <1>1, <1>2, <2>2, FliesKept
  <2> QED BY <2>1, <2>2 DEF StartCall
<1> QED BY <1>6, <1>7, <1>8 DEF Held

\* A repeated call presents a token that was held already.
LEMMA ForceRefreshHeld ==
    ASSUME Sane, NEW r \in Requests, ForceRefresh(r),
           NEW s \in Sessions, NEW t \in Tokens, Held(s, t)'
    PROVE  Held(s, t)
<1> DEFINE h == req[r]
           p == h.session
<1>1. h \in Handlers /\ SaneHandler(h, issued) /\ h.pc = "answered" /\ Authenticated(h)
  BY DEF ForceRefresh, Sane, TypeOK
<1>2. p \in Payloads /\ p.sid \in Sessions /\ p # None
  BY <1>1, BffConstants DEF SaneHandler, Authenticated, Payloads
<1>3. Carries(p.sid, p.tok)
  BY <1>2 DEF Carries
<1>4. UNCHANGED <<cookie, sub>> /\ cache' = [cache EXCEPT ![p.sid] = None]
  BY DEF ForceRefresh, browser
<1>5. Carries(s, t)' => Carries(s, t)
  <2> DEFINE x == [h EXCEPT !.pc = "wait", !.status = "none", !.on = Awaited(r, p.sid)]
  <2>1. req' = [req EXCEPT ![r] = x]
    BY DEF ForceRefresh, Sane, TypeOK
  <2>2. x.session = h.session /\ x.pc # "respond"
    BY <1>1 DEF Handlers
  <2> HIDE DEF x
  <2> QED BY <1>4, <2>1, <2>2, CarriesKept
<1>6. Caches(s, t)' => Caches(s, t)
  BY <1>2, <1>4 DEF Caches, Sane, TypeOK
<1>7. Flies(s, t)' => Held(s, t)
  <2>1. RefreshWithLock(r, p.sid, CurrentToken(p))
    BY DEF ForceRefresh
  <2> HIDE DEF p
  <2> QED BY <1>2, <1>3, <2>1, FliesKept
<1> QED BY <1>5, <1>6, <1>7 DEF Held

\* A handler that responds with nothing, with cleared cookies or with the cached token.
LEMMA RespondHeld ==
    ASSUME Sane, NEW r \in Requests, NEW w, NEW s \in Sessions, NEW t \in Tokens,
           req' = [req EXCEPT ![r] = Respond(req[r], w)],
           UNCHANGED <<cookie, sub, refresh>>,
           w.op \in {"rotate", "start"} /\ w.sid = s /\ w.tok = t => Held(s, t),
           Caches(s, t)' => Caches(s, t),
           Held(s, t)'
    PROVE  Held(s, t)
<1> DEFINE h == Respond(req[r], w)
<1>1. /\ h.session \in {None, req[r].session}
      /\ h.pc = "respond" => h.set = w
  BY RespondShape
<1>2. Flies(s, t)' => Held(s, t)
  BY DEF Flies, Held
<1>3. CASE w.op \in {"rotate", "start"} /\ w.sid = s /\ w.tok = t
  BY <1>3
<1>4. CASE ~(w.op \in {"rotate", "start"} /\ w.sid = s /\ w.tok = t)
  <2>1. Carries(s, t)' => Carries(s, t)
    <3> HIDE DEF h
    <3> QED BY <1>1, <1>4, CarriesKept DEF h
  <2> QED BY <1>2, <2>1 DEF Held
<1> QED BY <1>3, <1>4

\* The interceptor writes what the cache holds.
LEMMA SyncedHeld ==
    ASSUME Sane, NEW r \in Requests, NEW s \in Sessions, NEW t \in Tokens,
           NEW ch \in [Sessions -> Entries \cup {None}],
           \A u \in Sessions : ch[u] # None => cache[u] # None /\ ch[u].tok = cache[u].tok,
           Synced(req[r], ch).op \in {"rotate", "start"},
           Synced(req[r], ch).sid = s, Synced(req[r], ch).tok = t
    PROVE  Caches(s, t)
<1>1. req[r] \in Handlers
  BY DEF Sane, TypeOK
<1> QED BY <1>1, SyncedIsSane DEF Caches, Keep

\* A finished call takes hold of nothing new.
LEMMA FinishCallHeld ==
    ASSUME Sane, NEW r \in Requests, FinishCall(r),
           NEW s \in Sessions, NEW t \in Tokens, Held(s, t)'
    PROVE  Held(s, t)
<1>1. /\ UNCHANGED <<cookie, sub, refresh>>
      /\ req[r] \in Handlers /\ SaneHandler(req[r], issued) /\ Authenticated(req[r])
      /\ req[r].pc = "answered"
      /\ cache \in [Sessions -> Entries \cup {None}]
  BY DEF FinishCall, browser, Sane, TypeOK
<1>2. cache' \in [Sessions -> Entries \cup {None}]
  BY FinishCallSane DEF Sane, TypeOK
<1>3. \A u \in Sessions : cache'[u] # None => cache[u] # None /\ cache'[u].tok = cache[u].tok
  <2>1. CASE cache' = cache
    BY <2>1
  <2>2. CASE cache[req[r].session.sid] # None /\ cache' = Elevated(req[r].session.sid)
    <3>1. req[r].session.sid \in Sessions
      BY <1>1 DEF SaneHandler, Authenticated, Payloads
    <3>2. cache[req[r].session.sid] \in Entries
      BY <1>1, <2>2, <3>1
    <3> QED BY <1>1, <2>2, <3>1, <3>2 DEF Elevated, Entries
  <2> QED BY <2>1, <2>2 DEF FinishCall
<1>4. Caches(s, t)' => Caches(s, t)
  BY <1>3 DEF Caches
<1>5. PICK w : /\ req' = [req EXCEPT ![r] = Respond(req[r], w)]
               /\ w \in {Keep, Synced(req[r], cache), Synced(req[r], cache')}
  BY DEF FinishCall
<1>6. w.op \in {"rotate", "start"} /\ w.sid = s /\ w.tok = t => Held(s, t)
  <2>1. CASE w = Keep
    BY <2>1 DEF Keep
  <2>2. CASE w = Synced(req[r], cache)
    BY <1>1, <2>2, SyncedHeld DEF Held
  <2>3. CASE w = Synced(req[r], cache')
    BY <1>2, <1>3, <2>3, SyncedHeld DEF Held
  <2> QED BY <1>5, <2>1, <2>2, <2>3
<1> QED BY <1>1, <1>4, <1>5, <1>6, RespondHeld

\* A finished login adds the session that it starts.
LEMMA FinishLoginHeld ==
    ASSUME Sane, NEW r \in Requests, FinishLogin(r),
           NEW s \in Sessions, NEW t \in Tokens, Held(s, t)'
    PROVE  Held(s, t) \/ (Pending(req[r]) /\ s = owner[req[r].tok] /\ t = req[r].tok)
<1> SUFFICES ASSUME ~(Pending(req[r]) /\ s = owner[req[r].tok] /\ t = req[r].tok)
             PROVE  Held(s, t)
  OBVIOUS
<1> DEFINE sync == Synced(req[r], cache)
<1>1. /\ UNCHANGED <<cookie, sub, refresh>>
      /\ req[r] \in Handlers /\ SaneHandler(req[r], issued)
      /\ req[r].pc = "answered" /\ req[r].kind = "login"
      /\ cache \in [Sessions -> Entries \cup {None}]
  BY DEF FinishLogin, browser, Sane, TypeOK
<1>2. sync \in CookieWrites
  BY <1>1, SyncedIsSane
<1>3. sync.op \in {"rotate", "start"} /\ sync.sid = s /\ sync.tok = t => Held(s, t)
  BY <1>1, SyncedHeld DEF Held
<1>4. Caches(s, t)' => Caches(s, t)
  <2>1. CASE cache' = cache
    BY <2>1 DEF Caches
  <2>2. CASE /\ Pending(req[r])
             /\ cache' = [cache EXCEPT ![owner[req[r].tok]] = [tok |-> req[r].tok, fresh |-> TRUE]]
    BY <1>1, <2>2 DEF Caches
  <2> QED BY <1>1, <2>1, <2>2 DEF FinishLogin, Pending
<1> DEFINE v == IF sync.op = "rotate" THEN [sync EXCEPT !.op = "start"]
                ELSE [op |-> "start", sid |-> owner[req[r].tok], tok |-> req[r].tok]
<1>5. CASE Pending(req[r]) /\ req' = [req EXCEPT ![r] = Respond(req[r], v)]
  <2>1. v.sid = s /\ v.tok = t => Held(s, t)
    <3>1. CASE sync.op = "rotate"
      <4>1. v.sid = sync.sid /\ v.tok = sync.tok
        <5> HIDE DEF sync
        <5> QED BY <1>2, <3>1 DEF CookieWrites
      <4> QED BY <1>3, <3>1, <4>1
    <3>2. CASE sync.op # "rotate"
      BY <1>5, <3>2
    <3> QED BY <3>1, <3>2
  <2> HIDE DEF v
  <2> QED BY <1>1, <1>4, <1>5, <2>1, RespondHeld
<1>6. CASE req' = [req EXCEPT ![r] = Respond(req[r], sync)]
  <2> HIDE DEF sync
  <2> QED BY <1>1, <1>3, <1>4, <1>6, RespondHeld
<1>7. CASE req' = [req EXCEPT ![r] = Respond(req[r], Keep)]
  <2>1. Keep.op = "keep"
    BY DEF Keep
  <2> HIDE DEF Keep
  <2> QED BY <1>1, <1>4, <1>7, <2>1, RespondHeld
<1> QED BY <1>1, <1>5, <1>6, <1>7 DEF FinishLogin, Pending

\* The browser gets what the response carried.
LEMMA DeliverHeld ==
    ASSUME Sane, NEW r \in Requests, Deliver(r),
           NEW s \in Sessions, NEW t \in Tokens, Held(s, t)'
    PROVE  Held(s, t)
<1>1. /\ req' = [req EXCEPT ![r] = Idle] /\ req[r].pc = "respond"
      /\ req \in [Requests -> Handlers]
      /\ UNCHANGED <<cache, refresh, sub>>
  BY DEF Deliver, Sane, TypeOK
<1>2. /\ req'[r].session = None /\ req'[r].pc = "idle"
      /\ \A q \in Requests \ {r} : req'[q] = req[q]
  BY <1>1 DEF Idle
<1>3. cookie' # None /\ cookie'.sid = s /\ cookie'.tok = t => Carries(s, t)
  <2> SUFFICES ASSUME cookie' # None, cookie'.sid = s, cookie'.tok = t
               PROVE  Carries(s, t)
    OBVIOUS
  <2> DEFINE w == req[r].set
  <2>1. w.op # "clear" /\ cookie' = [sid |-> w.sid, tok |-> w.tok]
    BY DEF Deliver
  <2>2. w.op \in {"rotate", "start"}
    BY <1>1, <2>1 DEF Sane, SaneHandler, Clear
  <2>3. w.sid = s /\ w.tok = t
    <3> HIDE DEF w
    <3> QED BY <2>1
  <2> QED BY <1>1, <2>2, <2>3 DEF Carries
<1>4. Carries(s, t)' => Carries(s, t)
  BY <1>1, <1>2, <1>3 DEF Carries
<1> QED BY <1>1, <1>4 DEF Held, Caches, Flies

\* The cache gets what the refresh was answered with.
LEMMA SettleHeld ==
    ASSUME Sane, NEW r \in Requests, SettleRefresh(r),
           NEW s \in Sessions, NEW t \in Tokens, Held(s, t)'
    PROVE  Held(s, t)
<1> DEFINE f == refresh[r]
<1>1. /\ f.st # "none" /\ f.sid \in Sessions
      /\ UNCHANGED <<cookie, sub>>
      /\ refresh' = [refresh EXCEPT ![r] = NoRefresh] /\ refresh \in [Requests -> Refreshes]
      /\ cache \in [Sessions -> Entries \cup {None}]
  BY DEF SettleRefresh, browser, Sane, TypeOK, SaneRefresh
<1>2. ASSUME NEW q \in Requests
      PROVE  \/ req'[q] = req[q]
             \/ req'[q].pc # "respond" /\ req'[q].session \in {None, req[q].session}
  BY DEF SettleRefresh, Resumed, Respond, Idle, Sane, TypeOK, Handlers
<1>3. Carries(s, t)' => Carries(s, t)
  BY <1>1, <1>2 DEF Carries
<1>4. Flies(s, t)' => Flies(s, t)
  BY <1>1 DEF Flies, NoRefresh
<1>5. Caches(s, t)' => Held(s, t)
  <2>1. CASE cache' = cache
    BY <2>1 DEF Caches, Held
  <2>2. CASE cache' = [cache EXCEPT ![f.sid] = [tok |-> f.new, fresh |-> TRUE]]
    <3>1. CASE s = f.sid
      BY <1>1, <2>2, <3>1 DEF Caches, Flies, Held
    <3>2. CASE s # f.sid
      BY <1>1, <2>2, <3>2 DEF Caches, Held
    <3> QED BY <3>1, <3>2
  <2> QED BY <2>1, <2>2 DEF SettleRefresh
<1> QED BY <1>3, <1>4, <1>5 DEF Held

\* A refresh that succeeds adds the token it is answered with.
LEMMA RefreshHeld ==
    ASSUME Sane, NEW r \in Requests, RefreshAtBackend(r),
           NEW s \in Sessions, NEW t \in Tokens, Held(s, t)'
    PROVE  \/ Held(s, t)
           \/ refresh[r].sid = s /\ t = issued + 1 /\ issued' = issued + 1
<1>1. UNCHANGED <<cache, req, cookie, sub>>
  BY DEF RefreshAtBackend, browser
<1>2. (Carries(s, t)' => Carries(s, t)) /\ (Caches(s, t)' => Caches(s, t))
  BY <1>1 DEF Carries, Caches
<1>3. Flies(s, t)' => \/ Flies(s, t)
                      \/ refresh[r].sid = s /\ t = issued + 1 /\ issued' = issued + 1
  <2>1. refresh \in [Requests -> Refreshes] /\ refresh[r].st = "sent"
    BY DEF RefreshAtBackend, Sane, TypeOK
  <2>2. CASE /\ refresh' = [refresh EXCEPT ![r].st = "ok", ![r].new = issued + 1]
             /\ issued' = issued + 1
    BY <2>1, <2>2 DEF Flies, Refreshes
  <2>3. CASE refresh' = [refresh EXCEPT ![r].st = "refused"]
    BY <2>1, <2>3 DEF Flies, Refreshes
  <2> QED BY <2>2, <2>3 DEF RefreshAtBackend
<1> QED BY <1>2, <1>3 DEF Held

\* Nobody takes hold of a token but where a login is finished or a refresh succeeds.
LEMMA HeldKept ==
    ASSUME Sane, [Next]_vars, NEW s \in Sessions, NEW t \in Tokens, Held(s, t)'
    PROVE  \/ Held(s, t)
           \/ \E r \in Requests : /\ FinishLogin(r) /\ Pending(req[r])
                                  /\ s = owner[req[r].tok] /\ t = req[r].tok
           \/ \E r \in Requests : /\ RefreshAtBackend(r) /\ refresh[r].sid = s
                                  /\ t = issued + 1 /\ issued' = issued + 1
<1>1. CASE UNCHANGED <<cookie, sub, req, cache, refresh>>
  BY <1>1 DEF Held, Carries, Caches, Flies
<1>2. ASSUME NEW r \in Requests, NEW k \in Kinds, StartAuth(r, k)
      PROVE  Held(s, t)
  <2> DEFINE h == [Idle EXCEPT !.kind = k, !.session = cookie, !.pc = "call"]
             x == IF k = "logout" /\ cookie = None THEN Respond(h, Clear) ELSE h
  <2>1. x.session = cookie /\ (x.pc = "respond" => x.set.op = "clear")
    BY DEF Idle, Respond, Clear, Keep
  <2>2. req' = [req EXCEPT ![r] = x] /\ UNCHANGED <<cookie, sub, cache, refresh>>
    BY <1>2 DEF StartAuth, browser
  <2>3. Carries(s, t)' => Carries(s, t)
    <3> HIDE DEF x
    <3> QED BY <2>1, <2>2, CarriesKept
  <2> QED BY <2>2, <2>3 DEF Held, Caches, Flies
<1>3. ASSUME NEW r \in Requests, RefreshFails(r)
      PROVE  Held(s, t)
  <2>1. UNCHANGED <<cookie, sub, cache, req>>
    BY <1>3 DEF RefreshFails, browser
  <2>2. \A q \in Requests : /\ refresh'[q].st = "none" <=> refresh[q].st = "none"
                            /\ refresh'[q].sid = refresh[q].sid
                            /\ refresh'[q].tok = refresh[q].tok
                            /\ refresh'[q].new = refresh[q].new
    BY <1>3 DEF RefreshFails, Sane, TypeOK, Refreshes
  <2> QED BY <2>1, <2>2 DEF Held, Carries, Caches, Flies
<1>4. ASSUME NEW u \in Sessions, Expire(u) \/ Sweep(u)
      PROVE  Held(s, t)
  <2>1. UNCHANGED <<cookie, sub, req, refresh>>
    BY <1>4 DEF Expire, Sweep, browser
  <2>2. Caches(s, t)' => Caches(s, t)
    <3>1. cache[s] \in Entries \cup {None} /\ cache \in [Sessions -> Entries \cup {None}]
      BY DEF Sane, TypeOK
    <3> QED BY <1>4, <3>1 DEF Expire, IsFresh, Sweep, Caches, Entries
  <2> QED BY <2>1, <2>2 DEF Held, Carries, Flies
<1>5. ASSUME NEW r \in Requests,
             CallAtBackend(r) \/ LoginAtBackend(r) \/ LogoutAtBackend(r)
      PROVE  Held(s, t)
  <2>1. UNCHANGED <<cookie, sub, cache, refresh>>
    BY <1>5 DEF CallAtBackend, LoginAtBackend, LogoutAtBackend, browser
  <2>2. /\ req'[r].pc # "respond" /\ req'[r].session = req[r].session
        /\ \A q \in Requests \ {r} : req'[q] = req[q]
    BY <1>5 DEF CallAtBackend, LoginAtBackend, LogoutAtBackend, Sane, TypeOK, Handlers
  <2> QED BY <2>1, <2>2 DEF Held, Carries, Caches, Flies
<1>6. ASSUME NEW r \in Requests, FailCall(r)
      PROVE  Held(s, t)
  <2>1. Keep.op = "keep"
    BY DEF Keep
  <2>2. UNCHANGED <<cookie, sub, refresh, cache>>
        /\ req' = [req EXCEPT ![r] = Respond(req[r], Keep)]
    BY <1>6 DEF FailCall, browser
  <2> HIDE DEF Keep
  <2> QED BY <2>1, <2>2, RespondHeld DEF Caches
<1>7. ASSUME NEW r \in Requests, FinishLogout(r)
      PROVE  Held(s, t)
  <2>1. Clear.op = "clear"
    BY DEF Clear
  <2>2. UNCHANGED <<cookie, sub, refresh>> /\ cache' = Invalidated(req[r].session.sid)
        /\ req' = [req EXCEPT ![r] = Respond(req[r], Clear)]
    BY <1>7 DEF FinishLogout, browser
  <2>3. Caches(s, t)' => Caches(s, t)
    BY <2>2 DEF Invalidated, Caches, Sane, TypeOK
  <2> HIDE DEF Clear
  <2> QED BY <2>1, <2>2, <2>3, RespondHeld
<1>8. ASSUME NEW r \in Requests, LoseResponse(r)
      PROVE  Held(s, t)
  <2>1. Idle.session = None /\ Idle.pc = "idle"
    BY DEF Idle
  <2>2. UNCHANGED <<cookie, sub, cache, refresh>> /\ req' = [req EXCEPT ![r] = Idle]
    BY <1>8 DEF LoseResponse, browser
  <2>3. Carries(s, t)' => Carries(s, t)
    <3> HIDE DEF Idle
    <3> QED BY <2>1, <2>2, CarriesKept
  <2> QED BY <2>2, <2>3 DEF Held, Caches, Flies
<1>9. CASE Subscribe
  <2>1. UNCHANGED <<cookie, req, cache, refresh>> /\ sub' = cookie
    BY <1>9 DEF Subscribe
  <2> QED BY <2>1 DEF Held, Carries, Caches, Flies
<1>10. ASSUME NEW k \in BOOLEAN, Restart(k)
       PROVE  Held(s, t)
  <2>1. \A q \in Requests : /\ req'[q].session = None /\ req'[q].pc = "idle"
                            /\ refresh'[q].st = "none"
    BY <1>10 DEF Restart, Idle, NoRefresh
  <2>2. sub' = None /\ cookie' \in {cookie, None} /\ \A u \in Sessions : cache'[u] = None
    BY <1>10 DEF Restart
  <2> QED BY <2>1, <2>2 DEF Held, Carries, Caches, Flies
<1>11. CASE UNCHANGED vars
  BY <1>1, <1>11 DEF vars
<1>12. CASE Next
  BY <1>12, <1>2, <1>3, <1>4, <1>5, <1>6, <1>7, <1>8, <1>9, <1>10, StartCallHeld,
     ForceRefreshHeld, FinishCallHeld, FinishLoginHeld, DeliverHeld, SettleHeld, RefreshHeld
  DEF Next
<1> QED BY <1>11, <1>12

-------------------------------------------------------------------------------
(* The backend *)

\* What a step may do to the tokens: nothing, rotate one, issue the first of a family,
\* or revoke one.
Rotates(r) ==
    /\ RefreshAtBackend(r)
    /\ token[refresh[r].tok] = "active" /\ issued < MaxToken /\ issued' = issued + 1
    /\ token' = [token EXCEPT ![refresh[r].tok] = "rotated", ![issued + 1] = "active"]
    /\ owner' = [owner EXCEPT ![issued + 1] = owner[refresh[r].tok]]
Begins(r, s) ==
    /\ LoginAtBackend(r)
    /\ \A t \in Tokens : owner[t] # s
    /\ issued < MaxToken /\ issued' = issued + 1
    /\ token' = [token EXCEPT ![issued + 1] = "active"]
    /\ owner' = [owner EXCEPT ![issued + 1] = s]
    /\ req'[r].tok = issued + 1 /\ Pending(req'[r])
Revokes(r) ==
    /\ LogoutAtBackend(r)
    /\ token[req[r].session.tok] = "active"
    /\ token' = [token EXCEPT ![req[r].session.tok] = "revoked"]
    /\ UNCHANGED <<issued, owner>>

\* These are all the ways in which the tokens change.
LEMMA BackendSteps ==
    ASSUME Sane, [Next]_vars
    PROVE  \/ UNCHANGED backend
           \/ \E r \in Requests : Rotates(r) \/ Revokes(r) \/ \E s \in Sessions : Begins(r, s)
<1>1. ASSUME NEW r \in Requests, RefreshAtBackend(r)
      PROVE  UNCHANGED backend \/ Rotates(r)
  BY <1>1 DEF RefreshAtBackend, Rotates
<1>2. ASSUME NEW r \in Requests, LoginAtBackend(r)
      PROVE  UNCHANGED backend \/ \E s \in Sessions : Begins(r, s)
  <2>1. CASE UNCHANGED backend
    BY <2>1
  <2>2. ASSUME NEW s \in Sessions, issued < MaxToken, \A t \in Tokens : owner[t] # s,
               issued' = issued + 1, token' = [token EXCEPT ![issued + 1] = "active"],
               owner' = [owner EXCEPT ![issued + 1] = s],
               req' = [req EXCEPT ![r].pc = "answered", ![r].status = "ok",
                                  ![r].tok = issued + 1]
        PROVE  Begins(r, s)
    <3>1. req \in [Requests -> Handlers] /\ req[r] \in Handlers /\ req[r].kind = "login"
      BY <1>2 DEF Sane, TypeOK, LoginAtBackend
    <3>2. /\ req'[r].tok = issued + 1 /\ req'[r].pc = "answered"
          /\ req'[r].status = "ok" /\ req'[r].kind = "login"
      BY <2>2, <3>1 DEF Handlers
    <3> QED BY <1>2, <2>2, <3>2 DEF Begins, Pending
  <2> QED BY <1>2, <2>1, <2>2 DEF LoginAtBackend
<1>3. ASSUME NEW r \in Requests, LogoutAtBackend(r)
      PROVE  UNCHANGED backend \/ Revokes(r)
  BY <1>3 DEF LogoutAtBackend, Revokes, backend
<1>4. CASE UNCHANGED vars
  BY <1>4 DEF vars, backend
<1>5. CASE Next
  <2>1. \/ UNCHANGED backend
        \/ \E r \in Requests : RefreshAtBackend(r) \/ LoginAtBackend(r) \/ LogoutAtBackend(r)
    BY <1>5 DEF Next, StartCall, StartAuth, RefreshFails, SettleRefresh, CallAtBackend,
       ForceRefresh, FailCall, FinishCall, FinishLogin, FinishLogout, Deliver,
       LoseResponse, Expire, Sweep, Subscribe, Restart
  <2> QED BY <2>1, <1>1, <1>2, <1>3
<1> QED BY <1>4, <1>5

\* A token keeps its family, a fresh one is the only one to change its owner.
LEMMA OwnersStay ==
    ASSUME Sane, [Next]_vars, NEW t \in Tokens, owner[t] \in Sessions
    PROVE  owner'[t] = owner[t]
<1>1. issued \in Nat /\ owner \in [Tokens -> Sessions \cup {None}] /\ t # issued + 1
  BY BffConstants DEF Sane, TypeOK, Issued, Tokens
<1> QED BY <1>1, BackendSteps DEF Rotates, Begins, Revokes, backend

-------------------------------------------------------------------------------
(* The lineage of tokens *)

\* How a handler gets its answer.
LEMMA AnsweredSteps ==
    ASSUME Sane, [Next]_vars, NEW r \in Requests, req'[r].pc = "answered"
    PROVE  \/ req'[r] = req[r]
           \/ CallAtBackend(r) /\ Authenticated(req'[r])
           \/ LoginAtBackend(r)
           \/ LogoutAtBackend(r)
<1> USE DEF Sane, TypeOK
<1>1. ASSUME NEW q \in Requests, NEW k \in Kinds, StartCall(q, k) \/ StartAuth(q, k)
      PROVE  req'[r] = req[r]
  <2> DEFINE h == [Idle EXCEPT !.kind = k, !.session = SessionOf(k)]
             call == [h EXCEPT !.pc = "call"]
             wait == [h EXCEPT !.pc = "wait", !.on = Awaited(q, SessionOf(k).sid)]
             auth == [Idle EXCEPT !.kind = k, !.session = cookie, !.pc = "call"]
  <2>1. call.pc = "call" /\ wait.pc = "wait" /\ auth.pc = "call"
    BY DEF Idle
  <2>2. Respond(auth, Clear).pc # "answered"
    BY RespondShape
  <2>3. PICK x \in {call, wait, auth, Respond(auth, Clear)} : req' = [req EXCEPT ![q] = x]
    BY <1>1 DEF StartCall, StartAuth
  <2>4. x.pc # "answered"
    <3> HIDE DEF call, wait, auth
    <3> QED BY <2>1, <2>2
  <2> QED BY <2>3, <2>4
<1>2. ASSUME NEW q \in Requests, SettleRefresh(q)
      PROVE  req'[r] = req[r]
  BY <1>2 DEF SettleRefresh, Resumed, Respond, Idle, Handlers
<1>3. ASSUME NEW q \in Requests, CallAtBackend(q)
      PROVE  req'[r] = req[r] \/ (q = r /\ Authenticated(req'[r]))
  BY <1>3 DEF CallAtBackend, Authenticated, Handlers
<1>4. ASSUME NEW q \in Requests, LoginAtBackend(q) \/ LogoutAtBackend(q)
      PROVE  req'[r] = req[r] \/ q = r
  BY <1>4 DEF LoginAtBackend, LogoutAtBackend
<1>5. ASSUME NEW q \in Requests, ForceRefresh(q)
      PROVE  req'[r] = req[r]
  BY <1>5 DEF ForceRefresh, Handlers
<1>6. ASSUME NEW q \in Requests,
             FailCall(q) \/ FinishCall(q) \/ FinishLogin(q) \/ FinishLogout(q)
      PROVE  req'[r] = req[r]
  <2>1. PICK w : req' = [req EXCEPT ![q] = Respond(req[q], w)]
    BY <1>6 DEF FailCall, FinishCall, FinishLogin, FinishLogout
  <2>2. Respond(req[q], w).pc # "answered"
    BY RespondShape
  <2> QED BY <2>1, <2>2
<1>7. ASSUME NEW q \in Requests, Deliver(q) \/ LoseResponse(q)
      PROVE  req'[r] = req[r]
  BY <1>7 DEF Deliver, LoseResponse, Idle
<1>8. ASSUME NEW k \in BOOLEAN, Restart(k)
      PROVE  FALSE
  BY <1>8 DEF Restart, Idle
<1>9. ASSUME UNCHANGED req
      PROVE  req'[r] = req[r]
  BY <1>9
<1>10. CASE UNCHANGED vars
  BY <1>9, <1>10 DEF vars
<1>11. CASE Next
  <2>1. ASSUME NEW q \in Requests, RefreshAtBackend(q) \/ RefreshFails(q)
        PROVE  req'[r] = req[r]
    BY <2>1 DEF RefreshAtBackend, RefreshFails
  <2>2. ASSUME NEW s \in Sessions, Expire(s) \/ Sweep(s)
        PROVE  req'[r] = req[r]
    BY <2>2 DEF Expire, Sweep
  <2>3. CASE Subscribe
    BY <2>3 DEF Subscribe
  <2> QED BY <1>11, <1>1, <1>2, <1>3, <1>4, <1>5, <1>6, <1>7, <1>8, <2>1, <2>2, <2>3 DEF Next
<1> QED BY <1>10, <1>11

\* How a login comes to be pending.
LEMMA PendingSteps ==
    ASSUME Sane, [Next]_vars, NEW r \in Requests, Pending(req'[r])
    PROVE  \/ Pending(req[r]) /\ req'[r] = req[r]
           \/ \E s \in Sessions : Begins(r, s)
<1>1. req'[r].pc = "answered" /\ req'[r].kind = "login" /\ req'[r].status = "ok"
  BY DEF Pending
<1>2. CASE req'[r] = req[r]
  BY <1>2
<1>3. CASE CallAtBackend(r) /\ Authenticated(req'[r])
  BY <1>1, <1>3 DEF Authenticated
<1>4. CASE LoginAtBackend(r)
  <2>1. req \in [Requests -> Handlers] /\ req[r] \in Handlers
    BY DEF Sane, TypeOK
  <2>2. ASSUME NEW st \in {"mfa", "error"},
               req' = [req EXCEPT ![r].pc = "answered", ![r].status = st]
        PROVE  FALSE
    BY <1>1, <2>1, <2>2 DEF Handlers
  <2>3. PICK s \in Sessions :
           /\ issued < MaxToken
           /\ \A t \in Tokens : owner[t] # s
           /\ issued' = issued + 1
           /\ token' = [token EXCEPT ![issued + 1] = "active"]
           /\ owner' = [owner EXCEPT ![issued + 1] = s]
           /\ req' = [req EXCEPT ![r].pc = "answered", ![r].status = "ok",
                                ![r].tok = issued + 1]
    BY <1>4, <2>2 DEF LoginAtBackend
  <2>4. req'[r].tok = issued + 1
    BY <2>1, <2>3 DEF Handlers
  <2> QED BY <1>4, <2>3, <2>4 DEF Begins
<1>5. CASE LogoutAtBackend(r)
  <2>1. req'[r].kind = req[r].kind
    BY <1>5 DEF LogoutAtBackend, Sane, TypeOK, Handlers
  <2> QED BY <1>1, <1>5, <2>1 DEF LogoutAtBackend
<1> QED BY <1>1, <1>2, <1>3, <1>4, <1>5, AnsweredSteps

\* The token of a pending login, and of a refresh in flight.
LEMMA PendingToken ==
    ASSUME Sane, NEW r \in Requests, Pending(req[r])
    PROVE  req[r].tok \in Tokens /\ req[r].tok <= issued /\ owner[req[r].tok] \in Sessions
<1>1. req[r].tok \in 1..issued /\ issued \in 0..MaxToken
  BY DEF Sane, TypeOK, SaneHandler, Pending
<1>2. req[r].tok \in Tokens /\ req[r].tok <= issued
  BY <1>1, BffConstants DEF Tokens
<1> QED BY <1>2 DEF Sane, Issued

\* The token that is rotated is held for its family, the new one had no owner.
LEMMA RotatedToken ==
    ASSUME Sane, Families, NEW r \in Requests, Rotates(r)
    PROVE  /\ refresh[r].sid \in Sessions /\ refresh[r].tok \in Tokens
           /\ Held(refresh[r].sid, refresh[r].tok)
           /\ owner[refresh[r].tok] = refresh[r].sid
           /\ issued + 1 \in Tokens /\ refresh[r].tok # issued + 1
           /\ owner[issued + 1] = None
<1>1. refresh[r].st = "sent" /\ refresh[r].sid \in Sessions /\ refresh[r].tok \in Tokens
  BY DEF Rotates, RefreshAtBackend, Sane, SaneRefresh
<1>2. Held(refresh[r].sid, refresh[r].tok)
  BY <1>1 DEF Held, Flies
<1>3. issued + 1 \in Tokens /\ issued \in Nat
  BY BffConstants DEF Rotates, Tokens, Sane, TypeOK
<1>4. issued + 1 > issued
  BY <1>3
<1>5. owner[issued + 1] = None /\ token[issued + 1] = "unissued"
  BY <1>3, <1>4 DEF Sane, Issued
<1> QED BY <1>1, <1>2, <1>3, <1>5 DEF Families, Rotates

\* The token that is revoked is held for its family.
LEMMA RevokedToken ==
    ASSUME Sane, Families, NEW r \in Requests, Revokes(r)
    PROVE  /\ req[r].session \in Payloads
           /\ req[r].session.sid \in Sessions /\ req[r].session.tok \in Tokens
           /\ Held(req[r].session.sid, req[r].session.tok)
           /\ owner[req[r].session.tok] = req[r].session.sid
<1>1. req[r].session \in Payloads
  BY DEF Revokes, LogoutAtBackend, Sane, SaneHandler
<1>2. req[r].session.sid \in Sessions /\ req[r].session.tok \in Tokens /\ req[r].session # None
  BY <1>1, BffConstants DEF Payloads
<1>3. Held(req[r].session.sid, req[r].session.tok)
  BY <1>2 DEF Held, Carries
<1> QED BY <1>1, <1>2, <1>3 DEF Families

\* The first token of a family had no owner, and nothing else changes.
LEMMA BegunToken ==
    ASSUME Sane, NEW r \in Requests, NEW s \in Sessions, Begins(r, s)
    PROVE  /\ issued + 1 \in Tokens /\ issued \in Nat
           /\ owner[issued + 1] = None
           /\ owner'[issued + 1] = s /\ token'[issued + 1] = "active"
           /\ \A t \in Tokens : t # issued + 1 => owner'[t] = owner[t] /\ token'[t] = token[t]
<1>1. issued + 1 \in Tokens /\ issued \in Nat
  BY BffConstants DEF Begins, Tokens, Sane, TypeOK
<1>2. issued + 1 > issued
  BY <1>1
<1>3. owner[issued + 1] = None
  BY <1>1, <1>2 DEF Sane, Issued
<1> QED BY <1>1, <1>3 DEF Begins, Sane, TypeOK

\* What was lost, logged out or raced stays so; only the end of a logout ends a session
\* for good.
LEMMA HistorySteps ==
    ASSUME Next
    PROVE  /\ lost \subseteq lost' /\ out \subseteq out' /\ raced \subseteq raced'
           /\ out' = out \/ \E r \in Requests : FinishLogout(r)
<1> DEFINE Grows == lost \subseteq lost' /\ raced \subseteq raced' /\ out' = out
<1>1. ASSUME NEW r \in Requests, NEW k \in Kinds, StartCall(r, k) PROVE Grows
  BY <1>1 DEF StartCall, history
<1>2. ASSUME NEW r \in Requests, NEW k \in Kinds, StartAuth(r, k) PROVE Grows
  BY <1>2 DEF StartAuth, history
<1>3. ASSUME NEW r \in Requests, RefreshAtBackend(r) PROVE Grows
  BY <1>3 DEF RefreshAtBackend, history
<1>4. ASSUME NEW r \in Requests, RefreshFails(r) PROVE Grows
  BY <1>4 DEF RefreshFails, history
<1>5. ASSUME NEW r \in Requests, SettleRefresh(r) PROVE Grows
  BY <1>5 DEF SettleRefresh, history
<1>6. ASSUME NEW r \in Requests, CallAtBackend(r) PROVE Grows
  BY <1>6 DEF CallAtBackend, history
<1>7. ASSUME NEW r \in Requests, LoginAtBackend(r) PROVE Grows
  BY <1>7 DEF LoginAtBackend, history
<1>8. ASSUME NEW r \in Requests, LogoutAtBackend(r) PROVE Grows
  BY <1>8 DEF LogoutAtBackend, history
<1>9. ASSUME NEW r \in Requests, ForceRefresh(r) PROVE Grows
  BY <1>9 DEF ForceRefresh, history
<1>10. ASSUME NEW r \in Requests, FailCall(r) PROVE Grows
  BY <1>10 DEF FailCall, history
<1>11. ASSUME NEW r \in Requests, FinishCall(r) PROVE Grows
  BY <1>11 DEF FinishCall, history
<1>12. ASSUME NEW r \in Requests, FinishLogin(r) PROVE Grows
  BY <1>12 DEF FinishLogin, history
<1>13. ASSUME NEW r \in Requests, Deliver(r) PROVE Grows
  BY <1>13 DEF Deliver, history
<1>14. ASSUME NEW r \in Requests, LoseResponse(r) PROVE Grows
  BY <1>14 DEF LoseResponse, history
<1>15. ASSUME NEW s \in Sessions, Expire(s) PROVE Grows
  BY <1>15 DEF Expire, history
<1>16. ASSUME NEW s \in Sessions, Sweep(s) PROVE Grows
  BY <1>16 DEF Sweep, history
<1>17. ASSUME Subscribe PROVE Grows
  BY <1>17 DEF Subscribe, history
<1>18. ASSUME NEW k \in BOOLEAN, Restart(k) PROVE Grows
  BY <1>18 DEF Restart, history
<1>19. ASSUME NEW r \in Requests, FinishLogout(r)
      PROVE  lost \subseteq lost' /\ out \subseteq out' /\ raced \subseteq raced'
  BY <1>19 DEF FinishLogout, history
<1> HIDE DEF Grows
<1>20. ASSUME NEW r \in Requests,
              \/ \E k \in Kinds : StartCall(r, k) \/ StartAuth(r, k)
              \/ RefreshAtBackend(r) \/ RefreshFails(r) \/ SettleRefresh(r)
              \/ CallAtBackend(r) \/ LoginAtBackend(r) \/ LogoutAtBackend(r)
              \/ ForceRefresh(r) \/ FailCall(r) \/ FinishCall(r) \/ FinishLogin(r)
              \/ Deliver(r) \/ LoseResponse(r)
       PROVE  Grows
  BY <1>20, <1>1, <1>2, <1>3, <1>4, <1>5, <1>6, <1>7, <1>8, <1>9, <1>10, <1>11, <1>12,
     <1>13, <1>14
<1>21. Grows \/ \E r \in Requests : FinishLogout(r)
  BY <1>15, <1>16, <1>17, <1>18, <1>20 DEF Next
<1> QED
  BY <1>19, <1>21 DEF Grows

\* The same for steps that change nothing.
LEMMA HistoryGrows ==
    ASSUME [Next]_vars
    PROVE  lost \subseteq lost' /\ out \subseteq out' /\ raced \subseteq raced'
BY HistorySteps DEF vars, history

\* A session that is logged out was held by its logout.
LEMMA LoggedOutIsHeld ==
    ASSUME Sane, [Next]_vars, NEW s \in Sessions, s \in out', s \notin out
    PROVE  \E t \in Tokens : Held(s, t)
<1>1. PICK r \in Requests : FinishLogout(r)
  BY HistorySteps DEF vars, history
<1>2. s = req[r].session.sid
  BY <1>1 DEF FinishLogout
<1>3. req[r].session \in Payloads
  BY <1>1 DEF FinishLogout, Sane, SaneHandler
<1>4. req[r].session.tok \in Tokens /\ req[r].session # None
  BY <1>3, BffConstants DEF Payloads
<1> QED BY <1>2, <1>4 DEF Held, Carries

\* Tokens are held for their own family only.
LEMMA NextFamilies == Sane /\ Families /\ [Next]_vars => Families'
<1> SUFFICES ASSUME Sane, Families, [Next]_vars PROVE Families'
  OBVIOUS
<1>1. ASSUME NEW s \in Sessions, NEW t \in Tokens, Held(s, t)'
      PROVE  owner'[t] = s
  <2>1. CASE Held(s, t)
    BY <2>1, OwnersStay DEF Families
  <2>2. ASSUME NEW r \in Requests, Pending(req[r]), s = owner[req[r].tok], t = req[r].tok
        PROVE  owner'[t] = s
    BY <2>2, OwnersStay
  <2>3. ASSUME NEW r \in Requests, RefreshAtBackend(r), refresh[r].sid = s,
               t = issued + 1, issued' = issued + 1
        PROVE  owner'[t] = s
    <3>1. Rotates(r)
      <4>1. issued \in Nat
        BY BffConstants DEF Sane, TypeOK
      <4> QED BY <2>3, <4>1 DEF RefreshAtBackend, Rotates, backend
    <3> QED BY <2>3, <3>1, RotatedToken DEF Rotates, Sane, TypeOK
  <2> QED BY <1>1, <2>1, <2>2, <2>3, HeldKept
<1>2. ASSUME NEW s \in out'
      PROVE  \E t \in Tokens : owner'[t] = s
  <2>1. s \in Sessions
    BY <1>2, NextSane DEF Sane, TypeOK
  <2>2. PICK t \in Tokens : owner[t] = s
    BY <1>2, <2>1, LoggedOutIsHeld DEF Families
  <2> QED BY <2>1, <2>2, OwnersStay
<1> QED BY <1>1, <1>2 DEF Families

\* A family never gets a second active token, nor one after its revocation.
LEMMA NextRows == Sane /\ Families /\ Rows /\ [Next]_vars => Rows'
<1> SUFFICES ASSUME Sane, Families, Rows, [Next]_vars,
                    NEW t \in Tokens, NEW u \in Tokens,
                    owner'[t] = owner'[u], owner'[u] # None,
                    token'[u] = "active", token'[t] \in {"active", "revoked"}
             PROVE  t = u
  BY DEF Rows
<1>1. /\ token \in [Tokens -> {"unissued", "active", "rotated", "revoked"}]
      /\ owner \in [Tokens -> Sessions \cup {None}]
  BY DEF Sane, TypeOK
<1>2. CASE UNCHANGED backend
  BY <1>2 DEF Rows, backend
<1>3. ASSUME NEW r \in Requests, Rotates(r)
      PROVE  t = u
  <2> DEFINE f == refresh[r].tok
             n == issued + 1
  <2>1. f \in Tokens /\ n \in Tokens /\ f # n /\ owner[f] \in Sessions /\ token[f] = "active"
    BY <1>3, RotatedToken DEF Rotates
  <2>2. /\ token'[n] = "active" /\ token'[f] = "rotated"
        /\ owner'[n] = owner[f]
        /\ \A v \in Tokens : v \notin {n, f} => token'[v] = token[v]
        /\ \A v \in Tokens : v # n => owner'[v] = owner[v]
    <3> HIDE DEF f, n
    <3> QED BY <1>1, <1>3, <2>1 DEF Rotates, f, n
  <2>3. f \in Tokens /\ owner[f] # None
    BY <2>1, BffConstants
  <2> HIDE DEF f, n
  <2> QED BY <2>1, <2>2, <2>3 DEF Rows
<1>4. ASSUME NEW r \in Requests, Revokes(r)
      PROVE  t = u
  <2>1. req[r].session.tok \in Tokens
    BY <1>4, RevokedToken
  <2> QED BY <1>1, <1>4, <2>1 DEF Revokes, Rows
<1>5. ASSUME NEW r \in Requests, NEW s \in Sessions, Begins(r, s)
      PROVE  t = u
  <2>1. \A v \in Tokens : owner[v] # s
    BY <1>5 DEF Begins
  <2> QED BY <1>5, <2>1, BegunToken DEF Rows
<1> QED BY <1>2, <1>3, <1>4, <1>5, BackendSteps
\* Nobody meets the session of a login before its handler has finished.
LEMMA NextNewcomers == Sane /\ Families /\ Newcomers /\ [Next]_vars => Newcomers'
<1> SUFFICES ASSUME Sane, Families, Newcomers, [Next]_vars,
                    NEW r \in Requests, Pending(req'[r])
             PROVE  /\ token'[req'[r].tok] = "active"
                    /\ \A u \in Tokens : owner'[u] = owner'[req'[r].tok] => u = req'[r].tok
                    /\ \A s \in Sessions, t \in Tokens : owner'[req'[r].tok] = s => ~Held(s, t)'
                    /\ owner'[req'[r].tok] \notin out'
                    /\ \A q \in Requests : q # r /\ Pending(req'[q]) => req'[q].tok # req'[r].tok
  BY DEF Newcomers, Pending
<1>1. /\ token \in [Tokens -> {"unissued", "active", "rotated", "revoked"}]
      /\ owner \in [Tokens -> Sessions \cup {None}] /\ issued \in Nat
  BY BffConstants DEF Sane, TypeOK
<1>2. ASSUME NEW s \in Sessions, NEW q \in Requests, RefreshAtBackend(q), refresh[q].sid = s
      PROVE  \E t \in Tokens : Held(s, t)
  <2>1. refresh[q].st = "sent" /\ refresh[q].tok \in Tokens
    BY <1>2 DEF RefreshAtBackend, Sane, SaneRefresh
  <2> QED BY <1>2, <2>1 DEF Held, Flies
<1>3. ASSUME NEW q \in Requests, FinishLogin(q)
      PROVE  ~Pending(req'[q])
  <2>1. PICK w : req' = [req EXCEPT ![q] = Respond(req[q], w)]
    BY <1>3 DEF FinishLogin
  <2>2. Respond(req[q], w).pc # "answered"
    BY RespondShape
  <2> QED BY <2>1, <2>2 DEF Pending, Sane, TypeOK
<1>4. CASE Pending(req[r]) /\ req'[r] = req[r]
  <2>0. PICK t \in Tokens, s \in Sessions : t = req[r].tok /\ s = owner[t]
    BY <1>4, PendingToken
  <2>1. t <= issued
    BY <1>4, <2>0, PendingToken
  <2>2. /\ token[t] = "active" /\ s \notin out
        /\ \A u \in Tokens : owner[u] = s => u = t
        /\ \A u \in Tokens : ~Held(s, u)
        /\ \A q \in Requests : q # r /\ Pending(req[q]) => req[q].tok # t
    BY <1>4, <2>0 DEF Newcomers
  <2>3. owner'[t] = s
    BY <2>0, OwnersStay
  <2>4. ASSUME NEW q \in Requests, Rotates(q)
        PROVE  refresh[q].tok # t /\ owner[refresh[q].tok] # s
    BY <2>0, <2>2, <2>4, RotatedToken
  <2>5. ASSUME NEW q \in Requests, Revokes(q)
        PROVE  req[q].session.tok # t
    BY <2>0, <2>2, <2>5, RevokedToken
  <2>6. ASSUME NEW q \in Requests, NEW v \in Sessions, Begins(q, v)
        PROVE  v # s /\ t # issued + 1
    BY <1>1, <2>0, <2>1, <2>6 DEF Begins
  <2>7. token'[t] = "active"
    <3>1. t # issued + 1
      BY <1>1, <2>1
    <3> QED BY <1>1, <2>1, <2>2, <2>4, <2>5, <2>6, <3>1, BackendSteps
        DEF Rotates, Revokes, Begins, backend
  <2>8. ASSUME NEW u \in Tokens, owner'[u] = s
        PROVE  u = t
    <3>1. CASE owner[u] \in Sessions
      BY <2>2, <2>8, <3>1, OwnersStay
    <3>2. CASE owner[u] = None
      <4>1. owner'[u] # owner[u]
        BY <2>1, <2>8, <3>2, BffConstants
      <4> QED BY <1>1, <2>4, <2>6, <2>8, <4>1, BackendSteps DEF Rotates, Revokes, Begins, backend
    <3> QED BY <1>1, <3>1, <3>2
  <2>9. ASSUME NEW u \in Tokens, Held(s, u)'
        PROVE  FALSE
    <3>1. ASSUME NEW q \in Requests, FinishLogin(q), Pending(req[q]), s = owner[req[q].tok]
          PROVE  FALSE
      <4>1. req[q].tok = t
        BY <2>2, <3>1, PendingToken
      <4>2. q = r
        BY <2>2, <3>1, <4>1
      <4> QED BY <1>3, <3>1, <4>2
    <3> QED BY <1>2, <2>1, <2>2, <2>9, <3>1, HeldKept
  <2>10. s \notin out'
    BY <2>1, <2>2, LoggedOutIsHeld
  <2>11. ASSUME NEW q \in Requests, q # r, Pending(req'[q])
         PROVE  req'[q].tok # t
    <3>1. CASE Pending(req[q]) /\ req'[q] = req[q]
      BY <2>2, <2>11, <3>1
    <3>2. ASSUME NEW v \in Sessions, Begins(q, v)
          PROVE  req'[q].tok # t
      BY <2>6, <3>2 DEF Begins
    <3> QED BY <2>11, <3>1, <3>2, PendingSteps
  <2> QED BY <1>4, <2>3, <2>7, <2>8, <2>9, <2>10, <2>11, <2>0
<1>5. ASSUME NEW s \in Sessions, Begins(r, s)
      PROVE  /\ token'[req'[r].tok] = "active"
             /\ \A u \in Tokens : owner'[u] = owner'[req'[r].tok] => u = req'[r].tok
             /\ \A v \in Sessions, t \in Tokens : owner'[req'[r].tok] = v => ~Held(v, t)'
             /\ owner'[req'[r].tok] \notin out'
             /\ \A q \in Requests : q # r /\ Pending(req'[q]) => req'[q].tok # req'[r].tok
  <2> DEFINE n == issued + 1
  <2>1. /\ n \in Tokens /\ owner'[n] = s /\ token'[n] = "active" /\ req'[r].tok = n
        /\ \A u \in Tokens : owner[u] # s
        /\ \A u \in Tokens : u # n => owner'[u] = owner[u]
    BY <1>5, BegunToken DEF Begins
  <2> HIDE DEF n
  <2>2. \A u \in Tokens : ~Held(s, u)
    BY <2>1 DEF Families
  <2>3. ASSUME NEW u \in Tokens, Held(s, u)'
        PROVE  FALSE
    <3>1. ASSUME NEW q \in Requests, FinishLogin(q), Pending(req[q]), s = owner[req[q].tok]
          PROVE  FALSE
      BY <2>1, <3>1, PendingToken
    <3> QED BY <1>2, <2>2, <2>3, <3>1, HeldKept
  <2>4. s \notin out'
    BY <2>1, <2>2, LoggedOutIsHeld DEF Families
  <2>5. ASSUME NEW q \in Requests, q # r, Pending(req'[q])
        PROVE  req'[q].tok # n
    <3>1. CASE Pending(req[q]) /\ req'[q] = req[q]
      BY <1>1, <3>1, PendingToken DEF n
    <3>2. ASSUME NEW v \in Sessions, Begins(q, v)
          PROVE  FALSE
      <4>1. req'[q] = req[q]
        BY <1>5, <2>5 DEF Begins, LoginAtBackend, Sane, TypeOK
      <4> QED BY <2>5, <3>2, <4>1 DEF Begins, LoginAtBackend, Pending
    <3> QED BY <2>5, <3>1, <3>2, PendingSteps
  <2> QED BY <2>1, <2>3, <2>4, <2>5
<1> QED BY <1>4, <1>5, PendingSteps

\* A revoked token stays so.
LEMMA RevokedStays ==
    ASSUME Sane, Families, [Next]_vars, NEW t \in Tokens, token[t] = "revoked"
    PROVE  token'[t] = "revoked"
<1>1. /\ token \in [Tokens -> {"unissued", "active", "rotated", "revoked"}]
      /\ issued \in Nat /\ t # issued + 1
  BY BffConstants DEF Sane, TypeOK, Issued
<1> QED BY <1>1, BackendSteps DEF Rotates, Revokes, Begins, backend

\* The answer to a logout is "ok" only where its token was revoked.
LEMMA NextRevoking == Sane /\ Families /\ Revoking /\ [Next]_vars => Revoking'
<1> SUFFICES ASSUME Sane, Families, Revoking, [Next]_vars, NEW r \in Requests,
                    req'[r].pc = "answered", req'[r].kind = "logout", req'[r].status = "ok"
             PROVE  token'[req'[r].session.tok] = "revoked"
  BY DEF Revoking
<1>1. CASE req'[r] = req[r]
  <2>1. req[r].session \in Payloads
    BY <1>1 DEF Sane, SaneHandler
  <2>2. req[r].session.tok \in Tokens
    BY <2>1 DEF Payloads
  <2> QED BY <1>1, <2>2, RevokedStays DEF Revoking
<1>2. CASE CallAtBackend(r) /\ Authenticated(req'[r])
  BY <1>2 DEF Authenticated
<1>3. CASE LoginAtBackend(r)
  BY <1>3 DEF LoginAtBackend, Sane, TypeOK, Handlers
<1>4. CASE LogoutAtBackend(r)
  <2>1. req \in [Requests -> Handlers] /\ req[r] \in Handlers
    BY DEF Sane, TypeOK
  <2>2. req'[r].session = req[r].session
    BY <1>4, <2>1 DEF LogoutAtBackend, Handlers
  <2>3. token' = [token EXCEPT ![req[r].session.tok] = "revoked"]
    <3>1. ~(req' = [req EXCEPT ![r].pc = "answered", ![r].status = "error"])
      BY <2>1 DEF Handlers
    <3> QED BY <1>4, <3>1 DEF LogoutAtBackend
  <2>4. req[r].session \in Payloads
    BY <1>4 DEF LogoutAtBackend, Sane, SaneHandler
  <2>5. req[r].session.tok \in Tokens
    BY <2>4 DEF Payloads
  <2> QED BY <2>2, <2>3, <2>5 DEF Sane, TypeOK
<1> QED BY <1>1, <1>2, <1>3, <1>4, AnsweredSteps

\* At the start nothing is held.
LEMMA InitLineage == Init => Lineage
<1> SUFFICES ASSUME Init PROVE Lineage
  OBVIOUS
<1>1. \A s \in Sessions, t \in Tokens : ~Held(s, t)
  <2>1. /\ cookie = None /\ sub = None
        /\ \A r \in Requests : /\ req[r].session = None /\ req[r].pc = "idle"
                               /\ refresh[r].st = "none"
        /\ \A s \in Sessions : cache[s] = None
    BY DEF Init, Idle, NoRefresh
  <2> QED BY <2>1 DEF Held, Carries, Caches, Flies
<1>2. \A r \in Requests : req[r].pc = "idle"
  BY DEF Init, Idle
<1>3. out = {} /\ \A t \in Tokens : token[t] = "unissued"
  BY DEF Init
<1> QED BY <1>1, <1>2, <1>3 DEF Lineage, Families, Rows, Newcomers, Pending, Revoking

\* A refresh token is held only for the session of its family; a family has one active
\* token at most, and none after its logout at the backend.
THEOREM TokensKeepTheirFamily == Spec => [](Sane /\ Lineage)
<1>1. Sane /\ Lineage /\ [Next]_vars => Lineage'
  BY NextFamilies, NextRows, NextNewcomers, NextRevoking DEF Lineage
<1> QED BY <1>1, InitSane, InitLineage, NextSane, PTL DEF Spec
-------------------------------------------------------------------------------
(* The newest token of a session *)

\* A session that has not ended and whose newest token was not lost.
Alive(s) == s \notin lost /\ ~Ended(s)

\* What the BFF caches for it is the active token, unless a refresh has rotated that
\* one already and has not yet settled.
Newest(s) ==
    cache[s] # None =>
        \/ token[cache[s].tok] = "active"
        \/ \E r \in Requests : /\ refresh[r].st \in {"ok", "failed"}
                               /\ refresh[r].sid = s /\ refresh[r].new # 0

\* A refresh presents the active token, and is answered with it.
Presents(s) ==
    \A r \in Requests : refresh[r].sid = s =>
        /\ refresh[r].st = "sent" => token[refresh[r].tok] = "active" /\ refresh[r].new = 0
        /\ refresh[r].st = "ok" => token[refresh[r].new] = "active"
        /\ refresh[r].st # "refused"

\* The cache or a refresh in flight has a newer token than any cookie.
Known(s) == cache[s] # None \/ lock[s] # None
Knows(s) == (\E t \in Tokens : Held(s, t)) => Known(s)

Kept == \A s \in Sessions : Alive(s) => Newest(s) /\ Presents(s) /\ Knows(s)

\* A refresh that r starts with what the cache or its own session says.
Departs(r, p) ==
    /\ refresh[r].st = "none" /\ lock[p.sid] = None
    /\ Carries(p.sid, p.tok)
    /\ refresh'[r] = [st |-> "sent", sid |-> p.sid, tok |-> CurrentToken(p), new |-> 0]
    /\ UNCHANGED backend

\* How a refresh changes.
LEMMA RefreshSteps ==
    ASSUME Sane, Flights, [Next]_vars, NEW r \in Requests
    PROVE  \/ refresh'[r] = refresh[r]
           \/ RefreshAtBackend(r) \/ RefreshFails(r)
           \/ refresh'[r] = NoRefresh /\ (SettleRefresh(r) \/ \E k \in BOOLEAN : Restart(k))
           \/ \E p \in Payloads : Departs(r, p)
<1>1. refresh \in [Requests -> Refreshes]
  BY DEF Sane, TypeOK
<1>2. ASSUME NEW q \in Requests, NEW p \in Payloads, Carries(p.sid, p.tok),
             RefreshWithLock(q, p.sid, CurrentToken(p)), req[q].pc # "wait", UNCHANGED backend
      PROVE  refresh'[r] = refresh[r] \/ Departs(r, p)
  <2>1. refresh[q].st = "none"
    BY <1>2 DEF Flights, Owned
  <2> DEFINE f == [st |-> "sent", sid |-> p.sid, tok |-> CurrentToken(p), new |-> 0]
  <2>2. \/ refresh' = refresh
        \/ lock[p.sid] = None /\ refresh' = [refresh EXCEPT ![q] = f]
    BY <1>2 DEF RefreshWithLock
  <2> QED BY <1>1, <1>2, <2>1, <2>2 DEF Departs
<1>3. ASSUME NEW q \in Requests, NEW k \in Kinds, StartCall(q, k)
      PROVE  refresh'[r] = refresh[r] \/ \E p \in Payloads : Departs(r, p)
  <2>1. PICK p : p = SessionOf(k)
    OBVIOUS
  <2>2. p \in Payloads /\ p \in {cookie, sub} /\ p # None
    BY <1>3, <2>1 DEF StartCall, Admitted, SessionOf, Sane, TypeOK
  <2>3. Carries(p.sid, p.tok)
    BY <2>2 DEF Carries
  <2>4. /\ UNCHANGED backend /\ req[q].pc # "wait"
        /\ refresh' = refresh \/ RefreshWithLock(q, p.sid, CurrentToken(p))
    BY <1>3, <2>1 DEF StartCall
  <2> QED BY <1>2, <2>2, <2>3, <2>4
<1>4. ASSUME NEW q \in Requests, ForceRefresh(q)
      PROVE  refresh'[r] = refresh[r] \/ \E p \in Payloads : Departs(r, p)
  <2>1. PICK p : p = req[q].session
    OBVIOUS
  <2>2. req[q].pc = "answered" /\ req[q].kind # "login"
    BY <1>4 DEF ForceRefresh, Authenticated
  <2>3. p \in Payloads /\ p # None
    BY <2>1, <2>2, BffConstants DEF Sane, SaneHandler
  <2>4. Carries(p.sid, p.tok)
    BY <2>1, <2>3 DEF Carries
  <2>5. UNCHANGED backend /\ RefreshWithLock(q, p.sid, CurrentToken(p))
    BY <1>4, <2>1 DEF ForceRefresh
  <2> QED BY <1>2, <2>2, <2>3, <2>4, <2>5
<1>5. ASSUME NEW q \in Requests, SettleRefresh(q)
      PROVE  refresh'[r] = refresh[r] \/ (q = r /\ refresh'[r] = NoRefresh)
  BY <1>1, <1>5 DEF SettleRefresh
<1>6. ASSUME NEW q \in Requests, RefreshAtBackend(q) \/ RefreshFails(q)
      PROVE  refresh'[r] = refresh[r] \/ q = r
  BY <1>1, <1>6 DEF RefreshAtBackend, RefreshFails
<1>7. ASSUME NEW k \in BOOLEAN, Restart(k)
      PROVE  refresh'[r] = NoRefresh
  BY <1>7 DEF Restart
<1>8. CASE UNCHANGED refresh
  BY <1>8
<1>9. CASE UNCHANGED vars
  BY <1>9 DEF vars
<1>10. CASE Next
  <2>1. \/ UNCHANGED refresh
        \/ \E q \in Requests : \/ \E k \in Kinds : StartCall(q, k)
                               \/ ForceRefresh(q) \/ SettleRefresh(q)
                               \/ RefreshAtBackend(q) \/ RefreshFails(q)
        \/ \E k \in BOOLEAN : Restart(k)
    BY <1>10 DEF Next, StartAuth, CallAtBackend, LoginAtBackend, LogoutAtBackend, FailCall,
       FinishCall, FinishLogin, FinishLogout, Deliver, LoseResponse, Expire, Sweep, Subscribe
  <2> QED BY <2>1, <1>3, <1>4, <1>5, <1>6, <1>7, <1>8
<1> QED BY <1>9, <1>10

\* How an entry comes into the cache.
LEMMA CacheSteps ==
    ASSUME Sane, [Next]_vars, NEW s \in Sessions, cache'[s] # None
    PROVE  \/ cache[s] # None /\ cache'[s].tok = cache[s].tok
           \/ \E r \in Requests : /\ FinishLogin(r) /\ Pending(req[r])
                                  /\ owner[req[r].tok] = s /\ cache'[s].tok = req[r].tok
           \/ \E r \in Requests : /\ SettleRefresh(r) /\ refresh[r].st = "ok"
                                  /\ refresh[r].sid = s /\ cache'[s].tok = refresh[r].new
<1>1. cache \in [Sessions -> Entries \cup {None}]
  BY DEF Sane, TypeOK
<1>2. CASE UNCHANGED cache
  BY <1>2
<1>3. ASSUME NEW r \in Requests, SettleRefresh(r)
      PROVE  \/ cache'[s] = cache[s]
             \/ refresh[r].st = "ok" /\ refresh[r].sid = s /\ cache'[s].tok = refresh[r].new
  BY <1>1, <1>3 DEF SettleRefresh
<1>4. ASSUME NEW r \in Requests, FinishLogin(r)
      PROVE  \/ cache'[s] = cache[s]
             \/ Pending(req[r]) /\ owner[req[r].tok] = s /\ cache'[s].tok = req[r].tok
  BY <1>1, <1>4 DEF FinishLogin, Pending
<1>5. ASSUME NEW r \in Requests, FinishCall(r)
      PROVE  cache[s] # None /\ cache'[s].tok = cache[s].tok
  <2>1. CASE UNCHANGED cache
    BY <2>1
  <2>2. ASSUME NEW u, cache[u] # None, cache' = Elevated(u)
        PROVE  cache[s] # None /\ cache'[s].tok = cache[s].tok
    <3>1. CASE u = s
      <4>1. cache[s] \in Entries
        BY <1>1, <2>2, <3>1
      <4> QED BY <1>1, <2>2, <3>1, <4>1 DEF Elevated, Entries
    <3>2. CASE u # s
      BY <1>1, <2>2, <3>2 DEF Elevated
    <3> QED BY <3>1, <3>2
  <2> QED BY <1>5, <2>1, <2>2 DEF FinishCall
<1>6. ASSUME NEW u \in Sessions, Expire(u)
      PROVE  cache[s] # None /\ cache'[s].tok = cache[s].tok
  <2>1. cache[u] \in Entries /\ cache[u] # None
    BY <1>1, <1>6 DEF Expire, IsFresh
  <2>2. CASE u = s
    BY <1>1, <1>6, <2>1, <2>2 DEF Expire, Entries
  <2>3. CASE u # s
    BY <1>1, <1>6, <2>3 DEF Expire
  <2> QED BY <2>2, <2>3
<1>7. ASSUME NEW u \in Sessions, Sweep(u)
      PROVE  cache'[s] = cache[s]
  BY <1>1, <1>7 DEF Sweep
<1>8. ASSUME NEW r \in Requests, ForceRefresh(r) \/ FinishLogout(r)
      PROVE  cache'[s] = cache[s]
  BY <1>1, <1>8 DEF ForceRefresh, FinishLogout, Invalidated
<1>9. ASSUME NEW k \in BOOLEAN, Restart(k)
      PROVE  FALSE
  BY <1>9 DEF Restart
<1>10. CASE UNCHANGED vars
  BY <1>2, <1>10 DEF vars
<1>11. CASE Next
  <2>1. \/ UNCHANGED cache
        \/ \E r \in Requests : \/ SettleRefresh(r) \/ FinishLogin(r) \/ FinishCall(r)
                               \/ ForceRefresh(r) \/ FinishLogout(r)
        \/ \E u \in Sessions : Expire(u) \/ Sweep(u)
        \/ \E k \in BOOLEAN : Restart(k)
    BY <1>11 DEF Next, StartCall, StartAuth, RefreshAtBackend, RefreshFails, CallAtBackend,
       LoginAtBackend, LogoutAtBackend, FailCall, Deliver, LoseResponse, Subscribe
  <2> QED BY <2>1, <1>2, <1>3, <1>4, <1>5, <1>6, <1>7, <1>8, <1>9
<1> QED BY <1>10, <1>11

\* A session that is alive was so before.
LEMMA AliveBefore ==
    ASSUME Sane, Families, [Next]_vars, NEW s \in Sessions, Alive(s)'
    PROVE  Alive(s)
<1>1. s \notin lost' /\ s \notin out'
      /\ ~\E t \in Tokens : owner'[t] = s /\ token'[t] = "revoked"
  BY DEF Alive, Ended
<1> QED BY <1>1, HistoryGrows, RevokedStays, OwnersStay DEF Alive, Ended

\* The active token of a session that is still alive is rotated, or stays active.
LEMMA ActiveStays ==
    ASSUME Sane, Families, [Next]_vars, NEW s \in Sessions, Alive(s)',
           NEW t \in Tokens, owner[t] = s, token[t] = "active"
    PROVE  \/ token'[t] = "active"
           \/ \E r \in Requests : /\ Rotates(r) /\ refresh[r].tok = t
                                  /\ refresh[r].sid = s
<1>1. /\ token \in [Tokens -> {"unissued", "active", "rotated", "revoked"}]
      /\ issued \in Nat /\ t # issued + 1
  BY BffConstants DEF Sane, TypeOK, Issued
<1>2. CASE UNCHANGED backend
  BY <1>2 DEF backend
<1>3. ASSUME NEW r \in Requests, Rotates(r)
      PROVE  token'[t] = "active" \/ (refresh[r].tok = t /\ refresh[r].sid = s)
  <2>1. refresh[r].tok = t => refresh[r].sid = s
    BY <1>3, RotatedToken
  <2> QED BY <1>1, <1>3, <2>1 DEF Rotates
<1>4. ASSUME NEW r \in Requests, Revokes(r)
      PROVE  token'[t] = "active"
  <2>1. CASE req[r].session.tok = t
    <3>1. token'[t] = "revoked" /\ owner'[t] = s
      BY <1>1, <1>4, <2>1 DEF Revokes
    <3> QED BY <3>1 DEF Alive, Ended
  <2>2. CASE req[r].session.tok # t
    BY <1>1, <1>4, <2>2 DEF Revokes
  <2> QED BY <2>1, <2>2
<1>5. ASSUME NEW r \in Requests, NEW v \in Sessions, Begins(r, v)
      PROVE  token'[t] = "active"
  BY <1>1, <1>5 DEF Begins
<1> QED BY <1>2, <1>3, <1>4, <1>5, BackendSteps
\* An entry is not the absence of one.
LEMMA EntryIsSome ==
    ASSUME NEW t \in Tokens
    PROVE  [tok |-> t, fresh |-> TRUE] # None
<1>1. [tok |-> t, fresh |-> TRUE] \in Entries
  BY DEF Entries
<1> QED BY <1>1, BffConstants

\* A session that is known stays so while it is alive, but for a restart.
LEMMA KnownStays ==
    ASSUME NEW s \in Sessions, Sane, Flights, Presents(s), [Next]_vars, Alive(s)', Known(s)
    PROVE  Known(s)' \/ \E k \in BOOLEAN : Restart(k)
<1>1. /\ cache \in [Sessions -> Entries \cup {None}]
      /\ lock \in [Sessions -> Requests \cup {None}]
  BY DEF Sane, TypeOK
<1>2. s \notin lost' /\ s \notin out'
  BY DEF Alive, Ended
<1>3. CASE UNCHANGED <<cache, lock>>
  BY <1>3 DEF Known
<1>4. ASSUME NEW r \in Requests, NEW u, NEW t, RefreshWithLock(r, u, t)
      PROVE  /\ lock[s] # None => lock'[s] # None
             /\ u = s => lock'[s] # None
  BY <1>1, <1>4, BffConstants DEF RefreshWithLock
<1>5. ASSUME NEW r \in Requests, NEW k \in Kinds, StartCall(r, k)
      PROVE  Known(s)'
  BY <1>3, <1>4, <1>5 DEF StartCall, Known
<1>6. ASSUME NEW r \in Requests, ForceRefresh(r)
      PROVE  Known(s)'
  <2>1. CASE req[r].session.sid = s
    BY <1>4, <1>6, <2>1 DEF ForceRefresh, Known
  <2>2. CASE req[r].session.sid # s
    BY <1>1, <1>4, <1>6, <2>2 DEF ForceRefresh, Known
  <2> QED BY <2>1, <2>2
<1>7. ASSUME NEW r \in Requests, SettleRefresh(r)
      PROVE  Known(s)'
  <2>1. CASE refresh[r].sid # s
    BY <1>1, <1>7, <2>1 DEF SettleRefresh, Known
  <2>2. CASE refresh[r].sid = s
    <3>1. CASE refresh[r].st = "ok"
      <4> DEFINE e == [tok |-> refresh[r].new, fresh |-> TRUE]
      <4>1. e # None
        BY <3>1, EntryIsSome DEF Sane, SaneRefresh
      <4>2. cache' = [cache EXCEPT ![s] = e]
        BY <1>7, <2>2, <3>1 DEF SettleRefresh
      <4> HIDE DEF e
      <4> QED BY <1>1, <4>1, <4>2 DEF Known
    <3>2. CASE refresh[r].st = "failed"
      BY <1>2, <1>7, <2>2, <3>2 DEF SettleRefresh, Known
    <3> QED BY <1>7, <2>2, <3>1, <3>2 DEF SettleRefresh, Presents
  <2> QED BY <2>1, <2>2
<1>8. ASSUME NEW r \in Requests, FinishLogout(r)
      PROVE  Known(s)'
  <2>1. req[r].session.sid # s
    BY <1>2, <1>8 DEF FinishLogout
  <2> QED BY <1>1, <1>8, <2>1 DEF FinishLogout, Invalidated, Known
<1>9. ASSUME NEW r \in Requests, FinishLogin(r)
      PROVE  Known(s)'
  <2>1. CASE UNCHANGED cache
    BY <1>9, <2>1 DEF FinishLogin, Known
  <2>2. CASE /\ Pending(req[r])
             /\ cache' = [cache EXCEPT ![owner[req[r].tok]] = [tok |-> req[r].tok, fresh |-> TRUE]]
    <3> DEFINE e == [tok |-> req[r].tok, fresh |-> TRUE]
    <3>1. e # None
      BY <2>2, PendingToken, EntryIsSome
    <3>2. lock' = lock /\ cache' = [cache EXCEPT ![owner[req[r].tok]] = e]
      BY <1>9, <2>2 DEF FinishLogin
    <3> HIDE DEF e
    <3> QED BY <1>1, <3>1, <3>2 DEF Known
  <2> QED BY <1>9, <2>1, <2>2 DEF FinishLogin, Pending
<1>10. ASSUME NEW r \in Requests, FinishCall(r)
       PROVE  Known(s)'
  <2>1. CASE UNCHANGED cache
    BY <1>10, <2>1 DEF FinishCall, Known
  <2>2. CASE cache[req[r].session.sid] # None /\ cache' = Elevated(req[r].session.sid)
    <3>1. req[r].session \in Payloads
      BY <1>10 DEF FinishCall, Authenticated, Sane, SaneHandler
    <3>2. req[r].session.sid \in Sessions
      BY <3>1 DEF Payloads
    <3> DEFINE e == [cache[req[r].session.sid] EXCEPT !.fresh = TRUE]
    <3>3. e \in Entries /\ e # None
      <4>1. cache[req[r].session.sid] \in Entries
        BY <1>1, <2>2, <3>2
      <4>2. e \in Entries
        BY <4>1 DEF Entries
      <4> QED BY <4>2, BffConstants
    <3>4. lock' = lock /\ cache' = [cache EXCEPT ![req[r].session.sid] = e]
      BY <1>10, <2>2 DEF FinishCall, Elevated
    <3> HIDE DEF e
    <3> QED BY <1>1, <3>3, <3>4 DEF Known
  <2> QED BY <1>10, <2>1, <2>2 DEF FinishCall
<1>11. ASSUME NEW u \in Sessions, Expire(u)
       PROVE  Known(s)'
  <2> DEFINE e == [cache[u] EXCEPT !.fresh = FALSE]
  <2>1. cache[u] \in Entries
    BY <1>1, <1>11 DEF Expire, IsFresh
  <2>2. e \in Entries
    BY <2>1 DEF Entries
  <2>3. e # None
    BY <2>2, BffConstants
  <2>4. lock' = lock /\ cache' = [cache EXCEPT ![u] = e]
    BY <1>11 DEF Expire
  <2> HIDE DEF e
  <2> QED BY <1>1, <2>3, <2>4 DEF Known
<1>12. ASSUME NEW u \in Sessions, Sweep(u)
       PROVE  Known(s)'
  BY <1>1, <1>2, <1>12 DEF Sweep, Known
<1>13. CASE UNCHANGED vars
  BY <1>3, <1>13 DEF vars
<1>14. CASE Next
  <2>1. \/ UNCHANGED <<cache, lock>>
        \/ \E r \in Requests : \/ \E k \in Kinds : StartCall(r, k)
                               \/ ForceRefresh(r) \/ SettleRefresh(r) \/ FinishLogout(r)
                               \/ FinishLogin(r) \/ FinishCall(r)
        \/ \E u \in Sessions : Expire(u) \/ Sweep(u)
        \/ \E k \in BOOLEAN : Restart(k)
    BY <1>14 DEF Next, StartAuth, RefreshAtBackend, RefreshFails, CallAtBackend,
       LoginAtBackend, LogoutAtBackend, FailCall, Deliver, LoseResponse, Subscribe
  <2> QED BY <2>1, <1>3, <1>5, <1>6, <1>7, <1>8, <1>9, <1>10, <1>11, <1>12
<1> QED BY <1>13, <1>14

\* What is held for a session that is alive is known after a step, too.
LEMMA KnowsKept ==
    ASSUME NEW s \in Sessions, Sane, Flights, Families, Presents(s), Knows(s), Alive(s),
           [Next]_vars, Alive(s)'
    PROVE  Knows(s)'
<1> SUFFICES ASSUME NEW t \in Tokens, Held(s, t)'
             PROVE  Known(s)'
  BY DEF Knows
<1>1. s \notin out /\ s \notin lost'
  BY DEF Alive, Ended
<1>2. CASE Held(s, t)
  <2>1. owner[t] = s
    BY <1>2 DEF Families
  <2>2. t \in 1..issued
    BY <2>1, BffConstants DEF Sane, TypeOK, Issued, Tokens
  <2>3. ASSUME NEW k \in BOOLEAN, Restart(k)
        PROVE  FALSE
    BY <1>1, <2>1, <2>2, <2>3 DEF Restart
  <2>4. Known(s)
    BY <1>2 DEF Knows
  <2> QED BY <2>3, <2>4, KnownStays
<1>3. ASSUME NEW r \in Requests, FinishLogin(r), Pending(req[r]), s = owner[req[r].tok]
      PROVE  Known(s)'
  <2> DEFINE e == [tok |-> req[r].tok, fresh |-> TRUE]
  <2>1. e # None
    BY <1>3, PendingToken, EntryIsSome
  <2>2. cache' = [cache EXCEPT ![s] = e]
    BY <1>3 DEF FinishLogin, Pending
  <2> HIDE DEF e
  <2> QED BY <2>1, <2>2 DEF Known, Sane, TypeOK
<1>4. ASSUME NEW r \in Requests, RefreshAtBackend(r), refresh[r].sid = s
      PROVE  Known(s)'
  <2>1. lock[s] = r /\ lock' = lock
    BY <1>1, <1>4 DEF Flights, Single, RefreshAtBackend
  <2> QED BY <2>1, BffConstants DEF Known
<1> QED BY <1>2, <1>3, <1>4, HeldKept
\* A refresh starts from the cache, when none is in flight, so with the active token.
LEMMA PresentsKept ==
    ASSUME NEW s \in Sessions, Sane, Flights, Families, Newest(s), Presents(s), Knows(s),
           Alive(s), [Next]_vars, Alive(s)'
    PROVE  Presents(s)'
<1> SUFFICES ASSUME NEW r \in Requests, refresh'[r].sid = s
             PROVE  /\ refresh'[r].st = "sent" =>
                          token'[refresh'[r].tok] = "active" /\ refresh'[r].new = 0
                    /\ refresh'[r].st = "ok" => token'[refresh'[r].new] = "active"
                    /\ refresh'[r].st # "refused"
  BY DEF Presents
<1>1. s \notin out
  BY DEF Alive, Ended
<1>2. /\ refresh \in [Requests -> Refreshes] /\ refresh[r] \in Refreshes
      /\ token \in [Tokens -> {"unissued", "active", "rotated", "revoked"}]
  BY DEF Sane, TypeOK
<1>3. ASSUME NEW q \in Requests, refresh[q].st # "none", refresh[q].sid = s
      PROVE  lock[s] = q
  BY <1>1, <1>3 DEF Flights, Single
<1>4. CASE refresh'[r] = refresh[r]
  <2>1. ASSUME NEW t \in Tokens, refresh[r].st \in {"sent", "ok"},
               t = refresh[r].tok \/ t = refresh[r].new, token[t] = "active"
        PROVE  token'[t] = "active"
    <3>1. owner[t] = s
      BY <1>4, <2>1 DEF Families, Held, Flies
    <3>2. ASSUME NEW q \in Requests, Rotates(q), refresh[q].sid = s
          PROVE  FALSE
      <4>1. refresh[q].st = "sent" /\ refresh'[q].st = "ok"
        <5>1. issued \in Nat /\ issued' # issued
          BY <3>2, BffConstants DEF Rotates, Sane, TypeOK
        <5>2. refresh[q] \in Refreshes
          BY <1>2
        <5> QED BY <1>2, <3>2, <5>1, <5>2 DEF Rotates, RefreshAtBackend, backend, Refreshes
      <4>2. q = r
        BY <1>3, <1>4, <2>1, <3>2, <4>1
      <4> QED BY <1>4, <4>1, <4>2
    <3> QED BY <2>1, <3>1, <3>2, ActiveStays
  <2>2. refresh[r].st # "none" => refresh[r].tok \in Tokens
    BY DEF Sane, SaneRefresh
  <2>3. refresh[r].st = "ok" => refresh[r].new \in Tokens
    BY DEF Sane, SaneRefresh
  <2> QED BY <1>4, <2>1, <2>2, <2>3 DEF Presents
<1>5. CASE RefreshAtBackend(r)
  <2>1. refresh'[r].sid = refresh[r].sid
    BY <1>2, <1>5 DEF RefreshAtBackend, Refreshes
  <2>2. token[refresh[r].tok] = "active"
    BY <1>5, <2>1 DEF RefreshAtBackend, Presents
  <2>3. /\ refresh' = [refresh EXCEPT ![r].st = "ok", ![r].new = issued + 1]
        /\ token' = [token EXCEPT ![refresh[r].tok] = "rotated", ![issued + 1] = "active"]
        /\ issued < MaxToken
    BY <1>5, <2>2 DEF RefreshAtBackend
  <2>4. issued + 1 \in Tokens
    BY <2>3, BffConstants DEF Tokens, Sane, TypeOK
  <2>5. refresh'[r].st = "ok" /\ refresh'[r].new = issued + 1
    BY <1>2, <2>3 DEF Refreshes
  <2>6. token'[issued + 1] = "active"
    BY <1>2, <2>3, <2>4
  <2> QED BY <2>5, <2>6
<1>6. CASE RefreshFails(r)
  BY <1>2, <1>6 DEF RefreshFails, Refreshes
<1>7. CASE refresh'[r] = NoRefresh
  BY <1>7 DEF NoRefresh
<1>8. ASSUME NEW p \in Payloads, Departs(r, p)
      PROVE  refresh'[r].st = "sent" /\ refresh'[r].new = 0
             /\ token'[refresh'[r].tok] = "active"
  <2>1. /\ refresh'[r].st = "sent" /\ refresh'[r].new = 0 /\ p.sid = s
        /\ refresh'[r].tok = CurrentToken(p)
    BY <1>8 DEF Departs
  <2>2. \A q \in Requests : refresh[q].sid = s => refresh[q].st = "none"
    BY <1>3, <1>8, <2>1, BffConstants DEF Departs
  <2>3. p.tok \in Tokens
    BY DEF Payloads
  <2>4. cache[s] # None
    BY <1>8, <2>1, <2>3 DEF Departs, Held, Knows, Known
  <2>5. token[cache[s].tok] = "active"
    BY <2>2, <2>4 DEF Newest
  <2>6. CurrentToken(p) = cache[s].tok /\ token' = token
    BY <1>8, <2>1, <2>4 DEF CurrentToken, Departs, backend
  <2> QED BY <2>1, <2>5, <2>6
<1> QED BY <1>4, <1>5, <1>6, <1>7, <1>8, RefreshSteps

\* The cached token is the active one until a refresh has rotated it.
LEMMA NewestKept ==
    ASSUME NEW s \in Sessions, Sane, Flights, Families, Newcomers, Newest(s), Presents(s),
           Alive(s), [Next]_vars, Alive(s)'
    PROVE  Newest(s)'
<1> SUFFICES ASSUME cache'[s] # None
             PROVE  \/ token'[cache'[s].tok] = "active"
                    \/ \E r \in Requests : /\ refresh'[r].st \in {"ok", "failed"}
                                           /\ refresh'[r].sid = s /\ refresh'[r].new # 0
  BY DEF Newest
<1>1. s \notin lost'
  BY DEF Alive
<1>2. /\ refresh \in [Requests -> Refreshes] /\ issued \in Nat
      /\ cache \in [Sessions -> Entries \cup {None}]
  BY BffConstants DEF Sane, TypeOK
<1>3. CASE cache[s] # None /\ cache'[s].tok = cache[s].tok
  <2>1. CASE token[cache[s].tok] = "active"
    <3>1. cache[s].tok \in Tokens
      BY <1>2, <1>3 DEF Entries
    <3>2. owner[cache[s].tok] = s
      BY <1>3, <3>1 DEF Families, Held, Caches
    <3>3. ASSUME NEW r \in Requests, Rotates(r), refresh[r].sid = s
          PROVE  /\ refresh'[r].st = "ok" /\ refresh'[r].sid = s /\ refresh'[r].new # 0
      <4>1. refresh[r] \in Refreshes /\ issued + 1 # 0
        BY <1>2
      <4>2. refresh' = [refresh EXCEPT ![r].st = "ok", ![r].new = issued + 1]
        BY <1>2, <3>3 DEF Rotates, RefreshAtBackend, backend
      <4> QED BY <1>2, <3>3, <4>1, <4>2 DEF Refreshes
    <3> QED BY <1>3, <2>1, <3>1, <3>2, <3>3, ActiveStays
  <2>2. ASSUME NEW r \in Requests, refresh[r].st \in {"ok", "failed"},
               refresh[r].sid = s, refresh[r].new # 0
        PROVE  \/ token'[cache'[s].tok] = "active"
               \/ /\ refresh'[r].st \in {"ok", "failed"}
                  /\ refresh'[r].sid = s /\ refresh'[r].new # 0
    <3>1. CASE refresh'[r] = refresh[r]
      BY <2>2, <3>1
    <3>2. CASE RefreshFails(r)
      <4>1. refresh[r] \in Refreshes
        BY <1>2
      <4> QED BY <1>2, <2>2, <3>2, <4>1 DEF RefreshFails, Refreshes
    <3>3. CASE SettleRefresh(r)
      <4>1. CASE refresh[r].st = "ok"
        <5>1. cache'[s].tok = refresh[r].new /\ token' = token
          BY <1>2, <2>2, <3>3, <4>1 DEF SettleRefresh, backend
        <5> QED BY <2>2, <4>1, <5>1 DEF Presents
      <4>2. CASE refresh[r].st = "failed"
        BY <1>1, <2>2, <3>3, <4>2 DEF SettleRefresh
      <4> QED BY <2>2, <4>1, <4>2
    <3>4. ASSUME NEW k \in BOOLEAN, Restart(k)
          PROVE  FALSE
      BY <3>4 DEF Restart
    <3>5. ~RefreshAtBackend(r) /\ \A p \in Payloads : ~Departs(r, p)
      BY <2>2 DEF RefreshAtBackend, Departs
    <3> QED BY <3>1, <3>2, <3>3, <3>4, <3>5, RefreshSteps
  <2> QED BY <1>3, <2>1, <2>2 DEF Newest
<1>4. ASSUME NEW r \in Requests, FinishLogin(r), Pending(req[r]),
             owner[req[r].tok] = s, cache'[s].tok = req[r].tok
      PROVE  token'[cache'[s].tok] = "active"
  BY <1>4 DEF Newcomers, FinishLogin, backend
<1>5. ASSUME NEW r \in Requests, SettleRefresh(r), refresh[r].st = "ok",
             refresh[r].sid = s, cache'[s].tok = refresh[r].new
      PROVE  token'[cache'[s].tok] = "active"
  BY <1>5 DEF Presents, SettleRefresh, backend
<1> QED BY <1>3, <1>4, <1>5, CacheSteps

\* Every step keeps the newest token of the sessions that are alive.
LEMMA NextKept == Sane /\ Flights /\ Lineage /\ Kept /\ [Next]_vars => Kept'
<1> SUFFICES ASSUME Sane, Flights, Lineage, Kept, [Next]_vars, NEW s \in Sessions, Alive(s)'
             PROVE  (Newest(s) /\ Presents(s) /\ Knows(s))'
  BY DEF Kept
<1>1. Alive(s) /\ Families /\ Newcomers
  BY AliveBefore DEF Lineage
<1>2. Newest(s) /\ Presents(s) /\ Knows(s)
  BY <1>1 DEF Kept
<1> QED BY <1>1, <1>2, NewestKept, PresentsKept, KnowsKept

\* The BFF presents a token that is not active only for a session that has ended or whose
\* newest token was lost: by itself it never trips the backend's reuse detection.
THEOREM ReuseOnlyAfterLoss == Spec => []ReuseNeedsLoss
<1>1. Init => Kept
  <2> SUFFICES ASSUME Init, NEW s \in Sessions PROVE Newest(s) /\ Presents(s) /\ Knows(s)
    BY DEF Kept
  <2>1. cache[s] = None /\ \A r \in Requests : refresh[r].st = "none"
    BY DEF Init, NoRefresh
  <2>2. \A t \in Tokens : ~Held(s, t)
    <3>1. /\ cookie = None /\ sub = None
          /\ \A r \in Requests : req[r].session = None /\ req[r].pc = "idle"
      BY DEF Init, Idle
    <3> QED BY <2>1, <3>1 DEF Held, Carries, Caches, Flies
  <2> QED BY <2>1, <2>2 DEF Newest, Presents, Knows
<1>2. Sane /\ Kept => ReuseNeedsLoss
  <2> SUFFICES ASSUME Sane, Kept, NEW r \in Requests, refresh[r].st = "sent",
                      token[refresh[r].tok] # "active"
               PROVE  refresh[r].sid \in lost \/ Ended(refresh[r].sid)
    BY DEF ReuseNeedsLoss
  <2>1. refresh[r].sid \in Sessions
    BY DEF Sane, SaneRefresh
  <2> QED BY <2>1 DEF Kept, Alive, Presents
<1> QED BY <1>1, <1>2, NextKept, FlightInvariant, TokensKeepTheirFamily, PTL DEF Spec
-------------------------------------------------------------------------------
(* After a logout *)

\* A handler with an access token, that its session has or had.
Calling(h) == h.pc \in {"call", "answered"} /\ Authenticated(h)

\* A logout that nothing raced has left nothing of the session that could be used.
Emptied(s) ==
    /\ \A t \in Tokens : owner[t] = s => token[t] # "active"
    /\ cache[s] = None
    /\ \A r \in Requests : refresh[r].sid = s => refresh[r].st # "ok"
    /\ \A r \in Requests : Calling(req[r]) => req[r].session.sid # s

Gone == \A s \in out \ raced : Emptied(s)

\* How a handler gets an access token.
LEMMA CallingSteps ==
    ASSUME Sane, [Next]_vars, NEW r \in Requests, Calling(req'[r])
    PROVE  \/ Calling(req[r]) /\ req'[r].session = req[r].session
           \/ cache[req'[r].session.sid] # None
           \/ /\ req[r].pc = "wait" /\ req'[r].session = req[r].session
              /\ refresh[req[r].on].st = "ok"
<1>1. /\ req \in [Requests -> Handlers] /\ req[r] \in Handlers
      /\ req'[r].pc \in {"call", "answered"} /\ Authenticated(req'[r])
  BY DEF Sane, TypeOK, Calling
<1>2. CASE req'[r] = req[r]
  BY <1>1, <1>2 DEF Calling, Authenticated
<1>3. CASE req'[r].pc = "answered"
  <2>1. CASE CallAtBackend(r)
    BY <1>1, <2>1 DEF CallAtBackend, Calling, Handlers
  <2>2. CASE LoginAtBackend(r) \/ LogoutAtBackend(r)
    <3>1. req'[r].kind = req[r].kind
      BY <1>1, <2>2 DEF LoginAtBackend, LogoutAtBackend, Handlers
    <3> QED BY <1>1, <2>2, <3>1 DEF LoginAtBackend, LogoutAtBackend, Authenticated
  <2> QED BY <1>2, <1>3, <2>1, <2>2, AnsweredSteps
<1>4. CASE req'[r].pc = "call" /\ req'[r] # req[r]
  <2>1. ASSUME NEW q \in Requests, NEW k \in Kinds, StartCall(q, k)
        PROVE  cache[req'[r].session.sid] # None
    <3> DEFINE h == [Idle EXCEPT !.kind = k, !.session = SessionOf(k)]
               call == [h EXCEPT !.pc = "call"]
               wait == [h EXCEPT !.pc = "wait", !.on = Awaited(q, SessionOf(k).sid)]
    <3>1. call.session = SessionOf(k) /\ wait.pc = "wait"
      BY DEF Idle
    <3>2. \/ req' = [req EXCEPT ![q] = call] /\ IsFresh(SessionOf(k).sid)
          \/ req' = [req EXCEPT ![q] = wait]
      BY <2>1 DEF StartCall
    <3> HIDE DEF call, wait
    <3>3. q = r
      BY <1>1, <1>4, <3>2
    <3>4. req'[r] = call /\ IsFresh(SessionOf(k).sid)
      BY <1>1, <1>4, <3>1, <3>2, <3>3
    <3> QED BY <3>1, <3>4 DEF IsFresh
  <2>2. ASSUME NEW q \in Requests, NEW k \in Kinds, StartAuth(q, k)
        PROVE  FALSE
    <3> DEFINE h == [Idle EXCEPT !.kind = k, !.session = cookie, !.pc = "call"]
    <3>1. h.kind = k /\ Respond(h, Clear).pc # "call"
      BY RespondShape DEF Idle
    <3>2. PICK x \in {h, Respond(h, Clear)} : req' = [req EXCEPT ![q] = x]
      BY <2>2 DEF StartAuth
    <3> HIDE DEF h
    <3>3. q = r
      BY <1>1, <1>4, <3>2
    <3>4. req'[r] = h
      BY <1>1, <1>4, <3>1, <3>2, <3>3
    <3> QED BY <1>1, <2>2, <3>1, <3>4 DEF StartAuth, Authenticated
  <2>3. ASSUME NEW q \in Requests, SettleRefresh(q)
        PROVE  /\ req[r].pc = "wait" /\ req'[r].session = req[r].session
               /\ refresh[req[r].on].st = "ok"
    <3>1. /\ req[r].pc = "wait" /\ req[r].on = q
          /\ req'[r] = Resumed(req[r], refresh[q].st = "ok")
      BY <1>4, <2>3 DEF SettleRefresh
    <3>2. Respond(req[r], Keep).pc # "call"
      BY RespondShape
    <3>3. refresh[q].st = "ok" /\ req'[r] = [req[r] EXCEPT !.pc = "call", !.on = None]
      BY <1>4, <3>1, <3>2 DEF Resumed
    <3> QED BY <1>1, <3>1, <3>3 DEF Handlers
  <2>4. ASSUME NEW q \in Requests,
               CallAtBackend(q) \/ LoginAtBackend(q) \/ LogoutAtBackend(q) \/ ForceRefresh(q)
        PROVE  FALSE
    BY <1>1, <1>4, <2>4 DEF CallAtBackend, LoginAtBackend, LogoutAtBackend, ForceRefresh, Handlers
  <2>5. ASSUME NEW q \in Requests,
               FailCall(q) \/ FinishCall(q) \/ FinishLogin(q) \/ FinishLogout(q)
        PROVE  FALSE
    <3>1. PICK w : req' = [req EXCEPT ![q] = Respond(req[q], w)]
      BY <2>5 DEF FailCall, FinishCall, FinishLogin, FinishLogout
    <3>2. Respond(req[q], w).pc # "call"
      BY RespondShape
    <3> QED BY <1>1, <1>4, <3>1, <3>2
  <2>6. ASSUME NEW q \in Requests, Deliver(q) \/ LoseResponse(q)
        PROVE  FALSE
    BY <1>1, <1>4, <2>6 DEF Deliver, LoseResponse, Idle
  <2>7. ASSUME NEW k \in BOOLEAN, Restart(k)
        PROVE  FALSE
    BY <1>4, <2>7 DEF Restart, Idle
  <2>8. req' # req
    BY <1>4
  <2>9. CASE UNCHANGED vars
    BY <2>8, <2>9 DEF vars
  <2>10. CASE Next
    <3>1. \/ \E q \in Requests :
                \/ \E k \in Kinds : StartCall(q, k) \/ StartAuth(q, k)
                \/ SettleRefresh(q)
                \/ CallAtBackend(q) \/ LoginAtBackend(q) \/ LogoutAtBackend(q) \/ ForceRefresh(q)
                \/ FailCall(q) \/ FinishCall(q) \/ FinishLogin(q) \/ FinishLogout(q)
                \/ Deliver(q) \/ LoseResponse(q)
          \/ \E k \in BOOLEAN : Restart(k)
      BY <2>8, <2>10 DEF Next, RefreshAtBackend, RefreshFails, Expire, Sweep, Subscribe
    <3> QED BY <3>1, <2>1, <2>2, <2>3, <2>4, <2>5, <2>6, <2>7
  <2> QED BY <2>9, <2>10
<1> QED BY <1>1, <1>2, <1>3, <1>4

\* The logout itself.
LEMMA LogoutEmpties ==
    ASSUME Sane, Flights, Lineage, NEW r \in Requests, FinishLogout(r),
           NEW s \in Sessions, s = req[r].session.sid, s \notin raced'
    PROVE  Emptied(s)'
<1>1. /\ req[r].pc = "answered" /\ req[r].kind = "logout"
      /\ req[r].status = "ok" /\ InUse(s) = {r}
      /\ UNCHANGED <<token, owner, refresh>>
      /\ cache' = Invalidated(s) /\ req' = [req EXCEPT ![r] = Respond(req[r], Clear)]
  BY DEF FinishLogout, backend
<1>2. req[r].session \in Payloads /\ req[r].session # None
  BY <1>1, BffConstants DEF Sane, SaneHandler
<1>3. req[r].session.tok \in Tokens /\ token[req[r].session.tok] = "revoked"
  BY <1>1, <1>2 DEF Lineage, Revoking, Payloads
<1>4. owner[req[r].session.tok] = s /\ s # None
  BY <1>2, <1>3, BffConstants DEF Lineage, Families, Held, Carries
<1>5. \A t \in Tokens : owner[t] = s => token[t] # "active"
  BY <1>3, <1>4 DEF Lineage, Rows
<1>6. \A q \in Requests : req[q].session \in Payloads /\ req[q].session.sid = s => q = r
  BY <1>1, BffConstants DEF InUse
<1>7. ASSUME NEW q \in Requests, refresh[q].sid = s, refresh[q].st = "ok"
      PROVE  FALSE
  <2>1. req[q].pc = "wait" /\ req[q].session.sid = s
    BY <1>7 DEF Flights, Owned, WaitersAreResumed
  <2>2. req[q].session \in Payloads
    BY <2>1 DEF Sane, SaneHandler, Authenticated
  <2> QED BY <1>1, <1>6, <2>1, <2>2
<1>8. ASSUME NEW q \in Requests, Calling(req'[q])
      PROVE  req'[q].session.sid # s
  <2>1. Respond(req[r], Clear).pc \notin {"call", "answered"}
    BY RespondShape
  <2>2. req'[q] = req[q] /\ q # r
    BY <1>1, <1>8, <2>1 DEF Calling, Sane, TypeOK
  <2>3. req[q].session \in Payloads
    BY <1>8, <2>2 DEF Calling, Authenticated, Sane, SaneHandler
  <2> QED BY <1>6, <2>2, <2>3
<1>9. cache'[s] = None
  BY <1>1 DEF Invalidated, Sane, TypeOK
<1> QED BY <1>1, <1>5, <1>7, <1>8, <1>9 DEF Emptied

\* Nothing brings a session back that a logout has emptied.
LEMMA EmptiedStays ==
    ASSUME Sane, Flights, Lineage, [Next]_vars, NEW s \in Sessions, s \in out, Emptied(s)
    PROVE  Emptied(s)'
<1>1. /\ token \in [Tokens -> {"unissued", "active", "rotated", "revoked"}]
      /\ owner \in [Tokens -> Sessions \cup {None}]
  BY DEF Sane, TypeOK
<1>2. PICK o \in Tokens : owner[o] = s
  BY DEF Lineage, Families
<1>3. ASSUME NEW t \in Tokens, owner'[t] = s, token'[t] = "active"
      PROVE  FALSE
  <2>1. CASE UNCHANGED backend
    BY <1>3, <2>1 DEF backend, Emptied
  <2>2. ASSUME NEW r \in Requests, Rotates(r)
        PROVE  FALSE
    <3>1. refresh[r].tok \in Tokens /\ token[refresh[r].tok] = "active"
          /\ issued + 1 \in Tokens /\ refresh[r].tok # issued + 1
      BY <2>2, RotatedToken DEF Lineage, Rotates
    <3>2. owner[refresh[r].tok] # s
      BY <3>1 DEF Emptied
    <3> QED BY <1>1, <1>3, <2>2, <3>1, <3>2 DEF Rotates, Emptied
  <2>3. ASSUME NEW r \in Requests, Revokes(r)
        PROVE  FALSE
    BY <1>1, <1>3, <2>3 DEF Revokes, Emptied
  <2>4. ASSUME NEW r \in Requests, NEW v \in Sessions, Begins(r, v)
        PROVE  FALSE
    <3>1. v # s
      BY <1>2, <2>4 DEF Begins
    <3> QED BY <1>3, <2>4, <3>1, BegunToken DEF Emptied
  <2> QED BY <2>1, <2>2, <2>3, <2>4, BackendSteps
<1>4. ASSUME cache'[s] # None
      PROVE  FALSE
  <2>1. ASSUME NEW r \in Requests, Pending(req[r]), owner[req[r].tok] = s
        PROVE  FALSE
    BY <2>1 DEF Lineage, Newcomers
  <2> QED BY <1>4, <2>1, CacheSteps DEF Emptied
<1>5. ASSUME NEW r \in Requests, refresh'[r].sid = s, refresh'[r].st = "ok"
      PROVE  FALSE
  <2>1. refresh \in [Requests -> Refreshes] /\ refresh[r] \in Refreshes
    BY DEF Sane, TypeOK
  <2>2. CASE refresh'[r] = refresh[r]
    BY <1>5, <2>2 DEF Emptied
  <2>3. CASE RefreshAtBackend(r)
    <3>1. /\ refresh[r].st = "sent" /\ refresh[r].sid = s
          /\ token[refresh[r].tok] = "active"
      BY <1>5, <2>1, <2>3 DEF RefreshAtBackend, Refreshes
    <3>2. refresh[r].tok \in Tokens
      BY <3>1 DEF Sane, SaneRefresh
    <3>3. owner[refresh[r].tok] = s
      BY <3>1, <3>2 DEF Lineage, Families, Held, Flies
    <3> QED BY <3>1, <3>2, <3>3 DEF Emptied
  <2>4. CASE RefreshFails(r)
    BY <1>5, <2>1, <2>4 DEF RefreshFails, Refreshes
  <2>5. CASE refresh'[r] = NoRefresh
    BY <1>5, <2>5 DEF NoRefresh
  <2>6. ASSUME NEW p \in Payloads, Departs(r, p)
        PROVE  FALSE
    BY <1>5, <2>6 DEF Departs
  <2> QED BY <2>2, <2>3, <2>4, <2>5, <2>6, RefreshSteps
<1>6. ASSUME NEW r \in Requests, Calling(req'[r]), req'[r].session.sid = s
      PROVE  FALSE
  <2>1. CASE req[r].pc = "wait" /\ req'[r].session = req[r].session
             /\ refresh[req[r].on].st = "ok"
    <3>1. refresh[req[r].on].sid = s /\ req[r].on \in Requests
      BY <1>6, <2>1 DEF Flights, WaitersAreResumed, Sane, TypeOK, Handlers
    <3> QED BY <2>1, <3>1 DEF Emptied
  <2> QED BY <1>6, <2>1, CallingSteps DEF Emptied
<1> QED BY <1>3, <1>4, <1>5, <1>6 DEF Emptied

\* Every step keeps the sessions of unraced logouts empty.
LEMMA NextGone == Sane /\ Flights /\ Lineage /\ Gone /\ [Next]_vars => Gone'
<1> SUFFICES ASSUME Sane, Flights, Lineage, Gone, [Next]_vars,
                    NEW s \in Sessions, s \in out', s \notin raced'
             PROVE  Emptied(s)'
  BY NextSane DEF Gone, Sane, TypeOK
<1>1. CASE s \in out
  BY <1>1, EmptiedStays, HistoryGrows DEF Gone
<1>2. CASE s \notin out
  <2>1. PICK r \in Requests : FinishLogout(r)
    BY <1>2, HistorySteps DEF vars, history
  <2>2. s = req[r].session.sid
    BY <1>2, <2>1 DEF FinishLogout
  <2> QED BY <2>1, <2>2, LogoutEmpties
<1> QED BY <1>1, <1>2

\* After a logout that revoked the token and that no request of the session raced, the BFF
\* makes no call for the session any more, whoever still holds its cookie.
THEOREM LogoutHolds == Spec => []LogoutIsFinal
<1>1. Init => Gone
  BY DEF Init, Gone
<1>2. Sane /\ Gone => LogoutIsFinal
  BY DEF Gone, Emptied, Calling, LogoutIsFinal, Sane, TypeOK
<1> QED BY <1>1, <1>2, NextGone, FlightInvariant, TokensKeepTheirFamily, PTL DEF Spec

===============================================================================
