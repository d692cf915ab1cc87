----------------------------- MODULE SessionProofs -----------------------------
(***************************************************************************)
(* What holds of sessions at both ends: of the tab that is signed in, for  *)
(* every number of calls under way, sessions and faults; and of the        *)
(* refresh tokens, for every number of tokens and of request threads,      *)
(* although no transaction checks that a row is as it was read.            *)
(***************************************************************************)
EXTENDS WebSession, TokenRows, TLAPS

CONSTANT Workers
VARIABLES expired, job

\* The refresh tokens.  What is assumed of their constants is a hypothesis of their
\* theorems.
Tok == INSTANCE RefreshTokens

-------------------------------------------------------------------------------
(* The tab: types *)

CallsType == [Slots -> Call \cup {None}]

\* Two calls differ in their form at most.
Alike(c, d) ==
    /\ d = None <=> c = None
    /\ c # None => d.kind = c.kind /\ d.sid = c.sid /\ d.new = c.new /\ d.st = c.st

\* A new call is a call, with no result.
LEMMA NewCallType ==
    ASSUME NEW k \in Kinds, NEW s \in 0..MaxSessions
    PROVE  /\ NewCall(k, s) \in Call /\ NewCall(k, s) # None
           /\ NewCall(k, s).kind = k /\ NewCall(k, s).st = "none"
           /\ k \notin FormCalls => NewCall(k, s).sid = s
<1>1. NewCall(k, s) \in Call
  BY WebSessionConstants DEF NewCall, Call, Results, FormCalls
<1> QED
  BY <1>1, NoneIsNoCall DEF NewCall

\* Leaving a form changes of its calls only that they are its.
LEMMA UnmountedAlike ==
    ASSUME NEW cs \in CallsType
    PROVE  Unmounted(cs) \in CallsType /\ \A i \in Slots : Alike(cs[i], Unmounted(cs)[i])
<1>1. ASSUME NEW i \in Slots, cs[i] # None
      PROVE  /\ [cs[i] EXCEPT !.here = FALSE] \in Call
             /\ Alike(cs[i], [cs[i] EXCEPT !.here = FALSE])
  <2>1. cs[i] \in Call
    BY <1>1 DEF CallsType
  <2>2. [cs[i] EXCEPT !.here = FALSE] \in Call
    BY <2>1 DEF Call
  <2> QED
    BY <1>1, <2>1, <2>2, NoneIsNoCall DEF Call, Alike
<1> QED
  BY <1>1 DEF Unmounted, CallsType, Alike

\* What the router does to the calls.
LEMMA ShowKeeps ==
    ASSUME TypeOK, NEW r \in {"login", "register", "app"}, NEW cs \in CallsType, Show(r, cs)
    PROVE  /\ route' = r /\ mfaToken' \in BOOLEAN /\ warm' \in {"checking", "ready", "failed"}
           /\ calls' \in CallsType
           /\ \A i \in Slots : Alike(cs[i], calls'[i])
<1>1. CASE r = route
  BY <1>1 DEF Show, TypeOK, Alike
<1>2. CASE r # route
  BY <1>2, UnmountedAlike DEF Show
<1> QED
  BY <1>1, <1>2

\* The timers are armed, warned or off.
LEMMA TimersType ==
    ASSUME TypeOK, Timers
    PROVE  idle' \in {"off", "armed", "warned"}
BY DEF TypeOK, Timers

\* The calls with one more, and with one less.
LEMMA WithType ==
    ASSUME TypeOK, NEW i \in Slots, NEW k \in Kinds
    PROVE  /\ With(i, k) \in CallsType /\ Over(i) \in CallsType
           /\ With(i, k)[i] = NewCall(k, cookie) /\ Over(i)[i] = None
           /\ \A j \in Slots \ {i} : With(i, k)[j] = calls[j] /\ Over(i)[j] = calls[j]
<1>1. NewCall(k, cookie) \in Call
  BY NewCallType DEF TypeOK
<1> QED
  BY <1>1 DEF With, Over, CallsType, TypeOK

\* A step of the user's, or of the tab by itself, that starts or answers no call.
LEMMA TabType ==
    ASSUME TypeOK,
           \/ \E r \in {"login", "register", "app"} : Navigate(r)
           \/ Activity \/ OnBack \/ Retry \/ Redirect \/ Warn \/ Probe
    PROVE  /\ TypeOK' /\ \A i \in Slots : Alike(calls[i], calls'[i])
           /\ UNCHANGED <<user, cookie, live, faults, crossed>>
<1>0. calls \in CallsType
  BY DEF TypeOK, CallsType
<1>1. ASSUME NEW r \in {"login", "register", "app"}, Navigate(r)
      PROVE  TypeOK' /\ (\A i \in Slots : Alike(calls[i], calls'[i]))
  <2>1. Destination(r, cookie) \in {"login", "register", "app"} /\ strayed' \in BOOLEAN
    BY <1>1 DEF Destination, Navigate
  <2>2. /\ route' = Destination(r, cookie) /\ mfaToken' \in BOOLEAN
        /\ warm' \in {"checking", "ready", "failed"} /\ calls' \in CallsType
        /\ \A i \in Slots : Alike(calls[i], calls'[i])
    BY <1>0, <1>1, <2>1, ShowKeeps DEF Navigate
  <2>3. idle' \in {"off", "armed", "warned"}
    BY <1>1, TimersType DEF Navigate
  <2> QED
    BY <1>1, <2>1, <2>2, <2>3 DEF Navigate, TypeOK, CallsType, bff
<1>2. ASSUME Redirect PROVE TypeOK' /\ (\A i \in Slots : Alike(calls[i], calls'[i]))
  <2>1. /\ route' = "login" /\ mfaToken' \in BOOLEAN
        /\ warm' \in {"checking", "ready", "failed"} /\ calls' \in CallsType
        /\ \A i \in Slots : Alike(calls[i], calls'[i])
    BY <1>0, <1>2, ShowKeeps DEF Redirect
  <2>2. idle' \in {"off", "armed", "warned"}
    BY <1>2, TimersType DEF Redirect
  <2> QED
    BY <1>2, <2>1, <2>2 DEF Redirect, TypeOK, CallsType, bff, history
<1>3. ASSUME OnBack PROVE TypeOK' /\ (\A i \in Slots : Alike(calls[i], calls'[i]))
  BY <1>0, <1>3, UnmountedAlike DEF OnBack, TypeOK, CallsType, bff, history
<1>4. ASSUME Activity \/ Retry \/ Warn \/ Probe
      PROVE  TypeOK' /\ (\A i \in Slots : Alike(calls[i], calls'[i]))
  <2>1. calls' = calls
    BY <1>4 DEF Activity, Retry, Warn, Probe
  <2>2. \A i \in Slots : Alike(calls[i], calls'[i])
    BY <2>1 DEF Alike
  <2>3. TypeOK'
    BY <1>4 DEF Activity, Retry, Warn, Probe, Warned, TypeOK, bff, history
  <2> QED BY <2>2, <2>3
<1>5. UNCHANGED <<user, cookie, live, faults, crossed>>
  BY DEF Navigate, Activity, OnBack, Retry, Redirect, Warn, Probe, bff, history
<1> QED
  BY <1>1, <1>2, <1>3, <1>4, <1>5

\* A step that starts a call of kind k in slot i.
Starts(i, k) ==
    /\ calls[i] = None
    /\ Alike(NewCall(k, cookie), calls'[i])
    /\ \A j \in Slots \ {i} : Alike(calls[j], calls'[j])
    /\ k # "register" => Crossing(k)
    /\ UNCHANGED <<user, cookie, live, faults>>
    /\ crossed => crossed'

\* The forms, the menu and the second timer start calls.
LEMMA StartType ==
    ASSUME TypeOK, (\E k \in FormCalls : Submit(k)) \/ Logout \/ IdleLogout
    PROVE  TypeOK' /\ \E i \in Slots : \E k \in FormCalls \cup SignOuts : Starts(i, k)
<1>1. ASSUME NEW k \in FormCalls \cup SignOuts, NEW i \in Slots,
             Free(i), calls' = With(i, k),
             k # "register" => Crossing(k), k = "register" => crossed' = crossed,
             UNCHANGED <<ui, cookie, bff, faults, strayed>>
      PROVE  TypeOK' /\ Starts(i, k)
  <2>1. k \in Kinds
    BY DEF FormCalls, SignOuts, Kinds
  <2>2. /\ calls' \in CallsType /\ calls'[i] = NewCall(k, cookie)
        /\ \A j \in Slots \ {i} : calls'[j] = calls[j]
    BY <1>1, <2>1, WithType
  <2>3. crossed' \in BOOLEAN /\ (crossed => crossed')
    <3>1. CASE k = "register"
      BY <1>1, <3>1 DEF TypeOK
    <3>2. CASE k # "register"
      BY <1>1, <3>2 DEF Crossing
    <3> QED BY <3>1, <3>2
  <2>4. TypeOK'
    BY <1>1, <2>2, <2>3 DEF TypeOK, CallsType, ui, bff
  <2>5. Alike(NewCall(k, cookie), calls'[i]) /\ \A j \in Slots \ {i} : Alike(calls[j], calls'[j])
    BY <2>2 DEF Alike
  <2> QED
    BY <1>1, <2>3, <2>4, <2>5 DEF Starts, Free, ui, bff
<1>2. ASSUME NEW k \in FormCalls, Submit(k)
      PROVE  TypeOK' /\ \E i \in Slots : \E l \in FormCalls \cup SignOuts : Starts(i, l)
  <2>1. PICK i \in Slots : FreeForUser(i) /\ calls' = With(i, k)
    BY <1>2 DEF Submit
  <2>2. Free(i) /\ (k # "register" => Crossing(k)) /\ (k = "register" => crossed' = crossed)
    BY <1>2, <2>1 DEF FreeForUser, Submit
  <2>3. TypeOK' /\ Starts(i, k)
    BY <1>1, <1>2, <2>1, <2>2 DEF Submit
  <2> QED BY <2>3
<1>3. ASSUME Logout
      PROVE  TypeOK' /\ \E i \in Slots : \E l \in FormCalls \cup SignOuts : Starts(i, l)
  <2>1. PICK i \in Slots : FreeForUser(i) /\ calls' = With(i, "menu")
    BY <1>3 DEF Logout
  <2>2. TypeOK' /\ Starts(i, "menu")
    BY <1>1, <1>3, <2>1 DEF Logout, FreeForUser, SignOuts
  <2> QED BY <2>2 DEF SignOuts
<1>4. ASSUME IdleLogout
      PROVE  TypeOK' /\ \E i \in Slots : \E l \in FormCalls \cup SignOuts : Starts(i, l)
  <2>1. PICK i \in Slots : Free(i) /\ Show("login", With(i, "idle"))
    BY <1>4 DEF IdleLogout
  <2>2. /\ With(i, "idle") \in CallsType /\ With(i, "idle")[i] = NewCall("idle", cookie)
        /\ \A j \in Slots \ {i} : With(i, "idle")[j] = calls[j]
    BY WithType DEF Kinds
  <2>3. /\ route' = "login" /\ mfaToken' \in BOOLEAN
        /\ warm' \in {"checking", "ready", "failed"} /\ calls' \in CallsType
        /\ \A j \in Slots : Alike(With(i, "idle")[j], calls'[j])
    BY <2>1, <2>2, ShowKeeps
  <2>4. idle' \in {"off", "armed", "warned"}
    BY <1>4, TimersType DEF IdleLogout
  <2>5. crossed' \in BOOLEAN /\ (crossed => crossed') /\ Crossing("idle")
    BY <1>4 DEF IdleLogout, Crossing, TypeOK
  <2>6. TypeOK'
    BY <1>4, <2>3, <2>4, <2>5 DEF IdleLogout, TypeOK, CallsType, bff
  <2>7. Starts(i, "idle")
    BY <1>4, <2>1, <2>2, <2>3, <2>5 DEF Starts, Free, IdleLogout, bff
  <2> QED BY <2>6, <2>7 DEF SignOuts
<1> QED
  BY <1>2, <1>3, <1>4

\* The BFF handles a call.
LEMMA ExecuteType ==
    ASSUME TypeOK, NEW i \in Slots, Execute(i)
    PROVE  TypeOK'
<1>1. calls[i] \in Call /\ calls[i] # None
  BY DEF Execute, Used, TypeOK
<1>2. ASSUME NEW st \in Results, NEW n \in 0..MaxSessions
      PROVE  /\ [calls EXCEPT ![i].st = st] \in CallsType
             /\ [calls EXCEPT ![i].st = st, ![i].new = n] \in CallsType
  BY <1>1 DEF TypeOK, CallsType, Call
<1>3. live' \subseteq 1..issued' /\ issued' \in 0..MaxSessions
  BY WebSessionConstants DEF Execute, TypeOK, bff
<1>4. calls' \in CallsType
  <2>1. CASE calls' = [calls EXCEPT ![i].st = IF calls[i].sid \in live THEN "ok" ELSE "refused"]
    BY <1>2, <2>1 DEF Results, TypeOK
  <2>2. CASE issued' \in 0..MaxSessions /\ calls' = [calls EXCEPT ![i].st = "ok", ![i].new = issued']
    BY <1>2, <2>2 DEF Results
  <2>3. CASE \E st \in Results : calls' = [calls EXCEPT ![i].st = st]
    BY <1>2, <2>3 DEF TypeOK
  <2> QED
    BY <1>3, <2>1, <2>2, <2>3 DEF Execute, Results
<1> QED
  BY <1>3, <1>4 DEF Execute, TypeOK, CallsType, ui, history

\* A step that answers the call in slot i, and leaves the slot free.
Answers(i) ==
    /\ calls[i] # None /\ calls'[i] = None
    /\ \A j \in Slots \ {i} : Alike(calls[j], calls'[j])

\* The faults are counted, and never forgotten.
LEMMA SettlesType ==
    ASSUME TypeOK, NEW i \in Slots, NEW ks, NEW r, Settles(i, ks, r)
    PROVE  /\ faults' \in 0..MaxFaults /\ faults <= faults'
           /\ faults' = 0 => r = calls[i].st /\ r # "none"
           /\ calls[i] \in Call /\ calls[i] # None /\ calls[i].kind \in ks
BY WebSessionConstants DEF Settles, TypeOK, Used

\* A call is answered in the tab, whose route may change with it.
LEMMA AnswerType ==
    ASSUME TypeOK, NEW i \in Slots, calls[i] # None,
           NEW r \in {"login", "register", "app"}, Show(r, Over(i)), Timers
    PROVE  /\ route' \in {"login", "register", "app"} /\ mfaToken' \in BOOLEAN
           /\ warm' \in {"checking", "ready", "failed"} /\ idle' \in {"off", "armed", "warned"}
           /\ calls' \in CallsType /\ Answers(i)
<1>1. Over(i) \in CallsType /\ Over(i)[i] = None /\ \A j \in Slots \ {i} : Over(i)[j] = calls[j]
  BY WithType DEF Kinds
<1>2. /\ route' = r /\ mfaToken' \in BOOLEAN /\ warm' \in {"checking", "ready", "failed"}
      /\ calls' \in CallsType
      /\ \A j \in Slots : Alike(Over(i)[j], calls'[j])
  BY <1>1, ShowKeeps
<1>3. idle' \in {"off", "armed", "warned"}
  BY TimersType
<1>4. Answers(i)
  BY <1>1, <1>2 DEF Answers, Alike
<1> QED
  BY <1>2, <1>3, <1>4

\* loadUser is answered.
LEMMA LoadUserType ==
    ASSUME TypeOK, NEW i \in Slots, NEW r, LoadUserSettles(i, r)
    PROVE  TypeOK' /\ Answers(i)
<1> DEFINE to == IF calls[i].kind = "me" THEN Destination("app", cookie) ELSE route
<1>1. to \in {"login", "register", "app"} /\ user' \in BOOLEAN /\ boot' \in BOOLEAN
  BY DEF LoadUserSettles, TypeOK, Destination, UserAfter
<1>2. Settles(i, {"boot", "me"}, r) /\ Show(to, Over(i)) /\ Timers /\ strayed' \in BOOLEAN
  BY DEF LoadUserSettles, TypeOK
<1> HIDE DEF to
<1>3. faults' \in 0..MaxFaults /\ calls[i] # None
  BY <1>2, SettlesType
<1> QED
  BY <1>1, <1>2, <1>3, AnswerType DEF LoadUserSettles, TypeOK, CallsType, bff

\* A registration is answered.
LEMMA RegisterType ==
    ASSUME TypeOK, NEW i \in Slots, NEW r, RegisterSettles(i, r)
    PROVE  TypeOK' /\ Answers(i)
<1> DEFINE to == IF r = "ok" THEN "login" ELSE route
<1>1. to \in {"login", "register", "app"}
  BY DEF TypeOK
<1>2. Settles(i, {"register"}, r) /\ Show(to, Over(i)) /\ Timers /\ strayed' \in BOOLEAN
  BY DEF RegisterSettles
<1> HIDE DEF to
<1>3. faults' \in 0..MaxFaults /\ calls[i] # None
  BY <1>2, SettlesType
<1> QED
  BY <1>1, <1>2, <1>3, AnswerType DEF RegisterSettles, TypeOK, CallsType, bff

\* A sign-out is answered.
LEMMA LogoutType ==
    ASSUME TypeOK, NEW i \in Slots, NEW r, LogoutSettles(i, r)
    PROVE  TypeOK' /\ Answers(i)
<1> DEFINE to == IF calls[i].kind = "menu" THEN "login" ELSE route
<1>1. to \in {"login", "register", "app"} /\ user' \in BOOLEAN
  BY DEF LogoutSettles, TypeOK, UserAfterLogout
<1>4. cookie' \in 0..MaxSessions
  BY WebSessionConstants DEF LogoutSettles, TypeOK
<1>2. Settles(i, SignOuts, r) /\ Show(to, Over(i)) /\ Timers
  BY DEF LogoutSettles
<1> HIDE DEF to
<1>3. faults' \in 0..MaxFaults /\ calls[i] # None
  BY <1>2, SettlesType
<1> QED
  BY <1>1, <1>2, <1>3, <1>4, AnswerType DEF LogoutSettles, TypeOK, CallsType, bff, history

\* A sign-in is answered; if it succeeds, its call goes on as a loadUser.
LEMMA SignInType ==
    ASSUME TypeOK, NEW i \in Slots, NEW r, SignInSettles(i, r)
    PROVE  /\ TypeOK'
           /\ \A j \in Slots \ {i} : Alike(calls[j], calls'[j])
           /\ \/ r # "ok" /\ Answers(i) /\ cookie' = cookie
              \/ r = "ok" /\ cookie' = calls[i].new /\ Alike(NewCall("me", calls[i].new), calls'[i])
<1>1. /\ faults' \in 0..MaxFaults /\ calls[i] \in Call /\ calls[i] # None
      /\ Settles(i, {"login", "verify"}, r)
  BY SettlesType DEF SignInSettles
<1> DEFINE me == [NewCall("me", calls[i].new) EXCEPT !.here = calls[i].here]
<1>2. calls[i].new \in 0..MaxSessions /\ calls[i].here \in BOOLEAN
  BY <1>1 DEF Call
<1>3. NewCall("me", calls[i].new) \in Call /\ NewCall("me", calls[i].new) # None
  BY <1>2, NewCallType DEF Kinds
<1>4. me \in Call /\ Alike(NewCall("me", calls[i].new), me)
  <2>1. me \in Call
    BY <1>2, <1>3 DEF Call
  <2> QED
    BY <1>3, <2>1, NoneIsNoCall DEF Alike, Call
<1>5. mfaToken' \in BOOLEAN
  BY <1>2 DEF SignInSettles, TypeOK
<1>6. CASE r = "ok"
  <2>1. calls' = [calls EXCEPT ![i] = me] /\ cookie' = calls[i].new
    BY <1>6 DEF SignInSettles
  <2> HIDE DEF me
  <2>2. calls' \in CallsType /\ calls'[i] = me /\ \A j \in Slots \ {i} : calls'[j] = calls[j]
    BY <1>4, <2>1 DEF TypeOK, CallsType
  <2>3. TypeOK'
    BY <1>1, <1>2, <1>5, <2>1, <2>2 DEF SignInSettles, TypeOK, CallsType, bff, history
  <2> QED
    BY <1>4, <1>6, <2>1, <2>2, <2>3 DEF Alike
<1>7. CASE r # "ok"
  <2>1. calls' = Over(i) /\ cookie' = cookie
    BY <1>7 DEF SignInSettles
  <2>2. /\ calls' \in CallsType /\ calls'[i] = None
        /\ \A j \in Slots \ {i} : calls'[j] = calls[j]
    BY <2>1, WithType DEF Kinds
  <2>3. TypeOK'
    BY <1>1, <1>5, <2>1, <2>2 DEF SignInSettles, TypeOK, CallsType, bff, history
  <2> QED
    BY <1>1, <1>7, <2>1, <2>2, <2>3 DEF Alike, Answers
<1> QED
  BY <1>6, <1>7

\* A session ends without the tab, which is a fault.
LEMMA EndsType ==
    ASSUME TypeOK, NEW s, SessionEnds(s)
    PROVE  TypeOK' /\ faults' # 0
BY WebSessionConstants DEF SessionEnds, TypeOK, ui, history

\* The types hold when the tab is opened.
LEMMA InitType == Init => TypeOK
<1> SUFFICES ASSUME Init PROVE TypeOK
  OBVIOUS
<1>1. cookie \in 0..MaxSessions /\ issued \in 0..MaxSessions
  BY WebSessionConstants DEF Init
<1>2. NewCall("boot", cookie) \in Call
  BY <1>1, NewCallType DEF Kinds
<1>3. calls \in [Slots -> Call \cup {None}]
  BY <1>2 DEF Init
<1>4. route \in {"login", "register", "app"} /\ live \subseteq 1..issued
  BY DEF Init
<1>5. faults \in 0..MaxFaults
  BY WebSessionConstants DEF Init
<1> QED
  BY <1>1, <1>3, <1>4, <1>5 DEF Init, TypeOK

-------------------------------------------------------------------------------
(* The tab: the user and the cookie *)

\* Nothing has happened that breaks the tie.
Undisturbed == faults = 0 /\ ~crossed

\* Sign-outs are not under way together with what sets the user or the cookie, nor
\* the bootstrap with a sign-in.
Apart ==
    \A i, j \in Used :
        /\ calls[i].kind \in SignOuts => calls[j].kind \notin SignIns
        /\ calls[i].kind = "boot" => calls[j].kind \notin {"login", "verify", "me"}

\* What a call under way, and the answer it has, know of the session.
CallOK(c) ==
    /\ c.kind = "boot" =>
          /\ c.sid = cookie
          /\ c.st = "none" \/ c.st = (IF cookie \in live THEN "ok" ELSE "refused")
    /\ c.kind = "me" => c.sid \in live /\ cookie \in live /\ c.st \in {"none", "ok"}
    /\ c.kind \in {"login", "verify"} /\ c.st = "ok" => c.new \in live
    /\ c.kind \in SignOuts => c.st \in {"none", "ok"}

\* The user is one of a live session, and a live session's user is known or asked for.
Tied ==
    (\A i \in Used : calls[i].kind \notin SignOuts) =>
        /\ user => cookie \in live
        /\ cookie \in live => user \/ \E i \in Used : calls[i].kind \in {"boot", "me"}

TieInv ==
    Undisturbed => /\ Apart
                   /\ \A i \in Used : CallOK(calls[i])
                   /\ Tied
                   /\ cookie <= issued

\* The tie holds when the tab is opened.
LEMMA InitTie == Init => TieInv
<1> SUFFICES ASSUME Init PROVE TieInv
  OBVIOUS
<1>1. cookie \in 0..MaxSessions /\ cookie = issued
  BY WebSessionConstants DEF Init
<1>2. /\ NewCall("boot", cookie) # None /\ NewCall("boot", cookie).kind = "boot"
      /\ NewCall("boot", cookie).st = "none" /\ NewCall("boot", cookie).sid = cookie
  BY <1>1, NewCallType DEF Kinds, FormCalls
<1>3. 1 \in Slots
  BY WebSessionConstants DEF Slots
<1>4. Used = {1} /\ calls[1] = NewCall("boot", cookie)
  BY <1>2, <1>3 DEF Init, Used
<1> QED
  BY <1>1, <1>2, <1>4 DEF Init, TieInv, Apart, CallOK, Tied, SignOuts

\* A step that touches nothing the tie is about.
LEMMA FrameTie ==
    ASSUME TypeOK, TieInv, \A i \in Slots : Alike(calls[i], calls'[i]), issued <= issued',
           UNCHANGED <<user, cookie, live, faults, crossed>>, TypeOK'
    PROVE  TieInv'
<1>1. Used' = Used /\ (Undisturbed' => Undisturbed)
  BY DEF Used, Alike, Undisturbed
<1>2. \A i \in Used : Alike(calls[i], calls'[i]) /\ calls[i] # None
  BY DEF Used
<1>3. ASSUME Undisturbed PROVE Apart' /\ Tied'
  BY <1>1, <1>2, <1>3 DEF TieInv, Apart, Tied, Alike
<1>4. ASSUME Undisturbed, NEW i \in Used PROVE CallOK(calls[i])'
  <2>1. CallOK(calls[i])
    BY <1>4 DEF TieInv
  <2> QED BY <1>2, <2>1 DEF CallOK, Alike
<1>5. ASSUME Undisturbed PROVE cookie' <= issued'
  BY <1>5 DEF TieInv, TypeOK
<1> QED
  BY <1>1, <1>3, <1>4, <1>5 DEF TieInv

\* A call starts: a sign-in apart from the bootstrap and from sign-outs, and a
\* sign-out apart from both, unless it crosses them.
LEMMA StartTie ==
    ASSUME TypeOK, TieInv, NEW i \in Slots, NEW k \in FormCalls \cup SignOuts, Starts(i, k),
           issued' = issued
    PROVE  TieInv'
<1> SUFFICES ASSUME Undisturbed' PROVE /\ Apart' /\ Tied' /\ cookie' <= issued'
                                       /\ \A j \in Used' : CallOK(calls[j])'
  BY DEF TieInv
<1>1. Undisturbed /\ Apart /\ (\A j \in Used : CallOK(calls[j])) /\ Tied /\ cookie' <= issued'
  BY DEF Starts, Undisturbed, TieInv
<1>2. k \in Kinds /\ k \notin {"boot", "me"}
  BY DEF Kinds, FormCalls, SignOuts
<1>3. calls'[i] # None /\ calls'[i].kind = k /\ calls'[i].st = "none"
  BY <1>2, NewCallType DEF Starts, Alike, TypeOK
<1>4. /\ i \notin Used /\ Used' = Used \cup {i}
      /\ \A j \in Used : Alike(calls[j], calls'[j]) /\ calls[j] # None
  BY <1>3 DEF Starts, Used, Alike
<1>5. /\ k \in {"login", "verify"} => \A j \in Used : calls[j].kind \notin SignOuts \cup {"boot"}
      /\ k \in SignOuts => \A j \in Used : calls[j].kind \notin SignIns
  BY <1>2 DEF Starts, Crossing, InFlight, SignOuts, Undisturbed
<1>6. Apart'
  BY <1>1, <1>2, <1>3, <1>4, <1>5 DEF Apart, Alike, SignIns, SignOuts, FormCalls
<1>7. ASSUME NEW j \in Used' PROVE CallOK(calls[j])'
  <2>1. CASE j = i
    BY <1>2, <1>3, <2>1 DEF CallOK
  <2>2. CASE j # i
    <3>1. j \in Used /\ CallOK(calls[j])
      BY <1>1, <1>4, <2>2
    <3> QED BY <1>4, <3>1 DEF CallOK, Alike, Starts
  <2> QED BY <2>1, <2>2
<1>8. Tied'
  <2>1. CASE k \in SignOuts
    BY <1>3, <1>4, <2>1 DEF Tied
  <2>2. CASE k \notin SignOuts
    BY <1>1, <1>4, <2>2 DEF Tied, Alike, Starts
  <2> QED BY <2>1, <2>2
<1> QED
  BY <1>1, <1>6, <1>7, <1>8

\* The BFF handles a call: what it answers is true when it answers, and stays true
\* as long as no sign-out is handled.
LEMMA ExecuteTie ==
    ASSUME TypeOK, TieInv, NEW i \in Slots, Execute(i)
    PROVE  TieInv'
<1> SUFFICES ASSUME Undisturbed' PROVE /\ Apart' /\ Tied' /\ cookie' <= issued'
                                       /\ \A j \in Used' : CallOK(calls[j])'
  BY DEF TieInv
<1>1. Undisturbed /\ Apart /\ (\A j \in Used : CallOK(calls[j])) /\ Tied /\ cookie <= issued
  BY DEF Execute, Undisturbed, history, TieInv
<1>2. calls[i] \in Call /\ calls[i] # None /\ i \in Used /\ calls \in CallsType
  BY DEF Execute, Used, TypeOK, CallsType
<1>3. UNCHANGED <<user, cookie>>
  BY DEF Execute, ui
<1>4. /\ calls' \in CallsType
      /\ \A j \in Slots \ {i} : calls'[j] = calls[j]
      /\ calls'[i].kind = calls[i].kind /\ calls'[i].sid = calls[i].sid
  BY <1>2, ExecuteType DEF Execute, Call, CallsType, TypeOK
<1>5. calls'[i] # None
  <2>1. ASSUME NEW st \in Results, NEW n \in 0..MaxSessions
        PROVE  /\ [calls[i] EXCEPT !.st = st] \in Call
               /\ [calls[i] EXCEPT !.st = st, !.new = n] \in Call
    BY <1>2 DEF Call
  <2>2. \E st \in Results : \/ calls' = [calls EXCEPT ![i].st = st]
                           \/ calls' = [calls EXCEPT ![i].st = st, ![i].new = issued']
    BY DEF Execute, Results
  <2>3. issued' \in 0..MaxSessions
    BY ExecuteType DEF TypeOK
  <2>4. calls'[i] \in Call
    BY <1>2, <2>1, <2>2, <2>3 DEF CallsType
  <2> QED
    BY <2>4, NoneIsNoCall
<1>6. Used' = Used
  BY <1>2, <1>4, <1>5 DEF Used
<1>7. Apart'
  BY <1>1, <1>2, <1>4, <1>6 DEF Apart, Used
<1>8. CASE calls[i].kind \in {"boot", "me"}
  <2>1. /\ live' = live /\ issued' = issued
        /\ calls'[i].st = IF calls[i].sid \in live THEN "ok" ELSE "refused"
    BY <1>2, <1>8 DEF Execute, bff, Call, CallsType, SignOuts
  <2>2. CallOK(calls[i])'
    BY <1>1, <1>2, <1>3, <1>4, <1>8, <2>1 DEF CallOK, SignOuts
  <2>3. \A j \in Used' : CallOK(calls[j])'
    BY <1>1, <1>3, <1>4, <1>6, <2>1, <2>2 DEF CallOK, Used
  <2>4. Tied'
    BY <1>1, <1>3, <1>4, <1>6, <2>1 DEF Tied, Used
  <2> QED
    BY <1>1, <1>3, <1>7, <2>1, <2>3, <2>4
<1>9. CASE calls[i].kind \in {"login", "verify", "register"}
  <2>1. \/ live' = live /\ issued' = issued /\ (calls'[i].st = "ok" => calls[i].kind = "register")
        \/ /\ issued' = issued + 1 /\ live' = live \cup {issued'} /\ calls[i].kind # "register"
           /\ calls'[i].new = issued'
    BY <1>2, <1>9 DEF Execute, bff, Call, CallsType, SignOuts
  <2>2. issued \in Nat /\ cookie \in Nat /\ live \subseteq 1..issued
    BY DEF TypeOK
  <2>3. live \subseteq live' /\ (cookie \in live' => cookie \in live) /\ cookie <= issued'
    BY <1>1, <2>1, <2>2
  <2>4. CallOK(calls[i])'
    BY <1>4, <1>9, <2>1 DEF CallOK, SignOuts
  <2>5. ASSUME NEW j \in Used, j # i PROVE CallOK(calls[j])'
    BY <1>1, <1>3, <1>4, <2>3, <2>5 DEF CallOK, Used
  <2>6. Tied'
    BY <1>1, <1>3, <1>4, <1>6, <2>3 DEF Tied, Used
  <2> QED
    BY <1>3, <1>6, <1>7, <2>3, <2>4, <2>5, <2>6
<1>10. CASE calls[i].kind \in SignOuts
  <2>1. live' \subseteq live /\ issued' = issued /\ calls'[i].st = "ok"
    BY <1>2, <1>10 DEF Execute, bff, Call, CallsType, SignOuts
  <2>2. \A j \in Used : calls[j].kind \notin SignIns
    BY <1>1, <1>2, <1>10 DEF Apart
  <2>3. CallOK(calls[i])'
    BY <1>4, <1>10, <2>1 DEF CallOK, SignOuts
  <2>4. ASSUME NEW j \in Used, j # i PROVE CallOK(calls[j])'
    BY <1>1, <1>4, <2>2, <2>4 DEF CallOK, Used, SignIns
  <2>5. Tied'
    BY <1>2, <1>4, <1>6, <1>10 DEF Tied
  <2> QED
    BY <1>1, <1>3, <1>6, <1>7, <2>1, <2>3, <2>4, <2>5
<1> QED
  BY <1>2, <1>8, <1>9, <1>10 DEF Call, Kinds, SignOuts

\* An answer takes a call away, and leaves the others as they were.
LEMMA AnswerApart ==
    ASSUME TypeOK, NEW i \in Slots, Answers(i), Apart
    PROVE  /\ i \in Used /\ Used' = Used \ {i}
           /\ \A j \in Used' : Alike(calls[j], calls'[j]) /\ calls[j] # None /\ j \in Used
           /\ Apart'
<1>1. /\ i \in Used /\ Used' = Used \ {i}
      /\ \A j \in Used' : Alike(calls[j], calls'[j]) /\ calls[j] # None /\ j \in Used
  BY DEF Answers, Used, Alike
<1> QED
  BY <1>1 DEF Apart, Alike

\* A sign-in is answered: the new session is a live one, and its user is asked for.
LEMMA SignInTie ==
    ASSUME TypeOK, TieInv, NEW i \in Slots, NEW r, SignInSettles(i, r)
    PROVE  TieInv'
<1> SUFFICES ASSUME Undisturbed' PROVE /\ Apart' /\ Tied' /\ cookie' <= issued'
                                       /\ \A j \in Used' : CallOK(calls[j])'
  BY DEF TieInv
<1>1. /\ faults' = 0 => r = calls[i].st /\ r # "none"
      /\ faults <= faults' /\ faults' \in 0..MaxFaults /\ faults \in Nat
      /\ calls[i] \in Call /\ calls[i] # None /\ calls[i].kind \in {"login", "verify"}
  BY SettlesType DEF SignInSettles, TypeOK
<1>2. Undisturbed
  BY <1>1 DEF Undisturbed, SignInSettles, history
<1>3. Apart /\ (\A j \in Used : CallOK(calls[j])) /\ Tied /\ cookie <= issued
  BY <1>2 DEF TieInv
<1>4. r = calls[i].st /\ i \in Used /\ UNCHANGED <<user, live, issued>>
  BY <1>1 DEF Undisturbed, Used, SignInSettles, bff
<1>5. /\ \A j \in Used : calls[j].kind \notin SignOuts \cup {"boot"}
      /\ r = "ok" => calls[i].new \in live
  BY <1>1, <1>3, <1>4 DEF Apart, SignIns, CallOK
<1>6. /\ \A j \in Slots \ {i} : Alike(calls[j], calls'[j])
      /\ \/ r # "ok" /\ Answers(i) /\ cookie' = cookie
         \/ r = "ok" /\ cookie' = calls[i].new /\ Alike(NewCall("me", calls[i].new), calls'[i])
  BY SignInType
<1>7. CASE r # "ok" /\ Answers(i) /\ cookie' = cookie
  <2>1. /\ Used' = Used \ {i} /\ Apart'
        /\ \A j \in Used' : Alike(calls[j], calls'[j]) /\ calls[j] # None /\ j \in Used
    BY <1>3, <1>7, AnswerApart
  <2>2. \A j \in Used' : CallOK(calls[j])'
    BY <1>3, <1>4, <1>7, <2>1 DEF CallOK, Alike
  <2>3. Tied'
    BY <1>1, <1>3, <1>4, <1>5, <1>7, <2>1 DEF Tied, Alike
  <2> QED
    BY <1>3, <1>4, <1>7, <2>1, <2>2, <2>3
<1>8. CASE r = "ok" /\ cookie' = calls[i].new /\ Alike(NewCall("me", calls[i].new), calls'[i])
  <2>1. calls[i].new \in 0..MaxSessions
    BY <1>1 DEF Call
  <2>2. /\ calls'[i] # None /\ calls'[i].kind = "me" /\ calls'[i].st = "none"
        /\ calls'[i].sid = calls[i].new
    BY <1>8, <2>1, NewCallType DEF Alike, Kinds, FormCalls
  <2>3. /\ Used' = Used
        /\ \A j \in Used \ {i} : Alike(calls[j], calls'[j]) /\ calls[j] # None
    BY <1>4, <1>6, <2>2 DEF Used, Alike
  <2>4. cookie' \in live /\ cookie' <= issued
    <3>1. cookie' \in live
      BY <1>5, <1>8
    <3>2. live \subseteq 1..issued /\ issued \in Nat
      BY DEF TypeOK
    <3> QED BY <3>1, <3>2
  <2>5. Apart'
    BY <1>3, <1>5, <2>2, <2>3 DEF Apart, Alike, SignOuts, SignIns
  <2>6. ASSUME NEW j \in Used' PROVE CallOK(calls[j])'
    <3>1. CASE j = i
      BY <1>4, <1>5, <1>8, <2>2, <2>4, <3>1 DEF CallOK, SignOuts
    <3>2. CASE j # i
      <4>1. CallOK(calls[j]) /\ calls[j].kind # "boot"
        BY <1>3, <1>5, <2>3, <3>2
      <4> QED BY <1>4, <2>3, <2>4, <3>2, <4>1 DEF CallOK, Alike
    <3> QED BY <3>1, <3>2
  <2>7. Tied'
    BY <1>4, <2>2, <2>3, <2>4 DEF Tied
  <2> QED
    BY <1>4, <2>4, <2>5, <2>6, <2>7
<1> QED
  BY <1>6, <1>7, <1>8

\* loadUser is answered: the user is that of the cookie's session.
LEMMA LoadUserTie ==
    ASSUME TypeOK, TieInv, NEW i \in Slots, NEW r, LoadUserSettles(i, r)
    PROVE  TieInv'
<1> SUFFICES ASSUME Undisturbed' PROVE /\ Apart' /\ Tied' /\ cookie' <= issued'
                                       /\ \A j \in Used' : CallOK(calls[j])'
  BY DEF TieInv
<1>1. /\ faults' = 0 => r = calls[i].st /\ r # "none"
      /\ faults <= faults' /\ faults' \in 0..MaxFaults /\ faults \in Nat
      /\ calls[i] \in Call /\ calls[i] # None /\ calls[i].kind \in {"boot", "me"}
  BY SettlesType DEF LoadUserSettles, TypeOK
<1>2. Undisturbed
  BY <1>1 DEF Undisturbed, LoadUserSettles
<1>3. Apart /\ (\A j \in Used : CallOK(calls[j])) /\ cookie <= issued
  BY <1>2 DEF TieInv
<1>4. /\ r = calls[i].st /\ r # "none" /\ i \in Used /\ UNCHANGED <<cookie, live, issued>>
      /\ user' = (r = "ok")
  BY <1>1 DEF Undisturbed, Used, LoadUserSettles, bff, UserAfter
<1>5. user' <=> cookie \in live
  BY <1>1, <1>3, <1>4 DEF CallOK
<1>6. /\ Used' = Used \ {i} /\ Apart'
      /\ \A j \in Used' : Alike(calls[j], calls'[j]) /\ calls[j] # None /\ j \in Used
  BY <1>3, AnswerApart, LoadUserType
<1>7. \A j \in Used' : CallOK(calls[j])'
  BY <1>3, <1>4, <1>6 DEF CallOK, Alike
<1>8. Tied'
  BY <1>4, <1>5 DEF Tied
<1> QED
  BY <1>3, <1>4, <1>6, <1>7, <1>8

\* A registration is answered.
LEMMA RegisterTie ==
    ASSUME TypeOK, TieInv, NEW i \in Slots, NEW r, RegisterSettles(i, r)
    PROVE  TieInv'
<1> SUFFICES ASSUME Undisturbed' PROVE /\ Apart' /\ Tied' /\ cookie' <= issued'
                                       /\ \A j \in Used' : CallOK(calls[j])'
  BY DEF TieInv
<1>1. /\ faults <= faults' /\ faults' \in 0..MaxFaults /\ faults \in Nat
      /\ calls[i].kind = "register"
  BY SettlesType DEF RegisterSettles, TypeOK
<1>2. Undisturbed
  BY <1>1 DEF Undisturbed, RegisterSettles
<1>3. Apart /\ (\A j \in Used : CallOK(calls[j])) /\ Tied /\ cookie <= issued
  BY <1>2 DEF TieInv
<1>4. UNCHANGED <<user, cookie, live, issued>>
  BY DEF RegisterSettles, bff
<1>5. /\ Used' = Used \ {i} /\ Apart'
      /\ \A j \in Used' : Alike(calls[j], calls'[j]) /\ calls[j] # None /\ j \in Used
  BY <1>3, AnswerApart, RegisterType
<1>6. \A j \in Used' : CallOK(calls[j])'
  BY <1>3, <1>4, <1>5 DEF CallOK, Alike
<1>7. Tied'
  BY <1>1, <1>3, <1>4, <1>5 DEF Tied, Alike, SignOuts
<1> QED
  BY <1>3, <1>4, <1>5, <1>6, <1>7

\* A sign-out is answered: there is no cookie and no user.
LEMMA LogoutTie ==
    ASSUME TypeOK, TieInv, NEW i \in Slots, NEW r, LogoutSettles(i, r)
    PROVE  TieInv'
<1> SUFFICES ASSUME Undisturbed' PROVE /\ Apart' /\ Tied' /\ cookie' <= issued'
                                       /\ \A j \in Used' : CallOK(calls[j])'
  BY DEF TieInv
<1>1. /\ faults' = 0 => r = calls[i].st /\ r # "none"
      /\ faults <= faults' /\ faults' \in 0..MaxFaults /\ faults \in Nat
      /\ calls[i] \in Call /\ calls[i] # None /\ calls[i].kind \in SignOuts
  BY SettlesType DEF LogoutSettles, TypeOK
<1>2. Undisturbed
  BY <1>1 DEF Undisturbed, LogoutSettles, history
<1>3. Apart /\ (\A j \in Used : CallOK(calls[j]))
  BY <1>2 DEF TieInv
<1>4. r = "ok" /\ i \in Used
  BY <1>1, <1>3 DEF Undisturbed, Used, CallOK
<1>5. cookie' = 0 /\ user' = FALSE /\ UNCHANGED <<live, issued>>
  BY <1>4 DEF LogoutSettles, UserAfterLogout, bff
<1>6. /\ Used' = Used \ {i} /\ Apart'
      /\ \A j \in Used' : Alike(calls[j], calls'[j]) /\ calls[j] # None /\ j \in Used
  BY <1>3, AnswerApart, LogoutType
<1>7. \A j \in Used : calls[j].kind \notin SignIns
  BY <1>1, <1>3, <1>4 DEF Apart
<1>8. \A j \in Used' : CallOK(calls[j])'
  BY <1>3, <1>5, <1>6, <1>7 DEF CallOK, Alike, SignIns
<1>9. Tied' /\ cookie' <= issued'
  BY <1>5 DEF Tied, TypeOK
<1> QED
  BY <1>6, <1>8, <1>9

\* The inductive invariant of the tab.
TabInv == TypeOK /\ TieInv

\* Every step keeps the tab's invariant.
LEMMA TabStep == TabInv /\ [Next]_vars => TabInv'
<1> SUFFICES ASSUME TypeOK, TieInv, [Next]_vars PROVE TypeOK' /\ TieInv'
  BY DEF TabInv
<1>1. CASE \/ \E r \in {"login", "register", "app"} : Navigate(r)
           \/ Activity \/ OnBack \/ Retry \/ Redirect \/ Warn \/ Probe
  <2>1. /\ TypeOK' /\ \A i \in Slots : Alike(calls[i], calls'[i])
        /\ UNCHANGED <<user, cookie, live, faults, crossed>>
    BY <1>1, TabType
  <2>2. issued' = issued /\ issued \in Nat
    BY <1>1 DEF Navigate, Activity, OnBack, Retry, Redirect, Warn, Probe, bff, TypeOK
  <2> QED
    BY <2>1, <2>2, FrameTie
<1>2. CASE (\E k \in FormCalls : Submit(k)) \/ Logout \/ IdleLogout
  <2>1. TypeOK' /\ \E i \in Slots : \E k \in FormCalls \cup SignOuts : Starts(i, k)
    BY <1>2, StartType
  <2>2. issued' = issued
    BY <1>2 DEF Submit, Logout, IdleLogout, bff
  <2> QED
    BY <2>1, <2>2, StartTie
<1>3. ASSUME NEW i \in Slots, Execute(i) PROVE TypeOK' /\ TieInv'
  BY <1>3, ExecuteType, ExecuteTie
<1>4. ASSUME NEW i \in Slots, SettleStep(i) PROVE TypeOK' /\ TieInv'
  BY <1>4, SignInType, SignInTie, LoadUserType, LoadUserTie, RegisterType, RegisterTie,
     LogoutType, LogoutTie DEF SettleStep
<1>5. ASSUME NEW s \in 1..MaxSessions, SessionEnds(s) PROVE TypeOK' /\ TieInv'
  BY <1>5, EndsType DEF TieInv, Undisturbed
<1>6. CASE UNCHANGED vars
  BY <1>6, FrameTie DEF vars, TypeOK, Alike, Call, TieInv, Undisturbed, Apart, CallOK, Tied, Used
<1> QED
  BY <1>1, <1>2, <1>3, <1>4, <1>5, <1>6 DEF Next, UserStep, SystemStep

\* The inductive invariant: sign-ins, sign-outs and the bootstrap are apart, what is on
\* its way is true of the session, and the user is tied to the cookie.
THEOREM TabInvariant == Spec => []TabInv
<1>1. Init => TabInv
  BY InitType, InitTie DEF TabInv
<1> QED
  BY <1>1, TabStep, PTL DEF Spec

\* The tab, its calls and the BFF's sessions have their types.
THEOREM TabTypes == Spec => []TypeOK
<1>1. TabInv => TypeOK
  BY DEF TabInv
<1> QED
  BY <1>1, TabInvariant, PTL

\* However forms are left, resubmitted and overtaken, in a quiet tab there is a user
\* exactly if the cookie is that of a live session (AuthProvider).
THEOREM UserIsSession == Spec => []UserMeansSession
<1>1. TabInv => UserMeansSession
  BY DEF TabInv, TieInv, Undisturbed, Tied, UserMeansSession
<1> QED
  BY <1>1, TabInvariant, PTL

\* The timers run exactly while AuthGate shows a page to a user, and the bootstrap is
\* over unless its call is under way.
Watched ==
    /\ idle # "off" <=> route = "app" /\ user
    /\ boot => \E i \in Slots : calls[i] # None /\ calls[i].kind = "boot"

\* The bootstrap goes on if a step keeps the kinds of the calls, that in slot i excepted.
LEMMA BootGoesOn ==
    ASSUME Watched, NEW i \in Slots, \A j \in Slots \ {i} : Alike(calls[j], calls'[j]),
           \/ boot' = FALSE
           \/ /\ boot' = boot
              /\ calls[i] = None \/ calls[i].kind # "boot" \/ Alike(calls[i], calls'[i])
    PROVE  boot' => \E j \in Slots : calls'[j] # None /\ calls'[j].kind = "boot"
BY DEF Watched, Alike

\* Every step of the tab starts or clears the timers with the page and the user.
LEMMA WatchedStep ==
    ASSUME TypeOK, Watched, [Next]_vars
    PROVE  Watched'
<1>1. CASE \/ \E r \in {"login", "register", "app"} : Navigate(r)
           \/ Activity \/ OnBack \/ Retry \/ Redirect \/ Warn \/ Probe
  <2>1. (\A j \in Slots : Alike(calls[j], calls'[j])) /\ boot' = boot
    BY <1>1, TabType DEF Navigate, Activity, OnBack, Retry, Redirect, Warn, Probe
  <2>2. boot' => \E j \in Slots : calls'[j] # None /\ calls'[j].kind = "boot"
    BY <2>1 DEF Watched, Alike
  <2>3. idle' # "off" <=> route' = "app" /\ user'
    BY <1>1 DEF Watched, Navigate, Activity, OnBack, Retry, Redirect, Warn, Warned, Probe, Timers
  <2> QED
    BY <2>2, <2>3 DEF Watched
<1>2. CASE (\E k \in FormCalls : Submit(k)) \/ Logout \/ IdleLogout
  <2>1. PICK i \in Slots, k \in FormCalls \cup SignOuts : Starts(i, k)
    BY <1>2, StartType
  <2>2. boot' = boot
    BY <1>2 DEF Submit, Logout, IdleLogout, ui
  <2>3. idle' # "off" <=> route' = "app" /\ user'
    BY <1>2 DEF Watched, Submit, Logout, IdleLogout, ui, Timers
  <2>4. boot' => \E j \in Slots : calls'[j] # None /\ calls'[j].kind = "boot"
    BY <2>1, <2>2, BootGoesOn DEF Starts
  <2> QED
    BY <2>3, <2>4 DEF Watched
<1>3. ASSUME NEW i \in Slots, Execute(i) PROVE Watched'
  <2>1. calls[i] \in Call /\ calls[i] # None /\ calls \in CallsType
    BY <1>3 DEF Execute, Used, TypeOK, CallsType
  <2>2. /\ \A j \in Slots \ {i} : calls'[j] = calls[j]
        /\ calls'[i] \in Call /\ calls'[i].kind = calls[i].kind
    <3>1. ASSUME NEW st \in Results, NEW n \in 0..MaxSessions
          PROVE  /\ [calls[i] EXCEPT !.st = st] \in Call
                 /\ [calls[i] EXCEPT !.st = st].kind = calls[i].kind
                 /\ [calls[i] EXCEPT !.st = st, !.new = n] \in Call
                 /\ [calls[i] EXCEPT !.st = st, !.new = n].kind = calls[i].kind
      BY <2>1 DEF Call
    <3>2. issued + 1 \in 0..MaxSessions \/ ~(issued < MaxSessions)
      BY WebSessionConstants DEF TypeOK
    <3>3. CASE \E st \in Results : calls' = [calls EXCEPT ![i].st = st]
      <4>1. PICK st \in Results : calls' = [calls EXCEPT ![i].st = st]
        BY <3>3
      <4>2. calls'[i] = [calls[i] EXCEPT !.st = st] /\ \A j \in Slots \ {i} : calls'[j] = calls[j]
        BY <2>1, <4>1 DEF CallsType
      <4>3. 0 \in 0..MaxSessions
        BY WebSessionConstants
      <4> QED
        BY <3>1, <4>2, <4>3
    <3>4. CASE \E n \in 0..MaxSessions : calls' = [calls EXCEPT ![i].st = "ok", ![i].new = n]
      <4>1. PICK n \in 0..MaxSessions : calls' = [calls EXCEPT ![i].st = "ok", ![i].new = n]
        BY <3>4
      <4>2. /\ calls'[i] = [calls[i] EXCEPT !.st = "ok", !.new = n]
            /\ \A j \in Slots \ {i} : calls'[j] = calls[j]
        BY <2>1, <4>1 DEF CallsType
      <4> QED
        BY <3>1, <4>2 DEF Results
    <3>5. \/ \E st \in Results : calls' = [calls EXCEPT ![i].st = st]
          \/ \E n \in 0..MaxSessions : calls' = [calls EXCEPT ![i].st = "ok", ![i].new = n]
      BY <1>3, <3>2 DEF Execute, Results
    <3> QED
      BY <3>3, <3>4, <3>5
  <2>3. UNCHANGED <<route, user, boot, idle>>
    BY <1>3 DEF Execute, ui
  <2> QED
    BY <2>2, <2>3, NoneIsNoCall DEF Watched
<1>4. ASSUME NEW i \in Slots, NEW r,
             LoadUserSettles(i, r) \/ RegisterSettles(i, r) \/ LogoutSettles(i, r)
      PROVE  Watched'
  <2>1. Answers(i)
    BY <1>4, LoadUserType, RegisterType, LogoutType
  <2>2. idle' # "off" <=> route' = "app" /\ user'
    BY <1>4 DEF LoadUserSettles, RegisterSettles, LogoutSettles, Timers
  <2>3. \/ boot' = FALSE
        \/ boot' = boot /\ calls[i].kind # "boot"
    BY <1>4 DEF LoadUserSettles, RegisterSettles, LogoutSettles, Settles, SignOuts, TypeOK
  <2>4. boot' => \E j \in Slots : calls'[j] # None /\ calls'[j].kind = "boot"
    BY <2>1, <2>3, BootGoesOn DEF Answers
  <2> QED
    BY <2>2, <2>4 DEF Watched
<1>5. ASSUME NEW i \in Slots, NEW r, SignInSettles(i, r) PROVE Watched'
  <2>1. UNCHANGED <<route, user, boot, idle>> /\ calls[i].kind # "boot"
    BY <1>5 DEF SignInSettles, Settles
  <2>2. boot' => \E j \in Slots : calls'[j] # None /\ calls'[j].kind = "boot"
    BY <1>5, <2>1, SignInType, BootGoesOn
  <2> QED
    BY <2>1, <2>2 DEF Watched
<1>6. ASSUME NEW s \in 1..MaxSessions, SessionEnds(s) PROVE Watched'
  BY <1>6 DEF SessionEnds, Watched, ui
<1>7. CASE UNCHANGED vars
  BY <1>7 DEF vars, Watched
<1> QED
  BY <1>1, <1>2, <1>3, <1>4, <1>5, <1>6, <1>7 DEF Next, UserStep, SystemStep, SettleStep

\* No page of the application is left to nobody: AuthGate's timers run for its user,
\* or its effect is about to leave it, or the bootstrap that decides is under way.
\* This is what IdleSignsOut relies on in every state.
THEOREM PagesAreWatched ==
    Spec => [](route = "app" => idle # "off" \/ (~boot /\ ~user) \/ InFlight({"boot"}))
<1>1. Init => Watched
  <2> SUFFICES ASSUME Init PROVE Watched
    OBVIOUS
  <2>1. 1 \in Slots
    BY WebSessionConstants DEF Slots
  <2>2. cookie \in 0..MaxSessions
    BY WebSessionConstants DEF Init
  <2>3. calls[1] = NewCall("boot", cookie) /\ calls[1] # None /\ calls[1].kind = "boot"
    BY <2>1, <2>2, NewCallType DEF Init, Kinds
  <2> QED
    BY <2>1, <2>3 DEF Init, Watched
<1>2. TypeOK /\ Watched /\ [Next]_vars => Watched'
  BY WatchedStep
<1>3. Watched => (route = "app" => idle # "off" \/ (~boot /\ ~user) \/ InFlight({"boot"}))
  BY DEF Watched, InFlight, Used
<1> QED
  BY <1>1, <1>2, <1>3, TabTypes, PTL DEF Spec

-------------------------------------------------------------------------------
(* The refresh tokens: the inductive invariant *)

\* A worker acts on a token that has been issued.
JobsOnIssued == \A w \in Workers : job[w] # Tok!Idle => job[w].token \in Tokens /\ Issued(job[w].token)

\* Only an issued token has been rotated into.
UnissuedIsFresh == \A t \in Tokens : ~Issued(t) => parent[t] = None

\* An issued token belongs to a family, whose first token has been issued.
FamilyKnown ==
    \A t \in Tokens : IF Issued(t) THEN family[t] \in Tokens /\ Issued(family[t])
                                   ELSE family[t] = None

\* Only a family that has begun has been ended.
EndedKnown == \A f \in ended : Issued(f)

\* The inductive invariant: an unissued row, which a rotation makes active, is
\* neither the parent of a token nor what another transaction has read.
TokenInv ==
    /\ Tok!TypeOK
    /\ JobsOnIssued
    /\ UnissuedIsFresh
    /\ FamilyKnown
    /\ EndedKnown
    /\ RotatedIsRevoked

\* There is no token at the start.
LEMMA TokenInit ==
    ASSUME Tok!RefreshTokensConstants
    PROVE  Tok!Init => TokenInv
BY DEF Tok!Init, TokenInv, Tok!TypeOK, JobsOnIssued, UnissuedIsFresh, FamilyKnown,
       EndedKnown,
       RotatedIsRevoked, Issued, Tok!Issued, Tok!Idle, Tok!Jobs

\* A job that is not idle is a rotation or a logout of an issued token.
LEMMA JobType ==
    ASSUME Tok!RefreshTokensConstants,
           TokenInv, NEW w \in Workers, job[w].op \in {"refresh", "logout"}
    PROVE  job[w].token \in Tokens /\ Issued(job[w].token)
BY DEF TokenInv, Tok!TypeOK, JobsOnIssued, Tok!Jobs, Tok!Idle

\* Logging in, reading a token, and a reuse.
LEMMA QuietKeeps ==
    ASSUME Tok!RefreshTokensConstants,
           TokenInv, NEW w \in Workers, NEW t \in Tokens, NEW op \in {"refresh", "logout"},
           Tok!Login(w, t) \/ Tok!ReadToken(w, t, op) \/ Tok!RefreshReused(w, t)
    PROVE  TokenInv'
<1>1. CASE Tok!Login(w, t)
  <2>1. Tok!TypeOK'
    BY <1>1 DEF TokenInv, Tok!TypeOK, Tok!Login
  <2>2. JobsOnIssued' /\ UnissuedIsFresh' /\ FamilyKnown' /\ EndedKnown'
    BY <1>1 DEF TokenInv, Tok!TypeOK, JobsOnIssued, UnissuedIsFresh, FamilyKnown,
                EndedKnown, Issued, Tok!Issued, Tok!Login
  <2>3. RotatedIsRevoked'
    BY <1>1 DEF TokenInv, Tok!TypeOK, RotatedIsRevoked, Issued, Tok!Issued, Tok!Login
  <2> QED BY <2>1, <2>2, <2>3 DEF TokenInv
<1>2. CASE Tok!ReadToken(w, t, op)
  <2>1. [op |-> op, token |-> t] \in Tok!Jobs
    BY DEF Tok!Jobs
  <2>2. Tok!TypeOK'
    BY <1>2, <2>1 DEF TokenInv, Tok!TypeOK, Tok!ReadToken
  <2>3. JobsOnIssued' /\ UnissuedIsFresh' /\ FamilyKnown' /\ EndedKnown' /\ RotatedIsRevoked'
    BY <1>2 DEF TokenInv, Tok!TypeOK, JobsOnIssued, UnissuedIsFresh, FamilyKnown,
                EndedKnown,
                RotatedIsRevoked, Issued, Tok!Issued, Tok!ReadToken
  <2> QED BY <2>2, <2>3 DEF TokenInv
<1>3. CASE Tok!RefreshReused(w, t)
  <2>1. family[t] \in Tokens
    BY <1>3 DEF TokenInv, FamilyKnown, Issued, Tok!Issued, Tok!RefreshReused
  <2> QED
    BY <1>3, <2>1 DEF TokenInv, Tok!TypeOK, JobsOnIssued, UnissuedIsFresh, FamilyKnown,
                      EndedKnown,
                      RotatedIsRevoked, Issued, Tok!Issued, Tok!RefreshReused
<1> QED
  BY <1>1, <1>2, <1>3

\* The commit of a rotation: the row it makes active is nobody's parent, and the
\* one it revokes may be.
LEMMA CommitRefreshKeeps ==
    ASSUME Tok!RefreshTokensConstants,
           TokenInv, NEW w \in Workers, NEW u \in Tokens, Tok!CommitRefresh(w, u)
    PROVE  TokenInv'
<1> DEFINE t == job[w].token
<1>1. t \in Tokens /\ Issued(t) /\ t # u
  BY JobType DEF Tok!CommitRefresh, Issued, Tok!Issued
<1>2. /\ state' = [state EXCEPT ![t] = "revoked", ![u] = "active"]
      /\ family' = [family EXCEPT ![u] = family[t]]
      /\ parent' = [parent EXCEPT ![u] = t]
      /\ job' = [job EXCEPT ![w] = Tok!Idle]
      /\ UNCHANGED <<expired, detected, ended, raced>>
      /\ ~Issued(u)
  BY DEF Tok!CommitRefresh, Tok!RotatedState, Issued, Tok!Issued
<1> HIDE DEF t
<1>3. Tok!TypeOK'
  BY <1>1, <1>2 DEF TokenInv, Tok!TypeOK, Tok!Jobs
<1>4. \A v \in Tokens : parent[v] # u
  BY <1>2 DEF TokenInv, RotatedIsRevoked, Issued, Tok!Issued
<1>5. JobsOnIssued'
  BY <1>1, <1>2 DEF TokenInv, Tok!TypeOK, JobsOnIssued, Issued, Tok!Issued
<1>6. UnissuedIsFresh' /\ FamilyKnown' /\ EndedKnown'
  BY <1>1, <1>2 DEF TokenInv, Tok!TypeOK, UnissuedIsFresh, FamilyKnown, EndedKnown,
                    Issued, Tok!Issued
<1>7. RotatedIsRevoked'
  BY <1>1, <1>2, <1>4 DEF TokenInv, Tok!TypeOK, RotatedIsRevoked
<1> QED
  BY <1>3, <1>5, <1>6, <1>7 DEF TokenInv

\* The commit of a logout.
LEMMA CommitLogoutKeeps ==
    ASSUME Tok!RefreshTokensConstants,
           TokenInv, NEW w \in Workers, Tok!CommitLogout(w)
    PROVE  TokenInv'
<1> DEFINE t == job[w].token
<1>1. t \in Tokens /\ Issued(t) /\ family[t] \in Tokens
  BY JobType DEF Tok!CommitLogout, TokenInv, FamilyKnown
<1>2. /\ state' = [state EXCEPT ![t] = "revoked"]
      /\ ended' = ended \cup {family[t]}
      /\ job' = [job EXCEPT ![w] = Tok!Idle]
      /\ UNCHANGED <<family, parent, expired, detected, raced>>
  BY DEF Tok!CommitLogout, Tok!LoggedOutState
<1> HIDE DEF t
<1>3. Tok!TypeOK'
  BY <1>1, <1>2 DEF TokenInv, Tok!TypeOK, Tok!Jobs
<1>4. JobsOnIssued' /\ UnissuedIsFresh' /\ FamilyKnown' /\ EndedKnown'
  BY <1>1, <1>2 DEF TokenInv, Tok!TypeOK, JobsOnIssued, UnissuedIsFresh, FamilyKnown,
                    EndedKnown, Issued, Tok!Issued
<1>5. RotatedIsRevoked'
  BY <1>1, <1>2 DEF TokenInv, Tok!TypeOK, RotatedIsRevoked
<1> QED
  BY <1>3, <1>4, <1>5 DEF TokenInv

\* Every step keeps the invariant.
LEMMA TokenStep ==
    ASSUME Tok!RefreshTokensConstants
    PROVE  TokenInv /\ [Tok!Next]_Tok!vars => TokenInv'
<1> SUFFICES ASSUME TokenInv, [Tok!Next]_Tok!vars PROVE TokenInv'
  OBVIOUS
<1>1. ASSUME NEW w \in Workers, NEW t \in Tokens, NEW op \in {"refresh", "logout"},
             Tok!Login(w, t) \/ Tok!ReadToken(w, t, op) \/ Tok!RefreshReused(w, t)
      PROVE  TokenInv'
  BY <1>1, QuietKeeps
<1>2. ASSUME NEW w \in Workers, NEW u \in Tokens, Tok!CommitRefresh(w, u) PROVE TokenInv'
  BY <1>2, CommitRefreshKeeps
<1>3. ASSUME NEW w \in Workers, Tok!CommitLogout(w) PROVE TokenInv'
  BY <1>3, CommitLogoutKeeps
<1>4. ASSUME NEW w \in Workers, Tok!Rollback(w) PROVE TokenInv'
  BY <1>4 DEF TokenInv, Tok!TypeOK, JobsOnIssued, UnissuedIsFresh, FamilyKnown, EndedKnown,
              RotatedIsRevoked, Issued, Tok!Issued, Tok!Rollback, Tok!Jobs
<1>5. ASSUME NEW t \in Tokens, Tok!Expire(t) PROVE TokenInv'
  BY <1>5 DEF TokenInv, Tok!TypeOK, JobsOnIssued, UnissuedIsFresh, FamilyKnown, EndedKnown,
              RotatedIsRevoked, Issued, Tok!Issued, Tok!Expire
<1>6. CASE UNCHANGED Tok!vars
  BY <1>6 DEF Tok!vars, TokenInv, Tok!TypeOK, JobsOnIssued, UnissuedIsFresh, FamilyKnown,
              EndedKnown,
              RotatedIsRevoked, Issued, Tok!Issued
<1> QED
  BY <1>1, <1>2, <1>3, <1>4, <1>5, <1>6 DEF Tok!Next

\* The inductive invariant holds in every state.
THEOREM TokenInvariant ==
    ASSUME Tok!RefreshTokensConstants
    PROVE  Tok!Spec => []TokenInv
BY TokenInit, TokenStep, PTL DEF Tok!Spec

\* A token that has been rotated stays useless, with any number of concurrent
\* refreshes and logouts of it.
THEOREM RotationRevokes ==
    ASSUME Tok!RefreshTokensConstants
    PROVE  Tok!Spec => []RotatedIsRevoked
<1>1. TokenInv => RotatedIsRevoked
  BY DEF TokenInv
<1> QED BY <1>1, TokenInvariant, PTL

\* What a step can do to a revoked row: write it as revoked once more.
LEMMA RevokedStep ==
    ASSUME Tok!RefreshTokensConstants,
           TokenInv, [Tok!Next]_Tok!vars, NEW t \in Tokens, state[t] = "revoked"
    PROVE  state'[t] = "revoked"
<1>1. ASSUME NEW w \in Workers, NEW u \in Tokens, NEW op \in {"refresh", "logout"},
             Tok!Login(w, u) \/ Tok!ReadToken(w, u, op) \/ Tok!RefreshReused(w, u)
      PROVE  state'[t] = "revoked"
  BY <1>1 DEF TokenInv, Tok!TypeOK, Tok!Login, Tok!ReadToken, Tok!RefreshReused, Issued, Tok!Issued
<1>2. ASSUME NEW w \in Workers, NEW u \in Tokens, Tok!CommitRefresh(w, u)
      PROVE  state'[t] = "revoked"
  BY <1>2, JobType DEF TokenInv, Tok!TypeOK, Tok!CommitRefresh, Tok!RotatedState, Issued, Tok!Issued
<1>3. ASSUME NEW w \in Workers, Tok!CommitLogout(w) \/ Tok!Rollback(w)
      PROVE  state'[t] = "revoked"
  BY <1>3, JobType DEF TokenInv, Tok!TypeOK, Tok!CommitLogout, Tok!LoggedOutState,
                       Tok!Rollback
<1>4. ASSUME NEW u \in Tokens, Tok!Expire(u) PROVE state'[t] = "revoked"
  BY <1>4 DEF Tok!Expire
<1>5. CASE UNCHANGED Tok!vars
  BY <1>5 DEF Tok!vars
<1> QED
  BY <1>1, <1>2, <1>3, <1>4, <1>5 DEF Tok!Next

\* Revocation is final.
THEOREM RevocationIsFinal ==
    ASSUME Tok!RefreshTokensConstants
    PROVE  Tok!Spec => RevokedIsFinal
<1>1. TokenInv /\ [Tok!Next]_Tok!vars =>
        [\A t \in Tokens : state[t] = "revoked" => state'[t] = "revoked"]_state
  BY RevokedStep
<1> QED
  BY <1>1, TokenInvariant, PTL DEF Tok!Spec, RevokedIsFinal

-------------------------------------------------------------------------------
(* Tokens and families without a race *)

\* A transaction that has read a token no other one has read meanwhile finds the
\* row as it was read.
SoleReader ==
    \A w \in Workers : job[w] # Tok!Idle /\ job[w].token \notin raced =>
        /\ state[job[w].token] = "active"
        /\ \A v \in Workers : job[v] # Tok!Idle /\ job[v].token = job[w].token => v = w

\* No token of the family has been read by two transactions at once.
Calm(f) == \A u \in raced : family[u] # f

\* A family without a race has at most one active token, and none when it has
\* been logged out.
OneActive ==
    \A t, u \in Tokens :
        state[t] = "active" /\ state[u] = "active" /\ family[t] = family[u] /\ Calm(family[t]) => t = u

EndedIsRevoked ==
    \A t \in Tokens : state[t] = "active" /\ Calm(family[t]) => family[t] \notin ended

\* A token that has been replaced twice has been read twice at once.
RaceInv == SoleReader /\ OneActive /\ EndedIsRevoked /\ TwoSuccessorsNeedRace

\* A new family begins with one active token.
LEMMA LoginRace ==
    ASSUME Tok!RefreshTokensConstants,
           TokenInv, RaceInv, NEW w \in Workers, NEW t \in Tokens, Tok!Login(w, t)
    PROVE  RaceInv'
<1>1. /\ state[t] = "unissued" /\ t \notin ended /\ t \in Tokens /\ t # None
      /\ \A u \in Tokens : family[u] # t
      /\ family[t] = None /\ \A u \in Tokens : state[u] = "active" => family[u] # None
      /\ \A v \in Workers : job[v] # Tok!Idle => job[v].token # t
  BY DEF Tok!Login, Issued, Tok!Issued, TokenInv, EndedKnown, FamilyKnown, JobsOnIssued
<1>2. /\ state' = [state EXCEPT ![t] = "active"]
      /\ family' = [family EXCEPT ![t] = t]
      /\ UNCHANGED <<parent, expired, job, detected, ended, raced>>
  BY DEF Tok!Login
<1>3. SoleReader' /\ TwoSuccessorsNeedRace'
  BY <1>1, <1>2 DEF RaceInv, SoleReader, TwoSuccessorsNeedRace, TokenInv, Tok!TypeOK,
                    JobsOnIssued
<1>4. \A u \in Tokens \ {t} : /\ family'[u] = family[u] /\ state'[u] = state[u]
                              /\ family[u] # t
                              /\ state[u] = "active" /\ (\A v \in raced : family'[v] # family[u])
                                    => Calm(family[u])
  BY <1>1, <1>2 DEF Calm, TokenInv, Tok!TypeOK
<1>5. family'[t] = t /\ state'[t] = "active"
  BY <1>2 DEF TokenInv, Tok!TypeOK
<1>6. OneActive' /\ EndedIsRevoked'
  BY <1>1, <1>2, <1>4, <1>5 DEF RaceInv, OneActive, EndedIsRevoked, Calm
<1> QED BY <1>3, <1>6 DEF RaceInv

\* A transaction reads a token: it is the only one, or the token is raced.
LEMMA ReadRace ==
    ASSUME Tok!RefreshTokensConstants,
           TokenInv, RaceInv, NEW w \in Workers, NEW t \in Tokens, NEW op \in {"refresh",
           "logout"},
           Tok!ReadToken(w, t, op)
    PROVE  RaceInv'
<1>1. /\ state[t] = "active" /\ job[w] = Tok!Idle
      /\ job' = [job EXCEPT ![w] = [op |-> op, token |-> t]]
      /\ raced \subseteq raced'
      /\ (\E v \in Workers : job[v].token = t) => t \in raced'
      /\ UNCHANGED <<state, family, parent, expired, detected, ended>>
  BY DEF Tok!ReadToken
<1>2. SoleReader'
  BY <1>1 DEF RaceInv, SoleReader, TokenInv, Tok!TypeOK
<1>3. OneActive' /\ EndedIsRevoked' /\ TwoSuccessorsNeedRace'
  BY <1>1 DEF RaceInv, OneActive, EndedIsRevoked, TwoSuccessorsNeedRace, Calm
<1> QED BY <1>2, <1>3 DEF RaceInv

\* A rotation moves the family's activity from one token to the next.
LEMMA RefreshRace ==
    ASSUME Tok!RefreshTokensConstants,
           TokenInv, RaceInv, NEW w \in Workers, NEW u \in Tokens, Tok!CommitRefresh(w, u)
    PROVE  RaceInv'
<1> DEFINE t == job[w].token
<1>1. t \in Tokens /\ Issued(t) /\ t # u /\ job[w] # Tok!Idle
  BY JobType DEF Tok!CommitRefresh, Tok!Idle, Issued, Tok!Issued
<1>2. /\ state' = [state EXCEPT ![t] = "revoked", ![u] = "active"]
      /\ family' = [family EXCEPT ![u] = family[t]]
      /\ parent' = [parent EXCEPT ![u] = t]
      /\ job' = [job EXCEPT ![w] = Tok!Idle]
      /\ UNCHANGED <<expired, detected, ended, raced>>
      /\ state[u] = "unissued"
  BY DEF Tok!CommitRefresh, Tok!RotatedState, Issued, Tok!Issued
<1>3. t \notin raced => /\ state[t] = "active"
                       /\ \A v \in Workers : job[v] # Tok!Idle /\ job[v].token = t => v = w
  BY <1>1 DEF RaceInv, SoleReader
<1> HIDE DEF t
<1>4. SoleReader'
  <2>1. \A v \in Workers : job'[v] # Tok!Idle =>
           v # w /\ job'[v] = job[v] /\ job[v].token \in Tokens /\ job[v].token # u
    BY <1>2 DEF TokenInv, Tok!TypeOK, JobsOnIssued, Issued, Tok!Issued
  <2> QED
    BY <1>1, <1>2, <1>3, <2>1 DEF RaceInv, SoleReader, TokenInv, Tok!TypeOK
<1>5. TwoSuccessorsNeedRace'
  <2>1. t \notin raced => \A v \in Tokens : parent[v] # t
    BY <1>1, <1>3 DEF TokenInv, RotatedIsRevoked
  <2> QED
    BY <1>1, <1>2, <2>1 DEF RaceInv, TwoSuccessorsNeedRace, TokenInv, Tok!TypeOK
<1>6. family[t] \in Tokens /\ family[u] = None
  BY <1>1, <1>2 DEF TokenInv, FamilyKnown, Issued, Tok!Issued
<1>7. \A v \in Tokens : v # u => family'[v] = family[v]
  BY <1>2 DEF TokenInv, Tok!TypeOK
<1>8. family'[u] = family[t]
  BY <1>2 DEF TokenInv, Tok!TypeOK
<1>9. ASSUME NEW f \in Tokens, Calm(f)' PROVE Calm(f)
  BY <1>2, <1>6, <1>7, <1>9 DEF Calm, TokenInv, Tok!TypeOK
<1>10. Calm(family[t]) => t \notin raced
  BY DEF Calm
<1>11. \A v \in Tokens : state'[v] = "active" => v = u \/ (v # t /\ v # u /\ state[v] = "active")
  BY <1>1, <1>2 DEF TokenInv, Tok!TypeOK
<1>12. \A v \in Tokens : state[v] = "active" => family[v] \in Tokens
  BY DEF TokenInv, FamilyKnown, Issued, Tok!Issued
<1>13. ASSUME NEW v \in Tokens, state[v] = "active", v # t, Calm(family[t])
       PROVE  family[v] # family[t]
  BY <1>1, <1>3, <1>10, <1>13 DEF RaceInv, OneActive
<1>14. OneActive'
  <2> SUFFICES ASSUME NEW a \in Tokens, NEW b \in Tokens, state'[a] = "active", state'[b] = "active",
                      family'[a] = family'[b], Calm(family[a])', a # b
               PROVE  FALSE
    BY DEF OneActive
  <2>0. Calm(family'[a])
    BY <1>6, <1>7, <1>8, <1>9, <1>11, <1>12 DEF Calm
  <2>1. CASE a = u
    BY <1>7, <1>8, <1>11, <1>13, <2>0, <2>1
  <2>2. CASE b = u
    BY <1>7, <1>8, <1>11, <1>13, <2>0, <2>2
  <2>3. CASE a # u /\ b # u
    BY <1>7, <1>11, <2>0, <2>3 DEF RaceInv, OneActive
  <2> QED BY <2>1, <2>2, <2>3
<1>15. EndedIsRevoked'
  <2> SUFFICES ASSUME NEW a \in Tokens, state'[a] = "active", Calm(family[a])'
               PROVE  family'[a] \notin ended
    BY <1>2 DEF EndedIsRevoked
  <2>0. Calm(family'[a])
    BY <1>6, <1>7, <1>8, <1>9, <1>11, <1>12 DEF Calm
  <2>1. CASE a = u
    BY <1>1, <1>3, <1>8, <1>10, <2>0, <2>1 DEF RaceInv, EndedIsRevoked
  <2>2. CASE a # u
    BY <1>7, <1>11, <2>0, <2>2 DEF RaceInv, EndedIsRevoked
  <2> QED BY <2>1, <2>2
<1> QED BY <1>4, <1>5, <1>14, <1>15 DEF RaceInv

\* A logout revokes the family's active token.
LEMMA LogoutRace ==
    ASSUME Tok!RefreshTokensConstants,
           TokenInv, RaceInv, NEW w \in Workers, Tok!CommitLogout(w)
    PROVE  RaceInv'
<1> DEFINE t == job[w].token
<1>1. t \in Tokens /\ Issued(t) /\ job[w] # Tok!Idle
  BY JobType DEF Tok!CommitLogout, Tok!Idle
<1>2. /\ state' = [state EXCEPT ![t] = "revoked"]
      /\ ended' = ended \cup {family[t]}
      /\ job' = [job EXCEPT ![w] = Tok!Idle]
      /\ UNCHANGED <<family, parent, expired, detected, raced>>
  BY DEF Tok!CommitLogout, Tok!LoggedOutState
<1>3. t \notin raced => /\ state[t] = "active"
                       /\ \A v \in Workers : job[v] # Tok!Idle /\ job[v].token = t => v = w
  BY <1>1 DEF RaceInv, SoleReader
<1> HIDE DEF t
<1>4. SoleReader'
  <2>1. \A v \in Workers : job'[v] # Tok!Idle => v # w /\ job'[v] = job[v] /\ job[v].token \in Tokens
    BY <1>2 DEF TokenInv, Tok!TypeOK, JobsOnIssued
  <2> QED
    BY <1>1, <1>2, <1>3, <2>1 DEF RaceInv, SoleReader, TokenInv, Tok!TypeOK
<1>5. TwoSuccessorsNeedRace' /\ OneActive'
  BY <1>1, <1>2 DEF RaceInv, TwoSuccessorsNeedRace, OneActive, Calm, TokenInv,
                    Tok!TypeOK
<1>6. \A v \in Tokens : state'[v] = "active" => v # t /\ state[v] = "active"
  BY <1>1, <1>2 DEF TokenInv, Tok!TypeOK
<1>7. Calm(family[t]) => state[t] = "active"
  BY <1>3 DEF Calm
<1>8. EndedIsRevoked'
  BY <1>1, <1>2, <1>6, <1>7 DEF RaceInv, OneActive, EndedIsRevoked, Calm
<1> QED BY <1>4, <1>5, <1>8 DEF RaceInv

\* Every step keeps the families without a race in order.
LEMMA StepRace ==
    ASSUME Tok!RefreshTokensConstants
    PROVE  TokenInv /\ RaceInv /\ [Tok!Next]_Tok!vars => RaceInv'
<1> SUFFICES ASSUME TokenInv, RaceInv, [Tok!Next]_Tok!vars PROVE RaceInv'
  OBVIOUS
<1>1. ASSUME NEW w \in Workers, NEW t \in Tokens, Tok!Login(w, t) \/ Tok!CommitRefresh(w, t)
      PROVE  RaceInv'
  BY <1>1, LoginRace, RefreshRace
<1>2. ASSUME NEW w \in Workers, NEW t \in Tokens, NEW op \in {"refresh", "logout"},
             Tok!ReadToken(w, t, op)
      PROVE  RaceInv'
  BY <1>2, ReadRace
<1>3. ASSUME NEW w \in Workers, Tok!CommitLogout(w) PROVE RaceInv'
  BY <1>3, LogoutRace
<1>4. ASSUME NEW w \in Workers, Tok!Rollback(w) PROVE RaceInv'
  <2>1. \A v \in Workers : job'[v] # Tok!Idle => job'[v] = job[v]
    BY <1>4 DEF Tok!Rollback, TokenInv, Tok!TypeOK
  <2> QED
    BY <1>4, <2>1 DEF Tok!Rollback, RaceInv, SoleReader, OneActive, EndedIsRevoked,
                      TwoSuccessorsNeedRace, Calm
<1>5. CASE \/ \E w \in Workers, t \in Tokens : Tok!RefreshReused(w, t)
           \/ \E t \in Tokens : Tok!Expire(t)
           \/ UNCHANGED Tok!vars
  BY <1>5 DEF Tok!RefreshReused, Tok!Expire, Tok!vars, RaceInv, SoleReader, OneActive,
              EndedIsRevoked,
              TwoSuccessorsNeedRace, Calm
<1> QED
  BY <1>1, <1>2, <1>3, <1>4, <1>5 DEF Tok!Next

\* The second inductive invariant, relative to the first.
THEOREM RaceInvariant ==
    ASSUME Tok!RefreshTokensConstants
    PROVE  Tok!Spec => []RaceInv
<1>1. Tok!Init => RaceInv
  BY DEF Tok!Init, RaceInv, SoleReader, OneActive, EndedIsRevoked, TwoSuccessorsNeedRace
<1> QED BY <1>1, StepRace, TokenInvariant, PTL DEF Tok!Spec

\* Rotation forks only where two transactions read the same active row.
THEOREM ForksNeedRaces ==
    ASSUME Tok!RefreshTokensConstants
    PROVE  Tok!Spec => []TwoSuccessorsNeedRace
<1>1. RaceInv => TwoSuccessorsNeedRace
  BY DEF RaceInv
<1> QED BY <1>1, RaceInvariant, PTL

\* A logged-out session is over, unless a logout or a refresh of it was raced.
THEOREM LogoutEnds ==
    ASSUME Tok!RefreshTokensConstants
    PROVE  Tok!Spec => []LogoutEndsUnlessRaced
<1>1. TokenInv /\ RaceInv => LogoutEndsUnlessRaced
  BY DEF TokenInv, Tok!TypeOK, RaceInv, EndedIsRevoked, Calm, LogoutEndsUnlessRaced,
         Issued, Tok!Issued
<1> QED BY <1>1, TokenInvariant, RaceInvariant, PTL

===============================================================================
