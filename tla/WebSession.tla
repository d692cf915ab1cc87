------------------------------ MODULE WebSession ------------------------------
(***************************************************************************)
(* Being signed in, as one tab of the frontend sees it: AuthProvider's     *)
(* user and its bootstrap, the sign-in, MFA and registration forms with    *)
(* the warm-up they wait for, the route and who may change it (proxy,      *)
(* AuthGate, the forms' router.push), the idle timers and both ways to     *)
(* sign out.                                                               *)
(*                                                                         *)
(* The answers of several calls may be on their way at once: a sign-out    *)
(* for inactivity shows the sign-in form before it is answered, a form is  *)
(* left while its call runs, a bootstrap is overtaken by a sign-in.  The   *)
(* BFF is reduced to the sessions it takes for live (BffSession has what   *)
(* goes on behind it).                                                     *)
(***************************************************************************)
EXTENDS Integers, FiniteSets

CONSTANTS
    None,           \* a free slot
    MaxOpen,        \* bound: calls of the user under way at once
    MaxSessions,    \* bound: sessions, the one the tab is opened with included
    MaxFaults       \* bound: calls that fail for the network or a throttle, and
                    \* sessions that end without the tab

ASSUME WebSessionConstants ==
    /\ MaxOpen \in Nat \ {0} /\ MaxSessions \in Nat \ {0} /\ MaxFaults \in Nat

VARIABLES
    route,          \* "login", "register" or "app", any page behind AuthGate
    user, boot,     \* AuthProvider: user # null, isBootstrapping
    mfaToken,       \* LoginForm: the MFA form is shown
    warm,           \* useBackendWarmup of the mounted form
    idle,           \* useIdleLogout: "off", "armed" (both timers) or "warned"
    cookie,         \* the browser's session cookie, 0 when there is none
    live, issued,   \* BFF: the sessions that it accepts, and how many it has made
    calls,          \* the calls under way
    faults,         \* history: calls that failed, sessions that ended by themselves
    crossed,        \* history: a sign-in overlapped a sign-out or the bootstrap
    strayed         \* history: a link or a form took the user from the application
                    \* to a public page

vars == <<route, user, boot, mfaToken, warm, idle, cookie, live, issued, calls,
          faults, crossed, strayed>>
ui == <<route, user, boot, mfaToken, warm, idle>>
bff == <<live, issued>>
history == <<crossed, strayed>>

\* A call: what for, the session it is made in (a form needs none), the session it
\* starts, whether the form that made it is mounted, and its result at the BFF.
\* loadUser is "boot" or, as the second half of a sign-in, "me"; a sign-out comes from
\* the "menu" or the "idle" timer.
Slots == 1..(MaxOpen + 1)
Kinds == {"boot", "login", "verify", "me", "register", "menu", "idle"}
Results == {"none", "ok", "mfa", "refused"}
Call == [kind: Kinds, sid: 0..MaxSessions, new: 0..MaxSessions, here: BOOLEAN, st: Results]

\* A free slot is no call.
ASSUME NoneIsNoCall == None \notin Call

TypeOK ==
    /\ route \in {"login", "register", "app"}
    /\ user \in BOOLEAN /\ boot \in BOOLEAN /\ mfaToken \in BOOLEAN
    /\ warm \in {"checking", "ready", "failed"}
    /\ idle \in {"off", "armed", "warned"}
    /\ cookie \in 0..MaxSessions /\ issued \in 0..MaxSessions /\ live \subseteq 1..issued
    /\ calls \in [Slots -> Call \cup {None}]
    /\ faults \in 0..MaxFaults /\ crossed \in BOOLEAN /\ strayed \in BOOLEAN

Used == {i \in Slots : calls[i] # None}
SignIns == {"login", "verify", "me", "boot"}
SignOuts == {"menu", "idle"}

FormCalls == {"login", "verify", "register"}
NewCall(k, s) ==
    [kind |-> k, sid |-> IF k \in FormCalls THEN 0 ELSE s, new |-> 0,
     here |-> k \in FormCalls, st |-> "none"]

\* A tab is opened, with the cookie of an earlier session or without one; proxy()
\* has sent it to the sign-in form in the second case.
Init ==
    /\ issued \in {0, 1} /\ cookie = issued /\ live = 1..issued
    /\ route \in (IF cookie = 0 THEN {"login"} ELSE {"login", "app"})
    /\ user = FALSE /\ boot = TRUE
    /\ mfaToken = FALSE /\ warm = "checking" /\ idle = "off"
    /\ calls = [i \in Slots |-> IF i = 1 THEN NewCall("boot", cookie) ELSE None]
    /\ faults = 0 /\ crossed = FALSE /\ strayed = FALSE

-------------------------------------------------------------------------------
(* Routes and the idle timers *)

\* proxy(): a page behind the gate needs the cookie.
Destination(r, c) == IF r = "app" /\ c = 0 THEN "login" ELSE r

\* A form that is left is unmounted: its calls go on without it.
Unmounted(cs) == [i \in Slots |-> IF cs[i] = None THEN None ELSE [cs[i] EXCEPT !.here = FALSE]]

\* The timers run while AuthGate is mounted with a user.
Timers == idle' = IF route' = "app" /\ user'
                  THEN IF idle = "off" THEN "armed" ELSE idle
                  ELSE "off"

\* The router shows r; cs are the calls, which lose the form they belong to.
Show(r, cs) ==
    IF r = route
    THEN calls' = cs /\ UNCHANGED <<route, mfaToken, warm>>
    ELSE /\ calls' = Unmounted(cs)
         /\ route' = r /\ mfaToken' = FALSE /\ warm' = "checking"

\* The user follows a link.
Navigate(r) ==
    /\ r # route
    /\ Show(Destination(r, cookie), calls)
    /\ strayed' = (route = "app")
    /\ UNCHANGED <<user, boot, cookie, bff, faults, crossed>>
    /\ Timers

\* AuthGate's effect.
Redirect ==
    /\ route = "app" /\ ~boot /\ ~user
    /\ Show("login", calls)
    /\ UNCHANGED <<user, boot, cookie, bff, faults, history>>
    /\ Timers

Activity ==
    /\ idle # "off" /\ idle' = "armed"
    /\ UNCHANGED <<route, user, boot, mfaToken, warm, cookie, bff, calls, faults, history>>

\* Mutant: the warning starts the timers again.
WarnedAgain == "armed"

Warned == "warned"
Warn ==
    /\ idle = "armed" /\ idle' = Warned
    /\ UNCHANGED <<route, user, boot, mfaToken, warm, cookie, bff, calls, faults, history>>

-------------------------------------------------------------------------------
(* Calls *)

InFlight(ks) == \E i \in Used : calls[i].kind \in ks
Pending(ks) == \E i \in Used : calls[i].kind \in ks /\ calls[i].here

\* The slot of the next call; the user leaves the last one to the idle timer.
Free(i) == calls[i] = None /\ \A j \in 1..(i - 1) : calls[j] # None
FreeForUser(i) == Free(i) /\ Cardinality(Used) < MaxOpen
With(i, k) == [calls EXCEPT ![i] = NewCall(k, cookie)]

\* A sign-in that overlaps a sign-out or the bootstrap.
Crossing(k) ==
    crossed' = (crossed \/ InFlight(IF k \in SignOuts THEN SignIns ELSE SignOuts \cup {"boot"}))

\* The sign-in form, once the backend is known to be awake.
Submit(k) ==
    /\ \/ k = "login" /\ route = "login" /\ ~mfaToken /\ warm = "ready"
          /\ ~Pending({"login", "me"})
       \/ k = "verify" /\ route = "login" /\ mfaToken /\ ~Pending({"verify", "me"})
       \/ k = "register" /\ route = "register" /\ warm = "ready" /\ ~Pending({"register"})
    /\ \E i \in Slots : FreeForUser(i) /\ calls' = With(i, k)
    /\ IF k = "register" THEN UNCHANGED crossed ELSE Crossing(k)
    /\ UNCHANGED <<ui, cookie, bff, faults, strayed>>

\* Back to sign in: the MFA form is unmounted.
OnBack ==
    /\ mfaToken /\ mfaToken' = FALSE
    /\ calls' = Unmounted(calls)
    /\ UNCHANGED <<route, user, boot, warm, idle, cookie, bff, faults, history>>

\* Log out in the menu, which is there with and without a user.
Logout ==
    /\ route = "app"
    /\ \E i \in Slots : FreeForUser(i) /\ calls' = With(i, "menu")
    /\ Crossing("menu")
    /\ UNCHANGED <<ui, cookie, bff, faults, strayed>>

\* The second timer: the sign-in form first, then the call.
IdleLogout ==
    /\ idle = "warned"
    /\ \E i \in Slots : Free(i) /\ Show("login", With(i, "idle"))
    /\ Crossing("idle")
    /\ UNCHANGED <<user, boot, cookie, bff, faults, strayed>>
    /\ Timers

\* The BFF handles call i.
Execute(i) ==
    LET c == calls[i]
    IN  /\ i \in Used /\ c.st = "none"
        /\ \/ /\ c.kind \in {"boot", "me"}
              /\ calls' = [calls EXCEPT ![i].st = IF c.sid \in live THEN "ok" ELSE "refused"]
              /\ UNCHANGED bff
           \/ /\ c.kind \in {"login", "verify"} /\ issued < MaxSessions
              /\ issued' = issued + 1 /\ live' = live \cup {issued'}
              /\ calls' = [calls EXCEPT ![i].st = "ok", ![i].new = issued']
           \/ /\ c.kind \in {"login", "verify", "register"}
              /\ \E st \in (CASE c.kind = "login" -> {"mfa", "refused"}
                              [] c.kind = "verify" -> {"refused"}
                              [] OTHER -> {"ok", "refused"}) :
                    calls' = [calls EXCEPT ![i].st = st]
              /\ UNCHANGED bff
           \/ /\ c.kind \in SignOuts
              /\ calls' = [calls EXCEPT ![i].st = "ok"]
              /\ live' = live \ {c.sid} /\ UNCHANGED issued
    /\ UNCHANGED <<ui, cookie, faults, history>>

\* Call i settles with its result; or fails on the way, or at a throttle.
Settles(i, ks, r) ==
    /\ i \in Used /\ calls[i].kind \in ks
    /\ \/ r = calls[i].st /\ r # "none" /\ UNCHANGED faults
       \/ r = "failed" /\ faults < MaxFaults /\ faults' = faults + 1
Over(i) == [calls EXCEPT ![i] = None]

\* login and verifyMfa: the answer sets the cookie and loadUser() follows; or the MFA
\* form is shown, by the sign-in form if it is still there; or a toast.
SignInSettles(i, r) ==
    LET c == calls[i]
    IN  /\ Settles(i, {"login", "verify"}, r)
        /\ IF r = "ok"
           THEN /\ cookie' = c.new
                /\ calls' = [calls EXCEPT ![i] = [NewCall("me", c.new) EXCEPT !.here = c.here]]
           ELSE calls' = Over(i) /\ UNCHANGED cookie
        /\ mfaToken' = (mfaToken \/ (r = "mfa" /\ c.here))
        /\ UNCHANGED <<route, user, boot, warm, idle, bff, history>>

\* loadUser: setUser(me), or setUser(null) for any error.
UserAfter(r) == r = "ok"

\* The bootstrap ends whatever the answer; a sign-in goes to the dashboard likewise.
LoadUserSettles(i, r) ==
    /\ Settles(i, {"boot", "me"}, r)
    /\ user' = UserAfter(r)
    /\ boot' = (boot /\ calls[i].kind # "boot")
    /\ Show(IF calls[i].kind = "me" THEN Destination("app", cookie) ELSE route, Over(i))
    /\ strayed' = (strayed /\ route' # "app")
    /\ UNCHANGED <<cookie, bff, crossed>>
    /\ Timers

RegisterSettles(i, r) ==
    /\ Settles(i, {"register"}, r)
    /\ Show(IF r = "ok" THEN "login" ELSE route, Over(i))
    /\ strayed' = (strayed \/ (route = "app" /\ route' # "app"))
    /\ UNCHANGED <<user, boot, cookie, bff, crossed>>
    /\ Timers

\* Mutant: a sign-out leaves the user to the next loadUser().
UserKept == user

\* setUser(null), answered or not.
UserAfterLogout == FALSE

\* logout: an error is ignored, the user is null; handleLogout of the menu then shows
\* the sign-in form.  The answer clears whatever cookie the browser has by then.
LogoutSettles(i, r) ==
    /\ Settles(i, SignOuts, r)
    /\ cookie' = IF r = "ok" THEN 0 ELSE cookie
    /\ user' = UserAfterLogout
    /\ Show(IF calls[i].kind = "menu" THEN "login" ELSE route, Over(i))
    /\ UNCHANGED <<boot, bff, history>>
    /\ Timers

\* A session is revoked, or expires, without the tab.
SessionEnds(s) ==
    /\ s \in live /\ live' = live \ {s}
    /\ faults < MaxFaults /\ faults' = faults + 1
    /\ UNCHANGED <<ui, cookie, issued, calls, history>>

-------------------------------------------------------------------------------
(* The warm-up *)

OnForm == route \in {"login", "register"}

\* attempt(): one probe at a time, up or not.
Probe ==
    /\ OnForm /\ warm = "checking" /\ warm' \in {"ready", "failed"}
    /\ UNCHANGED <<route, user, boot, mfaToken, idle, cookie, bff, calls, faults, history>>

\* Try again, or the tab becomes visible.
Retry ==
    /\ OnForm /\ warm = "failed" /\ warm' = "checking"
    /\ UNCHANGED <<route, user, boot, mfaToken, idle, cookie, bff, calls, faults, history>>

\* What the user does, and what happens by itself.
UserStep ==
    \/ \E r \in {"login", "register", "app"} : Navigate(r)
    \/ Activity \/ OnBack \/ Logout \/ Retry
    \/ \E k \in FormCalls : Submit(k)
SettleStep(i) ==
    \E r \in Results \cup {"failed"} :
        SignInSettles(i, r) \/ LoadUserSettles(i, r) \/ RegisterSettles(i, r)
            \/ LogoutSettles(i, r)
SystemStep ==
    \/ Redirect \/ Warn \/ IdleLogout \/ Probe
    \/ \E i \in Slots : Execute(i) \/ SettleStep(i)
Next ==
    \/ UserStep \/ SystemStep
    \/ \E s \in 1..MaxSessions : SessionEnds(s)

\* Timers fire, effects run, and a call is answered or fails.
Spec == Init /\ [][Next]_vars /\ WF_vars(SystemStep)

-------------------------------------------------------------------------------
(* Properties *)

\* When no call is under way the tab shows a user exactly if its cookie is that of a
\* live session, whatever forms were left, resubmitted and overtaken.  What breaks the
\* tie: a failed call (a failed sign-out is taken for a sign-out, a failed /me for no
\* user), a session that ends elsewhere (no 401 sets the user to null), and a sign-in
\* that overlaps a sign-out or the bootstrap, whose late answers clear the new
\* session's cookie or user.
UserMeansSession ==
    Used = {} /\ faults = 0 /\ ~crossed => (user <=> cookie \in live)

\* A tab that is left alone on a page of the application signs out: from any state,
\* if the user does nothing more, the page is left for the sign-in form and the user
\* is null, also when the sign-out itself fails.  A user stays only where the timers
\* of AuthGate do not run, on a public page, or where a sign-in that is still on its
\* way is answered after the sign-out.
IdleSignsOut ==
    []<><<UserStep>>_vars \/ (route = "app" ~> (route # "app" /\ (~user \/ strayed \/ crossed)))
===============================================================================
