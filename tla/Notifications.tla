----------------------------- MODULE Notifications -----------------------------
(***************************************************************************)
(* Transaction notifications of one session: the NotificationPollerService *)
(* of the BFF, which polls the statements of the customer's accounts, and  *)
(* the EventSource connections of the browser's tabs.                      *)
(*                                                                         *)
(* A poller is shared by the connections of the session.  Its seed and its *)
(* polls are asynchronous tasks that overlap: the interval does not wait   *)
(* for the poll before.  A connection that breaks is replaced by the       *)
(* browser, before or after the server notices.                            *)
(*                                                                         *)
(* Entries are numbered in the order of createdAt, which the backend takes *)
(* before the transaction commits: an entry may become visible after a     *)
(* newer one of the same account.                                          *)
(***************************************************************************)
EXTENDS Naturals, FiniteSets, FiniteSetsExt

CONSTANTS
    Accounts,       \* the accounts of the customer
    Entries,        \* statement entries: bound on what is posted
    AccountOf,      \* the account of each entry
    Tabs,           \* open tabs
    Pollers,        \* identities of PollerState objects
    Tasks,          \* bound: seeds and polls that run at the same time
    PageSize,       \* entries a poll asks for (5 in the code)
    MaxFaults,      \* bound: failing backend calls and broken connections
    None

ASSUME NotificationConstants ==
    /\ IsFiniteSet(Tabs)
    /\ Entries \subseteq Nat \ {0}
    /\ AccountOf \in [Entries -> Accounts]
    /\ PageSize \in Nat \ {0}
    /\ MaxFaults \in Nat
    /\ None \notin Pollers

VARIABLES
    posted,     \* backend: the entries that are committed
    poller,     \* pollers: the session's PollerState
    refCount,   \* PollerState.refCount
    timer,      \* PollerState.intervalId: not started, running or cleared
    seen,       \* PollerState.lastSeenByAccount (0: no value)
    task,       \* running seeds and polls
    tab,        \* the poller a tab's connection is subscribed to
    closing,    \* connections that have broken and are not torn down yet
    faults,     \* how many faults have happened
    told,       \* tab -> the entries announced to it
    owed,       \* tab -> entries posted while it was connected to a seeded poller
    excused,    \* history: entries a poll cannot or need not find
    overlapped, \* history: pollers of which two tasks have run at once
    repeated    \* history: pollers that have announced an entry again

vars == <<posted, poller, refCount, timer, seen, task, tab, closing, faults,
          told, owed, excused, overlapped, repeated>>

pollerState == <<poller, refCount, timer>>
clients == <<tab, closing>>

\* A task: what it does, for which poller, the accounts it has still to ask for,
\* and the pages that have come back.
NoPages == [a \in Accounts |-> None]
Free == [kind |-> "free", on |-> None, todo |-> {}, page |-> NoPages]
TaskStates == [kind: {"free", "seed", "poll"}, on: Pollers \cup {None},
               todo: SUBSET Accounts, page: [Accounts -> (SUBSET Entries) \cup {None}]]

TypeOK ==
    /\ posted \subseteq Entries
    /\ poller \in Pollers \cup {None}
    /\ refCount \in [Pollers -> Nat]
    /\ timer \in [Pollers -> {"new", "running", "cleared"}]
    /\ seen \in [Pollers -> [Accounts -> Entries \cup {0}]]
    /\ task \in [Tasks -> TaskStates]
    /\ tab \in [Tabs -> Pollers \cup {None}]
    /\ closing \in [Pollers -> Nat]
    /\ faults \in 0..MaxFaults
    /\ told \in [Tabs -> SUBSET Entries]
    /\ owed \in [Tabs -> SUBSET Entries]
    /\ excused \subseteq Entries
    /\ overlapped \subseteq Pollers
    /\ repeated \subseteq Pollers

Init ==
    /\ posted = {}
    /\ poller = None
    /\ refCount = [p \in Pollers |-> 0]
    /\ timer = [p \in Pollers |-> "new"]
    /\ seen = [p \in Pollers |-> [a \in Accounts |-> 0]]
    /\ task = [t \in Tasks |-> Free]
    /\ tab = [x \in Tabs |-> None]
    /\ closing = [p \in Pollers |-> 0]
    /\ faults = 0
    /\ told = [x \in Tabs |-> {}]
    /\ owed = [x \in Tabs |-> {}]
    /\ excused = {}
    /\ overlapped = {}
    /\ repeated = {}

-------------------------------------------------------------------------------
(* The backend *)

Statement(a) == {e \in posted : AccountOf[e] = a}

\* The first page of a statement: the n newest entries.
Page(a, n) == {e \in Statement(a) : Cardinality({f \in Statement(a) : f > e}) < n}

\* A movement commits.  An entry that is older than one that is visible already
\* will not be found above it.
Post(e) ==
    /\ e \notin posted
    /\ posted' = posted \cup {e}
    /\ owed' = [x \in Tabs |->
                   IF tab[x] # None /\ seen[tab[x]][AccountOf[e]] # 0
                   THEN owed[x] \cup {e} ELSE owed[x]]
    /\ excused' = IF \E f \in Statement(AccountOf[e]) : f > e
                  THEN excused \cup {e} ELSE excused
    /\ UNCHANGED <<pollerState, seen, task, clients, faults, told, overlapped, repeated>>

-------------------------------------------------------------------------------
(* NotificationPollerService *)

Running(p) == {t \in Tasks : task[t].on = p}

Task(kind, p) == [kind |-> kind, on |-> p, todo |-> Accounts, page |-> NoPages]

\* subscribe: join the session's poller, or make one, start its interval and
\* its seed, and put it into the map.
Subscribe(x) ==
    /\ tab[x] = None
    /\ \/ /\ poller # None
          /\ tab' = [tab EXCEPT ![x] = poller]
          /\ refCount' = [refCount EXCEPT ![poller] = @ + 1]
          /\ UNCHANGED <<poller, timer, task>>
       \/ /\ poller = None
          /\ \E p \in Pollers, t \in Tasks :
                /\ timer[p] = "new"
                /\ task[t].kind = "free"
                /\ poller' = p
                /\ timer' = [timer EXCEPT ![p] = "running"]
                /\ refCount' = [refCount EXCEPT ![p] = 1]
                /\ task' = [task EXCEPT ![t] = Task("seed", p)]
                /\ tab' = [tab EXCEPT ![x] = p]
    /\ UNCHANGED <<posted, seen, closing, faults, told, owed, excused, overlapped, repeated>>

\* Mutant: the teardown of any connection clears the interval.
IsLastAny(p) == TRUE

\* The teardown of the Observable ends a poller without subscribers.
IsLast(p) == refCount[p] <= 1

\* The server notices that a connection is closed.
Teardown(p) ==
    /\ closing[p] > 0
    /\ closing' = [closing EXCEPT ![p] = @ - 1]
    /\ refCount' = [refCount EXCEPT ![p] = @ - 1]
    /\ IF IsLast(p)
       THEN /\ timer' = [timer EXCEPT ![p] = "cleared"]
            /\ poller' = None
       ELSE UNCHANGED <<timer, poller>>
    /\ UNCHANGED <<posted, seen, task, tab, faults, told, owed, excused, overlapped, repeated>>

\* The interval fires, whether or not the poll before has finished.
Tick(t, p) ==
    /\ timer[p] = "running"
    /\ task[t].kind = "free"
    /\ task' = [task EXCEPT ![t] = Task("poll", p)]
    /\ overlapped' = IF Running(p) # {} THEN overlapped \cup {p} ELSE overlapped
    /\ UNCHANGED <<posted, pollerState, seen, clients, faults, told, owed, excused, repeated>>

\* The backend answers a statement request: of the seed (latestEntry, all accounts
\* at once), of a poll (one account after the other).
Fetch(t, a) ==
    LET k == task[t]
    IN  /\ a \in k.todo
        /\ k.page[a] = None
        /\ \/ k.kind = "seed"
           \/ k.kind = "poll" /\ \A b \in Accounts : k.page[b] = None
        /\ task' = [task EXCEPT ![t].page[a] = Page(a, IF k.kind = "seed" THEN 1 ELSE PageSize)]
        /\ UNCHANGED <<posted, pollerState, seen, clients, faults, told, owed,
                       excused, overlapped, repeated>>

\* The task without the account: it has ended when no account is left.
Without(k, a) ==
    IF k.todo = {a} THEN Free
    ELSE [k EXCEPT !.todo = @ \ {a}, !.page[a] = None]

\* The newest entry of the page, entries[0], if there is one.
Remembered(page, last) == IF page = {} THEN last ELSE Max(page)

\* seedLastSeen, one account: what is older than its latest entry is not announced.
HandleSeed(t, a) ==
    LET k == task[t]
        page == k.page[a]
    IN  /\ k.kind = "seed"
        /\ page # None
        /\ task' = [task EXCEPT ![t] = Without(k, a)]
        /\ seen' = [seen EXCEPT ![k.on][a] = Remembered(page, @)]
        /\ excused' = excused \cup
              {e \in Entries : AccountOf[e] = a /\ page # {} /\ e <= Max(page)}
        /\ UNCHANGED <<posted, pollerState, clients, faults, told, owed, overlapped, repeated>>

\* Mutant: takeUntilId keeps the entry it stops at.
TakeUntilIdInclusive(page, id) ==
    IF id \in page THEN {e \in page : e >= id} ELSE page

\* Mutant: nothing is new when the last seen entry is not on the page.
TakeUntilIdOnPage(page, id) == IF id \in page THEN {e \in page : e > id} ELSE {}

\* takeUntilId: the page is ordered newest first, so this is what is newer than id,
\* or the whole page if id is not on it.
TakeUntilId(page, id) == IF id \in page THEN {e \in page : e > id} ELSE page

\* poll, one account: announce what is new to every subscriber, if the poller has
\* seen the account before, and remember the newest entry.
HandlePage(t, a) ==
    LET k == task[t]
        p == k.on
        page == k.page[a]
        last == seen[p][a]
        new == IF last # 0 THEN TakeUntilId(page, last) ELSE {}
        listeners == {x \in Tabs : tab[x] = p}
    IN  /\ k.kind = "poll"
        /\ page # None
        /\ task' = [task EXCEPT ![t] = Without(k, a)]
        /\ told' = [x \in Tabs |-> IF x \in listeners THEN told[x] \cup new ELSE told[x]]
        /\ owed' = [x \in Tabs |-> IF x \in listeners THEN owed[x] \ new ELSE owed[x]]
        /\ repeated' = IF \E x \in listeners : told[x] \cap new # {}
                       THEN repeated \cup {p} ELSE repeated
        /\ seen' = [seen EXCEPT ![p][a] = Remembered(page, last)]
        /\ excused' = excused \cup
              {e \in Entries : /\ AccountOf[e] = a
                               /\ Cardinality(page) = PageSize
                               /\ last < e /\ e < Min(page)}
        /\ UNCHANGED <<posted, pollerState, clients, faults, overlapped>>

\* A call to the backend fails: the poll ends, the seed goes on without the account
\* (when the list of the accounts fails, without any).
Fail(t) ==
    LET k == task[t]
    IN  /\ k.kind # "free"
        /\ faults < MaxFaults
        /\ faults' = faults + 1
        /\ \/ k.kind = "poll" /\ task' = [task EXCEPT ![t] = Free]
           \/ k.kind = "seed" /\ \E a \in k.todo : task' = [task EXCEPT ![t] = Without(k, a)]
        /\ UNCHANGED <<posted, pollerState, seen, clients, told, owed, excused,
                       overlapped, repeated>>

-------------------------------------------------------------------------------
(* The browser *)

\* The connection breaks, or the tab is closed: the EventSource connects again, or
\* does not.
Disconnect(x) ==
    /\ tab[x] # None
    /\ faults < MaxFaults
    /\ faults' = faults + 1
    /\ closing' = [closing EXCEPT ![tab[x]] = @ + 1]
    /\ tab' = [tab EXCEPT ![x] = None]
    /\ owed' = [owed EXCEPT ![x] = {}]
    /\ UNCHANGED <<posted, pollerState, seen, task, told, excused, overlapped, repeated>>

TaskStep(t) == \E a \in Accounts : Fetch(t, a) \/ HandleSeed(t, a) \/ HandlePage(t, a)

Next ==
    \/ \E e \in Entries : Post(e)
    \/ \E x \in Tabs : Subscribe(x) \/ Disconnect(x)
    \/ \E p \in Pollers : Teardown(p) \/ \E t \in Tasks : Tick(t, p)
    \/ \E t \in Tasks : TaskStep(t) \/ Fail(t)

\* The backend answers, the event loop runs, the interval fires as long as it is
\* not cleared, and a closed connection is noticed.
Fairness ==
    /\ \A t \in Tasks : WF_vars(TaskStep(t))
    /\ \A p \in Pollers :
          /\ WF_vars(Teardown(p))
          /\ WF_vars(\E t \in Tasks : Tick(t, p))

Spec == Init /\ [][Next]_vars /\ Fairness

-------------------------------------------------------------------------------
(* Properties *)

\* The connections of a session share one poll loop, which runs exactly as long as
\* there are any: refCount counts them, those not yet torn down included.
OnePollLoop ==
    \A p \in Pollers :
        /\ refCount[p] = Cardinality({x \in Tabs : tab[x] = p}) + closing[p]
        /\ timer[p] = "running" <=> poller = p
        /\ timer[p] = "running" <=> refCount[p] > 0

\* No tab is told of an entry twice, across its connections too, unless two tasks of
\* a poller have overlapped (the older page then moves lastSeen back).
ToldTwiceNeedsOverlap == repeated \subseteq overlapped

\* A poller never passes over an entry it owes to a tab: one that was posted while
\* the tab was connected and the account had been seen, and that neither committed
\* behind a newer one, nor was pushed off the page by others, nor was overtaken by
\* the seed.
NothingPassedOver ==
    \A x \in Tabs : \A e \in owed[x] \ excused :
        /\ tab[x] # None
        /\ e > seen[tab[x]][AccountOf[e]]

\* Such an entry is announced, or the connection breaks, or other entries push it off
\* the page.
OwedIsAnnounced ==
    \A x \in Tabs, e \in Entries :
        (e \in owed[x]) ~> (e \notin owed[x] \/ e \in excused)

===============================================================================
