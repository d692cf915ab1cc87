--------------------------------- MODULE Views ---------------------------------
(***************************************************************************)
(* What a tab shows of the customer's entries: the dashboard (DashboardPage*)
(* over the BFF's DashboardService) and the statement of one account       *)
(* (AccountDetailPage, an infinite query), and how a notification brings   *)
(* both up to date.                                                        *)
(*                                                                         *)
(* The two pages are routes: one is mounted at a time, the cache of the    *)
(* query client outlives both.  Of that library (TanStack Query 5) the     *)
(* model has what the pages rely on: an invalidated query that is shown is *)
(* fetched again, and a fetch that is under way is cancelled for it unless *)
(* it is the query's first; fetchNextPage cancels a fetch under way; a     *)
(* fetch is cancelled when its page is left.                               *)
(*                                                                         *)
(* Entries are numbered in the order of createdAt and may commit in        *)
(* another order.                                                          *)
(***************************************************************************)
EXTENDS Integers, Sequences, FiniteSets, FiniteSetsExt

CONSTANTS
    Accounts,
    Acc,            \* the account whose statement is shown
    Entries,        \* bound on what is posted
    AccountOf,      \* entry -> account
    Amount,         \* entry -> amount, negative for a debit
    DayOf,          \* entry -> day of createdAt
    Today,
    Window,         \* SPEND_WINDOW_DAYS and STATEMENT_WINDOW_DAYS (30 in the code)
    DashboardPage,  \* STATEMENT_PAGE_SIZE of DashboardService (50)
    StatementPage,  \* pageSize of useStatement (50)
    Limit,          \* RECENT_ACTIVITY_LIMIT (10)
    Pending,        \* a statement that has not been read
    Degraded        \* a statement that could not be read

ASSUME ViewConstants ==
    /\ Acc \in Accounts
    /\ Entries \subseteq Nat \ {0}
    /\ AccountOf \in [Entries -> Accounts]
    /\ Amount \in [Entries -> Int]
    /\ DayOf \in [Entries -> Nat]
    /\ Today \in Nat /\ Window \in Nat
    /\ StatementPage \in Nat \ {0} /\ Limit \in Nat \ {0}
    /\ DashboardPage \in Nat /\ DashboardPage >= Limit

VARIABLES
    posted,     \* backend: the committed entries
    route,      \* the page that is mounted
    dash,       \* the query ['bff-dashboard']
    stmt,       \* the query ['accounts', Acc, 'statement', filters]
    told,       \* entries a notification has arrived for
    unseen      \* history, per query: entries whose refetch did not happen

vars == <<posted, route, dash, stmt, told, unseen>>

Routes == {"dashboard", "statement", "elsewhere"}

\* A query: whether it has data and what, whether they are known to be stale, the
\* fetch under way and what it has read.  "since" and "start" remember what was
\* posted when the data shown, and the fetch, were asked for.
NoReads == [a \in Accounts |-> Pending]
Dashboards == [loaded: BOOLEAN, data: [Accounts -> (SUBSET Entries) \cup {Degraded, Pending}],
               since: SUBSET Entries, invalid: BOOLEAN, fetch: {"none", "all"},
               read: [Accounts -> (SUBSET Entries) \cup {Degraded, Pending}],
               start: SUBSET Entries]
NoDashboard == [loaded |-> FALSE, data |-> NoReads, since |-> {}, invalid |-> FALSE,
                fetch |-> "none", read |-> NoReads, start |-> {}]

\* A page of the statement: its entries, and the cursor of the next (0: no next).
StatementPages == [es: SUBSET Entries, next: Entries \cup {0}]
Statements == [loaded: BOOLEAN, data: Seq(StatementPages), since: SUBSET Entries,
               invalid: BOOLEAN, fetch: {"none", "all", "more"},
               read: Seq(StatementPages), start: SUBSET Entries]
NoStatement == [loaded |-> FALSE, data |-> <<>>, since |-> {}, invalid |-> FALSE,
                fetch |-> "none", read |-> <<>>, start |-> {}]

TypeOK ==
    /\ posted \subseteq Entries
    /\ route \in Routes
    /\ dash \in Dashboards
    /\ stmt \in Statements
    /\ stmt.loaded <=> stmt.data # <<>>
    /\ told \subseteq posted
    /\ unseen \in [{"dashboard", "statement"} -> SUBSET Entries]

Init ==
    /\ posted = {}
    /\ route = "elsewhere"
    /\ dash = NoDashboard
    /\ stmt = NoStatement
    /\ told = {}
    /\ unseen = [q \in {"dashboard", "statement"} |-> {}]

-------------------------------------------------------------------------------
(* The backend *)

Newest(n, es) == {e \in es : Cardinality({f \in es : f > e}) < n}

Of(a) == {e \in posted : AccountOf[e] = a}

\* GET statement with from and pageSize, as DashboardService asks for it.
RecentStatement(a) == Newest(DashboardPage, {e \in Of(a) : DayOf[e] >= Today - Window})

\* Mutant: the cursor's own entry is on the next page again.
BelowInclusive(c) == {e \in Of(Acc) : c = 0 \/ e <= c}

\* Keyset pagination: what follows the cursor.
Below(c) == {e \in Of(Acc) : c = 0 \/ e < c}

\* The page after cursor c.
PageAfter(c) ==
    LET es == Newest(StatementPage, Below(c))
    IN  [es |-> es, next |-> IF Below(c) = es THEN 0 ELSE Min(es)]

Post(e) ==
    /\ e \notin posted
    /\ posted' = posted \cup {e}
    /\ UNCHANGED <<route, dash, stmt, told, unseen>>

-------------------------------------------------------------------------------
(* The query client *)

\* Start a fetch (of the pages there are: see ReadStatement), or start it again.
Fetching(q, none) == [q EXCEPT !.fetch = "all", !.read = none, !.start = posted]

Cancelled(q, none) == [q EXCEPT !.fetch = "none", !.read = none]

\* invalidateQueries, for a query that is shown or not.
Invalidated(q, none, shown) ==
    LET i == [q EXCEPT !.invalid = TRUE]
    IN  IF shown /\ (q.fetch = "none" \/ q.loaded) THEN Fetching(i, none) ELSE i

\* A page is mounted: its query is fetched if there are no data, or stale ones
\* ("old": staleTime has passed).
Mounted(q, none, old) ==
    IF ~q.loaded \/ q.invalid \/ old THEN Fetching(q, none) ELSE q

\* The user goes to another page.
Navigate(to, old) ==
    /\ to # route
    /\ route' = to
    /\ dash' = LET d == Cancelled(dash, NoReads)
               IN  IF to = "dashboard" THEN Mounted(d, NoReads, old) ELSE d
    /\ stmt' = LET s == Cancelled(stmt, <<>>)
               IN  IF to = "statement" THEN Mounted(s, <<>>, old) ELSE s
    /\ UNCHANGED <<posted, told, unseen>>

\* The window gets the focus, and stale data are fetched again.
Focus ==
    \/ /\ route = "dashboard"
       /\ dash.fetch = "none"
       /\ dash' = Fetching(dash, NoReads)
       /\ UNCHANGED <<posted, route, stmt, told, unseen>>
    \/ /\ route = "statement"
       /\ stmt.fetch = "none"
       /\ stmt' = Fetching(stmt, <<>>)
       /\ UNCHANGED <<posted, route, dash, told, unseen>>

-------------------------------------------------------------------------------
(* useTransactionNotifications *)

\* Mutants: one of the two queries is forgotten.
InvalidatesDashboardOnly(e) == {"dashboard"}
InvalidatesStatementOnly(e) == IF AccountOf[e] = Acc THEN {"statement"} ELSE {}

\* The queries a notification invalidates.
Invalidates(e) == {"dashboard"} \cup (IF AccountOf[e] = Acc THEN {"statement"} ELSE {})

\* A notification arrives.  A first fetch that is under way is not started again,
\* and its success makes the data count as fresh.
Announce(e) ==
    /\ e \in posted \ told
    /\ told' = told \cup {e}
    /\ dash' = IF "dashboard" \in Invalidates(e)
               THEN Invalidated(dash, NoReads, route = "dashboard") ELSE dash
    /\ stmt' = IF "statement" \in Invalidates(e)
               THEN Invalidated(stmt, <<>>, route = "statement") ELSE stmt
    /\ unseen' = [unseen EXCEPT
          !["dashboard"] = IF dash.fetch # "none" /\ ~dash.loaded THEN @ \cup {e} ELSE @,
          !["statement"] = IF stmt.fetch # "none" /\ ~stmt.loaded THEN @ \cup {e} ELSE @]
    /\ UNCHANGED <<posted, route>>

-------------------------------------------------------------------------------
(* The dashboard *)

\* One of the statements DashboardService asks for, or (allSettled) its failure.
ReadDashboard(a) ==
    /\ dash.fetch = "all"
    /\ dash.read[a] = Pending
    /\ \E r \in {RecentStatement(a), Degraded} : dash' = [dash EXCEPT !.read[a] = r]
    /\ UNCHANGED <<posted, route, stmt, told, unseen>>

\* The answer reaches the tab.
ShowDashboard ==
    /\ dash.fetch = "all"
    /\ \A a \in Accounts : dash.read[a] # Pending
    /\ dash' = [Cancelled(dash, NoReads) EXCEPT
                   !.loaded = TRUE, !.data = dash.read, !.since = dash.start,
                   !.invalid = FALSE]
    /\ UNCHANGED <<posted, route, stmt, told, unseen>>

\* The session, the profile or the accounts cannot be read, or the answer is lost:
\* the query is tried again (retry: 1), or gives up and keeps its old data.
FailDashboard ==
    /\ dash.fetch = "all"
    /\ \/ dash' = Fetching(dash, NoReads)
       \/ dash' = Cancelled(dash, NoReads)
    /\ UNCHANGED <<posted, route, stmt, told, unseen>>

\* entriesByAccount, over the accounts that are not degraded.
DashboardEntries == UNION {dash.data[a] : a \in {b \in Accounts : dash.data[b] # Degraded}}

\* Mutant: the entries are sorted the other way.
MergeOldestActivity(es, n) == {e \in es : Cardinality({f \in es : f < e}) < n}

\* mergeRecentActivity
MergeRecentActivity(es, n) == Newest(n, es)

IsDebit(e) == Amount[e] < 0

SpendDays == (Today - Window + 1)..Today

\* Mutant: credits are counted as well.
DailySpendOfAll(es, d) ==
    SumFunctionOnSet([e \in Entries |-> IF IsDebit(e) THEN -Amount[e] ELSE Amount[e]],
                     {e \in es : DayOf[e] = d})

\* dailySpend, for one day of the chart.
Debits(es, d) == {e \in es : IsDebit(e) /\ DayOf[e] = d}
Debited == [e \in Entries |-> -Amount[e]]
DailySpend(es, d) == SumFunctionOnSet(Debited, Debits(es, d))

-------------------------------------------------------------------------------
(* The statement *)

LastPage(pages) == pages[Len(pages)]

\* getNextPageParam (0 where it says undefined), and hasNextPage.
NextCursor(pages) == IF pages = <<>> THEN 0 ELSE LastPage(pages).next
HasNextPage == stmt.loaded /\ NextCursor(stmt.data) # 0

\* How many pages a fetch reads: as many as are shown, one for the first time, one
\* more for fetchNextPage.
Wanted == IF stmt.fetch = "more" \/ ~stmt.loaded THEN 1 ELSE Len(stmt.data)

ReadAll == Len(stmt.read) = Wanted \/ (stmt.read # <<>> /\ NextCursor(stmt.read) = 0)

\* The next page of the fetch is read.
ReadStatement ==
    /\ stmt.fetch # "none"
    /\ ~ReadAll
    /\ stmt' = [stmt EXCEPT !.read = Append(@,
          PageAfter(NextCursor(IF stmt.fetch = "more" THEN stmt.data ELSE @)))]
    /\ UNCHANGED <<posted, route, dash, told, unseen>>

\* The fetch succeeds, and the data count as fresh.
ShowStatement ==
    /\ stmt.fetch # "none"
    /\ ReadAll
    /\ stmt' = [Cancelled(stmt, <<>>) EXCEPT
                   !.loaded = TRUE, !.invalid = FALSE,
                   !.data = IF stmt.fetch = "more" THEN @ \o stmt.read ELSE stmt.read,
                   !.since = IF stmt.fetch = "more" THEN @ ELSE stmt.start]
    /\ UNCHANGED <<posted, route, dash, told, unseen>>

FailStatement ==
    /\ stmt.fetch # "none"
    /\ \/ stmt' = [stmt EXCEPT !.read = <<>>, !.start = posted]
       \/ stmt' = Cancelled(stmt, <<>>)
    /\ UNCHANGED <<posted, route, dash, told, unseen>>

\* The last row comes into view: fetchNextPage, unless it is under way.  It cancels
\* a fetch for fresh data, and its own success makes them count as fresh.
FetchNextPage ==
    /\ route = "statement"
    /\ HasNextPage
    /\ stmt.fetch # "more"
    /\ stmt' = [Fetching(stmt, <<>>) EXCEPT !.fetch = "more"]
    /\ unseen' = IF stmt.invalid
                 THEN [unseen EXCEPT !["statement"] = @ \cup told] ELSE unseen
    /\ UNCHANGED <<posted, route, dash, told>>

\* allEntries
StatementEntries == UNION {stmt.data[i].es : i \in DOMAIN stmt.data}

Next ==
    \/ \E e \in Entries : Post(e) \/ Announce(e)
    \/ \E to \in Routes, old \in BOOLEAN : Navigate(to, old)
    \/ Focus
    \/ \E a \in Accounts : ReadDashboard(a)
    \/ ShowDashboard
    \/ FailDashboard
    \/ ReadStatement
    \/ ShowStatement
    \/ FailStatement
    \/ FetchNextPage

Spec == Init /\ [][Next]_vars

-------------------------------------------------------------------------------
(* Properties *)

\* A dashboard that lacks an entry the tab was told of is known to be stale (it is
\* being fetched again, or will be when it is next shown), unless the notification
\* arrived during the very first fetch, the entry's account is degraded, or the
\* entry is not among those the page asks for.
DashboardFollowsNotifications ==
    \A e \in told \ unseen["dashboard"] :
        LET page == dash.data[AccountOf[e]]
        IN  dash.loaded /\ ~dash.invalid /\ page # Degraded
              => \/ e \in page
                 \/ DayOf[e] < Today - Window
                 \/ Cardinality({f \in page : f > e}) >= DashboardPage

\* The same for the statement, as far down as it is loaded; here fetchNextPage may
\* also have cancelled the fetch that would have shown the entry.
StatementFollowsNotifications ==
    \A e \in told \ unseen["statement"] :
        stmt.loaded /\ ~stmt.invalid /\ AccountOf[e] = Acc /\ e > NextCursor(stmt.data)
            => e \in StatementEntries

\* The pages of a statement fit together, however movements commit between their
\* requests: no entry is on two of them, and none that was there when the first was
\* asked for is missing between them.
StatementHasNoSeams ==
    /\ \A i, j \in DOMAIN stmt.data : i # j => stmt.data[i].es \cap stmt.data[j].es = {}
    /\ \A e \in stmt.since :
          stmt.loaded /\ AccountOf[e] = Acc /\ e > NextCursor(stmt.data)
              => e \in StatementEntries

\* Of what was posted when the dashboard was asked for, only entries older than all
\* that are shown are left out of the recent activity (mergeRecentActivity, over one
\* page per account).
RecentIsNewest ==
    LET recent == MergeRecentActivity(DashboardEntries, Limit)
    IN  dash.loaded =>
          \A e \in dash.since :
              \/ e \in recent
              \/ Cardinality({f \in recent : f > e}) = Limit
              \/ dash.data[AccountOf[e]] = Degraded
              \/ DayOf[e] < Today - Window

\* The chart adds up every debit of the window that was posted when the dashboard
\* was asked for, and nothing that is not one: unless an account is degraded, or has
\* more entries in the window than the one page that is asked for.
SpendIsTotal ==
    LET fits(a) == /\ dash.data[a] # Degraded
                   /\ Cardinality(dash.data[a]) < DashboardPage
        debits(es, d) == {e \in es : Amount[e] < 0 /\ DayOf[e] = d}
        total(es) == SumFunctionOnSet([e \in es |-> -Amount[e]], es)
    IN  dash.loaded /\ (\A a \in Accounts : fits(a)) =>
          \A d \in SpendDays :
              /\ DailySpend(DashboardEntries, d) >= total(debits(dash.since, d))
              /\ DailySpend(DashboardEntries, d) <= total(debits(posted, d))

===============================================================================
