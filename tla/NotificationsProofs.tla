-------------------------- MODULE NotificationsProofs --------------------------
(***************************************************************************)
(* What the poller guarantees for any number of tabs, accounts, entries    *)
(* and overlapping tasks, and for any page size.                           *)
(***************************************************************************)
EXTENDS Notifications, FunctionTheorems, FiniteSetTheorems, TLAPS

\* A task that runs belongs to a poller.
TasksOwned ==
    \A t \in Tasks : IF task[t].kind = "free" THEN task[t] = Free ELSE task[t].on \in Pollers

\* A poller that has not been started has nothing running, and has seen nothing.
NewIsFresh ==
    \A p \in Pollers : timer[p] = "new" =>
        /\ \A t \in Tasks : task[t].on # p
        /\ \A a \in Accounts : seen[p][a] = 0

\* What has been seen, fetched, announced and owed is in the backend.
KnownIsPosted ==
    /\ IsFiniteSet(posted)
    /\ \A p \in Pollers, a \in Accounts : seen[p][a] = 0 \/ seen[p][a] \in Statement(a)
    /\ \A t \in Tasks, a \in Accounts :
          task[t].page[a] # None => task[t].page[a] \subseteq Statement(a)
    /\ \A x \in Tabs : told[x] \subseteq posted

\* A tab is owed entries of accounts its poller has seen.
OwedWhileConnected ==
    \A x \in Tabs : \A e \in owed[x] :
        tab[x] # None /\ e \in posted /\ seen[tab[x]][AccountOf[e]] # 0

\* The tasks of a poller have not overlapped as long as it has had one at a time.
OneTask ==
    \A t, u \in Tasks : task[t].on = task[u].on /\ task[t].on \in Pollers \ overlapped => t = u

\* The page of such a task is not older than what the poller has seen.
PageFits ==
    \A t \in Tasks, a \in Accounts :
        LET p == task[t].on
            page == task[t].page[a]
        IN  p \in Pollers \ overlapped /\ page # None /\ seen[p][a] # 0 =>
                seen[p][a] \in page \/ \A e \in page : e > seen[p][a]

\* What a tab has been told of is not newer than what the running poller has seen, or
\* is about to see.
ToldIsSeen ==
    \A p \in Pollers \ overlapped, x \in Tabs : timer[p] = "running" =>
        \A e \in told[x] :
            /\ seen[p][AccountOf[e]] # 0 => e <= seen[p][AccountOf[e]]
            /\ \A t \in Tasks :
                  task[t].on = p /\ task[t].page[AccountOf[e]] # None =>
                      \E f \in task[t].page[AccountOf[e]] : e <= f

\* The page of a poll has all entries down to its oldest, apart from those that have
\* committed behind a newer one since, and is full if there are more.
PageHasAll ==
    \A t \in Tasks, a \in Accounts :
        LET page == task[t].page[a]
        IN  task[t].kind = "poll" /\ page # None =>
              \A e \in Statement(a) \ excused :
                  \/ e \in page
                  \/ \A f \in page : f < e
                  \/ Cardinality(page) = PageSize /\ \A f \in page : e < f

\* The inductive invariant: what the session's poller counts, what its tasks carry, and
\* what it has announced.
TasksInv == TasksOwned /\ NewIsFresh /\ KnownIsPosted
ToldInv == OneTask /\ PageFits /\ ToldIsSeen /\ ToldTwiceNeedsOverlap
OwedInv == OwedWhileConnected /\ PageHasAll /\ NothingPassedOver
IInv == TypeOK /\ OnePollLoop /\ TasksInv /\ ToldInv /\ OwedInv

-------------------------------------------------------------------------------
(* Finite sets of entries *)

\* How many entries of a set are newer than one.
Newer(S, e) == {f \in S : f > e}
Rank(S) == [e \in S |-> Cardinality(Newer(S, e))]

\* The entries of a finite set have the ranks from 0 on, each one of them.
LEMMA RankIsOnto ==
    ASSUME NEW S \in SUBSET Nat, IsFiniteSet(S)
    PROVE  /\ Cardinality(S) \in Nat
           /\ \A e \in S : Rank(S)[e] = Cardinality(Newer(S, e))
           /\ \A e \in S : Rank(S)[e] \in 0..(Cardinality(S) - 1)
           /\ \A e, f \in S : e < f => Rank(S)[f] < Rank(S)[e]
           /\ \A n \in 0..(Cardinality(S) - 1) : \E e \in S : Rank(S)[e] = n
<1> DEFINE m == Cardinality(S)
           T == 0..(m - 1)
<1>0. \A e \in S : e \in Nat
  OBVIOUS
<1>1. m \in Nat
  BY FS_CardinalityType
<1>2. IsFiniteSet(T) /\ Cardinality(T) = m
  <2> HIDE DEF m
  <2>1. /\ IsFiniteSet(0..(m - 1))
        /\ Cardinality(0..(m - 1)) = IF 0 > m - 1 THEN 0 ELSE (m - 1) - 0 + 1
    BY <1>1, FS_Interval
  <2> QED
    BY <1>1, <2>1
<1>3. ASSUME NEW e \in S
      PROVE  /\ IsFiniteSet(Newer(S, e)) /\ Cardinality(Newer(S, e)) \in 0..(m - 1)
             /\ Rank(S)[e] = Cardinality(Newer(S, e))
  <2>1. Newer(S, e) \in SUBSET (S \ {e})
    BY DEF Newer
  <2>2. IsFiniteSet(S \ {e}) /\ Cardinality(S \ {e}) = m - 1
    BY FS_RemoveElement
  <2>3. IsFiniteSet(Newer(S, e)) /\ Cardinality(Newer(S, e)) <= m - 1
    BY <2>1, <2>2, FS_Subset
  <2> QED
    BY <1>1, <2>3, FS_CardinalityType DEF Rank
<1>4. ASSUME NEW e \in S, NEW f \in S, e < f
      PROVE  Rank(S)[f] < Rank(S)[e]
  <2>1. Newer(S, f) \in SUBSET (Newer(S, e) \ {f})
    <3>1. ASSUME NEW g \in Newer(S, f) PROVE g \in Newer(S, e) \ {f}
      <4>1. g \in S /\ g > f /\ g \in Nat /\ f \in Nat /\ e \in Nat
        BY <1>0 DEF Newer
      <4>2. g > e /\ g # f
        BY <1>4, <4>1
      <4> QED
        BY <4>1, <4>2 DEF Newer
    <3> QED
      BY <3>1
  <2>2. f \in Newer(S, e)
    BY <1>4 DEF Newer
  <2>3. /\ IsFiniteSet(Newer(S, e) \ {f})
        /\ Cardinality(Newer(S, e) \ {f}) = Cardinality(Newer(S, e)) - 1
    BY <1>3, <2>2, FS_RemoveElement
  <2>4. Cardinality(Newer(S, f)) <= Cardinality(Newer(S, e)) - 1
    BY <2>1, <2>3, FS_Subset
  <2> QED
    BY <1>1, <1>3, <2>4
<1>5. Rank(S) \in [S -> T]
  BY <1>3 DEF Rank
<1>6. \A e, f \in S : Rank(S)[e] = Rank(S)[f] => e = f
  <2> SUFFICES ASSUME NEW e \in S, NEW f \in S, Rank(S)[e] = Rank(S)[f], e # f
               PROVE  FALSE
    OBVIOUS
  <2>1. Rank(S)[e] \in Int /\ (e < f \/ f < e)
    BY <1>1, <1>3
  <2> QED
    BY <1>4, <2>1
<1>7. Rank(S) \in Injection(S, T)
  BY <1>5, <1>6, Fun_IsInj
<1>8. Rank(S) \in Surjection(S, T)
  BY <1>2, <1>7, FS_Injection
<1> QED
  BY <1>1, <1>3, <1>4, <1>8, Fun_SurjectionProperties

\* A finite set of entries has a newest and an oldest.
LEMMA MaxMin ==
    ASSUME NEW S \in SUBSET Nat, IsFiniteSet(S), S # {}
    PROVE  /\ Max(S) \in S /\ \A e \in S : e <= Max(S)
           /\ Min(S) \in S /\ \A e \in S : Min(S) <= e
<1>1. Cardinality(S) \in Nat \ {0}
  BY FS_CardinalityType, FS_EmptySet
<1>2. PICK x \in S : Rank(S)[x] = 0
  BY <1>1, RankIsOnto
<1>3. PICK y \in S : Rank(S)[y] = Cardinality(S) - 1
  BY <1>1, RankIsOnto
<1>4. ASSUME NEW e \in S PROVE e <= x /\ y <= e
  <2>1. Rank(S)[e] \in 0..(Cardinality(S) - 1)
    BY RankIsOnto
  <2>2. ~(x < e) /\ ~(e < y)
    BY <1>1, <1>2, <1>3, <2>1, RankIsOnto
  <2> QED
    BY <2>2
<1>5. \E z \in S : \A e \in S : z >= e
  BY <1>4
<1>6. \E z \in S : \A e \in S : z =< e
  BY <1>4
<1>7. Max(S) \in S /\ \A e \in S : Max(S) >= e
  BY <1>5 DEF Max
<1>8. Min(S) \in S /\ \A e \in S : Min(S) =< e
  BY <1>6 DEF Min
<1> QED
  BY <1>7, <1>8

\* The first page of a statement: what is left out is older than all of it, and the
\* page is full if anything is.
LEMMA PageIsNewest ==
    ASSUME TypeOK, IsFiniteSet(posted), NEW a \in Accounts, NEW n \in Nat \ {0}
    PROVE  /\ Page(a, n) \subseteq Statement(a)
           /\ Statement(a) # {} => Max(Statement(a)) \in Page(a, n)
           /\ \A e \in Statement(a) \ Page(a, n) :
                 Cardinality(Page(a, n)) = n /\ \A f \in Page(a, n) : e < f
<1> DEFINE S == Statement(a)
           P == Page(a, n)
<1>1. S \in SUBSET Nat /\ IsFiniteSet(S) /\ S \in SUBSET posted
  <2>1. S \in SUBSET posted /\ posted \in SUBSET Nat
    BY NotificationConstants DEF Statement, TypeOK
  <2> QED
    BY <2>1, FS_Subset
<1>2. P = {e \in S : Cardinality(Newer(S, e)) < n}
  BY DEF Page, Newer
<1> HIDE DEF S, P
<1>3. P = {e \in S : Rank(S)[e] < n}
  BY <1>1, <1>2, RankIsOnto
<1>4. S # {} => Max(S) \in P
  <2> SUFFICES ASSUME S # {} PROVE Max(S) \in P
    OBVIOUS
  <2>1. Max(S) \in S /\ \A e \in S : e <= Max(S)
    BY <1>1, MaxMin
  <2>2. ASSUME NEW e \in Newer(S, Max(S)) PROVE FALSE
    <3>1. e \in S /\ e > Max(S) /\ e <= Max(S) /\ e \in Nat /\ Max(S) \in Nat
      BY <1>1, <2>1 DEF Newer
    <3> QED
      BY <3>1
  <2>3. Newer(S, Max(S)) = {}
    BY <2>2
  <2>4. Cardinality(Newer(S, Max(S))) = 0
    BY <2>3, FS_EmptySet
  <2> QED
    BY <1>2, <2>1, <2>4
<1>5. ASSUME NEW e \in S \ P, NEW f \in P
      PROVE  e < f
  <2>1. e \in S /\ f \in S /\ Rank(S)[f] < n /\ ~(Rank(S)[e] < n)
    BY <1>3
  <2>2. e \in Nat /\ f \in Nat /\ Rank(S)[e] \in Nat /\ Rank(S)[f] \in Nat
    BY <1>1, <2>1, RankIsOnto
  <2>3. e # f /\ ~(f < e)
    BY <1>1, <2>1, <2>2, RankIsOnto
  <2> QED
    BY <2>2, <2>3
<1>6. ASSUME NEW e \in S \ P
      PROVE  Cardinality(P) = n
  <2> DEFINE R == [f \in P |-> Rank(S)[f]]
             T == 0..(n - 1)
  <2>1. IsFiniteSet(T) /\ Cardinality(T) = n
    BY FS_Interval
  <2>2. Cardinality(S) \in Nat /\ Rank(S)[e] \in 0..(Cardinality(S) - 1) /\ n <= Rank(S)[e]
    BY <1>1, <1>3, RankIsOnto
  <2>3. \A f \in P : f \in S /\ Rank(S)[f] \in T
    BY <1>1, <1>3, RankIsOnto
  <2>4. R \in [P -> T] /\ \A f \in P : R[f] = Rank(S)[f]
    BY <2>3
  <2>5. \A f, g \in P : R[f] = R[g] => f = g
    <3> SUFFICES ASSUME NEW f \in P, NEW g \in P, Rank(S)[f] = Rank(S)[g], f # g
                 PROVE  FALSE
      BY <2>4
    <3>1. f \in S /\ g \in S /\ Rank(S)[f] \in Int
      BY <2>3
    <3>2. f \in Nat /\ g \in Nat
      BY <1>1, <3>1
    <3> QED
      BY <1>1, <3>1, <3>2, RankIsOnto
  <2>6. \A k \in T : \E f \in P : R[f] = k
    <3> SUFFICES ASSUME NEW k \in T PROVE \E f \in P : R[f] = k
      OBVIOUS
    <3>1. k \in 0..(Cardinality(S) - 1) /\ k < n
      BY <2>2
    <3>2. PICK f \in S : Rank(S)[f] = k
      BY <1>1, <3>1, RankIsOnto
    <3> QED
      BY <1>3, <2>4, <3>1, <3>2
  <2>7. R \in Injection(P, T) /\ R \in Surjection(P, T)
    BY <2>4, <2>5, <2>6, Fun_IsInj, Fun_IsSurj
  <2> QED
    BY <2>1, <2>7, FS_Injection
<1> QED
  BY <1>2, <1>4, <1>5, <1>6 DEF S, P

-------------------------------------------------------------------------------
(* Tasks *)

\* A task that does not run carries nothing.
LEMMA FreeIs ==
    /\ Free \in TaskStates /\ Free.kind = "free" /\ Free.on = None
    /\ \A a \in Accounts : Free.page[a] = None
<1>1. NoPages \in [Accounts -> (SUBSET Entries) \cup {None}] /\ \A a \in Accounts : NoPages[a] = None
  BY DEF NoPages
<1> QED
  BY <1>1 DEF Free, TaskStates

\* A task that is started carries nothing yet.
LEMMA TaskIs ==
    ASSUME NEW k \in {"seed", "poll"}, NEW p \in Pollers
    PROVE  /\ Task(k, p) \in TaskStates /\ Task(k, p).kind = k /\ Task(k, p).on = p
           /\ \A a \in Accounts : Task(k, p).page[a] = None
<1>1. NoPages \in [Accounts -> (SUBSET Entries) \cup {None}] /\ \A a \in Accounts : NoPages[a] = None
  BY DEF NoPages
<1> QED
  BY <1>1 DEF Task, TaskStates

\* An account is done: the task ends, or goes on without it.
LEMMA WithoutIs ==
    ASSUME NEW k \in TaskStates, NEW a \in Accounts
    PROVE  /\ Without(k, a) \in TaskStates
           /\ \/ Without(k, a) = Free
              \/ /\ Without(k, a).kind = k.kind /\ Without(k, a).on = k.on
                 /\ \A b \in Accounts : Without(k, a).page[b] = IF b = a THEN None ELSE k.page[b]
<1>1. CASE k.todo = {a}
  BY <1>1, FreeIs DEF Without
<1>2. CASE k.todo # {a}
  <2> DEFINE w == [k EXCEPT !.todo = @ \ {a}, !.page[a] = None]
  <2>1. Without(k, a) = w
    BY <1>2 DEF Without
  <2>2. w \in TaskStates /\ w.kind = k.kind /\ w.on = k.on
    BY DEF TaskStates
  <2>3. \A b \in Accounts : w.page[b] = IF b = a THEN None ELSE k.page[b]
    BY DEF TaskStates
  <2> QED
    BY <2>1, <2>2, <2>3
<1> QED
  BY <1>1, <1>2

\* No task carries more than before.
Fewer ==
    \A t \in Tasks :
        \/ task'[t] = Free
        \/ /\ task'[t].kind = task[t].kind /\ task'[t].on = task[t].on /\ task[t].kind # "free"
           /\ \A a \in Accounts :
                 task'[t].page[a] = task[t].page[a] \/ task'[t].page[a] = None

\* What a task carries then, it has carried before.
LEMMA FewerKeeps ==
    ASSUME Fewer, TypeOK, TasksOwned
    PROVE  /\ TasksOwned'
           /\ \A t \in Tasks : task'[t].on # None => task'[t].on = task[t].on
           /\ \A t \in Tasks, a \in Accounts : task'[t].page[a] # None =>
                 /\ task'[t].page[a] = task[t].page[a] /\ task'[t].on = task[t].on
                 /\ task'[t].kind = task[t].kind
BY FreeIs DEF Fewer, TasksOwned

\* The tasks are left alone.
LEMMA SameTasks == TasksOwned /\ task' = task => Fewer
BY DEF TasksOwned, Fewer

-------------------------------------------------------------------------------
(* The poll loop *)

Subscribers(p) == {x \in Tabs : tab[x] = p}

\* What OnePollLoop says of one poller.
Looped(p) ==
    /\ refCount[p] = Cardinality(Subscribers(p)) + closing[p]
    /\ timer[p] = "running" <=> poller = p
    /\ timer[p] = "running" <=> refCount[p] > 0

\* OnePollLoop, poller by poller.
LEMMA LoopIs == OnePollLoop <=> \A p \in Pollers : Looped(p)
BY DEF OnePollLoop, Looped, Subscribers

\* A tab is connected to the running poller of the session only.
LEMMA Connected ==
    ASSUME TypeOK, OnePollLoop, NEW x \in Tabs, tab[x] # None
    PROVE  /\ tab[x] \in Pollers /\ poller = tab[x]
           /\ timer[tab[x]] = "running" /\ refCount[tab[x]] > 0
<1> DEFINE p == tab[x]
<1>1. p \in Pollers
  BY DEF TypeOK
<1>2. Subscribers(p) \in SUBSET Tabs /\ IsFiniteSet(Subscribers(p)) /\ x \in Subscribers(p)
  BY NotificationConstants, FS_Subset DEF Subscribers
<1>3. Cardinality(Subscribers(p)) \in Nat \ {0}
  BY <1>2, FS_CardinalityType, FS_EmptySet
<1>4. refCount[p] = Cardinality(Subscribers(p)) + closing[p] /\ closing[p] \in Nat
  BY <1>1, LoopIs DEF Looped, TypeOK
<1> QED
  BY <1>1, <1>3, <1>4, LoopIs DEF Looped

\* The count of the subscribers as connections come and go.
LEMMA SubscribersCounted ==
    ASSUME TypeOK, NEW x \in Tabs, NEW q \in Pollers \cup {None}, tab' = [tab EXCEPT ![x] = q],
           q # tab[x]
    PROVE  \A p \in Pollers :
              /\ Cardinality(Subscribers(p)) \in Nat
              /\ Cardinality(Subscribers(p)') =
                    IF p = q THEN Cardinality(Subscribers(p)) + 1
                    ELSE IF p = tab[x] THEN Cardinality(Subscribers(p)) - 1
                    ELSE Cardinality(Subscribers(p))
<1> SUFFICES ASSUME NEW p \in Pollers
             PROVE  /\ Cardinality(Subscribers(p)) \in Nat
                    /\ Cardinality(Subscribers(p)') =
                          IF p = q THEN Cardinality(Subscribers(p)) + 1
                          ELSE IF p = tab[x] THEN Cardinality(Subscribers(p)) - 1
                          ELSE Cardinality(Subscribers(p))
  OBVIOUS
<1>1. Subscribers(p) \in SUBSET Tabs /\ IsFiniteSet(Subscribers(p))
  BY NotificationConstants, FS_Subset DEF Subscribers
<1>2. Subscribers(p)' = IF p = q THEN Subscribers(p) \cup {x}
                        ELSE IF p = tab[x] THEN Subscribers(p) \ {x}
                        ELSE Subscribers(p)
  BY DEF Subscribers, TypeOK
<1>3. x \in Subscribers(p) <=> p = tab[x]
  BY DEF Subscribers
<1>4. Cardinality(Subscribers(p)) \in Nat
  BY <1>1, FS_CardinalityType
<1>5. p # tab[x] => Cardinality(Subscribers(p) \cup {x}) = Cardinality(Subscribers(p)) + 1
  BY <1>1, <1>3, FS_AddElement
<1>6. p = tab[x] => Cardinality(Subscribers(p) \ {x}) = Cardinality(Subscribers(p)) - 1
  BY <1>1, <1>3, FS_RemoveElement
<1> QED
  BY <1>2, <1>4, <1>5, <1>6

\* The poll loop stays one.
LEMMA LoopKept ==
    ASSUME TypeOK, OnePollLoop, UNCHANGED <<pollerState, clients>>
    PROVE  OnePollLoop'
BY DEF OnePollLoop, pollerState, clients

\* A connection is made.
LEMMA SubscribeLoop ==
    ASSUME IInv, NEW x \in Tabs, Subscribe(x)
    PROVE  OnePollLoop'
<1> USE DEF IInv
<1>1. tab[x] = None /\ closing' = closing
  BY DEF Subscribe
<1>2. CASE poller # None /\ tab' = [tab EXCEPT ![x] = poller]
  <2>1. /\ poller \in Pollers /\ poller' = poller /\ timer' = timer
        /\ refCount' = [refCount EXCEPT ![poller] = @ + 1]
    BY <1>2 DEF Subscribe, TypeOK
  <2>2. timer[poller] = "running" /\ refCount[poller] > 0
    BY <2>1, LoopIs DEF Looped
  <2>3. ASSUME NEW p \in Pollers
        PROVE  /\ refCount'[p] = Cardinality(Subscribers(p)') + closing'[p]
               /\ (timer'[p] = "running" <=> refCount'[p] > 0)
    <3>1. Cardinality(Subscribers(p)) \in Nat /\ closing[p] \in Nat /\ refCount[p] \in Nat
      BY <1>1, <1>2, <2>1, SubscribersCounted DEF TypeOK
    <3>2. Cardinality(Subscribers(p)') = IF p = poller THEN Cardinality(Subscribers(p)) + 1
                                         ELSE Cardinality(Subscribers(p))
      BY <1>1, <1>2, <2>1, NotificationConstants, SubscribersCounted
    <3>3. refCount[p] = Cardinality(Subscribers(p)) + closing[p]
      BY LoopIs DEF Looped
    <3>4. refCount'[p] = IF p = poller THEN refCount[p] + 1 ELSE refCount[p]
      BY <2>1 DEF TypeOK
    <3> QED
      BY <1>1, <2>1, <2>2, <3>1, <3>2, <3>3, <3>4, LoopIs DEF Looped
  <2> QED
    BY <2>1, <2>3 DEF OnePollLoop, Subscribers
<1>3. CASE poller = None
  <2>1. PICK q \in Pollers : /\ timer[q] = "new" /\ poller' = q
                             /\ timer' = [timer EXCEPT ![q] = "running"]
                             /\ refCount' = [refCount EXCEPT ![q] = 1]
                             /\ tab' = [tab EXCEPT ![x] = q]
    BY <1>3 DEF Subscribe
  <2>2. ASSUME NEW p \in Pollers
        PROVE  /\ refCount'[p] = Cardinality(Subscribers(p)') + closing'[p]
               /\ (timer'[p] = "running" <=> poller' = p)
               /\ (timer'[p] = "running" <=> refCount'[p] > 0)
    <3>1. Cardinality(Subscribers(p)) \in Nat /\ closing[p] \in Nat /\ refCount[p] \in Nat
      BY <1>1, <2>1, NotificationConstants, SubscribersCounted DEF TypeOK
    <3>2. Cardinality(Subscribers(p)') = IF p = q THEN Cardinality(Subscribers(p)) + 1
                                         ELSE Cardinality(Subscribers(p))
      BY <1>1, <2>1, NotificationConstants, SubscribersCounted
    <3>3. refCount[p] = Cardinality(Subscribers(p)) + closing[p]
      BY LoopIs DEF Looped
    <3>4. timer[p] # "running" /\ refCount[p] = 0
      BY <1>3, <3>1, NotificationConstants, LoopIs DEF Looped
    <3>5. /\ refCount'[p] = IF p = q THEN 1 ELSE refCount[p]
          /\ timer'[p] = IF p = q THEN "running" ELSE timer[p]
      BY <2>1 DEF TypeOK
    <3> QED
      BY <1>1, <2>1, <3>1, <3>2, <3>3, <3>4, <3>5
  <2> QED
    BY <2>2 DEF OnePollLoop, Subscribers
<1> QED
  BY <1>2, <1>3 DEF Subscribe

\* The server notices that a connection is closed.
LEMMA TeardownLoop ==
    ASSUME IInv, NEW p \in Pollers, Teardown(p)
    PROVE  OnePollLoop'
<1> USE DEF IInv
<1>1. /\ closing[p] > 0 /\ closing' = [closing EXCEPT ![p] = @ - 1]
      /\ refCount' = [refCount EXCEPT ![p] = @ - 1] /\ tab' = tab
  BY DEF Teardown
<1>2. \A q \in Pollers : /\ Cardinality(Subscribers(q)) \in Nat
                         /\ closing[q] \in Nat /\ refCount[q] \in Nat
                         /\ refCount[q] = Cardinality(Subscribers(q)) + closing[q]
  <2>1. \A q \in Pollers : Subscribers(q) \in SUBSET Tabs
    BY DEF Subscribers
  <2> QED
    BY <2>1, NotificationConstants, FS_Subset, FS_CardinalityType, LoopIs DEF TypeOK, Looped
<1>3. refCount[p] > 0 /\ timer[p] = "running" /\ poller = p
  BY <1>1, <1>2, LoopIs DEF Looped
<1>4. ASSUME NEW q \in Pollers
      PROVE  /\ refCount'[q] = Cardinality(Subscribers(q)) + closing'[q]
             /\ (timer'[q] = "running" <=> poller' = q)
             /\ (timer'[q] = "running" <=> refCount'[q] > 0)
  <2>1. /\ refCount'[q] = IF q = p THEN refCount[q] - 1 ELSE refCount[q]
        /\ closing'[q] = IF q = p THEN closing[q] - 1 ELSE closing[q]
    BY <1>1 DEF TypeOK
  <2>2. CASE refCount[p] <= 1
    <3>1. timer' = [timer EXCEPT ![p] = "cleared"] /\ poller' = None
      BY <2>2 DEF Teardown, IsLast
    <3>2. timer'[q] = IF q = p THEN "cleared" ELSE timer[q]
      BY <3>1 DEF TypeOK
    <3>3. q # p => timer[q] # "running" /\ refCount[q] = 0
      BY <1>2, <1>3, LoopIs DEF Looped
    <3> QED
      BY <1>1, <1>2, <1>3, <2>1, <2>2, <3>1, <3>2, <3>3, NotificationConstants
  <2>3. CASE ~(refCount[p] <= 1)
    <3>1. timer' = timer /\ poller' = poller
      BY <2>3 DEF Teardown, IsLast
    <3> QED
      BY <1>1, <1>2, <1>3, <2>1, <2>3, <3>1, LoopIs DEF Looped
  <2> QED
    BY <2>2, <2>3
<1> QED
  BY <1>1, <1>4 DEF OnePollLoop, Subscribers

\* A connection breaks.
LEMMA DisconnectLoop ==
    ASSUME IInv, NEW x \in Tabs, Disconnect(x)
    PROVE  OnePollLoop'
<1> USE DEF IInv
<1>1. /\ tab[x] # None /\ closing' = [closing EXCEPT ![tab[x]] = @ + 1]
      /\ tab' = [tab EXCEPT ![x] = None] /\ UNCHANGED pollerState
  BY DEF Disconnect
<1>2. ASSUME NEW p \in Pollers
      PROVE  refCount[p] = Cardinality(Subscribers(p)') + closing'[p]
  <2>1. Cardinality(Subscribers(p)) \in Nat /\ closing[p] \in Nat
    BY <1>1, SubscribersCounted DEF TypeOK
  <2>2. Cardinality(Subscribers(p)') = IF p = tab[x] THEN Cardinality(Subscribers(p)) - 1
                                       ELSE Cardinality(Subscribers(p))
    BY <1>1, NotificationConstants, SubscribersCounted
  <2>3. closing'[p] = IF p = tab[x] THEN closing[p] + 1 ELSE closing[p]
    BY <1>1 DEF TypeOK
  <2>4. refCount[p] = Cardinality(Subscribers(p)) + closing[p]
    BY LoopIs DEF Looped
  <2> QED
    BY <2>1, <2>2, <2>3, <2>4
<1> QED
  BY <1>1, <1>2 DEF OnePollLoop, Subscribers, pollerState

-------------------------------------------------------------------------------
(* A task handles a page *)

\* A page is of a task that runs, and a finite part of the statement.
LEMMA PageIsPosted ==
    ASSUME TypeOK, TasksInv, NEW t \in Tasks, NEW a \in Accounts, task[t].page[a] # None
    PROVE  /\ task[t].kind \in {"seed", "poll"} /\ task[t].on \in Pollers
           /\ task[t].page[a] \in SUBSET Statement(a)
           /\ task[t].page[a] \in SUBSET Nat /\ task[t].page[a] \in SUBSET Entries
           /\ IsFiniteSet(task[t].page[a])
           /\ timer[task[t].on] # "new"
<1>1. task[t].kind # "free"
  BY FreeIs DEF TasksInv, TasksOwned
<1>2. task[t].kind \in {"free", "seed", "poll"}
  BY DEF TypeOK, TaskStates
<1>3. task[t].on \in Pollers
  BY <1>1 DEF TasksInv, TasksOwned
<1>4. task[t].page[a] \in SUBSET Statement(a)
  BY DEF TasksInv, KnownIsPosted
<1>5. task[t].page[a] \in SUBSET posted
  BY <1>4 DEF Statement
<1>6. IsFiniteSet(task[t].page[a])
  BY <1>5, FS_Subset DEF TasksInv, KnownIsPosted
<1> QED
  BY <1>1, <1>2, <1>3, <1>4, <1>5, <1>6, NotificationConstants
  DEF TasksInv, NewIsFresh, TypeOK

\* The entry remembered is the newest of the page, or the one before.
LEMMA RememberedIs ==
    ASSUME TypeOK, TasksInv, NEW t \in Tasks, NEW a \in Accounts, task[t].page[a] # None
    PROVE  LET page == task[t].page[a]
               last == seen[task[t].on][a]
               r == Remembered(page, last)
           IN  /\ last \in Nat /\ r \in Nat
               /\ r = 0 \/ r \in Statement(a)
               /\ r \in Entries \cup {0}
               /\ last # 0 => r # 0
               /\ page = {} => r = last
               /\ page # {} => r = Max(page) /\ \A e \in page : e <= r
<1> DEFINE page == task[t].page[a]
           last == seen[task[t].on][a]
<1>1. /\ page \in SUBSET Nat /\ IsFiniteSet(page) /\ page \in SUBSET Statement(a)
      /\ page \in SUBSET Entries /\ task[t].on \in Pollers
  BY PageIsPosted
<1>2. last = 0 \/ last \in Statement(a)
  BY <1>1 DEF TasksInv, KnownIsPosted
<1>3. last \in Entries \cup {0}
  BY <1>1 DEF TypeOK
<1>4. Entries \subseteq Nat \ {0}
  BY NotificationConstants
<1> DEFINE r == Remembered(page, last)
<1> HIDE DEF page, last
<1>5. page = {} => r = last
  BY DEF Remembered
<1>6. page # {} => r = Max(page) /\ r \in page /\ \A e \in page : e <= r
  <2> SUFFICES ASSUME page # {} PROVE r = Max(page) /\ r \in page /\ \A e \in page : e <= r
    OBVIOUS
  <2>1. Max(page) \in page /\ \A e \in page : e <= Max(page)
    BY <1>1, MaxMin
  <2>2. r = Max(page)
    BY DEF Remembered
  <2> QED
    BY <2>1, <2>2
<1> HIDE DEF r
<1>7. /\ last \in Nat /\ r \in Nat
      /\ r = 0 \/ r \in Statement(a)
      /\ r \in Entries \cup {0}
      /\ last # 0 => r # 0
  <2>1. CASE page = {}
    BY <1>2, <1>3, <1>4, <1>5, <2>1
  <2>2. CASE page # {}
    <3>1. r \in page
      BY <1>6, <2>2
    <3>2. r \in Statement(a) /\ r \in Entries
      BY <1>1, <3>1
    <3> QED
      BY <1>3, <1>4, <3>2
  <2> QED
    BY <2>1, <2>2
<1> QED
  BY <1>5, <1>6, <1>7 DEF page, last, r

\* A task handles the page of an account, and may announce what is on it.
Handled(t, a) ==
    LET p == task[t].on
        page == task[t].page[a]
    IN  /\ page # None
        /\ task' = [task EXCEPT ![t] = Without(task[t], a)]
        /\ seen' = [seen EXCEPT ![p][a] = Remembered(page, @)]
        /\ told' \in [Tabs -> SUBSET Entries]
        /\ \A x \in Tabs : told'[x] \subseteq told[x] \/ (tab[x] = p /\ told'[x] \subseteq told[x] \cup page)
        /\ owed' \in [Tabs -> SUBSET Entries]
        /\ \A x \in Tabs : owed'[x] \subseteq owed[x]
        /\ excused \subseteq excused' /\ excused' \subseteq Entries
        /\ repeated' \in {repeated, repeated \cup {p}}
        /\ UNCHANGED <<posted, pollerState, clients, faults, overlapped>>

\* Both handlers do that.
LEMMA HandlersDo ==
    ASSUME IInv, NEW t \in Tasks, NEW a \in Accounts, HandleSeed(t, a) \/ HandlePage(t, a)
    PROVE  Handled(t, a)
<1> USE DEF IInv
<1>1. CASE HandleSeed(t, a)
  <2>1. excused' \subseteq Entries
    BY <1>1 DEF HandleSeed, TypeOK
  <2> QED
    BY <1>1, <2>1 DEF HandleSeed, Handled, TypeOK
<1>2. CASE HandlePage(t, a)
  <2> DEFINE p == task[t].on
             page == task[t].page[a]
             new == IF seen[p][a] # 0 THEN TakeUntilId(page, seen[p][a]) ELSE {}
  <2>1. page # None /\ excused \subseteq excused' /\ excused' \subseteq Entries
    BY <1>2 DEF HandlePage, TypeOK
  <2>2. page \in SUBSET Entries /\ p \in Pollers
    BY <2>1, PageIsPosted
  <2>3. new \in SUBSET page
    BY DEF TakeUntilId
  <2>4. /\ told' = [x \in Tabs |-> IF tab[x] = p THEN told[x] \cup new ELSE told[x]]
        /\ owed' = [x \in Tabs |-> IF tab[x] = p THEN owed[x] \ new ELSE owed[x]]
    BY <1>2 DEF HandlePage
  <2>5. /\ task' = [task EXCEPT ![t] = Without(task[t], a)]
        /\ seen' = [seen EXCEPT ![p][a] = Remembered(page, @)]
        /\ repeated' \in {repeated, repeated \cup {p}}
        /\ UNCHANGED <<posted, pollerState, clients, faults, overlapped>>
    BY <1>2, <2>2 DEF HandlePage, TypeOK
  <2> HIDE DEF new
  <2>6. told' \in [Tabs -> SUBSET Entries] /\ owed' \in [Tabs -> SUBSET Entries]
    BY <2>2, <2>3, <2>4 DEF TypeOK
  <2>7. \A x \in Tabs : /\ told'[x] \subseteq told[x] \/ (tab[x] = p /\ told'[x] \subseteq told[x] \cup page)
                        /\ owed'[x] \subseteq owed[x]
    BY <2>3, <2>4
  <2> QED
    BY <2>1, <2>5, <2>6, <2>7 DEF Handled
<1> QED
  BY <1>1, <1>2

\* What a handled page leaves of the tasks, and of what has been seen.
LEMMA HandledIs ==
    ASSUME IInv, NEW t \in Tasks, NEW a \in Accounts, Handled(t, a)
    PROVE  /\ task[t].on \in Pollers
           /\ Fewer /\ task' \in [Tasks -> TaskStates] /\ task'[t].page[a] = None
           /\ seen' \in [Pollers -> [Accounts -> Entries \cup {0}]]
           /\ \A p \in Pollers, b \in Accounts :
                 seen'[p][b] = IF p = task[t].on /\ b = a
                               THEN Remembered(task[t].page[a], seen[p][b]) ELSE seen[p][b]
<1> USE DEF IInv
<1>1. /\ task[t].page[a] # None /\ task' = [task EXCEPT ![t] = Without(task[t], a)]
      /\ seen' = [seen EXCEPT ![task[t].on][a] = Remembered(task[t].page[a], @)]
  BY DEF Handled
<1>2. task[t].on \in Pollers /\ task[t].kind # "free"
  BY <1>1, PageIsPosted
<1>3. task[t] \in TaskStates /\ Without(task[t], a) \in TaskStates
  BY WithoutIs DEF TypeOK
<1>4. /\ task' \in [Tasks -> TaskStates] /\ task'[t] = Without(task[t], a)
      /\ \A u \in Tasks \ {t} : task'[u] = task[u]
  BY <1>1, <1>3 DEF TypeOK
<1>5. task'[t].page[a] = None
  BY <1>3, <1>4, FreeIs, WithoutIs
<1>6. Fewer
  BY <1>2, <1>3, <1>4, WithoutIs DEF Fewer, TasksInv, TasksOwned
<1>7. Remembered(task[t].page[a], seen[task[t].on][a]) \in Entries \cup {0}
  BY <1>1, RememberedIs
<1>8. /\ seen' \in [Pollers -> [Accounts -> Entries \cup {0}]]
      /\ \A p \in Pollers, b \in Accounts :
            seen'[p][b] = IF p = task[t].on /\ b = a
                          THEN Remembered(task[t].page[a], seen[p][b]) ELSE seen[p][b]
  BY <1>1, <1>2, <1>7 DEF TypeOK
<1> QED
  BY <1>2, <1>4, <1>5, <1>6, <1>8

-------------------------------------------------------------------------------
(* What is kept *)

\* The pages that tasks carry, they have carried before.
Carried ==
    \A t \in Tasks, a \in Accounts : task'[t].page[a] # None =>
        /\ task'[t].page[a] = task[t].page[a] /\ task'[t].on = task[t].on
        /\ task'[t].kind = task[t].kind

\* A task starts without pages.
LEMMA StartCarries ==
    ASSUME TypeOK, NEW t \in Tasks, NEW k \in {"seed", "poll"}, NEW p \in Pollers,
           task' = [task EXCEPT ![t] = Task(k, p)]
    PROVE  /\ Carried /\ task' \in [Tasks -> TaskStates]
           /\ task'[t].on = p /\ task'[t].kind = k
           /\ \A u \in Tasks \ {t} : task'[u] = task[u]
<1>1. /\ task'[t] = Task(k, p) /\ task' \in [Tasks -> TaskStates]
      /\ \A u \in Tasks \ {t} : task'[u] = task[u]
  BY TaskIs DEF TypeOK
<1> QED
  BY <1>1, TaskIs DEF Carried

\* What a poller has announced and seen, when it announces nothing.
LEMMA ToldKept ==
    ASSUME IInv, Carried, UNCHANGED <<seen, told, repeated>>, overlapped \subseteq overlapped',
           \A p \in Pollers : timer'[p] = "running" => timer[p] \in {"new", "running"}
    PROVE  PageFits' /\ ToldIsSeen' /\ ToldTwiceNeedsOverlap'
<1> USE DEF IInv, ToldInv
<1>1. PageFits'
  BY DEF PageFits, Carried
<1>2. ToldIsSeen'
  <2> SUFFICES ASSUME NEW p \in Pollers, p \notin overlapped, timer'[p] = "running",
                      NEW x \in Tabs, NEW e \in told[x]
               PROVE  /\ seen[p][AccountOf[e]] # 0 => e <= seen[p][AccountOf[e]]
                      /\ \A t \in Tasks :
                            task'[t].on = p /\ task'[t].page[AccountOf[e]] # None =>
                                \E f \in task'[t].page[AccountOf[e]] : e <= f
    BY DEF ToldIsSeen
  <2>1. AccountOf[e] \in Accounts
    BY NotificationConstants DEF TypeOK
  <2>2. CASE timer[p] = "running"
    BY <2>1, <2>2 DEF ToldIsSeen, Carried
  <2>3. CASE timer[p] = "new"
    BY <2>1, <2>3 DEF TasksInv, NewIsFresh, Carried
  <2> QED
    BY <2>2, <2>3
<1>3. ToldTwiceNeedsOverlap'
  BY DEF ToldTwiceNeedsOverlap
<1> QED
  BY <1>1, <1>2, <1>3

\* What is owed, when nothing is posted, seen or asked for.
LEMMA OwedKept ==
    ASSUME IInv, Carried, UNCHANGED <<posted, seen, excused>>,
           \A x \in Tabs : owed'[x] = {} \/ (owed'[x] \subseteq owed[x] /\ tab'[x] = tab[x])
    PROVE  OwedInv'
<1> USE DEF IInv, OwedInv
<1>1. OwedWhileConnected'
  BY DEF OwedWhileConnected
<1>2. PageHasAll'
  BY DEF PageHasAll, Carried, Statement
<1>3. NothingPassedOver'
  BY DEF NothingPassedOver
<1> QED
  BY <1>1, <1>2, <1>3

\* What the tasks carry, when none is started.
LEMMA TasksKept ==
    ASSUME IInv, Fewer, UNCHANGED posted,
           \A p \in Pollers : timer'[p] = "new" =>
               timer[p] = "new" /\ \A a \in Accounts : seen'[p][a] = seen[p][a],
           \A p \in Pollers, a \in Accounts :
               seen'[p][a] \in {0, seen[p][a]} \/ seen'[p][a] \in Statement(a),
           \A x \in Tabs : told'[x] \subseteq posted
    PROVE  TasksInv' /\ Carried
<1> USE DEF IInv, TasksInv
<1>1. TasksOwned' /\ Carried
  BY FewerKeeps DEF Carried
<1>2. NewIsFresh'
  BY FewerKeeps, NotificationConstants DEF NewIsFresh
<1>3. KnownIsPosted'
  BY <1>1 DEF KnownIsPosted, Statement, Carried
<1> QED
  BY <1>1, <1>2, <1>3

\* The tasks of a poller stay one, when none is started.
LEMMA OneTaskKept ==
    ASSUME IInv, Fewer, overlapped \subseteq overlapped'
    PROVE  OneTask'
BY FewerKeeps, NotificationConstants DEF IInv, ToldInv, TasksInv, OneTask

-------------------------------------------------------------------------------
(* The actions *)

\* A movement commits: if it is newer than what is visible of its account, it is newer
\* than every page and than what any poller has seen.
LEMMA PostKeeps ==
    ASSUME IInv, NEW e \in Entries, Post(e)
    PROVE  IInv'
<1> USE DEF IInv
<1>1. /\ e \notin posted /\ posted' = posted \cup {e}
      /\ owed' = [x \in Tabs |-> IF tab[x] # None /\ seen[tab[x]][AccountOf[e]] # 0
                                 THEN owed[x] \cup {e} ELSE owed[x]]
      /\ excused' = IF \E f \in Statement(AccountOf[e]) : f > e THEN excused \cup {e} ELSE excused
      /\ UNCHANGED <<poller, refCount, timer, seen, task, tab, closing, faults, told,
                     overlapped, repeated>>
  BY DEF Post, pollerState, clients
<1>2. Entries \subseteq Nat \ {0} /\ AccountOf[e] \in Accounts
  BY NotificationConstants
<1>3. TypeOK'
  BY <1>1 DEF TypeOK
<1>4. OnePollLoop'
  BY <1>1, LoopKept DEF pollerState, clients
<1>5. \A a \in Accounts : /\ Statement(a) \subseteq Statement(a)'
                          /\ Statement(a)' = IF a = AccountOf[e] THEN Statement(a) \cup {e} ELSE Statement(a)
  BY <1>1 DEF Statement
<1>6. TasksInv'
  <2>1. IsFiniteSet(posted')
    BY <1>1, FS_AddElement DEF TasksInv, KnownIsPosted
  <2>2. KnownIsPosted'
    BY <1>1, <1>5, <2>1 DEF TasksInv, KnownIsPosted
  <2> QED
    BY <1>1, <2>2 DEF TasksInv, TasksOwned, NewIsFresh
<1>7. ToldInv'
  <2>1. Carried
    BY <1>1 DEF Carried
  <2>2. OneTask'
    BY <1>1 DEF ToldInv, OneTask
  <2> QED
    BY <1>1, <2>1, <2>2, ToldKept DEF ToldInv
<1>8. OwedInv'
  <2>1. ASSUME NEW f \in Statement(AccountOf[e]), e \notin excused'
        PROVE  f < e
    <3>1. f \in posted /\ f \in Nat /\ e \in Nat /\ f # e /\ ~(f > e)
      BY <1>1, <1>2, <2>1 DEF Statement, TypeOK
    <3> QED
      BY <3>1
  <2>2. OwedWhileConnected'
    BY <1>1 DEF OwedInv, OwedWhileConnected
  <2>3. PageHasAll'
    <3> SUFFICES ASSUME NEW t \in Tasks, NEW a \in Accounts,
                        task[t].kind = "poll", task[t].page[a] # None,
                        NEW g \in Statement(a)', g \notin excused'
                 PROVE  \/ g \in task[t].page[a]
                        \/ \A f \in task[t].page[a] : f < g
                        \/ Cardinality(task[t].page[a]) = PageSize /\ \A f \in task[t].page[a] : g < f
      BY <1>1 DEF PageHasAll
    <3>1. CASE g \in Statement(a)
      <4>1. g \notin excused
        BY <1>1
      <4> QED
        BY <3>1, <4>1 DEF OwedInv, PageHasAll
    <3>2. CASE g = e /\ a = AccountOf[e]
      <4>1. task[t].page[a] \subseteq Statement(a)
        BY DEF TasksInv, KnownIsPosted
      <4> QED
        BY <2>1, <3>2, <4>1
    <3> QED
      BY <1>5, <3>1, <3>2
  <2>4. NothingPassedOver'
    <3> SUFFICES ASSUME NEW x \in Tabs, NEW g \in owed'[x], g \notin excused'
                 PROVE  tab[x] # None /\ g > seen[tab[x]][AccountOf[g]]
      BY <1>1 DEF NothingPassedOver
    <3>1. CASE g \in owed[x]
      BY <1>1, <3>1 DEF OwedInv, NothingPassedOver
    <3>2. CASE g = e /\ tab[x] # None /\ seen[tab[x]][AccountOf[e]] # 0
      <4>1. tab[x] \in Pollers
        BY <3>2, Connected
      <4>2. seen[tab[x]][AccountOf[e]] \in Statement(AccountOf[e])
        BY <1>2, <3>2, <4>1 DEF TasksInv, KnownIsPosted
      <4>3. seen[tab[x]][AccountOf[e]] < e
        <5>1. e \notin excused'
          BY <3>2
        <5> QED
          BY <2>1, <4>2, <5>1
      <4>4. seen[tab[x]][AccountOf[e]] \in Nat /\ e \in Nat
        <5>1. seen[tab[x]][AccountOf[e]] \in Entries \cup {0}
          BY <1>2, <4>1 DEF TypeOK
        <5>2. \A g1 \in Entries \cup {0} : g1 \in Nat
          BY <1>2
        <5> QED
          BY <5>1, <5>2
      <4> QED
        BY <3>2, <4>3, <4>4
    <3> QED
      BY <1>1, <3>1, <3>2
  <2> QED
    BY <2>2, <2>3, <2>4 DEF OwedInv
<1> QED
  BY <1>3, <1>4, <1>6, <1>7, <1>8

\* A connection joins the poller of the session, or starts one, which has seen nothing.
LEMMA SubscribeKeeps ==
    ASSUME IInv, NEW x \in Tabs, Subscribe(x)
    PROVE  IInv'
<1> USE DEF IInv
<1>1. /\ tab[x] = None
      /\ UNCHANGED <<posted, seen, closing, faults, told, owed, excused, overlapped, repeated>>
  BY DEF Subscribe
<1>2. OnePollLoop'
  BY SubscribeLoop
<1>3. \A y \in Tabs : owed'[y] = {} \/ (owed'[y] \subseteq owed[y] /\ tab'[y] = tab[y])
  <2>1. owed[x] = {}
    BY <1>1 DEF OwedInv, OwedWhileConnected
  <2>2. ASSUME NEW y \in Tabs, y # x PROVE tab'[y] = tab[y]
    <3>1. \E q \in Pollers : tab' = [tab EXCEPT ![x] = q]
      BY DEF Subscribe, TypeOK
    <3> QED
      BY <2>2, <3>1 DEF TypeOK
  <2> QED
    BY <1>1, <2>1, <2>2
<1>4. CASE /\ poller # None /\ tab' = [tab EXCEPT ![x] = poller]
           /\ refCount' = [refCount EXCEPT ![poller] = @ + 1]
           /\ UNCHANGED <<poller, timer, task>>
  <2>1. TypeOK'
    BY <1>1, <1>4 DEF TypeOK
  <2>2. Fewer
    BY <1>4, SameTasks DEF TasksInv
  <2>3. TasksInv' /\ Carried
    BY <1>1, <1>4, <2>2, TasksKept DEF TasksInv, KnownIsPosted
  <2>4. ToldInv'
    BY <1>1, <1>4, <2>2, <2>3, ToldKept, OneTaskKept DEF ToldInv
  <2>5. OwedInv'
    BY <1>1, <1>3, <2>3, OwedKept
  <2> QED
    BY <1>2, <2>1, <2>3, <2>4, <2>5
<1>5. CASE poller = None
  <2>1. PICK p \in Pollers, t \in Tasks :
            /\ timer[p] = "new" /\ task[t].kind = "free" /\ poller' = p
            /\ timer' = [timer EXCEPT ![p] = "running"]
            /\ refCount' = [refCount EXCEPT ![p] = 1]
            /\ task' = [task EXCEPT ![t] = Task("seed", p)]
            /\ tab' = [tab EXCEPT ![x] = p]
    BY <1>5 DEF Subscribe
  <2>2. /\ Carried /\ task' \in [Tasks -> TaskStates]
        /\ task'[t].on = p /\ task'[t].kind = "seed"
        /\ \A u \in Tasks \ {t} : task'[u] = task[u]
    BY <2>1, StartCarries
  <2>3. TypeOK'
    BY <1>1, <2>1, <2>2 DEF TypeOK
  <2>4. \A q \in Pollers : timer'[q] = IF q = p THEN "running" ELSE timer[q]
    BY <2>1 DEF TypeOK
  <2>5. \A u \in Tasks : task[u].on # p
    BY <2>1 DEF TasksInv, NewIsFresh
  <2>6. TasksInv'
    <3>1. TasksOwned'
      BY <2>2 DEF TasksInv, TasksOwned
    <3>2. NewIsFresh'
      BY <1>1, <2>2, <2>4 DEF TasksInv, NewIsFresh
    <3>3. KnownIsPosted'
      BY <1>1, <2>2 DEF TasksInv, KnownIsPosted, Statement, Carried
    <3> QED
      BY <3>1, <3>2, <3>3 DEF TasksInv
  <2>7. ToldInv'
    <3>1. OneTask'
      BY <1>1, <2>2, <2>5 DEF ToldInv, OneTask
    <3> QED
      BY <1>1, <2>1, <2>2, <2>4, <3>1, ToldKept DEF ToldInv
  <2>8. OwedInv'
    BY <1>1, <1>3, <2>2, OwedKept
  <2> QED
    BY <1>2, <2>3, <2>6, <2>7, <2>8
<1> QED
  BY <1>4, <1>5 DEF Subscribe

\* The server notices that a connection is closed.
LEMMA TeardownKeeps ==
    ASSUME IInv, NEW p \in Pollers, Teardown(p)
    PROVE  IInv'
<1> USE DEF IInv
<1>1. /\ closing[p] > 0 /\ closing' = [closing EXCEPT ![p] = @ - 1]
      /\ refCount' = [refCount EXCEPT ![p] = @ - 1]
      /\ timer' \in {timer, [timer EXCEPT ![p] = "cleared"]} /\ poller' \in {poller, None}
      /\ UNCHANGED <<posted, seen, task, tab, faults, told, owed, excused, overlapped, repeated>>
  BY DEF Teardown
<1>2. OnePollLoop'
  BY TeardownLoop
<1>3. TypeOK'
  <2>1. Cardinality(Subscribers(p)) \in Nat
    <3>1. Subscribers(p) \in SUBSET Tabs
      BY DEF Subscribers
    <3> QED
      BY <3>1, NotificationConstants, FS_Subset, FS_CardinalityType
  <2>2. refCount[p] \in Nat \ {0} /\ closing[p] \in Nat \ {0}
    <3>1. refCount[p] = Cardinality(Subscribers(p)) + closing[p]
      BY LoopIs DEF Looped
    <3>2. closing[p] \in Nat /\ closing[p] > 0
      BY <1>1 DEF TypeOK
    <3> QED
      BY <2>1, <3>1, <3>2
  <2>3. refCount' \in [Pollers -> Nat] /\ closing' \in [Pollers -> Nat]
    <3>1. refCount[p] - 1 \in Nat /\ closing[p] - 1 \in Nat
      BY <2>2
    <3> QED
      BY <1>1, <3>1 DEF TypeOK
  <2>4. timer' \in [Pollers -> {"new", "running", "cleared"}] /\ poller' \in Pollers \cup {None}
    BY <1>1 DEF TypeOK
  <2> QED
    BY <1>1, <2>3, <2>4 DEF TypeOK
<1>4. \A q \in Pollers : /\ timer'[q] = "new" => timer[q] = "new"
                         /\ timer'[q] = "running" => timer[q] = "running"
  BY <1>1 DEF TypeOK
<1>5. Fewer
  BY <1>1, SameTasks DEF TasksInv
<1>6. TasksInv' /\ Carried
  BY <1>1, <1>4, <1>5, TasksKept DEF TasksInv, KnownIsPosted
<1>7. ToldInv'
  BY <1>1, <1>4, <1>5, <1>6, ToldKept, OneTaskKept DEF ToldInv
<1>8. OwedInv'
  BY <1>1, <1>6, OwedKept
<1> QED
  BY <1>2, <1>3, <1>6, <1>7, <1>8

\* The interval fires: the poller overlaps itself, or has nothing running.
LEMMA TickKeeps ==
    ASSUME IInv, NEW t \in Tasks, NEW p \in Pollers, Tick(t, p)
    PROVE  IInv'
<1> USE DEF IInv
<1>1. /\ timer[p] = "running" /\ task[t].kind = "free"
      /\ task' = [task EXCEPT ![t] = Task("poll", p)]
      /\ overlapped' = IF Running(p) # {} THEN overlapped \cup {p} ELSE overlapped
      /\ UNCHANGED <<posted, poller, refCount, timer, seen, tab, closing, faults, told, owed,
                     excused, repeated>>
  BY DEF Tick, pollerState, clients
<1>2. /\ Carried /\ task' \in [Tasks -> TaskStates]
      /\ task'[t].on = p /\ task'[t].kind = "poll"
      /\ \A u \in Tasks \ {t} : task'[u] = task[u]
  BY <1>1, StartCarries
<1>3. TypeOK'
  BY <1>1, <1>2 DEF TypeOK
<1>4. OnePollLoop'
  BY <1>1, LoopKept DEF pollerState, clients
<1>5. TasksInv'
  <2>1. TasksOwned'
    BY <1>2 DEF TasksInv, TasksOwned
  <2>2. NewIsFresh'
    BY <1>1, <1>2 DEF TasksInv, NewIsFresh
  <2>3. KnownIsPosted'
    BY <1>1, <1>2 DEF TasksInv, KnownIsPosted, Statement, Carried
  <2> QED
    BY <2>1, <2>2, <2>3 DEF TasksInv
<1>6. ToldInv'
  <2>1. OneTask'
    <3>1. p \notin overlapped' => \A u \in Tasks : task[u].on # p
      BY <1>1 DEF Running
    <3> QED
      BY <1>1, <1>2, <3>1 DEF ToldInv, OneTask
  <2>2. overlapped \subseteq overlapped'
    BY <1>1
  <2>3. \A q \in Pollers : timer'[q] = "running" => timer[q] \in {"new", "running"}
    BY <1>1
  <2> QED
    BY <1>1, <1>2, <2>1, <2>2, <2>3, ToldKept DEF ToldInv
<1>7. OwedInv'
  BY <1>1, <1>2, OwedKept
<1> QED
  BY <1>3, <1>4, <1>5, <1>6, <1>7

\* A call to the backend fails.
LEMMA FailKeeps ==
    ASSUME IInv, NEW t \in Tasks, Fail(t)
    PROVE  IInv'
<1> USE DEF IInv
<1>1. /\ task[t].kind # "free" /\ faults < MaxFaults /\ faults' = faults + 1
      /\ \/ task' = [task EXCEPT ![t] = Free]
         \/ \E a \in task[t].todo : task' = [task EXCEPT ![t] = Without(task[t], a)]
      /\ UNCHANGED <<posted, poller, refCount, timer, seen, tab, closing, told, owed, excused,
                     overlapped, repeated>>
  BY DEF Fail, pollerState, clients
<1>2. Fewer /\ task' \in [Tasks -> TaskStates]
  <2>1. task[t] \in TaskStates /\ task[t].todo \subseteq Accounts
    BY DEF TypeOK, TaskStates
  <2>2. /\ task' \in [Tasks -> TaskStates]
        /\ \A u \in Tasks \ {t} : task'[u] = task[u]
        /\ task'[t] = Free \/ \E a \in task[t].todo : task'[t] = Without(task[t], a)
    <3>1. CASE task' = [task EXCEPT ![t] = Free]
      BY <3>1, FreeIs DEF TypeOK
    <3>2. CASE \E a \in task[t].todo : task' = [task EXCEPT ![t] = Without(task[t], a)]
      <4>1. PICK a \in task[t].todo : task' = [task EXCEPT ![t] = Without(task[t], a)]
        BY <3>2
      <4>2. Without(task[t], a) \in TaskStates
        BY <2>1, WithoutIs
      <4> QED
        BY <4>1, <4>2 DEF TypeOK
    <3> QED
      BY <1>1, <3>1, <3>2
  <2>3. \/ task'[t] = Free
        \/ /\ task'[t].kind = task[t].kind /\ task'[t].on = task[t].on
           /\ \A b \in Accounts : task'[t].page[b] = task[t].page[b] \/ task'[t].page[b] = None
    BY <2>1, <2>2, WithoutIs
  <2> QED
    BY <1>1, <2>2, <2>3 DEF Fewer, TasksInv, TasksOwned
<1>3. TypeOK'
  BY <1>1, <1>2, NotificationConstants DEF TypeOK
<1>4. OnePollLoop'
  BY <1>1, LoopKept DEF pollerState, clients
<1>5. TasksInv' /\ Carried
  BY <1>1, <1>2, TasksKept DEF TasksInv, KnownIsPosted
<1>6. ToldInv'
  BY <1>1, <1>2, <1>5, ToldKept, OneTaskKept DEF ToldInv
<1>7. OwedInv'
  BY <1>1, <1>5, OwedKept
<1> QED
  BY <1>3, <1>4, <1>5, <1>6, <1>7

\* A connection breaks: nothing is owed to the tab any more.
LEMMA DisconnectKeeps ==
    ASSUME IInv, NEW x \in Tabs, Disconnect(x)
    PROVE  IInv'
<1> USE DEF IInv
<1>1. /\ tab[x] # None /\ faults < MaxFaults /\ faults' = faults + 1
      /\ closing' = [closing EXCEPT ![tab[x]] = @ + 1]
      /\ tab' = [tab EXCEPT ![x] = None] /\ owed' = [owed EXCEPT ![x] = {}]
      /\ UNCHANGED <<posted, poller, refCount, timer, seen, task, told, excused, overlapped,
                     repeated>>
  BY DEF Disconnect, pollerState
<1>2. TypeOK'
  BY <1>1, NotificationConstants DEF TypeOK
<1>3. OnePollLoop'
  BY DisconnectLoop
<1>4. Fewer
  BY <1>1, SameTasks DEF TasksInv
<1>5. TasksInv' /\ Carried
  BY <1>1, <1>4, TasksKept DEF TasksInv, KnownIsPosted
<1>6. ToldInv'
  <2>1. OneTask'
    BY <1>1, <1>4, OneTaskKept
  <2>2. overlapped \subseteq overlapped' /\ UNCHANGED <<seen, told, repeated>>
    BY <1>1
  <2>3. \A p \in Pollers : timer'[p] = "running" => timer[p] \in {"new", "running"}
    BY <1>1
  <2> QED
    BY <1>5, <2>1, <2>2, <2>3, ToldKept DEF ToldInv
<1>7. OwedInv'
  <2>1. \A y \in Tabs : owed'[y] = {} \/ (owed'[y] \subseteq owed[y] /\ tab'[y] = tab[y])
    BY <1>1 DEF TypeOK
  <2> QED
    BY <1>1, <1>5, <2>1, OwedKept
<1> QED
  BY <1>2, <1>3, <1>5, <1>6, <1>7

\* A fetched page is newer than all that is known: it has the newest entry.
LEMMA FetchKeeps ==
    ASSUME IInv, NEW t \in Tasks, NEW a \in Accounts, Fetch(t, a)
    PROVE  IInv'
<1> DEFINE n == IF task[t].kind = "seed" THEN 1 ELSE PageSize
           page == Page(a, n)
<1> USE DEF IInv
<1>1. /\ a \in task[t].todo /\ task[t].page[a] = None /\ task[t].kind \in {"seed", "poll"}
      /\ task' = [task EXCEPT ![t].page[a] = page]
      /\ UNCHANGED <<posted, poller, refCount, timer, seen, tab, closing, faults, told, owed,
                     excused, overlapped, repeated>>
  BY DEF Fetch, pollerState, clients
<1>2. n \in Nat \ {0} /\ (task[t].kind = "poll" => n = PageSize)
  BY <1>1, NotificationConstants
<1>3. IsFiniteSet(posted)
  BY DEF TasksInv, KnownIsPosted
<1>4. /\ page \subseteq Statement(a)
      /\ Statement(a) # {} => Max(Statement(a)) \in page
      /\ \A e \in Statement(a) \ page : Cardinality(page) = n /\ \A f \in page : e < f
  BY <1>2, <1>3, PageIsNewest
<1>5. Statement(a) \in SUBSET posted /\ Statement(a) \in SUBSET Nat /\ IsFiniteSet(Statement(a))
  <2>1. Statement(a) \in SUBSET posted /\ posted \in SUBSET Nat
    BY NotificationConstants DEF Statement, TypeOK
  <2> QED
    BY <1>3, <2>1, FS_Subset
<1>6. \A e \in Statement(a) : \E f \in page : e <= f
  <2> SUFFICES ASSUME NEW e \in Statement(a) PROVE \E f \in page : e <= f
    OBVIOUS
  <2>1. e <= Max(Statement(a))
    BY <1>5, MaxMin
  <2> QED
    BY <1>4, <2>1
<1> HIDE DEF page, n
<1>7. page \in SUBSET Entries
  BY <1>4, <1>5 DEF TypeOK
<1>8. /\ task' \in [Tasks -> TaskStates]
      /\ \A u \in Tasks : task'[u].on = task[u].on /\ task'[u].kind = task[u].kind
      /\ \A u \in Tasks, b \in Accounts :
            task'[u].page[b] = IF u = t /\ b = a THEN page ELSE task[u].page[b]
  <2>1. task[t] \in TaskStates
    BY DEF TypeOK
  <2>2. [task[t] EXCEPT !.page[a] = page] \in TaskStates
    BY <1>7, <2>1 DEF TaskStates
  <2>3. task' \in [Tasks -> TaskStates]
    BY <1>1, <2>2 DEF TypeOK
  <2>4. \A u \in Tasks \ {t} : task'[u] = task[u]
    BY <1>1 DEF TypeOK
  <2>5. /\ task'[t].on = task[t].on /\ task'[t].kind = task[t].kind
        /\ \A b \in Accounts : task'[t].page[b] = IF b = a THEN page ELSE task[t].page[b]
    BY <1>1, <2>1 DEF TypeOK, TaskStates
  <2> QED
    BY <2>3, <2>4, <2>5
<1>9. TypeOK'
  BY <1>1, <1>8 DEF TypeOK
<1>10. OnePollLoop'
  BY <1>1, LoopKept DEF pollerState, clients
<1>11. TasksInv'
  <2>1. TasksOwned'
    <3> SUFFICES ASSUME NEW u \in Tasks
                 PROVE  IF task'[u].kind = "free" THEN task'[u] = Free ELSE task'[u].on \in Pollers
      BY DEF TasksOwned
    <3>1. u # t => task'[u] = task[u]
      BY <1>1 DEF TypeOK
    <3> QED
      BY <1>1, <1>8, <3>1 DEF TasksInv, TasksOwned
  <2>2. NewIsFresh'
    BY <1>1, <1>8 DEF TasksInv, NewIsFresh
  <2>3. KnownIsPosted'
    BY <1>1, <1>4, <1>8 DEF TasksInv, KnownIsPosted, Statement
  <2> QED
    BY <2>1, <2>2, <2>3 DEF TasksInv
<1>12. ToldInv'
  <2>1. OneTask' /\ ToldTwiceNeedsOverlap'
    BY <1>1, <1>8 DEF ToldInv, OneTask, ToldTwiceNeedsOverlap
  <2>2. PageFits'
    <3> SUFFICES ASSUME NEW u \in Tasks, NEW b \in Accounts,
                        task[u].on \in Pollers \ overlapped, task'[u].page[b] # None,
                        seen[task[u].on][b] # 0
                 PROVE  \/ seen[task[u].on][b] \in task'[u].page[b]
                        \/ \A e \in task'[u].page[b] : e > seen[task[u].on][b]
      BY <1>1, <1>8 DEF PageFits
    <3>1. CASE u = t /\ b = a
      <4> DEFINE s == seen[task[t].on][a]
      <4>1. s \in Statement(a)
        BY <3>1 DEF TasksInv, KnownIsPosted
      <4>2. s \in page \/ \A f \in page : s < f
        BY <1>4, <4>1
      <4>3. \A f \in page : f \in Nat /\ s \in Nat
        BY <1>4, <1>5, <4>1
      <4>4. s \in page \/ \A f \in page : f > s
        BY <4>2, <4>3
      <4> QED
        BY <1>8, <3>1, <4>4
    <3>2. CASE ~(u = t /\ b = a)
      BY <1>8, <3>2 DEF ToldInv, PageFits
    <3> QED
      BY <3>1, <3>2
  <2>3. ToldIsSeen'
    <3> SUFFICES ASSUME NEW p \in Pollers, p \notin overlapped, timer[p] = "running",
                        NEW x \in Tabs, NEW e \in told[x]
                 PROVE  /\ seen[p][AccountOf[e]] # 0 => e <= seen[p][AccountOf[e]]
                        /\ \A u \in Tasks :
                              task[u].on = p /\ task'[u].page[AccountOf[e]] # None =>
                                  \E f \in task'[u].page[AccountOf[e]] : e <= f
      BY <1>1, <1>8 DEF ToldIsSeen
    <3>1. AccountOf[e] \in Accounts /\ e \in Statement(AccountOf[e])
      BY NotificationConstants DEF TypeOK, TasksInv, KnownIsPosted, Statement
    <3> QED
      BY <1>6, <1>8, <3>1 DEF ToldInv, ToldIsSeen
  <2> QED
    BY <2>1, <2>2, <2>3 DEF ToldInv
<1>13. OwedInv'
  <2>1. OwedWhileConnected' /\ NothingPassedOver'
    BY <1>1 DEF OwedInv, OwedWhileConnected, NothingPassedOver
  <2>2. PageHasAll'
    <3> SUFFICES ASSUME NEW u \in Tasks, NEW b \in Accounts,
                        task[u].kind = "poll", task'[u].page[b] # None,
                        NEW e \in Statement(b), e \notin excused
                 PROVE  \/ e \in task'[u].page[b]
                        \/ \A f \in task'[u].page[b] : f < e
                        \/ /\ Cardinality(task'[u].page[b]) = PageSize
                           /\ \A f \in task'[u].page[b] : e < f
      BY <1>1, <1>8 DEF PageHasAll, Statement
    <3>1. CASE u = t /\ b = a
      BY <1>2, <1>4, <1>8, <3>1
    <3>2. CASE ~(u = t /\ b = a)
      BY <1>8, <3>2 DEF OwedInv, PageHasAll
    <3> QED
      BY <3>1, <3>2
  <2> QED
    BY <2>1, <2>2 DEF OwedInv
<1> QED
  BY <1>9, <1>10, <1>11, <1>12, <1>13

\* Handling a page keeps the types, the loop and what tasks carry.
LEMMA HandledKeeps ==
    ASSUME IInv, NEW t \in Tasks, NEW a \in Accounts, Handled(t, a)
    PROVE  TypeOK' /\ OnePollLoop' /\ TasksInv' /\ Carried
<1> USE DEF IInv
<1>1. /\ told' \in [Tabs -> SUBSET Entries] /\ owed' \in [Tabs -> SUBSET Entries]
      /\ excused' \subseteq Entries /\ repeated' \in {repeated, repeated \cup {task[t].on}}
      /\ task[t].page[a] # None
      /\ UNCHANGED <<posted, poller, refCount, timer, tab, closing, faults, overlapped>>
  BY DEF Handled, pollerState, clients
<1>2. /\ task[t].on \in Pollers /\ Fewer /\ task' \in [Tasks -> TaskStates]
      /\ seen' \in [Pollers -> [Accounts -> Entries \cup {0}]]
      /\ \A p \in Pollers, b \in Accounts :
            seen'[p][b] = IF p = task[t].on /\ b = a
                          THEN Remembered(task[t].page[a], seen[p][b]) ELSE seen[p][b]
  BY HandledIs
<1>3. task[t].page[a] \subseteq Statement(a) /\ timer[task[t].on] # "new"
  BY <1>1, PageIsPosted
<1>4. TypeOK'
  BY <1>1, <1>2 DEF TypeOK
<1>5. OnePollLoop'
  BY <1>1, LoopKept DEF pollerState, clients
<1>6. TasksInv' /\ Carried
  <2>1. \A p \in Pollers : timer'[p] = "new" =>
            timer[p] = "new" /\ \A b \in Accounts : seen'[p][b] = seen[p][b]
    BY <1>1, <1>2, <1>3
  <2>2. \A p \in Pollers, b \in Accounts :
            seen'[p][b] \in {0, seen[p][b]} \/ seen'[p][b] \in Statement(b)
    BY <1>1, <1>2, RememberedIs
  <2>3. ASSUME NEW x \in Tabs, NEW e \in told'[x] PROVE e \in posted
    <3>1. told'[x] \subseteq told[x] \cup task[t].page[a]
      BY DEF Handled
    <3> QED
      BY <1>3, <2>3, <3>1 DEF TasksInv, KnownIsPosted, Statement
  <2> QED
    BY <1>1, <1>2, <2>1, <2>2, <2>3, TasksKept
<1> QED
  BY <1>4, <1>5, <1>6

\* A poller without overlap has no other page than the one that it handles: what it
\* announces and has announced is not newer than what it remembers.
LEMMA HandledTold ==
    ASSUME IInv, NEW t \in Tasks, NEW a \in Accounts, Handled(t, a)
    PROVE  OneTask' /\ PageFits' /\ ToldIsSeen'
<1> DEFINE p == task[t].on
           page == task[t].page[a]
           r == Remembered(page, seen[p][a])
<1> USE DEF IInv
<1>1. /\ task' \in [Tasks -> TaskStates] /\ task'[t].page[a] = None /\ p \in Pollers /\ Fewer
      /\ \A q \in Pollers, b \in Accounts :
            seen'[q][b] = IF q = p /\ b = a THEN r ELSE seen[q][b]
  BY HandledIs
<1>2. Carried
  BY HandledKeeps
<1>3. /\ page # None
      /\ UNCHANGED <<posted, poller, timer, tab, overlapped>>
      /\ \A x \in Tabs : told'[x] \subseteq told[x] \/ (tab[x] = p /\ told'[x] \subseteq told[x] \cup page)
  BY DEF Handled, pollerState, clients
<1>4. OneTask'
  BY <1>1, <1>3, OneTaskKept
<1>5. ASSUME NEW u \in Tasks, task'[u].page[a] # None, task'[u].on = p, p \notin overlapped
      PROVE  FALSE
  <2>1. task[u].on = p /\ u # t
    BY <1>1, <1>2, <1>5 DEF Carried
  <2> QED
    BY <1>1, <1>5, <2>1 DEF ToldInv, OneTask
<1>6. PageFits'
  <2> SUFFICES ASSUME NEW u \in Tasks, NEW b \in Accounts,
                      task'[u].on \in Pollers \ overlapped, task'[u].page[b] # None,
                      seen'[task'[u].on][b] # 0
               PROVE  \/ seen'[task'[u].on][b] \in task'[u].page[b]
                      \/ \A e \in task'[u].page[b] : e > seen'[task'[u].on][b]
    BY <1>3 DEF PageFits
  <2>1. /\ task'[u].on = task[u].on /\ task'[u].page[b] = task[u].page[b]
        /\ ~(task[u].on = p /\ b = a)
    BY <1>2, <1>5 DEF Carried
  <2>2. seen'[task'[u].on][b] = seen[task[u].on][b]
    BY <1>1, <2>1
  <2> QED
    BY <2>1, <2>2 DEF ToldInv, PageFits
<1>7. /\ page \in SUBSET Statement(a)
      /\ page = {} => r = seen[p][a]
      /\ page # {} => \A e \in page : e <= r
      /\ page # {} => r \in page
      /\ page \in SUBSET Nat /\ r \in Nat
  <2>1. page # {} => Max(page) \in page
    BY <1>3, PageIsPosted, MaxMin
  <2> QED
    BY <1>3, <2>1, PageIsPosted, RememberedIs
<1> HIDE DEF r
<1>8. ToldIsSeen'
  <2> SUFFICES ASSUME NEW q \in Pollers, q \notin overlapped, timer[q] = "running",
                      NEW x \in Tabs, NEW e \in told'[x]
               PROVE  /\ seen'[q][AccountOf[e]] # 0 => e <= seen'[q][AccountOf[e]]
                      /\ \A u \in Tasks :
                            task'[u].on = q /\ task'[u].page[AccountOf[e]] # None =>
                                \E f \in task'[u].page[AccountOf[e]] : e <= f
    BY <1>3 DEF ToldIsSeen
  <2>1. e \in Entries /\ e \in Nat /\ AccountOf[e] \in Accounts
    <3>1. e \in Entries
      BY HandledKeeps DEF TypeOK
    <3> QED
      BY <3>1, NotificationConstants
  <2>2. CASE q = p /\ AccountOf[e] = a
    <3>1. e <= r
      <4>1. CASE e \in told[x]
        <5>1. \E f \in page : e <= f
          BY <1>3, <2>2, <4>1 DEF ToldInv, ToldIsSeen
        <5>2. PICK f \in page : e <= f
          BY <5>1
        <5>3. f <= r /\ f \in Nat
          BY <1>7, <5>2
        <5> QED
          BY <1>7, <2>1, <5>2, <5>3
      <4>2. CASE e \in page
        BY <1>7, <4>2
      <4> QED
        BY <1>3, <4>1, <4>2
    <3> QED
      BY <1>1, <1>5, <2>2, <3>1
  <2>3. CASE ~(q = p /\ AccountOf[e] = a)
    <3>1. e \in told[x]
      <4> SUFFICES ASSUME e \notin told[x] PROVE FALSE
        OBVIOUS
      <4>1. tab[x] = p /\ e \in page
        BY <1>3
      <4>2. poller = p /\ q = poller
        BY <1>1, <4>1, NotificationConstants, Connected, LoopIs DEF Looped
      <4>3. AccountOf[e] = a
        BY <1>7, <4>1 DEF Statement
      <4> QED
        BY <2>3, <4>2, <4>3
    <3>2. seen'[q][AccountOf[e]] = seen[q][AccountOf[e]]
      BY <1>1, <2>1, <2>3
    <3> QED
      BY <1>2, <2>1, <3>1, <3>2 DEF ToldInv, ToldIsSeen, Carried
  <2> QED
    BY <2>2, <2>3
<1> QED
  BY <1>4, <1>6, <1>8

\* Handling a page does not change what other pages lack, and what has been seen stays
\* seen.
LEMMA HandledOwed ==
    ASSUME IInv, NEW t \in Tasks, NEW a \in Accounts, Handled(t, a)
    PROVE  OwedWhileConnected' /\ PageHasAll'
<1> USE DEF IInv
<1>1. /\ task[t].page[a] # None /\ excused \subseteq excused'
      /\ UNCHANGED <<posted, tab>> /\ \A x \in Tabs : owed'[x] \subseteq owed[x]
  BY DEF Handled, clients
<1>2. /\ task[t].on \in Pollers
      /\ \A p \in Pollers, b \in Accounts :
            seen'[p][b] = IF p = task[t].on /\ b = a
                          THEN Remembered(task[t].page[a], seen[p][b]) ELSE seen[p][b]
  BY HandledIs
<1>3. \A p \in Pollers, b \in Accounts : seen[p][b] # 0 => seen'[p][b] # 0
  BY <1>1, <1>2, RememberedIs
<1>4. OwedWhileConnected'
  <2> SUFFICES ASSUME NEW x \in Tabs, NEW e \in owed'[x]
               PROVE  tab[x] # None /\ e \in posted /\ seen'[tab[x]][AccountOf[e]] # 0
    BY <1>1 DEF OwedWhileConnected
  <2>1. e \in owed[x] /\ e \in Entries
    BY <1>1 DEF TypeOK
  <2>2. tab[x] # None /\ e \in posted /\ seen[tab[x]][AccountOf[e]] # 0
    BY <2>1 DEF OwedInv, OwedWhileConnected
  <2>3. tab[x] \in Pollers /\ AccountOf[e] \in Accounts
    BY <2>1, <2>2, NotificationConstants DEF TypeOK
  <2> QED
    BY <1>3, <2>2, <2>3
<1>5. PageHasAll'
  <2>1. Carried
    BY HandledKeeps
  <2> QED
    BY <1>1, <2>1 DEF OwedInv, PageHasAll, Carried, Statement
<1> QED
  BY <1>4, <1>5

\* The seed excuses what is not newer than what it remembers.
LEMMA HandleSeedKeeps ==
    ASSUME IInv, NEW t \in Tasks, NEW a \in Accounts, HandleSeed(t, a)
    PROVE  IInv'
<1> DEFINE p == task[t].on
           page == task[t].page[a]
<1> USE DEF IInv
<1>1. Handled(t, a)
  BY HandlersDo
<1>2. /\ page # None /\ excused' = excused \cup
             {e \in Entries : AccountOf[e] = a /\ page # {} /\ e <= Max(page)}
      /\ UNCHANGED <<tab, overlapped, owed, repeated>>
  BY DEF HandleSeed, clients
<1>3. ToldTwiceNeedsOverlap'
  BY <1>2 DEF ToldInv, ToldTwiceNeedsOverlap
<1>4. NothingPassedOver'
  <2> SUFFICES ASSUME NEW x \in Tabs, NEW e \in owed[x], e \notin excused'
               PROVE  tab[x] # None /\ e > seen'[tab[x]][AccountOf[e]]
    BY <1>2 DEF NothingPassedOver
  <2>1. e \in Entries /\ e \in Nat /\ AccountOf[e] \in Accounts
    <3>1. e \in Entries
      BY DEF TypeOK
    <3> QED
      BY <3>1, NotificationConstants
  <2>2. tab[x] # None /\ e > seen[tab[x]][AccountOf[e]]
    BY <1>2 DEF OwedInv, NothingPassedOver
  <2>3. tab[x] \in Pollers
    BY <2>2, Connected
  <2>4. seen'[tab[x]][AccountOf[e]] = IF tab[x] = p /\ AccountOf[e] = a
                                      THEN Remembered(page, seen[p][a])
                                      ELSE seen[tab[x]][AccountOf[e]]
    BY <1>1, <2>1, <2>3, HandledIs
  <2>5. CASE tab[x] = p /\ AccountOf[e] = a /\ page # {}
    <3>1. Remembered(page, seen[p][a]) = Max(page) /\ Remembered(page, seen[p][a]) \in Nat
      BY <1>2, <2>5, RememberedIs
    <3>2. ~(e <= Max(page))
      BY <1>2, <2>1, <2>5
    <3> QED
      BY <2>1, <2>2, <2>4, <2>5, <3>1, <3>2
  <2>6. CASE tab[x] = p /\ AccountOf[e] = a /\ page = {}
    BY <2>2, <2>4, <2>6 DEF Remembered
  <2>7. CASE ~(tab[x] = p /\ AccountOf[e] = a)
    BY <2>2, <2>4, <2>7
  <2> QED
    BY <2>5, <2>6, <2>7
<1> QED
  BY <1>1, <1>3, <1>4, HandledKeeps, HandledTold, HandledOwed DEF ToldInv, OwedInv

\* What a poll announces is newer than what has been seen, if its poller has no other
\* task; and what it does not announce is older, or no longer on the page.
LEMMA HandlePageKeeps ==
    ASSUME IInv, NEW t \in Tasks, NEW a \in Accounts, HandlePage(t, a)
    PROVE  IInv'
<1> DEFINE p == task[t].on
           page == task[t].page[a]
           last == seen[p][a]
           new == IF last # 0 THEN TakeUntilId(page, last) ELSE {}
<1> USE DEF IInv
<1>1. Handled(t, a)
  BY HandlersDo
<1>2. /\ task[t].kind = "poll" /\ page # None
      /\ owed' = [x \in Tabs |-> IF tab[x] = p THEN owed[x] \ new ELSE owed[x]]
      /\ repeated' = IF \E x \in Tabs : tab[x] = p /\ told[x] \cap new # {}
                     THEN repeated \cup {p} ELSE repeated
      /\ excused' = excused \cup
             {e \in Entries : AccountOf[e] = a /\ Cardinality(page) = PageSize
                              /\ last < e /\ e < Min(page)}
      /\ UNCHANGED <<tab, overlapped>>
  BY DEF HandlePage, clients
<1>3. /\ page \in SUBSET Statement(a) /\ page \in SUBSET Nat /\ IsFiniteSet(page)
      /\ page \in SUBSET Entries
      /\ p \in Pollers /\ last \in Nat
  BY <1>2, PageIsPosted, RememberedIs
<1>4. new = IF last # 0 THEN (IF last \in page THEN {e \in page : e > last} ELSE page) ELSE {}
  BY DEF TakeUntilId
<1> HIDE DEF new
<1>5. ToldTwiceNeedsOverlap'
  <2> SUFFICES ASSUME p \notin overlapped, NEW x \in Tabs, tab[x] = p,
                      NEW e \in told[x] \cap new
               PROVE  FALSE
    BY <1>2 DEF ToldInv, ToldTwiceNeedsOverlap
  <2>1. last # 0 /\ e \in page /\ e > last
    <3>1. last # 0 /\ e \in page
      BY <1>4
    <3>2. CASE last \in page
      BY <1>4, <3>1, <3>2
    <3>3. CASE last \notin page
      BY <1>2, <1>3, <3>1, <3>3 DEF ToldInv, PageFits
    <3> QED
      BY <3>1, <3>2, <3>3
  <2>2. AccountOf[e] = a
    BY <1>3, <2>1 DEF Statement
  <2>3. timer[p] = "running"
    BY <1>3, NotificationConstants, Connected
  <2>4. e <= last
    BY <1>3, <2>1, <2>2, <2>3 DEF ToldInv, ToldIsSeen
  <2> QED
    BY <1>3, <2>1, <2>4
<1>6. NothingPassedOver'
  <2> SUFFICES ASSUME NEW x \in Tabs, NEW e \in owed'[x], e \notin excused'
               PROVE  tab[x] # None /\ e > seen'[tab[x]][AccountOf[e]]
    BY <1>2 DEF NothingPassedOver
  <2>1. /\ e \in owed[x] /\ e \in Entries /\ e \in Nat /\ AccountOf[e] \in Accounts
        /\ e \notin excused /\ (tab[x] = p => e \notin new)
    <3>1. e \in owed[x] /\ e \notin excused /\ (tab[x] = p => e \notin new)
      BY <1>2
    <3>2. e \in Entries
      BY <3>1 DEF TypeOK
    <3> QED
      BY <3>1, <3>2, NotificationConstants
  <2>2. /\ tab[x] # None /\ e > seen[tab[x]][AccountOf[e]]
        /\ e \in posted /\ seen[tab[x]][AccountOf[e]] # 0
    BY <2>1 DEF OwedInv, NothingPassedOver, OwedWhileConnected
  <2>3. tab[x] \in Pollers
    BY <2>2, Connected
  <2>4. seen'[tab[x]][AccountOf[e]] = IF tab[x] = p /\ AccountOf[e] = a
                                      THEN Remembered(page, last)
                                      ELSE seen[tab[x]][AccountOf[e]]
    BY <1>1, <2>1, <2>3, HandledIs
  <2>5. CASE tab[x] = p /\ AccountOf[e] = a /\ page # {}
    <3>1. Remembered(page, last) = Max(page)
      BY <1>2, <2>5, RememberedIs
    <3>2. Max(page) \in page /\ Min(page) \in page
      BY <1>3, <2>5, MaxMin
    <3>3. last # 0 /\ e > last
      BY <2>2, <2>5
    <3>4. e \notin page
      BY <1>4, <2>1, <2>5, <3>3
    <3>5. e \in Statement(a)
      BY <2>2, <2>5 DEF Statement
    <3>6. CASE \A f \in page : f < e
      <4>1. Max(page) < e
        BY <3>2, <3>6
      <4>2. Max(page) \in Nat
        BY <1>3, <3>2
      <4> QED
        BY <2>1, <2>2, <2>4, <2>5, <3>1, <4>1, <4>2
    <3>7. CASE Cardinality(page) = PageSize /\ \A f \in page : e < f
      <4>1. e < Min(page) /\ last < e
        BY <1>3, <2>1, <3>2, <3>3, <3>7
      <4>2. e \in excused'
        BY <1>2, <2>1, <2>5, <3>7, <4>1
      <4> QED
        BY <4>2
    <3> QED
      BY <1>2, <2>1, <3>4, <3>5, <3>6, <3>7 DEF OwedInv, PageHasAll
  <2>6. CASE tab[x] = p /\ AccountOf[e] = a /\ page = {}
    BY <2>2, <2>4, <2>6 DEF Remembered
  <2>7. CASE ~(tab[x] = p /\ AccountOf[e] = a)
    BY <2>2, <2>4, <2>7
  <2> QED
    BY <2>5, <2>6, <2>7
<1> QED
  BY <1>1, <1>5, <1>6, HandledKeeps, HandledTold, HandledOwed DEF ToldInv, OwedInv

-------------------------------------------------------------------------------
(* The invariant *)

\* It holds before anybody is connected.
LEMMA InitInv == Init => IInv
<1> SUFFICES ASSUME Init PROVE IInv
  OBVIOUS
<1> USE DEF Init
<1>1. \A t \in Tasks : task[t] = Free
  OBVIOUS
<1>2. \A t \in Tasks : /\ task[t].kind = "free" /\ task[t].on = None
                       /\ \A a \in Accounts : task[t].page[a] = None
  BY <1>1, FreeIs
<1>3. TypeOK
  BY FreeIs, NotificationConstants DEF TypeOK
<1>4. OnePollLoop
  <2>1. \A p \in Pollers : Subscribers(p) = {}
    BY NotificationConstants DEF Subscribers
  <2>2. \A p \in Pollers : Cardinality(Subscribers(p)) = 0
    BY <2>1, FS_EmptySet
  <2> QED
    BY <2>2, NotificationConstants, LoopIs DEF Looped
<1>5. TasksInv
  <2>1. IsFiniteSet(posted)
    BY FS_EmptySet
  <2> QED
    BY <1>1, <1>2, <2>1, NotificationConstants DEF TasksInv, TasksOwned, NewIsFresh, KnownIsPosted
<1>6. ToldInv
  BY <1>2, NotificationConstants
  DEF ToldInv, OneTask, PageFits, ToldIsSeen, ToldTwiceNeedsOverlap
<1>7. OwedInv
  BY <1>2 DEF OwedInv, OwedWhileConnected, PageHasAll, NothingPassedOver
<1> QED
  BY <1>3, <1>4, <1>5, <1>6, <1>7 DEF IInv

\* Every step keeps it.
LEMMA NextInv == IInv /\ [Next]_vars => IInv'
<1> SUFFICES ASSUME IInv, [Next]_vars PROVE IInv'
  OBVIOUS
<1>1. ASSUME NEW e \in Entries, Post(e) PROVE IInv'
  BY <1>1, PostKeeps
<1>2. ASSUME NEW x \in Tabs, Subscribe(x) \/ Disconnect(x) PROVE IInv'
  BY <1>2, SubscribeKeeps, DisconnectKeeps
<1>3. ASSUME NEW p \in Pollers, Teardown(p) PROVE IInv'
  BY <1>3, TeardownKeeps
<1>4. ASSUME NEW p \in Pollers, NEW t \in Tasks, Tick(t, p) PROVE IInv'
  BY <1>4, TickKeeps
<1>5. ASSUME NEW t \in Tasks, NEW a \in Accounts, Fetch(t, a) PROVE IInv'
  BY <1>5, FetchKeeps
<1>6. ASSUME NEW t \in Tasks, NEW a \in Accounts, HandleSeed(t, a) \/ HandlePage(t, a)
      PROVE  IInv'
  BY <1>6, HandleSeedKeeps, HandlePageKeeps
<1>7. ASSUME NEW t \in Tasks, Fail(t) PROVE IInv'
  BY <1>7, FailKeeps
<1>8. CASE UNCHANGED vars
  BY <1>8 DEF vars, IInv, TypeOK, OnePollLoop, TasksInv, TasksOwned, NewIsFresh, KnownIsPosted,
     ToldInv, OneTask, PageFits, ToldIsSeen, ToldTwiceNeedsOverlap, OwedInv, OwedWhileConnected,
     PageHasAll, NothingPassedOver, Statement
<1> QED
  BY <1>1, <1>2, <1>3, <1>4, <1>5, <1>6, <1>7, <1>8 DEF Next, TaskStep

\* The inductive invariant holds for any tabs, accounts, entries, tasks and page size.
THEOREM NotificationInvariant == Spec => []IInv
BY InitInv, NextInv, PTL DEF Spec

\* Entries, pollers, tasks and connections stay well-formed.
THEOREM TypeCorrect == Spec => []TypeOK
<1>1. IInv => TypeOK
  BY DEF IInv
<1> QED
  BY <1>1, NotificationInvariant, PTL

\* However many tabs connect, break and are torn down late, the session has one poll
\* loop, which runs exactly as long as a connection is counted.
THEOREM PollLoopIsOne == Spec => []OnePollLoop
<1>1. IInv => OnePollLoop
  BY DEF IInv
<1> QED
  BY <1>1, NotificationInvariant, PTL

\* A poller announces no entry to a tab again, unless two of its tasks have run at once.
THEOREM ToldOnceWithoutOverlap == Spec => []ToldTwiceNeedsOverlap
<1>1. IInv => ToldTwiceNeedsOverlap
  BY DEF IInv, ToldInv
<1> QED
  BY <1>1, NotificationInvariant, PTL

\* A poller never remembers an entry newer than one that it still owes to a tab, failed
\* calls and overlapping polls included.
THEOREM OwedIsNotPassedOver == Spec => []NothingPassedOver
<1>1. IInv => NothingPassedOver
  BY DEF IInv, OwedInv
<1> QED
  BY <1>1, NotificationInvariant, PTL

===============================================================================
