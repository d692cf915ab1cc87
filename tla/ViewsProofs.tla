------------------------------ MODULE ViewsProofs ------------------------------
(***************************************************************************)
(* What a tab shows, for any accounts, entries and page sizes: nothing it  *)
(* was told of is missing, and the pages of a statement fit together.      *)
(***************************************************************************)
EXTENDS Views, SumTheorems, FunctionTheorems, FiniteSetTheorems, SequenceTheorems, TLAPS

\* The entries a query has to follow: those a notification has arrived for, and has
\* caused a fetch for.
ForDashboard == told \ unseen["dashboard"]
ForStatement == {e \in told \ unseen["statement"] : AccountOf[e] = Acc}

\* Pages of the dashboard have, of what was posted when they were asked for, all that is
\* not older than a whole page.
Covered(pages, base) ==
    \A a \in Accounts : pages[a] \notin {Pending, Degraded} =>
        /\ pages[a] \subseteq Of(a)
        /\ \A e \in base : AccountOf[e] = a /\ DayOf[e] >= Today - Window =>
              \/ e \in pages[a]
              \/ Cardinality(pages[a]) = DashboardPage /\ \A f \in pages[a] : e < f

\* The dashboard's query: what it has, and what it has read.
DashboardOK(d, es) ==
    /\ d.since \subseteq posted /\ d.start \subseteq posted
    /\ Covered(d.read, d.start)
    /\ d.loaded => Covered(d.data, d.since) /\ \A a \in Accounts : d.data[a] # Pending
    /\ d.fetch = "all" => es \subseteq d.start
    /\ d.loaded /\ ~d.invalid => es \subseteq d.since

\* Pages of the statement that follow a cursor (0: from the top): they descend, down to
\* the cursor of the next, and lack nothing that was posted when they were asked for.
Chain(ps, c, base) ==
    /\ \A i \in DOMAIN ps : \A e \in ps[i].es : e \in Of(Acc) /\ (c = 0 \/ e < c)
    /\ \A i, j \in DOMAIN ps : i < j => \A e \in ps[i].es, f \in ps[j].es : f < e
    /\ ps # <<>> =>
          /\ NextCursor(ps) \in LastPage(ps).es \cup {0}
          /\ \A i \in DOMAIN ps : \A e \in ps[i].es : NextCursor(ps) <= e
          /\ \A e \in base : AccountOf[e] = Acc /\ (c = 0 \/ e < c) /\ NextCursor(ps) <= e =>
                \E i \in DOMAIN ps : e \in ps[i].es

\* The statement's query: a fetch of more pages goes on where the data end.
StatementOK(s, es) ==
    /\ s.since \subseteq posted /\ s.start \subseteq posted
    /\ s.loaded => Chain(s.data, 0, s.since)
    /\ s.fetch = "all" => Chain(s.read, 0, s.start)
    /\ s.fetch = "more" =>
          /\ s.loaded /\ NextCursor(s.data) # 0 /\ s.since \subseteq s.start
          /\ Len(s.read) <= 1 /\ Chain(s.read, NextCursor(s.data), s.start)
          /\ s.invalid => es = {}
    /\ s.fetch = "all" => es \subseteq s.start
    /\ s.loaded /\ ~s.invalid => es \subseteq s.since

\* The fetches under way are of the page that is shown.
FetchesAreShown ==
    /\ dash.fetch # "none" => route = "dashboard"
    /\ stmt.fetch # "none" => route = "statement"

\* The inductive invariant: both queries have what they were asked for, and were asked
\* for what they have to follow.
IInv ==
    /\ TypeOK /\ IsFiniteSet(posted) /\ FetchesAreShown
    /\ DashboardOK(dash, ForDashboard)
    /\ StatementOK(stmt, ForStatement)

-------------------------------------------------------------------------------
(* Finite sets of entries *)

\* How many entries of a set are newer than one.
Newer(S, e) == {f \in S : f > e}
Rank(S) == [e \in S |-> Cardinality(Newer(S, e))]

\* The entries of a finite set have the ranks from 0 on, each one of them.
LEMMA RankIsOnto ==
    ASSUME NEW S \in SUBSET Nat, IsFiniteSet(S)
    PROVE  /\ Cardinality(S) \in Nat
           /\ \A e \in S : Rank(S)[e] = Cardinality(Newer(S, e))
           /\ \A e \in S : Rank(S)[e] \in 0..(Cardinality(S) - 1)
           /\ \A e, f \in S : e < f => Rank(S)[f] < Rank(S)[e]
           /\ \A n \in 0..(Cardinality(S) - 1) : \E e \in S : Rank(S)[e] = n
<1> DEFINE m == Cardinality(S)
           T == 0..(m - 1)
<1>0. \A e \in S : e \in Nat
  OBVIOUS
<1>1. m \in Nat
  BY FS_CardinalityType
<1>2. IsFiniteSet(T) /\ Cardinality(T) = m
  <2> HIDE DEF m
  <2>1. /\ IsFiniteSet(0..(m - 1))
        /\ Cardinality(0..(m - 1)) = IF 0 > m - 1 THEN 0 ELSE (m - 1) - 0 + 1
    BY <1>1, FS_Interval
  <2> QED
    BY <1>1, <2>1
<1>3. ASSUME NEW e \in S
      PROVE  /\ IsFiniteSet(Newer(S, e)) /\ Cardinality(Newer(S, e)) \in 0..(m - 1)
             /\ Rank(S)[e] = Cardinality(Newer(S, e))
  <2>1. Newer(S, e) \in SUBSET (S \ {e})
    BY DEF Newer
  <2>2. IsFiniteSet(S \ {e}) /\ Cardinality(S \ {e}) = m - 1
    BY FS_RemoveElement
  <2>3. IsFiniteSet(Newer(S, e)) /\ Cardinality(Newer(S, e)) <= m - 1
    BY <2>1, <2>2, FS_Subset
  <2> QED
    BY <1>1, <2>3, FS_CardinalityType DEF Rank
<1>4. ASSUME NEW e \in S, NEW f \in S, e < f
      PROVE  Rank(S)[f] < Rank(S)[e]
  <2>1. Newer(S, f) \in SUBSET (Newer(S, e) \ {f})
    <3>1. ASSUME NEW g \in Newer(S, f) PROVE g \in Newer(S, e) \ {f}
      <4>1. g \in S /\ g > f /\ g \in Nat /\ f \in Nat /\ e \in Nat
        BY <1>0 DEF Newer
      <4>2. g > e /\ g # f
        BY <1>4, <4>1
      <4> QED
        BY <4>1, <4>2 DEF Newer
    <3> QED
      BY <3>1
  <2>2. f \in Newer(S, e)
    BY <1>4 DEF Newer
  <2>3. /\ IsFiniteSet(Newer(S, e) \ {f})
        /\ Cardinality(Newer(S, e) \ {f}) = Cardinality(Newer(S, e)) - 1
    BY <1>3, <2>2, FS_RemoveElement
  <2>4. Cardinality(Newer(S, f)) <= Cardinality(Newer(S, e)) - 1
    BY <2>1, <2>3, FS_Subset
  <2> QED
    BY <1>1, <1>3, <2>4
<1>5. Rank(S) \in [S -> T]
  BY <1>3 DEF Rank
<1>6. \A e, f \in S : Rank(S)[e] = Rank(S)[f] => e = f
  <2> SUFFICES ASSUME NEW e \in S, NEW f \in S, Rank(S)[e] = Rank(S)[f], e # f
               PROVE  FALSE
    OBVIOUS
  <2>1. Rank(S)[e] \in Int /\ (e < f \/ f < e)
    BY <1>1, <1>3
  <2> QED
    BY <1>4, <2>1
<1>7. Rank(S) \in Injection(S, T)
  BY <1>5, <1>6, Fun_IsInj
<1>8. Rank(S) \in Surjection(S, T)
  BY <1>2, <1>7, FS_Injection
<1> QED
  BY <1>1, <1>3, <1>4, <1>8, Fun_SurjectionProperties

\* A finite set of entries has an oldest.
LEMMA MinIs ==
    ASSUME NEW S \in SUBSET Nat, IsFiniteSet(S), S # {}
    PROVE  Min(S) \in S /\ \A e \in S : Min(S) <= e
<1>1. Cardinality(S) \in Nat \ {0}
  BY FS_CardinalityType, FS_EmptySet
<1>2. PICK y \in S : Rank(S)[y] = Cardinality(S) - 1
  BY <1>1, RankIsOnto
<1>3. ASSUME NEW e \in S PROVE y =< e
  <2>1. Rank(S)[e] \in 0..(Cardinality(S) - 1)
    BY RankIsOnto
  <2>2. ~(e < y)
    BY <1>1, <1>2, <2>1, RankIsOnto
  <2> QED
    BY <2>2
<1>4. \E z \in S : \A e \in S : z =< e
  BY <1>3
<1>5. Min(S) \in S /\ \A e \in S : Min(S) =< e
  BY <1>4 DEF Min
<1> QED
  BY <1>5

\* What Newest leaves out is older than all it takes, and it takes n entries if there
\* are as many.
LEMMA NewestIs ==
    ASSUME NEW S \in SUBSET Nat, IsFiniteSet(S), NEW n \in Nat \ {0}
    PROVE  /\ Newest(n, S) \subseteq S
           /\ S # {} => Newest(n, S) # {}
           /\ \A e \in S \ Newest(n, S) : \A f \in Newest(n, S) : e < f
           /\ \A e \in S \ Newest(n, S) : Cardinality(Newest(n, S)) = n
           /\ Cardinality(S) >= n => Cardinality(Newest(n, S)) = n
<1> DEFINE P == Newest(n, S)
<1>1. Cardinality(S) \in Nat /\ (S # {} => Cardinality(S) # 0)
  BY FS_CardinalityType, FS_EmptySet
<1>2. P = {e \in S : Cardinality(Newer(S, e)) < n}
  BY DEF Newest, Newer
<1> HIDE DEF P
<1>3. P = {e \in S : Rank(S)[e] < n}
  BY <1>2, RankIsOnto
<1>4. S # {} => P # {}
  <2> SUFFICES ASSUME S # {} PROVE P # {}
    OBVIOUS
  <2>1. PICK e \in S : Rank(S)[e] = 0
    BY <1>1, RankIsOnto
  <2> QED
    BY <1>3, <2>1
<1>5. ASSUME NEW e \in S \ P, NEW f \in P
      PROVE  e < f
  <2>1. e \in S /\ f \in S /\ Rank(S)[f] < n /\ ~(Rank(S)[e] < n)
    BY <1>3
  <2>2. e \in Nat /\ f \in Nat /\ Rank(S)[e] \in Nat /\ Rank(S)[f] \in Nat
    BY <1>1, <2>1, RankIsOnto
  <2>3. e # f /\ ~(f < e)
    BY <2>1, <2>2, RankIsOnto
  <2> QED
    BY <2>2, <2>3
<1>6. ASSUME Cardinality(S) >= n
      PROVE  Cardinality(P) = n
  <2> DEFINE R == [f \in P |-> Rank(S)[f]]
             T == 0..(n - 1)
  <2>1. IsFiniteSet(T) /\ Cardinality(T) = n
    BY FS_Interval
  <2>2. \A f \in P : f \in S /\ Rank(S)[f] \in T
    BY <1>1, <1>3, RankIsOnto
  <2>3. R \in [P -> T] /\ \A f \in P : R[f] = Rank(S)[f]
    BY <2>2
  <2>4. \A f, g \in P : R[f] = R[g] => f = g
    <3> SUFFICES ASSUME NEW f \in P, NEW g \in P, Rank(S)[f] = Rank(S)[g], f # g
                 PROVE  FALSE
      BY <2>3
    <3>1. f \in S /\ g \in S /\ Rank(S)[f] \in Int
      BY <2>2
    <3>2. f \in Nat /\ g \in Nat
      BY <3>1
    <3> QED
      BY <3>1, <3>2, RankIsOnto
  <2>5. \A k \in T : \E f \in P : R[f] = k
    <3> SUFFICES ASSUME NEW k \in T PROVE \E f \in P : R[f] = k
      OBVIOUS
    <3>1. k \in 0..(Cardinality(S) - 1) /\ k < n
      BY <1>1, <1>6
    <3>2. PICK f \in S : Rank(S)[f] = k
      BY <3>1, RankIsOnto
    <3> QED
      BY <1>3, <2>3, <3>1, <3>2
  <2>6. R \in Injection(P, T) /\ R \in Surjection(P, T)
    BY <2>3, <2>4, <2>5, Fun_IsInj, Fun_IsSurj
  <2> QED
    BY <2>1, <2>6, FS_Injection
<1>7. ASSUME NEW e \in S \ P
      PROVE  Cardinality(P) = n
  <2>1. Rank(S)[e] \in 0..(Cardinality(S) - 1) /\ ~(Rank(S)[e] < n)
    BY <1>3, RankIsOnto
  <2> QED
    BY <1>1, <1>6, <2>1
<1> QED
  BY <1>2, <1>4, <1>5, <1>6, <1>7 DEF P

-------------------------------------------------------------------------------
(* The pages the backend answers *)

\* What is posted for an account is a finite set of numbers.
LEMMA OfIs ==
    ASSUME TypeOK, IsFiniteSet(posted), NEW a \in Accounts, NEW S \in SUBSET Of(a)
    PROVE  S \in SUBSET Nat /\ S \in SUBSET Entries /\ IsFiniteSet(S)
<1>1. S \in SUBSET posted /\ posted \in SUBSET Entries
  BY DEF Of, TypeOK
<1> QED
  BY <1>1, ViewConstants, FS_Subset

\* A page of the dashboard has all that is posted in the window, or is full of newer
\* entries.
LEMMA RecentStatementIs ==
    ASSUME TypeOK, IsFiniteSet(posted), NEW a \in Accounts
    PROVE  /\ RecentStatement(a) \subseteq Of(a)
           /\ \A e \in posted : AccountOf[e] = a /\ DayOf[e] >= Today - Window =>
                 \/ e \in RecentStatement(a)
                 \/ /\ Cardinality(RecentStatement(a)) = DashboardPage
                    /\ \A f \in RecentStatement(a) : e < f
<1> DEFINE S == {e \in Of(a) : DayOf[e] >= Today - Window}
<1>1. S \in SUBSET Of(a)
  OBVIOUS
<1>2. S \in SUBSET Nat /\ IsFiniteSet(S)
  BY <1>1, OfIs
<1>3. DashboardPage \in Nat \ {0}
  BY ViewConstants
<1>4. \A e \in posted : AccountOf[e] = a /\ DayOf[e] >= Today - Window => e \in S
  BY DEF Of
<1>5. RecentStatement(a) = Newest(DashboardPage, S)
  BY DEF RecentStatement
<1> HIDE DEF S
<1>6. /\ Newest(DashboardPage, S) \subseteq S
      /\ \A e \in S \ Newest(DashboardPage, S) :
            /\ Cardinality(Newest(DashboardPage, S)) = DashboardPage
            /\ \A f \in Newest(DashboardPage, S) : e < f
  BY <1>2, <1>3, NewestIs
<1> QED
  BY <1>1, <1>4, <1>5, <1>6

\* A page of the statement follows its cursor without a gap, down to the next cursor,
\* which is its oldest entry.
LEMMA PageAfterIs ==
    ASSUME TypeOK, IsFiniteSet(posted), NEW c \in Nat
    PROVE  /\ PageAfter(c) \in StatementPages
           /\ PageAfter(c).es \subseteq Below(c)
           /\ \A e \in PageAfter(c).es : PageAfter(c).next <= e
           /\ \A e \in Below(c) : PageAfter(c).next <= e => e \in PageAfter(c).es
           /\ PageAfter(c).next # 0 => PageAfter(c).next \in PageAfter(c).es
<1> DEFINE S == Below(c)
           P == Newest(StatementPage, S)
           n == IF S = P THEN 0 ELSE Min(P)
<1>1. S \in SUBSET Nat /\ S \in SUBSET Entries /\ IsFiniteSet(S) /\ StatementPage \in Nat \ {0}
  <2>1. S \in SUBSET Of(Acc)
    BY DEF Below
  <2> QED
    BY <2>1, ViewConstants, OfIs
<1>2. PageAfter(c) = [es |-> P, next |-> n]
  BY DEF PageAfter
<1> HIDE DEF S
<1>3. /\ P \subseteq S /\ (S # {} => P # {})
      /\ \A e \in S \ P : \A f \in P : e < f
  BY <1>1, NewestIs
<1> HIDE DEF P
<1>4. P \in SUBSET Nat /\ P \in SUBSET Entries /\ IsFiniteSet(P)
  BY <1>1, <1>3, FS_Subset
<1>5. /\ n \in Entries \cup {0} /\ P \subseteq S
      /\ \A e \in P : n <= e
      /\ \A e \in S : n <= e => e \in P
      /\ n # 0 => n \in P
  <2>1. CASE S = P
    BY <1>4, <2>1
  <2>2. CASE S # P
    <3>1. P # {}
      BY <1>3, <2>2
    <3>2. n \in P /\ \A e \in P : n <= e
      BY <1>4, <2>2, <3>1, MinIs
    <3> HIDE DEF n
    <3>3. n \in Nat /\ n \in Entries
      BY <1>4, <3>2
    <3>4. ASSUME NEW e \in S, n <= e PROVE e \in P
      <4> SUFFICES ASSUME e \notin P PROVE FALSE
        OBVIOUS
      <4>1. e < n /\ e \in Nat
        BY <1>1, <1>3, <3>2
      <4> QED
        BY <3>3, <3>4, <4>1
    <3> QED
      BY <1>3, <3>2, <3>3, <3>4
  <2> QED
    BY <2>1, <2>2
<1> HIDE DEF n
<1>6. PageAfter(c) \in StatementPages /\ PageAfter(c).es = P /\ PageAfter(c).next = n
  BY <1>2, <1>4, <1>5 DEF StatementPages
<1> QED
  BY <1>5, <1>6 DEF S

-------------------------------------------------------------------------------
(* The dashboard's query *)

\* The query becomes d, and is to follow es.
LEMMA DashboardMoves ==
    ASSUME NEW d, NEW es, DashboardOK(d, es), UNCHANGED posted, dash' = d, ForDashboard' = es
    PROVE  DashboardOK(dash, ForDashboard)'
BY DEF DashboardOK, Covered, Of

\* A fetch asks for all that is posted.
LEMMA DashboardFetching ==
    ASSUME TypeOK, NEW d \in Dashboards, NEW es \in SUBSET posted, NEW fs, DashboardOK(d, fs),
           d.loaded /\ ~d.invalid => es \subseteq d.since
    PROVE  /\ Fetching(d, NoReads) \in Dashboards
           /\ DashboardOK(Fetching(d, NoReads), es)
<1> DEFINE q == Fetching(d, NoReads)
<1>1. NoReads \in [Accounts -> (SUBSET Entries) \cup {Degraded, Pending}]
  BY DEF NoReads
<1>2. /\ q \in Dashboards
      /\ q.loaded = d.loaded /\ q.data = d.data /\ q.since = d.since /\ q.invalid = d.invalid
      /\ q.fetch = "all" /\ q.read = NoReads /\ q.start = posted
  BY <1>1 DEF Fetching, Dashboards, TypeOK
<1>3. Covered(NoReads, posted)
  BY DEF Covered, NoReads
<1> QED
  BY <1>2, <1>3 DEF DashboardOK

\* Cancelling a fetch leaves the data.
LEMMA DashboardCancelled ==
    ASSUME NEW d \in Dashboards, NEW es, DashboardOK(d, es)
    PROVE  /\ Cancelled(d, NoReads) \in Dashboards
           /\ DashboardOK(Cancelled(d, NoReads), es)
<1> DEFINE q == Cancelled(d, NoReads)
<1>1. NoReads \in [Accounts -> (SUBSET Entries) \cup {Degraded, Pending}]
  BY DEF NoReads
<1>2. /\ q \in Dashboards
      /\ q.loaded = d.loaded /\ q.data = d.data /\ q.since = d.since /\ q.invalid = d.invalid
      /\ q.fetch = "none" /\ q.read = NoReads /\ q.start = d.start
  BY <1>1 DEF Cancelled, Dashboards
<1>3. Covered(NoReads, d.start)
  BY DEF Covered, NoReads
<1> QED
  BY <1>2, <1>3 DEF DashboardOK

\* A notification arrives: the query is fetched for it, unless its first fetch is under
\* way.
LEMMA DashboardInvalidated ==
    ASSUME TypeOK, NEW d \in Dashboards, NEW shown \in BOOLEAN, NEW es, DashboardOK(d, es),
           d.fetch # "none" => shown, NEW fs \in SUBSET posted,
           d.fetch # "none" /\ ~d.loaded => fs \subseteq es
    PROVE  /\ Invalidated(d, NoReads, shown) \in Dashboards
           /\ DashboardOK(Invalidated(d, NoReads, shown), fs)
<1> DEFINE i == [d EXCEPT !.invalid = TRUE]
<1>1. /\ i \in Dashboards /\ i.invalid = TRUE
      /\ i.loaded = d.loaded /\ i.data = d.data /\ i.since = d.since
      /\ i.fetch = d.fetch /\ i.read = d.read /\ i.start = d.start
  BY DEF Dashboards
<1> HIDE DEF i
<1>2. DashboardOK(i, es)
  BY <1>1 DEF DashboardOK
<1>3. CASE shown /\ (d.fetch = "none" \/ d.loaded)
  <2>1. Invalidated(d, NoReads, shown) = Fetching(i, NoReads)
    BY <1>3 DEF Invalidated, i
  <2> QED
    BY <1>1, <1>2, <2>1, DashboardFetching
<1>4. CASE ~(shown /\ (d.fetch = "none" \/ d.loaded))
  <2>1. Invalidated(d, NoReads, shown) = i
    BY <1>4 DEF Invalidated, i
  <2>2. d.fetch = "all" => fs \subseteq es
    BY <1>4
  <2> QED
    BY <1>1, <1>2, <2>1, <2>2 DEF DashboardOK
<1> QED
  BY <1>3, <1>4

-------------------------------------------------------------------------------
(* The statement's query *)

\* The query becomes s, and is to follow es.
LEMMA StatementMoves ==
    ASSUME NEW s, NEW es, StatementOK(s, es), UNCHANGED posted, stmt' = s, ForStatement' = es
    PROVE  StatementOK(stmt, ForStatement)'
BY DEF StatementOK, Chain, Of

\* No pages are a list of pages.
LEMMA NoPagesIs == <<>> \in Seq(StatementPages)
OBVIOUS

\* Lists of pages.
LEMMA PagesAre ==
    ASSUME NEW ps \in Seq(StatementPages)
    PROVE  /\ Len(ps) \in Nat /\ (ps = <<>> <=> Len(ps) = 0)
           /\ Len(ps) <= 1 => ps = <<>> \/ Len(ps) = 1
<1>1. Len(ps) \in Nat
  OBVIOUS
<1>2. ps = <<>> <=> Len(ps) = 0
  OBVIOUS
<1>3. \A n \in Nat : n <= 1 => n = 0 \/ n = 1
  OBVIOUS
<1> QED
  BY <1>1, <1>2, <1>3

\* One page more.
LEMMA OneMorePage ==
    ASSUME NEW ps \in Seq(StatementPages), NEW rs \in Seq(StatementPages), Len(rs) = 1
    PROVE  /\ ps \o rs \in Seq(StatementPages) /\ Len(ps \o rs) = Len(ps) + 1
           /\ \A i \in 1..Len(ps) : (ps \o rs)[i] = ps[i]
           /\ (ps \o rs)[Len(ps) + 1] = rs[1]
<1>1. Len(ps) \in Nat
  BY PagesAre
<1>2. /\ ps \o rs \in Seq(StatementPages) /\ Len(ps \o rs) = Len(ps) + Len(rs)
      /\ \A i \in 1..(Len(ps) + Len(rs)) :
            (ps \o rs)[i] = IF i <= Len(ps) THEN ps[i] ELSE rs[i - Len(ps)]
  BY ConcatProperties
<1> DEFINE n == Len(ps)
<1> HIDE DEF n
<1>3. n \in Nat /\ Len(ps \o rs) = n + 1
  BY <1>1, <1>2 DEF n
<1>4. \A i \in 1..(n + 1) : (ps \o rs)[i] = IF i <= n THEN ps[i] ELSE rs[i - n]
  BY <1>2 DEF n
<1>5. /\ \A i \in 1..n : i \in 1..(n + 1) /\ i <= n
      /\ n + 1 \in 1..(n + 1) /\ ~(n + 1 <= n) /\ (n + 1) - n = 1
  BY <1>3
<1> QED
  BY <1>2, <1>3, <1>4, <1>5 DEF n

\* No pages are a chain.
LEMMA EmptyChain ==
    ASSUME NEW c, NEW base
    PROVE  Chain(<<>>, c, base)
BY DEF Chain

\* A query with data or without.
Loadable(s) == s \in Statements /\ (s.loaded <=> s.data # <<>>)

\* A fetch asks for all that is posted.
LEMMA StatementFetching ==
    ASSUME TypeOK, NEW s, Loadable(s), NEW es \in SUBSET posted, NEW fs, StatementOK(s, fs),
           s.loaded /\ ~s.invalid => es \subseteq s.since
    PROVE  Loadable(Fetching(s, <<>>)) /\ StatementOK(Fetching(s, <<>>), es)
<1> DEFINE q == Fetching(s, <<>>)
<1>1. /\ q \in Statements
      /\ q.loaded = s.loaded /\ q.data = s.data /\ q.since = s.since /\ q.invalid = s.invalid
      /\ q.fetch = "all" /\ q.read = <<>> /\ q.start = posted
  BY NoPagesIs DEF Loadable, Fetching, Statements, TypeOK
<1> QED
  BY <1>1, EmptyChain DEF Loadable, StatementOK

\* Cancelling a fetch leaves the data.
LEMMA StatementCancelled ==
    ASSUME NEW s, Loadable(s), NEW es, StatementOK(s, es)
    PROVE  Loadable(Cancelled(s, <<>>)) /\ StatementOK(Cancelled(s, <<>>), es)
<1> DEFINE q == Cancelled(s, <<>>)
<1>1. /\ q \in Statements
      /\ q.loaded = s.loaded /\ q.data = s.data /\ q.since = s.since /\ q.invalid = s.invalid
      /\ q.fetch = "none" /\ q.read = <<>> /\ q.start = s.start
  BY NoPagesIs DEF Loadable, Cancelled, Statements
<1> QED
  BY <1>1 DEF Loadable, StatementOK

\* A notification arrives: the query is fetched for it, unless its first fetch is under
\* way.
LEMMA StatementInvalidated ==
    ASSUME TypeOK, NEW s, Loadable(s), NEW shown \in BOOLEAN, NEW es, StatementOK(s, es),
           s.fetch # "none" => shown, NEW fs \in SUBSET posted,
           s.fetch # "none" /\ ~s.loaded => fs \subseteq es
    PROVE  /\ Loadable(Invalidated(s, <<>>, shown))
           /\ StatementOK(Invalidated(s, <<>>, shown), fs)
<1> DEFINE i == [s EXCEPT !.invalid = TRUE]
<1>1. /\ i \in Statements /\ i.invalid = TRUE
      /\ i.loaded = s.loaded /\ i.data = s.data /\ i.since = s.since
      /\ i.fetch = s.fetch /\ i.read = s.read /\ i.start = s.start
  BY DEF Loadable, Statements
<1> HIDE DEF i
<1>2. Loadable(i)
  BY <1>1 DEF Loadable
<1>3. CASE shown /\ (s.fetch = "none" \/ s.loaded)
  <2>1. Invalidated(s, <<>>, shown) = Fetching(i, <<>>)
    BY <1>3 DEF Invalidated, i
  <2>2. /\ Fetching(i, <<>>) \in Statements
        /\ Fetching(i, <<>>).loaded = s.loaded /\ Fetching(i, <<>>).data = s.data
        /\ Fetching(i, <<>>).since = s.since /\ Fetching(i, <<>>).invalid = TRUE
        /\ Fetching(i, <<>>).fetch = "all" /\ Fetching(i, <<>>).read = <<>>
        /\ Fetching(i, <<>>).start = posted
    BY <1>1, NoPagesIs DEF Fetching, Statements, TypeOK
  <2> QED
    BY <1>2, <2>1, <2>2, EmptyChain DEF Loadable, StatementOK
<1>4. CASE ~(shown /\ (s.fetch = "none" \/ s.loaded))
  <2>1. Invalidated(s, <<>>, shown) = i
    BY <1>4 DEF Invalidated, i
  <2>2. s.fetch # "none" => ~s.loaded /\ fs \subseteq es
    BY <1>4
  <2> QED
    BY <1>1, <1>2, <2>1, <2>2 DEF StatementOK
<1> QED
  BY <1>3, <1>4

\* A page follows on from a cursor.
FollowsOn(pg, d, base) ==
    /\ \A e \in pg.es : e \in Of(Acc) /\ (d = 0 \/ e < d) /\ pg.next <= e
    /\ pg.next \in pg.es \cup {0}
    /\ \A e \in base : AccountOf[e] = Acc /\ (d = 0 \/ e < d) /\ pg.next <= e => e \in pg.es

\* A page that the backend answers does.
LEMMA PageFollowsOn ==
    ASSUME TypeOK, IsFiniteSet(posted), NEW d \in Nat, NEW base \in SUBSET posted
    PROVE  PageAfter(d) \in StatementPages /\ FollowsOn(PageAfter(d), d, base)
<1>1. \A e \in posted : AccountOf[e] = Acc /\ (d = 0 \/ e < d) => e \in Below(d)
  BY DEF Below, Of
<1>2. \A e \in Below(d) : e \in Of(Acc) /\ (d = 0 \/ e < d)
  BY DEF Below
<1> QED
  BY <1>1, <1>2, PageAfterIs DEF FollowsOn

\* The only page of a chain does.
LEMMA OnePageFollowsOn ==
    ASSUME NEW rs \in Seq(StatementPages), Len(rs) = 1, NEW d, NEW base, Chain(rs, d, base)
    PROVE  rs[1] \in StatementPages /\ FollowsOn(rs[1], d, base)
<1>1. rs # <<>> /\ DOMAIN rs = {1} /\ rs[1] \in StatementPages
  OBVIOUS
<1>2. NextCursor(rs) = rs[1].next /\ LastPage(rs) = rs[1]
  BY <1>1 DEF NextCursor, LastPage
<1> QED
  BY <1>1, <1>2, Zenon DEF Chain, FollowsOn

\* A chain gets longer by a page that follows on from its cursor.
LEMMA ChainGrows ==
    ASSUME TypeOK, IsFiniteSet(posted), NEW c \in Nat, NEW base \in SUBSET posted,
           NEW ps \in Seq(StatementPages), Chain(ps, c, base),
           NEW d, d = IF ps = <<>> THEN c ELSE NextCursor(ps), ps # <<>> => d # 0,
           NEW pg \in StatementPages, FollowsOn(pg, d, base),
           NEW qs \in Seq(StatementPages), Len(qs) = Len(ps) + 1,
           \A i \in 1..Len(ps) : qs[i] = ps[i], qs[Len(ps) + 1] = pg
    PROVE  qs # <<>> /\ Chain(qs, c, base)
<1> DEFINE n == Len(ps)
<1>1. /\ n \in Nat /\ qs # <<>> /\ DOMAIN ps = 1..n /\ DOMAIN qs = 1..(n + 1)
      /\ (ps = <<>> <=> n = 0) /\ Len(qs) = n + 1
  <2>1. n \in Nat /\ DOMAIN ps = 1..n
    OBVIOUS
  <2>2. ps = <<>> <=> n = 0
    OBVIOUS
  <2>3. DOMAIN qs = 1..(n + 1) /\ Len(qs) = n + 1
    OBVIOUS
  <2>4. qs # <<>>
    <3>1. Len(qs) # Len(<<>>)
      BY <2>1, <2>3
    <3> QED
      BY <3>1
  <2> HIDE DEF n
  <2> QED
    BY <2>1, <2>2, <2>3, <2>4
<1>2. NextCursor(qs) = pg.next /\ LastPage(qs) = pg
  <2>1. LastPage(qs) = qs[Len(ps) + 1]
    BY DEF LastPage
  <2>2. LastPage(qs) = pg
    BY <2>1
  <2> QED
    BY <1>1, <2>2 DEF NextCursor
<1>3. \A i \in 1..n : ps[i] \in StatementPages /\ ps[i].es \subseteq Entries /\ qs[i] = ps[i]
  <2>1. \A i \in 1..n : ps[i] \in StatementPages /\ qs[i] = ps[i]
    OBVIOUS
  <2>2. \A p \in StatementPages : p.es \subseteq Entries
    BY DEF StatementPages
  <2> QED
    BY <2>1, <2>2
<1>4. Entries \subseteq Nat \ {0} /\ pg.es \subseteq Entries /\ pg.next \in Entries \cup {0}
  BY ViewConstants DEF StatementPages
<1>5. ps # <<>> => d \in Nat \ {0} /\ d = NextCursor(ps)
  <2> SUFFICES ASSUME ps # <<>> PROVE d \in Nat
    OBVIOUS
  <2>1. LastPage(ps) \in StatementPages /\ NextCursor(ps) = LastPage(ps).next
    BY <1>1, <1>3 DEF LastPage, NextCursor
  <2> QED
    BY <1>4, <2>1 DEF StatementPages
<1>6. \A i \in 1..n : \A e \in ps[i].es :
         e \in Nat /\ e \in Of(Acc) /\ (c = 0 \/ e < c) /\ d <= e
  <2> SUFFICES ASSUME NEW i \in 1..n, NEW e \in ps[i].es
               PROVE  e \in Nat /\ e \in Of(Acc) /\ (c = 0 \/ e < c) /\ d <= e
    OBVIOUS
  <2>1. i \in DOMAIN ps /\ ps # <<>>
    BY <1>1
  <2>2. e \in Nat
    BY <1>3, <1>4
  <2>3. e \in Of(Acc) /\ (c = 0 \/ e < c) /\ NextCursor(ps) <= e
    BY <2>1 DEF Chain
  <2> QED
    BY <1>5, <2>1, <2>2, <2>3
<1>7. \A e \in pg.es : e \in Nat /\ e \in Of(Acc) /\ (d = 0 \/ e < d) /\ pg.next <= e
  BY <1>4 DEF FollowsOn
<1>8. ps # <<>> => c = 0 \/ d < c
  <2> SUFFICES ASSUME ps # <<>> PROVE c = 0 \/ d < c
    OBVIOUS
  <2>1. d \in LastPage(ps).es
    BY <1>5 DEF Chain
  <2> QED
    BY <1>1, <1>6, <2>1 DEF LastPage
<1> HIDE DEF n
<1>9. \A i \in 1..(n + 1) : \A e \in qs[i].es : e \in Of(Acc) /\ (c = 0 \/ e < c)
  <2>1. \A e \in pg.es : c = 0 \/ e < c
    <3>1. CASE ps = <<>>
      BY <1>7, <3>1
    <3>2. CASE ps # <<>>
      BY <1>5, <1>7, <1>8, <3>2
    <3> QED
      BY <3>1, <3>2
  <2>2. qs[n + 1] = pg
    BY DEF n
  <2>3. \A i \in 1..(n + 1) : i \in 1..n \/ i = n + 1
    BY <1>1
  <2> QED
    BY <1>3, <1>6, <1>7, <2>1, <2>2, <2>3
<1>10. \A i, j \in 1..(n + 1) : i < j => \A e \in qs[i].es, f \in qs[j].es : f < e
  <2> SUFFICES ASSUME NEW i \in 1..(n + 1), NEW j \in 1..(n + 1), i < j,
                      NEW e \in qs[i].es, NEW f \in qs[j].es
               PROVE  f < e
    OBVIOUS
  <2>1. i \in 1..n /\ qs[i] = ps[i] /\ ps # <<>>
    BY <1>1, <1>3
  <2>2. CASE j \in 1..n
    BY <1>1, <1>3, <2>1, <2>2 DEF Chain
  <2>3. CASE j = n + 1
    <3>1. qs[j] = pg
      BY <2>3 DEF n
    <3> QED
      BY <1>5, <1>6, <1>7, <2>1, <3>1
  <2> QED
    BY <1>1, <2>2, <2>3
<1>11. \A i \in 1..(n + 1) : \A e \in qs[i].es : pg.next <= e
  <2> SUFFICES ASSUME NEW i \in 1..(n + 1), NEW e \in qs[i].es PROVE pg.next <= e
    OBVIOUS
  <2>1. CASE i = n + 1
    <3>1. qs[i] = pg
      BY <2>1 DEF n
    <3> QED
      BY <1>7, <3>1
  <2>2. CASE i \in 1..n
    <3>1. qs[i] = ps[i] /\ ps # <<>> /\ d <= e /\ e \in Nat
      BY <1>1, <1>3, <1>6, <2>2
    <3>2. pg.next \in Nat /\ (pg.next = 0 \/ pg.next < d)
      <4>1. pg.next = 0 \/ pg.next \in pg.es
        BY DEF FollowsOn
      <4> QED
        BY <1>4, <1>5, <1>7, <3>1, <4>1
    <3> QED
      BY <1>5, <3>1, <3>2
  <2> QED
    BY <1>1, <2>1, <2>2
<1>12. ASSUME NEW e \in base, AccountOf[e] = Acc, c = 0 \/ e < c, pg.next <= e
       PROVE  \E i \in 1..(n + 1) : e \in qs[i].es
  <2>0. qs[n + 1] = pg /\ n + 1 \in 1..(n + 1) /\ e \in Nat
    <3>1. e \in Entries
      BY DEF TypeOK
    <3> QED
      BY <1>1, <1>4, <3>1 DEF n
  <2>1. CASE ps = <<>>
    BY <1>12, <2>0, <2>1 DEF FollowsOn
  <2>2. CASE ps # <<>> /\ e < d
    BY <1>12, <2>0, <2>2 DEF FollowsOn
  <2>3. CASE ps # <<>> /\ ~(e < d)
    <3>1. NextCursor(ps) <= e
      BY <1>5, <2>0, <2>3
    <3>2. \E i \in 1..n : e \in ps[i].es
      BY <1>1, <1>12, <2>3, <3>1 DEF Chain
    <3> QED
      BY <1>1, <1>3, <3>2
  <2> QED
    BY <2>1, <2>2, <2>3
<1>13. pg.next \in pg.es \cup {0}
  BY DEF FollowsOn
<1> QED
  BY <1>1, <1>2, <1>9, <1>10, <1>11, <1>12, <1>13 DEF Chain

-------------------------------------------------------------------------------
(* The actions *)

\* The parts of the invariant, for queries that become d and s.
LEMMA QueriesMove ==
    ASSUME IInv, UNCHANGED posted, route' \in Routes,
           NEW d \in Dashboards, NEW s, Loadable(s), dash' = d, stmt' = s,
           told' \in SUBSET posted, unseen' \in [{"dashboard", "statement"} -> SUBSET Entries],
           DashboardOK(d, ForDashboard'), StatementOK(s, ForStatement'),
           d.fetch # "none" => route' = "dashboard", s.fetch # "none" => route' = "statement"
    PROVE  IInv'
<1>1. TypeOK'
  BY DEF IInv, TypeOK, Loadable
<1>2. DashboardOK(dash, ForDashboard)'
  BY DashboardMoves
<1>3. StatementOK(stmt, ForStatement)'
  BY StatementMoves
<1>4. FetchesAreShown'
  BY DEF FetchesAreShown
<1> QED
  BY <1>1, <1>2, <1>3, <1>4 DEF IInv

\* What the invariant says of the queries as they are.
LEMMA QueriesAre ==
    ASSUME IInv
    PROVE  /\ posted \in SUBSET Entries /\ IsFiniteSet(posted) /\ route \in Routes
           /\ dash \in Dashboards /\ Loadable(stmt)
           /\ told \in SUBSET posted /\ unseen \in [{"dashboard", "statement"} -> SUBSET Entries]
           /\ ForDashboard \in SUBSET posted /\ ForStatement \in SUBSET posted
           /\ DashboardOK(dash, ForDashboard) /\ StatementOK(stmt, ForStatement)
           /\ dash.fetch # "none" => route = "dashboard"
           /\ stmt.fetch # "none" => route = "statement"
BY DEF IInv, TypeOK, FetchesAreShown, ForDashboard, ForStatement, Loadable

\* A movement commits.
LEMMA PostKeeps ==
    ASSUME IInv, NEW e \in Entries, Post(e)
    PROVE  IInv'
<1> USE DEF IInv
<1>1. posted' = posted \cup {e} /\ UNCHANGED <<route, dash, stmt, told, unseen>>
  BY DEF Post
<1>2. TypeOK'
  BY <1>1 DEF TypeOK
<1>3. IsFiniteSet(posted)'
  BY <1>1, FS_AddElement
<1>4. ForDashboard' = ForDashboard /\ ForStatement' = ForStatement
  BY <1>1 DEF ForDashboard, ForStatement
<1>5. \A a \in Accounts : Of(a) \subseteq Of(a)'
  BY <1>1 DEF Of
<1>6. DashboardOK(dash, ForDashboard)'
  BY <1>1, <1>4, <1>5 DEF DashboardOK, Covered
<1>7. \A ps, c, base : Chain(ps, c, base) => Chain(ps, c, base)'
  BY <1>5, ViewConstants DEF Chain
<1>8. StatementOK(stmt, ForStatement)'
  BY <1>1, <1>4, <1>7 DEF StatementOK
<1> QED
  BY <1>1, <1>2, <1>3, <1>6, <1>8 DEF FetchesAreShown

\* A notification arrives.
LEMMA AnnounceKeeps ==
    ASSUME IInv, NEW e \in Entries, Announce(e)
    PROVE  IInv'
<1> DEFINE shownD == route = "dashboard"
           shownS == route = "statement"
           d == Invalidated(dash, NoReads, shownD)
           s == IF AccountOf[e] = Acc THEN Invalidated(stmt, <<>>, shownS) ELSE stmt
<1>1. /\ e \in posted /\ told' = told \cup {e} /\ UNCHANGED <<posted, route>>
      /\ dash' = d /\ stmt' = s
      /\ unseen' = [unseen EXCEPT
            !["dashboard"] = IF dash.fetch # "none" /\ ~dash.loaded THEN @ \cup {e} ELSE @,
            !["statement"] = IF stmt.fetch # "none" /\ ~stmt.loaded THEN @ \cup {e} ELSE @]
  BY DEF Announce, Invalidates
<1>2. /\ unseen' \in [{"dashboard", "statement"} -> SUBSET Entries]
      /\ unseen'["dashboard"] = IF dash.fetch # "none" /\ ~dash.loaded
                                THEN unseen["dashboard"] \cup {e} ELSE unseen["dashboard"]
      /\ unseen'["statement"] = IF stmt.fetch # "none" /\ ~stmt.loaded
                                THEN unseen["statement"] \cup {e} ELSE unseen["statement"]
  BY <1>1, QueriesAre
<1>3. told' \in SUBSET posted /\ ForDashboard' \in SUBSET posted /\ ForStatement' \in SUBSET posted
  BY <1>1, QueriesAre DEF ForDashboard, ForStatement
<1>4. d \in Dashboards /\ DashboardOK(d, ForDashboard') /\ (d.fetch # "none" => shownD)
  <2>1. dash.fetch # "none" /\ ~dash.loaded => ForDashboard' \subseteq ForDashboard
    BY <1>1, <1>2 DEF ForDashboard
  <2>2. d \in Dashboards /\ DashboardOK(d, ForDashboard')
    BY <1>3, <2>1, QueriesAre, DashboardInvalidated DEF IInv
  <2>3. ~shownD => d.fetch = dash.fetch
    BY QueriesAre DEF Invalidated, Dashboards
  <2> QED
    BY <2>2, <2>3, QueriesAre
<1>5. Loadable(s) /\ StatementOK(s, ForStatement') /\ (s.fetch # "none" => shownS)
  <2>1. CASE AccountOf[e] = Acc
    <3>1. stmt.fetch # "none" /\ ~stmt.loaded => ForStatement' \subseteq ForStatement
      BY <1>1, <1>2 DEF ForStatement
    <3>2. Loadable(s) /\ StatementOK(s, ForStatement')
      BY <1>3, <2>1, <3>1, QueriesAre, StatementInvalidated DEF IInv
    <3>3. ~shownS => s.fetch = stmt.fetch
      BY <2>1, QueriesAre DEF Invalidated, Loadable, Statements
    <3> QED
      BY <3>2, <3>3, QueriesAre
  <2>2. CASE AccountOf[e] # Acc
    <3>1. ForStatement' \subseteq ForStatement
      BY <1>1, <1>2, <2>2 DEF ForStatement
    <3>2. s = stmt
      BY <2>2
    <3> QED
      BY <3>1, <3>2, QueriesAre DEF StatementOK
  <2> QED
    BY <2>1, <2>2
<1> HIDE DEF d, s
<1> QED
  BY <1>1, <1>2, <1>3, <1>4, <1>5, QueriesAre, QueriesMove

\* Nothing is announced: what the queries have to follow stays the same.
LEMMA SameToFollow ==
    ASSUME UNCHANGED <<told, unseen>>
    PROVE  ForDashboard' = ForDashboard /\ ForStatement' = ForStatement
BY DEF ForDashboard, ForStatement

\* The user goes to another page: fetches are cancelled, and the page's own may start.
LEMMA NavigateKeeps ==
    ASSUME IInv, NEW to \in Routes, NEW old \in BOOLEAN, Navigate(to, old)
    PROVE  IInv'
<1> DEFINE c == Cancelled(dash, NoReads)
           b == Cancelled(stmt, <<>>)
           d == IF to = "dashboard" THEN Mounted(c, NoReads, old) ELSE c
           s == IF to = "statement" THEN Mounted(b, <<>>, old) ELSE b
<1>1. route' = to /\ dash' = d /\ stmt' = s /\ UNCHANGED <<posted, told, unseen>>
  BY DEF Navigate
<1>2. ForDashboard' = ForDashboard /\ ForStatement' = ForStatement
  BY <1>1, SameToFollow
<1>3. c \in Dashboards /\ DashboardOK(c, ForDashboard) /\ c.fetch = "none"
  BY QueriesAre, DashboardCancelled DEF Cancelled, Dashboards
<1>4. Loadable(b) /\ StatementOK(b, ForStatement) /\ b.fetch = "none"
  BY QueriesAre, StatementCancelled DEF Cancelled, Loadable, Statements
<1> HIDE DEF c, b
<1>5. /\ Fetching(c, NoReads) \in Dashboards
      /\ DashboardOK(Fetching(c, NoReads), ForDashboard)
  <2>1. c.loaded /\ ~c.invalid => ForDashboard \subseteq c.since
    BY <1>3 DEF DashboardOK
  <2> QED
    BY <1>3, <2>1, QueriesAre, DashboardFetching DEF IInv
<1>6. Loadable(Fetching(b, <<>>)) /\ StatementOK(Fetching(b, <<>>), ForStatement)
  <2>1. b.loaded /\ ~b.invalid => ForStatement \subseteq b.since
    BY <1>4 DEF StatementOK
  <2> QED
    BY <1>4, <2>1, QueriesAre, StatementFetching DEF IInv
<1>7. d = c \/ (to = "dashboard" /\ d = Fetching(c, NoReads))
  BY DEF Mounted
<1>8. s = b \/ (to = "statement" /\ s = Fetching(b, <<>>))
  BY DEF Mounted
<1> HIDE DEF d, s
<1>9. d \in Dashboards /\ DashboardOK(d, ForDashboard) /\ (d.fetch # "none" => to = "dashboard")
  BY <1>3, <1>5, <1>7
<1>10. Loadable(s) /\ StatementOK(s, ForStatement) /\ (s.fetch # "none" => to = "statement")
  BY <1>4, <1>6, <1>8
<1> QED
  BY <1>1, <1>2, <1>9, <1>10, QueriesAre, QueriesMove

\* A query changes, and nothing else.
LEMMA DashboardChanges ==
    ASSUME IInv, NEW d \in Dashboards, DashboardOK(d, ForDashboard), route = "dashboard",
           dash' = d, UNCHANGED <<posted, route, stmt, told, unseen>>
    PROVE  IInv'
BY SameToFollow, QueriesAre, QueriesMove

\* The same for the statement's query.
LEMMA StatementChanges ==
    ASSUME IInv, NEW s, Loadable(s), StatementOK(s, ForStatement), route = "statement",
           stmt' = s, UNCHANGED <<posted, route, dash, told, unseen>>
    PROVE  IInv'
BY SameToFollow, QueriesAre, QueriesMove

\* The queries can always be fetched afresh.
LEMMA Refetched ==
    ASSUME IInv
    PROVE  /\ Fetching(dash, NoReads) \in Dashboards
           /\ DashboardOK(Fetching(dash, NoReads), ForDashboard)
           /\ Loadable(Fetching(stmt, <<>>)) /\ StatementOK(Fetching(stmt, <<>>), ForStatement)
<1>1. dash.loaded /\ ~dash.invalid => ForDashboard \subseteq dash.since
  BY QueriesAre DEF DashboardOK
<1>2. stmt.loaded /\ ~stmt.invalid => ForStatement \subseteq stmt.since
  BY QueriesAre DEF StatementOK
<1> QED
  BY <1>1, <1>2, QueriesAre, DashboardFetching, StatementFetching DEF IInv

\* The window gets the focus.
LEMMA FocusKeeps ==
    ASSUME IInv, Focus
    PROVE  IInv'
<1>1. CASE route = "dashboard" /\ dash' = Fetching(dash, NoReads)
           /\ UNCHANGED <<posted, route, stmt, told, unseen>>
  BY <1>1, Refetched, DashboardChanges
<1>2. CASE route = "statement" /\ stmt' = Fetching(stmt, <<>>)
           /\ UNCHANGED <<posted, route, dash, told, unseen>>
  BY <1>2, Refetched, StatementChanges
<1> QED
  BY <1>1, <1>2 DEF Focus

\* One of the dashboard's statements is read, or degraded.
LEMMA ReadDashboardKeeps ==
    ASSUME IInv, NEW a \in Accounts, ReadDashboard(a)
    PROVE  IInv'
<1>1. PICK r \in {RecentStatement(a), Degraded} : dash' = [dash EXCEPT !.read[a] = r]
  BY DEF ReadDashboard
<1> DEFINE d == [dash EXCEPT !.read[a] = r]
<1>2. dash.fetch = "all" /\ UNCHANGED <<posted, route, stmt, told, unseen>>
  BY DEF ReadDashboard
<1>3. r \in (SUBSET Entries) \cup {Degraded, Pending}
  <2>1. RecentStatement(a) \in SUBSET Of(a)
    BY QueriesAre, RecentStatementIs DEF IInv
  <2>2. RecentStatement(a) \in SUBSET Entries
    BY <2>1, QueriesAre, OfIs DEF IInv
  <2> QED
    BY <2>2
<1>4. /\ d \in Dashboards
      /\ d.loaded = dash.loaded /\ d.data = dash.data /\ d.since = dash.since
      /\ d.invalid = dash.invalid /\ d.fetch = dash.fetch /\ d.start = dash.start
      /\ \A b \in Accounts : d.read[b] = IF b = a THEN r ELSE dash.read[b]
  BY <1>3, QueriesAre DEF Dashboards
<1> HIDE DEF d
<1>5. Covered(d.read, d.start)
  <2>1. dash.start \subseteq posted /\ Covered(dash.read, dash.start)
    BY QueriesAre DEF DashboardOK
  <2>2. /\ RecentStatement(a) \subseteq Of(a)
        /\ \A e \in posted : AccountOf[e] = a /\ DayOf[e] >= Today - Window =>
              \/ e \in RecentStatement(a)
              \/ /\ Cardinality(RecentStatement(a)) = DashboardPage
                 /\ \A f \in RecentStatement(a) : e < f
    BY QueriesAre, RecentStatementIs DEF IInv
  <2>3. r = Degraded \/ r = RecentStatement(a)
    OBVIOUS
  <2> SUFFICES ASSUME NEW b \in Accounts, d.read[b] \notin {Pending, Degraded}
               PROVE  /\ d.read[b] \subseteq Of(b)
                      /\ \A e \in d.start : AccountOf[e] = b /\ DayOf[e] >= Today - Window =>
                            \/ e \in d.read[b]
                            \/ /\ Cardinality(d.read[b]) = DashboardPage
                               /\ \A f \in d.read[b] : e < f
    BY DEF Covered
  <2>4. CASE b = a
    <3>1. d.read[b] = RecentStatement(a)
      BY <1>4, <2>3, <2>4
    <3> QED
      BY <1>4, <2>1, <2>2, <2>4, <3>1
  <2>5. CASE b # a
    BY <1>4, <2>1, <2>5 DEF Covered
  <2> QED
    BY <2>4, <2>5
<1>6. DashboardOK(d, ForDashboard)
  BY <1>4, <1>5, QueriesAre DEF DashboardOK
<1> QED
  BY <1>1, <1>2, <1>4, <1>6, QueriesAre, DashboardChanges DEF d

\* The dashboard's answer is shown.
LEMMA ShowDashboardKeeps ==
    ASSUME IInv, ShowDashboard
    PROVE  IInv'
<1> DEFINE d == [Cancelled(dash, NoReads) EXCEPT
                    !.loaded = TRUE, !.data = dash.read, !.since = dash.start, !.invalid = FALSE]
<1>1. /\ dash.fetch = "all" /\ \A a \in Accounts : dash.read[a] # Pending
      /\ dash' = d /\ UNCHANGED <<posted, route, stmt, told, unseen>>
  BY DEF ShowDashboard
<1>2. NoReads \in [Accounts -> (SUBSET Entries) \cup {Degraded, Pending}]
  BY DEF NoReads
<1>3. /\ d \in Dashboards
      /\ d.loaded = TRUE /\ d.data = dash.read /\ d.since = dash.start
      /\ d.invalid = FALSE /\ d.fetch = "none" /\ d.start = dash.start /\ d.read = NoReads
  BY <1>2, QueriesAre DEF Cancelled, Dashboards
<1> HIDE DEF d
<1>4. Covered(NoReads, dash.start)
  BY DEF Covered, NoReads
<1>5. DashboardOK(d, ForDashboard)
  BY <1>1, <1>3, <1>4, QueriesAre DEF DashboardOK
<1> QED
  BY <1>1, <1>3, <1>5, QueriesAre, DashboardChanges

\* The dashboard's answer is lost.
LEMMA FailDashboardKeeps ==
    ASSUME IInv, FailDashboard
    PROVE  IInv'
<1>1. /\ dash.fetch = "all"
      /\ dash' = Fetching(dash, NoReads) \/ dash' = Cancelled(dash, NoReads)
      /\ UNCHANGED <<posted, route, stmt, told, unseen>>
  BY DEF FailDashboard
<1>2. /\ Cancelled(dash, NoReads) \in Dashboards
      /\ DashboardOK(Cancelled(dash, NoReads), ForDashboard)
  BY QueriesAre, DashboardCancelled
<1> QED
  BY <1>1, <1>2, QueriesAre, Refetched, DashboardChanges

\* The next page of the statement is read.
LEMMA ReadStatementKeeps ==
    ASSUME IInv, ReadStatement
    PROVE  IInv'
<1> DEFINE c == NextCursor(IF stmt.fetch = "more" THEN stmt.data ELSE stmt.read)
           read == Append(stmt.read, PageAfter(c))
           s == [stmt EXCEPT !.read = read]
<1>1. /\ stmt.fetch # "none" /\ ~ReadAll
      /\ stmt' = s /\ UNCHANGED <<posted, route, dash, told, unseen>>
  BY DEF ReadStatement
<1>2. /\ stmt \in Statements /\ (stmt.loaded <=> stmt.data # <<>>)
      /\ stmt.read \in Seq(StatementPages) /\ stmt.data \in Seq(StatementPages)
      /\ stmt.fetch \in {"none", "all", "more"}
      /\ stmt.start \in SUBSET posted /\ posted \in SUBSET Entries
  BY QueriesAre DEF Loadable, Statements, StatementOK
<1>3. \A ps \in Seq(StatementPages) : NextCursor(ps) \in Nat
  <2> SUFFICES ASSUME NEW ps \in Seq(StatementPages), ps # <<>> PROVE LastPage(ps).next \in Nat
    BY DEF NextCursor
  <2>1. LastPage(ps) \in StatementPages
    <3>1. Len(ps) \in Nat /\ DOMAIN ps = 1..Len(ps) /\ (ps = <<>> <=> Len(ps) = 0)
      OBVIOUS
    <3>2. Len(ps) \in 1..Len(ps)
      BY <3>1
    <3> QED
      BY <3>2 DEF LastPage
  <2> QED
    BY <2>1, ViewConstants DEF StatementPages
<1>4. c \in Nat /\ PageAfter(c) \in StatementPages /\ FollowsOn(PageAfter(c), c, stmt.start)
  <2>1. c \in Nat
    BY <1>2, <1>3
  <2> HIDE DEF c
  <2> QED
    BY <1>2, <2>1, QueriesAre, PageFollowsOn DEF IInv
<1>5. /\ read \in Seq(StatementPages) /\ Len(read) = Len(stmt.read) + 1
      /\ \A i \in 1..Len(stmt.read) : read[i] = stmt.read[i]
      /\ read[Len(stmt.read) + 1] = PageAfter(c)
  <2> HIDE DEF c
  <2> DEFINE pg == PageAfter(c)
  <2>1. pg \in StatementPages
    BY <1>4
  <2> HIDE DEF pg
  <2>2. /\ Append(stmt.read, pg) \in Seq(StatementPages)
        /\ Len(Append(stmt.read, pg)) = Len(stmt.read) + 1
        /\ \A i \in 1..Len(stmt.read) : Append(stmt.read, pg)[i] = stmt.read[i]
        /\ Append(stmt.read, pg)[Len(stmt.read) + 1] = pg
    BY <1>2, <2>1
  <2> QED
    BY <2>2 DEF pg
<1> HIDE DEF read
<1>6. /\ s \in Statements
      /\ s.loaded = stmt.loaded /\ s.data = stmt.data /\ s.since = stmt.since
      /\ s.invalid = stmt.invalid /\ s.fetch = stmt.fetch /\ s.start = stmt.start /\ s.read = read
  BY <1>2, <1>5 DEF Statements
<1> HIDE DEF s
<1>7. stmt.fetch = "all" => Chain(read, 0, stmt.start)
  <2> SUFFICES ASSUME stmt.fetch = "all" PROVE Chain(read, 0, stmt.start)
    OBVIOUS
  <2>1. Chain(stmt.read, 0, stmt.start)
    BY QueriesAre DEF StatementOK
  <2>2. c = NextCursor(stmt.read)
    OBVIOUS
  <2>3. c = IF stmt.read = <<>> THEN 0 ELSE NextCursor(stmt.read)
    BY <2>2 DEF NextCursor
  <2>4. stmt.read # <<>> => c # 0
    BY <1>1, <2>2 DEF ReadAll
  <2> HIDE DEF c
  <2> QED
    BY <1>2, <1>4, <1>5, <2>1, <2>3, <2>4, QueriesAre, ChainGrows DEF IInv
<1>8. stmt.fetch = "more" =>
         stmt.read = <<>> /\ Len(read) <= 1 /\ Chain(read, NextCursor(stmt.data), stmt.start)
  <2> SUFFICES ASSUME stmt.fetch = "more"
               PROVE  /\ stmt.read = <<>> /\ Len(read) <= 1
                      /\ Chain(read, NextCursor(stmt.data), stmt.start)
    OBVIOUS
  <2>1. Len(stmt.read) <= 1 /\ Chain(stmt.read, NextCursor(stmt.data), stmt.start)
    BY QueriesAre DEF StatementOK
  <2>2. Len(stmt.read) # 1
    BY <1>1 DEF ReadAll, Wanted
  <2>3. stmt.read = <<>> /\ Len(stmt.read) = 0
    <3>1. stmt.read \in Seq(StatementPages)
      BY <1>2
    <3> QED
      BY <2>1, <2>2, <3>1, PagesAre
  <2>4. c = NextCursor(stmt.data)
    OBVIOUS
  <2> HIDE DEF c
  <2>5. Chain(read, c, stmt.start)
    <3>1. c = (IF stmt.read = <<>> THEN c ELSE NextCursor(stmt.read))
      BY <2>3
    <3>2. Chain(stmt.read, c, stmt.start)
      BY <2>1, <2>4
    <3>3. stmt.read # <<>> => c # 0
      BY <2>3
    <3> QED
      BY <1>2, <1>4, <1>5, <3>1, <3>2, <3>3, QueriesAre, ChainGrows DEF IInv
  <2> QED
    BY <1>5, <2>3, <2>4, <2>5
<1>9. Loadable(s) /\ StatementOK(s, ForStatement)
  BY <1>2, <1>6, <1>7, <1>8, QueriesAre DEF Loadable, StatementOK
<1> QED
  BY <1>1, <1>9, QueriesAre, StatementChanges

\* The pages that were read are shown: instead of the old ones, or after them.
LEMMA ShowStatementKeeps ==
    ASSUME IInv, ShowStatement
    PROVE  IInv'
<1> DEFINE data == IF stmt.fetch = "more" THEN stmt.data \o stmt.read ELSE stmt.read
           since == IF stmt.fetch = "more" THEN stmt.since ELSE stmt.start
           s == [Cancelled(stmt, <<>>) EXCEPT
                    !.loaded = TRUE, !.invalid = FALSE,
                    !.data = IF stmt.fetch = "more" THEN @ \o stmt.read ELSE stmt.read,
                    !.since = IF stmt.fetch = "more" THEN @ ELSE stmt.start]
<1>1. /\ stmt.fetch # "none" /\ ReadAll
      /\ stmt' = s /\ UNCHANGED <<posted, route, dash, told, unseen>>
  BY DEF ShowStatement
<1>2. /\ stmt \in Statements /\ (stmt.loaded <=> stmt.data # <<>>)
      /\ stmt.read \in Seq(StatementPages) /\ stmt.data \in Seq(StatementPages)
      /\ stmt.fetch \in {"none", "all", "more"} /\ stmt.since \in SUBSET posted
      /\ stmt.start \in SUBSET posted /\ posted \in SUBSET Entries
  BY QueriesAre DEF Loadable, Statements, StatementOK
<1>3. stmt.read # <<>>
  <2> SUFFICES ASSUME stmt.read = <<>> PROVE FALSE
    OBVIOUS
  <2>1. Len(stmt.read) = 0 /\ Wanted = 0
    BY <1>1 DEF ReadAll
  <2>2. stmt.data # <<>> /\ Len(stmt.data) = 0
    BY <1>2, <2>1 DEF Wanted
  <2> QED
    BY <1>2, <2>2
<1>4. data \in Seq(StatementPages) /\ since \in SUBSET posted
  BY <1>2
<1>5. /\ s \in Statements
      /\ s.loaded = TRUE /\ s.data = data /\ s.since = since /\ s.invalid = FALSE
      /\ s.fetch = "none" /\ s.start = stmt.start /\ s.read = <<>>
  <2>1. /\ Cancelled(stmt, <<>>) \in Statements
        /\ Cancelled(stmt, <<>>).data = stmt.data /\ Cancelled(stmt, <<>>).since = stmt.since
        /\ Cancelled(stmt, <<>>).start = stmt.start
        /\ Cancelled(stmt, <<>>).fetch = "none" /\ Cancelled(stmt, <<>>).read = <<>>
    BY <1>2, NoPagesIs DEF Cancelled, Statements
  <2> DEFINE q == Cancelled(stmt, <<>>)
  <2>2. s = [q EXCEPT !.loaded = TRUE, !.invalid = FALSE, !.data = data, !.since = since]
    BY <2>1 DEF Statements
  <2> HIDE DEF q, s, data, since
  <2>3. data \in Seq(StatementPages) /\ since \in SUBSET Entries /\ q \in Statements
    BY <1>2, <1>4, <2>1 DEF q
  <2>4. /\ s \in Statements
        /\ s.loaded = TRUE /\ s.data = data /\ s.since = since /\ s.invalid = FALSE
        /\ s.fetch = q.fetch /\ s.start = q.start /\ s.read = q.read
    BY <2>2, <2>3 DEF Statements
  <2> QED
    BY <2>1, <2>4 DEF q
<1> HIDE DEF s
<1>6. data # <<>> /\ Chain(data, 0, since) /\ ForStatement \subseteq since
  <2>1. CASE stmt.fetch = "all"
    BY <1>3, <2>1, QueriesAre DEF StatementOK
  <2>2. CASE stmt.fetch = "more"
    <3>1. /\ stmt.loaded /\ NextCursor(stmt.data) # 0 /\ stmt.since \subseteq stmt.start
          /\ Len(stmt.read) <= 1 /\ Chain(stmt.read, NextCursor(stmt.data), stmt.start)
          /\ stmt.invalid => ForStatement = {}
          /\ ~stmt.invalid => ForStatement \subseteq stmt.since
          /\ Chain(stmt.data, 0, stmt.since)
      BY <2>2, QueriesAre DEF StatementOK
    <3>2. Len(stmt.read) = 1
      <4>1. stmt.read \in Seq(StatementPages)
        BY <1>2
      <4> QED
        BY <1>3, <3>1, <4>1, PagesAre
    <3>3. /\ stmt.read[1] \in StatementPages
          /\ FollowsOn(stmt.read[1], NextCursor(stmt.data), stmt.since)
      <4>1. /\ stmt.read[1] \in StatementPages
            /\ FollowsOn(stmt.read[1], NextCursor(stmt.data), stmt.start)
        BY <1>2, <3>1, <3>2, OnePageFollowsOn
      <4> QED
        BY <3>1, <4>1 DEF FollowsOn
    <3>4. data = stmt.data \o stmt.read /\ since = stmt.since /\ stmt.data # <<>>
      BY <1>2, <2>2, <3>1
    <3> HIDE DEF data, since
    <3>5. /\ data \in Seq(StatementPages) /\ Len(data) = Len(stmt.data) + 1
          /\ \A i \in 1..Len(stmt.data) : data[i] = stmt.data[i]
          /\ data[Len(stmt.data) + 1] = stmt.read[1]
      BY <1>2, <3>2, <3>4, OneMorePage
    <3>6. data # <<>> /\ Chain(data, 0, stmt.since)
      <4> DEFINE d == NextCursor(stmt.data)
      <4>1. d = IF stmt.data = <<>> THEN 0 ELSE NextCursor(stmt.data)
        BY <3>4
      <4>2. d # 0 /\ FollowsOn(stmt.read[1], d, stmt.since) /\ Chain(stmt.data, 0, stmt.since)
        BY <3>1, <3>3
      <4> HIDE DEF d
      <4> QED
        BY <1>2, <3>3, <3>5, <4>1, <4>2, QueriesAre, ChainGrows DEF IInv
    <3> QED
      BY <3>1, <3>4, <3>6
  <2> QED
    BY <1>1, <1>2, <2>1, <2>2
<1> HIDE DEF data, since
<1>7. Loadable(s) /\ StatementOK(s, ForStatement)
  BY <1>2, <1>4, <1>5, <1>6 DEF Loadable, StatementOK
<1> QED
  BY <1>1, <1>7, QueriesAre, StatementChanges

\* A page of the statement cannot be read.
LEMMA FailStatementKeeps ==
    ASSUME IInv, FailStatement
    PROVE  IInv'
<1> DEFINE s == [stmt EXCEPT !.read = <<>>, !.start = posted]
<1>1. /\ stmt.fetch # "none" /\ (stmt' = s \/ stmt' = Cancelled(stmt, <<>>))
      /\ UNCHANGED <<posted, route, dash, told, unseen>>
  BY DEF FailStatement
<1>2. /\ s \in Statements
      /\ s.loaded = stmt.loaded /\ s.data = stmt.data /\ s.since = stmt.since
      /\ s.invalid = stmt.invalid /\ s.fetch = stmt.fetch
      /\ s.read = <<>> /\ s.start = posted
  BY QueriesAre, NoPagesIs DEF Loadable, Statements
<1> HIDE DEF s
<1>3. Len(<<>>) <= 1
  OBVIOUS
<1>4. Loadable(s) /\ StatementOK(s, ForStatement)
  BY <1>2, <1>3, EmptyChain, QueriesAre DEF Loadable, StatementOK
<1>5. Loadable(Cancelled(stmt, <<>>)) /\ StatementOK(Cancelled(stmt, <<>>), ForStatement)
  BY QueriesAre, StatementCancelled
<1> QED
  BY <1>1, <1>4, <1>5, QueriesAre, StatementChanges

\* The last row comes into view.
LEMMA FetchNextPageKeeps ==
    ASSUME IInv, FetchNextPage
    PROVE  IInv'
<1> DEFINE s == [Fetching(stmt, <<>>) EXCEPT !.fetch = "more"]
<1>1. /\ route = "statement" /\ HasNextPage
      /\ stmt' = s /\ UNCHANGED <<posted, route, dash, told>>
      /\ unseen' = IF stmt.invalid
                   THEN [unseen EXCEPT !["statement"] = @ \cup told] ELSE unseen
  BY DEF FetchNextPage
<1>2. /\ s \in Statements
      /\ s.loaded = stmt.loaded /\ s.data = stmt.data /\ s.since = stmt.since
      /\ s.invalid = stmt.invalid /\ s.fetch = "more"
      /\ s.read = <<>> /\ s.start = posted
  <2>1. /\ Fetching(stmt, <<>>) \in Statements
        /\ Fetching(stmt, <<>>).loaded = stmt.loaded /\ Fetching(stmt, <<>>).data = stmt.data
        /\ Fetching(stmt, <<>>).since = stmt.since /\ Fetching(stmt, <<>>).invalid = stmt.invalid
        /\ Fetching(stmt, <<>>).read = <<>> /\ Fetching(stmt, <<>>).start = posted
    BY QueriesAre, NoPagesIs DEF Loadable, Fetching, Statements
  <2> DEFINE q == Fetching(stmt, <<>>)
  <2> HIDE DEF q
  <2>2. [q EXCEPT !.fetch = "more"] = s
    BY DEF q
  <2>3. q \in Statements
    BY <2>1 DEF q
  <2> HIDE DEF s
  <2>4. /\ s \in Statements /\ s.loaded = q.loaded /\ s.data = q.data /\ s.since = q.since
        /\ s.invalid = q.invalid /\ s.fetch = "more" /\ s.read = q.read /\ s.start = q.start
    BY <2>2, <2>3 DEF Statements
  <2> QED
    BY <2>1, <2>4 DEF q
<1> HIDE DEF s
<1>3. /\ unseen' \in [{"dashboard", "statement"} -> SUBSET Entries]
      /\ unseen'["dashboard"] = unseen["dashboard"]
      /\ unseen'["statement"] = IF stmt.invalid THEN unseen["statement"] \cup told
                                ELSE unseen["statement"]
  <2>1. told \in SUBSET Entries
    BY QueriesAre
  <2> QED
    BY <1>1, <2>1, QueriesAre
<1>4. ForDashboard' = ForDashboard
  BY <1>1, <1>3 DEF ForDashboard
<1>5. ForStatement' = IF stmt.invalid THEN {} ELSE ForStatement
  BY <1>1, <1>3 DEF ForStatement
<1>6. Len(<<>>) <= 1
  OBVIOUS
<1>7. stmt.loaded /\ NextCursor(stmt.data) # 0
  BY <1>1 DEF HasNextPage
<1>8. Loadable(s) /\ StatementOK(s, ForStatement')
  BY <1>2, <1>5, <1>6, <1>7, EmptyChain, QueriesAre DEF Loadable, StatementOK
<1> QED
  BY <1>1, <1>2, <1>3, <1>4, <1>8, QueriesAre, QueriesMove

\* Nothing is asked for and nothing is shown at first.
LEMMA InitInv ==
    ASSUME Init
    PROVE  IInv
<1>1. NoReads \in [Accounts -> (SUBSET Entries) \cup {Degraded, Pending}]
  BY DEF NoReads
<1>2. NoDashboard \in Dashboards
  BY <1>1 DEF NoDashboard, Dashboards
<1>3. NoStatement \in Statements
  BY NoPagesIs DEF NoStatement, Statements
<1>4. TypeOK
  BY <1>2, <1>3 DEF Init, TypeOK, NoStatement, Routes
<1>5. IsFiniteSet(posted)
  BY FS_EmptySet DEF Init
<1>6. FetchesAreShown
  BY DEF Init, FetchesAreShown, NoDashboard, NoStatement
<1>7. DashboardOK(dash, ForDashboard)
  <2>1. Covered(NoReads, {})
    BY DEF Covered, NoReads
  <2> QED
    BY <2>1 DEF Init, DashboardOK, NoDashboard
<1>8. StatementOK(stmt, ForStatement)
  BY DEF Init, StatementOK, NoStatement
<1> QED
  BY <1>4, <1>5, <1>6, <1>7, <1>8 DEF IInv

\* Every step keeps the invariant.
LEMMA NextInv ==
    ASSUME IInv, [Next]_vars
    PROVE  IInv'
<1>1. ASSUME NEW e \in Entries, Post(e) PROVE IInv'
  BY <1>1, PostKeeps
<1>2. ASSUME NEW e \in Entries, Announce(e) PROVE IInv'
  BY <1>2, AnnounceKeeps
<1>3. ASSUME NEW to \in Routes, NEW old \in BOOLEAN, Navigate(to, old) PROVE IInv'
  BY <1>3, NavigateKeeps
<1>4. CASE Focus
  BY <1>4, FocusKeeps
<1>5. ASSUME NEW a \in Accounts, ReadDashboard(a) PROVE IInv'
  BY <1>5, ReadDashboardKeeps
<1>6. CASE ShowDashboard
  BY <1>6, ShowDashboardKeeps
<1>7. CASE FailDashboard
  BY <1>7, FailDashboardKeeps
<1>8. CASE ReadStatement
  BY <1>8, ReadStatementKeeps
<1>9. CASE ShowStatement
  BY <1>9, ShowStatementKeeps
<1>10. CASE FailStatement
  BY <1>10, FailStatementKeeps
<1>11. CASE FetchNextPage
  BY <1>11, FetchNextPageKeeps
<1>12. CASE UNCHANGED vars
  <2>1. UNCHANGED <<posted, route, dash, stmt, told, unseen>>
    BY <1>12 DEF vars
  <2> QED
    BY <2>1, SameToFollow, QueriesAre, QueriesMove
<1> QED
  BY <1>1, <1>2, <1>3, <1>4, <1>5, <1>6, <1>7, <1>8, <1>9, <1>10, <1>11, <1>12 DEF Next

\* Both queries have what they were asked for, and were asked for what a notification
\* has arrived for: useTransactionNotifications' invalidations reach them.
THEOREM ViewInvariant == Spec => []IInv
<1>1. Init => IInv
  BY InitInv
<1>2. IInv /\ [Next]_vars => IInv'
  BY NextInv
<1> QED
  BY <1>1, <1>2, PTL DEF Spec

-------------------------------------------------------------------------------
(* The theorems *)

\* Both queries have the shape that the pages take them to have.
THEOREM TypeCorrect == Spec => []TypeOK
<1>1. IInv => TypeOK
  BY DEF IInv
<1> QED
  BY <1>1, ViewInvariant, PTL

\* A full page of newer entries.
LEMMA AllNewer ==
    ASSUME NEW S, NEW e \in Nat, S \subseteq Nat, \A f \in S : e < f
    PROVE  {f \in S : f > e} = S
OBVIOUS

\* A dashboard that counts as fresh (DashboardPage, over DashboardService) lacks no entry
\* that a notification brought a fetch about, if its account could be read: but those
\* that are older than the window, or than a whole page.
THEOREM FreshDashboardIsCurrent == Spec => []DashboardFollowsNotifications
<1>1. IInv => DashboardFollowsNotifications
  <2> SUFFICES ASSUME IInv, NEW e \in told \ unseen["dashboard"],
                      dash.loaded, ~dash.invalid, dash.data[AccountOf[e]] # Degraded
               PROVE  \/ e \in dash.data[AccountOf[e]]
                      \/ DayOf[e] < Today - Window
                      \/ Cardinality({f \in dash.data[AccountOf[e]] : f > e}) >= DashboardPage
    BY DEF DashboardFollowsNotifications
  <2> DEFINE a == AccountOf[e]
             page == dash.data[a]
  <2>1. e \in Entries /\ e \in Nat /\ a \in Accounts /\ DayOf[e] \in Nat
    BY ViewConstants, QueriesAre
  <2>2. e \in dash.since /\ Covered(dash.data, dash.since) /\ page \notin {Pending, Degraded}
    BY <2>1, QueriesAre DEF DashboardOK, ForDashboard
  <2>3. /\ page \subseteq Of(a)
        /\ DayOf[e] >= Today - Window =>
              \/ e \in page
              \/ Cardinality(page) = DashboardPage /\ \A f \in page : e < f
    BY <2>1, <2>2 DEF Covered
  <2> HIDE DEF page
  <2>4. page \subseteq Nat
    <3>1. page \in SUBSET Of(a)
      BY <2>3
    <3> QED
      BY <2>1, <3>1, OfIs DEF IInv
  <2>5. (\A f \in page : e < f) => {f \in page : f > e} = page
    BY <2>1, <2>4, AllNewer
  <2>6. Today - Window \in Int /\ DashboardPage \in Nat
    BY ViewConstants
  <2>7. \/ e \in page
        \/ DayOf[e] < Today - Window
        \/ Cardinality({f \in page : f > e}) >= DashboardPage
    <3> SUFFICES ASSUME e \notin page, DayOf[e] >= Today - Window
                 PROVE  Cardinality({f \in page : f > e}) >= DashboardPage
      BY <2>1, <2>6
    <3>1. Cardinality(page) = DashboardPage /\ {f \in page : f > e} = page
      BY <2>3, <2>5
    <3>2. Cardinality({f \in page : f > e}) = DashboardPage
      BY <3>1
    <3> QED
      BY <2>6, <3>2
  <2> QED
    BY <2>7 DEF page
<1> QED
  BY <1>1, ViewInvariant, PTL

\* A statement's pages are a chain from the top.
LEMMA DataAre ==
    ASSUME IInv, stmt.loaded
    PROVE  /\ Chain(stmt.data, 0, stmt.since) /\ stmt.data # <<>>
           /\ stmt.since \subseteq Entries /\ NextCursor(stmt.data) \in Nat
           /\ \A i \in DOMAIN stmt.data : stmt.data[i].es \subseteq Nat
<1>1. stmt \in Statements /\ stmt.data # <<>> /\ Chain(stmt.data, 0, stmt.since)
  BY QueriesAre DEF Loadable, StatementOK
<1>2. stmt.data \in Seq(StatementPages) /\ stmt.since \subseteq Entries
  BY <1>1 DEF Statements
<1>3. \A i \in DOMAIN stmt.data : stmt.data[i].es \subseteq Nat
  <2>1. \A i \in DOMAIN stmt.data : stmt.data[i] \in StatementPages
    BY <1>2
  <2> QED
    BY <2>1, ViewConstants DEF StatementPages
<1>4. LastPage(stmt.data).es \subseteq Nat
  <2>1. Len(stmt.data) \in DOMAIN stmt.data
    BY <1>1, <1>2, LenProperties, PagesAre
  <2> QED
    BY <1>3, <2>1 DEF LastPage
<1> QED
  BY <1>1, <1>2, <1>3, <1>4 DEF Chain

\* The pages of a statement (useStatement, an infinite query over a keyset cursor) fit
\* together, whatever commits between the requests for them.
THEOREM PagesFitTogether == Spec => []StatementHasNoSeams
<1>1. IInv => StatementHasNoSeams
  <2> SUFFICES ASSUME IInv PROVE StatementHasNoSeams
    OBVIOUS
  <2>1. ASSUME NEW i \in DOMAIN stmt.data, NEW j \in DOMAIN stmt.data, i # j
        PROVE  stmt.data[i].es \cap stmt.data[j].es = {}
    <3>1. stmt.loaded /\ i \in Nat /\ j \in Nat
      <4>1. stmt \in Statements /\ (stmt.loaded <=> stmt.data # <<>>)
        BY QueriesAre DEF Loadable
      <4>2. stmt.data \in Seq(StatementPages)
        BY <4>1 DEF Statements
      <4>3. DOMAIN stmt.data = 1..Len(stmt.data) /\ Len(stmt.data) \in Nat
        BY <4>2, LenProperties
      <4>4. stmt.data # <<>>
        BY <4>2, <4>3, PagesAre
      <4> QED
        BY <4>1, <4>3, <4>4
    <3> SUFFICES ASSUME NEW e \in stmt.data[i].es, e \in stmt.data[j].es PROVE FALSE
      OBVIOUS
    <3>2. e \in Nat
      BY <3>1, DataAre
    <3>3. i < j \/ j < i
      BY <2>1, <3>1
    <3>4. e < e
      BY <3>1, <3>3, DataAre DEF Chain
    <3> QED
      BY <3>2, <3>4
  <2>2. ASSUME NEW e \in stmt.since, stmt.loaded, AccountOf[e] = Acc, e > NextCursor(stmt.data)
        PROVE  e \in StatementEntries
    <3>1. e \in Nat /\ NextCursor(stmt.data) <= e
      <4>1. e \in Entries /\ NextCursor(stmt.data) \in Nat
        BY <2>2, DataAre
      <4> QED
        BY <2>2, <4>1, ViewConstants
    <3>2. \E i \in DOMAIN stmt.data : e \in stmt.data[i].es
      BY <2>2, <3>1, DataAre DEF Chain
    <3> QED
      BY <3>2 DEF StatementEntries
  <2> QED
    BY <2>1, <2>2 DEF StatementHasNoSeams
<1> QED
  BY <1>1, ViewInvariant, PTL

\* A statement that counts as fresh lacks no entry of its account that a notification
\* brought a fetch about, as far down as it is loaded (useTransactionNotifications).
THEOREM FreshStatementIsCurrent == Spec => []StatementFollowsNotifications
<1>1. IInv => StatementFollowsNotifications
  <2> SUFFICES ASSUME IInv, NEW e \in told \ unseen["statement"],
                      stmt.loaded, ~stmt.invalid, AccountOf[e] = Acc, e > NextCursor(stmt.data)
               PROVE  e \in StatementEntries
    BY DEF StatementFollowsNotifications
  <2>1. e \in stmt.since
    BY QueriesAre DEF StatementOK, ForStatement
  <2>2. e \in Nat /\ NextCursor(stmt.data) <= e
    <3>1. e \in Entries /\ NextCursor(stmt.data) \in Nat
      BY <2>1, DataAre
    <3> QED
      BY <3>1, ViewConstants
  <2>3. \E i \in DOMAIN stmt.data : e \in stmt.data[i].es
    BY <2>1, <2>2, DataAre DEF Chain
  <2> QED
    BY <2>3 DEF StatementEntries
<1> QED
  BY <1>1, ViewInvariant, PTL

\* The recent activity (mergeRecentActivity, over one page per account) is of the newest
\* entries there are.
THEOREM RecentActivityIsNewest == Spec => []RecentIsNewest
<1>1. IInv => RecentIsNewest
  <2> DEFINE D == DashboardEntries
             recent == Newest(Limit, D)
  <2> SUFFICES ASSUME IInv, dash.loaded, NEW e \in dash.since, e \notin recent,
                      dash.data[AccountOf[e]] # Degraded, ~(DayOf[e] < Today - Window)
               PROVE  Cardinality({f \in recent : f > e}) = Limit
    BY DEF RecentIsNewest, MergeRecentActivity
  <2> DEFINE a == AccountOf[e]
             page == dash.data[a]
  <2>1. /\ e \in Entries /\ e \in Nat /\ a \in Accounts /\ DayOf[e] \in Nat
        /\ DayOf[e] >= Today - Window
    <3>1. e \in posted
      BY QueriesAre DEF DashboardOK
    <3>2. e \in Entries
      BY <3>1, QueriesAre
    <3> QED
      BY <3>2, ViewConstants
  <2>2. Covered(dash.data, dash.since) /\ \A b \in Accounts : dash.data[b] # Pending
    BY QueriesAre DEF DashboardOK
  <2>3. D \in SUBSET Nat /\ IsFiniteSet(D)
    <3>1. ASSUME NEW f \in D PROVE f \in posted
      <4>1. PICK b \in Accounts : dash.data[b] # Degraded /\ f \in dash.data[b]
        BY DEF DashboardEntries
      <4> QED
        BY <2>2, <4>1 DEF Covered, Of
    <3>2. D \in SUBSET posted
      BY <3>1
    <3> QED
      BY <3>2, QueriesAre, ViewConstants, FS_Subset
  <2>4. page \subseteq D
    BY <2>1 DEF DashboardEntries
  <2>5. e \in page \/ (Cardinality(page) = DashboardPage /\ \A f \in page : e < f)
    BY <2>1, <2>2 DEF Covered
  <2> HIDE DEF D, page
  <2>6. Limit \in Nat \ {0} /\ DashboardPage \in Nat /\ DashboardPage >= Limit
    BY ViewConstants
  <2>7. /\ recent \subseteq D
        /\ \A g \in D \ recent : \A f \in recent : g < f
        /\ \A g \in D \ recent : Cardinality(recent) = Limit
        /\ Cardinality(D) >= Limit => Cardinality(recent) = Limit
    BY <2>3, <2>6, NewestIs
  <2> HIDE DEF recent
  <2>8. Cardinality(recent) = Limit /\ \A f \in recent : e < f
    <3>1. CASE e \in D
      BY <2>7, <3>1
    <3>2. CASE e \notin D
      <4>1. Cardinality(page) = DashboardPage /\ \A f \in page : e < f
        BY <2>4, <2>5, <3>2
      <4>2. /\ IsFiniteSet(page) /\ IsFiniteSet(recent)
            /\ Cardinality(page) <= Cardinality(D) /\ Cardinality(D) \in Nat
        BY <2>3, <2>4, <2>7, FS_Subset, FS_CardinalityType
      <4>3. Cardinality(recent) = Limit
        BY <2>6, <2>7, <4>1, <4>2
      <4>4. ASSUME NEW f \in recent, ~(e < f) PROVE FALSE
        <5>1. f \in Nat /\ f \notin page
          BY <2>3, <2>7, <4>1, <4>4
        <5>2. ASSUME NEW g \in page PROVE g \in recent
          <6> SUFFICES ASSUME g \notin recent PROVE FALSE
            OBVIOUS
          <6>1. g \in Nat /\ g < f /\ e < g
            BY <2>3, <2>4, <2>7, <4>1
          <6> QED
            BY <2>1, <4>4, <5>1, <6>1
        <5>3. page \cup {f} \in SUBSET recent
          BY <5>2
        <5>4. Cardinality(page \cup {f}) = DashboardPage + 1
          BY <4>1, <4>2, <5>1, FS_AddElement
        <5>5. Cardinality(page \cup {f}) <= Limit
          BY <4>2, <4>3, <5>3, FS_Subset
        <5> QED
          BY <2>6, <5>4, <5>5
      <4> QED
        BY <4>3, <4>4
    <3> QED
      BY <3>1, <3>2
  <2>9. {f \in recent : f > e} = recent
    BY <2>1, <2>3, <2>7, <2>8, AllNewer
  <2> QED
    BY <2>8, <2>9
<1> QED
  BY <1>1, ViewInvariant, PTL

\* A part of what was posted has, on one day, no more debits than the whole.
LEMMA DebitsAddUp ==
    ASSUME TypeOK, IsFiniteSet(posted), NEW S \in SUBSET posted, NEW T \in SUBSET posted, NEW d,
           {e \in S : IsDebit(e) /\ DayOf[e] = d} \subseteq {e \in T : IsDebit(e) /\ DayOf[e] = d}
    PROVE  SumFunctionOnSet(Debited, Debits(S, d)) <= SumFunctionOnSet(Debited, Debits(T, d))
<1>1. Debits(T, d) \in SUBSET posted /\ Debits(S, d) \in SUBSET Debits(T, d)
  BY DEF Debits
<1>2. IsFiniteSet(Debits(T, d))
  BY <1>1, FS_Subset
<1>3. ASSUME NEW e \in Debits(T, d) PROVE Debited[e] \in Nat
  <2>1. e \in Entries /\ Amount[e] < 0
    BY <1>1 DEF Debits, IsDebit, TypeOK
  <2>2. Amount[e] \in Int
    BY <2>1, ViewConstants
  <2> QED
    BY <2>1, <2>2 DEF Debited
<1> QED
  BY <1>1, <1>2, <1>3, SumGrows

\* The total of a day's debits is the sum over the entries' own amounts.
LEMMA TotalIs ==
    ASSUME TypeOK, IsFiniteSet(posted), NEW S \in SUBSET posted, NEW d
    PROVE  SumFunctionOnSet([e \in Debits(S, d) |-> -Amount[e]], Debits(S, d))
             = SumFunctionOnSet(Debited, Debits(S, d))
<1>1. Debits(S, d) \in SUBSET posted /\ Debits(S, d) \in SUBSET Entries
  BY DEF Debits, TypeOK
<1>2. IsFiniteSet(Debits(S, d))
  BY <1>1, FS_Subset
<1> DEFINE own == [e \in Debits(S, d) |-> -Amount[e]]
<1>3. \A e \in Debits(S, d) : own[e] = Debited[e]
  BY <1>1 DEF Debited
<1> HIDE DEF own
<1>4. SumFunctionOnSet(own, Debits(S, d)) = SumFunctionOnSet(Debited, Debits(S, d))
  BY <1>2, <1>3, SumOfSame
<1> QED
  BY <1>4 DEF own

\* The chart's spend (dailySpend, over one page per account) is that of all the debits of
\* the day, where every page has room for them.
THEOREM ChartIsComplete == Spec => []SpendIsTotal
<1>1. IInv => SpendIsTotal
  <2> DEFINE D == DashboardEntries
  <2> SUFFICES ASSUME IInv, dash.loaded, NEW d \in SpendDays,
                      \A a \in Accounts : /\ dash.data[a] # Degraded
                                          /\ Cardinality(dash.data[a]) < DashboardPage
               PROVE  /\ SumFunctionOnSet([e \in Debits(dash.since, d) |-> -Amount[e]],
                                          Debits(dash.since, d))
                            <= DailySpend(D, d)
                      /\ DailySpend(D, d)
                            <= SumFunctionOnSet([e \in Debits(posted, d) |-> -Amount[e]],
                                                Debits(posted, d))
    BY DEF SpendIsTotal, Debits, IsDebit
  <2>1. /\ TypeOK /\ IsFiniteSet(posted) /\ dash.since \in SUBSET posted
        /\ Covered(dash.data, dash.since) /\ \A a \in Accounts : dash.data[a] # Pending
    BY QueriesAre DEF DashboardOK, IInv
  <2>2. D \in SUBSET posted
    BY <2>1 DEF DashboardEntries, Covered, Of
  <2>3. ASSUME NEW e \in dash.since, DayOf[e] = d PROVE e \in D
    <3>1. e \in Entries /\ AccountOf[e] \in Accounts /\ DayOf[e] >= Today - Window
      <4>1. e \in Entries
        BY <2>1 DEF TypeOK
      <4>2. d \in Int /\ d >= Today - Window
        BY ViewConstants DEF SpendDays
      <4> QED
        BY <2>3, <4>1, <4>2, ViewConstants
    <3>2. DashboardPage \in Nat
      BY ViewConstants
    <3>3. e \in dash.data[AccountOf[e]]
      BY <2>1, <3>1, <3>2 DEF Covered
    <3> QED
      BY <3>1, <3>3 DEF DashboardEntries
  <2> HIDE DEF D
  <2>4. /\ {e \in dash.since : IsDebit(e) /\ DayOf[e] = d} \subseteq {e \in D : IsDebit(e) /\ DayOf[e] = d}
        /\ {e \in D : IsDebit(e) /\ DayOf[e] = d} \subseteq {e \in posted : IsDebit(e) /\ DayOf[e] = d}
    BY <2>2, <2>3
  <2>5. /\ SumFunctionOnSet(Debited, Debits(dash.since, d)) <= SumFunctionOnSet(Debited, Debits(D, d))
        /\ SumFunctionOnSet(Debited, Debits(D, d)) <= SumFunctionOnSet(Debited, Debits(posted, d))
    BY <2>1, <2>2, <2>4, DebitsAddUp
  <2> QED
    BY <2>1, <2>5, TotalIs DEF DailySpend
<1> QED
  BY <1>1, ViewInvariant, PTL

===============================================================================
