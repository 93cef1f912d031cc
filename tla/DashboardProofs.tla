-------------------------- MODULE DashboardProofs --------------------------
(* Proofs about the table of mail transactions of Dashboard, for any page    *)
(* size, any filters and any number of rows, loads and errors.               *)
EXTENDS Dashboard, FiniteSetTheorems, TLAPS

Row == [arrival : Nat, status : {"deferred", "sent"}]
Load == [filter : Filters, offset : Nat, at : Waiting \cup {"aborted", "done"},
         total : Nat, counted : Nat, present : SUBSET Nat, items : SUBSET Nat]
Shown == [n : Nat, filter : Filters, offset : Nat, total : Nat, items : SUBSET Nat,
          raced : BOOLEAN]
Walk == [filter : Filters, start : SUBSET Nat, seen : SUBSET Nat, next : Nat]

DashboardTypes ==
    /\ rows \in Seq(Row) /\ load \in Seq(Load) /\ data \in Shown /\ walk \in Walk
    /\ signedIn \in BOOLEAN /\ error \in BOOLEAN /\ filter \in Filters /\ offset \in Nat

(* Only the last load is under way, for a user who is signed in, and it asks  *)
(* for what the page is on.                                                   *)
LastOnly(n) ==
    load[n].at \in Waiting =>
        /\ n = Len(load) /\ signedIn
        /\ load[n].at \in {"count", "page", "answer"} =>
              load[n].filter = filter /\ load[n].offset = offset

(* The place of a row among the first L, the latest first.                    *)
Distinct == \A i, j \in 1..Len(rows) : i # j => rows[i].arrival # rows[j].arrival
Above(L, r) == {i \in 1..L : rows[i].arrival > rows[r].arrival}
Rank(L, r) == Cardinality(Above(L, r))

(* A walk through the pages has seen all it started with whose place, among   *)
(* the first L rows, is before the next page.                                 *)
WalkCovers(L) ==
    walk.filter = AnyStatus =>
        /\ walk.start \subseteq 1..L
        /\ Distinct => \A r \in walk.start : Rank(L, r) < walk.next => r \in walk.seen

(* A page without filters is as long as its total promises and, if arrival    *)
(* times differ, has the rows whose place belongs on it.                      *)
Promised(o, total, items) ==
    o < total => Cardinality(items) >= Min({PageSize, total - o})
PageHolds(l, L) ==
    /\ l.present = 1..L /\ l.counted <= L
    /\ Promised(l.offset, l.total, l.items)
    /\ Distinct => \A r \in 1..L :
            l.offset <= Rank(L, r) /\ Rank(L, r) < l.offset + PageSize => r \in l.items

(* How far a load without filters has come.                                   *)
Progress(l) ==
    l.filter = AnyStatus =>
        /\ l.at \in {"page", "answer"} => l.total = l.counted /\ l.counted <= Len(rows)
        /\ l.at = "answer" => \E L \in 0..Len(rows) : PageHolds(l, L) /\ WalkCovers(L)

DashboardInv ==
    /\ DashboardTypes
    /\ \A n \in 1..Len(load) : LastOnly(n) /\ Progress(load[n])
    /\ WalkCovers(Len(rows))
    /\ ShownIsAsked /\ PageKeepsPromise /\ PagingSkipsNothing

----------------------------------------------------------------------------
(* Facts about the operators.                                                 *)

LEMMA LeastOfTwo ==
    ASSUME NEW a \in Nat, NEW b \in Nat
    PROVE  Min({a, b}) = IF a <= b THEN a ELSE b
<1>1. \E x \in {a, b} : \A y \in {a, b} : x <= y
  OBVIOUS
<1>2. /\ Min({a, b}) \in {a, b}
      /\ \A y \in {a, b} : Min({a, b}) <= y
  BY <1>1 DEF Min
<1>. QED
  BY <1>2

LEMMA GreatestOfTwo ==
    ASSUME NEW a \in Nat, NEW b \in Nat
    PROVE  Max({a, b}) = IF a >= b THEN a ELSE b
<1>1. \E x \in {a, b} : \A y \in {a, b} : x >= y
  OBVIOUS
<1>2. /\ Max({a, b}) \in {a, b}
      /\ \A y \in {a, b} : Max({a, b}) >= y
  BY <1>1 DEF Max
<1>. QED
  BY <1>2

(* An interval mapped one to one keeps its size.                              *)
LEMMA OneToOne ==
    ASSUME NEW lo \in Nat \ {0}, NEW hi \in Nat, lo <= hi + 1, NEW s,
           \A i, j \in lo..hi : i < j => s[i] # s[j]
    PROVE  /\ IsFiniteSet({s[i] : i \in lo..hi})
           /\ Cardinality({s[i] : i \in lo..hi}) = hi + 1 - lo
<1>. DEFINE I == lo..hi
            T == {s[i] : i \in lo..hi}
            f == [i \in I |-> s[i]]
<1>1. IsFiniteSet(I) /\ Cardinality(I) = hi + 1 - lo
  <2>1. IsFiniteSet(I) /\ Cardinality(I) = IF lo > hi THEN 0 ELSE hi - lo + 1
    BY FS_Interval
  <2>. QED
    BY <2>1
<1>2. f \in Surjection(I, T)
  BY DEF Surjection
<1>3. f \in Injection(I, T)
  <2>1. ASSUME NEW i \in I, NEW j \in I, f[i] = f[j] PROVE i = j
    <3>1. i \in Int /\ j \in Int /\ s[i] = s[j]
      BY <2>1
    <3>. QED
      BY <3>1, i < j \/ j < i \/ i = j
  <2>. QED
    BY <2>1 DEF Injection, IsInjective
<1>. QED
  BY <1>1, <1>2, <1>3, FS_Surjection

(* The answer of the SELECT has every matching row once.                      *)
LEMMA OrderedHasAll ==
    ASSUME NEW M, IsFiniteSet(M), NEW s \in Ordered(M)
    PROVE  /\ Cardinality(M) \in Nat /\ Len(s) = Cardinality(M) /\ s \in Seq(M)
           /\ s \in [1..Len(s) -> M]
           /\ \A i, j \in 1..Len(s) : i < j => /\ s[i] # s[j]
                                               /\ rows[s[i]].arrival >= rows[s[j]].arrival
           /\ \A r \in M : \E i \in 1..Len(s) : s[i] = r
<1>. DEFINE n == Cardinality(M)
<1>1. n \in Nat
  BY FS_CardinalityType
<1>2. /\ s \in [1..n -> M]
      /\ \A i, j \in 1..n : i < j => s[i] # s[j] /\ rows[s[i]].arrival >= rows[s[j]].arrival
  BY DEF Ordered
<1>. HIDE DEF n
<1>3. s \in Seq(M) /\ Len(s) = n
  BY <1>1, <1>2
<1>4. s \in Injection(1..n, M)
  <2>1. ASSUME NEW i \in 1..n, NEW j \in 1..n, s[i] = s[j] PROVE i = j
    BY <1>1, <1>2, <2>1, i < j \/ j < i \/ i = j
  <2>. QED
    BY <1>2, <2>1 DEF Injection, IsInjective
<1>5. IsFiniteSet(1..n) /\ Cardinality(1..n) = n
  BY <1>1, FS_Interval
<1>6. s \in Surjection(1..n, M)
  BY <1>4, <1>5, FS_Injection DEF n
<1>. QED
  BY <1>1, <1>2, <1>3, <1>6 DEF Surjection, n

(* Where a page ends, and that it holds enough.                               *)
LEMMA PageEnd ==
    ASSUME NEW o \in Nat, NEW total \in Nat, NEW n \in Nat, NEW P \in Nat \ {0},
           o < total, total <= n
    PROVE  LET hi == Min({o + P, n})
           IN /\ hi \in Nat /\ o + 1 \in Nat \ {0} /\ o + 1 <= hi + 1 /\ hi <= n
              /\ hi + 1 - (o + 1) >= Min({P, total - o})
<1>1. o + P \in Nat /\ total - o \in Nat
  OBVIOUS
<1>2. Min({o + P, n}) = IF o + P <= n THEN o + P ELSE n
  BY <1>1, LeastOfTwo
<1>3. Min({P, total - o}) = IF P <= total - o THEN P ELSE total - o
  BY <1>1, LeastOfTwo
<1>. QED
  BY <1>1, <1>2, <1>3

(* A page is as long as what is left.                                         *)
LEMMA PageIsLong ==
    ASSUME PageSize \in Nat \ {0}, NEW M, IsFiniteSet(M), NEW s \in Ordered(M), NEW o \in Nat,
           NEW total \in Nat, total <= Cardinality(M)
    PROVE  Promised(o, total, Page(s, o))
<1>. SUFFICES ASSUME o < total
              PROVE  Cardinality(Page(s, o)) >= Min({PageSize, total - o})
  BY DEF Promised
<1>1. PICK n : n = Len(s)
  OBVIOUS
<1>2. n \in Nat /\ total <= n
  BY <1>1, OrderedHasAll
<1>3. \A i, j \in 1..n : i < j => s[i] # s[j]
  <2>1. \A i, j \in 1..Len(s) : i < j => s[i] # s[j]
    BY OrderedHasAll
  <2>. QED
    BY <1>1, <2>1
<1>4. PICK hi : hi = Min({o + PageSize, n})
  OBVIOUS
<1>5. /\ hi \in Nat /\ o + 1 \in Nat \ {0} /\ o + 1 <= hi + 1 /\ hi <= n
      /\ hi + 1 - (o + 1) >= Min({PageSize, total - o})
  BY <1>2, <1>4, PageEnd, Zenon
<1>6. \A i, j \in (o + 1)..hi : i < j => s[i] # s[j]
  <2>1. \A i \in (o + 1)..hi : i \in 1..n
    BY <1>2, <1>5
  <2>. QED
    BY <1>3, <2>1, Zenon
<1>7. Cardinality({s[i] : i \in (o + 1)..hi}) = hi + 1 - (o + 1)
  BY <1>5, <1>6, OneToOne
<1>8. Page(s, o) = {s[i] : i \in (o + 1)..hi}
  BY <1>1, <1>4 DEF Page
<1>. QED
  BY <1>5, <1>7, <1>8

LEMMA FirstRows ==
    ASSUME NEW L \in Nat
    PROVE  IsFiniteSet(1..L) /\ Cardinality(1..L) = L
BY FS_Interval

LEMMA ArrivalType ==
    ASSUME rows \in Seq(Row), NEW r \in 1..Len(rows)
    PROVE  rows[r].arrival \in Nat /\ rows[r].status \in {"deferred", "sent"}
<1>1. rows[r] \in Row
  OBVIOUS
<1>. QED
  BY <1>1 DEF Row

(* Rows that arrive later only push a row back.                               *)
LEMMA RankType ==
    ASSUME NEW L \in Nat, NEW r \in 1..L, rows \in Seq(Row), L <= Len(rows)
    PROVE  Rank(L, r) \in Nat /\ Rank(L, r) < L
<1>1. Above(L, r) \subseteq (1..L) \ {r}
  <2>1. r \in 1..Len(rows)
    OBVIOUS
  <2>2. rows[r].arrival \in Nat
    BY <2>1, ArrivalType
  <2>. QED
    BY <2>2 DEF Above
<1>2. IsFiniteSet(1..L) /\ Cardinality(1..L) = L
  BY FS_Interval
<1>3. IsFiniteSet((1..L) \ {r}) /\ Cardinality((1..L) \ {r}) = L - 1
  BY <1>2, FS_RemoveElement
<1>4. /\ IsFiniteSet(Above(L, r)) /\ Cardinality(Above(L, r)) <= Cardinality((1..L) \ {r})
      /\ Cardinality(Above(L, r)) \in Nat
  BY <1>1, <1>3, FS_Subset, FS_CardinalityType
<1>. QED
  BY <1>3, <1>4 DEF Rank

LEMMA RankGrows ==
    ASSUME NEW K \in Nat, NEW L \in Nat, K <= L, NEW R, NEW r
    PROVE  LET above(m) == {i \in 1..m : R[i].arrival > R[r].arrival}
           IN /\ Cardinality(above(K)) \in Nat /\ Cardinality(above(L)) \in Nat
              /\ Cardinality(above(K)) <= Cardinality(above(L))
<1>. DEFINE above(m) == {i \in 1..m : R[i].arrival > R[r].arrival}
<1>1. above(K) \subseteq above(L) /\ above(L) \subseteq 1..L
  OBVIOUS
<1>2. IsFiniteSet(1..L)
  BY FS_Interval
<1>. HIDE DEF above
<1>3. IsFiniteSet(above(L))
  BY <1>1, <1>2, FS_Subset
<1>4. /\ Cardinality(above(K)) \in Nat /\ Cardinality(above(L)) \in Nat
      /\ Cardinality(above(K)) <= Cardinality(above(L))
  BY <1>1, <1>3, FS_Subset, FS_CardinalityType
<1>. QED
  BY <1>4 DEF above

(* The page has the rows whose place belongs on it.                           *)
LEMMA PageHasItsRows ==
    ASSUME PageSize \in Nat \ {0}, rows \in Seq(Row), Distinct, NEW L \in Nat, L = Len(rows),
           NEW s \in Ordered(1..L), NEW o \in Nat, NEW r \in 1..L,
           o <= Rank(L, r), Rank(L, r) < o + PageSize
    PROVE  r \in Page(s, o)
<1>1. IsFiniteSet(1..L) /\ Cardinality(1..L) = L
  BY FirstRows
<1>2. /\ Len(s) = L /\ s \in [1..L -> 1..L]
      /\ \A q \in 1..L : \E i \in 1..L : s[i] = q
  <2>1. /\ Len(s) = L /\ s \in [1..Len(s) -> 1..L]
        /\ \A q \in 1..L : \E i \in 1..Len(s) : s[i] = q
    BY <1>1, OrderedHasAll, Zenon
  <2>. QED
    BY <2>1, Zenon
<1>3. ASSUME NEW i \in 1..L, NEW j \in 1..L, i < j
      PROVE  s[i] # s[j] /\ rows[s[i]].arrival > rows[s[j]].arrival
  <2>1. s[i] # s[j] /\ rows[s[i]].arrival >= rows[s[j]].arrival
    BY <1>1, <1>2, <1>3, OrderedHasAll
  <2>2. s[i] \in 1..Len(rows) /\ s[j] \in 1..Len(rows)
    BY <1>2
  <2>3. /\ rows[s[i]].arrival \in Nat /\ rows[s[j]].arrival \in Nat
        /\ rows[s[i]].arrival # rows[s[j]].arrival
    BY <2>1, <2>2, ArrivalType DEF Distinct
  <2>. QED
    BY <2>1, <2>3
<1>4. PICK i \in 1..L : s[i] = r
  BY <1>2
<1>5. i \in Nat /\ 1 <= i /\ i <= L /\ i - 1 \in Nat /\ 1 <= (i - 1) + 1
  OBVIOUS
<1>6. \A q \in 1..L : rows[q].arrival \in Nat
  BY ArrivalType
<1>7. Above(L, r) = {s[j] : j \in 1..(i - 1)}
  <2>1. ASSUME NEW j \in 1..(i - 1) PROVE s[j] \in Above(L, r)
    <3>1. j \in 1..L /\ j < i
      BY <1>5
    <3>2. s[j] \in 1..L /\ rows[s[j]].arrival > rows[r].arrival
      BY <1>2, <1>3, <1>4, <3>1
    <3>. QED
      BY <3>2 DEF Above
  <2>2. ASSUME NEW q \in Above(L, r) PROVE \E j \in 1..(i - 1) : q = s[j]
    <3>1. q \in 1..L /\ rows[q].arrival > rows[r].arrival
      BY DEF Above
    <3>2. PICK j \in 1..L : s[j] = q
      BY <1>2, <3>1
    <3>3. rows[q].arrival \in Nat /\ rows[r].arrival \in Nat
      BY <1>6, <3>1
    <3>4. ~(i < j)
      <4>1. SUFFICES ASSUME i < j PROVE FALSE
        OBVIOUS
      <4>2. rows[r].arrival > rows[q].arrival
        BY <4>1, <1>3, <1>4, <3>2
      <4>. QED
        BY <4>2, <3>1, <3>3
    <3>5. i # j
      BY <1>4, <3>1, <3>2, <3>3
    <3>6. j \in 1..(i - 1)
      BY <1>5, <3>4, <3>5
    <3>. QED
      BY <3>2, <3>6
  <2>. QED
    BY <2>1, <2>2
<1>8. \A j, m \in 1..(i - 1) : j < m => s[j] # s[m]
  <2>1. \A j \in 1..(i - 1) : j \in 1..L
    BY <1>5
  <2>. QED
    BY <1>3, <2>1
<1>9. Rank(L, r) = (i - 1) + 1 - 1
  <2>1. \A h \in Nat : (\A j, m \in 1..h : j < m => s[j] # s[m])
                        => Cardinality({s[j] : j \in 1..h}) = h + 1 - 1
    <3>. TAKE h \in Nat
    <3>. HAVE \A j, m \in 1..h : j < m => s[j] # s[m]
    <3>1. 1 \in Nat \ {0} /\ 1 <= h + 1
      OBVIOUS
    <3>. QED
      BY <3>1, OneToOne
  <2>. QED
    BY <1>5, <1>7, <1>8, <2>1 DEF Rank
<1>10. i = Rank(L, r) + 1 /\ Rank(L, r) \in Nat
  BY <1>5, <1>9
<1>11. Min({o + PageSize, L}) = IF o + PageSize <= L THEN o + PageSize ELSE L
  <2>1. o + PageSize \in Nat
    OBVIOUS
  <2>. QED
    BY <2>1, LeastOfTwo
<1>12. i \in (o + 1)..Min({o + PageSize, L})
  BY <1>5, <1>10, <1>11
<1>. QED
  BY <1>2, <1>4, <1>12 DEF Page

----------------------------------------------------------------------------
(* The table grows, and no row changes its arrival time.                      *)
RowsGrow ==
    /\ rows' \in Seq(Row) /\ Len(rows') >= Len(rows)
    /\ \A i \in 1..Len(rows) : rows'[i].arrival = rows[i].arrival

(* The place among the first rows stays, whatever comes after them.           *)
LEMMA PlacesKept ==
    ASSUME rows \in Seq(Row), RowsGrow
    PROVE  /\ Len(rows) \in Nat /\ Len(rows') \in Nat
           /\ Distinct' => Distinct
           /\ \A L \in 0..Len(rows) : \A r \in 1..L : Rank(L, r)' = Rank(L, r)
<1>1. Len(rows) \in Nat /\ Len(rows') \in Nat
  BY DEF RowsGrow
<1>2. Distinct' => Distinct
  <2>1. \A i \in 1..Len(rows) : i \in 1..Len(rows')
    BY <1>1 DEF RowsGrow
  <2>. QED
    BY <2>1 DEF Distinct, RowsGrow
<1>3. ASSUME NEW L \in 0..Len(rows), NEW r \in 1..L
      PROVE  Rank(L, r)' = Rank(L, r)
  <2>1. r \in 1..Len(rows) /\ \A i \in 1..L : i \in 1..Len(rows)
    BY <1>1
  <2>2. Above(L, r)' = {i \in 1..L : rows'[i].arrival > rows'[r].arrival}
    BY DEF Above
  <2>3. Above(L, r)' = Above(L, r)
    BY <2>1, <2>2 DEF RowsGrow, Above
  <2>. QED
    BY <2>3 DEF Rank
<1>. QED
  BY <1>1, <1>2, <1>3

(* So a step that leaves the walk and the table alone keeps what is known of  *)
(* them, and of every load it does not touch.                                 *)
LEMMA ViewKept ==
    ASSUME DashboardInv, RowsGrow, walk' = walk, data' = data
    PROVE  /\ WalkCovers(Len(rows))' /\ PageKeepsPromise' /\ PagingSkipsNothing'
           /\ \A l \in Load : Progress(l) => Progress(l)'
<1>1. /\ rows \in Seq(Row) /\ walk \in Walk
      /\ Len(rows) \in Nat /\ Len(rows') \in Nat /\ Len(rows') >= Len(rows)
      /\ Distinct' => Distinct
      /\ \A L \in 0..Len(rows) : \A r \in 1..L : Rank(L, r)' = Rank(L, r)
  BY PlacesKept DEF DashboardInv, DashboardTypes, RowsGrow
<1>2. ASSUME NEW L \in 0..Len(rows), WalkCovers(L) PROVE WalkCovers(L)'
  <2>1. SUFFICES ASSUME walk.filter = AnyStatus
                 PROVE  /\ walk.start \subseteq 1..L
                        /\ Distinct' => \A r \in walk.start :
                                Rank(L, r)' < walk.next => r \in walk.seen
    BY DEF WalkCovers
  <2>. QED
    BY <1>1, <1>2, <2>1 DEF WalkCovers
<1>3. WalkCovers(Len(rows))'
  <2>1. PICK m \in Nat : m = Len(rows')
    BY <1>1
  <2>2. SUFFICES ASSUME walk.filter = AnyStatus
                 PROVE  /\ walk.start \subseteq 1..m
                        /\ Distinct' => \A r \in walk.start :
                                Rank(m, r)' < walk.next => r \in walk.seen
    BY <2>1 DEF WalkCovers
  <2>3. PICK K \in Nat : K = Len(rows)
    BY <1>1
  <2>4. WalkCovers(K)'
    BY <1>2, <2>3 DEF DashboardInv
  <2>5. /\ walk.start \subseteq 1..K
        /\ Distinct' => \A r \in walk.start : Rank(K, r)' < walk.next => r \in walk.seen
    BY <2>2, <2>4 DEF WalkCovers
  <2>6. ASSUME NEW r PROVE Rank(K, r)' \in Nat /\ Rank(m, r)' \in Nat /\ Rank(K, r)' <= Rank(m, r)'
    <3>1. K <= m
      BY <1>1, <2>1, <2>3
    <3>. QED
      BY <3>1, RankGrows DEF Rank, Above
  <2>7. walk.next \in Nat /\ \A i \in 1..K : i \in 1..m
    BY <1>1, <2>1, <2>3 DEF Walk
  <2>. QED
    BY <2>5, <2>6, <2>7
<1>4. PageKeepsPromise'
  BY DEF DashboardInv, PageKeepsPromise
<1>5. PagingSkipsNothing'
  BY <1>1 DEF DashboardInv, PagingSkipsNothing, Distinct
<1>6. ASSUME NEW l \in Load, Progress(l) PROVE Progress(l)'
  <2>1. ASSUME NEW L \in 0..Len(rows), PageHolds(l, L) PROVE PageHolds(l, L)'
    BY <1>1, <2>1 DEF PageHolds, Promised
  <2>2. \A L \in 0..Len(rows) : L \in 0..Len(rows')
    BY <1>1
  <2>3. l.counted <= Len(rows) => l.counted <= Len(rows')
    <3>1. l.counted \in Nat
      BY DEF Load
    <3>. QED
      BY <1>1, <3>1
  <2>. QED
    BY <1>2, <1>6, <2>1, <2>2, <2>3 DEF Progress
<1>. QED
  BY <1>3, <1>4, <1>5, <1>6

----------------------------------------------------------------------------
(* The steps.                                                                 *)

LEMMA FreshLoad ==
    ASSUME DashboardAssumption, NEW f \in Filters, NEW o \in Nat
    PROVE  /\ Fresh(f, o) \in Load /\ Fresh(f, o).at = "count"
           /\ Fresh(f, o).filter = f /\ Fresh(f, o).offset = o
BY DEF Fresh, Load, Waiting

LEMMA EndedLoad ==
    ASSUME DashboardAssumption, NEW h \in {"failed", "expired", "aborted", "done"}
    PROVE  Ended(h) \in Load /\ Ended(h).at = h /\ Progress(Ended(h))
<1>1. Fresh(AnyStatus, 0) \in Load
  BY FreshLoad DEF DashboardAssumption
<1>2. Ended(h) \in Load /\ Ended(h).at = h
  BY <1>1 DEF Ended, Load, Waiting
<1>. QED
  BY <1>2 DEF Progress

(* One load of several changes; the rows do not.                              *)
LEMMA OneChanges ==
    ASSUME NEW S, NEW q \in Seq(S), NEW n \in 1..Len(q), NEW x \in S
    PROVE  /\ [q EXCEPT ![n] = x] \in Seq(S) /\ Len([q EXCEPT ![n] = x]) = Len(q)
           /\ \A m \in 1..Len(q) : [q EXCEPT ![n] = x][m] = IF m = n THEN x ELSE q[m]
           /\ \A m \in 1..Len(q) : q[m] \in S
OBVIOUS

LEMMA SameRowsGrow == ASSUME rows \in Seq(Row), rows' = rows PROVE RowsGrow
<1>1. Len(rows) \in Nat
  OBVIOUS
<1>. QED
  BY <1>1 DEF RowsGrow

(* The ingestor's steps, and those that change nothing.                       *)
LEMMA IngestorKeeps ==
    ASSUME DashboardAssumption, DashboardInv, RowsGrow, UNCHANGED <<viewVars, load, walk>>
    PROVE  DashboardInv'
<1>1. DashboardTypes'
  BY DEF DashboardInv, DashboardTypes, RowsGrow, viewVars
<1>2. WalkCovers(Len(rows))' /\ PageKeepsPromise' /\ PagingSkipsNothing'
  BY ViewKept DEF viewVars
<1>3. \A n \in 1..Len(load) : LastOnly(n)' /\ Progress(load[n])'
  <2>. TAKE n \in 1..Len(load)
  <2>0. load \in Seq(Load)
    BY DEF DashboardInv, DashboardTypes
  <2>1. PICK l \in Load : l = load[n]
    BY <2>0
  <2>2. Progress(l)'
    BY <2>1, ViewKept DEF DashboardInv, viewVars
  <2>3. l = load'[n]
    BY <2>1
  <2>4. Progress(load[n])'
    BY <2>2, <2>3 DEF Progress, PageHolds
  <2>5. LastOnly(n)'
    BY DEF DashboardInv, LastOnly, Waiting, viewVars
  <2>. QED
    BY <2>4, <2>5
<1>4. ShownIsAsked'
  BY DEF DashboardInv, ShownIsAsked, InFlight, viewVars, Waiting
<1>. QED
  BY <1>1, <1>2, <1>3, <1>4 DEF DashboardInv

LEMMA InsertGrows ==
    ASSUME DashboardAssumption, rows \in Seq(Row), InsertRow PROVE RowsGrow
<1>1. PICK a \in Arrivals : rows' = Append(rows, [arrival |-> a, status |-> "deferred"])
  BY DEF InsertRow
<1>2. [arrival |-> a, status |-> "deferred"] \in Row
  BY DEF DashboardAssumption, Row
<1>3. /\ rows' \in Seq(Row) /\ Len(rows') = Len(rows) + 1 /\ Len(rows) \in Nat
      /\ \A i \in 1..Len(rows) : rows'[i] = rows[i]
  BY <1>1, <1>2
<1>. QED
  BY <1>3 DEF RowsGrow

LEMMA UpdateGrows ==
    ASSUME rows \in Seq(Row), UpdateRow PROVE RowsGrow
<1>1. PICK i \in 1..Len(rows) : rows' = [rows EXCEPT ![i].status = "sent"]
  BY DEF UpdateRow
<1>2. PICK row : row = [rows[i] EXCEPT !.status = "sent"]
  OBVIOUS
<1>3. row \in Row /\ row.arrival = rows[i].arrival
  <2>1. rows[i] \in Row
    OBVIOUS
  <2>. QED
    BY <1>2, <2>1 DEF Row
<1>4. rows' = [rows EXCEPT ![i] = row]
  BY <1>1, <1>2
<1>. QED
  BY <1>3, <1>4 DEF RowsGrow

(* The server works on a load that is under way.                              *)
LEMMA ServerKeeps ==
    ASSUME DashboardAssumption, DashboardInv, NEW n \in 1..Len(load), NEW l \in Load,
           load' = [load EXCEPT ![n] = l],
           load[n].at \in Waiting, l.at \in Waiting,
           l.at \in {"count", "page", "answer"} =>
               /\ load[n].at \in {"count", "page", "answer"}
               /\ l.filter = load[n].filter /\ l.offset = load[n].offset,
           Progress(l), UNCHANGED <<rows, viewVars, walk>>
    PROVE  DashboardInv'
<1>1. load \in Seq(Load) /\ rows \in Seq(Row)
  BY DEF DashboardInv, DashboardTypes
<1>2. /\ load' \in Seq(Load) /\ Len(load') = Len(load)
      /\ \A m \in 1..Len(load) : load'[m] = IF m = n THEN l ELSE load[m]
      /\ \A m \in 1..Len(load) : load'[m] \in Load
  BY <1>1, OneChanges
<1>3. RowsGrow /\ DashboardTypes'
  BY <1>1, <1>2, SameRowsGrow DEF DashboardInv, DashboardTypes, viewVars
<1>4. WalkCovers(Len(rows))' /\ PageKeepsPromise' /\ PagingSkipsNothing'
  BY <1>3, ViewKept DEF viewVars
<1>5. \A m \in 1..Len(load) : LastOnly(m)' /\ Progress(load[m])'
  <2>. TAKE m \in 1..Len(load)
  <2>1. PICK x \in Load : x = load'[m]
    BY <1>2
  <2>2. Progress(x)
    BY <1>2, <2>1 DEF DashboardInv
  <2>3. Progress(x)'
    BY <1>3, <2>2, ViewKept DEF viewVars
  <2>4. Progress(load[m])'
    BY <2>1, <2>3 DEF Progress, PageHolds
  <2>5. LastOnly(n) /\ LastOnly(m)
    BY DEF DashboardInv
  <2>6. LastOnly(m)'
    <3>1. CASE m = n
      BY <1>2, <2>5, <3>1 DEF LastOnly, viewVars, Waiting
    <3>2. CASE m # n
      BY <1>2, <2>5, <3>2 DEF LastOnly, viewVars, Waiting
    <3>. QED
      BY <3>1, <3>2
  <2>. QED
    BY <2>4, <2>6
<1>6. ShownIsAsked'
  <2>1. n \in InFlight'
    BY <1>2 DEF InFlight, Waiting
  <2>. QED
    BY <2>1 DEF ShownIsAsked
<1>. QED
  BY <1>2, <1>3, <1>4, <1>5, <1>6 DEF DashboardInv

(* Without a filter every row matches.                                        *)
LEMMA AllMatch ==
    ASSUME rows \in Seq(Row)
    PROVE  /\ Len(rows) \in Nat /\ Matching(AnyStatus) = 1..Len(rows)
           /\ \A f : /\ IsFiniteSet(Matching(f)) /\ Matching(f) \in SUBSET Nat
                     /\ Cardinality(Matching(f)) \in Nat
           /\ Cardinality(1..Len(rows)) = Len(rows)
<1>1. Len(rows) \in Nat
  OBVIOUS
<1>2. Matching(AnyStatus) = 1..Len(rows)
  BY DEF Matching
<1>3. \A f : Matching(f) \subseteq 1..Len(rows)
  BY DEF Matching
<1>4. IsFiniteSet(1..Len(rows)) /\ Cardinality(1..Len(rows)) = Len(rows)
  BY <1>1, FirstRows
<1>. QED
  BY <1>1, <1>2, <1>3, <1>4, FS_Subset, FS_CardinalityType

LEMMA CountKeeps ==
    ASSUME DashboardAssumption, DashboardInv, NEW n \in 1..Len(load), CountRows(n)
    PROVE  DashboardInv'
<1>1. /\ load \in Seq(Load) /\ rows \in Seq(Row)
  BY DEF DashboardInv, DashboardTypes
<1>2. load[n] \in Load /\ Len(rows) \in Nat
  BY <1>1
<1>. DEFINE c == Cardinality(Matching(load[n].filter))
<1>3. c \in Nat
  BY <1>1, AllMatch
<1>4. PICK l : l = [load[n] EXCEPT !.at = "page", !.counted = Len(rows), !.total = c]
  OBVIOUS
<1>5. load[n].at = "count" /\ load' = [load EXCEPT ![n] = l]
  BY <1>4 DEF CountRows
<1>6. /\ l \in Load /\ l.at = "page" /\ l.filter = load[n].filter /\ l.offset = load[n].offset
      /\ l.counted = Len(rows) /\ l.total = c
  BY <1>2, <1>3, <1>4 DEF Load, Waiting
<1>7. Progress(l)
  <2>1. l.filter = AnyStatus => c = Len(rows)
    BY <1>1, <1>6, AllMatch
  <2>. QED
    BY <1>2, <1>6, <2>1 DEF Progress
<1>8. load[n].at \in Waiting /\ l.at \in Waiting
  BY <1>5, <1>6 DEF Waiting
<1>. QED
  BY <1>5, <1>6, <1>7, <1>8, ServerKeeps DEF CountRows

LEMMA SelectKeeps ==
    ASSUME DashboardAssumption, DashboardInv, NEW n \in 1..Len(load), SelectPage(n)
    PROVE  DashboardInv'
<1>1. /\ load \in Seq(Load) /\ rows \in Seq(Row)
  BY DEF DashboardInv, DashboardTypes
<1>2. /\ load[n] \in Load /\ Progress(load[n]) /\ WalkCovers(Len(rows))
      /\ PageSize \in Nat \ {0}
  BY <1>1 DEF DashboardInv, DashboardAssumption
<1>. DEFINE M == Matching(load[n].filter)
            o == load[n].offset
<1>3. PICK s \in Ordered(M) :
        load' = [load EXCEPT ![n].at = "answer", ![n].present = M, ![n].items = Page(s, o)]
  BY DEF SelectPage
<1>4. PICK l : l = [load[n] EXCEPT !.at = "answer", !.present = M, !.items = Page(s, o)]
  OBVIOUS
<1>5. load[n].at = "page" /\ load' = [load EXCEPT ![n] = l]
  BY <1>3, <1>4 DEF SelectPage
<1>6. /\ IsFiniteSet(M) /\ M \in SUBSET Nat /\ o \in Nat
      /\ load[n].total \in Nat /\ load[n].counted \in Nat
  BY <1>1, <1>2, AllMatch DEF Load
<1>7. Page(s, o) \in SUBSET Nat
  <2>1. /\ Len(s) \in Nat /\ s \in [1..Len(s) -> M]
    BY <1>6, OrderedHasAll
  <2>2. o + PageSize \in Nat
    BY <1>2, <1>6
  <2>3. Min({o + PageSize, Len(s)}) \in Nat /\ Min({o + PageSize, Len(s)}) <= Len(s)
    BY <2>1, <2>2, LeastOfTwo
  <2>4. \A i \in (o + 1)..Min({o + PageSize, Len(s)}) : s[i] \in M
    BY <1>6, <2>1, <2>3
  <2>. QED
    BY <1>6, <2>4 DEF Page
<1>8. /\ l \in Load /\ l.at = "answer" /\ l.filter = load[n].filter /\ l.offset = o
      /\ l.counted = load[n].counted /\ l.total = load[n].total
      /\ l.present = M /\ l.items = Page(s, o)
  <2>1. PICK P \in SUBSET Nat : P = Page(s, o)
    BY <1>7
  <2>2. PICK N \in SUBSET Nat : N = M
    BY <1>6
  <2>3. PICK x \in Load : x = load[n]
    BY <1>2
  <2>4. l = [x EXCEPT !.at = "answer", !.present = N, !.items = P]
    BY <1>4, <2>1, <2>2, <2>3
  <2>5. /\ l \in Load /\ l.at = "answer" /\ l.filter = x.filter /\ l.offset = x.offset
        /\ l.counted = x.counted /\ l.total = x.total
        /\ l.present = N /\ l.items = P
    <3>1. /\ l.at = "answer" /\ l.filter = x.filter /\ l.offset = x.offset
          /\ l.counted = x.counted /\ l.total = x.total
          /\ l.present = N /\ l.items = P
      BY <2>4 DEF Load
    <3>2. l \in Load
      BY <2>4 DEF Load, Waiting
    <3>. QED
      BY <3>1, <3>2
  <2>. QED
    BY <2>1, <2>2, <2>3, <2>5
<1>9. Progress(l)
  <2>1. SUFFICES ASSUME l.filter = AnyStatus
                 PROVE  /\ l.total = l.counted /\ l.counted <= Len(rows)
                        /\ \E L \in 0..Len(rows) : PageHolds(l, L) /\ WalkCovers(L)
    BY DEF Progress
  <2>2. PICK L \in Nat : L = Len(rows)
    BY <1>1
  <2>3. M = 1..L /\ Cardinality(M) = L
    BY <1>1, <1>8, <2>1, <2>2, AllMatch
  <2>4. load[n].total = load[n].counted /\ load[n].counted <= L
    BY <1>2, <1>5, <1>8, <2>1, <2>2 DEF Progress
  <2>5. Promised(o, load[n].total, Page(s, o))
    BY <1>2, <1>6, <2>3, <2>4, PageIsLong
  <2>6. ASSUME Distinct, NEW r \in 1..L, o <= Rank(L, r), Rank(L, r) < o + PageSize
        PROVE  r \in Page(s, o)
    <3>1. s \in Ordered(1..L)
      BY <2>3
    <3>. HIDE DEF M, o
    <3>. QED
      BY <1>1, <1>2, <1>6, <2>2, <2>6, <3>1, PageHasItsRows
  <2>7. PageHolds(l, L)
    BY <1>8, <2>3, <2>4, <2>5, <2>6 DEF PageHolds
  <2>8. L \in 0..Len(rows) /\ WalkCovers(L)
    BY <1>2, <2>2
  <2>. QED
    BY <1>8, <2>2, <2>4, <2>7, <2>8
<1>10. load[n].at \in Waiting /\ l.at \in Waiting
  BY <1>5, <1>8 DEF Waiting
<1>. QED
  BY <1>5, <1>8, <1>9, <1>10, ServerKeeps DEF SelectPage

LEMMA RefuseKeeps ==
    ASSUME DashboardAssumption, DashboardInv, NEW n \in 1..Len(load), Refuse(n)
    PROVE  DashboardInv'
<1>1. PICK h \in {"failed", "expired"} : load' = [load EXCEPT ![n] = Ended(h)]
  BY DEF Refuse
<1>2. load[n].at \in {"count", "page"}
  BY DEF Refuse
<1>3. Ended(h) \in Load /\ Ended(h).at = h /\ Progress(Ended(h))
  BY EndedLoad
<1>4. load[n].at \in Waiting /\ h \in Waiting /\ h \notin {"count", "page", "answer"}
  BY <1>2 DEF Waiting
<1>. QED
  BY <1>1, <1>3, <1>4, ServerKeeps DEF Refuse

(* What aborting leaves: loads that are no longer under way.                  *)
LEMMA AllAborted ==
    ASSUME DashboardAssumption, DashboardInv
    PROVE  /\ AbortAll \in Seq(Load) /\ Len(AbortAll) = Len(load)
           /\ \A n \in 1..Len(load) : /\ AbortAll[n] \in Load
                                      /\ AbortAll[n].at \notin Waiting
<1>1. load \in Seq(Load) /\ Len(load) \in Nat /\ DOMAIN load = 1..Len(load)
  BY DEF DashboardInv, DashboardTypes
<1>2. "aborted" \notin Waiting
  BY DEF Waiting
<1>3. ASSUME NEW n \in 1..Len(load)
      PROVE  Aborted(load[n]) \in Load /\ Aborted(load[n]).at \notin Waiting
  <2>1. load[n] \in Load
    BY <1>1
  <2>2. Ended("aborted") \in Load /\ Ended("aborted").at = "aborted"
    BY EndedLoad
  <2>. QED
    BY <2>1, <2>2, <1>2, Zenon DEF Aborted
<1>4. AbortAll = [n \in 1..Len(load) |-> Aborted(load[n])]
  BY <1>1 DEF AbortAll
<1>5. AbortAll \in [1..Len(load) -> Load] /\ \A n \in 1..Len(load) : AbortAll[n] = Aborted(load[n])
  BY <1>3, <1>4
<1>6. AbortAll \in Seq(Load) /\ Len(AbortAll) = Len(load)
  BY <1>1, <1>5
<1>. QED
  BY <1>3, <1>5, <1>6

(* A load that is not under way has nothing to show for it.                   *)
LEMMA IdleProgress ==
    ASSUME NEW l, l.at \notin {"page", "answer"}
    PROVE  Progress(l)
BY DEF Progress

(* The effect of a new user, filter or offset.                                *)
LEMMA EffectKeeps ==
    ASSUME DashboardAssumption, DashboardInv, NEW f \in Filters, NEW o \in Nat,
           Effect(f, o), signedIn' = TRUE
    PROVE  DashboardInv'
<1>1. PICK k \in Nat : k = Len(load)
  BY DEF DashboardInv, DashboardTypes
<1>2. PICK q \in Seq(Load) : q = AbortAll
  BY AllAborted
<1>3. PICK l \in Load : l = Fresh(f, o) /\ l.at = "count" /\ l.filter = f /\ l.offset = o
  BY FreshLoad
<1>4. /\ load' = Append(q, l) /\ filter' = f /\ offset' = o /\ error' = FALSE
      /\ rows' = rows /\ data' = data /\ walk' = walk
  BY <1>2, <1>3 DEF Effect
<1>5. /\ Len(q) = k /\ \A n \in 1..k : q[n] \in Load /\ q[n].at \notin Waiting
  BY <1>1, <1>2, AllAborted
<1>6. /\ load' \in Seq(Load) /\ Len(load') = k + 1 /\ load'[k + 1] = l
      /\ \A n \in 1..k : load'[n] = q[n]
  BY <1>4, <1>5
<1>7. DashboardTypes'
  BY <1>4, <1>6 DEF DashboardInv, DashboardTypes
<1>8. rows \in Seq(Row) /\ RowsGrow
  BY <1>4, SameRowsGrow DEF DashboardInv, DashboardTypes
<1>9. WalkCovers(Len(rows))' /\ PageKeepsPromise' /\ PagingSkipsNothing'
  BY <1>4, <1>8, ViewKept
<1>10. \A n \in 1..(k + 1) : n \in 1..k \/ n = k + 1
  BY <1>1
<1>11. \A n \in 1..(k + 1) : load'[n].at \notin {"page", "answer"}
  BY <1>3, <1>5, <1>6, <1>10 DEF Waiting
<1>12. ASSUME NEW n \in 1..(k + 1) PROVE LastOnly(n)' /\ Progress(load[n])'
  <2>1. Progress(load[n])'
    BY <1>11 DEF Progress
  <2>2. CASE n = k + 1
    BY <1>3, <1>4, <1>6, <2>1, <2>2 DEF LastOnly, Waiting
  <2>3. CASE n \in 1..k
    BY <1>5, <1>6, <2>1, <2>3 DEF LastOnly, Waiting
  <2>. QED
    BY <1>10, <2>2, <2>3
<1>13. ShownIsAsked'
  <2>1. k + 1 \in InFlight'
    <3>1. k + 1 \in 1..(k + 1) /\ "count" \in Waiting
      BY <1>1 DEF Waiting
    <3>. QED
      BY <1>3, <1>6, <3>1 DEF InFlight, Waiting
  <2>. QED
    BY <2>1 DEF ShownIsAsked
<1>. QED
  BY <1>6, <1>7, <1>9, <1>12, <1>13 DEF DashboardInv

(* The steps of the browser that end a load, or all of them, and leave the    *)
(* table alone.                                                               *)
LEMMA EndKeeps ==
    ASSUME DashboardAssumption, DashboardInv,
           load' \in Seq(Load), Len(load') = Len(load),
           \A n \in 1..Len(load) : load'[n] = load[n] \/ load'[n].at \notin Waiting,
           signedIn' \in BOOLEAN, error' \in BOOLEAN,
           signedIn' => signedIn, ~signedIn' => InFlight' = {},
           signedIn' /\ ~error' => ~error /\ InFlight' = InFlight,
           UNCHANGED <<rows, data, walk, filter, offset>>
    PROVE  DashboardInv'
<1>1. DashboardTypes'
  BY DEF DashboardInv, DashboardTypes
<1>2. rows \in Seq(Row) /\ RowsGrow
  BY SameRowsGrow DEF DashboardInv, DashboardTypes
<1>3. WalkCovers(Len(rows))' /\ PageKeepsPromise' /\ PagingSkipsNothing'
  BY <1>2, ViewKept
<1>4. ASSUME NEW n \in 1..Len(load) PROVE LastOnly(n)' /\ Progress(load[n])'
  <2>0. /\ LastOnly(n) /\ Progress(load[n])
        /\ \A l \in Load : Progress(l) => Progress(l)'
    BY <1>2, ViewKept DEF DashboardInv
  <2>1. PICK l \in Load : l = load'[n]
    OBVIOUS
  <2>2. Progress(l)'
    <3>1. CASE l = load[n]
      BY <2>0, <3>1
    <3>2. CASE l.at \notin Waiting
      BY <3>2 DEF Progress, Waiting
    <3>. QED
      BY <2>1, <3>1, <3>2
  <2>3. Progress(load[n])'
    BY <2>1, <2>2 DEF Progress, PageHolds
  <2>4. load'[n].at \in Waiting => signedIn'
    <3>1. n \in InFlight' <=> load'[n].at \in Waiting
      BY DEF InFlight, Waiting
    <3>. QED
      BY <3>1
  <2>5. LastOnly(n)'
    BY <2>0, <2>4 DEF LastOnly, Waiting
  <2>. QED
    BY <2>3, <2>5
<1>5. ShownIsAsked'
  BY DEF DashboardInv, ShownIsAsked
<1>. QED
  BY <1>1, <1>3, <1>4, <1>5 DEF DashboardInv

LEMMA LogoutKeeps ==
    ASSUME DashboardAssumption, DashboardInv, Logout
    PROVE  DashboardInv'
<1>1. /\ load' = AbortAll /\ signedIn' = FALSE /\ data' = NoData /\ walk' = NoWalk
      /\ UNCHANGED <<rows, filter, offset, error>>
  BY DEF Logout
<1>2. /\ load' \in Seq(Load) /\ Len(load') = Len(load)
      /\ \A n \in 1..Len(load) : load'[n].at \notin Waiting
  BY <1>1, AllAborted
<1>3. /\ NoData \in Shown /\ NoWalk \in Walk
      /\ NoData.total = 0 /\ NoData.offset = 0 /\ NoWalk.start = {}
  BY DEF NoData, NoWalk, Shown, Walk, DashboardAssumption
<1>4. DashboardTypes'
  BY <1>1, <1>2, <1>3 DEF DashboardInv, DashboardTypes
<1>5. \A n \in 1..Len(load) : LastOnly(n)' /\ Progress(load[n])'
  BY <1>2 DEF LastOnly, Progress, Waiting
<1>6. WalkCovers(Len(rows))'
  BY <1>1, <1>3 DEF WalkCovers
<1>7. ShownIsAsked' /\ PagingSkipsNothing'
  BY <1>1, <1>3 DEF ShownIsAsked, PagingSkipsNothing
<1>8. PageKeepsPromise'
  <2>1. ~(data'.offset < data'.total)
    BY <1>1, <1>3
  <2>. QED
    BY <2>1 DEF PageKeepsPromise
<1>. QED
  BY <1>2, <1>4, <1>5, <1>6, <1>7, <1>8 DEF DashboardInv

(* One load ends; only the last one could have been under way.                *)
LEMMA OneEnds ==
    ASSUME DashboardAssumption, DashboardInv, NEW n \in 1..Len(load),
           load' = [load EXCEPT ![n] = Ended("done")]
    PROVE  /\ load' \in Seq(Load) /\ Len(load') = Len(load)
           /\ load'[n].at \notin Waiting
           /\ \A m \in 1..Len(load) : load'[m] = load[m] \/ load'[m].at \notin Waiting
           /\ load[n].at \notin Waiting => InFlight' = InFlight
           /\ load[n].at \in Waiting => InFlight' = {} /\ signedIn
           /\ ~signedIn => InFlight = {}
<1>1. PICK d \in Load : d = Ended("done") /\ d.at \notin Waiting
  BY EndedLoad DEF Waiting
<1>2. load \in Seq(Load) /\ load' = [load EXCEPT ![n] = d]
  BY <1>1 DEF DashboardInv, DashboardTypes
<1>3. /\ load' \in Seq(Load) /\ Len(load') = Len(load)
      /\ \A m \in 1..Len(load) : load'[m] = IF m = n THEN d ELSE load[m]
  BY <1>2, OneChanges
<1>4. \A m \in 1..Len(load) : load[m].at \in Waiting => m = Len(load) /\ signedIn
  BY DEF DashboardInv, LastOnly
<1>5. InFlight' = {m \in 1..Len(load) : load'[m].at \in Waiting}
  BY <1>3 DEF InFlight, Waiting
<1>6. load[n].at \notin Waiting => InFlight' = InFlight
  BY <1>1, <1>3, <1>5 DEF InFlight
<1>7. load[n].at \in Waiting => InFlight' = {} /\ signedIn
  BY <1>1, <1>3, <1>4, <1>5
<1>8. ~signedIn => InFlight = {}
  BY <1>4 DEF InFlight
<1>. QED
  BY <1>1, <1>3, <1>6, <1>7, <1>8

LEMMA SettleKeeps ==
    ASSUME DashboardAssumption, DashboardInv, NEW n \in 1..Len(load), AbortSettles(n)
    PROVE  DashboardInv'
<1>1. /\ load[n].at = "aborted" /\ load' = [load EXCEPT ![n] = Ended("done")]
      /\ UNCHANGED <<rows, signedIn, filter, offset, data, error, walk>>
  BY DEF AbortSettles
<1>2. load[n].at \notin Waiting
  BY <1>1 DEF Waiting
<1>3. signedIn \in BOOLEAN /\ error \in BOOLEAN
  BY DEF DashboardInv, DashboardTypes
<1>. QED
  BY <1>1, <1>2, <1>3, OneEnds, EndKeeps

LEMMA AnswerErrorKeeps ==
    ASSUME DashboardAssumption, DashboardInv, NEW n \in 1..Len(load), AnswerError(n)
    PROVE  DashboardInv'
<1>1. /\ load[n].at \in {"failed", "expired"} /\ load' = [load EXCEPT ![n] = Ended("done")]
      /\ signedIn' \in BOOLEAN /\ error' = TRUE
      /\ UNCHANGED <<rows, filter, offset, data, walk>>
  BY DEF AnswerError
<1>2. load[n].at \in Waiting
  BY <1>1 DEF Waiting
<1>. QED
  BY <1>1, <1>2, OneEnds, EndKeeps

(* The walk goes on: the page answered has the rows that come next, in the     *)
(* order they had when it was selected and, rows being pushed back only, in    *)
(* the order they have now.                                                   *)
LEMMA WalkGoesOn ==
    ASSUME DashboardAssumption, DashboardInv, NEW l \in Load, NEW L \in 0..Len(rows),
           PageHolds(l, L), WalkCovers(L), l.filter = AnyStatus,
           rows' = rows, walk' = Walked(l)
    PROVE  /\ walk' \in Walk /\ WalkCovers(L)' /\ WalkCovers(Len(rows))'
<1>1. /\ walk \in Walk /\ rows \in Seq(Row) /\ PageSize \in Nat \ {0} /\ Len(rows) \in Nat
      /\ l.offset \in Nat /\ l.present = 1..L /\ l.items \in SUBSET Nat /\ l.present \in SUBSET Nat
      /\ walk.next \in Nat /\ L \in Nat /\ L <= Len(rows)
  BY DEF DashboardInv, DashboardTypes, DashboardAssumption, PageHolds, Load, Walk
<1>2. \A r \in 1..L : Rank(L, r) \in Nat
  BY <1>1, RankType
<1>3. ASSUME Distinct, NEW r \in 1..L, l.offset <= Rank(L, r), Rank(L, r) < l.offset + PageSize
      PROVE  r \in l.items
  BY <1>3 DEF PageHolds
<1>4. /\ walk' \in Walk /\ walk'.start \subseteq 1..L
      /\ Distinct => \A r \in walk'.start : Rank(L, r) < walk'.next => r \in walk'.seen
  <2>1. CASE l.offset = 0
    <3>1. walk' = [filter |-> l.filter, start |-> l.present, seen |-> l.items, next |-> PageSize]
      BY <2>1 DEF Walked
    <3>2. walk' \in Walk /\ walk'.start = 1..L /\ walk'.seen = l.items /\ walk'.next = PageSize
      BY <1>1, <3>1 DEF Walk, Load
    <3>3. ASSUME Distinct, NEW r \in 1..L, Rank(L, r) < PageSize PROVE r \in l.items
      <4>1. l.offset <= Rank(L, r) /\ Rank(L, r) < l.offset + PageSize
        BY <1>1, <1>2, <2>1, <3>3
      <4>. QED
        BY <1>3, <3>3, <4>1
    <3>. QED
      BY <3>2, <3>3
  <2>2. CASE l.offset # 0 /\ (l.offset > walk.next \/ l.filter # walk.filter)
    <3>1. walk' = NoWalk
      BY <2>2 DEF Walked
    <3>2. NoWalk \in Walk /\ NoWalk.start = {}
      BY DEF NoWalk, Walk, DashboardAssumption
    <3>. QED
      BY <3>1, <3>2
  <2>3. CASE l.offset # 0 /\ ~(l.offset > walk.next \/ l.filter # walk.filter)
    <3>. DEFINE next == Max({walk.next, l.offset + PageSize})
                seen == walk.seen \cup l.items
    <3>1. l.offset + PageSize \in Nat
      BY <1>1
    <3>2. next = IF walk.next >= l.offset + PageSize THEN walk.next ELSE l.offset + PageSize
      BY <1>1, <3>1, GreatestOfTwo
    <3>3. next \in Nat /\ seen \in SUBSET Nat
      BY <1>1, <3>1, <3>2 DEF Walk
    <3>4. walk' = [walk EXCEPT !.seen = seen, !.next = next]
      BY <2>3 DEF Walked
    <3>. HIDE DEF next, seen
    <3>5. walk' \in Walk /\ walk'.start = walk.start /\ walk'.seen = seen /\ walk'.next = next
      BY <1>1, <3>3, <3>4 DEF Walk
    <3>6. /\ walk.start \subseteq 1..L
          /\ Distinct => \A r \in walk.start : Rank(L, r) < walk.next => r \in walk.seen
      BY <2>3 DEF WalkCovers
    <3>7. ASSUME Distinct, NEW r \in walk.start, Rank(L, r) < next PROVE r \in seen
      <4>1. r \in 1..L /\ Rank(L, r) \in Nat
        BY <1>2, <3>6
      <4>2. CASE Rank(L, r) < walk.next
        BY <3>6, <3>7, <4>2 DEF seen
      <4>3. CASE ~(Rank(L, r) < walk.next)
        <5>1. l.offset <= Rank(L, r) /\ Rank(L, r) < l.offset + PageSize
          BY <1>1, <2>3, <3>1, <3>2, <3>7, <4>1, <4>3
        <5>. QED
          BY <1>3, <3>7, <4>1, <5>1 DEF seen
      <4>. QED
        BY <4>2, <4>3
    <3>. QED
      BY <3>5, <3>6, <3>7
  <2>. QED
    BY <2>1, <2>2, <2>3
<1>5. /\ Distinct' <=> Distinct
      /\ \A m, r : Rank(m, r)' = Rank(m, r)
  BY DEF Distinct, Rank, Above
<1>6. WalkCovers(L)'
  BY <1>4, <1>5 DEF WalkCovers
<1>7. WalkCovers(Len(rows))'
  <2>1. PICK m \in Nat : m = Len(rows)
    BY <1>1
  <2>2. ASSUME NEW r \in 1..L
        PROVE  Rank(L, r) \in Nat /\ Rank(m, r) \in Nat /\ Rank(L, r) <= Rank(m, r)
    <3>1. L \in Nat /\ L <= m
      BY <1>1, <2>1
    <3>. QED
      BY <3>1, RankGrows, ZenonT(40) DEF Rank, Above
  <2>3. walk'.next \in Nat /\ walk'.start \subseteq 1..m
    BY <1>1, <1>4, <2>1 DEF Walk
  <2>4. ASSUME Distinct, NEW r \in walk'.start, Rank(m, r) < walk'.next PROVE r \in walk'.seen
    <3>1. r \in 1..L /\ Rank(L, r) < walk'.next
      BY <1>4, <2>2, <2>3, <2>4
    <3>. QED
      BY <1>4, <2>4, <3>1
  <2>5. WalkCovers(m)'
    BY <1>5, <2>3, <2>4 DEF WalkCovers
  <2>. QED
    BY <2>1, <2>5 DEF WalkCovers
<1>. QED
  BY <1>4, <1>6, <1>7

LEMMA AnswerKeeps ==
    ASSUME DashboardAssumption, DashboardInv, NEW n \in 1..Len(load), Answer(n)
    PROVE  DashboardInv'
<1>1. PICK l \in Load : l = load[n]
  <2>1. load \in Seq(Load)
    BY DEF DashboardInv, DashboardTypes
  <2>. QED
    BY <2>1
<1>2. /\ l.at = "answer"
      /\ data' = [n |-> n, filter |-> l.filter, offset |-> l.offset, total |-> l.total,
                  items |-> l.items, raced |-> \E i \in l.present : i > l.counted]
      /\ load' = [load EXCEPT ![n] = Ended("done")] /\ walk' = Walked(l)
      /\ UNCHANGED <<rows, signedIn, filter, offset, error>>
  BY <1>1 DEF Answer
<1>3. /\ Progress(l) /\ n = Len(load) /\ signedIn
      /\ l.filter = filter /\ l.offset = offset
  <2>1. LastOnly(n) /\ Progress(load[n])
    BY DEF DashboardInv
  <2>. QED
    BY <1>1, <1>2, <2>1 DEF LastOnly, Waiting
<1>4. /\ data'.n = n /\ data'.filter = l.filter /\ data'.offset = l.offset
      /\ data'.total = l.total /\ data'.items = l.items
      /\ data'.raced = (\E i \in l.present : i > l.counted)
  BY <1>2
<1>5. data' \in Shown
  BY <1>2 DEF Load, Shown
<1>6. /\ load' \in Seq(Load) /\ Len(load') = Len(load) /\ InFlight' = {}
  BY <1>1, <1>2, OneEnds DEF Waiting
<1>7. \A m \in 1..Len(load) : load'[m].at \notin Waiting
  BY <1>6 DEF InFlight, Waiting
<1>8. \A m \in 1..Len(load) : LastOnly(m)' /\ Progress(load[m])'
  BY <1>7 DEF LastOnly, Progress, Waiting
<1>9. ShownIsAsked'
  BY <1>2, <1>3, <1>4, <1>6 DEF ShownIsAsked
<1>10. CASE l.filter = AnyStatus
  <2>1. PICK L \in 0..Len(rows) : PageHolds(l, L) /\ WalkCovers(L)
    BY <1>2, <1>3, <1>10 DEF Progress
  <2>2. walk' \in Walk /\ WalkCovers(L)' /\ WalkCovers(Len(rows))'
    BY <1>2, <1>10, <2>1, WalkGoesOn
  <2>3. PageKeepsPromise'
    BY <1>4, <2>1 DEF PageKeepsPromise, PageHolds, Promised
  <2>4. PagingSkipsNothing'
    <3>1. SUFFICES ASSUME walk'.next = data'.offset + PageSize, ~data'.raced,
                          data'.offset + PageSize >= data'.total, Distinct'
                   PROVE  walk'.start \subseteq walk'.seen
      BY DEF PagingSkipsNothing, Distinct
    <3>2. CASE walk'.filter = AnyStatus
      <4>1. /\ walk'.start \subseteq 1..L
            /\ \A r \in walk'.start : Rank(L, r)' < walk'.next => r \in walk'.seen
        BY <2>2, <3>1, <3>2 DEF WalkCovers
      <4>2. /\ rows \in Seq(Row) /\ Len(rows) \in Nat /\ L \in Nat /\ L <= Len(rows)
            /\ l.counted \in Nat /\ l.total = l.counted /\ l.present = 1..L
        BY <1>2, <1>3, <1>10, <2>1 DEF DashboardInv, DashboardTypes, Load, Progress, PageHolds
      <4>3. ASSUME NEW r \in 1..L PROVE Rank(L, r)' < walk'.next
        <5>1. Rank(L, r) \in Nat /\ Rank(L, r) < L
          BY <4>2, RankType
        <5>2. Rank(L, r)' = Rank(L, r)
          BY <1>2 DEF Rank, Above
        <5>3. L <= l.total
          <6>1. \A i \in 1..L : ~(i > l.counted)
            BY <1>4, <3>1, <4>2
          <6>2. L \in 1..L
            BY <4>2
          <6>. QED
            BY <4>2, <6>1, <6>2
        <5>4. walk'.next \in Nat /\ walk'.next >= l.total /\ l.total \in Nat
          BY <1>4, <2>2, <3>1 DEF Walk, Load
        <5>. QED
          BY <4>2, <5>1, <5>2, <5>3, <5>4
      <4>. QED
        BY <4>1, <4>3
    <3>3. CASE walk'.filter # AnyStatus
      <4>1. walk' # NoWalk
        BY <3>3 DEF NoWalk
      <4>2. walk'.filter = AnyStatus
        BY <1>2, <1>10, <4>1 DEF Walked, DashboardInv, DashboardTypes, Walk
      <4>. QED
        BY <3>3, <4>2
    <3>. QED
      BY <3>2, <3>3
  <2>5. DashboardTypes'
    BY <1>2, <1>5, <1>6, <2>2 DEF DashboardInv, DashboardTypes
  <2>. QED
    BY <1>6, <1>8, <1>9, <2>2, <2>3, <2>4, <2>5 DEF DashboardInv
<1>11. CASE l.filter # AnyStatus
  <2>1. walk' \in Walk /\ (walk'.filter # AnyStatus \/ walk' = NoWalk)
    <3>1. /\ walk \in Walk /\ walk.next \in Nat /\ PageSize \in Nat /\ NoWalk \in Walk
          /\ l.offset + PageSize \in Nat
      <4>1. walk \in Walk /\ PageSize \in Nat
        BY DEF DashboardInv, DashboardTypes, DashboardAssumption
      <4>2. walk.next \in Nat /\ l.offset \in Nat
        BY <4>1 DEF Walk, Load
      <4>3. NoWalk \in Walk
        BY DEF Walk, NoWalk, DashboardAssumption
      <4>. QED
        BY <4>1, <4>2, <4>3
    <3>2. CASE l.offset = 0
      BY <1>2, <1>11, <3>1, <3>2 DEF Walked, Walk, Load
    <3>3. CASE l.offset # 0 /\ (l.offset > walk.next \/ l.filter # walk.filter)
      BY <1>2, <3>1, <3>3 DEF Walked
    <3>4. CASE l.offset # 0 /\ ~(l.offset > walk.next \/ l.filter # walk.filter)
      <4>1. PICK m \in Nat : m = Max({walk.next, l.offset + PageSize})
        BY <3>1, GreatestOfTwo
      <4>2. PICK S \in SUBSET Nat : S = walk.seen \cup l.items
        BY <3>1 DEF Walk, Load
      <4>3. walk' = [walk EXCEPT !.seen = S, !.next = m]
        BY <1>2, <3>4, <4>1, <4>2 DEF Walked
      <4>4. walk' \in Walk /\ walk'.filter = walk.filter
        BY <3>1, <4>3 DEF Walk
      <4>. QED
        BY <1>11, <3>4, <4>4
    <3>. QED
      BY <3>2, <3>3, <3>4
  <2>2. WalkCovers(Len(rows))'
    BY <2>1 DEF WalkCovers, NoWalk
  <2>3. PageKeepsPromise' /\ PagingSkipsNothing'
    BY <1>4, <1>11 DEF PageKeepsPromise, PagingSkipsNothing
  <2>4. DashboardTypes'
    BY <1>2, <1>5, <1>6, <2>1 DEF DashboardInv, DashboardTypes
  <2>. QED
    BY <1>6, <1>8, <1>9, <2>2, <2>3, <2>4 DEF DashboardInv
<1>. QED
  BY <1>10, <1>11

LEMMA DashboardInitially == ASSUME DashboardAssumption, DashboardInit PROVE DashboardInv
<1>1. /\ rows = [i \in 1..OldRows |-> [arrival |-> 2 * i, status |-> "deferred"]]
      /\ signedIn = FALSE /\ error = FALSE /\ filter = AnyStatus /\ offset = 0
      /\ load = <<>> /\ data = NoData /\ walk = NoWalk
  BY DEF DashboardInit
<1>2. \A i \in 1..OldRows : [arrival |-> 2 * i, status |-> "deferred"] \in Row
  BY DEF Row, DashboardAssumption
<1>3. rows \in Seq(Row)
  <2>1. rows \in [1..OldRows -> Row] /\ OldRows \in Nat
    BY <1>1, <1>2 DEF DashboardAssumption
  <2>. QED
    BY <2>1
<1>4. /\ NoData \in Shown /\ NoWalk \in Walk
      /\ NoData.total = 0 /\ NoData.offset = 0 /\ NoWalk.start = {}
  BY DEF NoData, NoWalk, Shown, Walk, DashboardAssumption
<1>5. DashboardTypes /\ Len(load) = 0
  <2>1. load \in Seq(Load) /\ Len(load) = 0
    BY <1>1
  <2>. QED
    BY <1>1, <1>3, <1>4, <2>1 DEF DashboardTypes, DashboardAssumption
<1>6. WalkCovers(Len(rows)) /\ ShownIsAsked /\ PagingSkipsNothing
  BY <1>1, <1>4 DEF WalkCovers, ShownIsAsked, PagingSkipsNothing
<1>7. PageKeepsPromise
  <2>1. ~(data.offset < data.total)
    BY <1>1, <1>4
  <2>. QED
    BY <2>1 DEF PageKeepsPromise
<1>. QED
  BY <1>5, <1>6, <1>7 DEF DashboardInv

(* The buttons: each starts a load for an offset that is a number.            *)
LEMMA ButtonsKeep ==
    ASSUME DashboardAssumption, DashboardInv,
           SignIn \/ Search \/ Refresh \/ NextPage \/ PreviousPage
    PROVE  DashboardInv'
<1>1. filter \in Filters /\ offset \in Nat /\ PageSize \in Nat
  BY DEF DashboardInv, DashboardTypes, DashboardAssumption
<1>2. CASE SignIn
  BY <1>1, <1>2, EffectKeeps DEF SignIn
<1>3. CASE Search
  <2>1. PICK f \in Filters : Effect(f, 0)
    BY <1>3 DEF Search
  <2>2. signedIn' = TRUE
    BY <1>3 DEF Search, DashboardInv, DashboardTypes
  <2>. QED
    BY <2>1, <2>2, EffectKeeps
<1>4. CASE Refresh
  <2>1. signedIn' = TRUE /\ Effect(filter, offset)
    BY <1>4 DEF Refresh, DashboardInv, DashboardTypes
  <2>. QED
    BY <1>1, <2>1, EffectKeeps
<1>5. CASE NextPage
  <2>1. signedIn' = TRUE /\ Effect(filter, offset + PageSize)
    BY <1>5 DEF NextPage, DashboardInv, DashboardTypes
  <2>2. offset + PageSize \in Nat
    BY <1>1
  <2>. QED
    BY <1>1, <2>1, <2>2, EffectKeeps
<1>6. CASE PreviousPage
  <2>1. signedIn' = TRUE /\ Effect(filter, IF offset > PageSize THEN offset - PageSize ELSE 0)
    BY <1>6 DEF PreviousPage, DashboardInv, DashboardTypes
  <2>2. (IF offset > PageSize THEN offset - PageSize ELSE 0) \in Nat
    BY <1>1
  <2>. QED
    BY <1>1, <2>1, <2>2, EffectKeeps
<1>. QED
  BY <1>2, <1>3, <1>4, <1>5, <1>6

----------------------------------------------------------------------------
(* The theorems.                                                              *)

(* Every step of the ingestor, of handleLogs and of the page keeps the        *)
(* inductive invariant.                                                       *)
THEOREM DashboardCorrect == DashboardSpec => []DashboardInv
<1>1. DashboardInit => DashboardInv
  BY DashboardInitially, DashboardAssumption
<1>2. DashboardInv /\ [DashboardNext]_dashboardVars => DashboardInv'
  <2>. SUFFICES ASSUME DashboardInv, [DashboardNext]_dashboardVars PROVE DashboardInv'
    OBVIOUS
  <2>. USE DashboardAssumption
  <2>1. rows \in Seq(Row)
    BY DEF DashboardInv, DashboardTypes
  <2>2. CASE InsertRow
    BY <2>1, <2>2, InsertGrows, IngestorKeeps DEF InsertRow
  <2>3. CASE UpdateRow
    BY <2>1, <2>3, UpdateGrows, IngestorKeeps DEF UpdateRow
  <2>4. CASE SignIn \/ Search \/ Refresh \/ NextPage \/ PreviousPage
    BY <2>4, ButtonsKeep
  <2>5. CASE Logout
    BY <2>5, LogoutKeeps
  <2>6. ASSUME NEW n \in 1..Len(load), Serve(n) \/ Receive(n) PROVE DashboardInv'
    BY <2>6, CountKeeps, SelectKeeps, RefuseKeeps, AnswerKeeps, AnswerErrorKeeps, SettleKeeps
       DEF Serve, Receive
  <2>7. CASE UNCHANGED dashboardVars
    BY <2>1, <2>7, SameRowsGrow, IngestorKeeps DEF dashboardVars
  <2>. QED
    BY <2>2, <2>3, <2>4, <2>5, <2>6, <2>7 DEF DashboardNext
<1>. QED
  BY <1>1, <1>2, PTL DEF DashboardSpec

(* The table is the answer to what was asked last, whatever order answers     *)
(* come in (the AbortController of the effect).                               *)
THEOREM LastQuestionAnswered == DashboardSpec => []ShownIsAsked
<1>1. DashboardInv => ShownIsAsked
  BY DEF DashboardInv
<1>. QED
  BY <1>1, DashboardCorrect, PTL

(* A page is never shorter than the total of its own answer says, though      *)
(* handleLogs counts and selects in two statements.                           *)
THEOREM TotalsAreKept == DashboardSpec => []PageKeepsPromise
<1>1. DashboardInv => PageKeepsPromise
  BY DEF DashboardInv
<1>. QED
  BY <1>1, DashboardCorrect, PTL

(* Paging by LIMIT and OFFSET through a growing table skips no row.           *)
THEOREM NoRowSkipped == DashboardSpec => []PagingSkipsNothing
<1>1. DashboardInv => PagingSkipsNothing
  BY DEF DashboardInv
<1>. QED
  BY <1>1, DashboardCorrect, PTL
=============================================================================
