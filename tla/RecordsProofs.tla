--------------------------- MODULE RecordsProofs ---------------------------
(***************************************************************************)
(* Proofs about Records. The index: its queries list rows in order, and    *)
(* its transactions leave whole bundles, whoever dies or is refused. Stage *)
(* S5: what resolve knows is a function of the set of records it has seen, *)
(* and a fact has its arguments by role.                                   *)
(***************************************************************************)
EXTENDS Records, Induction

-----------------------------------------------------------------------------
\* The queries

\* Rows as the table holds them: finitely many, no two with one id.
Keyed(S) == IsFiniteSet(S) /\ S \subseteq IndexRows /\ \A q, r \in S : q.id = r.id => q = r

SeqRel(S) == {p \in S \X S : BySeq(p[1], p[2])}
TimeRel(S) == {p \in S \X S : ByTime(p[1], p[2])}

(* BySeq and ByTime order any such rows. *)
LEMMA RowsOrdered ==
    ASSUME NEW S, Keyed(S)
    PROVE  StrictOrder(SeqRel(S), S) /\ StrictOrder(TimeRel(S), S)
  <1>0. \A r \in S : r.id \in Int /\ r.seq \in Int /\ r.t \in Int
    BY DEF Keyed, IndexRows
  <1>1. \A x \in S : ~BySeq(x, x) /\ ~ByTime(x, x)
    BY <1>0 DEF BySeq, ByTime
  <1>2. \A x, y, z \in S : BySeq(x, y) /\ BySeq(y, z) => BySeq(x, z)
    BY <1>0 DEF BySeq
  <1>3. \A x, y, z \in S : ByTime(x, y) /\ ByTime(y, z) => ByTime(x, z)
    BY <1>0, <1>2 DEF ByTime
  <1>4. \A x, y \in S : x = y \/ BySeq(x, y) \/ BySeq(y, x)
    BY <1>0 DEF BySeq, Keyed
  <1>5. \A x, y \in S : x = y \/ ByTime(x, y) \/ ByTime(y, x)
    BY <1>0, <1>4 DEF ByTime
  <1>6. \A x, y \in S : (<<x, y>> \in SeqRel(S) <=> BySeq(x, y)) /\ (<<x, y>> \in TimeRel(S) <=> ByTime(x, y))
    BY DEF SeqRel, TimeRel
  <1> QED BY <1>1, <1>2, <1>3, <1>4, <1>5, <1>6 DEF StrictOrder

(* OrderedBy lists the rows in either order. *)
LEMMA QueriesList ==
    ASSUME NEW S, Keyed(S)
    PROVE  Lists(OrderedBy(S, BySeq), SeqRel(S), S) /\ Lists(OrderedBy(S, ByTime), TimeRel(S), S)
  <1>0. IsFiniteSet(S)
    BY DEF Keyed
  <1>1. Lists(OrderedBy(S, BySeq), SeqRel(S), S)
    <2> DEFINE u == OrderedBy(S, BySeq)
    <2>1. \A r \in S : {q \in S : BySeq(q, r)} = Preceding(SeqRel(S), S, r)
      BY DEF Preceding, SeqRel
    <2>2. ASSUME NEW k \in 1..Cardinality(S)
          PROVE  u[k] \in S /\ Cardinality(Preceding(SeqRel(S), S, u[k])) = k - 1
      <3>1. PICK r \in S : Cardinality(Preceding(SeqRel(S), S, r)) = k - 1
        BY <1>0, RowsOrdered, RankTaken
      <3>2. \E s \in S : Cardinality({q \in S : BySeq(q, s)}) = k - 1
        BY <2>1, <3>1
      <3>3. u[k] \in S /\ Cardinality({q \in S : BySeq(q, u[k])}) = k - 1
        BY <3>2 DEF OrderedBy
      <3> HIDE DEF u
      <3> QED BY <2>1, <3>3
    <2>3. u \in [1..Cardinality(S) -> S]
      <3> DEFINE c(k) == CHOOSE r \in S : Cardinality({q \in S : BySeq(q, r)}) = k - 1
      <3>1. u = [k \in 1..Cardinality(S) |-> c(k)]
        BY DEF OrderedBy
      <3> HIDE DEF c
      <3>2. \A k \in 1..Cardinality(S) : u[k] = c(k)
        BY <3>1
      <3> HIDE DEF u
      <3> QED BY <2>2, <3>1, <3>2
    <2> HIDE DEF u
    <2>5. Lists(u, SeqRel(S), S)
      BY <1>0, <2>2, <2>3, RowsOrdered, RanksList
    <2> QED BY <2>5 DEF u
  <1>2. Lists(OrderedBy(S, ByTime), TimeRel(S), S)
    <2> DEFINE u == OrderedBy(S, ByTime)
    <2>1. \A r \in S : {q \in S : ByTime(q, r)} = Preceding(TimeRel(S), S, r)
      BY DEF Preceding, TimeRel
    <2>2. ASSUME NEW k \in 1..Cardinality(S)
          PROVE  u[k] \in S /\ Cardinality(Preceding(TimeRel(S), S, u[k])) = k - 1
      <3>1. PICK r \in S : Cardinality(Preceding(TimeRel(S), S, r)) = k - 1
        BY <1>0, RowsOrdered, RankTaken
      <3>2. \E s \in S : Cardinality({q \in S : ByTime(q, s)}) = k - 1
        BY <2>1, <3>1
      <3>3. u[k] \in S /\ Cardinality({q \in S : ByTime(q, u[k])}) = k - 1
        BY <3>2 DEF OrderedBy
      <3> HIDE DEF u
      <3> QED BY <2>1, <3>3
    <2>3. u \in [1..Cardinality(S) -> S]
      <3> DEFINE c(k) == CHOOSE r \in S : Cardinality({q \in S : ByTime(q, r)}) = k - 1
      <3>1. u = [k \in 1..Cardinality(S) |-> c(k)]
        BY DEF OrderedBy
      <3> HIDE DEF c
      <3>2. \A k \in 1..Cardinality(S) : u[k] = c(k)
        BY <3>1
      <3> HIDE DEF u
      <3> QED BY <2>2, <3>1, <3>2
    <2> HIDE DEF u
    <2>5. Lists(u, TimeRel(S), S)
      BY <1>0, <2>2, <2>3, RowsOrdered, RanksList
    <2> QED BY <2>5 DEF u
  <1> QED BY <1>1, <1>2

(* Neighbouring windows tile the rows of a source. *)
LEMMA Tiling ==
    ASSUME NEW S, Keyed(S), NEW s, NEW a \in Int, NEW b \in Int, NEW c \in Int, a < b, b < c
    PROVE  Window(S, s, a, c) = Window(S, s, a, b) \o Window(S, s, b, c)
  <1> DEFINE W(x, y) == {r \in Of(S, s) : x <= r.t /\ r.t < y}
  <1>0. \A r \in S : r.t \in Int
    BY DEF Keyed, IndexRows
  <1>1. ASSUME NEW T \in SUBSET S PROVE Keyed(T)
    BY FS_Subset DEF Keyed
  <1>2. W(a, b) \subseteq S /\ W(b, c) \subseteq S /\ W(a, c) \subseteq S
    BY DEF Of
  <1>3. Keyed(W(a, b)) /\ Keyed(W(b, c)) /\ Keyed(W(a, c))
    BY <1>1, <1>2
  <1>4. W(a, c) = W(a, b) \cup W(b, c)
    BY <1>0 DEF Of
  <1>5. \A x \in W(a, b), y \in W(b, c) : x \in W(a, c) /\ y \in W(a, c) /\ ByTime(x, y) /\ x # y
    BY <1>0 DEF Of, ByTime
  <1>6. \A x \in W(a, b), y \in W(b, c) : <<x, y>> \in TimeRel(W(a, c)) /\ x # y
    BY <1>5 DEF TimeRel
  <1>7. Window(S, s, a, b) = OrderedBy(W(a, b), ByTime) /\ Window(S, s, b, c) = OrderedBy(W(b, c), ByTime)
        /\ Window(S, s, a, c) = OrderedBy(W(a, c), ByTime)
    BY DEF Window
  <1> HIDE DEF W
  <1>8. TimeRel(W(a, b)) \subseteq TimeRel(W(a, c)) /\ TimeRel(W(b, c)) \subseteq TimeRel(W(a, c))
    BY <1>4 DEF TimeRel
  <1>9. \A q, T, B, C : Lists(q, B, T) /\ B \subseteq C => Lists(q, C, T)
    BY DEF Lists
  <1> DEFINE R == TimeRel(W(a, c))
  <1>10. Lists(Window(S, s, a, b), R, W(a, b)) /\ Lists(Window(S, s, b, c), R, W(b, c))
    BY <1>3, <1>7, <1>8, <1>9, QueriesList
  <1>11. Lists(Window(S, s, a, c), R, W(a, c))
    BY <1>3, <1>7, QueriesList
  <1>12. IsFiniteSet(W(a, b)) /\ IsFiniteSet(W(b, c)) /\ IsFiniteSet(W(a, c)) /\ StrictOrder(R, W(a, c))
    BY <1>3, RowsOrdered DEF Keyed
  <1> HIDE DEF R
  <1>13. \A x \in W(a, b), y \in W(b, c) : <<x, y>> \in R /\ x # y
    BY <1>6 DEF R
  <1>14. Lists(Window(S, s, a, b) \o Window(S, s, b, c), R, W(a, b) \cup W(b, c))
    BY <1>10, <1>12, <1>13, ListsJoin
  <1> QED BY <1>4, <1>11, <1>12, <1>14, OneList

Deltas(g, D) == MapThenSumSet(LAMBDA k : g[k].delta, D)

(* What MapThenSumSet makes of the deltas. *)
LEMMA DeltasSummed ==
    ASSUME NEW D, IsFiniteSet(D), NEW g, NEW f \in [D -> Int], \A k \in D : g[k].delta = f[k],
           NEW h, IsSum(h, f, D)
    PROVE  Deltas(g, D) = h[D]
  <1> DEFINE x(s) == CHOOSE y \in s : TRUE
             Step(i) == [s \in SUBSET D |-> IF s = {} THEN 0 ELSE g[x(s)].delta + i[s \ {x(s)}]]
             i == CHOOSE j : j = Step(j)
             c == [s \in SUBSET D |-> x(s)]
  <1>1. Deltas(g, D) = i[D]
    BY DEF Deltas, MapThenSumSet, MapThenFoldSet
  <1>2. h = Step(h)
    <2>1. ASSUME NEW s \in SUBSET D PROVE h[s] = IF s = {} THEN 0 ELSE g[x(s)].delta + h[s \ {x(s)}]
      BY DEF IsSum
    <2>2. h = [s \in SUBSET D |-> h[s]]
      BY DEF IsSum
    <2> HIDE DEF x
    <2> QED BY <2>1, <2>2
  <1> HIDE DEF Step
  <1>3. i = Step(i)
    BY <1>2, Zenon
  <1> HIDE DEF i
  <1>4. ASSUME NEW s \in SUBSET D
        PROVE  (s # {} => c[s] \in s) /\ i[s] = IF s = {} THEN 0 ELSE f[c[s]] + i[s \ {c[s]}]
    <2>1. s # {} => x(s) \in s
      OBVIOUS
    <2>2. i[s] = IF s = {} THEN 0 ELSE g[x(s)].delta + i[s \ {x(s)}]
      BY <1>3 DEF Step
    <2>3. c[s] = x(s)
      OBVIOUS
    <2> HIDE DEF x, c
    <2> QED BY <2>1, <2>2, <2>3
  <1> HIDE DEF c
  <1>5. SumsBy(i, c, f, D)
    BY <1>4 DEF SumsBy
  <1>6. i[D] = h[D]
    BY <1>5, SumInAnyOrder
  <1> QED BY <1>1, <1>6

(* A finite set of numbers has a least and a greatest one. *)
LEMMA Extremes ==
    ASSUME NEW S \in SUBSET Int, IsFiniteSet(S), S # {}
    PROVE  /\ Min(S) \in S /\ \A x \in S : Min(S) <= x
           /\ Max(S) \in S /\ \A x \in S : Max(S) >= x
  <1> DEFINE up == {p \in S \X S : p[1] < p[2]}
             down == {p \in S \X S : p[1] > p[2]}
  <1>0. Cardinality(S) \in Nat /\ Cardinality(S) # 0
    BY FS_CardinalityType, FS_EmptySet
  <1>1. \A x, y \in S : (<<x, y>> \in up <=> x < y) /\ (<<x, y>> \in down <=> x > y)
    OBVIOUS
  <1> HIDE DEF up, down
  <1>2. StrictOrder(up, S) /\ StrictOrder(down, S)
    BY <1>1 DEF StrictOrder
  <1>3. 1 \in 1..Cardinality(S) /\ 1 - 1 = 0
    BY <1>0
  <1>4. PICK r \in S : Cardinality(Preceding(up, S, r)) = 0
    BY <1>2, <1>3, RankTaken
  <1>5. PICK u \in S : Cardinality(Preceding(down, S, u)) = 0
    BY <1>2, <1>3, RankTaken
  <1>6. IsFiniteSet(Preceding(up, S, r)) /\ IsFiniteSet(Preceding(down, S, u))
    BY FS_Subset DEF Preceding
  <1>7. Preceding(up, S, r) = {} /\ Preceding(down, S, u) = {}
    BY <1>4, <1>5, <1>6, FS_EmptySet
  <1>8. ASSUME NEW x \in S PROVE r <= x /\ u >= x
    <2>1. x \in Int /\ r \in Int /\ u \in Int
      OBVIOUS
    <2>2. ~(x < r) /\ ~(x > u)
      BY <1>1, <1>7 DEF Preceding
    <2> QED BY <2>1, <2>2
  <1> QED BY <1>8 DEF Min, Max

(* The queries over rows with unique ids: the windows tile, and the gaps   *)
(* follow the numbers.                                                     *)
LEMMA QueriesAreExact ==
    ASSUME Keyed(table)
    PROVE  WindowsTile /\ GapsFollowTheNumbers
  <1>1. WindowsTile
    <2>1. \A x, y : x \in 0..y => x \in Int
      OBVIOUS
    <2>2. \A a \in Times : a \in Int
      BY <2>1 DEF Times
    <2> QED BY <2>2, Tiling DEF WindowsTile
  <1>2. ASSUME NEW s \in Srcs
        PROVE  LET g == Gaps(table, s)
                   q == OrderedBy(Of(table, s), BySeq)
                   sum == MapThenSumSet(LAMBDA k : g[k].delta, DOMAIN g)
               IN /\ sum = q[Len(q)].t - q[1].t
                  /\ (\E k \in DOMAIN g : g[k].delta < 0)
                        <=> \E a, b \in Of(table, s) : BySeq(a, b) /\ b.t < a.t
                  /\ \A k \in DOMAIN g : g[k].delta <= SourceStats(table)[s].last - SourceStats(table)[s].first
    <2> DEFINE S == Of(table, s)
               n == Cardinality(S)
               q == OrderedBy(S, BySeq)
               g == Gaps(table, s)
               t == [k \in 1..n |-> q[k].t]
               f == [k \in 1..(n - 1) |-> t[k + 1] - t[k]]
    <2>1. Keyed(S) /\ IsFiniteSet(S) /\ S \subseteq IndexRows /\ S # {}
      BY FS_Subset DEF Keyed, Of, Srcs
    <2>2. n \in Nat /\ n # 0
      BY <2>1, FS_CardinalityType, FS_EmptySet
    <2>3. Lists(q, SeqRel(S), S)
      BY <2>1, QueriesList
    <2>4. g = [k \in 1..(Len(q) - 1) |-> [prev |-> q[k].seq, next |-> q[k + 1].seq, delta |-> q[k + 1].t - q[k].t]]
      BY DEF Gaps
    <2> HIDE DEF S, q, g, n
    <2>5. q \in [1..n -> S] /\ \A k \in 1..n : q[k] \in S /\ q[k].t \in Int
      BY <2>1, <2>3 DEF Lists, n, IndexRows
    <2>6. Len(q) = n
      BY <2>2, <2>5
    <2>7. t \in [1..n -> Int] /\ f \in [1..(n - 1) -> Int]
      BY <2>2, <2>5
    <2>8. DOMAIN g = 1..(n - 1) /\ \A k \in 1..(n - 1) : g[k].delta = f[k] /\ f[k] = t[k + 1] - t[k]
      BY <2>2, <2>4, <2>5, <2>6
    <2>9. \A k \in 1..n : t[k] = q[k].t
      OBVIOUS
    <2> HIDE DEF t, f
    <2>10. MapThenSumSet(LAMBDA k : g[k].delta, DOMAIN g) = q[Len(q)].t - q[1].t
      <3> DEFINE m == n - 1
                 D == 1..m
      <3>0. m \in Nat /\ m + 1 = n /\ n - 1 = m
        BY <2>2
      <3>1. IsFiniteSet(D)
        BY <3>0, FS_Interval
      <3> HIDE DEF m
      <3>2. t \in [1..(m + 1) -> Int] /\ f \in [D -> Int]
        BY <2>7, <3>0
      <3>3. DOMAIN g = D /\ (\A k \in D : g[k].delta = f[k]) /\ (\A k \in D : f[k] = t[k + 1] - t[k])
        BY <2>8, <3>0
      <3>4. PICK h : IsSum(h, f, D)
        BY <3>1, <3>2, SumExists
      <3>5. h[D] = t[n] - t[1]
        <4>1. Steps(f, t, m)
          BY <3>2, <3>3 DEF Steps
        <4>2. h[1..m] = t[m + 1] - t[1]
          BY <3>0, <3>4, <4>1, Telescopes
        <4> QED BY <3>0, <4>2
      <3> HIDE DEF D
      <3>6. Deltas(g, D) = h[D]
        BY <3>1, <3>2, <3>3, <3>4, DeltasSummed
      <3>7. MapThenSumSet(LAMBDA k : g[k].delta, DOMAIN g) = h[D]
        BY <3>3, <3>6 DEF Deltas
      <3>8. t[n] = q[n].t /\ t[1] = q[1].t
        BY <2>2, <2>9
      <3> QED BY <2>6, <3>5, <3>7, <3>8
    <2>11. ASSUME NEW k \in 1..(n - 1), g[k].delta < 0
           PROVE  \E a, b \in S : BySeq(a, b) /\ b.t < a.t
      <3>1. k \in 1..n /\ k + 1 \in 1..n /\ k < k + 1
        BY <2>2
      <3>2. <<q[k], q[k + 1]>> \in SeqRel(S)
        BY <2>3, <3>1 DEF Lists, n
      <3>3. BySeq(q[k], q[k + 1])
        BY <3>2 DEF SeqRel
      <3>4. q[k + 1].t < q[k].t
        BY <2>5, <2>8, <2>9, <2>11, <3>1
      <3> QED BY <2>5, <3>1, <3>3, <3>4
    <2>12. ASSUME NEW a \in S, NEW b \in S, BySeq(a, b), b.t < a.t
           PROVE  \E k \in 1..(n - 1) : g[k].delta < 0
      <3> SUFFICES ASSUME \A k \in 1..(n - 1) : ~(g[k].delta < 0) PROVE FALSE
        OBVIOUS
      <3>1. \A k \in 1..(n - 1) : t[k] <= t[k + 1]
        <4> SUFFICES ASSUME NEW k \in 1..(n - 1) PROVE t[k] <= t[k + 1]
          OBVIOUS
        <4>1. t[k] \in Int /\ t[k + 1] \in Int
          BY <2>2, <2>7
        <4> QED BY <2>8, <4>1
      <3>2. PICK i \in 1..n : q[i] = a
        BY <2>3 DEF Lists, n
      <3>3. PICK j \in 1..n : q[j] = b
        BY <2>3 DEF Lists, n
      <3>4. StrictOrder(SeqRel(S), S) /\ <<a, b>> \in SeqRel(S)
        BY <2>1, <2>12, RowsOrdered DEF SeqRel
      <3>5. ~(j < i)
        <4> SUFFICES ASSUME j < i PROVE FALSE
          OBVIOUS
        <4>1. <<b, a>> \in SeqRel(S)
          BY <2>3, <3>2, <3>3 DEF Lists, n
        <4> QED BY <3>4, <4>1 DEF StrictOrder
      <3>6. t[i] <= t[j]
        <4>1. i <= j
          BY <2>2, <3>5
        <4> QED BY <2>2, <2>7, <3>1, <4>1, Rises
      <3>7. a.t \in Int /\ b.t \in Int
        BY <2>1 DEF IndexRows
      <3> QED BY <2>9, <2>12, <3>2, <3>3, <3>6, <3>7
    <2>13. ASSUME NEW k \in 1..(n - 1)
           PROVE  g[k].delta <= SourceStats(table)[s].last - SourceStats(table)[s].first
      <3> DEFINE T == {r.t : r \in S}
      <3>1. T \subseteq Int /\ T # {} /\ IsFiniteSet(T)
        <4>1. [r \in S |-> r.t] \in Surjection(S, T)
          BY DEF Surjection
        <4> QED BY <2>1, <4>1, FS_Surjection DEF IndexRows
      <3>2. SourceStats(table)[s].last = Max(T) /\ SourceStats(table)[s].first = Min(T)
        BY DEF SourceStats, S, Srcs
      <3>3. k \in 1..n /\ k + 1 \in 1..n
        BY <2>2
      <3>4. q[k].t \in T /\ q[k + 1].t \in T
        BY <2>5, <3>3
      <3> HIDE DEF T
      <3>5. Min(T) \in Int /\ Max(T) \in Int /\ Min(T) <= q[k].t /\ q[k + 1].t <= Max(T)
        BY <3>1, <3>4, Extremes
      <3> QED BY <2>5, <2>8, <2>9, <3>2, <3>3, <3>5
    <2> QED BY <2>8, <2>10, <2>11, <2>12, <2>13 DEF S, q, g
  <1> QED BY <1>1, <1>2 DEF GapsFollowTheNumbers

-----------------------------------------------------------------------------
\* The transactions

LoadStates == [pc : {"idle", "begin", "insert"}, file : DOMAIN Files \cup {"none"},
               left : Seq(IndexRows), rows : SUBSET IndexRows]

\* What a load has inserted and what it has left make up its file; what it has
\* inserted is new, and has one row to an id.
InHand(l, tb) ==
    /\ l.pc # "idle" => l.file \in DOMAIN Files /\ l.rows \cup Range(l.left) = Rows(l.file)
    /\ l.pc = "begin" => l.rows = {}
    /\ l.pc = "insert" => Keyed(tb \cup l.rows) /\ tb \cap l.rows = {}

Whole(tb, ret) ==
    /\ tb = UNION {Rows(f) : f \in ret}
    /\ \A f, g \in ret : f # g => Rows(f) \cap Rows(g) = {}
    /\ Keyed(tb)

IndexShape ==
    /\ load \in [Loaders -> LoadStates] /\ loads \in 0..MaxLoads /\ returned \subseteq DOMAIN Files
    /\ writer \in Loaders \cup {"none"}
    /\ \A p \in Loaders : load[p].pc = "insert" <=> writer = p

IndexInd ==
    /\ IndexShape
    /\ \A p \in Loaders : InHand(load[p], table)
    /\ Whole(table, returned)

(* The parts of a sequence. *)
LEMMA RangeParts ==
    ASSUME NEW A, NEW q \in Seq(A)
    PROVE  /\ q = <<>> => Range(q) = {}
           /\ q # <<>> => Head(q) \in A /\ Tail(q) \in Seq(A) /\ Range(q) = {Head(q)} \cup Range(Tail(q))
  <1>1. ASSUME q = <<>> PROVE Range(q) = {}
    BY <1>1 DEF Range
  <1>2. ASSUME q # <<>> PROVE Head(q) \in A /\ Tail(q) \in Seq(A) /\ Range(q) = {Head(q)} \cup Range(Tail(q))
    <2> DEFINE n == Len(q)
               u == Tail(q)
    <2>1. n \in Nat /\ n >= 1 /\ DOMAIN q = 1..n /\ Head(q) = q[1] /\ Head(q) \in A
      BY <1>2, EmptySeq, HeadTailProperties, LenProperties
    <2>2. u \in Seq(A) /\ Len(u) = n - 1 /\ \A k \in 1..(n - 1) : u[k] = q[k + 1]
      BY <1>2, HeadTailProperties
    <2> HIDE DEF n, u
    <2>3. DOMAIN u = 1..(n - 1)
      BY <2>2, LenProperties
    <2>4. ASSUME NEW x \in Range(q) PROVE x \in {q[1]} \cup Range(u)
      <3>1. PICK k \in 1..n : x = q[k]
        BY <2>1 DEF Range
      <3>2. CASE k = 1
        BY <3>1, <3>2
      <3>3. CASE k # 1
        <4>1. k - 1 \in 1..(n - 1) /\ (k - 1) + 1 = k
          BY <2>1, <3>3
        <4>2. x = u[k - 1]
          BY <2>2, <3>1, <4>1
        <4> QED BY <2>3, <4>1, <4>2 DEF Range
      <3> QED BY <3>2, <3>3
    <2>5. ASSUME NEW x \in {q[1]} \cup Range(u) PROVE x \in Range(q)
      <3>1. CASE x = q[1]
        BY <2>1, <3>1 DEF Range
      <3>2. CASE x \in Range(u)
        <4>1. PICK k \in 1..(n - 1) : x = u[k]
          BY <2>3, <3>2 DEF Range
        <4>2. k + 1 \in 1..n /\ x = q[k + 1]
          BY <2>1, <2>2, <4>1
        <4> QED BY <2>1, <4>2 DEF Range
      <3> QED BY <2>5, <3>1, <3>2
    <2>6. Range(q) = {q[1]} \cup Range(u)
      BY <2>4, <2>5
    <2> QED BY <2>1, <2>2, <2>6 DEF u
  <1> QED BY <1>1, <1>2

(* A file's rows are rows. *)
LEMMA FileRows ==
    ASSUME NEW f \in DOMAIN Files
    PROVE  LET u == [k \in DOMAIN Files[f] |-> Files[f][k].row]
           IN  u \in Seq(IndexRows) /\ Range(u) = Rows(f)
  <1> DEFINE F == Files[f]
             u == [k \in DOMAIN F |-> F[k].row]
  <1>1. F \in Seq(Lines)
    BY IndexAssumption
  <1> HIDE DEF F
  <1>2. Len(F) \in Nat /\ DOMAIN F = 1..Len(F) /\ \A k \in DOMAIN F : F[k] \in Lines
    BY <1>1
  <1>3. u \in [1..Len(F) -> IndexRows]
    BY <1>2 DEF Lines
  <1>4. u \in Seq(IndexRows)
    BY <1>2, <1>3
  <1>5. Range(u) = {F[k].row : k \in DOMAIN F}
    BY DEF Range
  <1> QED BY <1>4, <1>5 DEF F, Rows

(* A load that ends without its transaction leaves the index as it was. *)
LEMMA UndoneStep ==
    ASSUME IndexInd, NEW p \in Loaders, Undone(p), load[p].pc \in {"begin", "insert"}
    PROVE  IndexInd'
  <1> USE DEF IndexInd, IndexShape
  <1>0. "none" \notin Loaders
    BY IndexAssumption
  <1>1. Idle \in LoadStates /\ Idle.pc = "idle"
    BY DEF Idle, LoadStates
  <1>2. load' \in [Loaders -> LoadStates] /\ load'[p] = Idle /\ \A q \in Loaders : q # p => load'[q] = load[q]
    BY <1>1 DEF Undone
  <1>3. writer' = (IF writer = p THEN "none" ELSE writer) /\ UNCHANGED <<table, returned, loads>>
    BY DEF Undone
  <1>4. IndexShape'
    BY <1>0, <1>1, <1>2, <1>3
  <1>5. \A q \in Loaders : InHand(load'[q], table')
    BY <1>1, <1>2, <1>3 DEF InHand
  <1> QED BY <1>3, <1>4, <1>5

(* Opening a file takes no lock and inserts nothing. *)
LEMMA OpenStep ==
    ASSUME IndexInd, NEW p \in Loaders, Open(p)
    PROVE  IndexInd'
  <1> USE DEF IndexInd, IndexShape
  <1>0. "none" \notin Loaders /\ MaxLoads \in Nat
    BY IndexAssumption
  <1>1. PICK f \in DOMAIN Files :
          load' = [load EXCEPT ![p] =
              IF \E k \in DOMAIN Files[f] : Files[f][k].bad THEN Idle
              ELSE [pc |-> "begin", file |-> f, left |-> [k \in DOMAIN Files[f] |-> Files[f][k].row], rows |-> {}]]
    BY DEF Open
  <1> DEFINE u == [k \in DOMAIN Files[f] |-> Files[f][k].row]
             l == IF \E k \in DOMAIN Files[f] : Files[f][k].bad THEN Idle
                  ELSE [pc |-> "begin", file |-> f, left |-> u, rows |-> {}]
  <1>2. load' = [load EXCEPT ![p] = l]
    BY <1>1
  <1>3. u \in Seq(IndexRows) /\ Range(u) = Rows(f)
    BY FileRows
  <1> HIDE DEF u
  <1>4. l \in LoadStates /\ l.pc # "insert" /\ InHand(l, table)
    <2>1. CASE l = Idle
      BY <2>1 DEF Idle, LoadStates, InHand
    <2>2. CASE l = [pc |-> "begin", file |-> f, left |-> u, rows |-> {}]
      BY <1>3, <2>2 DEF LoadStates, InHand
    <2> QED BY <2>1, <2>2
  <1> HIDE DEF l
  <1>5. load' \in [Loaders -> LoadStates] /\ load'[p] = l /\ \A q \in Loaders : q # p => load'[q] = load[q]
    BY <1>2, <1>4
  <1>6. UNCHANGED <<table, writer, returned>> /\ loads' = loads + 1 /\ loads < MaxLoads /\ load[p].pc = "idle"
    BY DEF Open
  <1>7. IndexShape'
    BY <1>0, <1>4, <1>5, <1>6
  <1>8. \A q \in Loaders : InHand(load'[q], table')
    BY <1>4, <1>5, <1>6
  <1> QED BY <1>6, <1>7, <1>8

(* The lock goes to a load that has inserted nothing. *)
LEMMA BeginStep ==
    ASSUME IndexInd, NEW p \in Loaders, Begin(p)
    PROVE  IndexInd'
  <1> USE DEF IndexInd, IndexShape
  <1>0. "none" \notin Loaders
    BY IndexAssumption
  <1> DEFINE l == [load[p] EXCEPT !.pc = "insert"]
  <1>1. load' = [load EXCEPT ![p] = l]
    BY DEF Begin
  <1>2. l \in LoadStates /\ l.pc = "insert" /\ l.file = load[p].file /\ l.left = load[p].left /\ l.rows = load[p].rows
    BY DEF LoadStates
  <1>3. load[p].pc = "begin" /\ writer = "none" /\ writer' = p /\ UNCHANGED <<table, returned, loads>>
    BY DEF Begin
  <1> HIDE DEF l
  <1>4. InHand(l, table)
    <2>1. InHand(load[p], table) /\ load[p].rows = {} /\ table \cup {} = table
      BY <1>3 DEF InHand
    <2> QED BY <1>2, <1>3, <2>1 DEF InHand, Whole
  <1>5. load' \in [Loaders -> LoadStates] /\ load'[p] = l /\ \A q \in Loaders : q # p => load'[q] = load[q]
    BY <1>1, <1>2
  <1>6. IndexShape'
    BY <1>0, <1>2, <1>3, <1>5
  <1>7. \A q \in Loaders : InHand(load'[q], table')
    BY <1>3, <1>4, <1>5
  <1> QED BY <1>3, <1>6, <1>7

(* A row that fits is new, and keeps one row to an id. *)
LEMMA InsertStep ==
    ASSUME IndexInd, NEW p \in Loaders, Insert(p)
    PROVE  IndexInd'
  <1> USE DEF IndexInd, IndexShape
  <1> DEFINE r == Head(load[p].left)
             l == [load[p] EXCEPT !.left = Tail(@), !.rows = @ \cup {r}]
  <1>1. load' = [load EXCEPT ![p] = l]
    BY DEF Insert
  <1>2. load[p].pc = "insert" /\ load[p].left # <<>> /\ Fits(p) /\ UNCHANGED <<table, writer, returned, loads>>
    BY DEF Insert
  <1>3. load[p].left \in Seq(IndexRows) /\ load[p].rows \subseteq IndexRows
    BY DEF LoadStates
  <1>4. r \in IndexRows /\ Tail(load[p].left) \in Seq(IndexRows)
        /\ Range(load[p].left) = {r} \cup Range(Tail(load[p].left))
    BY <1>2, <1>3, RangeParts
  <1>5. l \in LoadStates /\ l.pc = "insert" /\ l.file = load[p].file /\ l.left = Tail(load[p].left)
        /\ l.rows = load[p].rows \cup {r}
    BY <1>2, <1>4 DEF LoadStates
  <1>6. \A x \in table \cup load[p].rows : x.id # r.id
    BY <1>2 DEF Fits, Held
  <1> HIDE DEF r, l
  <1>7. InHand(load[p], table)
    OBVIOUS
  <1>8. table \cup l.rows = (table \cup load[p].rows) \cup {r}
    BY <1>5
  <1>9. Keyed(table \cup l.rows)
    <2>1. Keyed(table \cup load[p].rows)
      BY <1>2, <1>7 DEF InHand
    <2> DEFINE H == table \cup load[p].rows
    <2> HIDE DEF H
    <2>2. IsFiniteSet(H \cup {r})
      BY <2>1, FS_AddElement DEF Keyed, H
    <2>3. H \cup {r} \subseteq IndexRows
      BY <1>4, <2>1 DEF Keyed, H
    <2>4. \A x \in H : x.id # r.id
      BY <1>6 DEF H
    <2>5. Keyed(H \cup {r})
      BY <2>1, <2>2, <2>3, <2>4 DEF Keyed, H
    <2> QED BY <1>8, <2>5 DEF H
  <1>10. r \notin table
    BY <1>6
  <1>11. InHand(l, table)
    BY <1>2, <1>4, <1>5, <1>7, <1>9, <1>10 DEF InHand
  <1>12. load' \in [Loaders -> LoadStates] /\ load'[p] = l /\ \A q \in Loaders : q # p => load'[q] = load[q]
    BY <1>1, <1>5
  <1>13. IndexShape'
    BY <1>2, <1>5, <1>12
  <1>14. \A q \in Loaders : InHand(load'[q], table')
    BY <1>2, <1>11, <1>12
  <1> QED BY <1>2, <1>13, <1>14

(* A load that commits had inserted its whole file, and alone held the     *)
(* lock; an empty one adds nothing.                                        *)
LEMMA CommitStep ==
    ASSUME IndexInd, NEW p \in Loaders, Commit(p)
    PROVE  IndexInd'
  <1> USE DEF IndexInd, IndexShape
  <1>0. "none" \notin Loaders
    BY IndexAssumption
  <1> DEFINE f == load[p].file
             R == load[p].rows
  <1>1. load[p].pc \in {"begin", "insert"} /\ load[p].left = <<>> /\ InHand(load[p], table)
    BY DEF Commit
  <1>2. f \in DOMAIN Files /\ R = Rows(f)
    <2>1. Range(load[p].left) = {}
      BY <1>1, RangeParts DEF LoadStates
    <2> QED BY <1>1, <2>1 DEF InHand
  <1>3. table' = table \cup R /\ returned' = returned \cup {f} /\ loads' = loads
        /\ load' = [load EXCEPT ![p] = Idle] /\ writer' = IF writer = p THEN "none" ELSE writer
    BY DEF Commit, Held
  <1>4. Idle \in LoadStates /\ Idle.pc = "idle"
    BY DEF Idle, LoadStates
  <1>5. load' \in [Loaders -> LoadStates] /\ load'[p] = Idle /\ \A q \in Loaders : q # p => load'[q] = load[q]
    BY <1>3, <1>4
  <1>6. table \cap R = {} /\ Keyed(table \cup R) /\ (load[p].pc = "begin" => R = {})
    <2>1. CASE load[p].pc = "begin"
      <3>1. R = {} /\ table \cup R = table
        BY <1>1, <2>1 DEF InHand
      <3> QED BY <3>1 DEF Whole
    <2>2. CASE load[p].pc = "insert"
      BY <1>1, <2>2 DEF InHand
    <2> QED BY <1>1, <2>1, <2>2
  <1> HIDE DEF f, R
  <1>7. IndexShape'
    BY <1>0, <1>2, <1>3, <1>4, <1>5 DEF f
  <1>8. Whole(table', returned')
    <2>1. \A g \in returned : Rows(g) \subseteq table
      BY DEF Whole
    <2>2. table' = UNION {Rows(g) : g \in returned'}
      <3>1. UNION {Rows(g) : g \in returned \cup {f}} = (UNION {Rows(g) : g \in returned}) \cup Rows(f)
        OBVIOUS
      <3> QED BY <1>2, <1>3, <3>1 DEF Whole
    <2>3. \A g \in returned : Rows(g) \cap Rows(f) = {}
      BY <1>2, <1>6, <2>1
    <2>4. \A g, h \in returned' : g # h => Rows(g) \cap Rows(h) = {}
      BY <1>3, <2>3 DEF Whole
    <2> QED BY <1>3, <1>6, <2>2, <2>4 DEF Whole
  <1>9. ASSUME NEW q \in Loaders PROVE InHand(load'[q], table')
    <2>1. CASE q = p
      BY <1>4, <1>5, <2>1 DEF InHand
    <2>2. CASE q # p /\ load[q].pc # "insert"
      BY <1>5, <2>2 DEF InHand
    <2>3. CASE q # p /\ load[q].pc = "insert"
      <3>1. load[p].pc = "begin"
        BY <1>1, <2>3
      <3>2. table' = table
        BY <1>3, <1>6, <3>1
      <3> QED BY <1>5, <2>3, <3>2
    <2> QED BY <2>1, <2>2, <2>3
  <1> QED BY <1>7, <1>8, <1>9

\* Where stage S5 stands.
StageShape ==
    /\ phase \in {"resolving", "resolved", "projected", "refused"}
    /\ bundle \in Bundles /\ rules \in RuleTables /\ pos \in 0..Len(bundle)

(* Both are kept by every step. *)
LEMMA IndexStep ==
    ASSUME StageShape, IndexInd, [Next]_vars
    PROVE  StageShape' /\ IndexInd'
  <1>0. Len(bundle) \in Nat
    BY BundlesAssumption DEF StageShape
  <1>1. ASSUME UNCHANGED index PROVE IndexInd'
    BY <1>1 DEF index, IndexInd, IndexShape
  <1>2. ASSUME UNCHANGED resolution PROVE StageShape'
    BY <1>2 DEF resolution, StageShape
  <1>3. ASSUME Resolve PROVE StageShape' /\ IndexInd'
    <2>1. UNCHANGED index
      BY <1>3 DEF Resolve, RefuseRules, ResolveRecord, Finish, Project
    <2>2. StageShape'
      BY <1>0, <1>3 DEF Resolve, RefuseRules, ResolveRecord, Finish, Project, StageShape
    <2> QED BY <1>1, <2>1, <2>2
  <1>4. ASSUME NEW p \in Loaders, Open(p) \/ Load(p) \/ Crash(p) PROVE StageShape' /\ IndexInd'
    <2>1. UNCHANGED resolution
      BY <1>4 DEF Open, Load, Crash, Begin, Locked, Insert, Refused, Commit, Undone
    <2>2. StageShape'
      BY <1>2, <2>1
    <2>3. CASE Open(p)
      BY <2>2, <2>3, OpenStep
    <2>4. CASE Begin(p)
      BY <2>2, <2>4, BeginStep
    <2>5. CASE Locked(p) \/ Refused(p) \/ Crash(p)
      BY <2>2, <2>5, UndoneStep DEF Locked, Refused, Crash
    <2>6. CASE Insert(p)
      BY <2>2, <2>6, InsertStep
    <2>7. CASE Commit(p)
      BY <2>2, <2>7, CommitStep
    <2> QED BY <1>4, <2>3, <2>4, <2>5, <2>6, <2>7 DEF Load
  <1>5. ASSUME UNCHANGED vars PROVE StageShape' /\ IndexInd'
    BY <1>1, <1>2, <1>5 DEF vars, index, resolution
  <1> QED BY <1>3, <1>4, <1>5 DEF Next, Rest

(* Of any number of processes that load any bundles, die, are refused or   *)
(* wait too long: what the index holds is at all times the bundles whose   *)
(* load returned.                                                          *)
THEOREM IndexInvariant == Spec => [](StageShape /\ IndexInd)
  <1>1. Init => StageShape /\ IndexInd
    <2> SUFFICES ASSUME Init PROVE StageShape /\ IndexInd
      OBVIOUS
    <2> USE DEF Init
    <2>1. StageShape
      <3>1. Len(bundle) \in Nat
        BY BundlesAssumption
      <3> QED BY <3>1 DEF StageShape
    <2>2. Idle \in LoadStates /\ Idle.pc = "idle"
      BY DEF Idle, LoadStates
    <2>3. IndexShape
      BY <2>2, IndexAssumption DEF IndexShape
    <2>4. \A p \in Loaders : InHand(load[p], table)
      BY <2>2 DEF InHand
    <2>5. Whole(table, returned)
      BY FS_EmptySet DEF Whole, Keyed
    <2> QED BY <2>1, <2>3, <2>4, <2>5 DEF IndexInd
  <1>2. StageShape /\ IndexInd /\ [Next]_vars => (StageShape /\ IndexInd)'
    BY IndexStep
  <1> QED BY <1>1, <1>2, PTL DEF Spec

(* The index holds whole bundles, each once, and its queries read them     *)
(* without overlap, omission or reordering (EventStore of store.py).       *)
THEOREM IndexExact == Spec => []IndexIsExact
  <1>1. StageShape /\ IndexInd => IndexIsExact
    <2> SUFFICES ASSUME StageShape, IndexInd PROVE IndexIsExact
      OBVIOUS
    <2>1. TypeOK
      BY DEF TypeOK, StageShape, IndexInd, IndexShape
    <2>2. IndexIsWholeBundles
      BY DEF IndexIsWholeBundles, IndexInd, Whole, Keyed
    <2>3. WindowsTile /\ GapsFollowTheNumbers
      BY QueriesAreExact DEF IndexInd, Whole
    <2> QED BY <2>1, <2>2, <2>3 DEF IndexIsExact
  <1> QED BY <1>1, IndexInvariant, PTL

-----------------------------------------------------------------------------
\* Stage S5

RulesOK(rs) ==
    IsFiniteSet(rs) /\ \A x \in rs :
        x.id \in Int /\ x.role \in Int /\ \A v \in DOMAIN x.table : IsFiniteSet(x.table[v])

(* A record names finitely many entities in a role. *)
LEMMA CandidatesFinite ==
    ASSUME NEW rs, RulesOK(rs), NEW rec, NEW role
    PROVE  /\ IsFiniteSet(Asking(rs, rec, role))
           /\ IsFiniteSet(Candidates(rs, rec, role)) /\ Cardinality(Candidates(rs, rec, role)) \in Nat
           /\ IsFiniteSet(RolesPresent(rs, rec)) /\ RolesPresent(rs, rec) \subseteq Int
  <1>1. IsFiniteSet(Asking(rs, rec, role))
    BY FS_Subset DEF Asking, RulesOK
  <1>2. ASSUME NEW x \in Asking(rs, rec, role) PROVE IsFiniteSet(NamedBy(x, rec))
    <2> DEFINE L == Lookup(x, rec.attrs[x.attr])
               g == [n \in L |-> [kind |-> x.kind, name |-> n]]
    <2>1. IsFiniteSet(L)
      BY FS_EmptySet DEF Asking, RulesOK, Lookup
    <2>2. NamedBy(x, rec) = Imaged(g, L)
      BY DEF NamedBy, Imaged
    <2> HIDE DEF g, L
    <2> QED BY <2>1, <2>2, ImageFinite
  <1>3. IsFiniteSet({NamedBy(x, rec) : x \in Asking(rs, rec, role)})
    <2> DEFINE g == [x \in Asking(rs, rec, role) |-> NamedBy(x, rec)]
    <2>1. {NamedBy(x, rec) : x \in Asking(rs, rec, role)} = Imaged(g, Asking(rs, rec, role))
      BY DEF Imaged
    <2> HIDE DEF g
    <2> QED BY <1>1, <2>1, ImageFinite
  <1>4. IsFiniteSet(Candidates(rs, rec, role))
    BY <1>2, <1>3, FS_UNION DEF Candidates
  <1>5. IsFiniteSet(RolesPresent(rs, rec)) /\ RolesPresent(rs, rec) \subseteq Int
    <2> DEFINE A == {y \in rs : y.attr \in DOMAIN rec.attrs}
               g == [x \in A |-> x.role]
    <2>1. IsFiniteSet(A)
      BY FS_Subset DEF RulesOK
    <2>2. RolesPresent(rs, rec) = Imaged(g, A)
      BY DEF RolesPresent, Imaged
    <2> HIDE DEF g, A
    <2>3. IsFiniteSet(RolesPresent(rs, rec))
      BY <2>1, <2>2, ImageFinite
    <2>4. RolesPresent(rs, rec) \subseteq Int
      BY DEF RolesPresent, RulesOK
    <2> QED BY <2>3, <2>4
  <1> QED BY <1>1, <1>4, <1>5, FS_CardinalityType

IsLeast(m, A) == m \in A /\ \A x \in A : m <= x

\* The rules that name an entity in some of the records.
Naming(rs, Q, e) == {y \in rs : \E rec \in Q : y.attr \in DOMAIN rec.attrs /\ e \in NamedBy(y, rec)}
Ids(R) == {x.id : x \in R}

Having(rs, Q, role) == {rec \in Q : role \in RolesPresent(rs, rec)}

\* What resolve knows once the records of Q are resolved, in whatever order.
Known(r, rs, Q) ==
    /\ r.bindings = UNION {Bound(rs, rec) : rec \in Q}
    /\ r.ambiguous = UNION {Ambiguous(rs, rec) : rec \in Q}
    /\ r.unresolved = UNION {Unresolved(rs, rec) : rec \in Q}
    /\ r.from = {<<b.entity, b.event>> : b \in r.bindings}
MintedOK(m, rs, Q) ==
    /\ \A e : e \in DOMAIN m <=> Naming(rs, Q, e) # {}
    /\ \A e \in DOMAIN m : IsLeast(m[e], Ids(Naming(rs, Q, e)))
CountsOK(c, rs, Q) ==
    /\ DOMAIN c = UNION {RolesPresent(rs, rec) : rec \in Q}
    /\ \A role \in DOMAIN c :
          /\ \A k \in 1..3 : c[role][k] \in Nat
          /\ c[role][1] + c[role][2] + c[role][3] = Cardinality(Having(rs, Q, role))

(* A finite set of numbers has one least, and Min is it. *)
LEMMA LeastIsMin ==
    ASSUME NEW A \in SUBSET Int, NEW m, IsLeast(m, A)
    PROVE  Min(A) = m
  <1>1. \E x \in A : \A y \in A : x =< y
    BY DEF IsLeast
  <1>2. Min(A) \in A /\ \A y \in A : Min(A) <= y
    BY <1>1 DEF Min
  <1>3. Min(A) \in Int /\ m \in Int /\ Min(A) <= m /\ m <= Min(A)
    BY <1>2 DEF IsLeast
  <1> QED BY <1>3

(* What _remember keeps is the least rule of all records so far. *)
LEMMA MintedStep ==
    ASSUME NEW rs, RulesOK(rs), NEW Q, NEW rec, NEW m, MintedOK(m, rs, Q), NEW found,
           found = {[e |-> p[2], rule |-> FiledUnder(rs, rec, p[1], p[2])] :
                       p \in UNION {{r} \X Candidates(rs, rec, r) : r \in RolesPresent(rs, rec)}}
    PROVE  MintedOK(Remembered(m, found), rs, Q \cup {rec})
  <1> DEFINE N(e) == Naming(rs, {rec}, e)
             Rule(e, r) == {y \in Asking(rs, rec, r) : e \in NamedBy(y, rec)}
             F(e) == {f.rule : f \in {g \in found : g.e = e}}
  <1>1. \A e : Naming(rs, Q \cup {rec}, e) = Naming(rs, Q, e) \cup N(e)
    BY DEF Naming
  <1>2. \A e, x : x \in N(e) <=> x \in rs /\ x.attr \in DOMAIN rec.attrs /\ x \in Rule(e, x.role)
    BY DEF Naming, Asking
  <1>3. \A e, r : e \in Candidates(rs, rec, r) <=> Rule(e, r) # {}
    BY DEF Candidates
  <1>4. \A e, r : Rule(e, r) # {} => r \in RolesPresent(rs, rec)
    BY DEF RolesPresent, Asking
  <1>5. ASSUME NEW e, NEW r, Rule(e, r) # {}
        PROVE  IsLeast(FiledUnder(rs, rec, r, e), Ids(Rule(e, r)))
    <2> DEFINE g == [x \in Rule(e, r) |-> x.id]
    <2>1. IsFiniteSet(Rule(e, r))
      BY CandidatesFinite, FS_Subset
    <2>2. Ids(Rule(e, r)) = Imaged(g, Rule(e, r))
      BY DEF Ids, Imaged
    <2>3. IsFiniteSet(Ids(Rule(e, r)))
      <3> HIDE DEF g, Rule
      <3> QED BY <2>1, <2>2, ImageFinite
    <2>4. Ids(Rule(e, r)) \subseteq Int /\ Ids(Rule(e, r)) # {}
      BY <1>5 DEF Ids, Asking, RulesOK
    <2>5. FiledUnder(rs, rec, r, e) = Min(Ids(Rule(e, r)))
      BY DEF FiledUnder, Ids
    <2> HIDE DEF Rule
    <2> QED BY <2>3, <2>4, <2>5, Extremes DEF IsLeast
  <1>6. ASSUME NEW e, NEW v PROVE v \in F(e) <=> \E r : Rule(e, r) # {} /\ v = FiledUnder(rs, rec, r, e)
    <2>1. ASSUME v \in F(e) PROVE \E r : Rule(e, r) # {} /\ v = FiledUnder(rs, rec, r, e)
      <3>1. PICK g \in found : g.e = e /\ v = g.rule
        BY <2>1
      <3>2. PICK p \in UNION {{r} \X Candidates(rs, rec, r) : r \in RolesPresent(rs, rec)} :
                g = [e |-> p[2], rule |-> FiledUnder(rs, rec, p[1], p[2])]
        BY <3>1
      <3>3. p[2] \in Candidates(rs, rec, p[1]) /\ p[2] = e /\ v = FiledUnder(rs, rec, p[1], e)
        BY <3>1, <3>2
      <3> QED BY <1>3, <3>3
    <2>2. ASSUME NEW r, Rule(e, r) # {}, v = FiledUnder(rs, rec, r, e) PROVE v \in F(e)
      <3>1. <<r, e>> \in UNION {{q} \X Candidates(rs, rec, q) : q \in RolesPresent(rs, rec)}
        BY <1>3, <1>4, <2>2
      <3>2. [e |-> e, rule |-> v] \in found
        BY <2>2, <3>1
      <3> DEFINE w == [e |-> e, rule |-> v]
      <3>3. w \in found /\ w.e = e /\ w.rule = v
        BY <3>2
      <3> HIDE DEF w
      <3>4. w \in {g \in found : g.e = e}
        BY <3>3
      <3> QED BY <3>3, <3>4
    <2> QED BY <2>1, <2>2
  <1>7. \A e : (\E f \in found : f.e = e) <=> N(e) # {}
    <2> SUFFICES ASSUME NEW e PROVE (\E f \in found : f.e = e) <=> N(e) # {}
      OBVIOUS
    <2>1. (\E f \in found : f.e = e) <=> F(e) # {}
      OBVIOUS
    <2>2. F(e) # {} <=> \E r : Rule(e, r) # {}
      BY <1>6
    <2>3. (\E r : Rule(e, r) # {}) <=> N(e) # {}
      BY DEF Naming, Asking
    <2> QED BY <2>1, <2>2, <2>3
  <1> DEFINE M == Remembered(m, found)
  <1>8. \A e : e \in DOMAIN M <=> Naming(rs, Q \cup {rec}, e) # {}
    <2>1. DOMAIN M = DOMAIN m \cup {f.e : f \in found}
      BY DEF Remembered
    <2>2. \A e : e \in {f.e : f \in found} <=> N(e) # {}
      <3> HIDE DEF N
      <3> QED BY <1>7
    <2>3. \A e : e \in DOMAIN m <=> Naming(rs, Q, e) # {}
      BY DEF MintedOK
    <2> HIDE DEF M, N
    <2> TAKE e
    <2>4. e \in DOMAIN M <=> (e \in DOMAIN m \/ e \in {f.e : f \in found})
      BY <2>1, Zenon
    <2>5. e \in DOMAIN M <=> (Naming(rs, Q, e) # {} \/ N(e) # {})
      BY <2>2, <2>3, <2>4, Zenon
    <2>6. Naming(rs, Q \cup {rec}, e) = Naming(rs, Q, e) \cup N(e)
      BY <1>1
    <2>7. Naming(rs, Q \cup {rec}, e) # {} <=> (Naming(rs, Q, e) # {} \/ N(e) # {})
      BY <2>6
    <2> QED BY <2>5, <2>7
  <1>9. ASSUME NEW e \in DOMAIN M PROVE IsLeast(M[e], Ids(Naming(rs, Q \cup {rec}, e)))
    <2> DEFINE A == F(e) \cup (IF e \in DOMAIN m THEN {m[e]} ELSE {})
               I == Ids(Naming(rs, Q \cup {rec}, e))
    <2>1. M[e] = Min(A)
      BY DEF Remembered
    <2>2. I \subseteq Int
      BY DEF Ids, Naming, RulesOK
    <2>3. I = Ids(Naming(rs, Q, e)) \cup Ids(N(e))
      BY <1>1 DEF Ids
    <2>4. e \in DOMAIN m => IsLeast(m[e], Ids(Naming(rs, Q, e)))
      BY DEF MintedOK
    <2>5. \A r : Ids(Rule(e, r)) \subseteq Ids(N(e))
      BY DEF Ids, Naming, Asking
    <2>6. ASSUME NEW i \in I PROVE \E a \in A : a <= i
      <3>1. CASE i \in Ids(Naming(rs, Q, e))
        <4>1. e \in DOMAIN m
          BY <3>1 DEF Ids, MintedOK
        <4> QED BY <2>4, <3>1, <4>1 DEF IsLeast
      <3>2. CASE i \in Ids(N(e))
        <4>1. PICK x \in N(e) : i = x.id
          BY <3>2 DEF Ids
        <4>2. x \in Rule(e, x.role)
          BY <1>2
        <4>3. IsLeast(FiledUnder(rs, rec, x.role, e), Ids(Rule(e, x.role)))
          BY <1>5, <4>2
        <4>4. FiledUnder(rs, rec, x.role, e) <= i
          BY <4>1, <4>2, <4>3 DEF IsLeast, Ids
        <4>5. FiledUnder(rs, rec, x.role, e) \in F(e)
          BY <1>6, <4>2
        <4> QED BY <4>4, <4>5
      <3> QED BY <2>3, <3>1, <3>2
    <2>7. A \subseteq I
      <3>1. ASSUME NEW v \in F(e) PROVE v \in Ids(N(e))
        <4> HIDE DEF F, Rule, N
        <4>1. PICK r : Rule(e, r) # {} /\ v = FiledUnder(rs, rec, r, e)
          BY <1>6
        <4>2. v \in Ids(Rule(e, r))
          BY <1>5, <4>1 DEF IsLeast
        <4> QED BY <2>5, <4>2
      <3> QED BY <2>3, <2>4, <3>1 DEF IsLeast
    <2>8. A # {} /\ IsFiniteSet(A)
      <3>1. I # {}
        BY <1>8 DEF Ids
      <3>2. IsFiniteSet(I)
        <4> DEFINE R == Naming(rs, Q \cup {rec}, e)
                   g == [x \in R |-> x.id]
        <4>1. IsFiniteSet(R)
          BY FS_Subset DEF Naming, RulesOK
        <4>2. I = Imaged(g, R)
          BY DEF Ids, Imaged
        <4> HIDE DEF g, R, I
        <4> QED BY <4>1, <4>2, ImageFinite
      <3> HIDE DEF A, I
      <3> QED BY <2>6, <2>7, <3>1, <3>2, FS_Subset
    <2> HIDE DEF A, I, M
    <2>9. Min(A) \in A /\ \A x \in A : Min(A) <= x
      BY <2>2, <2>7, <2>8, Extremes
    <2>10. IsLeast(Min(A), I)
      <3>1. Min(A) \in I
        BY <2>7, <2>9
      <3>2. ASSUME NEW i \in I PROVE Min(A) <= i
        <4>1. PICK a \in A : a <= i
          BY <2>6
        <4>2. Min(A) \in Int /\ a \in Int /\ i \in Int /\ Min(A) <= a
          BY <2>2, <2>7, <2>9
        <4> QED BY <4>1, <4>2
      <3> QED BY <3>1, <3>2 DEF IsLeast
    <2> QED BY <2>1, <2>10 DEF I
  <1> HIDE DEF M
  <1>10. MintedOK(M, rs, Q \cup {rec})
    BY <1>8, <1>9 DEF MintedOK
  <1> QED BY <1>10 DEF M

(* The counters of a role count the records that have it. *)
LEMMA CountsStep ==
    ASSUME NEW rs, RulesOK(rs), NEW Q, IsFiniteSet(Q), NEW rec, rec \notin Q, NEW c, CountsOK(c, rs, Q)
    PROVE  CountsOK(Counted(c, rs, rec), rs, Q \cup {rec})
  <1> DEFINE P == RolesPresent(rs, rec)
             C == Counted(c, rs, rec)
             R == Q \cup {rec}
             n(role) == Cardinality(Candidates(rs, rec, role))
             add(role) == IF n(role) = 1 THEN <<1, 0, 0>> ELSE IF n(role) > 1 THEN <<0, 1, 0>> ELSE <<0, 0, 1>>
             was(role) == IF role \in DOMAIN c THEN c[role] ELSE <<0, 0, 0>>
  <1>1. C = [role \in DOMAIN c \cup P |->
                IF role \in P THEN [k \in 1..3 |-> was(role)[k] + add(role)[k]] ELSE was(role)]
    BY DEF Counted
  <1>2. \A role : /\ add(role)[1] \in Nat /\ add(role)[2] \in Nat /\ add(role)[3] \in Nat
                  /\ add(role)[1] + add(role)[2] + add(role)[3] = 1
    OBVIOUS
  <1>3. ASSUME NEW role
        PROVE  /\ was(role)[1] \in Nat /\ was(role)[2] \in Nat /\ was(role)[3] \in Nat
               /\ was(role)[1] + was(role)[2] + was(role)[3] = Cardinality(Having(rs, Q, role))
    <2>1. CASE role \in DOMAIN c
      BY <2>1 DEF CountsOK
    <2>2. CASE role \notin DOMAIN c
      <3>1. Having(rs, Q, role) = {}
        BY <2>2 DEF CountsOK, Having
      <3> QED BY <2>2, <3>1, FS_EmptySet
    <2> QED BY <2>1, <2>2
  <1> HIDE DEF add, was
  <1>4. DOMAIN C = DOMAIN c \cup P
    BY <1>1
  <1>5. UNION {RolesPresent(rs, x) : x \in R} = (UNION {RolesPresent(rs, x) : x \in Q}) \cup P
    OBVIOUS
  <1>6. ASSUME NEW role \in DOMAIN C
        PROVE  /\ \A k \in 1..3 : C[role][k] \in Nat
               /\ C[role][1] + C[role][2] + C[role][3] = Cardinality(Having(rs, R, role))
    <2>0. IsFiniteSet(Having(rs, Q, role)) /\ rec \notin Having(rs, Q, role)
      BY FS_Subset DEF Having
    <2>1. CASE role \in P
      <3>1. Having(rs, R, role) = Having(rs, Q, role) \cup {rec}
        BY <2>1 DEF Having
      <3>2. Cardinality(Having(rs, R, role)) = Cardinality(Having(rs, Q, role)) + 1
        BY <2>0, <3>1, FS_AddElement
      <3>3. C[role] = [k \in 1..3 |-> was(role)[k] + add(role)[k]]
        BY <1>1, <1>4, <2>1
      <3>4. C[role][1] = was(role)[1] + add(role)[1] /\ C[role][2] = was(role)[2] + add(role)[2]
            /\ C[role][3] = was(role)[3] + add(role)[3]
        BY <3>3
      <3>5. \A k \in 1..3 : k = 1 \/ k = 2 \/ k = 3
        OBVIOUS
      <3> HIDE DEF C, R
      <3> QED BY <1>2, <1>3, <3>2, <3>4, <3>5
    <2>2. CASE role \notin P
      <3>1. Having(rs, R, role) = Having(rs, Q, role)
        BY <2>2 DEF Having
      <3>2. C[role] = was(role)
        BY <1>1, <1>4, <2>2
      <3>3. \A k \in 1..3 : k = 1 \/ k = 2 \/ k = 3
        OBVIOUS
      <3> HIDE DEF C, R
      <3> QED BY <1>3, <3>1, <3>2, <3>3
    <2> QED BY <2>1, <2>2
  <1>7. DOMAIN C = UNION {RolesPresent(rs, x) : x \in R}
    BY <1>4, <1>5 DEF CountsOK
  <1> HIDE DEF C, R
  <1>8. CountsOK(C, rs, R)
    BY <1>6, <1>7 DEF CountsOK
  <1> QED BY <1>8 DEF C, R

(* One more record, and what is known is known of it too. *)
LEMMA ResolvedStep ==
    ASSUME NEW rs, RulesOK(rs), NEW Q, IsFiniteSet(Q), NEW rec, rec \notin Q,
           NEW r, Known(r, rs, Q), MintedOK(r.minted, rs, Q), CountsOK(r.counts, rs, Q)
    PROVE  LET u == Resolved(r, rs, rec) IN
           /\ Known(u, rs, Q \cup {rec})
           /\ MintedOK(u.minted, rs, Q \cup {rec}) /\ CountsOK(u.counts, rs, Q \cup {rec})
  <1> DEFINE u == Resolved(r, rs, rec)
             found == {[e |-> p[2], rule |-> FiledUnder(rs, rec, p[1], p[2])] :
                          p \in UNION {{x} \X Candidates(rs, rec, x) : x \in RolesPresent(rs, rec)}}
             B == Bound(rs, rec)
  <1>1. /\ u.minted = Remembered(r.minted, found)
        /\ u.from = r.from \cup {<<b.entity, b.event>> : b \in B}
        /\ u.bindings = r.bindings \cup B
        /\ u.ambiguous = r.ambiguous \cup Ambiguous(rs, rec)
        /\ u.unresolved = r.unresolved \cup Unresolved(rs, rec)
        /\ u.counts = Counted(r.counts, rs, rec)
    BY DEF Resolved
  <1>2. MintedOK(u.minted, rs, Q \cup {rec})
    <2>1. MintedOK(Remembered(r.minted, found), rs, Q \cup {rec})
      BY MintedStep
    <2> QED BY <1>1, <2>1
  <1>3. CountsOK(u.counts, rs, Q \cup {rec})
    BY <1>1, CountsStep
  <1> HIDE DEF u, B
  <1>4. Known(u, rs, Q \cup {rec})
    <2>1. u.bindings = UNION {Bound(rs, x) : x \in Q \cup {rec}}
      BY <1>1 DEF Known, B
    <2>2. u.ambiguous = UNION {Ambiguous(rs, x) : x \in Q \cup {rec}}
      BY <1>1 DEF Known
    <2>3. u.unresolved = UNION {Unresolved(rs, x) : x \in Q \cup {rec}}
      BY <1>1 DEF Known
    <2>4. u.from = {<<b.entity, b.event>> : b \in u.bindings}
      BY <1>1 DEF Known
    <2> QED BY <2>1, <2>2, <2>3, <2>4 DEF Known
  <1> QED BY <1>2, <1>3, <1>4 DEF u

Unique(Q) == \A x, y \in Q : x.id = y.id => x = y

BindingOf(rec, role, e) == [event |-> rec.id, role |-> role, entity |-> e]
AmbiguityOf(rs, rec, role) == [event |-> rec.id, role |-> role, candidates |-> Candidates(rs, rec, role)]
GapOf(rs, rec, role) ==
    [event |-> rec.id, role |-> role, attr |-> FirstAsked(rs, rec, role), value |-> rec.attrs[FirstAsked(rs, rec, role)]]

(* What a record adds, role by role. *)
LEMMA RecordAdds ==
    ASSUME NEW rs, RulesOK(rs), NEW rec
    PROVE  /\ \A b : b \in Bound(rs, rec) <=>
                 \E role \in RolesPresent(rs, rec) : \E e : Candidates(rs, rec, role) = {e} /\ b = BindingOf(rec, role, e)
           /\ \A b : b \in Ambiguous(rs, rec) <=>
                 \E role \in RolesPresent(rs, rec) :
                     Cardinality(Candidates(rs, rec, role)) > 1 /\ b = AmbiguityOf(rs, rec, role)
           /\ \A b : b \in Unresolved(rs, rec) <=>
                 \E role \in RolesPresent(rs, rec) : Candidates(rs, rec, role) = {} /\ b = GapOf(rs, rec, role)
  <1>1. \A role : /\ IsFiniteSet(Candidates(rs, rec, role)) /\ Cardinality(Candidates(rs, rec, role)) \in Nat
                  /\ Cardinality(Candidates(rs, rec, role)) = 1 <=> \E e : Candidates(rs, rec, role) = {e}
    BY CandidatesFinite, FS_Singleton
  <1>2. \A S, e : S = {e} => (CHOOSE x \in S : TRUE) = e
    OBVIOUS
  <1>3. ASSUME NEW b
        PROVE  b \in Bound(rs, rec) <=>
                 \E role \in RolesPresent(rs, rec) : \E e : Candidates(rs, rec, role) = {e} /\ b = BindingOf(rec, role, e)
    <2> DEFINE first(role) == CHOOSE x \in Candidates(rs, rec, role) : TRUE
    <2>1. b \in Bound(rs, rec) <=> \E role \in RolesPresent(rs, rec) :
              Cardinality(Candidates(rs, rec, role)) = 1 /\ b = BindingOf(rec, role, first(role))
      BY DEF Bound, BindingOf
    <2>2. \A role, e : Candidates(rs, rec, role) = {e} => first(role) = e
      BY <1>2
    <2> HIDE DEF first
    <2> QED BY <1>1, <2>1, <2>2
  <1>4. ASSUME NEW b
        PROVE  b \in Ambiguous(rs, rec) <=> \E role \in RolesPresent(rs, rec) :
                   Cardinality(Candidates(rs, rec, role)) > 1 /\ b = AmbiguityOf(rs, rec, role)
    BY DEF Ambiguous, AmbiguityOf
  <1>5. ASSUME NEW b
        PROVE  b \in Unresolved(rs, rec) <=> \E role \in RolesPresent(rs, rec) :
                   Candidates(rs, rec, role) = {} /\ b = GapOf(rs, rec, role)
    BY DEF Unresolved, GapOf
  <1> QED BY <1>3, <1>4, <1>5

(* A binding says what its record's joins agree on. *)
LEMMA BoundGives ==
    ASSUME NEW rs, RulesOK(rs), NEW Q, Unique(Q), NEW r, Known(r, rs, Q),
           NEW rec \in Q, NEW b \in r.bindings, b.event = rec.id
    PROVE  /\ b.role \in RolesPresent(rs, rec) /\ Candidates(rs, rec, b.role) = {b.entity}
           /\ b = BindingOf(rec, b.role, b.entity)
  <1>1. PICK x \in Q : b \in Bound(rs, x)
    BY DEF Known
  <1>2. \A y : y \in Bound(rs, x) => \E o \in RolesPresent(rs, x) : \E e :
            Candidates(rs, x, o) = {e} /\ y = BindingOf(x, o, e)
    BY RecordAdds
  <1>3. PICK o, e : o \in RolesPresent(rs, x) /\ Candidates(rs, x, o) = {e} /\ b = BindingOf(x, o, e)
    BY <1>1, <1>2
  <1>4. b.event = x.id /\ b.role = o /\ b.entity = e
    BY <1>3 DEF BindingOf
  <1>5. x = rec
    BY <1>4 DEF Unique
  <1> QED BY <1>3, <1>4, <1>5

(* A role is bound exactly when all joins agree on one entity. *)
LEMMA BoundExactly ==
    ASSUME NEW rs, RulesOK(rs), NEW Q, Unique(Q), NEW r, Known(r, rs, Q),
           NEW rec \in Q, NEW role \in RolesPresent(rs, rec), NEW e
    PROVE  BindingOf(rec, role, e) \in r.bindings <=> Candidates(rs, rec, role) = {e}
  <1>1. ASSUME Candidates(rs, rec, role) = {e} PROVE BindingOf(rec, role, e) \in r.bindings
    <2>1. BindingOf(rec, role, e) \in Bound(rs, rec)
      BY <1>1, RecordAdds
    <2> QED BY <2>1 DEF Known
  <1>2. ASSUME BindingOf(rec, role, e) \in r.bindings PROVE Candidates(rs, rec, role) = {e}
    <2>1. BindingOf(rec, role, e).event = rec.id /\ BindingOf(rec, role, e).role = role
          /\ BindingOf(rec, role, e).entity = e
      BY DEF BindingOf
    <2> QED BY <1>2, <2>1, BoundGives
  <1> QED BY <1>1, <1>2

OfRole(rows, rec, role) == {b \in rows : b.event = rec.id /\ b.role = role}

(* A role that is present is bound, ambiguous or unresolved, once.         *)
LEMMA OnceAccounted ==
    ASSUME NEW rs, RulesOK(rs), NEW Q, Unique(Q), NEW r, Known(r, rs, Q),
           NEW rec \in Q, NEW role \in RolesPresent(rs, rec)
    PROVE  Cardinality(OfRole(r.bindings, rec, role)) + Cardinality(OfRole(r.ambiguous, rec, role))
           + Cardinality(OfRole(r.unresolved, rec, role)) = 1
  <1> DEFINE C == Candidates(rs, rec, role)
  <1>1. \A b : b \in OfRole(r.bindings, rec, role) <=> \E e : C = {e} /\ b = BindingOf(rec, role, e)
    <2> SUFFICES ASSUME NEW b
                 PROVE  b \in OfRole(r.bindings, rec, role) <=> \E e : C = {e} /\ b = BindingOf(rec, role, e)
      OBVIOUS
    <2>1. ASSUME b \in OfRole(r.bindings, rec, role) PROVE \E e : C = {e} /\ b = BindingOf(rec, role, e)
      <3>1. b \in r.bindings /\ b.event = rec.id /\ b.role = role
        BY <2>1 DEF OfRole
      <3>2. Candidates(rs, rec, b.role) = {b.entity} /\ b = BindingOf(rec, b.role, b.entity)
        BY <3>1, BoundGives
      <3> QED BY <3>1, <3>2
    <2>2. ASSUME NEW e, C = {e}, b = BindingOf(rec, role, e) PROVE b \in OfRole(r.bindings, rec, role)
      <3>1. b.event = rec.id /\ b.role = role
        BY <2>2 DEF BindingOf
      <3> QED BY <2>2, <3>1, BoundExactly DEF OfRole
    <2> QED BY <2>1, <2>2
  <1>2. \A b : b \in OfRole(r.ambiguous, rec, role) <=> Cardinality(C) > 1 /\ b = AmbiguityOf(rs, rec, role)
    <2> SUFFICES ASSUME NEW b
                 PROVE  b \in OfRole(r.ambiguous, rec, role) <=> Cardinality(C) > 1 /\ b = AmbiguityOf(rs, rec, role)
      OBVIOUS
    <2>1. ASSUME b \in OfRole(r.ambiguous, rec, role) PROVE Cardinality(C) > 1 /\ b = AmbiguityOf(rs, rec, role)
      <3>1. PICK x \in Q : b \in Ambiguous(rs, x) /\ b.event = rec.id /\ b.role = role
        BY <2>1 DEF Known, OfRole
      <3>2. PICK o \in RolesPresent(rs, x) : Cardinality(Candidates(rs, x, o)) > 1 /\ b = AmbiguityOf(rs, x, o)
        BY <3>1, RecordAdds
      <3>3. x.id = rec.id /\ o = role
        BY <3>1, <3>2 DEF AmbiguityOf
      <3>4. x = rec
        BY <3>3 DEF Unique
      <3> QED BY <3>2, <3>3, <3>4
    <2>2. ASSUME Cardinality(C) > 1, b = AmbiguityOf(rs, rec, role) PROVE b \in OfRole(r.ambiguous, rec, role)
      <3>1. b.event = rec.id /\ b.role = role
        BY <2>2 DEF AmbiguityOf
      <3>2. b \in Ambiguous(rs, rec)
        BY <2>2, RecordAdds
      <3> QED BY <3>1, <3>2 DEF OfRole, Known
    <2> QED BY <2>1, <2>2
  <1>3. \A b : b \in OfRole(r.unresolved, rec, role) <=> C = {} /\ b = GapOf(rs, rec, role)
    <2> SUFFICES ASSUME NEW b
                 PROVE  b \in OfRole(r.unresolved, rec, role) <=> C = {} /\ b = GapOf(rs, rec, role)
      OBVIOUS
    <2>1. ASSUME b \in OfRole(r.unresolved, rec, role) PROVE C = {} /\ b = GapOf(rs, rec, role)
      <3>1. PICK x \in Q : b \in Unresolved(rs, x) /\ b.event = rec.id /\ b.role = role
        BY <2>1 DEF Known, OfRole
      <3>2. PICK o \in RolesPresent(rs, x) : Candidates(rs, x, o) = {} /\ b = GapOf(rs, x, o)
        BY <3>1, RecordAdds
      <3>3. x.id = rec.id /\ o = role
        BY <3>1, <3>2 DEF GapOf
      <3>4. x = rec
        BY <3>3 DEF Unique
      <3> QED BY <3>2, <3>3, <3>4
    <2>2. ASSUME C = {}, b = GapOf(rs, rec, role) PROVE b \in OfRole(r.unresolved, rec, role)
      <3>1. b.event = rec.id /\ b.role = role
        BY <2>2 DEF GapOf
      <3>2. b \in Unresolved(rs, rec)
        BY <2>2, RecordAdds
      <3> QED BY <3>1, <3>2 DEF OfRole, Known
    <2> QED BY <2>1, <2>2
  <1>4. IsFiniteSet(C) /\ Cardinality(C) \in Nat
    BY CandidatesFinite
  <1> HIDE DEF C
  <1>5. Cardinality({}) = 0 /\ \A x : Cardinality({x}) = 1
    BY FS_EmptySet, FS_Singleton
  <1> DEFINE nb == Cardinality(OfRole(r.bindings, rec, role))
             na == Cardinality(OfRole(r.ambiguous, rec, role))
             nu == Cardinality(OfRole(r.unresolved, rec, role))
  <1>6. CASE C = {}
    <2>1. Cardinality(C) = 0 /\ \A e : C # {e}
      BY <1>5, <1>6
    <2>2. OfRole(r.bindings, rec, role) = {} /\ OfRole(r.ambiguous, rec, role) = {}
          /\ OfRole(r.unresolved, rec, role) = {GapOf(rs, rec, role)}
      BY <1>1, <1>2, <1>3, <1>6, <2>1
    <2>3. nb = 0 /\ na = 0 /\ nu = 1
      BY <1>5, <2>2, Zenon
    <2> HIDE DEF nb, na, nu
    <2>4. nb + na + nu = 1
      BY <2>3
    <2> QED BY <2>4 DEF nb, na, nu
  <1>7. ASSUME NEW e, C = {e} PROVE nb + na + nu = 1
    <2>1. Cardinality(C) = 1 /\ C # {} /\ \A x : C = {x} => x = e
      BY <1>5, <1>7
    <2>2. OfRole(r.bindings, rec, role) = {BindingOf(rec, role, e)}
      BY <1>1, <1>7, <2>1
    <2>3. OfRole(r.ambiguous, rec, role) = {} /\ OfRole(r.unresolved, rec, role) = {}
      BY <1>2, <1>3, <2>1
    <2>4. nb = 1 /\ na = 0 /\ nu = 0
      BY <1>5, <2>2, <2>3, Zenon
    <2> HIDE DEF nb, na, nu
    <2> QED BY <2>4
  <1>8. CASE Cardinality(C) > 1
    <2>1. C # {} /\ \A e : C # {e}
      <3>1. Cardinality(C) # 0 /\ Cardinality(C) # 1
        BY <1>4, <1>8
      <3> QED BY <1>5, <3>1, Zenon
    <2>2. OfRole(r.bindings, rec, role) = {} /\ OfRole(r.unresolved, rec, role) = {}
          /\ OfRole(r.ambiguous, rec, role) = {AmbiguityOf(rs, rec, role)}
      BY <1>1, <1>2, <1>3, <1>8, <2>1
    <2>3. nb = 0 /\ na = 1 /\ nu = 0
      BY <1>5, <2>2, Zenon
    <2> HIDE DEF nb, na, nu
    <2>4. nb + na + nu = 1
      BY <2>3
    <2> QED BY <2>4 DEF nb, na, nu
  <1>9. C = {} \/ (\E e : C = {e}) \/ Cardinality(C) > 1
    <2>1. Cardinality(C) = 0 => C = {}
      BY <1>4, FS_EmptySet, Zenon
    <2>2. Cardinality(C) = 1 => \E e : C = {e}
      BY <1>4, FS_Singleton, Zenon
    <2>3. Cardinality(C) = 0 \/ Cardinality(C) = 1 \/ Cardinality(C) > 1
      BY <1>4
    <2> QED BY <2>1, <2>2, <2>3
  <1> QED BY <1>6, <1>7, <1>8, <1>9

(* Every entity that is cited is defined, and no other. *)
LEMMA CitedIsDefined ==
    ASSUME NEW rs, RulesOK(rs), NEW Q, NEW r, Known(r, rs, Q), MintedOK(r.minted, rs, Q)
    PROVE  DOMAIN r.minted = {b.entity : b \in r.bindings} \cup UNION {x.candidates : x \in r.ambiguous}
  <1> DEFINE cited == {b.entity : b \in r.bindings} \cup UNION {x.candidates : x \in r.ambiguous}
  <1>1. \A e : e \in DOMAIN r.minted <=> \E rec \in Q : \E role \in RolesPresent(rs, rec) : e \in Candidates(rs, rec, role)
    <2>1. \A e : Naming(rs, Q, e) # {}
                     <=> \E rec \in Q : \E role \in RolesPresent(rs, rec) : e \in Candidates(rs, rec, role)
      BY DEF Naming, RolesPresent, Candidates, Asking
    <2> QED BY <2>1 DEF MintedOK
  <1>2. ASSUME NEW e \in cited PROVE e \in DOMAIN r.minted
    <2>1. CASE e \in {b.entity : b \in r.bindings}
      <3>0. PICK b \in r.bindings : e = b.entity
        BY <2>1
      <3>1. PICK rec \in Q : b \in Bound(rs, rec)
        BY DEF Known
      <3> HIDE DEF cited
      <3>2. PICK role, y : role \in RolesPresent(rs, rec) /\ Candidates(rs, rec, role) = {y} /\ b = BindingOf(rec, role, y)
        <4>1. \A x : x \in Bound(rs, rec) => \E role \in RolesPresent(rs, rec) : \E y :
                  Candidates(rs, rec, role) = {y} /\ x = BindingOf(rec, role, y)
          BY RecordAdds
        <4> QED BY <3>1, <4>1
      <3>3. y = e
        BY <3>0, <3>2 DEF BindingOf
      <3> QED BY <1>1, <3>2, <3>3
    <2>2. CASE e \in UNION {x.candidates : x \in r.ambiguous}
      <3>0. PICK b \in r.ambiguous : e \in b.candidates
        BY <2>2
      <3>1. PICK rec \in Q : b \in Ambiguous(rs, rec)
        BY DEF Known
      <3>2. PICK role \in RolesPresent(rs, rec) : b = AmbiguityOf(rs, rec, role)
        BY <3>1, RecordAdds
      <3>3. e \in Candidates(rs, rec, role)
        BY <3>0, <3>2 DEF AmbiguityOf
      <3> QED BY <1>1, <3>3
    <2> QED BY <1>2, <2>1, <2>2
  <1>3. ASSUME NEW e \in DOMAIN r.minted PROVE e \in cited
    <2>0. PICK rec \in Q : \E role \in RolesPresent(rs, rec) : e \in Candidates(rs, rec, role)
      BY <1>1
    <2>1. PICK role \in RolesPresent(rs, rec) : e \in Candidates(rs, rec, role)
      BY <2>0
    <2> DEFINE C == Candidates(rs, rec, role)
    <2>2. IsFiniteSet(C) /\ Cardinality(C) \in Nat
      BY CandidatesFinite
    <2>3. CASE Cardinality(C) > 1
      <3>1. AmbiguityOf(rs, rec, role) \in Ambiguous(rs, rec)
        BY <2>3, RecordAdds
      <3>2. AmbiguityOf(rs, rec, role) \in r.ambiguous /\ e \in AmbiguityOf(rs, rec, role).candidates
        BY <2>1, <3>1 DEF Known, AmbiguityOf
      <3> QED BY <3>2
    <2>4. CASE C = {e}
      <3>1. BindingOf(rec, role, e) \in Bound(rs, rec)
        BY <2>4, RecordAdds
      <3>2. BindingOf(rec, role, e) \in r.bindings /\ BindingOf(rec, role, e).entity = e
        BY <3>1 DEF Known, BindingOf
      <3> QED BY <3>2
    <2>5. Cardinality(C) > 1 \/ C = {e}
      <3> HIDE DEF C
      <3>1. e \in C
        BY <2>1 DEF C
      <3>2. Cardinality(C) # 0
        BY <2>2, <3>1, FS_EmptySet
      <3>3. Cardinality(C) = 1 => \E x : C = {x}
        BY <2>2, FS_Singleton, Zenon
      <3>4. Cardinality(C) = 1 => C = {e}
        BY <3>1, <3>3
      <3> QED BY <2>2, <3>2, <3>4
    <2> QED BY <2>3, <2>4, <2>5
  <1> QED BY <1>2, <1>3

Totalled(c) == MapThenSumSet(LAMBDA r : c[r][1] + c[r][2] + c[r][3], DOMAIN c)

(* What MapThenSumSet makes of the counters. *)
LEMMA CountersSummed ==
    ASSUME NEW c, IsFiniteSet(DOMAIN c), NEW f \in [DOMAIN c -> Int],
           \A r \in DOMAIN c : c[r][1] + c[r][2] + c[r][3] = f[r],
           NEW h, IsSum(h, f, DOMAIN c)
    PROVE  Totalled(c) = h[DOMAIN c]
  <1> DEFINE D == DOMAIN c
             x(s) == CHOOSE y \in s : TRUE
             Step(i) == [s \in SUBSET D |-> IF s = {} THEN 0
                            ELSE (c[x(s)][1] + c[x(s)][2] + c[x(s)][3]) + i[s \ {x(s)}]]
             i == CHOOSE j : j = Step(j)
             d == [s \in SUBSET D |-> x(s)]
  <1>1. Totalled(c) = i[D]
    BY DEF Totalled, MapThenSumSet, MapThenFoldSet
  <1>2. h = Step(h)
    <2>1. ASSUME NEW s \in SUBSET D
          PROVE  h[s] = IF s = {} THEN 0 ELSE (c[x(s)][1] + c[x(s)][2] + c[x(s)][3]) + h[s \ {x(s)}]
      <3>1. s # {} => x(s) \in s
        OBVIOUS
      <3> HIDE DEF x
      <3> QED BY <3>1 DEF IsSum
    <2>2. h = [s \in SUBSET D |-> h[s]]
      BY DEF IsSum
    <2> HIDE DEF x
    <2> QED BY <2>1, <2>2
  <1> HIDE DEF Step
  <1>3. i = Step(i)
    BY <1>2, Zenon
  <1> HIDE DEF i
  <1>4. ASSUME NEW s \in SUBSET D
        PROVE  (s # {} => d[s] \in s) /\ i[s] = IF s = {} THEN 0 ELSE f[d[s]] + i[s \ {d[s]}]
    <2>1. s # {} => x(s) \in s
      OBVIOUS
    <2>2. i[s] = IF s = {} THEN 0 ELSE (c[x(s)][1] + c[x(s)][2] + c[x(s)][3]) + i[s \ {x(s)}]
      BY <1>3 DEF Step
    <2>3. d[s] = x(s)
      OBVIOUS
    <2> HIDE DEF x, d
    <2> QED BY <2>1, <2>2, <2>3
  <1> HIDE DEF d
  <1>5. SumsBy(i, d, f, D)
    BY <1>4 DEF SumsBy
  <1>6. i[D] = h[D]
    BY <1>5, SumInAnyOrder
  <1> QED BY <1>1, <1>6

AskedOf(rs, Q) == UNION {{rec} \X RolesPresent(rs, rec) : rec \in Q}

(* The counters add up to the roles that are present. *)
LEMMA CountsAddUp ==
    ASSUME NEW rs, RulesOK(rs), NEW Q, IsFiniteSet(Q), NEW c, CountsOK(c, rs, Q)
    PROVE  Totalled(c) = Cardinality(AskedOf(rs, Q))
  <1> DEFINE A == AskedOf(rs, Q)
             D == DOMAIN c
             f == [role \in D |-> Cardinality(Having(rs, Q, role))]
  <1>1. \A rec \in Q : IsFiniteSet(RolesPresent(rs, rec)) /\ IsFiniteSet({rec} \X RolesPresent(rs, rec))
    BY CandidatesFinite, FS_Product, FS_Singleton
  <1>2. IsFiniteSet(A)
    <2> DEFINE g == [rec \in Q |-> {rec} \X RolesPresent(rs, rec)]
    <2>1. {{rec} \X RolesPresent(rs, rec) : rec \in Q} = Imaged(g, Q)
      BY DEF Imaged
    <2>2. \A T \in Imaged(g, Q) : IsFiniteSet(T)
      BY <1>1 DEF Imaged
    <2> HIDE DEF g
    <2> QED BY <2>1, <2>2, ImageFinite, FS_UNION DEF AskedOf
  <1>3. IsFiniteSet(D)
    <2> DEFINE g == [rec \in Q |-> RolesPresent(rs, rec)]
    <2>1. {RolesPresent(rs, rec) : rec \in Q} = Imaged(g, Q)
      BY DEF Imaged
    <2>2. \A T \in Imaged(g, Q) : IsFiniteSet(T)
      BY <1>1 DEF Imaged
    <2> HIDE DEF g
    <2> QED BY <2>1, <2>2, ImageFinite, FS_UNION DEF CountsOK
  <1>4. f \in [D -> Int]
    BY FS_Subset, FS_CardinalityType DEF Having
  <1>5. ASSUME NEW role \in D PROVE f[role] = Cardinality({a \in A : a[2] = role})
    <2> DEFINE H == Having(rs, Q, role)
               T == {a \in A : a[2] = role}
               g == [rec \in H |-> <<rec, role>>]
    <2>1. g \in [H -> T] /\ (\A x, y \in H : g[x] = g[y] => x = y) /\ \A a \in T : \E x \in H : g[x] = a
      BY DEF AskedOf, Having
    <2>2. ExistsBijection(H, T)
      <3> HIDE DEF H, T, g
      <3> QED BY <2>1 DEF ExistsBijection, Bijection, Injection, Surjection, IsInjective
    <2>3. IsFiniteSet(H)
      BY FS_Subset DEF Having
    <2> HIDE DEF T
    <2>4. Cardinality(T) = Cardinality(H)
      BY <2>2, <2>3, FS_Bijection
    <2> QED BY <2>4 DEF T
  <1>6. \A a \in A : a[2] \in D
    BY DEF AskedOf, CountsOK
  <1>7. \A role \in D : c[role][1] + c[role][2] + c[role][3] = f[role]
    BY DEF CountsOK
  <1> HIDE DEF f, A
  <1>8. PICK h : IsSum(h, f, D)
    BY <1>3, <1>4, SumExists
  <1>9. h[D] = Cardinality(A)
    <2> DEFINE label == [a \in A |-> a[2]]
    <2>1. \A a \in A : label[a] = a[2]
      OBVIOUS
    <2> HIDE DEF label
    <2>2. \A a \in A : label[a] \in D
      BY <1>6, <2>1
    <2>3. ASSUME NEW role \in D PROVE f[role] = Cardinality({a \in A : label[a] = role})
      <3>1. {a \in A : label[a] = role} = {a \in A : a[2] = role}
        BY <2>1
      <3> QED BY <1>5, <3>1
    <2> QED BY <1>2, <1>3, <1>4, <1>8, <2>2, <2>3, FibresAddUp
  <1>10. Totalled(c) = h[D]
    BY <1>3, <1>4, <1>7, <1>8, CountersSummed
  <1> QED BY <1>9, <1>10 DEF A

-----------------------------------------------------------------------------
\* Arguments by position

RoleRel(P) == {p \in P \X P : p[1].role < p[2].role}
Less(R) == {p \in R \X R : p[1] < p[2]}

\* Bindings of one record: one to a role, each of a role the pattern reads.
ByRole(P, roles) ==
    /\ roles \in Seq(Int) /\ \A j, k \in DOMAIN roles : j < k => roles[j] < roles[k]
    /\ \A b \in P : \E k \in DOMAIN roles : roles[k] = b.role
    /\ \A b, c \in P : b.role = c.role => b = c

(* As many arguments as roles, and each is the one of its role.            *)
LEMMA ArgsInPlace ==
    ASSUME NEW P, NEW roles, ByRole(P, roles)
    PROVE  /\ Len(ArgsOf(P)) = Cardinality(P) /\ Len(ArgsOf(P)) <= Len(roles)
           /\ Len(ArgsOf(P)) = Len(roles) =>
                 \A n \in DOMAIN roles : \E b \in P : b.role = roles[n] /\ ArgsOf(P)[n] = b.entity
  <1> DEFINE R == Range(roles)
             m == Len(roles)
  <1>1. m \in Nat /\ DOMAIN roles = 1..m /\ \A k \in 1..m : roles[k] \in Int
    BY DEF ByRole
  <1>2. R \subseteq Int /\ \A x \in R : \E k \in 1..m : roles[k] = x
    BY <1>1 DEF Range
  <1>3. roles \in [1..m -> R] /\ (\A j, k \in 1..m : roles[j] = roles[k] => j = k)
    <2>1. roles \in [1..m -> R]
      BY <1>1 DEF ByRole, Range
    <2>2. ASSUME NEW j \in 1..m, NEW k \in 1..m, roles[j] = roles[k] PROVE j = k
      <3>1. roles[j] \in Int
        BY <1>1
      <3>2. ~(j < k) /\ ~(k < j)
        BY <1>1, <2>2, <3>1 DEF ByRole
      <3> QED BY <3>2
    <2> QED BY <2>1, <2>2
  <1>4. IsFiniteSet(R) /\ Cardinality(R) = m
    <2>1. ExistsBijection(1..m, R)
      <3> HIDE DEF R, m
      <3>1. roles \in Bijection(1..m, R)
        BY <1>2, <1>3 DEF Bijection, Injection, Surjection, IsInjective
      <3> QED BY <3>1 DEF ExistsBijection
    <2>2. IsFiniteSet(1..m) /\ Cardinality(1..m) = m
      BY <1>1, FS_Interval, SMTT(30)
    <2> HIDE DEF R, m
    <2> QED BY <2>1, <2>2, FS_Bijection
  <1> DEFINE f == [b \in P |-> b.role]
  <1>5. f \in Injection(P, R)
    BY DEF ByRole, Range, Injection, IsInjective
  <1>6. IsFiniteSet(P) /\ Cardinality(P) <= m /\ (Cardinality(P) = m => f \in Surjection(P, R))
    <2> HIDE DEF R, m, f
    <2> QED BY <1>4, <1>5, FS_Injection
  <1>7. \A b \in P : b.role \in R /\ b.role \in Int
    BY <1>2 DEF ByRole, Range
  <1>8. StrictOrder(RoleRel(P), P)
    <2>1. \A x, y \in P : <<x, y>> \in RoleRel(P) <=> x.role < y.role
      BY DEF RoleRel
    <2>2. \A x, y \in P : x.role = y.role => x = y
      BY DEF ByRole
    <2> QED BY <1>7, <2>1, <2>2 DEF StrictOrder
  <1> DEFINE first(k) == CHOOSE b \in P : Cardinality({c \in P : c.role < b.role}) = k - 1
             q == [k \in 1..Cardinality(P) |-> first(k)]
  <1>9. ArgsOf(P) = [k \in 1..Cardinality(P) |-> first(k).entity]
    BY DEF ArgsOf
  <1>10. ASSUME NEW k \in 1..Cardinality(P)
         PROVE  first(k) \in P /\ Cardinality(Preceding(RoleRel(P), P, first(k))) = k - 1
    <2>1. \A b \in P : {c \in P : c.role < b.role} = Preceding(RoleRel(P), P, b)
      BY DEF Preceding, RoleRel
    <2>2. PICK r \in P : Cardinality(Preceding(RoleRel(P), P, r)) = k - 1
      BY <1>6, <1>8, RankTaken
    <2>3. \E s \in P : Cardinality({c \in P : c.role < s.role}) = k - 1
      BY <2>1, <2>2
    <2>4. first(k) \in P /\ Cardinality({c \in P : c.role < first(k).role}) = k - 1
      BY <2>3
    <2> HIDE DEF first
    <2> QED BY <2>1, <2>4
  <1> HIDE DEF first, R, m, f
  <1>11. q \in [1..Cardinality(P) -> P] /\ \A k \in 1..Cardinality(P) : Cardinality(Preceding(RoleRel(P), P, q[k])) = k - 1
    BY <1>10
  <1>12. \A k \in 1..Cardinality(P) : ArgsOf(P)[k] = q[k].entity
    BY <1>9
  <1> HIDE DEF q
  <1>13. Lists(q, RoleRel(P), P)
    BY <1>6, <1>8, <1>11, RanksList
  <1>14. Cardinality(P) \in Nat /\ Len(ArgsOf(P)) = Cardinality(P)
    BY <1>6, <1>9, FS_CardinalityType
  <1>15. ASSUME Cardinality(P) = m, NEW n \in 1..m
         PROVE  \E b \in P : b.role = roles[n] /\ ArgsOf(P)[n] = b.entity
    <2> DEFINE w == [k \in 1..m |-> q[k].role]
    <2>1. StrictOrder(Less(R), R)
      <3>1. \A x, y \in R : <<x, y>> \in Less(R) <=> x < y
        BY DEF Less
      <3> QED BY <1>2, <3>1 DEF StrictOrder
    <2>2. Lists(w, Less(R), R)
      <3>0. q \in [1..m -> P]
        BY <1>11, <1>15
      <3>1. w \in [1..m -> R]
        BY <1>7, <3>0
      <3>2. ASSUME NEW j \in 1..m, NEW k \in 1..m, j < k PROVE <<w[j], w[k]>> \in Less(R)
        <4>1. <<q[j], q[k]>> \in RoleRel(P)
          BY <1>13, <1>15, <3>2 DEF Lists
        <4>2. w[j] < w[k]
          BY <4>1 DEF RoleRel
        <4> QED BY <3>1, <4>2 DEF Less
      <3>3. ASSUME NEW x \in R PROVE \E k \in 1..m : w[k] = x
        <4>1. PICK b \in P : b.role = x
          BY <1>6, <1>15 DEF Surjection, f
        <4>2. PICK k \in 1..m : q[k] = b
          BY <1>13, <1>15 DEF Lists
        <4> QED BY <4>1, <4>2
      <3> HIDE DEF w
      <3> QED BY <1>4, <3>1, <3>2, <3>3 DEF Lists
    <2>3. Lists(roles, Less(R), R)
      <3>1. ASSUME NEW j \in 1..m, NEW k \in 1..m, j < k PROVE <<roles[j], roles[k]>> \in Less(R)
        <4>1. roles[j] < roles[k] /\ roles[j] \in R /\ roles[k] \in R
          BY <1>1, <1>3, <3>1 DEF ByRole
        <4> QED BY <4>1 DEF Less
      <3> QED BY <1>2, <1>3, <1>4, <3>1 DEF Lists
    <2>4. w = roles
      <3> HIDE DEF w
      <3> QED BY <1>4, <2>1, <2>2, <2>3, OneList
    <2>5. q[n] \in P /\ q[n].role = roles[n] /\ ArgsOf(P)[n] = q[n].entity
      <3>1. w[n] = roles[n]
        BY <2>4
      <3>2. q[n] \in P /\ ArgsOf(P)[n] = q[n].entity
        BY <1>11, <1>12, <1>15
      <3> QED BY <3>1, <3>2
    <2> QED BY <2>5
  <1> QED BY <1>1, <1>6, <1>14, <1>15 DEF m

-----------------------------------------------------------------------------
\* The stage

Seen == {bundle[k] : k \in 1..pos}
FactOf(k) == [predicate |-> PredicateOf(bundle[k].type), args |-> ArgsOf(Projected(er.bindings, bundle[k]))]

ResolutionInd ==
    /\ Known(er, rules, Seen) /\ MintedOK(er.minted, rules, Seen) /\ CountsOK(er.counts, rules, Seen)
    /\ phase \in {"resolved", "projected"} => pos = Len(bundle)
    /\ phase = "projected" => \A k \in DOMAIN bundle : facts[k] = FactOf(k)

(* The records so far are finitely many, none is there twice, and the next *)
(* is not among them.                                                      *)
LEMMA SeenRecords ==
    ASSUME StageShape
    PROVE  /\ RulesOK(rules) /\ IsFiniteSet(Seen) /\ Unique(Seen)
           /\ Len(bundle) \in Nat /\ DOMAIN bundle = 1..Len(bundle)
           /\ pos < Len(bundle) =>
                 /\ bundle[pos + 1] \notin Seen
                 /\ {bundle[k] : k \in 1..(pos + 1)} = Seen \cup {bundle[pos + 1]}
           /\ pos = Len(bundle) => Seen = Recs
  <1>1. Len(bundle) \in Nat /\ DOMAIN bundle = 1..Len(bundle)
        /\ \A j, k \in 1..Len(bundle) : bundle[j].id = bundle[k].id => j = k
    BY BundlesAssumption DEF StageShape
  <1>2. pos \in Nat /\ 1..pos \subseteq 1..Len(bundle)
    BY <1>1 DEF StageShape
  <1>3. RulesOK(rules)
    BY RulesAssumption DEF StageShape, RulesOK
  <1>4. IsFiniteSet(Seen)
    <2>1. IsFiniteSet(1..pos)
      BY <1>2, FS_Interval
    <2>2. Seen = Imaged(bundle, 1..pos)
      BY DEF Seen, Imaged
    <2> QED BY <2>1, <2>2, ImageFinite
  <1>5. Unique(Seen)
    BY <1>1, <1>2 DEF Unique, Seen
  <1>6. ASSUME pos < Len(bundle)
        PROVE  bundle[pos + 1] \notin Seen /\ {bundle[k] : k \in 1..(pos + 1)} = Seen \cup {bundle[pos + 1]}
    <2>1. pos + 1 \in 1..Len(bundle) /\ pos + 1 \notin 1..pos
      BY <1>1, <1>2, <1>6
    <2>2. bundle[pos + 1] \notin Seen
      BY <1>1, <1>2, <2>1 DEF Seen
    <2>3. 1..(pos + 1) = (1..pos) \cup {pos + 1}
      BY <1>2
    <2>4. {bundle[k] : k \in (1..pos) \cup {pos + 1}} = Seen \cup {bundle[pos + 1]}
      BY DEF Seen
    <2> QED BY <2>2, <2>3, <2>4
  <1>7. pos = Len(bundle) => Seen = Recs
    BY <1>1 DEF Seen, Recs
  <1> QED BY <1>1, <1>3, <1>4, <1>5, <1>6, <1>7

(* The stage keeps to what is known of the records so far. *)
LEMMA ResolutionStep ==
    ASSUME StageShape, ResolutionInd, [Next]_vars
    PROVE  ResolutionInd'
  <1>1. ASSUME UNCHANGED resolution PROVE ResolutionInd'
    BY <1>1 DEF resolution, ResolutionInd, Seen, FactOf
  <1>2. CASE RefuseRules
    BY <1>2 DEF RefuseRules, ResolutionInd, Seen, FactOf
  <1>3. CASE ResolveRecord
    <2> DEFINE rec == bundle[pos + 1]
    <2>1. pos < Len(bundle) /\ pos' = pos + 1 /\ er' = Resolved(er, rules, rec) /\ UNCHANGED <<phase, bundle, rules>>
          /\ phase = "resolving"
      BY <1>3 DEF ResolveRecord
    <2>2. Seen' = Seen \cup {rec} /\ rec \notin Seen /\ IsFiniteSet(Seen) /\ RulesOK(rules)
      <3>1. Seen' = {bundle[k] : k \in 1..(pos + 1)}
        BY <2>1 DEF Seen
      <3> QED BY <2>1, <3>1, SeenRecords
    <2> HIDE DEF rec
    <2> DEFINE u == Resolved(er, rules, rec)
    <2>3. Known(u, rules, Seen \cup {rec}) /\ MintedOK(u.minted, rules, Seen \cup {rec})
          /\ CountsOK(u.counts, rules, Seen \cup {rec})
      BY <2>2, ResolvedStep DEF ResolutionInd
    <2> HIDE DEF u
    <2>4. er' = u
      BY <2>1 DEF u
    <2> QED BY <2>1, <2>2, <2>3, <2>4 DEF ResolutionInd
  <1>4. CASE Finish
    <2>1. phase' = "resolved" /\ pos = Len(bundle) /\ UNCHANGED <<bundle, rules, pos, er>>
      BY <1>4 DEF Finish
    <2> QED BY <2>1 DEF ResolutionInd, Seen
  <1>5. CASE Project
    <2>1. phase = "resolved" /\ facts' = [k \in DOMAIN bundle |-> FactOf(k)] /\ UNCHANGED <<bundle, rules, pos, er>>
      BY <1>5 DEF Project, FactOf
    <2>2. \A k \in DOMAIN bundle : facts'[k] = FactOf(k)
      BY <2>1
    <2>3. \A k : FactOf(k)' = FactOf(k)
      BY <2>1 DEF FactOf
    <2>4. Seen' = Seen /\ bundle' = bundle /\ rules' = rules /\ er' = er /\ pos' = pos
      BY <2>1 DEF Seen
    <2>5. \A k \in DOMAIN bundle' : facts'[k] = FactOf(k)'
      BY <2>2, <2>3, <2>4
    <2> QED BY <2>1, <2>4, <2>5 DEF ResolutionInd
  <1>6. ASSUME NEW p \in Loaders, Open(p) \/ Load(p) \/ Crash(p) PROVE ResolutionInd'
    <2>1. UNCHANGED resolution
      BY <1>6 DEF Open, Load, Crash, Begin, Locked, Insert, Refused, Commit, Undone
    <2> QED BY <1>1, <2>1
  <1>7. ASSUME UNCHANGED vars PROVE ResolutionInd'
    BY <1>1, <1>7 DEF vars, resolution
  <1> QED BY <1>2, <1>3, <1>4, <1>5, <1>6, <1>7 DEF Next, Resolve, Rest

(* What resolve knows after some records is a function of the set of them  *)
(* and of the rules.                                                       *)
THEOREM ResolutionInvariant == Spec => []ResolutionInd
  <1>1. Init => ResolutionInd
    <2> SUFFICES ASSUME Init PROVE ResolutionInd
      OBVIOUS
    <2>1. Seen = {} /\ er = Empty /\ phase = "resolving"
      BY DEF Init, Seen
    <2>2. Known(Empty, rules, {})
      BY DEF Known, Empty
    <2>3. MintedOK(Empty.minted, rules, {})
      BY DEF MintedOK, Empty, Naming
    <2>4. CountsOK(Empty.counts, rules, {})
      BY DEF CountsOK, Empty
    <2> QED BY <2>1, <2>2, <2>3, <2>4 DEF ResolutionInd
  <1>2. StageShape /\ ResolutionInd /\ [Next]_vars => ResolutionInd'
    BY ResolutionStep
  <1>3. Spec => []StageShape
    BY IndexInvariant, PTL
  <1> QED BY <1>1, <1>2, <1>3, PTL DEF Spec

(* What S5 says of a bundle depends neither on the order of its records    *)
(* nor, record by record, on what else is in it; each role is accounted    *)
(* for once, and each entity that is cited is defined (resolve).           *)
THEOREM ResolutionExact == Spec => []ResolutionIsExact
  <1>1. StageShape /\ ResolutionInd => ResolutionIsExact
    <2> SUFFICES ASSUME StageShape, ResolutionInd, phase = "resolved"
                 PROVE  ResolutionIsExact
      BY DEF ResolutionIsExact, ResolutionIsOrderFree, EveryRoleAccounted
    <2>1. Seen = Recs /\ RulesOK(rules) /\ IsFiniteSet(Recs) /\ Unique(Recs)
      BY SeenRecords DEF ResolutionInd
    <2>2. Known(er, rules, Recs) /\ MintedOK(er.minted, rules, Recs) /\ CountsOK(er.counts, rules, Recs)
      BY <2>1 DEF ResolutionInd
    <2>3. Asked = AskedOf(rules, Recs) /\ \A a \in Asked : a[1] \in Recs /\ a[2] \in RolesPresent(rules, a[1])
      BY DEF Asked, AskedOf
    <2>4. ASSUME NEW a \in Asked, NEW e \in DOMAIN er.minted
          PROVE  [event |-> a[1].id, role |-> a[2], entity |-> e] \in er.bindings
                     <=> Candidates(rules, a[1], a[2]) = {e}
      <3>1. BindingOf(a[1], a[2], e) \in er.bindings <=> Candidates(rules, a[1], a[2]) = {e}
        BY <2>1, <2>2, <2>3, BoundExactly
      <3> QED BY <3>1 DEF BindingOf
    <2>5. ASSUME NEW e \in DOMAIN er.minted
          PROVE  er.minted[e] = Min({x.id : x \in {y \in rules :
                     \E rec \in Recs : y.attr \in DOMAIN rec.attrs /\ e \in NamedBy(y, rec)}})
      <3>1. Ids(Naming(rules, Recs, e)) \subseteq Int
        BY <2>1 DEF Ids, Naming, RulesOK
      <3>2. IsLeast(er.minted[e], Ids(Naming(rules, Recs, e)))
        BY <2>2 DEF MintedOK
      <3>3. er.minted[e] = Min(Ids(Naming(rules, Recs, e)))
        BY <3>1, <3>2, LeastIsMin
      <3> QED BY <3>3 DEF Ids, Naming
    <2>6. ResolutionIsOrderFree
      BY <2>4, <2>5 DEF ResolutionIsOrderFree
    <2>7. ASSUME NEW a \in Asked
          PROVE  Cardinality({b \in er.bindings : b.event = a[1].id /\ b.role = a[2]})
                 + Cardinality({b \in er.ambiguous : b.event = a[1].id /\ b.role = a[2]})
                 + Cardinality({b \in er.unresolved : b.event = a[1].id /\ b.role = a[2]}) = 1
      BY <2>1, <2>2, <2>3, OnceAccounted DEF OfRole
    <2>8. MapThenSumSet(LAMBDA r : er.counts[r][1] + er.counts[r][2] + er.counts[r][3], DOMAIN er.counts)
              = Cardinality(Asked)
      <3>1. Totalled(er.counts) = Cardinality(Asked)
        BY <2>1, <2>2, <2>3, CountsAddUp
      <3> QED BY <3>1 DEF Totalled
    <2>9. DOMAIN er.minted = {b.entity : b \in er.bindings} \cup UNION {x.candidates : x \in er.ambiguous}
      BY <2>1, <2>2, CitedIsDefined
    <2>10. er.from = {<<b.entity, b.event>> : b \in er.bindings}
      BY <2>2 DEF Known
    <2>11. EveryRoleAccounted
      BY <2>7, <2>8, <2>9, <2>10 DEF EveryRoleAccounted
    <2> QED BY <2>6, <2>11 DEF ResolutionIsExact
  <1>2. Spec => []StageShape
    BY IndexInvariant, PTL
  <1> QED BY <1>1, <1>2, ResolutionInvariant, PTL

(* A fact with as many arguments as its pattern has them in the order of   *)
(* the pattern's roles, and a role that is missing or ambiguous shortens   *)
(* it (project_bindings, axiom_fact_for).                                  *)
THEOREM ArgsByRole == Spec => []ArgsBindByRole
  <1>1. StageShape /\ ResolutionInd => ArgsBindByRole
    <2> SUFFICES ASSUME StageShape, ResolutionInd, phase = "projected", NEW k \in DOMAIN bundle,
                        LET roles == IF facts[k].predicate \in DOMAIN AxiomRoles THEN AxiomRoles[facts[k].predicate] ELSE <<>>
                        IN roles # <<>>
                 PROVE  LET roles == IF facts[k].predicate \in DOMAIN AxiomRoles THEN AxiomRoles[facts[k].predicate] ELSE <<>>
                        IN /\ Len(facts[k].args) <= Len(roles)
                           /\ Len(facts[k].args) = Len(roles) =>
                                 \A n \in DOMAIN roles : Candidates(rules, bundle[k], roles[n]) = {facts[k].args[n]}
      BY DEF ArgsBindByRole
    <2> DEFINE rec == bundle[k]
               p == PredicateOf(rec.type)
               roles == AxiomRoles[p]
               P == Projected(er.bindings, rec)
    <2>1. facts[k].predicate = p /\ facts[k].args = ArgsOf(P)
      <3>1. facts[k] = FactOf(k)
        BY DEF ResolutionInd
      <3> QED BY <3>1 DEF FactOf
    <2>2. p \in DOMAIN AxiomRoles
      BY <2>1
    <2>3. Seen = Recs /\ RulesOK(rules) /\ Unique(Recs) /\ Known(er, rules, Recs) /\ rec \in Recs
      BY SeenRecords DEF ResolutionInd, Recs
    <2>4. ASSUME NEW b \in P
          PROVE  /\ \E j \in DOMAIN roles : roles[j] = b.role
                 /\ Candidates(rules, rec, b.role) = {b.entity}
                 /\ b = BindingOf(rec, b.role, b.entity)
      <3>1. b \in er.bindings /\ b.event = rec.id /\ \E j \in DOMAIN roles : roles[j] = b.role
        BY <2>2 DEF Projected
      <3> HIDE DEF P, rec, p, roles
      <3> QED BY <2>3, <3>1, BoundGives
    <2> HIDE DEF P, rec, p
    <2>5. ByRole(P, roles)
      <3>1. roles \in Seq(Int) /\ \A i, j \in DOMAIN roles : i < j => roles[i] < roles[j]
        BY <2>2, RolesAssumption
      <3>2. \A b, c \in P : b.role = c.role => b = c
        <4> SUFFICES ASSUME NEW b \in P, NEW c \in P, b.role = c.role PROVE b = c
          OBVIOUS
        <4>1. b.entity = c.entity
          BY <2>4
        <4> QED BY <2>4, <4>1
      <3> HIDE DEF roles
      <3> QED BY <2>4, <3>1, <3>2 DEF ByRole
    <2> HIDE DEF roles
    <2>6. Len(ArgsOf(P)) <= Len(roles)
      BY <2>5, ArgsInPlace
    <2>7. ASSUME Len(ArgsOf(P)) = Len(roles), NEW n \in DOMAIN roles
          PROVE  Candidates(rules, rec, roles[n]) = {ArgsOf(P)[n]}
      <3>1. PICK b \in P : b.role = roles[n] /\ ArgsOf(P)[n] = b.entity
        BY <2>5, <2>7, ArgsInPlace
      <3> QED BY <2>4, <3>1
    <2> QED BY <2>1, <2>2, <2>6, <2>7 DEF roles, rec
  <1>2. Spec => []StageShape
    BY IndexInvariant, PTL
  <1> QED BY <1>1, <1>2, ResolutionInvariant, PTL
=============================================================================
