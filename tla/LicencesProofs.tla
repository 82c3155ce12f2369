--------------------------- MODULE LicencesProofs ---------------------------
(***************************************************************************)
(* Proofs about the two stages that read the rule table, S1 which compiles *)
(* it and S9 which licences what its rules would do unseen. About Rules,   *)
(* for every catalog and rule file: a bit keeps its meaning through every  *)
(* edit and crash, and the masks say what the guards say. About Licences,  *)
(* for every liveness document and every table of rules: the cursor scan   *)
(* answers for every instant of its window, the joint blind windows are    *)
(* the maximal stretches nobody listened to, and an envelope that declares *)
(* no cap is complete up to the ceiling on bindings, and holds no more.    *)
(***************************************************************************)
EXTENDS Rules, Licences, Induction

\* Rows one after the other.
Timeline(rows) ==
    /\ rows \in Seq(Range(rows))
    /\ \A k \in DOMAIN rows : Row(rows[k])
    /\ \A j, k \in DOMAIN rows : j < k => rows[j].t1 <= rows[k].t0

\* The instant t is in the row.
Holds(row, t) == row.t0 <= t /\ t < row.t1

\* Some row says that nobody listened at t.
Silence(rows, t) == \E k \in DOMAIN rows : NotLive(rows[k]) /\ Holds(rows[k], t)

\* A source's rows are one after the other.
LEMMA DocumentTimeline ==
    ASSUME NEW d \in Documents, NEW s \in Source
    PROVE  Timeline(d[s])
  <1> DEFINE q == d[s]
             n == Len(q)
  <1>1. /\ q \in Seq(Range(q)) /\ \A k \in DOMAIN q : Row(q[k])
        /\ \A k \in 1..(n - 1) : q[k].t1 = q[k + 1].t0
    BY DocumentsAssumption
  <1>2. n \in Nat /\ DOMAIN q = 1..n
    BY <1>1
  <1> HIDE DEF q, n
  <1>3. \A k \in 1..n : q[k].t0 \in Int /\ q[k].t1 \in Int /\ q[k].t0 < q[k].t1
    BY <1>1, <1>2 DEF Row
  <1> DEFINE U == {g \in Nat : \A j \in 1..n : j + g + 1 \in 1..n => q[j].t1 <= q[j + g + 1].t0}
  <1>4. 0 \in U
    <2> SUFFICES ASSUME NEW j \in 1..n, j + 1 \in 1..n PROVE q[j].t1 <= q[j + 1].t0
      OBVIOUS
    <2>1. j \in 1..(n - 1)
      BY <1>2
    <2> QED BY <1>1, <1>3, <2>1
  <1>5. ASSUME NEW g \in Nat, g \in U PROVE g + 1 \in U
    <2> SUFFICES ASSUME NEW j \in 1..n, j + (g + 1) + 1 \in 1..n
                 PROVE  q[j].t1 <= q[j + (g + 1) + 1].t0
      OBVIOUS
    <2> DEFINE i == j + g + 1
    <2>1. i \in 1..(n - 1) /\ i \in 1..n /\ i + 1 \in 1..n /\ i + 1 = j + (g + 1) + 1
      BY <1>2
    <2>2. q[j].t1 <= q[i].t0
      BY <1>5, <2>1
    <2>3. q[i].t1 = q[i + 1].t0
      BY <1>1, <2>1
    <2> HIDE DEF i
    <2>4. q[j].t1 <= q[i + 1].t0
      BY <1>3, <2>1, <2>2, <2>3
    <2> QED BY <2>1, <2>4
  <1> HIDE DEF U
  <1>6. Nat \subseteq U
    BY <1>4, <1>5, NatSetInduction
  <1>7. ASSUME NEW j \in 1..n, NEW k \in 1..n, j < k PROVE q[j].t1 <= q[k].t0
    <2>1. k - j - 1 \in U /\ j + (k - j - 1) + 1 = k
      BY <1>6, <1>7
    <2> QED BY <2>1 DEF U
  <1>8. Timeline(q)
    BY <1>1, <1>2, <1>7 DEF Timeline
  <1> QED BY <1>8 DEF q

-----------------------------------------------------------------------------
(* The scan. *)

ScanStep(acc, row, t1) ==
    IF acc.stopped \/ row.t1 <= acc.cursor THEN acc
    ELSE IF row.t0 > acc.cursor \/ ~NotLive(row) THEN [acc EXCEPT !.stopped = TRUE]
    ELSE [acc EXCEPT !.found = Append(@, row), !.cursor = row.t1, !.stopped = row.t1 >= t1]

ScanStates(rows) == [cursor : Int, stopped : BOOLEAN, found : Seq(Range(rows))]

\* One row after the other.
Scanning(v, rows, t0, t1) ==
    /\ v \in [0..Len(rows) -> ScanStates(rows)]
    /\ v[0] = [cursor |-> t0, stopped |-> FALSE, found |-> <<>>]
    /\ \A k \in 1..Len(rows) : v[k] = ScanStep(v[k - 1], rows[k], t1)

\* A step of the scan leaves a state of the scan.
LEMMA ScanStepState ==
    ASSUME NEW rows, Timeline(rows), NEW acc \in ScanStates(rows), NEW k \in DOMAIN rows, NEW t1 \in Int
    PROVE  ScanStep(acc, rows[k], t1) \in ScanStates(rows)
  <1>1. rows[k] \in Range(rows) /\ rows[k].t1 \in Int /\ rows[k].t0 \in Int
    BY DEF Range, Timeline, Row
  <1>2. acc.found \in Seq(Range(rows)) /\ acc.cursor \in Int /\ acc.stopped \in BOOLEAN
    BY DEF ScanStates
  <1>3. Append(acc.found, rows[k]) \in Seq(Range(rows))
    BY <1>1, <1>2
  <1> DEFINE b == rows[k].t1 >= t1
  <1>4. b \in BOOLEAN
    OBVIOUS
  <1> HIDE DEF b
  <1>5. [acc EXCEPT !.found = Append(@, rows[k]), !.cursor = rows[k].t1, !.stopped = b] \in ScanStates(rows)
    BY <1>1, <1>3, <1>4 DEF ScanStates
  <1>6. [acc EXCEPT !.stopped = TRUE] \in ScanStates(rows)
    BY DEF ScanStates
  <1> QED BY <1>5, <1>6 DEF ScanStep, b

\* The fold is that.
LEMMA ScanSteps ==
    ASSUME NEW rows, Timeline(rows), NEW t0 \in Int, NEW t1 \in Int
    PROVE  \E v : Scanning(v, rows, t0, t1) /\ Scan(rows, t0, t1) = v[Len(rows)]
  <1> DEFINE n == Len(rows)
             V == ScanStates(rows)
             b == [cursor |-> t0, stopped |-> FALSE, found |-> <<>>]
             F == [p \in (1..n) \X V |-> ScanStep(p[2], rows[p[1]], t1)]
             Step(j) == [s \in SUBSET (DOMAIN rows) |->
                            IF s = {} THEN b ELSE ScanStep(j[s \ {Largest(s)}], rows[Largest(s)], t1)]
             i == CHOOSE j : j = Step(j)
  <1>1. n \in Nat /\ DOMAIN rows = 1..n
    BY DEF Timeline
  <1>2. b \in V
    BY DEF ScanStates
  <1>3. Scan(rows, t0, t1) = i[DOMAIN rows]
    BY DEF Scan, FoldLeft, MapThenFoldSet, ScanStep, Largest, Max
  <1>4. F \in [(1..n) \X V -> V]
    <2> SUFFICES ASSUME NEW k \in 1..n, NEW acc \in V PROVE ScanStep(acc, rows[k], t1) \in V
      OBVIOUS
    <2> QED BY <1>1, ScanStepState
  <1> HIDE DEF n, V, b
  <1>5. \A k \in 1..n, acc \in V : F[<<k, acc>>] = ScanStep(acc, rows[k], t1)
    OBVIOUS
  <1> HIDE DEF F
  <1>6. PICK h : Folds(h, F, b, n, V)
    BY <1>1, <1>2, <1>4, FoldExists
  <1>7. ASSUME NEW s \in SUBSET (1..n), s # {} PROVE Largest(s) \in 1..n /\ Largest(s) \in s
    <2>1. Largest(s) \in s
      BY <1>1, <1>7, LargestTaken
    <2> QED BY <2>1
  <1>8. h = Step(h)
    <2>1. ASSUME NEW s \in SUBSET (1..n)
          PROVE  h[s] = IF s = {} THEN b ELSE ScanStep(h[s \ {Largest(s)}], rows[Largest(s)], t1)
      <3>1. CASE s = {}
        BY <1>6, <3>1 DEF Folds
      <3>2. CASE s # {}
        <4>1. Largest(s) \in 1..n /\ s \ {Largest(s)} \in SUBSET (1..n)
          BY <1>7, <3>2
        <4>2. h[s \ {Largest(s)}] \in V /\ h[s] = F[<<Largest(s), h[s \ {Largest(s)}]>>]
          BY <1>6, <3>2, <4>1 DEF Folds
        <4> QED BY <1>5, <3>2, <4>1, <4>2
      <3> QED BY <3>1, <3>2
    <2>2. h = [s \in SUBSET (1..n) |-> h[s]]
      BY <1>6 DEF Folds
    <2> QED BY <1>1, <2>1, <2>2
  <1> HIDE DEF Step
  <1>9. i = Step(i)
    BY <1>8, Zenon
  <1> HIDE DEF i
  <1>10. \A s \in SUBSET (1..n) : i[s] = IF s = {} THEN b ELSE ScanStep(i[s \ {Largest(s)}], rows[Largest(s)], t1)
    BY <1>1, <1>9 DEF Step
  <1>11. i[1..0] = b /\ \A k \in 1..n : i[1..k] = ScanStep(i[1..(k - 1)], rows[k], t1)
    <2>1. 1..0 = {}
      OBVIOUS
    <2>2. ASSUME NEW k \in 1..n PROVE i[1..k] = ScanStep(i[1..(k - 1)], rows[k], t1)
      <3>1. /\ 1..k \in SUBSET (1..n) /\ k \in 1..k /\ 1..k # {} /\ 1..k \subseteq 0..k
            /\ (1..k) \ {k} = 1..(k - 1) /\ k \in Nat
        BY <1>1
      <3>2. Largest(1..k) = k
        BY <3>1, LargestOf
      <3> QED BY <1>10, <3>1, <3>2
    <2> QED BY <1>10, <2>1, <2>2
  <1> DEFINE v == [k \in 0..n |-> i[1..k]]
  <1>12. \A k \in 0..n : v[k] = i[1..k]
    OBVIOUS
  <1>13. v[0] = b /\ \A k \in 1..n : v[k] = ScanStep(v[k - 1], rows[k], t1)
    <2>1. \A k \in 1..n : v[k] = i[1..k] /\ v[k - 1] = i[1..(k - 1)]
      BY <1>1
    <2> QED BY <1>1, <1>11, <2>1
  <1>14. DOMAIN v = 0..n /\ v = [k \in 0..n |-> v[k]]
    OBVIOUS
  <1> HIDE DEF v
  <1>15. v \in [0..n -> V]
    <2> DEFINE U == {k \in Nat : k <= n => v[k] \in V}
    <2>1. 0 \in U
      BY <1>2, <1>13
    <2>2. ASSUME NEW k \in 1..n, k - 1 \in U PROVE k \in U
      <3>1. v[k - 1] \in ScanStates(rows) /\ k \in DOMAIN rows
        BY <1>1, <2>2 DEF V
      <3>2. ScanStep(v[k - 1], rows[k], t1) \in ScanStates(rows)
        BY <3>1, ScanStepState
      <3> QED BY <1>13, <3>2 DEF V
    <2> HIDE DEF U
    <2>3. 0..n \subseteq U
      BY <1>1, <2>1, <2>2, BoundedInduction
    <2>4. \A k \in 0..n : v[k] \in V
      BY <1>1, <2>3 DEF U
    <2> QED BY <1>14, <2>4
  <1>16. Scan(rows, t0, t1) = v[n]
    BY <1>1, <1>3, <1>12
  <1> QED BY <1>13, <1>15, <1>16 DEF Scanning, n, b, V

\* What the scan has found out after k rows.
ScanInv(acc, k, rows, t0, t1) ==
    /\ t0 <= acc.cursor
    /\ \A t \in Int : (t0 <= t /\ t < acc.cursor) =>
           \E j \in DOMAIN acc.found : NotLive(acc.found[j]) /\ Holds(acc.found[j], t)
    /\ \A j \in DOMAIN acc.found : NotLive(acc.found[j])
    /\ acc.found = <<>> => acc.cursor = t0
    /\ acc.found # <<>> => Last(acc.found).t1 = acc.cursor
    /\ ~acc.stopped => acc.cursor < t1 /\ \A j \in 1..k : rows[j].t1 <= acc.cursor
    /\ acc.stopped => acc.cursor >= t1 \/ ~Silence(rows, acc.cursor)

\* A row more.
LEMMA ScanInvStep ==
    ASSUME NEW rows, Timeline(rows), NEW t0 \in Int, NEW t1 \in Int, NEW k \in 1..Len(rows),
           NEW acc \in ScanStates(rows), ScanInv(acc, k - 1, rows, t0, t1)
    PROVE  ScanInv(ScanStep(acc, rows[k], t1), k, rows, t0, t1)
  <1> DEFINE row == rows[k]
             n == Len(rows)
  <1>1. n \in Nat /\ DOMAIN rows = 1..n /\ k \in DOMAIN rows
    BY DEF Timeline
  <1>2. \A j \in 1..n : rows[j].t0 \in Int /\ rows[j].t1 \in Int /\ rows[j].t0 < rows[j].t1
    BY <1>1 DEF Timeline, Row
  <1>3. \A j, m \in 1..n : j < m => rows[j].t1 <= rows[m].t0
    BY <1>1 DEF Timeline
  <1>4. acc.cursor \in Int /\ acc.found \in Seq(Range(rows)) /\ acc.stopped \in BOOLEAN
    BY DEF ScanStates
  <1>5. CASE acc.stopped
    BY <1>5 DEF ScanStep, ScanInv
  <1>6. CASE ~acc.stopped /\ row.t1 <= acc.cursor
    <2>1. ScanStep(acc, row, t1) = acc
      BY <1>6 DEF ScanStep
    <2>2. \A j \in 1..k : rows[j].t1 <= acc.cursor
      <3> SUFFICES ASSUME NEW j \in 1..k PROVE rows[j].t1 <= acc.cursor
        OBVIOUS
      <3>1. CASE j = k
        BY <1>6, <3>1
      <3>2. CASE j \in 1..(k - 1)
        BY <1>6, <3>2 DEF ScanInv
      <3> QED BY <1>1, <3>1, <3>2
    <2> QED BY <1>6, <2>1, <2>2 DEF ScanInv
  <1>7. CASE ~acc.stopped /\ ~(row.t1 <= acc.cursor) /\ (row.t0 > acc.cursor \/ ~NotLive(row))
    <2> DEFINE a == [acc EXCEPT !.stopped = TRUE]
    <2>1. ScanStep(acc, row, t1) = a
      BY <1>7 DEF ScanStep
    <2>2. a.cursor = acc.cursor /\ a.found = acc.found /\ a.stopped
      BY DEF ScanStates
    <2>3. ASSUME NEW j \in DOMAIN rows, NotLive(rows[j]), Holds(rows[j], acc.cursor) PROVE FALSE
      <3>1. ~(j \in 1..(k - 1))
        <4> SUFFICES ASSUME j \in 1..(k - 1) PROVE FALSE
          OBVIOUS
        <4>1. rows[j].t1 <= acc.cursor
          BY <1>7 DEF ScanInv
        <4> QED BY <1>1, <1>2, <1>4, <2>3, <4>1 DEF Holds
      <3>2. CASE j = k
        <4>1. ~(row.t0 > acc.cursor)
          BY <1>1, <1>2, <1>4, <2>3, <3>2 DEF Holds
        <4> QED BY <1>7, <2>3, <3>2, <4>1
      <3>3. CASE k < j
        <4>1. rows[k].t1 <= rows[j].t0
          BY <1>1, <1>3, <3>3
        <4>2. rows[j].t0 <= acc.cursor
          BY <2>3 DEF Holds
        <4> QED BY <1>1, <1>2, <1>4, <1>7, <4>1, <4>2
      <3> QED BY <1>1, <3>1, <3>2, <3>3
    <2>4. ~Silence(rows, acc.cursor)
      BY <2>3 DEF Silence
    <2> HIDE DEF a
    <2> QED BY <2>1, <2>2, <2>4 DEF ScanInv
  <1>8. CASE ~acc.stopped /\ ~(row.t1 <= acc.cursor) /\ ~(row.t0 > acc.cursor) /\ NotLive(row)
    <2> DEFINE a == [acc EXCEPT !.found = Append(@, row), !.cursor = row.t1, !.stopped = row.t1 >= t1]
    <2>1. ScanStep(acc, row, t1) = a
      BY <1>8 DEF ScanStep
    <2>2. a.cursor = row.t1 /\ a.found = Append(acc.found, row) /\ a.stopped = (row.t1 >= t1)
      BY DEF ScanStates
    <2> HIDE DEF a
    <2> DEFINE m == Len(acc.found)
    <2>3. /\ m \in Nat /\ DOMAIN acc.found = 1..m /\ DOMAIN a.found = 1..(m + 1)
          /\ \A j \in 1..m : a.found[j] = acc.found[j]
          /\ a.found[m + 1] = row /\ Len(a.found) = m + 1 /\ a.found # <<>>
      <3>1. row \in Range(rows)
        BY <1>1 DEF Range
      <3> QED BY <1>4, <2>2, <3>1
    <2>4. row.t0 \in Int /\ row.t1 \in Int
      BY <1>1, <1>2
    <2> HIDE DEF row, m
    <2>5. t0 <= acc.cursor
      BY DEF ScanInv
    <2>6. t0 <= a.cursor
      BY <1>4, <1>8, <2>2, <2>4, <2>5
    <2>7. ASSUME NEW t \in Int, t0 <= t, t < a.cursor
          PROVE  \E j \in DOMAIN a.found : NotLive(a.found[j]) /\ Holds(a.found[j], t)
      <3>1. CASE t < acc.cursor
        <4>1. PICK j \in DOMAIN acc.found : NotLive(acc.found[j]) /\ Holds(acc.found[j], t)
          BY <2>7, <3>1 DEF ScanInv
        <4>2. j \in DOMAIN a.found /\ a.found[j] = acc.found[j]
          BY <2>3
        <4> QED BY <4>1, <4>2
      <3>2. CASE ~(t < acc.cursor)
        <4>1. Holds(row, t)
          BY <1>4, <1>8, <2>2, <2>4, <2>7, <3>2 DEF Holds
        <4>2. m + 1 \in DOMAIN a.found
          BY <2>3
        <4> QED BY <1>8, <2>3, <4>1, <4>2
      <3> QED BY <3>1, <3>2
    <2>8. ASSUME NEW j \in DOMAIN a.found PROVE NotLive(a.found[j])
      <3>1. CASE j \in 1..m
        BY <2>3, <3>1 DEF ScanInv
      <3>2. CASE j = m + 1
        BY <1>8, <2>3, <3>2
      <3> QED BY <2>3, <3>1, <3>2
    <2>9. Last(a.found).t1 = a.cursor
      BY <2>2, <2>3 DEF Last
    <2>10. ASSUME ~a.stopped PROVE a.cursor < t1 /\ \A j \in 1..k : rows[j].t1 <= a.cursor
      <3>1. ~(row.t1 >= t1)
        BY <2>2, <2>10, Zenon
      <3>2. a.cursor < t1
        <4>1. row.t1 < t1
          BY <2>4, <3>1
        <4> QED BY <2>2, <4>1, Zenon
      <3>3. ASSUME NEW j \in 1..k PROVE rows[j].t1 <= a.cursor
        <4>1. CASE j = k
          BY <1>1, <1>2, <2>2, <4>1 DEF row
        <4>2. CASE j \in 1..(k - 1)
          <5>1. rows[j].t1 <= acc.cursor /\ rows[j].t1 \in Int
            BY <1>1, <1>2, <1>8, <4>2 DEF ScanInv
          <5> QED BY <1>4, <1>8, <2>2, <2>4, <5>1
        <4> QED BY <1>1, <4>1, <4>2
      <3> QED BY <3>2, <3>3
    <2>11. a.stopped => a.cursor >= t1
      BY <2>2
    <2>12. ScanInv(a, k, rows, t0, t1)
      BY <2>3, <2>6, <2>7, <2>8, <2>9, <2>10, <2>11 DEF ScanInv
    <2> QED BY <2>1, <2>12 DEF row
  <1> QED BY <1>4, <1>5, <1>6, <1>7, <1>8

\* The window is silent from end to end exactly when the cursor gets to its
\* end, and what was found covers it that far.
LEMMA ScanExact ==
    ASSUME NEW rows, Timeline(rows), NEW t0 \in Int, NEW t1 \in Int, t0 < t1
    PROVE  LET acc == Scan(rows, t0, t1) IN
           /\ acc \in ScanStates(rows)
           /\ acc.cursor >= t1 <=> \A t \in Int : (t0 <= t /\ t < t1) => Silence(rows, t)
           /\ Covered(t0, t1, acc.found) <=> acc.cursor >= t1
           /\ \A j \in DOMAIN acc.found : NotLive(acc.found[j])
           /\ \A t \in Int : (t0 <= t /\ t < acc.cursor) =>
                  \E j \in DOMAIN acc.found : Holds(acc.found[j], t)
  <1> DEFINE acc == Scan(rows, t0, t1)
             n == Len(rows)
  <1>1. n \in Nat /\ DOMAIN rows = 1..n
    BY DEF Timeline
  <1>2. PICK v : Scanning(v, rows, t0, t1) /\ acc = v[n]
    BY ScanSteps
  <1> HIDE DEF acc, n
  <1> DEFINE U == {k \in Nat : k <= n => ScanInv(v[k], k, rows, t0, t1)}
  <1>3. 0 \in U
    <2>1. /\ v[0].cursor = t0 /\ v[0].found = <<>> /\ ~v[0].stopped /\ DOMAIN v[0].found = {}
      BY <1>2 DEF Scanning
    <2> QED BY <2>1 DEF ScanInv
  <1>4. ASSUME NEW k \in 1..n, k - 1 \in U PROVE k \in U
    <2>1. ScanInv(v[k - 1], k - 1, rows, t0, t1) /\ v[k - 1] \in ScanStates(rows)
      BY <1>1, <1>2, <1>4 DEF Scanning, n
    <2>2. v[k] = ScanStep(v[k - 1], rows[k], t1)
      BY <1>2 DEF Scanning, n
    <2>3. ScanInv(v[k], k, rows, t0, t1)
      BY <2>1, <2>2, ScanInvStep DEF n
    <2> QED BY <2>3
  <1> HIDE DEF U
  <1>5. n \in U
    BY <1>1, <1>3, <1>4, BoundedInduction
  <1>6. ScanInv(acc, n, rows, t0, t1) /\ acc \in ScanStates(rows)
    BY <1>1, <1>2, <1>5 DEF U, Scanning, n
  <1>7. acc.cursor \in Int /\ acc.found \in Seq(Range(rows)) /\ acc.stopped \in BOOLEAN
    BY <1>6 DEF ScanStates
  <1>8. \A j \in 1..n : rows[j].t0 \in Int /\ rows[j].t1 \in Int
    BY <1>1 DEF Timeline, Row
  <1>9. ASSUME ~(acc.cursor >= t1) PROVE t0 <= acc.cursor /\ acc.cursor < t1 /\ ~Silence(rows, acc.cursor)
    <2>1. t0 <= acc.cursor /\ acc.cursor < t1
      BY <1>6, <1>7, <1>9 DEF ScanInv
    <2>2. CASE acc.stopped
      BY <1>6, <1>9, <2>1, <2>2 DEF ScanInv
    <2>3. CASE ~acc.stopped
      <3>1. \A j \in 1..n : rows[j].t1 <= acc.cursor
        BY <1>6, <2>3 DEF ScanInv
      <3>2. ~Silence(rows, acc.cursor)
        BY <1>1, <1>7, <1>8, <3>1 DEF Silence, Holds
      <3> QED BY <2>1, <3>2
    <2> QED BY <1>7, <2>2, <2>3
  <1>10. ASSUME acc.cursor >= t1, NEW t \in Int, t0 <= t, t < t1 PROVE Silence(rows, t)
    <2>1. PICK j \in DOMAIN acc.found : NotLive(acc.found[j]) /\ Holds(acc.found[j], t)
      BY <1>6, <1>7, <1>10 DEF ScanInv
    <2>2. acc.found[j] \in Range(rows)
      BY <1>7
    <2> QED BY <2>1, <2>2 DEF Silence, Range
  <1>11. acc.cursor >= t1 <=> \A t \in Int : (t0 <= t /\ t < t1) => Silence(rows, t)
    BY <1>7, <1>9, <1>10
  <1>12. Covered(t0, t1, acc.found) <=> acc.cursor >= t1
    <2>1. CASE acc.found = <<>>
      BY <1>6, <1>7, <2>1 DEF ScanInv, Covered
    <2>2. CASE acc.found # <<>>
      BY <1>6, <2>2 DEF ScanInv, Covered
    <2> QED BY <2>1, <2>2
  <1>13. ASSUME NEW t \in Int, t0 <= t, t < acc.cursor PROVE \E j \in DOMAIN acc.found : Holds(acc.found[j], t)
    BY <1>6, <1>13 DEF ScanInv
  <1>14. \A j \in DOMAIN acc.found : NotLive(acc.found[j])
    BY <1>6 DEF ScanInv
  <1> QED BY <1>6, <1>11, <1>12, <1>13, <1>14 DEF acc

-----------------------------------------------------------------------------
(* The runs. *)

RunStep(runs, row) == IF NotLive(row) THEN Merged(runs, row) ELSE runs

RunRecords(rows) ==
    [t0 : Int, t1 : Int, verdict : {"LIVE", "BLIND", "SUPPRESSED"},
     reason : {row.reason : row \in Range(rows)}, witness : SUBSET UNION {row.witness : row \in Range(rows)}]

\* One row after the other.
Running(v, rows) ==
    /\ v \in [0..Len(rows) -> Seq(RunRecords(rows))]
    /\ v[0] = <<>>
    /\ \A k \in 1..Len(rows) : v[k] = RunStep(v[k - 1], rows[k])

\* A row is a run.
LEMMA RowIsRun ==
    ASSUME NEW rows, Timeline(rows), NEW k \in DOMAIN rows
    PROVE  rows[k] \in RunRecords(rows)
  <1> DEFINE row == rows[k]
  <1>1. /\ row = [t0 |-> row.t0, t1 |-> row.t1, verdict |-> row.verdict, reason |-> row.reason, witness |-> row.witness]
        /\ row.t0 \in Int /\ row.t1 \in Int /\ row.verdict \in {"LIVE", "BLIND", "SUPPRESSED"}
    BY DEF Timeline, Row
  <1>2. row \in Range(rows)
    BY DEF Range
  <1> HIDE DEF row
  <1>3. row.reason \in {x.reason : x \in Range(rows)} /\ row.witness \in SUBSET UNION {x.witness : x \in Range(rows)}
    BY <1>2
  <1>4. row \in RunRecords(rows)
    BY <1>1, <1>3 DEF RunRecords
  <1> QED BY <1>4 DEF row

\* The last run, and the row after it.
Joined(runs, row) == [runs EXCEPT ![Len(runs)].t1 = row.t1, ![Len(runs)].witness = @ \cup row.witness]

\* a is the runs, the last one longer by the row.
Longer(a, runs, row, rows) ==
    LET m == Len(runs) IN
    /\ m \in Nat \ {0} /\ DOMAIN runs = 1..m
    /\ a \in Seq(RunRecords(rows)) /\ DOMAIN a = 1..m
    /\ \A j \in 1..(m - 1) : a[j] = runs[j]
    /\ a[m].t0 = runs[m].t0 /\ a[m].t1 = row.t1 /\ a[m].verdict = runs[m].verdict
    /\ a[m].reason = runs[m].reason /\ a[m].witness = runs[m].witness \cup row.witness

\* What joining a row to a run does.
LEMMA JoinedRun ==
    ASSUME NEW rows, NEW runs \in Seq(RunRecords(rows)), runs # <<>>, NEW row \in RunRecords(rows)
    PROVE  Longer(Joined(runs, row), runs, row, rows)
  <1> DEFINE m == Len(runs)
             a == [runs EXCEPT ![m].t1 = row.t1, ![m].witness = @ \cup row.witness]
             e == [t0 |-> runs[m].t0, t1 |-> row.t1, verdict |-> runs[m].verdict,
                   reason |-> runs[m].reason, witness |-> runs[m].witness \cup row.witness]
             b == [j \in 1..m |-> IF j = m THEN e ELSE runs[j]]
             W == SUBSET UNION {x.witness : x \in Range(rows)}
  <1>1. m \in Nat \ {0} /\ DOMAIN runs = 1..m /\ m \in 1..m /\ \A j \in 1..m : runs[j] \in RunRecords(rows)
    OBVIOUS
  <1>2. runs[m].witness \in W /\ row.witness \in W /\ runs[m].t0 \in Int /\ row.t1 \in Int
    BY <1>1 DEF RunRecords
  <1>3. e \in RunRecords(rows)
    <2>1. runs[m].witness \cup row.witness \in W
      BY <1>2
    <2> HIDE DEF W
    <2> QED BY <1>1, <1>2, <2>1 DEF RunRecords, W
  <1>4. a = b
    <2> DEFINE x == runs[m]
               y == [x EXCEPT !.t1 = row.t1]
    <2>1. x \in RunRecords(rows)
      BY <1>1
    <2>2. x = [t0 |-> x.t0, t1 |-> x.t1, verdict |-> x.verdict, reason |-> x.reason, witness |-> x.witness]
      BY <2>1 DEF RunRecords
    <2> HIDE DEF x
    <2>3. y = [t0 |-> x.t0, t1 |-> row.t1, verdict |-> x.verdict, reason |-> x.reason, witness |-> x.witness]
      BY <2>2
    <2> HIDE DEF y
    <2>4. [y EXCEPT !.witness = @ \cup row.witness] =
            [t0 |-> x.t0, t1 |-> row.t1, verdict |-> x.verdict, reason |-> x.reason, witness |-> x.witness \cup row.witness]
      <3>1. y.witness = x.witness
        BY <2>3
      <3> DEFINE w == x.witness \cup row.witness
      <3> HIDE DEF w
      <3>2. [y EXCEPT !.witness = w] =
              [t0 |-> x.t0, t1 |-> row.t1, verdict |-> x.verdict, reason |-> x.reason, witness |-> w]
        BY <2>3
      <3> QED BY <3>1, <3>2 DEF w
    <2>5. [[runs[m] EXCEPT !.t1 = row.t1] EXCEPT !.witness = @ \cup row.witness] = e
      BY <2>4 DEF x, y
    <2> QED BY <1>1, <2>5
  <1>5. b[m] = e /\ \A j \in 1..(m - 1) : b[j] = runs[j]
    <2> HIDE DEF e, m
    <2> QED BY <1>1
  <1>6. b \in [1..m -> RunRecords(rows)]
    BY <1>1, <1>3
  <1>7. b \in Seq(RunRecords(rows)) /\ Len(b) = m /\ DOMAIN b = 1..m
    <2> HIDE DEF b, m
    <2> QED BY <1>1, <1>6
  <1>8. /\ e.t0 = runs[m].t0 /\ e.t1 = row.t1 /\ e.verdict = runs[m].verdict
        /\ e.reason = runs[m].reason /\ e.witness = runs[m].witness \cup row.witness
    OBVIOUS
  <1>9. Joined(runs, row) = a
    BY Zenon DEF Joined
  <1> HIDE DEF a, b, e
  <1>10. /\ a \in Seq(RunRecords(rows)) /\ DOMAIN a = 1..m
         /\ \A j \in 1..(m - 1) : a[j] = runs[j]
         /\ a[m].t0 = runs[m].t0 /\ a[m].t1 = row.t1 /\ a[m].verdict = runs[m].verdict
         /\ a[m].reason = runs[m].reason /\ a[m].witness = runs[m].witness \cup row.witness
    BY <1>4, <1>5, <1>7, <1>8, Zenon
  <1>11. Longer(a, runs, row, rows)
    BY <1>1, <1>10, Zenon DEF Longer
  <1> QED BY <1>9, <1>11, Zenon

\* A step leaves runs.
LEMMA RunStepState ==
    ASSUME NEW rows, Timeline(rows), NEW runs \in Seq(RunRecords(rows)), NEW k \in DOMAIN rows
    PROVE  RunStep(runs, rows[k]) \in Seq(RunRecords(rows))
  <1>1. rows[k] \in RunRecords(rows)
    BY RowIsRun
  <1>2. Append(runs, rows[k]) \in Seq(RunRecords(rows))
    BY <1>1
  <1>3. ASSUME runs # <<>>
        PROVE  Joined(runs, rows[k]) \in Seq(RunRecords(rows))
    BY <1>1, <1>3, JoinedRun DEF Longer
  <1> QED BY <1>2, <1>3, Zenon DEF RunStep, Merged, Joined

\* The fold is that.
LEMMA RunSteps ==
    ASSUME NEW rows, Timeline(rows)
    PROVE  \E v : Running(v, rows) /\ Runs(rows) = v[Len(rows)]
  <1> DEFINE n == Len(rows)
             V == Seq(RunRecords(rows))
             b == <<>>
             F == [p \in (1..n) \X V |-> RunStep(p[2], rows[p[1]])]
             Step(j) == [s \in SUBSET (DOMAIN rows) |->
                            IF s = {} THEN b ELSE RunStep(j[s \ {Largest(s)}], rows[Largest(s)])]
             i == CHOOSE j : j = Step(j)
  <1>1. n \in Nat /\ DOMAIN rows = 1..n
    BY DEF Timeline
  <1>2. b \in V
    OBVIOUS
  <1>3. Runs(rows) = i[DOMAIN rows]
    BY DEF Runs, FoldLeft, MapThenFoldSet, RunStep, Largest, Max
  <1>4. F \in [(1..n) \X V -> V]
    <2> SUFFICES ASSUME NEW k \in 1..n, NEW runs \in V PROVE RunStep(runs, rows[k]) \in V
      OBVIOUS
    <2> QED BY <1>1, RunStepState
  <1> HIDE DEF n, V, b
  <1>5. \A k \in 1..n, runs \in V : F[<<k, runs>>] = RunStep(runs, rows[k])
    OBVIOUS
  <1> HIDE DEF F
  <1>6. PICK h : Folds(h, F, b, n, V)
    BY <1>1, <1>2, <1>4, FoldExists
  <1>7. ASSUME NEW s \in SUBSET (1..n), s # {} PROVE Largest(s) \in 1..n /\ Largest(s) \in s
    <2>1. Largest(s) \in s
      BY <1>1, <1>7, LargestTaken
    <2> QED BY <2>1
  <1>8. h = Step(h)
    <2>1. ASSUME NEW s \in SUBSET (1..n)
          PROVE  h[s] = IF s = {} THEN b ELSE RunStep(h[s \ {Largest(s)}], rows[Largest(s)])
      <3>1. CASE s = {}
        BY <1>6, <3>1 DEF Folds
      <3>2. CASE s # {}
        <4>1. Largest(s) \in 1..n /\ s \ {Largest(s)} \in SUBSET (1..n)
          BY <1>7, <3>2
        <4>2. h[s \ {Largest(s)}] \in V /\ h[s] = F[<<Largest(s), h[s \ {Largest(s)}]>>]
          BY <1>6, <3>2, <4>1 DEF Folds
        <4> QED BY <1>5, <3>2, <4>1, <4>2
      <3> QED BY <3>1, <3>2
    <2>2. h = [s \in SUBSET (1..n) |-> h[s]]
      BY <1>6 DEF Folds
    <2> QED BY <1>1, <2>1, <2>2
  <1> HIDE DEF Step
  <1>9. i = Step(i)
    BY <1>8, Zenon
  <1> HIDE DEF i
  <1>10. \A s \in SUBSET (1..n) : i[s] = IF s = {} THEN b ELSE RunStep(i[s \ {Largest(s)}], rows[Largest(s)])
    BY <1>1, <1>9 DEF Step
  <1>11. i[1..0] = b /\ \A k \in 1..n : i[1..k] = RunStep(i[1..(k - 1)], rows[k])
    <2>1. 1..0 = {}
      OBVIOUS
    <2>2. ASSUME NEW k \in 1..n PROVE i[1..k] = RunStep(i[1..(k - 1)], rows[k])
      <3>1. /\ 1..k \in SUBSET (1..n) /\ k \in 1..k /\ 1..k # {} /\ 1..k \subseteq 0..k
            /\ (1..k) \ {k} = 1..(k - 1) /\ k \in Nat
        BY <1>1
      <3>2. Largest(1..k) = k
        BY <3>1, LargestOf
      <3> QED BY <1>10, <3>1, <3>2
    <2> QED BY <1>10, <2>1, <2>2
  <1> DEFINE v == [k \in 0..n |-> i[1..k]]
  <1>12. \A k \in 0..n : v[k] = i[1..k]
    OBVIOUS
  <1>13. v[0] = b /\ \A k \in 1..n : v[k] = RunStep(v[k - 1], rows[k])
    <2>1. \A k \in 1..n : v[k] = i[1..k] /\ v[k - 1] = i[1..(k - 1)]
      BY <1>1
    <2> QED BY <1>1, <1>11, <2>1
  <1>14. DOMAIN v = 0..n /\ v = [k \in 0..n |-> v[k]]
    OBVIOUS
  <1> HIDE DEF v
  <1>15. v \in [0..n -> V]
    <2> DEFINE U == {k \in Nat : k <= n => v[k] \in V}
    <2>1. 0 \in U
      BY <1>2, <1>13
    <2>2. ASSUME NEW k \in 1..n, k - 1 \in U PROVE k \in U
      <3>1. v[k - 1] \in V /\ k \in DOMAIN rows
        BY <1>1, <2>2
      <3>2. RunStep(v[k - 1], rows[k]) \in V
        BY <3>1, RunStepState DEF V
      <3> QED BY <1>13, <3>2
    <2> HIDE DEF U
    <2>3. 0..n \subseteq U
      BY <1>1, <2>1, <2>2, BoundedInduction
    <2>4. \A k \in 0..n : v[k] \in V
      BY <1>1, <2>3 DEF U
    <2> QED BY <1>14, <2>4
  <1>16. Runs(rows) = v[n]
    BY <1>1, <1>3, <1>12
  <1> QED BY <1>13, <1>15, <1>16 DEF Running, n, b, V

\* A row that says what the run says, and overlaps it.
Backs(row, run) ==
    /\ row.verdict = run.verdict /\ row.reason = run.reason
    /\ row.t0 < run.t1 /\ run.t0 < row.t1

\* What the runs are after k rows.
RunInv(runs, k, rows) ==
    /\ \A j \in DOMAIN runs :
           /\ NotLive(runs[j]) /\ Row(runs[j])
           /\ \E m \in 1..k : Backs(rows[m], runs[j])
           /\ \A m \in DOMAIN rows : k < m => runs[j].t1 <= rows[m].t0
    /\ \A i, j \in DOMAIN runs : i < j => runs[i].t1 <= runs[j].t0
    /\ \A t \in Int : (\E j \in DOMAIN runs : Holds(runs[j], t)) <=>
                          (\E m \in 1..k : NotLive(rows[m]) /\ Holds(rows[m], t))

\* A row more that changes nothing.
LEMMA RunInvSkip ==
    ASSUME NEW rows, Timeline(rows), NEW k \in 1..Len(rows), ~NotLive(rows[k]),
           NEW runs \in Seq(RunRecords(rows)), RunInv(runs, k - 1, rows)
    PROVE  RunInv(runs, k, rows)
  <1>1. Len(rows) \in Nat /\ DOMAIN rows = 1..Len(rows)
    BY DEF Timeline
  <1>2. ASSUME NEW j \in DOMAIN runs
        PROVE  /\ NotLive(runs[j]) /\ Row(runs[j])
               /\ \E m \in 1..k : Backs(rows[m], runs[j])
               /\ \A m \in DOMAIN rows : k < m => runs[j].t1 <= rows[m].t0
    <2>1. NotLive(runs[j]) /\ Row(runs[j])
      BY DEF RunInv
    <2>2. PICK m \in 1..(k - 1) : Backs(rows[m], runs[j])
      BY DEF RunInv
    <2>3. m \in 1..k
      BY <1>1
    <2>4. ASSUME NEW l \in DOMAIN rows, k < l PROVE runs[j].t1 <= rows[l].t0
      <3>1. k - 1 < l
        BY <1>1, <2>4
      <3> QED BY <3>1 DEF RunInv
    <2> QED BY <2>1, <2>2, <2>3, <2>4
  <1>3. ASSUME NEW t \in Int
        PROVE  (\E j \in DOMAIN runs : Holds(runs[j], t)) <=>
               (\E m \in 1..k : NotLive(rows[m]) /\ Holds(rows[m], t))
    <2>1. (\E j \in DOMAIN runs : Holds(runs[j], t)) <=>
          (\E m \in 1..(k - 1) : NotLive(rows[m]) /\ Holds(rows[m], t))
      BY DEF RunInv
    <2>2. \A m : m \in 1..k <=> m \in 1..(k - 1) \/ m = k
      BY <1>1
    <2> QED BY <2>1, <2>2, Zenon
  <1>4. \A i, j \in DOMAIN runs : i < j => runs[i].t1 <= runs[j].t0
    BY DEF RunInv
  <1> QED BY <1>2, <1>3, <1>4 DEF RunInv

\* A row that is joined to the last run.
LEMMA RunInvJoin ==
    ASSUME NEW rows, Timeline(rows), NEW k \in 1..Len(rows), NotLive(rows[k]),
           NEW runs \in Seq(RunRecords(rows)), RunInv(runs, k - 1, rows),
           runs # <<>>, runs[Len(runs)].t1 = rows[k].t0,
           runs[Len(runs)].verdict = rows[k].verdict, runs[Len(runs)].reason = rows[k].reason
    PROVE  RunInv(Joined(runs, rows[k]), k, rows)
  <1> DEFINE row == rows[k]
             n == Len(rows)
             m == Len(runs)
             last == runs[m]
             a == Joined(runs, row)
  <1>1. n \in Nat /\ DOMAIN rows = 1..n /\ k \in DOMAIN rows /\ k \in 1..k /\ k \in Int
    BY DEF Timeline
  <1>2. row \in RunRecords(rows) /\ Row(row)
    BY <1>1, RowIsRun DEF Timeline
  <1>3. /\ m \in Nat \ {0} /\ DOMAIN runs = 1..m
        /\ a \in Seq(RunRecords(rows)) /\ DOMAIN a = 1..m
        /\ \A j \in 1..(m - 1) : a[j] = runs[j]
        /\ a[m].t0 = last.t0 /\ a[m].t1 = row.t1 /\ a[m].verdict = last.verdict
        /\ a[m].reason = last.reason /\ a[m].witness = last.witness \cup row.witness
    <2>1. Longer(a, runs, row, rows)
      BY <1>2, JoinedRun, Zenon
    <2> HIDE DEF a, row
    <2> QED BY <2>1, Zenon DEF Longer
  <1>4. m \in 1..m /\ a[m] \in RunRecords(rows) /\ \A x : x \in 1..m <=> x \in 1..(m - 1) \/ x = m
    BY <1>3
  <1> HIDE DEF a
  <1>5. /\ NotLive(last) /\ Row(last)
        /\ \E l \in 1..(k - 1) : Backs(rows[l], last)
        /\ \A l \in DOMAIN rows : k - 1 < l => last.t1 <= rows[l].t0
    BY <1>3, <1>4 DEF RunInv
  <1>6. last.t1 = row.t0 /\ last.verdict = row.verdict /\ last.reason = row.reason
    OBVIOUS
  <1> HIDE DEF last, m
  <1>7. /\ last.t0 \in Int /\ last.t1 \in Int /\ last.t0 < last.t1
        /\ row.t0 \in Int /\ row.t1 \in Int /\ row.t0 < row.t1
        /\ last.verdict = "SUPPRESSED" <=> last.witness # {}
        /\ row.verdict = "SUPPRESSED" <=> row.witness # {}
    BY <1>2, <1>5 DEF Row
  <1>8. NotLive(a[m]) /\ Row(a[m])
    <2>1. /\ a[m] = [t0 |-> a[m].t0, t1 |-> a[m].t1, verdict |-> a[m].verdict, reason |-> a[m].reason, witness |-> a[m].witness]
          /\ a[m].t0 \in Int /\ a[m].t1 \in Int /\ a[m].verdict \in {"LIVE", "BLIND", "SUPPRESSED"}
      BY <1>4 DEF RunRecords
    <2>2. a[m].t0 < a[m].t1
      BY <1>3, <1>6, <1>7
    <2>3. a[m].verdict = "SUPPRESSED" <=> a[m].witness # {}
      BY <1>3, <1>6, <1>7
    <2> QED BY <1>3, <1>5, <2>1, <2>2, <2>3 DEF Row, NotLive
  <1>9. \E l \in 1..k : Backs(rows[l], a[m])
    <2>1. PICK l \in 1..(k - 1) : Backs(rows[l], last)
      BY <1>5
    <2>2. l \in 1..k /\ l \in DOMAIN rows
      BY <1>1
    <2>3. rows[l].t0 \in Int /\ rows[l].t1 \in Int
      BY <2>2 DEF Timeline, Row
    <2>4. Backs(rows[l], a[m])
      BY <1>3, <1>6, <1>7, <2>1, <2>3 DEF Backs
    <2> QED BY <2>2, <2>4
  <1>10. ASSUME NEW l \in DOMAIN rows, k < l PROVE a[m].t1 <= rows[l].t0
    BY <1>1, <1>3, <1>10 DEF Timeline
  <1>11. ASSUME NEW j \in 1..(m - 1)
         PROVE  /\ NotLive(a[j]) /\ Row(a[j])
                /\ \E l \in 1..k : Backs(rows[l], a[j])
                /\ \A l \in DOMAIN rows : k < l => a[j].t1 <= rows[l].t0
    <2>1. a[j] = runs[j] /\ j \in DOMAIN runs
      BY <1>3
    <2>2. NotLive(runs[j]) /\ Row(runs[j])
      BY <2>1 DEF RunInv
    <2>3. PICK l \in 1..(k - 1) : Backs(rows[l], runs[j])
      BY <2>1 DEF RunInv
    <2>4. l \in 1..k
      BY <1>1
    <2>5. ASSUME NEW x \in DOMAIN rows, k < x PROVE runs[j].t1 <= rows[x].t0
      <3>1. k - 1 < x
        BY <1>1, <2>5
      <3> QED BY <2>1, <3>1 DEF RunInv
    <2> QED BY <2>1, <2>2, <2>3, <2>4, <2>5
  <1>12. ASSUME NEW i \in DOMAIN a, NEW j \in DOMAIN a, i < j PROVE a[i].t1 <= a[j].t0
    <2>1. i \in 1..(m - 1) /\ i \in DOMAIN runs /\ j \in DOMAIN runs
      BY <1>3, <1>12
    <2>2. runs[i].t1 <= runs[j].t0
      BY <1>12, <2>1 DEF RunInv
    <2>3. a[j].t0 = runs[j].t0
      BY <1>3, <1>4, <1>12 DEF last
    <2> QED BY <1>3, <2>1, <2>2, <2>3
  <1>13. ASSUME NEW t \in Int
         PROVE  (\E j \in DOMAIN a : Holds(a[j], t)) <=> (\E l \in 1..k : NotLive(rows[l]) /\ Holds(rows[l], t))
    <2>1. Holds(a[m], t) <=> Holds(last, t) \/ Holds(row, t)
      BY <1>3, <1>6, <1>7 DEF Holds
    <2>2. (\E j \in DOMAIN a : Holds(a[j], t)) <=> (\E j \in DOMAIN runs : Holds(runs[j], t)) \/ Holds(row, t)
      <3>1. \A j \in 1..(m - 1) : Holds(a[j], t) <=> Holds(runs[j], t)
        BY <1>3
      <3> QED BY <1>3, <1>4, <2>1, <3>1, Zenon DEF last
    <2>3. (\E j \in DOMAIN runs : Holds(runs[j], t)) <=>
          (\E l \in 1..(k - 1) : NotLive(rows[l]) /\ Holds(rows[l], t))
      BY DEF RunInv
    <2>4. \A l : l \in 1..k <=> l \in 1..(k - 1) \/ l = k
      BY <1>1
    <2> QED BY <2>2, <2>3, <2>4, Zenon
  <1>14. RunInv(a, k, rows)
    BY <1>3, <1>4, <1>8, <1>9, <1>10, <1>11, <1>12, <1>13 DEF RunInv
  <1> QED BY <1>14 DEF a, m

\* A row that is a run of its own.
LEMMA RunInvAppend ==
    ASSUME NEW rows, Timeline(rows), NEW k \in 1..Len(rows), NotLive(rows[k]),
           NEW runs \in Seq(RunRecords(rows)), RunInv(runs, k - 1, rows)
    PROVE  RunInv(Append(runs, rows[k]), k, rows)
  <1> DEFINE row == rows[k]
             n == Len(rows)
             m == Len(runs)
             a == Append(runs, row)
  <1>1. n \in Nat /\ DOMAIN rows = 1..n /\ k \in DOMAIN rows /\ k \in 1..k /\ k \in Int /\ k - 1 < k
    BY DEF Timeline
  <1>2. row \in RunRecords(rows) /\ Row(row)
    BY <1>1, RowIsRun DEF Timeline
  <1>3. /\ m \in Nat /\ DOMAIN runs = 1..m /\ DOMAIN a = 1..(m + 1)
        /\ \A j \in 1..m : a[j] = runs[j]
        /\ a[m + 1] = row
    BY <1>2
  <1>4. m + 1 \in 1..(m + 1) /\ \A x : x \in 1..(m + 1) <=> x \in 1..m \/ x = m + 1
    BY <1>3
  <1> HIDE DEF a, m
  <1>5. Backs(row, row)
    BY <1>2 DEF Backs, Row
  <1>6. ASSUME NEW l \in DOMAIN rows, k < l PROVE row.t1 <= rows[l].t0
    BY <1>1, <1>6 DEF Timeline
  <1>7. ASSUME NEW j \in 1..m
        PROVE  /\ NotLive(a[j]) /\ Row(a[j])
               /\ \E l \in 1..k : Backs(rows[l], a[j])
               /\ \A l \in DOMAIN rows : k < l => a[j].t1 <= rows[l].t0
    <2>1. a[j] = runs[j] /\ j \in DOMAIN runs
      BY <1>3
    <2>2. NotLive(runs[j]) /\ Row(runs[j])
      BY <2>1 DEF RunInv
    <2>3. PICK l \in 1..(k - 1) : Backs(rows[l], runs[j])
      BY <2>1 DEF RunInv
    <2>4. l \in 1..k
      BY <1>1
    <2>5. ASSUME NEW x \in DOMAIN rows, k < x PROVE runs[j].t1 <= rows[x].t0
      <3>1. k - 1 < x
        BY <1>1, <2>5
      <3> QED BY <2>1, <3>1 DEF RunInv
    <2> QED BY <2>1, <2>2, <2>3, <2>4, <2>5
  <1>8. ASSUME NEW i \in DOMAIN a, NEW j \in DOMAIN a, i < j PROVE a[i].t1 <= a[j].t0
    <2>1. i \in 1..m /\ i \in DOMAIN runs /\ a[i] = runs[i]
      BY <1>3, <1>8
    <2>2. CASE j \in 1..m
      BY <1>3, <1>8, <2>1, <2>2 DEF RunInv
    <2>3. CASE j = m + 1
      BY <1>1, <1>3, <2>1, <2>3 DEF RunInv
    <2> QED BY <1>3, <1>4, <2>2, <2>3
  <1>9. ASSUME NEW t \in Int
        PROVE  (\E j \in DOMAIN a : Holds(a[j], t)) <=> (\E l \in 1..k : NotLive(rows[l]) /\ Holds(rows[l], t))
    <2>1. (\E j \in DOMAIN a : Holds(a[j], t)) <=> (\E j \in DOMAIN runs : Holds(runs[j], t)) \/ Holds(row, t)
      <3>1. \A j \in 1..m : Holds(a[j], t) <=> Holds(runs[j], t)
        BY <1>3
      <3> QED BY <1>3, <1>4, <3>1, Zenon
    <2>2. (\E j \in DOMAIN runs : Holds(runs[j], t)) <=>
          (\E l \in 1..(k - 1) : NotLive(rows[l]) /\ Holds(rows[l], t))
      BY DEF RunInv
    <2>3. \A l : l \in 1..k <=> l \in 1..(k - 1) \/ l = k
      BY <1>1
    <2> QED BY <2>1, <2>2, <2>3, Zenon
  <1>10. ASSUME NEW j \in DOMAIN a
         PROVE  /\ NotLive(a[j]) /\ Row(a[j])
                /\ \E l \in 1..k : Backs(rows[l], a[j])
                /\ \A l \in DOMAIN rows : k < l => a[j].t1 <= rows[l].t0
    <2>1. CASE j \in 1..m
      BY <1>7, <2>1
    <2>2. CASE j = m + 1
      BY <1>1, <1>2, <1>3, <1>5, <1>6, <2>2
    <2> QED BY <1>3, <1>4, <2>1, <2>2
  <1>11. RunInv(a, k, rows)
    BY <1>8, <1>9, <1>10 DEF RunInv
  <1> QED BY <1>11 DEF a

\* The runs of a source are the stretches of its rows that are not LIVE: they
\* are silent where the rows are, and each says what some row under it says.
LEMMA RunsAre ==
    ASSUME NEW rows, Timeline(rows)
    PROVE  /\ Timeline(Runs(rows))
           /\ \A t \in Int : Silence(Runs(rows), t) <=> Silence(rows, t)
           /\ \A j \in DOMAIN Runs(rows) : \E m \in DOMAIN rows : Backs(rows[m], Runs(rows)[j])
  <1> DEFINE runs == Runs(rows)
             n == Len(rows)
  <1>1. n \in Nat /\ DOMAIN rows = 1..n
    BY DEF Timeline
  <1>2. PICK v : Running(v, rows) /\ runs = v[n]
    BY RunSteps
  <1> HIDE DEF runs, n
  <1> DEFINE U == {k \in Nat : k <= n => RunInv(v[k], k, rows)}
  <1>3. 0 \in U
    <2>1. v[0] = <<>> /\ DOMAIN v[0] = {} /\ 1..0 = {}
      BY <1>2 DEF Running
    <2> QED BY <2>1 DEF RunInv
  <1>4. ASSUME NEW k \in 1..n, k - 1 \in U PROVE k \in U
    <2> DEFINE r == v[k - 1]
    <2>1. RunInv(r, k - 1, rows) /\ r \in Seq(RunRecords(rows))
      BY <1>1, <1>2, <1>4 DEF Running, n
    <2>2. v[k] = RunStep(r, rows[k])
      BY <1>2 DEF Running, n
    <2> HIDE DEF r
    <2>3. r # <<>> => Last(r) = r[Len(r)]
      BY DEF Last
    <2>4. RunInv(RunStep(r, rows[k]), k, rows)
      <3>1. CASE ~NotLive(rows[k])
        BY <2>1, <3>1, RunInvSkip DEF RunStep, n
      <3>2. CASE NotLive(rows[k]) /\ r # <<>> /\ Last(r).t1 = rows[k].t0
                 /\ Last(r).verdict = rows[k].verdict /\ Last(r).reason = rows[k].reason
        <4>1. RunStep(r, rows[k]) = Joined(r, rows[k])
          BY <3>2, Zenon DEF RunStep, Merged, Joined
        <4>2. k \in 1..Len(rows)
          BY DEF n
        <4> QED BY <2>1, <2>3, <3>2, <4>1, <4>2, RunInvJoin
      <3>3. CASE NotLive(rows[k]) /\ ~(r # <<>> /\ Last(r).t1 = rows[k].t0
                 /\ Last(r).verdict = rows[k].verdict /\ Last(r).reason = rows[k].reason)
        <4>1. RunStep(r, rows[k]) = Append(r, rows[k])
          BY <3>3, Zenon DEF RunStep, Merged
        <4>2. k \in 1..Len(rows)
          BY DEF n
        <4> QED BY <2>1, <3>3, <4>1, <4>2, RunInvAppend
      <3> QED BY <3>1, <3>2, <3>3
    <2> QED BY <2>2, <2>4
  <1> HIDE DEF U
  <1>5. n \in U
    BY <1>1, <1>3, <1>4, BoundedInduction
  <1>6. RunInv(runs, n, rows) /\ runs \in Seq(RunRecords(rows))
    BY <1>1, <1>2, <1>5 DEF U, Running, n
  <1>7. Timeline(runs)
    <2>1. runs \in Seq(Range(runs))
      BY <1>6 DEF Range
    <2> QED BY <1>6, <2>1 DEF Timeline, RunInv
  <1>8. \A t \in Int : Silence(runs, t) <=> Silence(rows, t)
    <2> SUFFICES ASSUME NEW t \in Int PROVE Silence(runs, t) <=> Silence(rows, t)
      OBVIOUS
    <2>1. \A j \in DOMAIN runs : NotLive(runs[j])
      BY <1>6 DEF RunInv
    <2>2. (\E j \in DOMAIN runs : Holds(runs[j], t)) <=> (\E m \in 1..n : NotLive(rows[m]) /\ Holds(rows[m], t))
      BY <1>6 DEF RunInv
    <2> QED BY <1>1, <2>1, <2>2 DEF Silence
  <1>9. \A j \in DOMAIN runs : \E m \in DOMAIN rows : Backs(rows[m], runs[j])
    BY <1>1, <1>6 DEF RunInv
  <1> QED BY <1>7, <1>8, <1>9 DEF runs

\* A window is covered exactly when it is silent from end to end.
LEMMA CoverIs ==
    ASSUME NEW rows, Timeline(rows), NEW t0 \in Int, NEW t1 \in Int
    PROVE  IsCovered(rows, t0, t1) <=> t0 < t1 /\ \A t \in Int : (t0 <= t /\ t < t1) => Silence(rows, t)
  <1> DEFINE runs == Runs(rows)
  <1>1. Timeline(runs) /\ \A t \in Int : Silence(runs, t) <=> Silence(rows, t)
    BY RunsAre
  <1> HIDE DEF runs
  <1>2. CASE t0 < t1
    <2>1. /\ Scan(runs, t0, t1).cursor >= t1 <=> \A t \in Int : (t0 <= t /\ t < t1) => Silence(runs, t)
          /\ Covered(t0, t1, Scan(runs, t0, t1).found) <=> Scan(runs, t0, t1).cursor >= t1
      BY <1>1, <1>2, ScanExact
    <2>2. IsCovered(rows, t0, t1) <=> Covered(t0, t1, Scan(runs, t0, t1).found)
      BY DEF IsCovered, CoveringRuns, runs
    <2> QED BY <1>1, <1>2, <2>1, <2>2
  <1>3. CASE ~(t0 < t1)
    BY <1>3 DEF IsCovered, Covered
  <1> QED BY <1>2, <1>3

\* The runs cited for a window: each says what some row under it says and is
\* silent all along, and together they leave nothing of a covered window out.
LEMMA CitedRuns ==
    ASSUME NEW rows, Timeline(rows), NEW t0 \in Int, NEW t1 \in Int, t0 < t1
    PROVE  /\ \A run \in Range(CoveringRuns(rows, t0, t1)) :
                  /\ Row(run) /\ NotLive(run)
                  /\ \E m \in DOMAIN rows : Backs(rows[m], run)
                  /\ \A t \in Int : Holds(run, t) => Silence(rows, t)
           /\ IsCovered(rows, t0, t1) => \A t \in Int : (t0 <= t /\ t < t1) =>
                  \E run \in Range(CoveringRuns(rows, t0, t1)) : Holds(run, t)
  <1> DEFINE runs == Runs(rows)
             acc == Scan(runs, t0, t1)
             found == CoveringRuns(rows, t0, t1)
  <1>1. /\ Timeline(runs) /\ \A t \in Int : Silence(runs, t) <=> Silence(rows, t)
        /\ \A j \in DOMAIN runs : \E m \in DOMAIN rows : Backs(rows[m], runs[j])
    BY RunsAre
  <1>2. found = acc.found
    BY DEF CoveringRuns
  <1> HIDE DEF runs
  <1>3. /\ acc \in ScanStates(runs)
        /\ Covered(t0, t1, acc.found) <=> acc.cursor >= t1
        /\ \A j \in DOMAIN acc.found : NotLive(acc.found[j])
        /\ \A t \in Int : (t0 <= t /\ t < acc.cursor) => \E j \in DOMAIN acc.found : Holds(acc.found[j], t)
    BY <1>1, ScanExact
  <1>4. IsCovered(rows, t0, t1) <=> Covered(t0, t1, acc.found)
    BY DEF IsCovered, CoveringRuns, runs
  <1> HIDE DEF acc, found
  <1>5. found \in Seq(Range(runs)) /\ acc.cursor \in Int
    BY <1>2, <1>3 DEF ScanStates
  <1>6. ASSUME NEW run \in Range(found)
        PROVE  /\ Row(run) /\ NotLive(run)
               /\ \E m \in DOMAIN rows : Backs(rows[m], run)
               /\ \A t \in Int : Holds(run, t) => Silence(rows, t)
    <2>1. PICK j \in DOMAIN found : run = found[j]
      BY <1>6 DEF Range
    <2>2. NotLive(run) /\ run \in Range(runs)
      BY <1>2, <1>3, <1>5, <2>1
    <2>3. PICK k \in DOMAIN runs : run = runs[k]
      BY <2>2 DEF Range
    <2>4. Row(run)
      BY <1>1, <2>3 DEF Timeline
    <2>5. \A t \in Int : Holds(run, t) => Silence(rows, t)
      BY <1>1, <2>2, <2>3 DEF Silence
    <2> QED BY <1>1, <2>2, <2>3, <2>4, <2>5
  <1>7. ASSUME IsCovered(rows, t0, t1), NEW t \in Int, t0 <= t, t < t1
        PROVE  \E run \in Range(found) : Holds(run, t)
    <2>1. t < acc.cursor
      BY <1>3, <1>4, <1>5, <1>7
    <2>2. PICK j \in DOMAIN found : Holds(found[j], t)
      BY <1>2, <1>3, <1>7, <2>1
    <2> QED BY <2>2 DEF Range
  <1> QED BY <1>6, <1>7 DEF found

-----------------------------------------------------------------------------
(* The joint windows. *)

\* The point before an instant.
LEMMA PointBelow ==
    ASSUME NEW P \in SUBSET Int, NEW t \in Int, NEW q \in P, q <= t
    PROVE  \E p \in P : p <= t /\ \A x \in P : x <= t => x <= p
  <1> DEFINE T == {m \in Nat : \E x \in P : x <= t /\ m = t - x}
  <1>1. T \in SUBSET Nat /\ T # {}
    <2>1. t - q \in T
      OBVIOUS
    <2> QED BY <2>1
  <1>2. PICK m \in T : \A k \in T : m <= k
    BY <1>1, LeastNat
  <1>3. PICK p \in P : p <= t /\ m = t - p
    BY <1>2
  <1>4. ASSUME NEW x \in P, x <= t PROVE x <= p
    <2>1. t - x \in T
      BY <1>4
    <2>2. m <= t - x
      BY <1>2, <2>1
    <2> QED BY <1>3, <2>2
  <1> QED BY <1>3, <1>4

\* The point after an instant.
LEMMA PointAbove ==
    ASSUME NEW P \in SUBSET Int, NEW t \in Int, NEW q \in P, t < q
    PROVE  \E p \in P : t < p /\ \A x \in P : t < x => p <= x
  <1> DEFINE T == {m \in Nat : \E x \in P : t < x /\ m = x - t}
  <1>1. T \in SUBSET Nat /\ T # {}
    <2>1. q - t \in T
      OBVIOUS
    <2> QED BY <2>1
  <1>2. PICK m \in T : \A k \in T : m <= k
    BY <1>1, LeastNat
  <1>3. PICK p \in P : t < p /\ m = p - t
    BY <1>2
  <1>4. ASSUME NEW x \in P, t < x PROVE p <= x
    <2>1. x - t \in T
      BY <1>4
    <2>2. m <= x - t
      BY <1>2, <2>1
    <2> QED BY <1>3, <2>2
  <1> QED BY <1>3, <1>4

\* The boundaries are integers.
LEMMA PointsAreInts ==
    ASSUME NEW d \in Documents, NEW sources \in SUBSET Source
    PROVE  Points(d, sources) \in SUBSET Int
  <1>1. ASSUME NEW s \in sources, NEW k \in DOMAIN d[s] PROVE d[s][k].t0 \in Int /\ d[s][k].t1 \in Int
    <2>1. Row(d[s][k])
      BY DocumentTimeline DEF Timeline
    <2> QED BY <2>1 DEF Row
  <1> QED BY <1>1 DEF Points

\* Nobody listened at t.
BlindAt(d, sources, t) == \A s \in sources : Silence(d[s], t)

\* Between two neighbouring boundaries nothing changes, so one instant speaks
\* for the window.
LEMMA ElementaryIsUniform ==
    ASSUME NEW d \in Documents, NEW sources \in SUBSET Source, NEW w \in Elementary(Points(d, sources)),
           NEW t \in Int, w[1] <= t, t < w[2]
    PROVE  (\A s \in sources : IsCovered(d[s], w[1], w[2])) <=> BlindAt(d, sources, t)
  <1> DEFINE P == Points(d, sources)
             a == w[1]
             b == w[2]
  <1>1. a \in P /\ b \in P /\ a < b /\ \A p \in P : p <= a \/ b <= p
    BY DEF Elementary
  <1>2. \A s \in sources : Timeline(d[s])
    BY DocumentTimeline
  <1>3. ASSUME NEW s \in sources, NEW k \in DOMAIN d[s]
        PROVE  d[s][k].t0 \in P /\ d[s][k].t1 \in P /\ d[s][k].t0 \in Int /\ d[s][k].t1 \in Int
    <2>1. Row(d[s][k])
      BY <1>2 DEF Timeline
    <2> QED BY <2>1 DEF Points, Row
  <1>4. a \in Int /\ b \in Int
    <2>1. \A p \in P : p \in Int
      BY <1>3 DEF Points
    <2> QED BY <1>1, <2>1
  <1> HIDE DEF P, a, b
  <1>5. ASSUME NEW s \in sources, Silence(d[s], t) PROVE IsCovered(d[s], a, b)
    <2>1. PICK k \in DOMAIN d[s] : NotLive(d[s][k]) /\ Holds(d[s][k], t)
      BY <1>5 DEF Silence
    <2> DEFINE row == d[s][k]
    <2>2. row.t0 \in P /\ row.t1 \in P /\ row.t0 \in Int /\ row.t1 \in Int
      BY <1>3
    <2>3. row.t0 <= t /\ t < row.t1
      BY <2>1 DEF Holds
    <2> HIDE DEF row
    <2>4. a <= t /\ t < b
      BY DEF a, b
    <2>5. row.t0 <= a /\ b <= row.t1
      BY <1>1, <1>4, <2>2, <2>3, <2>4
    <2>6. \A x \in Int : (a <= x /\ x < b) => Holds(row, x)
      BY <1>4, <2>2, <2>5 DEF Holds
    <2>7. \A x \in Int : (a <= x /\ x < b) => Silence(d[s], x)
      BY <2>1, <2>6 DEF Silence, row
    <2> QED BY <1>1, <1>2, <1>4, <2>7, CoverIs
  <1>6. ASSUME NEW s \in sources, IsCovered(d[s], a, b) PROVE Silence(d[s], t)
    <2>1. \A x \in Int : (a <= x /\ x < b) => Silence(d[s], x)
      BY <1>2, <1>4, <1>6, CoverIs
    <2> QED BY <2>1 DEF a, b
  <1> QED BY <1>5, <1>6 DEF BlindAt, a, b

\* An instant between two boundaries is between two neighbouring ones.
LEMMA BetweenPoints ==
    ASSUME NEW P \in SUBSET Int, NEW t \in Int, NEW q \in P, NEW r \in P, q <= t, t < r
    PROVE  \E w \in Elementary(P) : w[1] <= t /\ t < w[2] /\ q <= w[1] /\ w[2] <= r
  <1>1. PICK a, b : /\ a \in P /\ a <= t /\ \A x \in P : x <= t => x <= a
                    /\ b \in P /\ t < b /\ \A x \in P : t < x => b <= x
    <2>1. PICK a \in P : a <= t /\ \A x \in P : x <= t => x <= a
      BY PointBelow
    <2>2. PICK b \in P : t < b /\ \A x \in P : t < x => b <= x
      BY PointAbove
    <2> QED BY <2>1, <2>2
  <1>2. a \in Int /\ b \in Int
    BY <1>1
  <1>3. a < b /\ q <= a /\ b <= r
    BY <1>1, <1>2
  <1>4. \A p \in P : p <= a \/ b <= p
    BY <1>1
  <1>5. <<a, b>> \in Elementary(P)
    BY <1>1, <1>3, <1>4 DEF Elementary
  <1> DEFINE w == <<a, b>>
  <1>6. w[1] = a /\ w[2] = b
    OBVIOUS
  <1> HIDE DEF w
  <1>7. w \in Elementary(P) /\ w[1] <= t /\ t < w[2] /\ q <= w[1] /\ w[2] <= r
    BY <1>1, <1>3, <1>5, <1>6 DEF w
  <1> QED BY <1>7

\* Where nobody listened, some neighbouring boundaries enclose the instant.
LEMMA BlindIsEnclosed ==
    ASSUME NEW d \in Documents, NEW sources \in SUBSET Source, sources # {},
           NEW t \in Int, BlindAt(d, sources, t)
    PROVE  \E w \in Elementary(Points(d, sources)) : w[1] <= t /\ t < w[2]
  <1> DEFINE P == Points(d, sources)
  <1>1. P \in SUBSET Int
    BY PointsAreInts
  <1>2. PICK s \in sources : Silence(d[s], t)
    BY DEF BlindAt
  <1>3. PICK k \in DOMAIN d[s] : Holds(d[s][k], t)
    BY <1>2 DEF Silence
  <1>4. d[s][k].t0 \in P /\ d[s][k].t1 \in P
    BY DEF Points
  <1> HIDE DEF P
  <1>5. \E w \in Elementary(P) : w[1] <= t /\ t < w[2]
    <2>1. d[s][k].t0 <= t /\ t < d[s][k].t1
      BY <1>3 DEF Holds
    <2> QED BY <1>1, <1>4, <2>1, BetweenPoints
  <1> QED BY <1>5 DEF P

\* All of a..b is blind, and neither neighbour is.
Maximal(d, sources, a, b) ==
    /\ a \in Int /\ b \in Int /\ a < b
    /\ \A t \in Int : (a <= t /\ t < b) => BlindAt(d, sources, t)
    /\ ~BlindAt(d, sources, a - 1) /\ ~BlindAt(d, sources, b)

\* What joint_blind_windows keeps of two boundaries.
Window(d, sources, a, b) ==
    /\ a \in Points(d, sources) /\ b \in Points(d, sources) /\ a < b
    /\ \A w \in Elementary(Points(d, sources)) :
           (a <= w[1] /\ w[2] <= b) => \A s \in sources : IsCovered(d[s], w[1], w[2])
    /\ \A w \in Elementary(Points(d, sources)) :
           (w[2] = a \/ w[1] = b) => ~\A s \in sources : IsCovered(d[s], w[1], w[2])

\* The ends of an elementary window are boundaries.
LEMMA ElementaryEnds ==
    ASSUME NEW d \in Documents, NEW sources \in SUBSET Source, NEW w \in Elementary(Points(d, sources))
    PROVE  /\ w[1] \in Points(d, sources) /\ w[2] \in Points(d, sources)
           /\ w[1] \in Int /\ w[2] \in Int /\ w[1] < w[2]
           /\ \A p \in Points(d, sources) : p \in Int /\ (p <= w[1] \/ w[2] <= p)
  <1>1. Points(d, sources) \in SUBSET Int
    BY PointsAreInts
  <1> QED BY <1>1 DEF Elementary

\* A window is a maximal blind stretch.
LEMMA WindowIsMaximal ==
    ASSUME NEW d \in Documents, NEW sources \in SUBSET Source, NEW a, NEW b, Window(d, sources, a, b)
    PROVE  Maximal(d, sources, a, b) /\ sources # {}
  <1> DEFINE P == Points(d, sources)
  <1>1. P \in SUBSET Int
    BY PointsAreInts
  <1>2. a \in P /\ b \in P /\ a < b /\ sources # {}
    BY DEF Window, Points
  <1>3. a \in Int /\ b \in Int
    BY <1>1, <1>2
  <1> HIDE DEF P
  <1>4. ASSUME NEW t \in Int, a <= t, t < b PROVE BlindAt(d, sources, t)
    <2>1. PICK w \in Elementary(P) : w[1] <= t /\ t < w[2] /\ a <= w[1] /\ w[2] <= b
      BY <1>1, <1>2, <1>4, BetweenPoints
    <2>2. \A s \in sources : IsCovered(d[s], w[1], w[2])
      BY <2>1 DEF Window, P
    <2> QED BY <2>1, <2>2, ElementaryIsUniform DEF P
  <1>5. ~BlindAt(d, sources, a - 1)
    <2> SUFFICES ASSUME BlindAt(d, sources, a - 1) PROVE FALSE
      OBVIOUS
    <2>1. PICK w \in Elementary(P) : w[1] <= a - 1 /\ a - 1 < w[2]
      BY <1>2, <1>3, BlindIsEnclosed DEF P
    <2>2. w[1] \in Int /\ w[2] \in Int /\ (a <= w[1] \/ w[2] <= a)
      BY <1>2, ElementaryEnds DEF P
    <2>3. w[2] = a
      BY <1>3, <2>1, <2>2
    <2>4. ~\A s \in sources : IsCovered(d[s], w[1], w[2])
      BY <2>3 DEF Window, P
    <2> QED BY <1>3, <2>1, <2>4, ElementaryIsUniform DEF P
  <1>6. ~BlindAt(d, sources, b)
    <2> SUFFICES ASSUME BlindAt(d, sources, b) PROVE FALSE
      OBVIOUS
    <2>1. PICK w \in Elementary(P) : w[1] <= b /\ b < w[2]
      BY <1>2, <1>3, BlindIsEnclosed DEF P
    <2>2. w[1] \in Int /\ w[2] \in Int /\ (b <= w[1] \/ w[2] <= b)
      BY <1>2, ElementaryEnds DEF P
    <2>3. w[1] = b
      BY <1>3, <2>1, <2>2
    <2>4. ~\A s \in sources : IsCovered(d[s], w[1], w[2])
      BY <2>3 DEF Window, P
    <2> QED BY <1>3, <2>1, <2>4, ElementaryIsUniform DEF P
  <1> QED BY <1>2, <1>3, <1>4, <1>5, <1>6 DEF Maximal

\* A maximal blind stretch is a window.
LEMMA MaximalIsWindow ==
    ASSUME NEW d \in Documents, NEW sources \in SUBSET Source, sources # {},
           NEW a, NEW b, Maximal(d, sources, a, b)
    PROVE  Window(d, sources, a, b)
  <1> DEFINE P == Points(d, sources)
  <1>1. a \in Int /\ b \in Int /\ a < b /\ a - 1 \in Int /\ b - 1 \in Int
    BY DEF Maximal
  <1>2. \A w \in Elementary(P) : w[1] \in P /\ w[2] \in P /\ w[1] \in Int /\ w[2] \in Int /\ w[1] < w[2]
    BY ElementaryEnds
  <1> DEFINE Blind(w) == \A s \in sources : IsCovered(d[s], w[1], w[2])
  <1>3. ASSUME NEW w \in Elementary(P), NEW t \in Int, w[1] <= t, t < w[2]
        PROVE  Blind(w) <=> BlindAt(d, sources, t)
    BY <1>3, ElementaryIsUniform
  <1> HIDE DEF Blind
  <1>4. a \in P
    <2>1. BlindAt(d, sources, a)
      BY <1>1 DEF Maximal
    <2>2. PICK w \in Elementary(P) : w[1] <= a /\ a < w[2]
      BY <1>1, <2>1, BlindIsEnclosed
    <2>3. Blind(w)
      BY <1>1, <1>3, <2>1, <2>2
    <2>4. ~(w[1] <= a - 1)
      <3> SUFFICES ASSUME w[1] <= a - 1 PROVE FALSE
        OBVIOUS
      <3>1. a - 1 < w[2]
        BY <1>1, <1>2, <2>2
      <3>2. BlindAt(d, sources, a - 1)
        BY <1>1, <1>3, <2>3, <3>1
      <3> QED BY <3>2 DEF Maximal
    <2>5. w[1] = a
      BY <1>1, <1>2, <2>2, <2>4
    <2> QED BY <1>2, <2>5
  <1>5. b \in P
    <2>1. BlindAt(d, sources, b - 1)
      BY <1>1 DEF Maximal
    <2>2. PICK w \in Elementary(P) : w[1] <= b - 1 /\ b - 1 < w[2]
      BY <1>1, <2>1, BlindIsEnclosed
    <2>3. Blind(w)
      BY <1>1, <1>3, <2>1, <2>2
    <2>4. ~(b < w[2])
      <3> SUFFICES ASSUME b < w[2] PROVE FALSE
        OBVIOUS
      <3>1. w[1] <= b
        BY <1>1, <1>2, <2>2
      <3>2. BlindAt(d, sources, b)
        BY <1>1, <1>3, <2>3, <3>1
      <3> QED BY <3>2 DEF Maximal
    <2>5. w[2] = b
      BY <1>1, <1>2, <2>2, <2>4
    <2> QED BY <1>2, <2>5
  <1>6. ASSUME NEW w \in Elementary(P), a <= w[1], w[2] <= b PROVE Blind(w)
    <2>1. w[1] \in Int /\ w[2] \in Int /\ w[1] < w[2]
      BY <1>2
    <2>2. w[1] < b /\ w[1] <= w[1]
      BY <1>1, <1>6, <2>1
    <2>3. BlindAt(d, sources, w[1])
      BY <1>6, <2>1, <2>2 DEF Maximal
    <2> QED BY <1>3, <2>1, <2>2, <2>3
  <1>7. ASSUME NEW w \in Elementary(P), w[2] = a \/ w[1] = b PROVE ~Blind(w)
    <2> SUFFICES ASSUME Blind(w) PROVE FALSE
      OBVIOUS
    <2>1. w[1] \in Int /\ w[2] \in Int /\ w[1] < w[2]
      BY <1>2
    <2>2. CASE w[2] = a
      <3>1. w[1] <= a - 1 /\ a - 1 < w[2]
        BY <1>1, <2>1, <2>2
      <3>2. BlindAt(d, sources, a - 1)
        BY <1>1, <1>3, <3>1
      <3> QED BY <3>2 DEF Maximal
    <2>3. CASE w[1] = b
      <3>1. w[1] <= b /\ b < w[2]
        BY <1>1, <2>1, <2>3
      <3>2. BlindAt(d, sources, b)
        BY <1>1, <1>3, <3>1
      <3> QED BY <3>2 DEF Maximal
    <2> QED BY <1>7, <2>2, <2>3
  <1> QED BY <1>1, <1>4, <1>5, <1>6, <1>7 DEF Window, Blind

\* joint_blind_windows returns exactly the maximal stretches in which nobody
\* listened.
LEMMA JointWindowsAre ==
    ASSUME NEW d \in Documents, NEW sources \in SUBSET Source
    PROVE  /\ \A w \in JointBlindWindows(d, sources) :
                  w = [t0 |-> w.t0, t1 |-> w.t1] /\ Maximal(d, sources, w.t0, w.t1) /\ sources # {}
           /\ \A a, b : (Maximal(d, sources, a, b) /\ sources # {}) =>
                  [t0 |-> a, t1 |-> b] \in JointBlindWindows(d, sources)
  <1>1. JointBlindWindows(d, sources) =
            {[t0 |-> ab[1], t1 |-> ab[2]] :
                ab \in {ab \in Points(d, sources) \X Points(d, sources) : Window(d, sources, ab[1], ab[2])}}
    BY DEF JointBlindWindows, Window
  <1>2. ASSUME NEW w \in JointBlindWindows(d, sources)
        PROVE  w = [t0 |-> w.t0, t1 |-> w.t1] /\ Maximal(d, sources, w.t0, w.t1) /\ sources # {}
    <2>1. PICK a, b : w = [t0 |-> a, t1 |-> b] /\ Window(d, sources, a, b)
      BY <1>1, <1>2
    <2>2. Maximal(d, sources, a, b) /\ sources # {}
      BY <2>1, WindowIsMaximal
    <2>3. w.t0 = a /\ w.t1 = b
      BY <2>1
    <2> QED BY <2>1, <2>2, <2>3
  <1>3. ASSUME NEW a, NEW b, Maximal(d, sources, a, b), sources # {}
        PROVE  [t0 |-> a, t1 |-> b] \in JointBlindWindows(d, sources)
    <2>1. Window(d, sources, a, b)
      BY <1>3, MaximalIsWindow
    <2>2. <<a, b>> \in Points(d, sources) \X Points(d, sources)
      BY <2>1 DEF Window
    <2> QED BY <1>1, <2>1, <2>2
  <1> QED BY <1>2, <1>3

-----------------------------------------------------------------------------
(* The stage. *)

LicencesOf(d, sources, t0, t1) ==
    UNION {{Licence(s, r) : r \in Range(CoveringRuns(d[s], t0, t1))} : s \in sources}

\* The step of a binding, at the first tick of its window.
StepOf(i, r, t0, b) ==
    /\ i.head = FactAt(r.head, b, t0 \div Tick)
    /\ i.body = {FactAt(p, b, t0 \div Tick) : p \in r.body}

\* An instance of a rule of the tables over a window that is silent, with the
\* licences for it; a step is that of a binding below the ceiling.
Earned(i, d) ==
    /\ i.rule.sources \in SUBSET Source
    /\ i.t0 \in Int /\ i.t1 \in Int
    /\ \A s \in i.rule.sources : IsCovered(d[s], i.t0, i.t1)
    /\ i.licences = LicencesOf(d, i.rule.sources, i.t0, i.t1)
    /\ ~i.ghost => Usable(i.rule) /\ \E b \in SilentBindings(i.rule) : StepOf(i, i.rule, i.t0, b)

\* The window has the step of the binding.
Made(r, w, b, S) ==
    Usable(r) =>
        \E i \in S : i.rule = r /\ ~i.ghost /\ i.t0 = w.t0 /\ i.t1 = w.t1 /\ StepOf(i, r, w.t0, b)

\* The obligation is met, or somebody listened.
Answered(k, f, d, F, B) ==
    LET r == ObligationRules[k]
        w == Lookback(r, f)
    IN Binds(r) =>
          \/ Obligated(r, f) \in F
          \/ /\ [rule |-> k, trigger |-> f] \in B
             /\ ~\A s \in r.sources : IsCovered(d[s], w.t0, w.t1)

Placed ==
    /\ doc \in Documents /\ capped \in BOOLEAN /\ rule \in Nat \ {0}
    /\ phase \in {"detect", "oblige", "done", "accepted", "rejected"}
    /\ \A f \in facts : f[3] \in Int
    /\ \A i \in silent : Earned(i, doc)
    /\ (phase = "detect" /\ rule <= Len(DetectRules)) =>
           /\ pending \subseteq JointBlindWindows(doc, DetectRules[rule].sources)
           /\ todo # {} => window \in JointBlindWindows(doc, DetectRules[rule].sources)
           /\ todo \subseteq SilentBindings(DetectRules[rule])
    /\ phase = "oblige" => pending \subseteq facts

\* The bindings dealt with have their steps.
Detected ==
    \A k \in DOMAIN DetectRules : \A w \in JointBlindWindows(doc, DetectRules[k].sources) :
        \A b \in SilentBindings(DetectRules[k]) :
            (phase # "detect" \/ k < rule \/ (k = rule /\ w \notin pending /\ ~(w = window /\ b \in todo))) =>
                Made(DetectRules[k], w, b, silent)

\* The triggers dealt with are answered.
Settled ==
    phase # "detect" =>
        \A k \in DOMAIN ObligationRules : \A f \in (Observable \cap facts) \ Obliged :
            (/\ Matches(ObligationRules[k].trigger, f)
             /\ phase # "oblige" \/ k < rule \/ (k = rule /\ f \notin pending)) => Answered(k, f, doc, facts, spots)

LicencesInd == Placed /\ (~capped => Detected /\ Settled)

\* The instances of a window and a binding.
LEMMA SilentAtAre ==
    ASSUME NEW r, NEW w, NEW b
    PROVE  /\ \A i \in SilentAt(r, w, b) :
                  /\ i.rule = r /\ i.t0 = w.t0 /\ i.t1 = w.t1 /\ i.head[3] = w.t0 \div Tick
                  /\ i.licences = LicencesOf(doc, r.sources, w.t0, w.t1)
                  /\ ~i.ghost => Usable(r) /\ StepOf(i, r, w.t0, b)
           /\ Usable(r) => \E i \in SilentAt(r, w, b) : ~i.ghost
  <1> DEFINE tick == w.t0 \div Tick
             lic == LicencesFor(r.sources, w.t0, w.t1)
             head == FactAt(r.head, b, tick)
             body == {FactAt(p, b, tick) : p \in r.body}
             inst == [rule |-> r, ghost |-> FALSE, head |-> head, body |-> body,
                      licences |-> lic, t0 |-> w.t0, t1 |-> w.t1]
             Premise(f) == [inst EXCEPT !.ghost = TRUE, !.head = f, !.body = {}]
  <1>1. SilentAt(r, w, b) = IF Usable(r) THEN {inst} \cup {Premise(f) : f \in inst.body \ facts} ELSE {}
    BY Zenon DEF SilentAt
  <1>2. lic = LicencesOf(doc, r.sources, w.t0, w.t1)
    BY DEF LicencesFor, LicencesOf
  <1>5. head[3] = tick /\ \A f \in body : f[3] = tick
    BY DEF FactAt
  <1>6. \A i : (i.head = head /\ i.body = body) => StepOf(i, r, w.t0, b)
    BY Zenon DEF StepOf
  <1> HIDE DEF lic, body, head, tick
  <1>3. /\ inst.rule = r /\ inst.t0 = w.t0 /\ inst.t1 = w.t1 /\ inst.head = head
        /\ inst.licences = lic /\ ~inst.ghost /\ inst.body = body
    OBVIOUS
  <1>4. ASSUME NEW f
        PROVE  /\ Premise(f).rule = r /\ Premise(f).t0 = w.t0 /\ Premise(f).t1 = w.t1 /\ Premise(f).head = f
               /\ Premise(f).licences = lic /\ Premise(f).ghost
    OBVIOUS
  <1> HIDE DEF inst, Premise
  <1>7. ASSUME NEW i \in SilentAt(r, w, b)
        PROVE  /\ i.rule = r /\ i.t0 = w.t0 /\ i.t1 = w.t1 /\ i.head[3] = tick
               /\ i.licences = lic
               /\ ~i.ghost => Usable(r) /\ StepOf(i, r, w.t0, b)
    <2>1. CASE i = inst /\ Usable(r)
      BY <1>3, <1>5, <1>6, <2>1
    <2>2. CASE \E f \in body : i = Premise(f)
      BY <1>4, <1>5, <2>2
    <2> QED BY <1>1, <1>3, <1>7, <2>1, <2>2
  <1>8. Usable(r) => \E i \in SilentAt(r, w, b) : ~i.ghost
    BY <1>1, <1>3
  <1> QED BY <1>2, <1>7, <1>8 DEF tick

\* A rule of the tables.
LEMMA TableRules ==
    /\ Len(DetectRules) \in Nat /\ DOMAIN DetectRules = 1..Len(DetectRules)
    /\ Len(ObligationRules) \in Nat /\ DOMAIN ObligationRules = 1..Len(ObligationRules)
    /\ \A k \in DOMAIN DetectRules : DetectRules[k].sources \in SUBSET Source
    /\ \A k \in DOMAIN ObligationRules :
           ObligationRules[k].sources \in SUBSET Source /\ ObligationRules[k].within \in Nat
  <1>1. /\ DetectRules \in Seq(Range(DetectRules)) /\ ObligationRules \in Seq(Range(ObligationRules))
        /\ \A r \in Range(DetectRules) : r.sources \subseteq Source
        /\ \A r \in Range(ObligationRules) : r.sources \subseteq Source /\ r.within \in Nat
    BY TablesAssumption
  <1> QED BY <1>1 DEF Range

\* A joint window is licensed.
LEMMA WindowIsLicensed ==
    ASSUME NEW d \in Documents, NEW sources \in SUBSET Source, NEW w \in JointBlindWindows(d, sources)
    PROVE  w.t0 \in Int /\ w.t1 \in Int /\ \A s \in sources : IsCovered(d[s], w.t0, w.t1)
  <1>1. Maximal(d, sources, w.t0, w.t1)
    BY JointWindowsAre
  <1>2. ASSUME NEW s \in sources PROVE IsCovered(d[s], w.t0, w.t1)
    <2>1. Timeline(d[s])
      BY DocumentTimeline
    <2> QED BY <1>1, <2>1, CoverIs DEF Maximal, BlindAt
  <1> QED BY <1>1, <1>2 DEF Maximal

\* The lookback is a window in time.
LEMMA LookbackIs ==
    ASSUME NEW k \in DOMAIN ObligationRules, NEW f, f[3] \in Int
    PROVE  /\ Lookback(ObligationRules[k], f).t0 \in Int /\ Lookback(ObligationRules[k], f).t1 \in Int
           /\ f[3] \in Nat => Lookback(ObligationRules[k], f).t0 <= Lookback(ObligationRules[k], f).t1
  <1> DEFINE r == ObligationRules[k]
             x == IF f[3] > r.within THEN f[3] - r.within ELSE 0
  <1>1. r.within \in Nat
    BY TableRules
  <1>2. Tick \in Nat
    BY TickAssumption
  <1>3. Lookback(r, f) = [t0 |-> x * Tick, t1 |-> f[3] * Tick]
    BY DEF Lookback
  <1>4. x \in Int /\ (f[3] \in Nat => x <= f[3] /\ f[3] - x \in Nat)
    BY <1>1
  <1> HIDE DEF x, r
  <1>5. x * Tick \in Int /\ f[3] * Tick \in Int
    BY <1>2, <1>4
  <1>6. ASSUME f[3] \in Nat PROVE x * Tick <= f[3] * Tick
    <2>1. (f[3] - x) * Tick \in Nat
      BY <1>2, <1>4, <1>6
    <2>2. f[3] * Tick = x * Tick + (f[3] - x) * Tick
      BY <1>2, <1>4, <1>6
    <2> QED BY <1>5, <2>1, <2>2
  <1>7. Lookback(r, f).t0 = x * Tick /\ Lookback(r, f).t1 = f[3] * Tick
    BY <1>3
  <1> QED BY <1>5, <1>6, <1>7 DEF r

\* What is made stays made.
LEMMA MadeStays ==
    ASSUME NEW r, NEW w, NEW b, NEW S, NEW T, S \subseteq T, Made(r, w, b, S)
    PROVE  Made(r, w, b, T)
  BY DEF Made

\* What is answered stays answered.
LEMMA AnsweredStays ==
    ASSUME NEW k, NEW f, NEW F, NEW G, NEW B, NEW C, F \subseteq G, B \subseteq C,
           Answered(k, f, doc, F, B)
    PROVE  Answered(k, f, doc, G, C)
  BY DEF Answered

\* What the obligations put in, they still did.
LEMMA ObligedStays ==
    ASSUME silent \subseteq silent'
    PROVE  Obliged \subseteq Obliged'
  BY DEF Obliged

\* The first rule has all of its windows before it.
LEMMA LicencesStart == Init => LicencesInd
  <1> SUFFICES ASSUME Init PROVE LicencesInd
    OBVIOUS
  <1>1. Placed
    <2>1. \A f \in facts : f[3] \in Int
      BY TablesAssumption DEF Init
    <2>2. (phase = "detect" /\ rule <= Len(DetectRules)) =>
              /\ pending \subseteq JointBlindWindows(doc, DetectRules[rule].sources)
              /\ todo # {} => window \in JointBlindWindows(doc, DetectRules[rule].sources)
              /\ todo \subseteq SilentBindings(DetectRules[rule])
      BY DEF Init
    <2>3. doc \in Documents /\ capped = FALSE /\ rule = 1 /\ phase = "detect" /\ silent = {}
      BY Zenon DEF Init
    <2>4. capped \in BOOLEAN
      BY <2>3, Zenon
    <2>5. rule \in Nat \ {0} /\ \A i \in silent : Earned(i, doc)
      BY <2>3
    <2>6. phase # "oblige" /\ phase \in {"detect", "oblige", "done", "accepted", "rejected"}
      BY <2>3
    <2> QED BY <2>1, <2>2, <2>3, <2>4, <2>5, <2>6, Zenon DEF Placed
  <1>2. Detected
    <2> SUFFICES ASSUME NEW k \in DOMAIN DetectRules, NEW w \in JointBlindWindows(doc, DetectRules[k].sources),
                        phase # "detect" \/ k < rule \/ (k = rule /\ w \notin pending)
                 PROVE  FALSE
      BY DEF Detected
    <2>1. k \in 1..Len(DetectRules) /\ DetectRules # <<>>
      BY TableRules
    <2>2. k = rule /\ w \notin pending /\ rule = 1
      BY <2>1 DEF Init
    <2> QED BY <2>1, <2>2 DEF Init
  <1>3. Settled
    BY DEF Init, Settled
  <1> QED BY <1>1, <1>2, <1>3 DEF LicencesInd

\* The next rule has all of its windows before it.
LEMMA NextDetectKeeps ==
    ASSUME LicencesInd, phase = "detect", rule <= Len(DetectRules), doc' = doc, phase' = phase, capped' \in BOOLEAN,
           facts' = facts, silent' = silent, NextDetect, ~capped' => ~capped /\ pending = {} /\ todo = {}
    PROVE  LicencesInd'
  <1>1. rule \in Nat \ {0} /\ rule' = rule + 1
    BY DEF LicencesInd, Placed, NextDetect
  <1>2. /\ (rule' <= Len(DetectRules)) => pending' \subseteq JointBlindWindows(doc, DetectRules[rule'].sources)
        /\ todo' = {}
    BY <1>1, TableRules DEF NextDetect
  <1>3. Placed'
    BY <1>1, <1>2 DEF LicencesInd, Placed
  <1>4. ASSUME ~capped' PROVE Detected'
    <2>1. ~capped /\ pending = {} /\ todo = {}
      BY <1>4
    <2> SUFFICES ASSUME NEW k \in DOMAIN DetectRules, NEW w \in JointBlindWindows(doc, DetectRules[k].sources),
                        NEW b \in SilentBindings(DetectRules[k]),
                        k < rule + 1 \/ (k = rule + 1 /\ w \notin pending')
                 PROVE  Made(DetectRules[k], w, b, silent)
      BY <1>1 DEF Detected
    <2>2. k \in 1..Len(DetectRules) /\ Len(DetectRules) \in Nat
      BY TableRules
    <2>3. CASE k = rule + 1
      <3>1. pending' = JointBlindWindows(doc, DetectRules[k].sources)
        BY <1>1, <2>2, <2>3 DEF NextDetect
      <3> QED BY <1>1, <2>3, <3>1
    <2>4. CASE k < rule + 1
      <3>1. k < rule \/ k = rule
        BY <1>1, <2>2, <2>4
      <3> QED BY <2>1, <3>1 DEF LicencesInd, Detected
    <2> QED BY <2>3, <2>4
  <1>5. Settled'
    BY DEF Settled
  <1> QED BY <1>3, <1>4, <1>5 DEF LicencesInd

\* A window is opened with all of its bindings before it.
LEMMA WindowKeeps == LicencesInd /\ OpenWindow => LicencesInd'
  <1> SUFFICES ASSUME LicencesInd, OpenWindow PROVE LicencesInd'
    OBVIOUS
  <1>1. PICK w \in pending : pending' = pending \ {w} /\ window' = w
    BY DEF OpenWindow
  <1>2. /\ phase = "detect" /\ rule <= Len(DetectRules) /\ todo = {}
        /\ todo' = SilentBindings(DetectRules[rule])
        /\ UNCHANGED <<doc, facts, silent, spots, capped, phase, rule>>
    BY Zenon DEF OpenWindow
  <1>3. pending \subseteq JointBlindWindows(doc, DetectRules[rule].sources)
    BY <1>2 DEF LicencesInd, Placed
  <1>4. Placed'
    BY <1>1, <1>2, <1>3 DEF LicencesInd, Placed
  <1>5. ASSUME ~capped PROVE Detected'
    <2> SUFFICES ASSUME NEW k \in DOMAIN DetectRules, NEW v \in JointBlindWindows(doc, DetectRules[k].sources),
                        NEW b \in SilentBindings(DetectRules[k]),
                        k < rule \/ (k = rule /\ v \notin pending' /\ ~(v = w /\ b \in todo'))
                 PROVE  Made(DetectRules[k], v, b, silent)
      BY <1>1, <1>2 DEF Detected
    <2>1. k < rule \/ (k = rule /\ v \notin pending)
      BY <1>1, <1>2
    <2> QED BY <1>2, <1>5, <2>1 DEF LicencesInd, Detected
  <1>6. Settled'
    BY <1>2 DEF Settled
  <1> QED BY <1>2, <1>4, <1>5, <1>6 DEF LicencesInd

\* The bindings before the ceiling have their steps.
LEMMA DetectKeeps == LicencesInd /\ (AddSilentDetect \/ DetectDone) => LicencesInd'
  <1> SUFFICES ASSUME LicencesInd, AddSilentDetect \/ DetectDone PROVE LicencesInd'
    OBVIOUS
  <1>1. capped \in BOOLEAN /\ doc \in Documents /\ rule \in Nat \ {0}
    BY DEF LicencesInd, Placed
  <1>2. CASE DetectDone
    <2>1. phase = "detect" /\ rule <= Len(DetectRules) /\ doc' = doc /\ phase' = phase /\ capped' = capped
      BY <1>2 DEF DetectDone
    <2>2. facts' = facts /\ silent' = silent /\ NextDetect /\ pending = {} /\ todo = {}
      BY <1>2 DEF DetectDone
    <2> QED BY <1>1, <2>1, <2>2, NextDetectKeeps
  <1>3. ASSUME AddSilentDetect, GiveUp, NextDetect, UNCHANGED <<facts, silent>>
        PROVE  LicencesInd'
    <2>1. phase = "detect" /\ rule <= Len(DetectRules) /\ doc' = doc /\ phase' = phase
      BY <1>3 DEF AddSilentDetect
    <2>2. capped' = TRUE
      BY <1>3 DEF GiveUp
    <2> QED BY <1>3, <2>1, <2>2, NextDetectKeeps
  <1>4. ASSUME AddSilentDetect, NEW b \in todo,
               silent' = silent \cup SilentAt(DetectRules[rule], window, b),
               facts' = facts \cup {i.head : i \in SilentAt(DetectRules[rule], window, b)},
               todo' = todo \ {b}, UNCHANGED <<capped, rule, pending, window>>
        PROVE  LicencesInd'
    <2> DEFINE r == DetectRules[rule]
               w == window
               S == SilentAt(r, w, b)
    <2>1. phase = "detect" /\ rule <= Len(DetectRules) /\ doc' = doc /\ phase' = phase
      BY <1>4 DEF AddSilentDetect
    <2>2. /\ rule \in DOMAIN DetectRules /\ r.sources \in SUBSET Source
          /\ pending \subseteq JointBlindWindows(doc, r.sources)
          /\ w \in JointBlindWindows(doc, r.sources) /\ todo \subseteq SilentBindings(r)
      BY <1>1, <1>4, <2>1, TableRules DEF LicencesInd, Placed
    <2>3. w.t0 \in Int /\ w.t1 \in Int /\ \A s \in r.sources : IsCovered(doc[s], w.t0, w.t1)
      BY <1>1, <2>2, WindowIsLicensed
    <2>4. /\ \A i \in S : /\ i.rule = r /\ i.t0 = w.t0 /\ i.t1 = w.t1 /\ i.head[3] = w.t0 \div Tick
                          /\ i.licences = LicencesOf(doc, r.sources, w.t0, w.t1)
                          /\ ~i.ghost => Usable(r) /\ StepOf(i, r, w.t0, b)
          /\ Usable(r) => \E i \in S : ~i.ghost
      BY SilentAtAre
    <2>5. w.t0 \div Tick \in Int /\ b \in SilentBindings(r)
      BY <1>4, <2>2, <2>3, TickAssumption
    <2> HIDE DEF S, r
    <2>6. \A i \in S : Earned(i, doc) /\ i.head[3] \in Int
      BY <2>2, <2>3, <2>4, <2>5 DEF Earned
    <2>7. silent' = silent \cup S /\ facts' = facts \cup {i.head : i \in S}
      BY <1>4 DEF S, r
    <2>8. Placed'
      <3>1. \A f \in facts' : f[3] \in Int
        BY <2>6, <2>7 DEF LicencesInd, Placed
      <3>2. \A i \in silent' : Earned(i, doc)
        BY <2>6, <2>7 DEF LicencesInd, Placed
      <3>3. /\ pending' \subseteq JointBlindWindows(doc, DetectRules[rule].sources)
            /\ window' \in JointBlindWindows(doc, DetectRules[rule].sources)
            /\ todo' \subseteq SilentBindings(DetectRules[rule])
        BY <1>4, <2>2 DEF r
      <3> QED BY <1>4, <2>1, <3>1, <3>2, <3>3 DEF LicencesInd, Placed
    <2>9. ASSUME ~capped PROVE Detected'
      <3> SUFFICES ASSUME NEW k \in DOMAIN DetectRules, NEW v \in JointBlindWindows(doc, DetectRules[k].sources),
                          NEW c \in SilentBindings(DetectRules[k]),
                          k < rule \/ (k = rule /\ v \notin pending /\ ~(v = w /\ c \in todo'))
                   PROVE  Made(DetectRules[k], v, c, silent')
        BY <1>4, <2>1 DEF Detected
      <3>1. CASE k < rule \/ (k = rule /\ v \notin pending /\ ~(v = w /\ c \in todo))
        <4>1. Made(DetectRules[k], v, c, silent)
          BY <2>9, <3>1 DEF LicencesInd, Detected
        <4> QED BY <2>7, <4>1, MadeStays
      <3>2. CASE k = rule /\ v = w /\ c = b
        <4>1. Made(r, w, b, S)
          BY <2>4 DEF Made
        <4>2. Made(r, w, b, silent')
          BY <2>7, <4>1, MadeStays
        <4> QED BY <3>2, <4>2 DEF r
      <3> QED BY <1>4, <3>1, <3>2
    <2>10. Settled'
      BY <2>1 DEF Settled
    <2> QED BY <1>4, <2>8, <2>9, <2>10 DEF LicencesInd
  <1>5. CASE AddSilentDetect
    <2>1. PICK b \in todo :
              \/ GiveUp /\ NextDetect /\ UNCHANGED <<facts, silent>>
              \/ /\ silent' = silent \cup SilentAt(DetectRules[rule], window, b)
                 /\ facts' = facts \cup {i.head : i \in SilentAt(DetectRules[rule], window, b)}
                 /\ todo' = todo \ {b} /\ UNCHANGED <<capped, rule, pending, window>>
      BY <1>5, Zenon DEF AddSilentDetect
    <2> QED BY <1>3, <1>4, <1>5, <2>1
  <1> QED BY <1>2, <1>5

\* The first obligation has all of its triggers before it.
LEMMA SaturateKeeps == LicencesInd /\ Saturate => LicencesInd'
  <1> SUFFICES ASSUME LicencesInd, Saturate PROVE LicencesInd'
    OBVIOUS
  <1>1. PICK D \in SUBSET Derivable : facts' = facts \cup D
    BY DEF Saturate
  <1>2. /\ phase = "detect" /\ rule > Len(DetectRules) /\ phase' = "oblige" /\ rule' = 1 /\ doc' = doc
        /\ silent' = silent /\ spots' = spots /\ capped' = capped
        /\ pending' = IF ObligationRules = <<>> THEN {} ELSE Triggers(1)
    BY DEF Saturate
  <1>3. Placed'
    <2>1. \A f \in facts' : f[3] \in Int
      BY <1>1, TablesAssumption DEF LicencesInd, Placed
    <2>2. pending' \subseteq facts'
      BY <1>2 DEF Triggers
    <2> QED BY <1>2, <2>1, <2>2 DEF LicencesInd, Placed
  <1>4. ASSUME ~capped PROVE Detected'
    <2> SUFFICES ASSUME NEW k \in DOMAIN DetectRules, NEW w \in JointBlindWindows(doc, DetectRules[k].sources),
                        NEW b \in SilentBindings(DetectRules[k])
                 PROVE  Made(DetectRules[k], w, b, silent)
      BY <1>2 DEF Detected
    <2>1. k < rule
      BY <1>2, TableRules DEF LicencesInd, Placed
    <2> QED BY <1>2, <1>4, <2>1 DEF LicencesInd, Detected
  <1>5. Settled'
    <2> SUFFICES ASSUME NEW k \in DOMAIN ObligationRules, NEW f \in facts', Matches(ObligationRules[k].trigger, f),
                        k < 1 \/ (k = 1 /\ f \notin pending')
                 PROVE  FALSE
      BY <1>2 DEF Settled
    <2>1. k \in 1..Len(ObligationRules) /\ ObligationRules # <<>>
      BY TableRules
    <2>2. k = 1 /\ f \notin Triggers(1)
      BY <1>2, <2>1
    <2> QED BY <2>2 DEF Triggers
  <1> QED BY <1>2, <1>3, <1>4, <1>5 DEF LicencesInd

\* The next obligation has all of its triggers before it.
LEMMA NextObligationKeeps ==
    ASSUME LicencesInd, phase = "oblige", rule <= Len(ObligationRules), doc' = doc, phase' = phase,
           capped' \in BOOLEAN, facts' = facts, silent' = silent, spots' = spots, NextObligation,
           ~capped' => ~capped /\ pending = {}
    PROVE  LicencesInd'
  <1>1. rule \in Nat \ {0} /\ rule' = rule + 1
    BY DEF LicencesInd, Placed, NextObligation
  <1>2. pending' \subseteq facts'
    BY DEF NextObligation, Triggers
  <1>3. Placed'
    BY <1>1, <1>2 DEF LicencesInd, Placed
  <1>4. ASSUME ~capped' PROVE Detected'
    <2> SUFFICES ASSUME NEW k \in DOMAIN DetectRules, NEW w \in JointBlindWindows(doc, DetectRules[k].sources),
                        NEW b \in SilentBindings(DetectRules[k])
                 PROVE  Made(DetectRules[k], w, b, silent)
      BY DEF Detected
    <2> QED BY <1>4 DEF LicencesInd, Detected
  <1>5. ASSUME ~capped' PROVE Settled'
    <2>1. ~capped /\ pending = {} /\ Obliged' = Obliged
      BY <1>5 DEF Obliged
    <2> SUFFICES ASSUME NEW k \in DOMAIN ObligationRules, NEW f \in (Observable \cap facts) \ Obliged,
                        Matches(ObligationRules[k].trigger, f), k < rule + 1 \/ (k = rule + 1 /\ f \notin pending')
                 PROVE  Answered(k, f, doc, facts, spots)
      BY <1>1, <2>1 DEF Settled
    <2>2. k \in 1..Len(ObligationRules) /\ Len(ObligationRules) \in Nat
      BY TableRules
    <2>3. CASE k = rule + 1
      <3>1. pending' = Triggers(k)
        BY <1>1, <2>2, <2>3 DEF NextObligation
      <3> QED BY <1>1, <2>3, <3>1 DEF Triggers
    <2>4. CASE k < rule + 1
      <3>1. k < rule \/ k = rule
        BY <1>1, <2>2, <2>4
      <3> QED BY <2>1, <3>1 DEF LicencesInd, Settled
    <2> QED BY <2>3, <2>4
  <1> QED BY <1>3, <1>4, <1>5 DEF LicencesInd

\* The windows of the rules have their instances when more is added.
LEMMA DetectedStays ==
    ASSUME Detected, phase # "detect", phase' # "detect", doc' = doc, silent \subseteq silent'
    PROVE  Detected'
  <1> SUFFICES ASSUME NEW k \in DOMAIN DetectRules, NEW w \in JointBlindWindows(doc, DetectRules[k].sources),
                      NEW b \in SilentBindings(DetectRules[k])
               PROVE  Made(DetectRules[k], w, b, silent')
    BY DEF Detected
  <1>1. Made(DetectRules[k], w, b, silent)
    BY DEF Detected
  <1> QED BY <1>1, MadeStays

\* A trigger is visited, and the others stay as they were.
LEMMA VisitedKeeps ==
    ASSUME LicencesInd, phase = "oblige", rule <= Len(ObligationRules), NEW f \in pending,
           doc' = doc, phase' = phase, capped' = capped, rule' = rule, pending' = pending \ {f},
           facts \subseteq facts', silent \subseteq silent', spots \subseteq spots',
           \A i \in silent' \ silent : Earned(i, doc),
           \A g \in facts' \ facts : g \in Obliged' /\ g[3] \in Int,
           Answered(rule, f, doc, facts', spots')
    PROVE  LicencesInd'
  <1>1. Placed'
    <2>1. \A g \in facts' : g[3] \in Int
      BY DEF LicencesInd, Placed
    <2>2. \A i \in silent' : Earned(i, doc)
      BY DEF LicencesInd, Placed
    <2>3. pending' \subseteq facts'
      BY DEF LicencesInd, Placed
    <2> QED BY <2>1, <2>2, <2>3 DEF LicencesInd, Placed
  <1>2. ASSUME ~capped PROVE Detected'
    BY <1>2, DetectedStays DEF LicencesInd
  <1>3. ASSUME ~capped PROVE Settled'
    <2>1. Obliged \subseteq Obliged'
      BY ObligedStays
    <2> SUFFICES ASSUME NEW k \in DOMAIN ObligationRules, NEW g \in (Observable \cap facts') \ Obliged',
                        Matches(ObligationRules[k].trigger, g), k < rule \/ (k = rule /\ g \notin pending')
                 PROVE  Answered(k, g, doc, facts', spots')
      BY DEF Settled
    <2>2. g \in (Observable \cap facts) \ Obliged
      BY <2>1
    <2>3. CASE k < rule \/ (k = rule /\ g \notin pending)
      <3>1. Answered(k, g, doc, facts, spots)
        BY <1>3, <2>2, <2>3 DEF LicencesInd, Settled
      <3> QED BY <3>1, AnsweredStays
    <2>4. CASE k = rule /\ g = f
      BY <2>4
    <2> QED BY <2>3, <2>4
  <1> QED BY <1>1, <1>2, <1>3 DEF LicencesInd

\* The triggers visited before the ceiling are answered.
LEMMA ObligeKeeps == LicencesInd /\ (AddObligation \/ ObligationDone) => LicencesInd'
  <1> SUFFICES ASSUME LicencesInd, AddObligation \/ ObligationDone PROVE LicencesInd'
    OBVIOUS
  <1>1. capped \in BOOLEAN /\ doc \in Documents /\ rule \in Nat \ {0}
    BY DEF LicencesInd, Placed
  <1>2. CASE ObligationDone
    <2>1. phase = "oblige" /\ rule <= Len(ObligationRules) /\ doc' = doc /\ phase' = phase /\ capped' = capped
      BY <1>2 DEF ObligationDone
    <2>2. facts' = facts /\ silent' = silent /\ spots' = spots /\ NextObligation /\ pending = {}
      BY <1>2 DEF ObligationDone
    <2> QED BY <1>1, <2>1, <2>2, NextObligationKeeps
  <1>3. CASE AddObligation
    <2> DEFINE r == ObligationRules[rule]
               Due(f) == Obligated(r, f)
               w(f) == Lookback(r, f)
               lic(f) == LicencesFor(r.sources, w(f).t0, w(f).t1)
               inst(f) == [rule |-> r, ghost |-> TRUE, head |-> Due(f), body |-> {f},
                           licences |-> lic(f), t0 |-> w(f).t0, t1 |-> w(f).t1]
    <2>1. phase = "oblige" /\ rule <= Len(ObligationRules) /\ doc' = doc /\ phase' = phase
      BY <1>3 DEF AddObligation
    <2>2. PICK f \in pending :
              \/ /\ Binds(r) => Due(f) \in facts
                 /\ pending' = pending \ {f} /\ rule' = rule
                 /\ UNCHANGED <<facts, silent, minted, spots, capped>>
              \/ /\ ~Licensed(r.sources, w(f).t0, w(f).t1)
                 /\ spots' = spots \cup {[rule |-> rule, trigger |-> f]}
                 /\ pending' = pending \ {f} /\ rule' = rule
                 /\ UNCHANGED <<facts, silent, minted, capped>>
              \/ /\ GiveUp /\ facts' = facts /\ NextObligation /\ UNCHANGED <<silent, spots>>
              \/ /\ Licensed(r.sources, w(f).t0, w(f).t1)
                 /\ silent' = silent \cup {inst(f)}
                 /\ facts' = facts \cup {Due(f)}
                 /\ pending' = pending \ {f} /\ rule' = rule
                 /\ UNCHANGED <<spots, capped>>
      BY <1>3, Zenon DEF AddObligation
    <2>3. rule \in DOMAIN ObligationRules /\ r.sources \in SUBSET Source
      BY <1>1, <2>1, TableRules
    <2>4. f[3] \in Int
      BY <2>1 DEF LicencesInd, Placed
    <2>5. CASE (Binds(r) => Due(f) \in facts) /\ pending' = pending \ {f} /\ rule' = rule /\ UNCHANGED <<facts, silent, minted, spots, capped>>
      <3>1. Answered(rule, f, doc, facts', spots')
        BY <2>5 DEF Answered
      <3> QED BY <2>1, <2>5, <3>1, VisitedKeeps
    <2>6. CASE /\ ~Licensed(r.sources, w(f).t0, w(f).t1)
               /\ spots' = spots \cup {[rule |-> rule, trigger |-> f]}
               /\ pending' = pending \ {f} /\ rule' = rule
               /\ UNCHANGED <<facts, silent, minted, capped>>
      <3>1. Answered(rule, f, doc, facts', spots')
        BY <2>6 DEF Answered, Licensed
      <3> QED BY <2>1, <2>6, <3>1, VisitedKeeps
    <2>7. CASE GiveUp /\ facts' = facts /\ NextObligation /\ UNCHANGED <<silent, spots>>
      <3>1. capped' = TRUE
        BY <2>7 DEF GiveUp
      <3> QED BY <2>1, <2>7, <3>1, NextObligationKeeps
    <2>8. CASE /\ Licensed(r.sources, w(f).t0, w(f).t1)
               /\ silent' = silent \cup {inst(f)}
               /\ facts' = facts \cup {Due(f)}
               /\ pending' = pending \ {f} /\ rule' = rule
               /\ UNCHANGED <<spots, capped>>
      <3> DEFINE i == inst(f)
                 h == Due(f)
      <3>1. w(f).t0 \in Int /\ w(f).t1 \in Int
        BY <2>3, <2>4, LookbackIs
      <3>2. lic(f) = LicencesOf(doc, r.sources, w(f).t0, w(f).t1)
        BY DEF LicencesFor, LicencesOf
      <3>3. \A s \in r.sources : IsCovered(doc[s], w(f).t0, w(f).t1)
        BY <2>8 DEF Licensed
      <3>4. h[3] = f[3]
        BY DEF Obligated, FactAt
      <3>5. Answered(rule, f, doc, facts', spots')
        BY <2>8 DEF Answered
      <3> HIDE DEF r, Due, w, lic
      <3>6. /\ i.rule = r /\ i.ghost /\ i.head = h /\ i.body = {f} /\ i.licences = lic(f)
            /\ i.t0 = w(f).t0 /\ i.t1 = w(f).t1
        OBVIOUS
      <3>7. silent' = silent \cup {i} /\ facts' = facts \cup {h}
        BY <2>8
      <3> HIDE DEF i, h
      <3>8. Earned(i, doc)
        BY <2>3, <3>1, <3>2, <3>3, <3>6 DEF Earned
      <3>9. h \in Obliged'
        <4>1. i \in silent' /\ i.ghost /\ i.body # {} /\ i.head = h
          BY <3>6, <3>7
        <4> QED BY <4>1 DEF Obliged
      <3>10. \A g \in facts' \ facts : g \in Obliged' /\ g[3] \in Int
        BY <2>4, <3>4, <3>7, <3>9
      <3>11. \A j \in silent' \ silent : Earned(j, doc)
        BY <3>7, <3>8
      <3> QED BY <2>1, <2>8, <3>5, <3>7, <3>10, <3>11, VisitedKeeps
    <2> QED BY <2>2, <2>5, <2>6, <2>7, <2>8
  <1> QED BY <1>2, <1>3

\* When the last rule is done, all are.
LEMMA FinishKeeps == LicencesInd /\ Finish => LicencesInd'
  <1> SUFFICES ASSUME LicencesInd, Finish PROVE LicencesInd'
    OBVIOUS
  <1>1. PICK D \in SUBSET Derivable : facts' = facts \cup D
    BY DEF Finish
  <1>2. /\ phase = "oblige" /\ rule > Len(ObligationRules) /\ phase' = "done" /\ rule' = rule /\ doc' = doc
        /\ silent' = silent /\ spots' = spots /\ capped' = capped
    BY DEF Finish
  <1>3. Placed'
    <2>1. \A f \in facts' : f[3] \in Int
      BY <1>1, TablesAssumption DEF LicencesInd, Placed
    <2> QED BY <1>2, <2>1 DEF LicencesInd, Placed
  <1>4. ASSUME ~capped PROVE Detected'
    BY <1>2, <1>4, DetectedStays DEF LicencesInd
  <1>5. ASSUME ~capped PROVE Settled'
    <2>1. Obliged' = Obliged
      BY <1>2 DEF Obliged
    <2> SUFFICES ASSUME NEW k \in DOMAIN ObligationRules, NEW f \in (Observable \cap facts') \ Obliged,
                        Matches(ObligationRules[k].trigger, f)
                 PROVE  Answered(k, f, doc, facts', spots)
      BY <1>2, <2>1 DEF Settled
    <2>2. f \in facts
      BY <1>1, TablesAssumption
    <2>3. k < rule
      BY <1>2, TableRules DEF LicencesInd, Placed
    <2>4. Answered(k, f, doc, facts, spots)
      BY <1>2, <1>5, <2>2, <2>3 DEF LicencesInd, Settled
    <2> QED BY <1>1, <2>4, AnsweredStays
  <1> QED BY <1>2, <1>3, <1>4, <1>5 DEF LicencesInd

\* The checker changes nothing.
LEMMA CheckKeeps == LicencesInd /\ (O10_Licenses \/ UNCHANGED vars) => LicencesInd'
  <1> SUFFICES ASSUME LicencesInd, O10_Licenses \/ UNCHANGED vars PROVE LicencesInd'
    OBVIOUS
  <1>1. CASE UNCHANGED vars
    BY <1>1 DEF vars, LicencesInd, Placed, Detected, Settled, Obliged
  <1>2. CASE O10_Licenses
    <2>1. /\ phase = "done" /\ phase' \in {"rejected", "accepted"}
          /\ UNCHANGED <<doc, facts, silent, spots, capped, rule, pending>>
      BY <1>2 DEF O10_Licenses
    <2>2. Placed'
      BY <2>1 DEF LicencesInd, Placed
    <2>3. Obliged' = Obliged
      BY <2>1 DEF Obliged
    <2>4. ASSUME ~capped PROVE Detected' /\ Settled'
      <3>1. Detected'
        BY <2>1, <2>4, DetectedStays DEF LicencesInd
      <3>2. Settled'
        BY <2>1, <2>3, <2>4 DEF LicencesInd, Settled
      <3> QED BY <3>1, <3>2
    <2> QED BY <2>1, <2>2, <2>4 DEF LicencesInd
  <1> QED BY <1>1, <1>2

\* Every step keeps the invariant.
THEOREM LicencesInvariant == Spec => []LicencesInd
  <1>1. LicencesInd /\ [Next]_vars => LicencesInd'
    BY WindowKeeps, DetectKeeps, SaturateKeeps, ObligeKeeps, FinishKeeps, CheckKeeps DEF Next
  <1> QED BY <1>1, LicencesStart, PTL DEF Spec

-----------------------------------------------------------------------------
(* What the invariant says at the end. *)

\* The silent instants of a source.
LEMMA SilentInstantsAre ==
    ASSUME doc \in Documents, NEW s \in Source, NEW t
    PROVE  t \in SilentInstants(s) <=> t \in Int /\ Silence(doc[s], t)
  <1>1. Timeline(doc[s])
    BY DocumentTimeline
  <1>2. ASSUME NEW row, Row(row)
        PROVE  t \in {x \in row.t0..(row.t1 - 1) : NotLive(row)} <=> t \in Int /\ NotLive(row) /\ Holds(row, t)
    <2>1. row.t0 \in Int /\ row.t1 \in Int
      BY <1>2 DEF Row
    <2> QED BY <2>1 DEF Holds
  <1>3. \A k \in DOMAIN doc[s] : Row(doc[s][k])
    BY <1>1 DEF Timeline
  <1>4. t \in SilentInstants(s) <=>
            \E k \in DOMAIN doc[s] : t \in {x \in doc[s][k].t0..(doc[s][k].t1 - 1) : NotLive(doc[s][k])}
    BY DEF SilentInstants, Range
  <1> QED BY <1>2, <1>3, <1>4 DEF Silence

\* The joint windows are the maximal blind stretches, no instant more or less.
LEMMA WindowsExact == Placed => WindowsAreExact
  <1> SUFFICES ASSUME Placed, NEW k \in DOMAIN DetectRules
               PROVE  LET sources == DetectRules[k].sources
                          blind == {t \in UNION {SilentInstants(s) : s \in sources} :
                                       \A s \in sources : t \in SilentInstants(s)}
                      IN JointBlindWindows(doc, sources) =
                           {[t0 |-> ab[1], t1 |-> ab[2] + 1] :
                               ab \in {ab \in blind \X blind :
                                          /\ ab[1]..ab[2] \subseteq blind /\ ab[1] <= ab[2]
                                          /\ ab[1] - 1 \notin blind /\ ab[2] + 1 \notin blind}}
    BY DEF WindowsAreExact, Range
  <1> DEFINE sources == DetectRules[k].sources
             blind == {t \in UNION {SilentInstants(s) : s \in sources} :
                          \A s \in sources : t \in SilentInstants(s)}
             Pairs == {ab \in blind \X blind :
                          /\ ab[1]..ab[2] \subseteq blind /\ ab[1] <= ab[2]
                          /\ ab[1] - 1 \notin blind /\ ab[2] + 1 \notin blind}
             stretches == {[t0 |-> ab[1], t1 |-> ab[2] + 1] : ab \in Pairs}
  <1>1. doc \in Documents /\ sources \in SUBSET Source
    BY TableRules DEF Placed
  <1>2. \A t : t \in blind <=> t \in Int /\ sources # {} /\ BlindAt(doc, sources, t)
    <2> SUFFICES ASSUME NEW t PROVE t \in blind <=> t \in Int /\ sources # {} /\ BlindAt(doc, sources, t)
      OBVIOUS
    <2>1. \A s \in sources : t \in SilentInstants(s) <=> t \in Int /\ Silence(doc[s], t)
      BY <1>1, SilentInstantsAre
    <2> HIDE DEF sources
    <2> QED BY <2>1 DEF BlindAt
  <1> HIDE DEF sources, blind
  <1>3. \A a, b : <<a, b>> \in Pairs <=> sources # {} /\ Maximal(doc, sources, a, b + 1) /\ b \in Int
    <2> SUFFICES ASSUME NEW a, NEW b
                 PROVE  <<a, b>> \in Pairs <=> sources # {} /\ Maximal(doc, sources, a, b + 1) /\ b \in Int
      OBVIOUS
    <2>1. <<a, b>> \in Pairs <=> /\ a \in blind /\ b \in blind /\ a..b \subseteq blind /\ a <= b
                                 /\ a - 1 \notin blind /\ b + 1 \notin blind
      OBVIOUS
    <2> HIDE DEF Pairs
    <2>2. ASSUME <<a, b>> \in Pairs PROVE sources # {} /\ Maximal(doc, sources, a, b + 1) /\ b \in Int
      <3>1. a \in Int /\ b \in Int /\ sources # {} /\ a <= b /\ a < b + 1 /\ a - 1 \in Int /\ b + 1 \in Int
        BY <1>2, <2>1, <2>2
      <3>2. ~BlindAt(doc, sources, a - 1) /\ ~BlindAt(doc, sources, b + 1)
        BY <1>2, <2>1, <2>2, <3>1
      <3>3. ASSUME NEW t \in Int, a <= t, t < b + 1 PROVE BlindAt(doc, sources, t)
        <4>1. t \in a..b
          BY <3>1, <3>3
        <4> QED BY <1>2, <2>1, <2>2, <4>1
      <3> QED BY <3>1, <3>2, <3>3 DEF Maximal
    <2>3. ASSUME sources # {}, Maximal(doc, sources, a, b + 1), b \in Int PROVE <<a, b>> \in Pairs
      <3>1. a \in Int /\ b \in Int /\ a <= b
        BY <2>3 DEF Maximal
      <3>2. ASSUME NEW t \in a..b PROVE t \in blind
        <4>1. t \in Int /\ a <= t /\ t < b + 1
          BY <3>1
        <4> QED BY <1>2, <2>3, <4>1 DEF Maximal
      <3>3. a \in blind /\ b \in blind
        BY <3>1, <3>2
      <3>4. a - 1 \notin blind /\ b + 1 \notin blind
        BY <1>2, <2>3 DEF Maximal
      <3> QED BY <2>1, <3>1, <3>2, <3>3, <3>4
    <2> QED BY <2>2, <2>3
  <1>4. \A ab \in Pairs : ab = <<ab[1], ab[2]>>
    OBVIOUS
  <1> HIDE DEF Pairs
  <1>5. ASSUME NEW w \in JointBlindWindows(doc, sources) PROVE w \in stretches
    <2>1. w = [t0 |-> w.t0, t1 |-> w.t1] /\ Maximal(doc, sources, w.t0, w.t1) /\ sources # {}
      BY <1>1, JointWindowsAre
    <2> DEFINE b == w.t1 - 1
    <2>2. w.t1 \in Int
      BY <2>1 DEF Maximal
    <2>3. b \in Int /\ b + 1 = w.t1
      BY <2>2
    <2> HIDE DEF b
    <2>4. <<w.t0, b>> \in Pairs
      BY <1>3, <2>1, <2>3
    <2> DEFINE ab == <<w.t0, b>>
    <2>5. ab[1] = w.t0 /\ ab[2] = b
      OBVIOUS
    <2> HIDE DEF ab
    <2>6. w = [t0 |-> ab[1], t1 |-> ab[2] + 1]
      BY <2>1, <2>3, <2>5
    <2> QED BY <2>4, <2>6 DEF ab
  <1>6. ASSUME NEW w \in stretches PROVE w \in JointBlindWindows(doc, sources)
    <2>1. PICK ab \in Pairs : w = [t0 |-> ab[1], t1 |-> ab[2] + 1]
      OBVIOUS
    <2>2. <<ab[1], ab[2]>> \in Pairs
      BY <1>4
    <2>3. sources # {} /\ Maximal(doc, sources, ab[1], ab[2] + 1)
      BY <1>3, <2>2
    <2> QED BY <1>1, <2>1, <2>3, JointWindowsAre
  <1>7. JointBlindWindows(doc, sources) = stretches
    BY <1>5, <1>6
  <1> QED BY <1>7 DEF stretches, Pairs, blind, sources

\* Over the window of an instance nobody listened, and its licences leave
\* nothing of it out.
LEMMA Unseeable == Placed => SilentIsUnseeable
  <1> SUFFICES ASSUME Placed, NEW i \in silent, NEW s \in i.rule.sources, NEW t \in i.t0..(i.t1 - 1)
               PROVE  /\ t \in SilentInstants(s)
                      /\ \E lic \in i.licences : lic.source = s /\ t \in lic.t0..(lic.t1 - 1)
    BY DEF SilentIsUnseeable
  <1>1. /\ i.rule.sources \in SUBSET Source /\ i.t0 \in Int /\ i.t1 \in Int
        /\ IsCovered(doc[s], i.t0, i.t1)
        /\ i.licences = LicencesOf(doc, i.rule.sources, i.t0, i.t1)
    BY DEF Placed, Earned
  <1>2. doc \in Documents /\ s \in Source /\ Timeline(doc[s])
    BY <1>1, DocumentTimeline DEF Placed
  <1>3. t \in Int /\ i.t0 <= t /\ t < i.t1
    BY <1>1
  <1>4. i.t0 < i.t1 /\ Silence(doc[s], t)
    BY <1>1, <1>2, <1>3, CoverIs
  <1>5. PICK run \in Range(CoveringRuns(doc[s], i.t0, i.t1)) : Holds(run, t)
    BY <1>1, <1>2, <1>3, <1>4, CitedRuns
  <1>6. Row(run)
    BY <1>1, <1>2, <1>4, CitedRuns
  <1> DEFINE lic == Licence(s, run)
  <1>7. lic \in i.licences
    BY <1>1 DEF LicencesOf
  <1>8. lic.source = s /\ lic.t0 = run.t0 /\ lic.t1 = run.t1
    BY DEF Licence
  <1> HIDE DEF lic
  <1>9. t \in lic.t0..(lic.t1 - 1)
    BY <1>3, <1>5, <1>6, <1>8 DEF Row, Holds
  <1>10. t \in SilentInstants(s)
    BY <1>2, <1>3, <1>4, SilentInstantsAre
  <1> QED BY <1>7, <1>8, <1>9, <1>10

\* The checker finds each licence of a sole source in the document.
LEMMA SoleSource == Placed => SoleSourceIsAccepted
  <1> SUFFICES ASSUME Placed, NEW i \in silent, Cardinality(i.rule.sources) = 1, NEW lic \in i.licences
               PROVE  Implied(i, lic)
    BY DEF SoleSourceIsAccepted, Rejects
  <1>1. /\ i.rule.sources \in SUBSET Source /\ i.t0 \in Int /\ i.t1 \in Int
        /\ \A x \in i.rule.sources : IsCovered(doc[x], i.t0, i.t1)
        /\ i.licences = LicencesOf(doc, i.rule.sources, i.t0, i.t1)
    BY DEF Placed, Earned
  <1>2. IsFiniteSet(i.rule.sources)
    BY <1>1, TablesAssumption, FS_Subset
  <1>3. PICK s : i.rule.sources = {s}
    BY <1>2, FS_Singleton
  <1>4. doc \in Documents /\ s \in Source /\ Timeline(doc[s])
    BY <1>1, <1>3, DocumentTimeline DEF Placed
  <1>5. i.t0 < i.t1
    BY <1>1, <1>3, <1>4, CoverIs
  <1>6. PICK run \in Range(CoveringRuns(doc[s], i.t0, i.t1)) : lic = Licence(s, run)
    BY <1>1, <1>3 DEF LicencesOf
  <1>7. /\ Row(run) /\ NotLive(run)
        /\ \E m \in DOMAIN doc[s] : Backs(doc[s][m], run)
        /\ \A t \in Int : Holds(run, t) => Silence(doc[s], t)
    BY <1>1, <1>4, <1>5, CitedRuns
  <1>8. /\ lic.source = s /\ lic.t0 = run.t0 /\ lic.t1 = run.t1 /\ lic.basis = run.verdict
        /\ lic.reason = run.reason /\ lic.witness = IF run.verdict = "SUPPRESSED" THEN run.witness ELSE {}
    BY <1>6 DEF Licence
  <1>9. /\ run.t0 \in Int /\ run.t1 \in Int /\ run.t0 < run.t1
        /\ run.verdict \in {"BLIND", "SUPPRESSED"}
        /\ run.verdict = "SUPPRESSED" <=> run.witness # {}
    BY <1>7 DEF Row, NotLive
  <1>10. lic.basis = "BLIND" <=> lic.witness = {}
    BY <1>8, <1>9
  <1>11. NonLiveOver(doc[s], lic.t0, lic.t1)
    <2>1. \A t \in Int : (run.t0 <= t /\ t < run.t1) => Silence(doc[s], t)
      BY <1>7 DEF Holds
    <2>2. Scan(doc[s], run.t0, run.t1).cursor >= run.t1
      BY <1>4, <1>9, <2>1, ScanExact
    <2> QED BY <1>8, <2>2 DEF NonLiveOver
  <1>12. PICK m \in DOMAIN doc[s] : Backs(doc[s][m], run)
    BY <1>7
  <1>13. doc[s] # <<>>
    BY <1>12
  <1>14. \E k \in DOMAIN doc[lic.source] :
            LET row == doc[lic.source][k]
            IN row.t0 < lic.t1 /\ lic.t0 < row.t1 /\ row.verdict = lic.basis /\ row.reason = lic.reason
    BY <1>8, <1>12 DEF Backs
  <1>15. lic.t0 < lic.t1 /\ lic.basis \in {"BLIND", "SUPPRESSED"}
    BY <1>8, <1>9
  <1>16. \A x \in i.rule.sources : doc[x] # <<>> /\ NonLiveOver(doc[x], lic.t0, lic.t1)
    BY <1>3, <1>11, <1>13
  <1> QED BY <1>10, <1>14, <1>15, <1>16, Zenon DEF Implied

\* For every document and table: the windows are exact, nothing a sensor
\* could have seen is imagined, and the checker accepts the licences of a rule
\* that one source produces.
THEOREM LicencesExact == Spec => []LicencesAreExact
  <1>1. LicencesInd => LicencesAreExact
    BY WindowsExact, Unseeable, SoleSource DEF LicencesInd, LicencesAreExact
  <1> QED BY <1>1, LicencesInvariant, PTL

\* For every document, table and pair of ceilings: an envelope that does not
\* say it is capped has, for every window, the steps of the first combinations
\* up to MAX_SILENT_BINDINGS and no other, and for every trigger the head it
\* asks for, or a blind spot where somebody listened.
THEOREM EnvelopeUpToBindings == Spec => []CompleteUpToBindings
  <1>1. ASSUME LicencesInd PROVE CompleteUpToBindings
    <2> SUFFICES ASSUME phase = "done", ~capped PROVE CompleteUpToBindings
      BY DEF CompleteUpToBindings
    <2>1. Placed /\ Detected /\ Settled
      BY <1>1 DEF LicencesInd
    <2>2. ASSUME NEW r \in Range(DetectRules), NEW w \in JointBlindWindows(doc, r.sources)
          PROVE  LET made == {i \in silent : i.rule = r /\ ~i.ghost /\ i.t0 = w.t0 /\ i.t1 = w.t1}
                     due == {b \in Combinations(r) : Usable(r) /\ Cardinality(Earlier(r, b)) < MaxBindings}
                     tick == w.t0 \div Tick
                 IN {<<i.head, i.body>> : i \in made} =
                    {<<FactAt(r.head, b, tick), {FactAt(p, b, tick) : p \in r.body}>> : b \in due}
      <3> DEFINE made == {i \in silent : i.rule = r /\ ~i.ghost /\ i.t0 = w.t0 /\ i.t1 = w.t1}
                 due == {b \in Combinations(r) : Usable(r) /\ Cardinality(Earlier(r, b)) < MaxBindings}
                 tick == w.t0 \div Tick
                 Result(b) == FactAt(r.head, b, tick)
                 Premises(b) == {FactAt(p, b, tick) : p \in r.body}
      <3>1. PICK k \in DOMAIN DetectRules : r = DetectRules[k]
        BY DEF Range
      <3>2. \A b : b \in due <=> b \in SilentBindings(r) /\ Usable(r)
        BY DEF SilentBindings
      <3>3. \A i, b : StepOf(i, r, w.t0, b) <=> i.head = Result(b) /\ i.body = Premises(b)
        BY Zenon DEF StepOf
      <3>4. ASSUME NEW b \in due PROVE \E i \in made : i.head = Result(b) /\ i.body = Premises(b)
        <4>1. Made(r, w, b, silent)
          BY <2>1, <2>2, <3>1, <3>2 DEF Detected
        <4>2. PICK i \in silent : i.rule = r /\ ~i.ghost /\ i.t0 = w.t0 /\ i.t1 = w.t1 /\ StepOf(i, r, w.t0, b)
          BY <3>2, <4>1 DEF Made
        <4> QED BY <3>3, <4>2
      <3>5. ASSUME NEW i \in made PROVE \E b \in due : i.head = Result(b) /\ i.body = Premises(b)
        <4>1. i \in silent /\ i.rule = r /\ ~i.ghost /\ i.t0 = w.t0
          OBVIOUS
        <4>2. Earned(i, doc)
          BY <2>1, <4>1 DEF Placed
        <4>3. Usable(r) /\ \E b \in SilentBindings(r) : StepOf(i, r, w.t0, b)
          BY <4>1, <4>2 DEF Earned
        <4> QED BY <3>2, <3>3, <4>3
      <3> HIDE DEF made, due, Result, Premises
      <3>6. {<<i.head, i.body>> : i \in made} = {<<Result(b), Premises(b)>> : b \in due}
        BY <3>4, <3>5
      <3> QED BY <3>6 DEF made, due, Result, Premises
    <2>3. ASSUME NEW k \in DOMAIN ObligationRules, NEW f \in (Observable \cap facts) \ Obliged,
                 Matches(ObligationRules[k].trigger, f), Binds(ObligationRules[k])
          PROVE  \/ Obligated(ObligationRules[k], f) \in facts
                 \/ /\ [rule |-> k, trigger |-> f] \in spots
                    /\ \/ Lookback(ObligationRules[k], f).t0 = Lookback(ObligationRules[k], f).t1
                       \/ \E s \in ObligationRules[k].sources :
                              \E t \in Lookback(ObligationRules[k], f).t0..(Lookback(ObligationRules[k], f).t1 - 1) :
                                  t \notin SilentInstants(s)
      <3> DEFINE r == ObligationRules[k]
                 a == Lookback(r, f).t0
                 b == Lookback(r, f).t1
      <3>1. Answered(k, f, doc, facts, spots)
        BY <2>1, <2>3 DEF Settled
      <3>2. f[3] \in Nat /\ a \in Int /\ b \in Int /\ a <= b
        BY TablesAssumption, LookbackIs
      <3>3. r.sources \in SUBSET Source /\ doc \in Documents
        BY <2>1, TableRules DEF Placed
      <3>4. Obligated(r, f) \in facts \/ ([rule |-> k, trigger |-> f] \in spots
                                             /\ ~\A s \in r.sources : IsCovered(doc[s], a, b))
        BY <2>3, <3>1 DEF Answered
      <3> HIDE DEF r, a, b
      <3>5. ASSUME NEW s \in r.sources, ~IsCovered(doc[s], a, b), a # b
            PROVE  \E t \in a..(b - 1) : t \notin SilentInstants(s)
        <4>1. Timeline(doc[s]) /\ s \in Source
          BY <3>3, DocumentTimeline
        <4>2. a < b
          BY <3>2, <3>5
        <4>3. PICK t \in Int : a <= t /\ t < b /\ ~Silence(doc[s], t)
          BY <3>2, <3>5, <4>1, <4>2, CoverIs
        <4>4. t \in a..(b - 1)
          BY <3>2, <4>3
        <4> QED BY <3>3, <4>1, <4>3, <4>4, SilentInstantsAre
      <3>6. \/ Obligated(r, f) \in facts
            \/ /\ [rule |-> k, trigger |-> f] \in spots
               /\ a = b \/ \E s \in r.sources : \E t \in a..(b - 1) : t \notin SilentInstants(s)
        BY <3>4, <3>5
      <3> QED BY <3>6 DEF r, a, b
    <2> QED BY <2>2, <2>3 DEF CompleteUpToBindings
  <1> QED BY <1>1, LicencesInvariant, PTL

-----------------------------------------------------------------------------
\* Rules: the order of literals

LiteralOrder(S) == {x \in S \X S : LiteralBefore(x[1], x[2])}

(* The order of the literals, as pairs. *)
LEMMA LiteralOrderIs ==
    ASSUME NEW S
    PROVE  InLiteralOrder(S) = AscendingBy(S, LiteralOrder(S))
  <1> DEFINE c(k) == CHOOSE x \in S : Cardinality({y \in S : LiteralBefore(y, x)}) = k - 1
             d(k) == CHOOSE x \in S : Cardinality(Preceding(LiteralOrder(S), S, x)) = k - 1
  <1>1. \A x \in S : {y \in S : LiteralBefore(y, x)} = Preceding(LiteralOrder(S), S, x)
    BY DEF LiteralOrder, Preceding
  <1>2. \A k \in 1..Cardinality(S) : c(k) = d(k)
    <2> TAKE k \in 1..Cardinality(S)
    <2> QED BY <1>1, Zenon
  <1>3. InLiteralOrder(S) = [k \in 1..Cardinality(S) |-> c(k)]
    BY Zenon DEF InLiteralOrder, Ascending
  <1>4. AscendingBy(S, LiteralOrder(S)) = [k \in 1..Cardinality(S) |-> d(k)]
    BY DEF AscendingBy
  <1> HIDE DEF c, d
  <1> QED BY <1>2, <1>3, <1>4

(* ... and of its names. *)
LEMMA NamesInOrder ==
    ASSUME NEW S
    PROVE  Ascending(S, <) = AscendingBy(S, NumberOrder(S))
  <1> DEFINE c(k) == CHOOSE x \in S : Cardinality({y \in S : y < x}) = k - 1
             d(k) == CHOOSE x \in S : Cardinality(Preceding(NumberOrder(S), S, x)) = k - 1
  <1>1. \A x \in S : {y \in S : y < x} = Preceding(NumberOrder(S), S, x)
    BY DEF NumberOrder, Preceding
  <1>2. \A k \in 1..Cardinality(S) : c(k) = d(k)
    <2> TAKE k \in 1..Cardinality(S)
    <2> QED BY <1>1, Zenon
  <1>3. Ascending(S, <) = [k \in 1..Cardinality(S) |-> c(k)]
    BY Zenon DEF Ascending
  <1>4. AscendingBy(S, NumberOrder(S)) = [k \in 1..Cardinality(S) |-> d(k)]
    BY DEF AscendingBy
  <1> HIDE DEF c, d
  <1> QED BY <1>2, <1>3, <1>4

(* Of two literals one is before the other. *)
LEMMA LiteralOrderStrict ==
    ASSUME NEW S \in SUBSET (Int \X Int)
    PROVE  StrictOrder(LiteralOrder(S), S)
  <1> DEFINE B == LiteralOrder(S)
  <1>1. \A x \in S : x = <<x[1], x[2]>> /\ x[1] \in Int /\ x[2] \in Int
    OBVIOUS
  <1>2. \A x, y \in S : <<x, y>> \in B <=> (x[1] < y[1] \/ (x[1] = y[1] /\ x[2] < y[2]))
    BY DEF LiteralOrder, LiteralBefore
  <1> HIDE DEF B
  <1>3. \A x \in S : <<x, x>> \notin B
    BY <1>1, <1>2
  <1>4. ASSUME NEW x \in S, NEW y \in S, NEW z \in S, <<x, y>> \in B, <<y, z>> \in B PROVE <<x, z>> \in B
    <2>1. x[1] < y[1] \/ (x[1] = y[1] /\ x[2] < y[2])
      BY <1>2, <1>4
    <2>2. y[1] < z[1] \/ (y[1] = z[1] /\ y[2] < z[2])
      BY <1>2, <1>4
    <2>3. x[1] < z[1] \/ (x[1] = z[1] /\ x[2] < z[2])
      <3> DEFINE a == x[1]  b == x[2]  c == y[1]  d == y[2]  e == z[1]  f == z[2]
      <3>1. a \in Int /\ b \in Int /\ c \in Int /\ d \in Int /\ e \in Int /\ f \in Int
        BY <1>1
      <3> HIDE DEF a, b, c, d, e, f
      <3>2. (a < c \/ (a = c /\ b < d)) /\ (c < e \/ (c = e /\ d < f)) => a < e \/ (a = e /\ b < f)
        BY <3>1
      <3> QED BY <2>1, <2>2, <3>2 DEF a, b, c, d, e, f
    <2> QED BY <1>2, <2>3
  <1>5. ASSUME NEW x \in S, NEW y \in S PROVE x = y \/ <<x, y>> \in B \/ <<y, x>> \in B
    <2>1. x[1] < y[1] \/ (x[1] = y[1] /\ x[2] < y[2]) \/ y[1] < x[1] \/ (y[1] = x[1] /\ y[2] < x[2]) \/ (x[1] = y[1] /\ x[2] = y[2])
      BY <1>1
    <2> QED BY <1>1, <1>2, <2>1
  <1> QED BY <1>3, <1>4, <1>5 DEF StrictOrder, B

(* A catalog is a finite table of sequences. *)
LEMMA CatalogIs ==
    ASSUME NEW cat \in Catalogs
    PROVE  /\ IsFiniteSet(DOMAIN cat) /\ DOMAIN cat \subseteq Int
           /\ \A c \in DOMAIN cat : Len(cat[c]) \in Nat /\ DOMAIN cat[c] = 1..Len(cat[c])
  BY CatalogsAssumption

(* The literals of a catalog are finitely many pairs. *)
LEMMA LiteralsAre ==
    ASSUME NEW cat \in Catalogs
    PROVE  /\ IsFiniteSet(Literals(cat)) /\ Literals(cat) \in SUBSET (Int \X (Nat \ {0}))
           /\ \A c, l : <<c, l>> \in Literals(cat) <=> c \in DOMAIN cat /\ l \in 1..(Len(cat[c]) - 1)
  <1> DEFINE g == [c \in DOMAIN cat |-> {<<c, l>> : l \in 1..(Len(cat[c]) - 1)}]
             T == Imaged(g, DOMAIN cat)
  <1>1. IsFiniteSet(T)
    BY CatalogIs, ImageFinite, Zenon
  <1>2. Literals(cat) = UNION T
    BY DEF Literals, Imaged
  <1>3. ASSUME NEW c \in DOMAIN cat PROVE IsFiniteSet(g[c])
    <2> DEFINE L == Len(cat[c])
               h == [l \in 1..(L - 1) |-> <<c, l>>]
    <2>1. L \in Nat
      BY CatalogIs
    <2> HIDE DEF L
    <2>2. IsFiniteSet(1..(L - 1))
      BY <2>1, FS_Interval
    <2>3. IsFiniteSet(Imaged(h, 1..(L - 1)))
      BY <2>2, ImageFinite, Zenon
    <2>4. Imaged(h, 1..(L - 1)) = {<<c, l>> : l \in 1..(L - 1)}
      BY DEF Imaged
    <2> QED BY <2>3, <2>4 DEF L
  <1>4. IsFiniteSet(UNION T)
    <2>1. \A A \in T : IsFiniteSet(A)
      BY <1>3 DEF Imaged
    <2> HIDE DEF T
    <2> QED BY <1>1, <2>1, FS_UNION
  <1>5. \A c, l : <<c, l>> \in Literals(cat) <=> c \in DOMAIN cat /\ l \in 1..(Len(cat[c]) - 1)
    BY DEF Literals
  <1>6. Literals(cat) \in SUBSET (Int \X (Nat \ {0}))
    <2> SUFFICES ASSUME NEW x \in Literals(cat) PROVE x \in Int \X (Nat \ {0})
      OBVIOUS
    <2>1. PICK c \in DOMAIN cat : x \in {<<c, l>> : l \in 1..(Len(cat[c]) - 1)}
      BY DEF Literals
    <2>2. PICK l \in 1..(Len(cat[c]) - 1) : x = <<c, l>>
      BY <2>1
    <2>3. c \in Int /\ Len(cat[c]) \in Nat
      BY CatalogIs
    <2> QED BY <2>2, <2>3
  <1> QED BY <1>2, <1>4, <1>5, <1>6

-----------------------------------------------------------------------------
\* The lock

Bit == [control : Int, level : Nat \ {0}, state : {"live", "tombstone"}]

BitTable(bits) ==
    /\ bits \in Seq(Bit) /\ Len(bits) <= MaskWidth
    /\ \A j, k \in 1..Len(bits) : bits[j].control = bits[k].control /\ bits[j].level = bits[k].level => j = k

(* A lock that is derived is a lock. *)
LEMMA DerivedIs ==
    ASSUME NEW cat \in Catalogs, Cardinality(Literals(cat)) <= MaskWidth
    PROVE  BitTable(Derive(cat)) /\ Len(Derive(cat)) = Cardinality(Literals(cat))
  <1> DEFINE S == Literals(cat)
             q == InLiteralOrder(S)
             d == Derive(cat)
             n == Cardinality(S)
  <1>1. IsFiniteSet(S) /\ S \in SUBSET (Int \X (Nat \ {0}))
    BY LiteralsAre
  <1>2. S \in SUBSET (Int \X Int)
    BY <1>1
  <1>3. StrictOrder(LiteralOrder(S), S)
    BY <1>2, LiteralOrderStrict
  <1>4. Lists(q, LiteralOrder(S), S) /\ q \in Seq(S) /\ Len(q) = n
    BY <1>1, <1>3, LiteralOrderIs, AscendingLists, Zenon
  <1>5. n \in Nat
    BY <1>1, FS_CardinalityType
  <1>6. d = [k \in DOMAIN q |-> Entry(q[k], "live")]
    BY DEF Derive
  <1>7. q \in [1..n -> S] /\ \A j, k \in 1..n : j < k => <<q[j], q[k]>> \in LiteralOrder(S)
    BY <1>4 DEF Lists
  <1> HIDE DEF q, n, d
  <1>8. ASSUME NEW j \in 1..n, NEW k \in 1..n, q[j] = q[k] PROVE j = k
    <2>1. ~(j < k) /\ ~(k < j)
      <3>1. q[j] \in S /\ q[k] \in S
        BY <1>7
      <3>2. <<q[j], q[k]>> \notin LiteralOrder(S) /\ <<q[k], q[j]>> \notin LiteralOrder(S)
        BY <1>3, <1>8, <3>1 DEF StrictOrder
      <3> QED BY <1>7, <3>2
    <2> QED BY <1>5, <2>1
  <1>9. DOMAIN q = 1..n
    BY <1>7
  <1>10. \A k \in 1..n : q[k] = <<q[k][1], q[k][2]>> /\ q[k][1] \in Int /\ q[k][2] \in Nat \ {0}
    BY <1>1, <1>7
  <1>11. \A k \in 1..n : d[k] = [control |-> q[k][1], level |-> q[k][2], state |-> "live"]
    BY <1>6, <1>9 DEF Entry
  <1>12. d \in [1..n -> Bit]
    BY <1>6, <1>9, <1>10, <1>11 DEF Bit, Entry
  <1>13. d \in Seq(Bit) /\ Len(d) = n
    BY <1>5, <1>12
  <1>14. \A j, k \in 1..n : d[j].control = d[k].control /\ d[j].level = d[k].level => j = k
    <2> SUFFICES ASSUME NEW j \in 1..n, NEW k \in 1..n, d[j].control = d[k].control, d[j].level = d[k].level
                 PROVE  j = k
      OBVIOUS
    <2>0. /\ d[j] = [control |-> q[j][1], level |-> q[j][2], state |-> "live"]
          /\ d[k] = [control |-> q[k][1], level |-> q[k][2], state |-> "live"]
      BY <1>11
    <2>1. d[j].control = q[j][1] /\ d[j].level = q[j][2] /\ d[k].control = q[k][1] /\ d[k].level = q[k][2]
      BY <2>0
    <2>2. q[j] = <<q[j][1], q[j][2]>> /\ q[k] = <<q[k][1], q[k][2]>>
      BY <1>10
    <2>3. q[j] = q[k]
      BY <2>1, <2>2
    <2> QED BY <1>8, <2>3
  <1> QED BY <1>13, <1>14 DEF BitTable, d, n

(* Every live literal has a bit of its own. *)
LEMMA BitIs ==
    ASSUME NEW bits, BitTable(bits), NEW lit \in LiveSet(bits)
    PROVE  /\ BitOf(bits, lit) \in 0..(MaskWidth - 1) /\ BitOf(bits, lit) + 1 \in 1..Len(bits)
           /\ bits[BitOf(bits, lit) + 1] = Entry(lit, "live")
           /\ lit = <<bits[BitOf(bits, lit) + 1].control, bits[BitOf(bits, lit) + 1].level>>
  <1>1. bits \in Seq(Bit) /\ Len(bits) \in Nat /\ DOMAIN bits = 1..Len(bits) /\ Len(bits) <= MaskWidth /\ MaskWidth \in Nat
    BY RulesAssumption DEF BitTable
  <1>2. PICK i \in DOMAIN bits : bits[i].state = "live" /\ lit = <<bits[i].control, bits[i].level>>
    BY DEF LiveSet
  <1>3. bits[i] \in Bit
    BY <1>1, <1>2
  <1>4. bits[i] = Entry(lit, "live")
    BY <1>2, <1>3 DEF Bit, Entry
  <1> DEFINE k == CHOOSE k \in DOMAIN bits : bits[k] = Entry(lit, "live")
  <1>5. k \in DOMAIN bits /\ bits[k] = Entry(lit, "live")
    BY <1>2, <1>4, Zenon
  <1>6. BitOf(bits, lit) = k - 1
    BY Zenon DEF BitOf
  <1> HIDE DEF k
  <1>7. k \in 1..Len(bits) /\ BitOf(bits, lit) + 1 = k /\ BitOf(bits, lit) \in 0..(MaskWidth - 1)
    BY <1>1, <1>5, <1>6
  <1>8. lit = <<bits[k].control, bits[k].level>>
    BY <1>2, <1>5 DEF Entry
  <1> QED BY <1>5, <1>7, <1>8

(* What is written of a lock when the command dies is a lock. *)
LEMMA PrefixIs ==
    ASSUME NEW bits, BitTable(bits), NEW n \in 0..Len(bits)
    PROVE  BitTable(SubSeq(bits, 1, n))
  <1> DEFINE u == SubSeq(bits, 1, n)
             N == Len(bits)
  <1>1. bits \in Seq(Bit) /\ N \in Nat /\ N <= MaskWidth /\ MaskWidth \in Nat
    BY RulesAssumption DEF BitTable
  <1>2. u \in Seq(Bit) /\ Len(u) = n /\ \A k \in 1..n : u[k] = bits[k]
    BY <1>1
  <1>3. \A j, k \in 1..N : bits[j].control = bits[k].control /\ bits[j].level = bits[k].level => j = k
    BY DEF BitTable
  <1> HIDE DEF u, N
  <1>4. n \in Nat /\ n <= N /\ \A k \in 1..n : k \in 1..N
    BY <1>1 DEF N
  <1>5. \A j, k \in 1..n : u[j].control = u[k].control /\ u[j].level = u[k].level => j = k
    BY <1>2, <1>3, <1>4
  <1> QED BY <1>1, <1>2, <1>4, <1>5 DEF BitTable, u

(* A bit is appended for a literal that has none. *)
LEMMA AppendedIs ==
    ASSUME NEW bits, BitTable(bits), Len(bits) < MaskWidth, NEW c \in Int, NEW l \in Nat \ {0},
           \A k \in 1..Len(bits) : ~(bits[k].control = c /\ bits[k].level = l)
    PROVE  BitTable(Append(bits, Entry(<<c, l>>, "live")))
  <1> DEFINE e == Entry(<<c, l>>, "live")
             u == Append(bits, e)
             N == Len(bits)
  <1>1. bits \in Seq(Bit) /\ N \in Nat /\ N < MaskWidth /\ MaskWidth \in Nat
    BY RulesAssumption DEF BitTable
  <1>2. e \in Bit /\ e.control = c /\ e.level = l
    BY DEF Entry, Bit
  <1> HIDE DEF e
  <1>3. u \in Seq(Bit) /\ Len(u) = N + 1 /\ u[N + 1] = e /\ \A k \in 1..N : u[k] = bits[k]
    BY <1>1, <1>2
  <1>4. \A j, k \in 1..N : bits[j].control = bits[k].control /\ bits[j].level = bits[k].level => j = k
    BY DEF BitTable
  <1>5. \A k \in 1..N : ~(bits[k].control = c /\ bits[k].level = l)
    OBVIOUS
  <1> HIDE DEF u, N
  <1>6. \A k \in 1..(N + 1) : k \in 1..N \/ k = N + 1
    BY <1>1
  <1>7. \A j, k \in 1..(N + 1) : u[j].control = u[k].control /\ u[j].level = u[k].level => j = k
    BY <1>2, <1>3, <1>4, <1>5, <1>6
  <1> QED BY <1>1, <1>3, <1>7 DEF BitTable, u, e

Marked(bits, i, s) == [bits EXCEPT ![i].state = s]

(* To mark a bit leaves every literal at its place. *)
LEMMA MarkedIs ==
    ASSUME NEW bits, BitTable(bits), NEW i \in DOMAIN bits, NEW s \in {"live", "tombstone"}
    PROVE  /\ BitTable(Marked(bits, i, s)) /\ Len(Marked(bits, i, s)) = Len(bits)
           /\ \A k \in 1..Len(bits) :
                 /\ Marked(bits, i, s)[k].control = bits[k].control
                 /\ Marked(bits, i, s)[k].level = bits[k].level
  <1> DEFINE u == Marked(bits, i, s)
             N == Len(bits)
  <1>1. bits \in Seq(Bit) /\ N \in Nat /\ N <= MaskWidth /\ i \in 1..N /\ bits \in [1..N -> Bit]
    BY DEF BitTable
  <1>2. u \in Seq(Bit) /\ Len(u) = N
    BY <1>1 DEF Bit, Marked
  <1>3. \A k \in 1..N : u[k].control = bits[k].control /\ u[k].level = bits[k].level
    BY <1>1 DEF Bit, Marked
  <1>4. \A j, k \in 1..N : bits[j].control = bits[k].control /\ bits[j].level = bits[k].level => j = k
    BY DEF BitTable
  <1> HIDE DEF u, N
  <1>5. \A j, k \in 1..N : u[j].control = u[k].control /\ u[j].level = u[k].level => j = k
    BY <1>3, <1>4
  <1>6. BitTable(u)
    BY <1>1, <1>2, <1>5 DEF BitTable
  <1> QED BY <1>2, <1>3, <1>6 DEF u, N

-----------------------------------------------------------------------------
\* Terms

Meets(s, t) == \A p \in t : s[p[1]] >= p[2]
Asked(cat, s, t) == \A lit \in t : s[lit[1]] >= Ordinal(cat, lit[1], lit[2])

\* Literals of the catalog, one of a control.
Firm(t, cat) ==
    /\ IsFiniteSet(t) /\ t \subseteq Literals(cat)
    /\ \A p, q \in t : p[1] = q[1] => p = q

\* What a guard that resolves distributes to.
Resolved(terms, cat) ==
    /\ IsFiniteSet(terms)
    /\ \A t \in terms : IsFiniteSet(t) /\ \A lit \in t :
          Known(cat, lit[1], lit[2]) /\ Ordinal(cat, lit[1], lit[2]) >= 1

(* A setting gives every control a level. *)
LEMMA SettingIs ==
    ASSUME NEW cat \in Catalogs, NEW s \in Settings(cat)
    PROVE  \A c \in DOMAIN cat : s[c] \in Nat
  <1> TAKE c \in DOMAIN cat
  <1>1. s[c] \in 0..(Len(cat[c]) - 1)
    BY DEF Settings
  <1> QED BY <1>1

(* A level a guard names is a literal of the catalog. *)
LEMMA OrdinalIs ==
    ASSUME NEW cat \in Catalogs, NEW c, NEW l, Known(cat, c, l), Ordinal(cat, c, l) >= 1
    PROVE  /\ c \in DOMAIN cat /\ Ordinal(cat, c, l) \in Nat
           /\ <<c, Ordinal(cat, c, l)>> \in Literals(cat)
  <1>1. c \in DOMAIN cat /\ \E k \in DOMAIN cat[c] : cat[c][k] = l
    BY DEF Known
  <1> DEFINE k == CHOOSE k \in DOMAIN cat[c] : cat[c][k] = l
             n == Len(cat[c])
  <1>2. k \in DOMAIN cat[c]
    BY <1>1, Zenon
  <1>3. Ordinal(cat, c, l) = k - 1
    BY Zenon DEF Ordinal
  <1>4. n \in Nat /\ DOMAIN cat[c] = 1..n
    BY <1>1, CatalogIs
  <1> HIDE DEF k, n
  <1>5. k \in 1..n /\ k - 1 \in 1..(n - 1)
    BY <1>2, <1>3, <1>4
  <1> QED BY <1>1, <1>3, <1>5, LiteralsAre DEF n

(* To keep the highest level of each control keeps what a term asks. *)
LEMMA StrongestIs ==
    ASSUME NEW cat \in Catalogs, NEW term, IsFiniteSet(term),
           \A lit \in term : Known(cat, lit[1], lit[2]) /\ Ordinal(cat, lit[1], lit[2]) >= 1
    PROVE  /\ Firm(Strongest(term, cat), cat)
           /\ \A s \in Settings(cat) : Asked(cat, s, term) <=> Meets(s, Strongest(term, cat))
  <1> DEFINE g == [lit \in term |-> <<lit[1], Ordinal(cat, lit[1], lit[2])>>]
             P == {<<lit[1], Ordinal(cat, lit[1], lit[2])>> : lit \in term}
             T == Strongest(term, cat)
  <1>1. P = Imaged(g, term)
    BY DEF Imaged
  <1>2. IsFiniteSet(P)
    BY <1>1, ImageFinite, Zenon
  <1>3. P \subseteq Literals(cat)
    <2> SUFFICES ASSUME NEW lit \in term PROVE <<lit[1], Ordinal(cat, lit[1], lit[2])>> \in Literals(cat)
      OBVIOUS
    <2> QED BY OrdinalIs
  <1>4. T = {p \in P : \A q \in P : q[1] = p[1] => q[2] <= p[2]}
    BY DEF Strongest
  <1>5. \A p \in P : p = <<p[1], p[2]>> /\ p[1] \in DOMAIN cat /\ p[2] \in Nat
    <2> TAKE p \in P
    <2>1. PICK lit \in term : p = <<lit[1], Ordinal(cat, lit[1], lit[2])>>
      OBVIOUS
    <2> QED BY <2>1, OrdinalIs
  <1>6. ASSUME NEW s \in Settings(cat) PROVE Asked(cat, s, term) <=> Meets(s, P)
    <2>1. ASSUME Asked(cat, s, term), NEW p \in P PROVE s[p[1]] >= p[2]
      <3>1. PICK lit \in term : p = <<lit[1], Ordinal(cat, lit[1], lit[2])>>
        OBVIOUS
      <3>2. s[lit[1]] >= Ordinal(cat, lit[1], lit[2])
        BY <2>1 DEF Asked
      <3>3. p[1] = lit[1] /\ p[2] = Ordinal(cat, lit[1], lit[2])
        BY <3>1
      <3> QED BY <3>2, <3>3
    <2>2. ASSUME Meets(s, P), NEW lit \in term PROVE s[lit[1]] >= Ordinal(cat, lit[1], lit[2])
      <3> DEFINE p == <<lit[1], Ordinal(cat, lit[1], lit[2])>>
      <3>1. p \in P /\ p[1] = lit[1] /\ p[2] = Ordinal(cat, lit[1], lit[2])
        OBVIOUS
      <3>2. s[p[1]] >= p[2]
        BY <2>2, <3>1 DEF Meets
      <3> QED BY <3>1, <3>2
    <2> QED BY <2>1, <2>2 DEF Asked, Meets
  <1> HIDE DEF P, T
  <1>7. Firm(T, cat)
    <2>1. IsFiniteSet(T)
      BY <1>2, <1>4, FS_Subset
    <2>2. ASSUME NEW p \in T, NEW q \in T, p[1] = q[1] PROVE p = q
      <3>1. p \in P /\ q \in P /\ q[2] <= p[2] /\ p[2] <= q[2]
        BY <1>4, <2>2
      <3>2. p[2] = q[2]
        BY <1>5, <3>1
      <3> QED BY <1>5, <2>2, <3>1, <3>2
    <2> QED BY <1>3, <1>4, <2>1, <2>2 DEF Firm
  <1>8. ASSUME NEW s \in Settings(cat), Meets(s, T), NEW p \in P PROVE s[p[1]] >= p[2]
    <2> DEFINE A == {q \in P : q[1] = p[1]}
               V == {x \in Nat : \E q \in A : q[2] = x}
               b == Len(cat[p[1]])
    <2>1. V \in SUBSET Int /\ V # {} /\ p[2] \in V
      BY <1>5
    <2>2. b \in Int
      BY <1>5, CatalogIs
    <2>3. \A y \in V : y <= b
      <3> TAKE y \in V
      <3>1. PICK q \in A : q[2] = y
        OBVIOUS
      <3>2. <<p[1], y>> \in Literals(cat)
        BY <1>3, <1>5, <3>1
      <3>3. y \in 1..(b - 1)
        BY <3>2, LiteralsAre
      <3> QED BY <2>2, <3>3
    <2>4. Largest(V) \in V /\ \A y \in V : Largest(V) >= y
      <3> HIDE DEF V, b
      <3> QED BY <2>1, <2>2, <2>3, HighestTaken
    <2>5. PICK q \in A : q[2] = Largest(V)
      BY <2>4
    <2>6. q \in P /\ q[1] = p[1] /\ q[2] \in Nat /\ p[2] \in Nat /\ q[2] >= p[2]
      BY <1>5, <2>1, <2>4, <2>5
    <2>7. \A r \in P : r[1] = q[1] => r[2] <= q[2]
      <3> TAKE r \in P
      <3> HAVE r[1] = q[1]
      <3>1. r[2] \in V /\ r[2] \in Nat
        BY <1>5, <2>6
      <3> QED BY <2>4, <2>5, <2>6, <3>1
    <2>8. q \in T
      BY <1>4, <2>6, <2>7
    <2>9. s[p[1]] >= q[2] /\ s[p[1]] \in Nat
      BY <1>5, <1>8, <2>6, <2>8, SettingIs DEF Meets
    <2> QED BY <2>6, <2>9
  <1>9. ASSUME NEW s \in Settings(cat), Meets(s, P) PROVE Meets(s, T)
    BY <1>4, <1>9 DEF Meets
  <1> QED BY <1>6, <1>7, <1>8, <1>9 DEF T, Meets

(* Of two terms that imply each other there is only one. *)
LEMMA ImpliesIs ==
    ASSUME NEW cat \in Catalogs, NEW t, NEW u, NEW v, Firm(t, cat), Firm(u, cat), Firm(v, cat)
    PROVE  /\ Implies(t, t)
           /\ Implies(t, u) /\ Implies(u, t) => t = u
           /\ Implies(t, u) /\ Implies(u, v) => Implies(t, v)
           /\ \A s \in Settings(cat) : Implies(t, u) /\ Meets(s, u) => Meets(s, t)
  <1>1. \A p \in t \cup u \cup v : p = <<p[1], p[2]>> /\ p[1] \in DOMAIN cat /\ p[2] \in Nat
    <2> TAKE p \in t \cup u \cup v
    <2>1. p \in Literals(cat)
      BY DEF Firm
    <2>2. p = <<p[1], p[2]>> /\ p[2] \in Nat
      BY <2>1, LiteralsAre
    <2>3. p[1] \in DOMAIN cat
      <3>1. <<p[1], p[2]>> \in Literals(cat)
        BY <2>1, <2>2
      <3> QED BY <3>1, LiteralsAre
    <2> QED BY <2>2, <2>3
  <1>2. Implies(t, t)
    BY <1>1 DEF Implies
  <1>3. ASSUME NEW a, NEW b, a \subseteq t \cup u, b \subseteq t \cup u, Firm(a, cat), Implies(a, b), Implies(b, a)
        PROVE  a \subseteq b
    <2> SUFFICES ASSUME NEW p \in a PROVE p \in b
      OBVIOUS
    <2>1. PICK q \in b : q[1] = p[1] /\ q[2] >= p[2]
      BY <1>3 DEF Implies
    <2>2. PICK r \in a : r[1] = q[1] /\ r[2] >= q[2]
      BY <1>3, <2>1 DEF Implies
    <2>3. r = p
      BY <1>3, <2>1, <2>2 DEF Firm
    <2>4. p \in t \cup u \cup v /\ q \in t \cup u \cup v
      BY <1>3
    <2>5. q[2] = p[2]
      BY <1>1, <2>1, <2>2, <2>3, <2>4
    <2>6. q = p
      BY <1>1, <2>1, <2>4, <2>5
    <2> QED BY <2>6
  <1>4. Implies(t, u) /\ Implies(u, t) => t = u
    BY <1>3
  <1>5. ASSUME Implies(t, u), Implies(u, v) PROVE Implies(t, v)
    <2> SUFFICES ASSUME NEW p \in t PROVE \E r \in v : r[1] = p[1] /\ r[2] >= p[2]
      BY DEF Implies
    <2>1. PICK q \in u : q[1] = p[1] /\ q[2] >= p[2]
      BY <1>5 DEF Implies
    <2>2. PICK r \in v : r[1] = q[1] /\ r[2] >= q[2]
      BY <1>5, <2>1 DEF Implies
    <2>3. p[2] \in Nat /\ q[2] \in Nat /\ r[2] \in Nat
      BY <1>1
    <2>4. r[1] = p[1] /\ r[2] >= p[2]
      BY <2>1, <2>2, <2>3
    <2> QED BY <2>4
  <1>6. ASSUME NEW s \in Settings(cat), Implies(t, u), Meets(s, u) PROVE Meets(s, t)
    <2> SUFFICES ASSUME NEW p \in t PROVE s[p[1]] >= p[2]
      BY DEF Meets
    <2>1. PICK q \in u : q[1] = p[1] /\ q[2] >= p[2]
      BY <1>6 DEF Implies
    <2>2. s[q[1]] >= q[2]
      BY <1>6, <2>1 DEF Meets
    <2>3. p[2] \in Nat /\ q[2] \in Nat /\ s[p[1]] \in Nat
      BY <1>1, SettingIs
    <2> QED BY <2>1, <2>2, <2>3
  <1> QED BY <1>2, <1>4, <1>5, <1>6

(* To drop what another term implies drops nothing a setting could tell. *)
LEMMA CanonicalIs ==
    ASSUME NEW cat \in Catalogs, NEW node, Resolved(CtlTerms(node), cat)
    PROVE  /\ \A t \in CanonicalTerms(node, cat) : Firm(t, cat)
           /\ \A s \in Settings(cat) :
                 TermsSay(CtlTerms(node), cat, s) <=> \E t \in CanonicalTerms(node, cat) : Meets(s, t)
           /\ \A t, u \in CanonicalTerms(node, cat) : Implies(t, u) => t = u
  <1> DEFINE D == CtlTerms(node)
             g == [term \in D |-> Strongest(term, cat)]
             A == {Strongest(term, cat) : term \in D}
             C == CanonicalTerms(node, cat)
  <1>1. C = {x \in A : ~\E y \in A : y # x /\ Implies(y, x)}
    BY DEF CanonicalTerms
  <1>2. IsFiniteSet(D)
    BY DEF Resolved
  <1>3. A = Imaged(g, D)
    BY DEF Imaged
  <1>4. IsFiniteSet(A)
    BY <1>2, <1>3, ImageFinite, Zenon
  <1>5. ASSUME NEW term \in D
        PROVE  /\ Firm(Strongest(term, cat), cat)
               /\ \A s \in Settings(cat) : Asked(cat, s, term) <=> Meets(s, Strongest(term, cat))
    <2>1. IsFiniteSet(term) /\ \A lit \in term : Known(cat, lit[1], lit[2]) /\ Ordinal(cat, lit[1], lit[2]) >= 1
      BY DEF Resolved
    <2> QED BY <2>1, StrongestIs
  <1>6. \A t \in A : Firm(t, cat)
    BY <1>5
  <1>7. \A s \in Settings(cat) : TermsSay(D, cat, s) <=> \E t \in A : Meets(s, t)
    <2> TAKE s \in Settings(cat)
    <2>1. TermsSay(D, cat, s) <=> \E term \in D : Asked(cat, s, term)
      BY DEF TermsSay, Asked
    <2>2. \A term \in D : Asked(cat, s, term) <=> Meets(s, Strongest(term, cat))
      BY <1>5
    <2> QED BY <2>1, <2>2
  <1> HIDE DEF A, C, D
  <1>8. ASSUME NEW x \in A PROVE \E y \in C : Implies(y, x)
    <2> DEFINE Under(y) == {z \in A : Implies(z, y)}
               M == {m \in Nat : \E y \in A : Implies(y, x) /\ Cardinality(Under(y)) = m}
    <2>1. \A y \in A : IsFiniteSet(Under(y)) /\ Cardinality(Under(y)) \in Nat
      BY <1>4, FS_Subset, FS_CardinalityType
    <2>2. Implies(x, x)
      BY <1>6, ImpliesIs
    <2>3. Cardinality(Under(x)) \in M
      BY <2>1, <2>2
    <2>4. PICK m \in M : \A k \in M : m <= k
      <3>1. M \in SUBSET Nat /\ M # {}
        BY <2>3
      <3> HIDE DEF M
      <3> QED BY <3>1, LeastNat
    <2>5. PICK y \in A : Implies(y, x) /\ Cardinality(Under(y)) = m
      OBVIOUS
    <2>6. ASSUME NEW z \in A, z # y, Implies(z, y) PROVE FALSE
      <3>1. Implies(z, x)
        BY <1>6, <2>5, <2>6, ImpliesIs
      <3>2. Under(z) \subseteq Under(y)
        <4> SUFFICES ASSUME NEW w \in A, Implies(w, z) PROVE Implies(w, y)
          OBVIOUS
        <4> QED BY <1>6, <2>6, ImpliesIs
      <3>3. y \in Under(y) /\ y \notin Under(z)
        <4>1. Implies(y, y) /\ ~Implies(y, z)
          BY <1>6, <2>6, ImpliesIs
        <4> QED BY <4>1
      <3>4. Cardinality(Under(z)) \in M
        BY <2>1, <3>1
      <3>5. Cardinality(Under(y)) <= Cardinality(Under(z))
        BY <2>4, <2>5, <3>4
      <3>6. Cardinality(Under(z)) <= Cardinality(Under(y)) /\ Cardinality(Under(z)) # Cardinality(Under(y))
        <4> HIDE DEF Under
        <4> QED BY <2>1, <3>2, <3>3, FS_Subset
      <3> HIDE DEF Under, M
      <3> QED BY <2>1, <3>5, <3>6
    <2>7. y \in C
      BY <1>1, <2>6
    <2> QED BY <2>5, <2>7
  <1>9. \A s \in Settings(cat) : (\E t \in A : Meets(s, t)) <=> \E t \in C : Meets(s, t)
    <2> TAKE s \in Settings(cat)
    <2>1. ASSUME NEW t \in A, Meets(s, t) PROVE \E u \in C : Meets(s, u)
      <3>1. PICK u \in C : Implies(u, t)
        BY <1>8, <2>1
      <3>2. u \in A
        BY <1>1
      <3>3. Meets(s, u)
        BY <1>6, <2>1, <3>1, <3>2, ImpliesIs
      <3> QED BY <3>3
    <2>2. C \subseteq A
      BY <1>1
    <2> QED BY <2>1, <2>2
  <1>10. \A t, u \in C : Implies(t, u) => t = u
    BY <1>1
  <1>11. \A t \in C : Firm(t, cat)
    BY <1>1, <1>6
  <1> QED BY <1>7, <1>9, <1>10, <1>11 DEF C, D

-----------------------------------------------------------------------------
\* The compiled table

Loaded == mem.catalog \in Catalogs /\ BitTable(mem.bits) /\ Covers(mem.bits, mem.catalog)

CompiledTable(file) == {[id |-> r.id, masks |-> Masks(Terms(r, mem.catalog), mem.bits)] : r \in file}

(* The guard of a rule distributes to finitely many finite terms. *)
LEMMA RuleResolves ==
    ASSUME NEW file \in RuleFiles, NEW r \in file, NEW cat, r.blocked # NoGuard, Resolves(r.blocked, cat)
    PROVE  Resolved(CtlTerms(r.blocked), cat)
  <1>1. IsFiniteSet(CtlTerms(r.blocked)) /\ \A t \in CtlTerms(r.blocked) : IsFiniteSet(t)
    BY RuleFilesAssumption
  <1> QED BY <1>1 DEF Resolved, Resolves

(* A mask of an accepted rule is the bit of one literal. *)
LEMMA MaskIs ==
    ASSUME Loaded, NEW file \in RuleFiles, NEW r \in file, CompileOne(r, mem.catalog)
    PROVE  /\ \A t \in Terms(r, mem.catalog) : \E p \in Literals(mem.catalog) : t = {p}
           /\ \A m \in Masks(Terms(r, mem.catalog), mem.bits) :
                 \E p \in Literals(mem.catalog) : {p} \in Terms(r, mem.catalog) /\ m = {BitOf(mem.bits, p)}
  <1> DEFINE cat == mem.catalog
             T == Terms(r, cat)
  <1>1. cat \in Catalogs
    BY DEF Loaded
  <1>2. ASSUME NEW t \in T PROVE \E p \in Literals(cat) : t = {p}
    <2>1. r.blocked # NoGuard /\ T = CanonicalTerms(r.blocked, cat)
      BY DEF Terms
    <2>2. BlockedCompiles(r.blocked, cat) /\ Single(T)
      BY <2>1 DEF CompileOne
    <2>3. Resolved(CtlTerms(r.blocked), cat)
      BY <2>1, <2>2, RuleResolves DEF BlockedCompiles
    <2>4. Firm(t, cat)
      BY <1>1, <2>1, <2>3, CanonicalIs
    <2>5. Cardinality(t) = 1 /\ IsFiniteSet(t)
      BY <2>2, <2>4 DEF Single, Firm
    <2>6. PICK p : t = {p}
      BY <2>5, FS_Singleton
    <2> QED BY <2>4, <2>6 DEF Firm
  <1>3. ASSUME NEW m \in Masks(T, mem.bits)
        PROVE  \E p \in Literals(cat) : {p} \in T /\ m = {BitOf(mem.bits, p)}
    <2>1. PICK t \in T : m = {BitOf(mem.bits, p) : p \in t}
      BY DEF Masks
    <2>2. PICK p \in Literals(cat) : t = {p}
      BY <1>2
    <2> QED BY <2>1, <2>2
  <1> QED BY <1>2, <1>3

(* Two literals have two bits. *)
LEMMA BitsDiffer ==
    ASSUME Loaded, NEW p \in Literals(mem.catalog), NEW q \in Literals(mem.catalog),
           BitOf(mem.bits, p) = BitOf(mem.bits, q)
    PROVE  p = q
  <1>1. p \in LiveSet(mem.bits) /\ q \in LiveSet(mem.bits) /\ BitTable(mem.bits)
    BY DEF Loaded, Covers
  <1>2. /\ p = <<mem.bits[BitOf(mem.bits, p) + 1].control, mem.bits[BitOf(mem.bits, p) + 1].level>>
        /\ q = <<mem.bits[BitOf(mem.bits, q) + 1].control, mem.bits[BitOf(mem.bits, q) + 1].level>>
    BY <1>1, BitIs, Zenon
  <1> QED BY <1>2, Zenon

(* Masks are as wide as they may be. *)
LEMMA MasksFit ==
    ASSUME Loaded, NEW file \in RuleFiles, \A r \in file : CompileOne(r, mem.catalog)
    PROVE  \A q \in CompiledTable(file) : \A m \in q.masks :
               /\ m \subseteq 0..(MaskWidth - 1) /\ Cardinality(m) = 1
               /\ \A b \in m : b \in Nat /\ b + 1 \in 1..Len(mem.bits)
  <1> SUFFICES ASSUME NEW r \in file, NEW m \in Masks(Terms(r, mem.catalog), mem.bits)
               PROVE  /\ m \subseteq 0..(MaskWidth - 1) /\ Cardinality(m) = 1
                      /\ \A b \in m : b \in Nat /\ b + 1 \in 1..Len(mem.bits)
    BY DEF CompiledTable
  <1>1. PICK p \in Literals(mem.catalog) : m = {BitOf(mem.bits, p)}
    BY MaskIs
  <1>2. p \in LiveSet(mem.bits) /\ BitTable(mem.bits)
    BY DEF Loaded, Covers
  <1>3. BitOf(mem.bits, p) \in 0..(MaskWidth - 1) /\ BitOf(mem.bits, p) + 1 \in 1..Len(mem.bits)
    BY <1>2, BitIs, Zenon
  <1>4. Cardinality(m) = 1
    BY <1>1, FS_Singleton, Zenon
  <1> QED BY <1>1, <1>3, <1>4

(* The deployed literals block what the guard says they block. *)
LEMMA MasksSay ==
    ASSUME Loaded, NEW file \in RuleFiles, Accepted(file), NEW r \in file, r.blocked # NoGuard,
           NEW s \in Settings(mem.catalog)
    PROVE  TermsSay(CtlTerms(r.blocked), mem.catalog, s) <=>
               \E q \in CompiledTable(file) : q.id = r.id /\ \E m \in q.masks :
                   m \subseteq {BitOf(mem.bits, lit) : lit \in {x \in Literals(mem.catalog) : s[x[1]] >= x[2]}}
  <1> DEFINE cat == mem.catalog
             bits == mem.bits
             T == Terms(r, cat)
             On == {x \in Literals(cat) : s[x[1]] >= x[2]}
             Up == {BitOf(bits, lit) : lit \in On}
  <1>1. cat \in Catalogs /\ \A x \in file : CompileOne(x, cat)
    BY DEF Loaded, Accepted, Compiles
  <1>2. \A x, y \in file : x # y => x.id # y.id
    BY DEF Accepted, Compiles
  <1>3. BlockedCompiles(r.blocked, cat) /\ T = CanonicalTerms(r.blocked, cat)
    BY <1>1 DEF CompileOne, Terms
  <1>4. Resolved(CtlTerms(r.blocked), cat)
    BY <1>3, RuleResolves DEF BlockedCompiles
  <1>5. TermsSay(CtlTerms(r.blocked), cat, s) <=> \E t \in T : Meets(s, t)
    BY <1>1, <1>3, <1>4, CanonicalIs
  <1>6. ASSUME NEW p \in Literals(cat) PROVE BitOf(bits, p) \in Up <=> s[p[1]] >= p[2]
    <2>1. ASSUME BitOf(bits, p) \in Up PROVE p \in On
      <3>1. PICK lit \in On : BitOf(bits, p) = BitOf(bits, lit)
        BY <2>1
      <3>2. lit = p
        BY <3>1, BitsDiffer
      <3> QED BY <3>1, <3>2
    <2> QED BY <2>1
  <1> HIDE DEF Up, T, On, cat, bits
  <1>7. ASSUME NEW t \in T, Meets(s, t) PROVE \E m \in Masks(T, bits) : m \subseteq Up
    <2>1. PICK p \in Literals(cat) : t = {p}
      BY <1>1, MaskIs DEF T, cat
    <2>2. {BitOf(bits, x) : x \in t} \in Masks(T, bits)
      BY DEF Masks
    <2>3. BitOf(bits, p) \in Up
      BY <1>6, <1>7, <2>1 DEF Meets
    <2>4. {BitOf(bits, x) : x \in t} \subseteq Up
      BY <2>1, <2>3
    <2> QED BY <2>2, <2>4
  <1>8. ASSUME NEW m \in Masks(T, bits), m \subseteq Up PROVE \E t \in T : Meets(s, t)
    <2>1. PICK p \in Literals(cat) : {p} \in T /\ m = {BitOf(bits, p)}
      BY <1>1, MaskIs DEF T, cat, bits
    <2>2. s[p[1]] >= p[2]
      BY <1>6, <1>8, <2>1
    <2> QED BY <2>1, <2>2 DEF Meets
  <1>9. [id |-> r.id, masks |-> Masks(T, bits)] \in CompiledTable(file)
    BY DEF CompiledTable, T, cat, bits
  <1>10. ASSUME NEW q \in CompiledTable(file), q.id = r.id PROVE q.masks = Masks(T, bits)
    <2>1. PICK x \in file : q = [id |-> x.id, masks |-> Masks(Terms(x, cat), bits)]
      BY DEF CompiledTable, cat, bits
    <2>2. x = r
      BY <1>2, <1>10, <2>1
    <2> QED BY <2>1, <2>2 DEF T
  <1>11. (\E t \in T : Meets(s, t)) <=> \E q \in CompiledTable(file) : q.id = r.id /\ \E m \in q.masks : m \subseteq Up
    <2>1. ASSUME NEW t \in T, Meets(s, t)
          PROVE  \E q \in CompiledTable(file) : q.id = r.id /\ \E m \in q.masks : m \subseteq Up
      <3> DEFINE q == [id |-> r.id, masks |-> Masks(T, bits)]
      <3>1. q \in CompiledTable(file) /\ q.id = r.id /\ q.masks = Masks(T, bits)
        BY <1>9
      <3> HIDE DEF q
      <3> QED BY <1>7, <2>1, <3>1
    <2>2. ASSUME NEW q \in CompiledTable(file), q.id = r.id, NEW m \in q.masks, m \subseteq Up
          PROVE  \E t \in T : Meets(s, t)
      BY <1>8, <1>10, <2>2
    <2> QED BY <2>1, <2>2
  <1> QED BY <1>5, <1>11 DEF Up, On, cat, bits

(* A row of names in byte order is what its names sort to. *)
LEMMA SortedAlready ==
    ASSUME NEW vs \in Seq(Int), InByteOrder(vs)
    PROVE  Ascending({vs[k] : k \in DOMAIN vs}, <) = vs
  <1> DEFINE S == {vs[k] : k \in DOMAIN vs}
             n == Len(vs)
             B == NumberOrder(S)
  <1>1. n \in Nat /\ DOMAIN vs = 1..n /\ vs \in [1..n -> Int] /\ vs \in [1..n -> S]
    OBVIOUS
  <1>2. \A k \in 1..(n - 1) : vs[k] < vs[k + 1]
    BY DEF InByteOrder
  <1>3. S = {vs[k] : k \in 1..n} /\ S \in SUBSET Int
    BY <1>1
  <1> HIDE DEF S, n
  <1>4. ASSUME NEW j \in 1..n, NEW k \in 1..n, j < k PROVE vs[j] < vs[k]
    BY <1>1, <1>2, <1>4, Climbs
  <1>5. ASSUME NEW j \in 1..n, NEW k \in 1..n, vs[j] = vs[k] PROVE j = k
    <2>1. ~(j < k) /\ ~(k < j)
      <3>1. vs[j] \in Int /\ vs[k] \in Int
        BY <1>1
      <3>2. ~(vs[j] < vs[k]) /\ ~(vs[k] < vs[j])
        BY <1>5, <3>1
      <3> QED BY <1>4, <3>2
    <2> QED BY <1>1, <2>1
  <1>6. vs \in Bijection(1..n, S)
    <2>1. vs \in Injection(1..n, S)
      BY <1>1, <1>5 DEF Injection, IsInjective
    <2>2. vs \in Surjection(1..n, S)
      BY <1>1, <1>3 DEF Surjection
    <2> QED BY <2>1, <2>2 DEF Bijection
  <1>7. IsFiniteSet(1..n) /\ Cardinality(1..n) = n
    BY <1>1, FS_Interval
  <1>8. IsFiniteSet(S) /\ Cardinality(S) = n
    <2>1. ExistsBijection(1..n, S)
      BY <1>6 DEF ExistsBijection
    <2> QED BY <1>7, <2>1, FS_Bijection
  <1>9. StrictOrder(B, S)
    BY <1>3, NumberOrderStrict
  <1>10. Lists(vs, B, S)
    <2>1. \A j, k \in 1..n : j < k => <<vs[j], vs[k]>> \in B
      BY <1>1, <1>4 DEF NumberOrder
    <2>2. \A r \in S : \E k \in 1..n : vs[k] = r
      BY <1>3
    <2> QED BY <1>1, <1>8, <2>1, <2>2 DEF Lists
  <1>11. Lists(AscendingBy(S, B), B, S)
    BY <1>8, <1>9, AscendingLists
  <1>12. AscendingBy(S, B) = vs
    BY <1>8, <1>9, <1>10, <1>11, OneList
  <1> QED BY <1>12, NamesInOrder DEF S

(* A pattern over records names its roles in the order of the fact. *)
LEMMA PatternsBind ==
    ASSUME NEW file \in RuleFiles, RolesAgree(file), AxiomOrder(file),
           NEW r \in file, NEW p \in BodyPatterns(r), p.pred \in AxiomPredicates(file)
    PROVE  Seeded(file, p.pred) = p.vars
  <1>1. PICK k \in DOMAIN r.body : p = r.body[k]
    BY DEF BodyPatterns
  <1>2. p.vars \in Seq(Int)
    BY <1>1, RuleFilesAssumption
  <1>3. InByteOrder(p.vars)
    BY DEF AxiomOrder
  <1>4. p \in RolePatterns(file)
    BY DEF RolePatterns, AxiomPredicates
  <1> DEFINE q == CHOOSE q \in RolePatterns(file) : q.pred = p.pred
  <1>5. q \in RolePatterns(file) /\ q.pred = p.pred
    BY <1>4, Zenon
  <1>6. q.vars = p.vars
    BY <1>4, <1>5 DEF RolesAgree
  <1>7. RolesOf(file, p.pred) = q.vars
    BY Zenon DEF RolesOf
  <1> HIDE DEF q
  <1>8. Seeded(file, p.pred) = Ascending({p.vars[i] : i \in DOMAIN p.vars}, <)
    BY <1>6, <1>7, Zenon DEF Seeded
  <1> QED BY <1>2, <1>3, <1>8, SortedAlready

-----------------------------------------------------------------------------
\* The inductive invariant

Kept == \A a \in archive :
            /\ a.pos \in Nat /\ a.pos + 1 \in 1..Len(lock.entries)
            /\ lock.exists /\ ~lock.torn
            /\ a.literal = <<lock.entries[a.pos + 1].control, lock.entries[a.pos + 1].level>>

Stage ==
    /\ pc \in {"locked", "compiled"} => Loaded /\ mem.bits = lock.entries /\ lock.exists /\ ~lock.torn
    /\ pc \in {"idle", "locked"} => table = NoTable
    /\ pc = "compiled" => /\ table.file \in RuleFiles /\ Accepted(table.file)
                          /\ table.rules = CompiledTable(table.file)
    /\ pc = "refused" => table = NoTable \/ (table.rules = {} /\ table.file \in RuleFiles /\ mem.catalog \in Catalogs)

RulesInd ==
    /\ catalog \in Catalogs /\ pc \in {"idle", "locked", "compiled", "refused"}
    /\ lock \in [exists : BOOLEAN, torn : BOOLEAN, entries : Seq(Bit)]
    /\ BitTable(lock.entries) /\ Kept /\ Stage

(* The lock that is not there is a lock. *)
LEMMA EmptyLock == BitTable(<<>>)
  BY RulesAssumption DEF BitTable

(* The first state. *)
LEMMA RulesIndInit == RulesInit => RulesInd
  BY EmptyLock DEF RulesInit, RulesInd, Kept, Stage

(* The edits of the two files keep the invariant. *)
LEMMA EditsKeep ==
    ASSUME RulesInd, EditCatalog \/ AppendBit \/ MarkBit \/ DiscardTorn \/ CrashInWrite
    PROVE  RulesInd'
  <1>1. CASE EditCatalog
    BY <1>1 DEF EditCatalog, RulesInd, Kept, Stage
  <1>2. CASE AppendBit
    <2>1. PICK lit \in Literals(catalog) :
             /\ \A k \in DOMAIN lock.entries : Locked[k] # lit
             /\ lock' = [lock EXCEPT !.entries = Append(@, Entry(lit, "live"))]
      BY <1>2 DEF AppendBit
    <2> DEFINE E == lock.entries
               e == Entry(lit, "live")
               F == Append(E, e)
    <2>2. lit = <<lit[1], lit[2]>> /\ lit[1] \in Int /\ lit[2] \in Nat \ {0}
      BY LiteralsAre DEF RulesInd
    <2>3. E \in Seq(Bit) /\ Len(E) \in Nat /\ DOMAIN E = 1..Len(E) /\ Len(E) < MaskWidth /\ BitTable(E)
      BY <1>2 DEF RulesInd, AppendBit
    <2>4. \A k \in 1..Len(E) : ~(E[k].control = lit[1] /\ E[k].level = lit[2])
      BY <2>1, <2>2, <2>3 DEF Locked
    <2>5. e = Entry(<<lit[1], lit[2]>>, "live") /\ e \in Bit
      BY <2>2 DEF Entry, Bit
    <2>6. BitTable(F)
      BY <2>2, <2>3, <2>4, <2>5, AppendedIs
    <2>7. lock' = [exists |-> lock.exists, torn |-> lock.torn, entries |-> F]
      BY <2>1 DEF RulesInd
    <2> HIDE DEF e
    <2>8. Len(F) = Len(E) + 1 /\ \A k \in 1..Len(E) : F[k] = E[k] /\ k \in 1..Len(F)
      BY <2>3, <2>5
    <2> HIDE DEF E, F
    <2>9. Kept'
      <3> SUFFICES ASSUME NEW a \in archive
                   PROVE  /\ a.pos \in Nat /\ a.pos + 1 \in 1..Len(F) /\ lock.exists /\ ~lock.torn
                          /\ a.literal = <<F[a.pos + 1].control, F[a.pos + 1].level>>
        BY <1>2, <2>7 DEF Kept, AppendBit
      <3>1. a.pos \in Nat /\ a.pos + 1 \in 1..Len(E) /\ lock.exists /\ ~lock.torn
            /\ a.literal = <<E[a.pos + 1].control, E[a.pos + 1].level>>
        BY DEF RulesInd, Kept, E
      <3> QED BY <2>8, <3>1
    <2>10. Stage'
      BY <1>2, <2>7 DEF AppendBit, RulesInd, Stage, NoTable
    <2>11. F \in Seq(Bit)
      BY <2>6 DEF BitTable
    <2> QED BY <1>2, <2>6, <2>7, <2>9, <2>10, <2>11 DEF AppendBit, RulesInd
  <1>3. CASE MarkBit
    <2>1. PICK i \in DOMAIN lock.entries, s \in {"live", "tombstone"} :
             lock' = [lock EXCEPT !.entries[i].state = s]
      BY <1>3 DEF MarkBit
    <2> DEFINE E == lock.entries
               F == Marked(E, i, s)
    <2>2. lock' = [exists |-> lock.exists, torn |-> lock.torn, entries |-> F]
      BY <2>1 DEF RulesInd, Marked
    <2>0. BitTable(E) /\ i \in DOMAIN E /\ s \in {"live", "tombstone"}
      BY <2>1 DEF RulesInd
    <2> HIDE DEF E
    <2>3. BitTable(F) /\ Len(F) = Len(E)
          /\ \A k \in 1..Len(E) : F[k].control = E[k].control /\ F[k].level = E[k].level
      BY <2>0, MarkedIs, Zenon
    <2> HIDE DEF F
    <2>4. Kept'
      <3> SUFFICES ASSUME NEW a \in archive
                   PROVE  /\ a.pos \in Nat /\ a.pos + 1 \in 1..Len(F) /\ lock.exists /\ ~lock.torn
                          /\ a.literal = <<F[a.pos + 1].control, F[a.pos + 1].level>>
        BY <1>3, <2>2 DEF Kept, MarkBit
      <3>1. a.pos \in Nat /\ a.pos + 1 \in 1..Len(E) /\ lock.exists /\ ~lock.torn
            /\ a.literal = <<E[a.pos + 1].control, E[a.pos + 1].level>>
        BY DEF RulesInd, Kept, E
      <3> QED BY <2>3, <3>1
    <2>5. Stage'
      BY <1>3, <2>2 DEF MarkBit, RulesInd, Stage, NoTable
    <2>6. F \in Seq(Bit)
      BY <2>3 DEF BitTable
    <2> QED BY <1>3, <2>2, <2>3, <2>4, <2>5, <2>6 DEF MarkBit, RulesInd
  <1>4. CASE DiscardTorn
    <2>1. archive = {}
      BY <1>4 DEF DiscardTorn, RulesInd, Kept
    <2> QED BY <1>4, <2>1, EmptyLock DEF DiscardTorn, RulesInd, Kept, Stage, NoTable
  <1>5. CASE CrashInWrite
    <2>1. archive = {}
      BY <1>5 DEF CrashInWrite, RulesInd, Kept
    <2>2. PICK n \in 0..Cardinality(Literals(catalog)), torn \in BOOLEAN :
             lock' = [exists |-> TRUE, torn |-> torn, entries |-> SubSeq(Derive(catalog), 1, n)]
      BY <1>5 DEF CrashInWrite
    <2>3. BitTable(SubSeq(Derive(catalog), 1, n))
      BY <1>5, DerivedIs, PrefixIs DEF CrashInWrite, RulesInd
    <2>4. SubSeq(Derive(catalog), 1, n) \in Seq(Bit)
      BY <2>3 DEF BitTable
    <2> HIDE DEF Derive
    <2> QED BY <1>5, <2>1, <2>2, <2>3, <2>4 DEF CrashInWrite, RulesInd, Kept, Stage, NoTable
  <1> QED BY <1>1, <1>2, <1>3, <1>4, <1>5

(* ... and so does the command. *)
LEMMA CommandKeeps ==
    ASSUME RulesInd, BitsLock \/ BitsLockRefuses \/ CompileRules \/ Exit
    PROVE  RulesInd'
  <1>1. CASE BitsLock
    <2>1. CASE lock.exists /\ UNCHANGED lock
      BY <1>1, <2>1 DEF BitsLock, RulesInd, Kept, Stage, Loaded
    <2>2. CASE /\ ~lock.exists /\ Cardinality(Literals(catalog)) <= MaskWidth
               /\ lock' = [exists |-> TRUE, torn |-> FALSE, entries |-> Derive(catalog)]
      <3>1. archive = {}
        BY <2>2 DEF RulesInd, Kept
      <3>2. BitTable(Derive(catalog)) /\ Derive(catalog) \in Seq(Bit)
        BY <2>2, DerivedIs DEF RulesInd, BitTable
      <3> QED BY <1>1, <2>2, <3>1, <3>2 DEF BitsLock, RulesInd, Kept, Stage, Loaded
    <2> QED BY <1>1, <2>1, <2>2 DEF BitsLock
  <1>2. CASE BitsLockRefuses
    BY <1>2 DEF BitsLockRefuses, RulesInd, Kept, Stage
  <1>3. CASE CompileRules
    <2>1. PICK file \in RuleFiles :
             /\ table' = [file |-> file, rules |-> IF Accepted(file) THEN CompiledTable(file) ELSE {}]
             /\ pc' = IF Accepted(file) THEN "compiled" ELSE "refused"
      BY <1>3 DEF CompileRules, CompiledTable
    <2>2. /\ pc = "locked" /\ UNCHANGED <<catalog, lock, mem>>
          /\ archive' = archive \cup
                {[pos |-> b, literal |-> <<mem.bits[b + 1].control, mem.bits[b + 1].level>>] :
                    b \in UNION {UNION r.masks : r \in table'.rules}}
      BY <1>3 DEF CompileRules
    <2>3. Loaded /\ mem.bits = lock.entries /\ lock.exists /\ ~lock.torn
      BY <2>2 DEF RulesInd, Stage
    <2>4. Loaded' /\ (Accepted(file))' = Accepted(file) /\ (CompiledTable(file))' = CompiledTable(file)
      BY <2>2, <2>3 DEF Loaded, Accepted, CompiledTable
    <2>5. ASSUME NEW b \in UNION {UNION r.masks : r \in table'.rules}
          PROVE  b \in Nat /\ b + 1 \in 1..Len(mem.bits)
      <3>1. PICK r \in table'.rules : \E m \in r.masks : b \in m
        OBVIOUS
      <3>2. Accepted(file) /\ r \in CompiledTable(file)
        BY <2>1, <3>1
      <3>3. \A x \in file : CompileOne(x, mem.catalog)
        BY <3>2 DEF Accepted, Compiles
      <3> QED BY <2>3, <3>1, <3>2, <3>3, MasksFit
    <2>6. Kept'
      <3> SUFFICES ASSUME NEW a \in archive'
                   PROVE  /\ a.pos \in Nat /\ a.pos + 1 \in 1..Len(lock.entries) /\ lock.exists /\ ~lock.torn
                          /\ a.literal = <<lock.entries[a.pos + 1].control, lock.entries[a.pos + 1].level>>
        BY <2>2 DEF Kept
      <3>1. CASE a \in archive
        BY <3>1 DEF RulesInd, Kept
      <3>2. CASE a \notin archive
        <4>1. PICK b \in UNION {UNION r.masks : r \in table'.rules} :
                 a = [pos |-> b, literal |-> <<mem.bits[b + 1].control, mem.bits[b + 1].level>>]
          BY <2>2, <3>2
        <4> QED BY <2>3, <2>5, <4>1
      <3> QED BY <3>1, <3>2
    <2>7. Stage'
      <3>1. CASE Accepted(file)
        <4>1. pc' = "compiled" /\ table'.file = file /\ table'.rules = CompiledTable(file)
          BY <2>1, <3>1
        <4>2. Accepted(table.file)' /\ (table'.rules = CompiledTable(table.file)')
          BY <2>2, <3>1, <4>1 DEF Accepted, CompiledTable
        <4> QED BY <2>2, <2>3, <2>4, <4>1, <4>2 DEF Stage
      <3>2. CASE ~Accepted(file)
        BY <2>1, <2>2, <2>3, <3>2 DEF Stage, Loaded
      <3> QED BY <3>1, <3>2
    <2> QED BY <2>1, <2>2, <2>6, <2>7 DEF RulesInd
  <1>4. CASE Exit
    BY <1>4 DEF Exit, RulesInd, Kept, Stage
  <1> QED BY <1>1, <1>2, <1>3, <1>4

(* Every step keeps the invariant. *)
LEMMA RulesIndStep == RulesInd /\ [RulesNext]_rulesVars => RulesInd'
  <1> SUFFICES ASSUME RulesInd, [RulesNext]_rulesVars PROVE RulesInd'
    OBVIOUS
  <1>1. CASE UNCHANGED rulesVars
    BY <1>1 DEF rulesVars, RulesInd, Kept, Stage, Loaded, Accepted, CompiledTable
  <1> QED BY <1>1, EditsKeep, CommandKeeps DEF RulesNext

\* For every set of catalogs and rule files: the lock is a table of bits, each
\* of a literal of its own, and what a mask ever meant it still means.
THEOREM RulesInvariant == RulesSpec => []RulesInd
  BY RulesIndInit, RulesIndStep, PTL DEF RulesSpec

\* For every set of catalogs and rule files, through every edit, crash and
\* command: no mask changes its meaning, masks fit, and literals are ordered
\* by the catalog alone.
THEOREM LockKept == RulesSpec => []LockKeepsMeaning
  <1>1. ASSUME RulesInd PROVE TypeOK
    <2> DEFINE E == lock.entries
    <2>1. /\ E \in Seq(Bit) /\ Len(E) \in Nat /\ DOMAIN E = 1..Len(E) /\ Len(E) <= MaskWidth
          /\ \A j, k \in 1..Len(E) : E[j].control = E[k].control /\ E[j].level = E[k].level => j = k
      BY <1>1 DEF RulesInd, BitTable
    <2>2. \A k \in DOMAIN E : E[k].level >= 1 /\ E[k].state \in {"live", "tombstone"}
      <3> TAKE k \in DOMAIN E
      <3>1. E[k] \in Bit
        BY <2>1
      <3> QED BY <3>1 DEF Bit
    <2>3. \A j, k \in DOMAIN E : Locked[j] = Locked[k] => j = k
      BY <2>1 DEF Locked
    <2>4. table.file \in RuleFiles \cup {{}}
      BY <1>1 DEF RulesInd, Stage, NoTable
    <2>5. ASSUME NEW r \in table.rules, NEW m \in r.masks PROVE m \subseteq 0..(MaskWidth - 1) /\ Cardinality(m) = 1
      <3>1. pc = "compiled"
        BY <1>1, <2>5 DEF RulesInd, Stage, NoTable
      <3>2. Loaded /\ table.file \in RuleFiles /\ Accepted(table.file) /\ table.rules = CompiledTable(table.file)
        BY <1>1, <3>1 DEF RulesInd, Stage
      <3>3. \A x \in table.file : CompileOne(x, mem.catalog)
        BY <3>2 DEF Accepted, Compiles
      <3> QED BY <2>5, <3>2, <3>3, MasksFit
    <2> QED BY <1>1, <2>1, <2>2, <2>3, <2>4, <2>5 DEF TypeOK, RulesInd
  <1>2. ASSUME RulesInd PROVE MasksKeepMeaning
    <2> SUFFICES ASSUME NEW a \in archive
                 PROVE  lock.exists /\ ~lock.torn /\ a.pos < Len(lock.entries) /\ Locked[a.pos + 1] = a.literal
      BY DEF MasksKeepMeaning
    <2>1. /\ a.pos \in Nat /\ a.pos + 1 \in 1..Len(lock.entries) /\ lock.exists /\ ~lock.torn
          /\ a.literal = <<lock.entries[a.pos + 1].control, lock.entries[a.pos + 1].level>>
      BY <1>2 DEF RulesInd, Kept
    <2>2. lock.entries \in Seq(Bit) /\ Len(lock.entries) \in Nat /\ DOMAIN lock.entries = 1..Len(lock.entries)
      BY <1>2 DEF RulesInd
    <2> QED BY <2>1, <2>2 DEF Locked
  <1>3. ASSUME RulesInd PROVE RanksAreHistoryFree
    <2> SUFFICES ASSUME pc \in {"locked", "compiled"} PROVE RanksAreHistoryFree
      BY DEF RanksAreHistoryFree
    <2>1. BitTable(mem.bits) /\ LiveSet(mem.bits) = Literals(mem.catalog)
      BY <1>3 DEF RulesInd, Stage, Loaded, Covers
    <2>2. \A lit \in Literals(mem.catalog) : BitOf(mem.bits, lit) \in 0..(MaskWidth - 1)
      BY <2>1, BitIs, Zenon
    <2> QED BY <2>1, <2>2, Zenon DEF RanksAreHistoryFree, Ranked
  <1> QED BY <1>1, <1>2, <1>3, RulesInvariant, PTL DEF LockKeepsMeaning

\* For every catalog and rule file: the masks block under exactly the settings
\* the terms of the guard ask for, no term is redundant, and in an accepted
\* table a pattern reads the arguments by the roles it names.
THEOREM TableExact == RulesSpec => []TableIsExact
  <1>1. ASSUME RulesInd PROVE BodyBindsByRole
    <2> SUFFICES ASSUME pc = "compiled", NEW r \in table.file, NEW p \in BodyPatterns(r),
                        p.pred \in AxiomPredicates(table.file)
                 PROVE  Seeded(table.file, p.pred) = p.vars
      BY DEF BodyBindsByRole
    <2>1. table.file \in RuleFiles /\ RolesAgree(table.file) /\ AxiomOrder(table.file)
      BY <1>1 DEF RulesInd, Stage, Accepted, Compiles
    <2> QED BY <2>1, PatternsBind
  <1>2. ASSUME RulesInd PROVE MasksSayTerms
    <2> SUFFICES ASSUME pc \in {"compiled", "refused"}, NEW r \in table.file,
                        r.blocked # NoGuard, BlockedCompiles(r.blocked, mem.catalog)
                 PROVE  /\ \A s \in Settings(mem.catalog) :
                              TermsSay(CtlTerms(r.blocked), mem.catalog, s)
                                  <=> \E t \in Terms(r, mem.catalog) : \A p \in t : s[p[1]] >= p[2]
                        /\ \A t, u \in Terms(r, mem.catalog) : Implies(t, u) => t = u
                        /\ pc = "compiled" => \A s \in Settings(mem.catalog) :
                              TermsSay(CtlTerms(r.blocked), mem.catalog, s) <=>
                                  \E q \in table.rules : q.id = r.id /\ \E m \in q.masks : m \subseteq
                                      {BitOf(mem.bits, lit) : lit \in {x \in Literals(mem.catalog) : s[x[1]] >= x[2]}}
      BY DEF MasksSayTerms
    <2>1. table.file \in RuleFiles /\ mem.catalog \in Catalogs
      BY <1>2 DEF RulesInd, Stage, Loaded, NoTable
    <2>2. Resolved(CtlTerms(r.blocked), mem.catalog) /\ Terms(r, mem.catalog) = CanonicalTerms(r.blocked, mem.catalog)
      BY <2>1, RuleResolves DEF BlockedCompiles, Terms
    <2>3. /\ \A s \in Settings(mem.catalog) :
                TermsSay(CtlTerms(r.blocked), mem.catalog, s) <=> \E t \in Terms(r, mem.catalog) : Meets(s, t)
          /\ \A t, u \in Terms(r, mem.catalog) : Implies(t, u) => t = u
      BY <2>1, <2>2, CanonicalIs
    <2>4. ASSUME pc = "compiled", NEW s \in Settings(mem.catalog)
          PROVE  TermsSay(CtlTerms(r.blocked), mem.catalog, s) <=>
                     \E q \in table.rules : q.id = r.id /\ \E m \in q.masks : m \subseteq
                         {BitOf(mem.bits, lit) : lit \in {x \in Literals(mem.catalog) : s[x[1]] >= x[2]}}
      <3>1. Loaded /\ Accepted(table.file) /\ table.rules = CompiledTable(table.file)
        BY <1>2, <2>4 DEF RulesInd, Stage
      <3> QED BY <2>1, <3>1, MasksSay
    <2> QED BY <2>3, <2>4 DEF Meets
  <1> QED BY <1>1, <1>2, RulesInvariant, PTL DEF TableIsExact
=============================================================================
