--------------------------- MODULE TelemetryProofs ---------------------------
(***************************************************************************)
(* Proofs about Telemetry: S4 loses nothing, an instant is called LIVE     *)
(* only where two linked neighbours bracket it within what the calibration *)
(* run makes normal, nothing that was removed on the way hides behind a    *)
(* LIVE verdict, and the temporal pass disputes no more than it must and   *)
(* says truly whether the rest can be satisfied, for every stream, file,   *)
(* profile, span and set of rules.                                         *)
(***************************************************************************)
EXTENDS Telemetry, Induction

-----------------------------------------------------------------------------
\* The orders of the stages

FileOrder(S) == {x \in S \X S : InFileOrder(x[1], x[2])}
BundleOrder(S) == {x \in S \X S : Before(x[1], x[2])}

(* The three orders of the stages. *)
LEMMA FileOrderIs ==
    ASSUME NEW S
    PROVE  Ascending(S, InFileOrder) = <<>> \o AscendingBy(S, FileOrder(S))
  <1> DEFINE c(k) == CHOOSE x \in S : Cardinality({y \in S : InFileOrder(y, x)}) = k - 1
             d(k) == CHOOSE x \in S : Cardinality(Preceding(FileOrder(S), S, x)) = k - 1
  <1>1. \A x \in S : {y \in S : InFileOrder(y, x)} = Preceding(FileOrder(S), S, x)
    BY DEF FileOrder, Preceding
  <1>2. \A k \in 1..Cardinality(S) : c(k) = d(k)
    <2> TAKE k \in 1..Cardinality(S)
    <2> QED BY <1>1, Zenon
  <1>3. Ascending(S, InFileOrder) = <<>> \o [k \in 1..Cardinality(S) |-> c(k)]
    BY Zenon DEF Ascending
  <1>4. AscendingBy(S, FileOrder(S)) = [k \in 1..Cardinality(S) |-> d(k)]
    BY DEF AscendingBy
  <1> HIDE DEF c, d
  <1>5. [k \in 1..Cardinality(S) |-> c(k)] = [k \in 1..Cardinality(S) |-> d(k)]
    BY <1>2
  <1> QED BY <1>3, <1>4, <1>5, Zenon

LEMMA BundleOrderIs ==
    ASSUME NEW S
    PROVE  InOrder(S) = <<>> \o AscendingBy(S, BundleOrder(S))
  <1> DEFINE c(k) == CHOOSE x \in S : Cardinality({y \in S : Before(y, x)}) = k - 1
             d(k) == CHOOSE x \in S : Cardinality(Preceding(BundleOrder(S), S, x)) = k - 1
  <1>1. \A x \in S : {y \in S : Before(y, x)} = Preceding(BundleOrder(S), S, x)
    BY DEF BundleOrder, Preceding
  <1>2. \A k \in 1..Cardinality(S) : c(k) = d(k)
    <2> TAKE k \in 1..Cardinality(S)
    <2> QED BY <1>1, Zenon
  <1>3. InOrder(S) = <<>> \o [k \in 1..Cardinality(S) |-> c(k)]
    BY Zenon DEF InOrder, Ascending
  <1>4. AscendingBy(S, BundleOrder(S)) = [k \in 1..Cardinality(S) |-> d(k)]
    BY DEF AscendingBy
  <1> HIDE DEF c, d
  <1>5. [k \in 1..Cardinality(S) |-> c(k)] = [k \in 1..Cardinality(S) |-> d(k)]
    BY <1>2
  <1> QED BY <1>3, <1>4, <1>5, Zenon

LEMMA NumberOrderIs ==
    ASSUME NEW S
    PROVE  Ascending(S, <) = <<>> \o AscendingBy(S, NumberOrder(S))
  <1> DEFINE c(k) == CHOOSE x \in S : Cardinality({y \in S : y < x}) = k - 1
             d(k) == CHOOSE x \in S : Cardinality(Preceding(NumberOrder(S), S, x)) = k - 1
  <1>1. \A x \in S : {y \in S : y < x} = Preceding(NumberOrder(S), S, x)
    BY DEF NumberOrder, Preceding
  <1>2. \A k \in 1..Cardinality(S) : c(k) = d(k)
    <2> TAKE k \in 1..Cardinality(S)
    <2> QED BY <1>1, Zenon
  <1>3. Ascending(S, <) = <<>> \o [k \in 1..Cardinality(S) |-> c(k)]
    BY Zenon DEF Ascending
  <1>4. AscendingBy(S, NumberOrder(S)) = [k \in 1..Cardinality(S) |-> d(k)]
    BY DEF AscendingBy
  <1> HIDE DEF c, d
  <1>5. [k \in 1..Cardinality(S) |-> c(k)] = [k \in 1..Cardinality(S) |-> d(k)]
    BY <1>2
  <1> QED BY <1>3, <1>4, <1>5, Zenon

\* Records of declared sources, no two with one number.
Keyed(S) ==
    /\ IsFiniteSet(S)
    /\ \A r \in S : WellFormed(r)
    /\ \A r, q \in S : r.src = q.src /\ r.seq = q.seq => r = q

LEMMA FileOrderStrict ==
    ASSUME NEW S, Keyed(S)
    PROVE  StrictOrder(FileOrder(S), S)
  <1>1. \A r \in S : r.src \in Int /\ r.seq \in Int /\ r.t \in Int
    <2> TAKE r \in S
    <2>1. r.src \in Sources /\ r.seq \in Nat /\ r.t \in Int
      BY DEF Keyed, WellFormed
    <2>2. Sources \subseteq Int
      BY SourcesAssumption
    <2>3. r.src \in Int
      BY <2>1, <2>2, Zenon
    <2> QED BY <2>1, <2>3
  <1>2. \A x \in S : <<x, x>> \notin FileOrder(S)
    BY <1>1 DEF FileOrder, InFileOrder
  <1>3. \A x, y, z \in S : <<x, y>> \in FileOrder(S) /\ <<y, z>> \in FileOrder(S) => <<x, z>> \in FileOrder(S)
    BY <1>1 DEF FileOrder, InFileOrder
  <1>4. \A x, y \in S : x = y \/ <<x, y>> \in FileOrder(S) \/ <<y, x>> \in FileOrder(S)
    BY <1>1 DEF FileOrder, InFileOrder, Keyed
  <1> QED BY <1>2, <1>3, <1>4 DEF StrictOrder

LEMMA BundleOrderStrict ==
    ASSUME NEW S, Keyed(S), NEW s, \A r \in S : r.src = s
    PROVE  StrictOrder(BundleOrder(S), S)
  <1>1. \A r \in S : r.seq \in Int /\ r.t \in Int
    BY DEF Keyed, WellFormed
  <1>2. \A x \in S : <<x, x>> \notin BundleOrder(S)
    BY <1>1 DEF BundleOrder, Before
  <1>3. \A x, y, z \in S : <<x, y>> \in BundleOrder(S) /\ <<y, z>> \in BundleOrder(S) => <<x, z>> \in BundleOrder(S)
    BY <1>1 DEF BundleOrder, Before
  <1>4. \A x, y \in S : x = y \/ <<x, y>> \in BundleOrder(S) \/ <<y, x>> \in BundleOrder(S)
    BY <1>1 DEF BundleOrder, Before, Keyed
  <1> QED BY <1>2, <1>3, <1>4 DEF StrictOrder

(* The list S3 writes holds each record once. *)
LEMMA FileLists ==
    ASSUME NEW S, Keyed(S)
    PROVE  /\ Lists(Ascending(S, InFileOrder), FileOrder(S), S)
           /\ Ascending(S, InFileOrder) \in Seq(S) /\ Len(Ascending(S, InFileOrder)) = Cardinality(S)
  BY FileOrderIs, FileOrderStrict, AscendingLists, Zenon DEF Keyed

(* The records of one source, in the order of the bundle. *)
LEMMA BundleLists ==
    ASSUME NEW S, Keyed(S), NEW s, \A r \in S : r.src = s
    PROVE  /\ Lists(InOrder(S), BundleOrder(S), S)
           /\ InOrder(S) \in Seq(S) /\ Len(InOrder(S)) = Cardinality(S)
  <1>1. IsFiniteSet(S) /\ StrictOrder(BundleOrder(S), S)
    BY BundleOrderStrict DEF Keyed
  <1> QED BY <1>1, BundleOrderIs, AscendingLists, Zenon

\* e seals the n records of S in the order q.
Seals(e, q, n, class, S) ==
    /\ n \in Nat /\ q \in [1..n -> S] /\ q \in Seq(S) /\ Len(q) = n
    /\ e \in Seq(Range(e)) /\ Len(e) = n /\ DOMAIN e = 1..n
    /\ \A k \in 1..n :
          /\ e[k].rec = q[k]
          /\ e[k].prev = IF class = "NONE" THEN <<>> ELSE SubSeq(q, 1, k - 1)
          /\ e[k].hash = IF class = "NONE" THEN <<>> ELSE SubSeq(q, 1, k)
    /\ \A j, k \in 1..n : j < k => q[j].t <= q[k].t /\ q[j] # q[k]
    /\ \A r \in S : \E k \in 1..n : q[k] = r

(* What S4 seals of one source: its records in order, each with the ones   *)
(* before it as its link and the ones up to it as its own.                 *)
LEMMA SealedIs ==
    ASSUME NEW S, Keyed(S), NEW s, \A r \in S : r.src = s, NEW class
    PROVE  Seals(Sealed(S, class), InOrder(S), Cardinality(S), class, S)
  <1> DEFINE q == InOrder(S)
             e == Sealed(S, class)
             n == Cardinality(S)
  <1>1. n \in Nat /\ IsFiniteSet(S)
    BY FS_CardinalityType DEF Keyed
  <1>2. Lists(q, BundleOrder(S), S) /\ q \in Seq(S) /\ Len(q) = n
    BY BundleLists, Zenon
  <1>3. q \in [1..n -> S] /\ \A r \in S : \E k \in 1..n : q[k] = r
    BY <1>2 DEF Lists
  <1>4. e = [k \in DOMAIN q |->
               [rec |-> q[k],
                prev |-> IF class = "NONE" THEN <<>> ELSE SubSeq(q, 1, k - 1),
                hash |-> IF class = "NONE" THEN <<>> ELSE SubSeq(q, 1, k)]]
    BY Zenon DEF Sealed
  <1>5. ASSUME NEW j \in 1..n, NEW k \in 1..n, j < k PROVE q[j].t <= q[k].t /\ q[j] # q[k]
    <2>1. <<q[j], q[k]>> \in BundleOrder(S)
      BY <1>2, <1>5 DEF Lists
    <2>2. q[j] \in S /\ q[k] \in S
      BY <1>3
    <2>3. q[j].t \in Int /\ q[k].t \in Int /\ q[j].seq \in Int /\ q[k].seq \in Int
      BY <2>2 DEF Keyed, WellFormed
    <2>4. q[j].t < q[k].t \/ (q[j].t = q[k].t /\ q[j].seq < q[k].seq)
      BY <2>1, <2>2 DEF BundleOrder, Before
    <2> QED BY <2>3, <2>4
  <1> HIDE DEF q, n
  <1>6. DOMAIN q = 1..n
    BY <1>3
  <1>7. DOMAIN e = 1..n
    BY <1>4, <1>6
  <1>8. \A k \in 1..n :
          /\ e[k].rec = q[k]
          /\ e[k].prev = IF class = "NONE" THEN <<>> ELSE SubSeq(q, 1, k - 1)
          /\ e[k].hash = IF class = "NONE" THEN <<>> ELSE SubSeq(q, 1, k)
    BY <1>4, <1>6
  <1>9. e = [k \in 1..n |-> e[k]]
    BY <1>4, <1>6, <1>7
  <1> HIDE DEF e
  <1>10. e \in Seq(Range(e)) /\ Len(e) = n
    <2>1. \A k \in 1..n : e[k] \in Range(e)
      BY <1>7 DEF Range
    <2>2. e \in [1..n -> Range(e)]
      BY <1>9, <2>1
    <2> QED BY <1>1, <2>2
  <1>11. Seals(e, q, n, class, S)
    BY <1>1, <1>2, <1>3, <1>5, <1>7, <1>8, <1>10 DEF Seals
  <1> QED BY <1>11 DEF q, e, n

-----------------------------------------------------------------------------
\* S3: what the operators leave is a stream that S4 can read

(* A stream of the generator, and any part of it, numbers no two records   *)
(* of a source alike.                                                      *)
LEMMA NumberedKeyed ==
    ASSUME NEW S, Numbered(S), NEW T \in SUBSET S
    PROVE  Keyed(T)
  <1>1. IsFiniteSet(T)
    BY FS_Subset DEF Numbered
  <1>2. \A r, q \in T : r.src = q.src /\ r.seq = q.seq => r = q
    BY DEF Numbered, Of
  <1> QED BY <1>1, <1>2 DEF Keyed, Numbered

LEMMA BackdatedKeyed ==
    ASSUME NEW S, Numbered(S), NEW r \in S, NEW d \in Int
    PROVE  Keyed(Backdated(S, r, d))
  <1> DEFINE a == [r EXCEPT !.t = @ + d]
             B == Backdated(S, r, d)
  <1>1. WellFormed(r) /\ Keyed(S)
    BY NumberedKeyed DEF Numbered
  <1>2. WellFormed(a) /\ a.src = r.src /\ a.seq = r.seq
    BY <1>1 DEF WellFormed, Fields
  <1> HIDE DEF a
  <1>3. B = (S \ {r}) \cup {a}
    BY DEF Backdated, a
  <1> HIDE DEF B
  <1>4. IsFiniteSet(B)
    <2>1. IsFiniteSet(S)
      BY <1>1 DEF Keyed
    <2>2. IsFiniteSet(S \ {r})
      BY <2>1, FS_RemoveElement, Zenon
    <2> QED BY <1>3, <2>2, FS_AddElement, Zenon
  <1>5. \A x \in B : WellFormed(x)
    BY <1>1, <1>2, <1>3 DEF Keyed
  <1>6. \A x, y \in B : x.src = y.src /\ x.seq = y.seq => x = y
    BY <1>1, <1>2, <1>3 DEF Keyed
  <1>7. Keyed(B)
    BY <1>4, <1>5, <1>6 DEF Keyed
  <1> QED BY <1>7 DEF B

\* What `strip' makes of one record.
StrippedRecord(r, s, keys) == IF r.src = s THEN [r EXCEPT !.attrs = @ \ keys] ELSE r

LEMMA StrippedRecordIs ==
    ASSUME NEW r, WellFormed(r), NEW s, NEW keys
    PROVE  LET a == StrippedRecord(r, s, keys)
           IN WellFormed(a) /\ a.src = r.src /\ a.seq = r.seq /\ a.t = r.t
  <1> DEFINE b == [r EXCEPT !.attrs = @ \ keys]
  <1>1. WellFormed(b) /\ b.src = r.src /\ b.seq = r.seq /\ b.t = r.t
    BY DEF WellFormed, Fields
  <1> HIDE DEF b
  <1>2. StrippedRecord(r, s, keys) = IF r.src = s THEN b ELSE r
    BY DEF StrippedRecord, b
  <1> QED BY <1>1, <1>2

LEMMA StrippedKeyed ==
    ASSUME NEW S, Numbered(S), NEW s, NEW keys
    PROVE  /\ Keyed(Stripped(S, s, keys))
           /\ Stripped(S, s, keys) = {StrippedRecord(r, s, keys) : r \in S}
  <1> DEFINE B == Stripped(S, s, keys)
             g == [r \in S |-> StrippedRecord(r, s, keys)]
  <1>1. Keyed(S)
    BY NumberedKeyed
  <1>2. B = {StrippedRecord(r, s, keys) : r \in S}
    BY Zenon DEF Stripped, StrippedRecord
  <1>3. \A r \in S : g[r] = StrippedRecord(r, s, keys)
    OBVIOUS
  <1>4. \A r \in S : WellFormed(g[r]) /\ g[r].src = r.src /\ g[r].seq = r.seq
    BY <1>1, <1>3, StrippedRecordIs DEF Keyed
  <1>5. B = Imaged(g, S)
    BY <1>2 DEF Imaged
  <1> HIDE DEF g
  <1> HIDE DEF B
  <1>6. IsFiniteSet(B)
    <2>1. IsFiniteSet(S)
      BY <1>1 DEF Keyed
    <2> QED BY <1>5, <2>1, ImageFinite, Zenon
  <1>7. \A x \in B : \E r \in S : x = g[r]
    BY <1>5 DEF Imaged
  <1>8. \A x \in B : WellFormed(x)
    BY <1>4, <1>7
  <1>9. \A x, y \in B : x.src = y.src /\ x.seq = y.seq => x = y
    <2> TAKE x, y \in B
    <2> HAVE x.src = y.src /\ x.seq = y.seq
    <2>1. PICK r \in S : x = g[r]
      BY <1>7
    <2>2. PICK q \in S : y = g[q]
      BY <1>7
    <2>3. r.src = q.src /\ r.seq = q.seq
      BY <1>4, <2>1, <2>2
    <2> QED BY <1>1, <2>1, <2>2, <2>3 DEF Keyed
  <1>10. Keyed(B)
    BY <1>6, <1>8, <1>9 DEF Keyed
  <1> QED BY <1>2, <1>10 DEF B

\* What `chain_forge' makes: the record with its number moved up, and a made-up one.
Raised(r, n) == [r EXCEPT !.seq = @ + n]
MadeUp(host, step, k) ==
    [src |-> host.src, seq |-> host.seq + k, t |-> host.t + step * k, type |-> host.type, attrs |-> {}]

LEMMA RaisedIs ==
    ASSUME NEW r, WellFormed(r), NEW n \in Nat
    PROVE  WellFormed(Raised(r, n)) /\ Raised(r, n).src = r.src /\ Raised(r, n).seq = r.seq + n /\ Raised(r, n).t = r.t
  BY DEF WellFormed, Raised, Fields

LEMMA ForgedKeyed ==
    ASSUME NEW S, Numbered(S), NEW host \in S, NEW count \in Nat \ {0}, ForgeAccepts(S, host, count)
    PROVE  /\ Keyed(Forged(S, host, count))
           /\ \A r \in S : \E x \in Forged(S, host, count) : x.src = r.src /\ x.t = r.t
  <1> DEFINE later == {r \in Of(S, host.src) : r.seq > host.seq}
             next == CHOOSE r \in later : \A q \in later : r.seq <= q.seq
             step == (next.t - host.t) \div (count + 1)
             A == S \ later
             U == {Raised(r, count) : r \in later}
             M == {MadeUp(host, step, k) : k \in 1..count}
             B == Forged(S, host, count)
  <1>0. B = A \cup U \cup M
    BY Zenon DEF Forged, Raised, MadeUp
  <1>1. Keyed(S) /\ later \subseteq S
    BY NumberedKeyed DEF Of
  <1>2. \A r \in S : WellFormed(r) /\ r.src \in Sources /\ r.seq \in Nat /\ r.t \in Int
    BY <1>1 DEF Keyed, WellFormed
  <1>3. next \in later
    <2>1. PICK r \in later : \A q \in later : r.seq <= q.seq
      BY DEF ForgeAccepts, Of
    <2> HIDE DEF later
    <2> QED BY <2>1, Zenon
  <1>4. step \in Int
    <2>1. next.t - host.t \in Int /\ count + 1 \in Nat \ {0}
      BY <1>1, <1>2, <1>3
    <2> HIDE DEF next
    <2> QED BY <2>1
  <1>5. \A r \in later : r.src = host.src /\ r.seq > host.seq
    BY DEF Of
  <1>6. \A r \in A : r.src = host.src => r.seq <= host.seq
    BY <1>2 DEF Of
  <1>7. IsFiniteSet(later) /\ IsFiniteSet(A)
    BY <1>1, FS_Subset, FS_Difference DEF Keyed
  <1> HIDE DEF later, next, step, B
  <1>8. IsFiniteSet(U)
    <2> DEFINE g == [r \in later |-> Raised(r, count)]
    <2>1. U = Imaged(g, later)
      BY DEF Imaged
    <2> HIDE DEF g, U
    <2> QED BY <1>7, <2>1, ImageFinite, Zenon
  <1>9. IsFiniteSet(M)
    <2> DEFINE g == [k \in 1..count |-> MadeUp(host, step, k)]
    <2>1. M = Imaged(g, 1..count)
      BY DEF Imaged
    <2>2. IsFiniteSet(1..count)
      BY FS_Interval
    <2> HIDE DEF g, M
    <2> QED BY <2>1, <2>2, ImageFinite, Zenon
  <1>10. ASSUME NEW x \in U
         PROVE  WellFormed(x) /\ x.src = host.src /\ x.seq > host.seq + count
                   /\ \E r \in later : x = Raised(r, count) /\ x.seq = r.seq + count /\ x.t = r.t
    <2>1. PICK r \in later : x = Raised(r, count)
      OBVIOUS
    <2>2. WellFormed(r) /\ r \in S
      BY <1>1, <1>2
    <2>3. WellFormed(x) /\ x.src = r.src /\ x.seq = r.seq + count /\ x.t = r.t
      BY <2>1, <2>2, RaisedIs
    <2> QED BY <1>2, <1>5, <2>1, <2>2, <2>3
  <1>11. ASSUME NEW x \in M
         PROVE  /\ WellFormed(x) /\ x.src = host.src
                /\ \E k \in 1..count : x = MadeUp(host, step, k) /\ x.seq = host.seq + k
    <2>1. PICK k \in 1..count : x = MadeUp(host, step, k)
      OBVIOUS
    <2>2. step * k \in Int
      BY <1>4
    <2>3. x.src = host.src /\ x.seq = host.seq + k /\ x.t = host.t + step * k
      BY <2>1 DEF MadeUp
    <2>4. DOMAIN x = Fields
      BY <2>1 DEF MadeUp, Fields
    <2> QED BY <1>2, <2>1, <2>2, <2>3, <2>4 DEF WellFormed
  <1> HIDE DEF A, U, M
  <1>12. A \subseteq S
    BY DEF A
  <1>13. IsFiniteSet(B)
    BY <1>0, <1>7, <1>8, <1>9, FS_Union
  <1>14. \A x \in B : WellFormed(x)
    BY <1>0, <1>2, <1>10, <1>11, <1>12
  <1>15. ASSUME NEW x \in B, NEW y \in B, x.src = y.src, x.seq = y.seq PROVE x = y
    <2>0. host.seq \in Nat
      BY <1>2
    <2>1. ASSUME NEW a \in A, NEW b \in U \cup M, a.src = b.src, a.seq = b.seq PROVE FALSE
      <3>1. a.src = host.src /\ b.seq > host.seq
        <4>1. CASE b \in U
          <5>1. b.seq \in Nat /\ b.src = host.src /\ b.seq > host.seq + count
            BY <1>10, <4>1 DEF WellFormed
          <5> QED BY <2>0, <2>1, <5>1
        <4>2. CASE b \in M
          BY <1>11, <2>0, <2>1, <4>2
        <4> QED BY <4>1, <4>2, Zenon
      <3> QED BY <1>2, <1>6, <1>12, <2>0, <2>1, <3>1
    <2>2. ASSUME NEW a \in U, NEW b \in M, a.src = b.src, a.seq = b.seq PROVE FALSE
      BY <1>10, <1>11, <2>0, <2>2
    <2>3. CASE x \in A /\ y \in A
      BY <1>1, <1>12, <1>15, <2>3 DEF Keyed
    <2>4. CASE x \in U /\ y \in U
      <3>1. PICK r \in later : x = Raised(r, count) /\ x.seq = r.seq + count
        BY <1>10, <2>4
      <3>2. PICK q \in later : y = Raised(q, count) /\ y.seq = q.seq + count
        BY <1>10, <2>4
      <3>3. r \in S /\ q \in S /\ r.src = q.src
        BY <1>1, <1>5
      <3>4. r.seq = q.seq
        BY <1>2, <1>15, <3>1, <3>2, <3>3
      <3> QED BY <1>1, <3>1, <3>2, <3>3, <3>4 DEF Keyed
    <2>5. CASE x \in M /\ y \in M
      <3>1. PICK k \in 1..count : x = MadeUp(host, step, k) /\ x.seq = host.seq + k
        BY <1>11, <2>5
      <3>2. PICK j \in 1..count : y = MadeUp(host, step, j) /\ y.seq = host.seq + j
        BY <1>11, <2>5
      <3> QED BY <1>15, <2>0, <3>1, <3>2
    <2> QED BY <1>0, <1>15, <2>1, <2>2, <2>3, <2>4, <2>5, Zenon
  <1>16. Keyed(B)
    BY <1>13, <1>14, <1>15 DEF Keyed
  <1>17. ASSUME NEW r \in S PROVE \E x \in B : x.src = r.src /\ x.t = r.t
    <2>1. CASE r \in later
      <3>1. Raised(r, count) \in U
        BY <2>1 DEF U
      <3> QED BY <1>0, <1>2, <3>1, RaisedIs
    <2>2. CASE r \notin later
      BY <1>0, <2>2 DEF A
    <2> QED BY <2>1, <2>2
  <1> QED BY <1>16, <1>17 DEF B

-----------------------------------------------------------------------------
\* What is known of the file and of the bundle, at every step

Line(f, k) == [n |-> k, rec |-> f[k].rec, defects |-> f[k].defects]
ReadOf(f, n) == {[n |-> k, rec |-> f[k].rec] : k \in {j \in 1..n : f[j].defects = {}}}
RefusedOf(f, n) == {[n |-> k, reason |-> Reason(Line(f, k))] : k \in {j \in 1..n : f[j].defects # {}}}

SealedOf(c) == [s \in Sources |-> Sealed(Of(Kept(c), s), Class[s])]
Short(whole) == UNION {{[whole EXCEPT ![s] = RemoveAt(@, k)] : k \in DOMAIN whole[s]} : s \in Sources}

Sound(f) == f \in Seq(Range(f)) /\ \A k \in DOMAIN f : f[k].defects = {} => WellFormed(f[k].rec)

FileInv(f, n, c, q, p) ==
    /\ Sound(f) /\ n \in 0..Len(f) /\ c = ReadOf(f, n)
    /\ p = "emitted" => f = <<>>
    /\ p \in {"emitted", "raw"} => q = RefusedOf(f, n)
    /\ p \in {"sealed", "calibrated", "judged", "done", "passed"} =>
          n = Len(f) /\ q = RefusedOf(f, n) \cup CrossDrops(c)

BundleInv(b, c, p, lost) ==
    /\ lost \in BOOLEAN
    /\ p \in {"emitted", "raw"} => b = EmptyBundle /\ lost = FALSE
    /\ p \in {"sealed", "calibrated", "judged", "done", "passed"} =>
          IF lost THEN b \in Short(SealedOf(c)) ELSE b = SealedOf(c)
    /\ b = EmptyBundle \/ b = SealedOf(c) \/ b \in Short(SealedOf(c))

\* What each operator of S3 wrote.
Written(f, o, e) ==
    /\ o \in {"delete", "blackout"} => \E kept \in SUBSET e : f = FileOf(kept)
    /\ o = "backdate" => \E r \in e, d \in Shifts : f = FileOf(Backdated(e, r, d))
    /\ o = "strip" => \E s \in Sources : f = FileOf(Stripped(e, s, UNION {r.attrs : r \in e}))
    /\ o = "forge" => \E host \in e, n \in ForgedCounts : ForgeAccepts(e, host, n) /\ f = FileOf(Forged(e, host, n))

IntakeInd ==
    /\ emitted \in Streams
    /\ phase \in {"emitted", "raw", "sealed", "calibrated", "judged", "done", "passed", "aborted"}
    /\ op \in {"none", "delete", "blackout", "backdate", "strip", "forge", "external"}
    /\ op = "none" <=> phase = "emitted"
    /\ used.flags \in Flags \cup {NoFlags}
    /\ FileInv(file, pos, cands, quarantine, phase)
    /\ BundleInv(bundle, cands, phase, cut)
    /\ Written(file, op, emitted)

\* The body of a profile file that loads is the one some run was given.
ProfileInv(f, rs, p) ==
    /\ f = [body |-> f.body, id |-> f.id]
    /\ p \in {"calibrated", "judged", "done"} /\ LoadProfile(f) =>
          \/ \E c \in Calibrations : f.body = BuildProfile(c.reference, c.degspec, c.scenario, c.collapse)
          \/ f.body = BuildProfile(rs, Identity, Scenario, FALSE)
    /\ p \in {"emitted", "raw", "sealed"} => f = NoProfile

\* What the pass was given and returned, for a caller with rule instances.
PassInv(result, rs, rules) ==
    /\ result \in RunPass(rs, rules, ExactCap)
    /\ rules \in SUBSET RuleSeqs /\ rules # {}
    /\ \A i \in rules : i.left \in rs /\ i.right \in rs

JudgeInd ==
    /\ ProfileInv(profile, Records, phase)
    /\ used = [flags |-> used.flags, rules |-> used.rules]
    /\ phase \in {"judged", "done"} => used.flags \in Flags /\ used.rules = {}
    /\ phase = "judged" =>
          /\ doc = Document(bundle, profile.body, used.flags, {})
          /\ \/ used.flags.noProfile
             \/ /\ LoadProfile(profile)
                /\ \E seed \in Seeds : FailedGates(profile.body, Records, seed, Scenario) = {}
    /\ phase = "done" =>
          /\ found \in RunPass(Records, {}, ExactCap)
          /\ doc = Disputed(Document(bundle, profile.body, used.flags, {}), found.events)
    /\ phase = "passed" => PassInv(found, Records, used.rules)

(* The file S3 writes holds the records it was given, each on one line.    *)
LEMMA FileOfIs ==
    ASSUME NEW S, Keyed(S)
    PROVE  LET f == FileOf(S)
           IN /\ Sound(f) /\ Len(f) = Cardinality(S)
              /\ \A k \in 1..Len(f) : f[k].defects = {} /\ f[k].rec \in S
              /\ \A r \in S : \E k \in 1..Len(f) : f[k].rec = r
  <1> DEFINE q == Ascending(S, InFileOrder)
             n == Cardinality(S)
             f == FileOf(S)
  <1>1. n \in Nat
    BY FS_CardinalityType DEF Keyed
  <1>2. Lists(q, FileOrder(S), S)
    BY FileLists, Zenon
  <1>3. q \in [1..n -> S] /\ \A r \in S : \E k \in 1..n : q[k] = r
    BY <1>2 DEF Lists
  <1>4. f = [k \in DOMAIN q |-> [rec |-> q[k], defects |-> {}]]
    BY Zenon DEF FileOf
  <1> HIDE DEF q, n
  <1>5. DOMAIN f = 1..n /\ \A k \in 1..n : f[k].rec = q[k] /\ f[k].defects = {}
    BY <1>3, <1>4
  <1>6. f = [k \in 1..n |-> f[k]]
    BY <1>3, <1>4
  <1> HIDE DEF f
  <1>7. f \in Seq(Range(f)) /\ Len(f) = n
    <2>1. \A k \in 1..n : f[k] \in Range(f)
      BY <1>5 DEF Range
    <2>2. f \in [1..n -> Range(f)]
      BY <1>6, <2>1
    <2> QED BY <1>1, <2>2
  <1>8. Sound(f)
    <2>1. \A k \in 1..n : q[k] \in S
      BY <1>3
    <2>2. \A r \in S : WellFormed(r)
      BY DEF Keyed
    <2> QED BY <1>5, <1>7, <2>1, <2>2 DEF Sound
  <1>9. \A k \in 1..n : f[k].defects = {} /\ f[k].rec \in S
    BY <1>3, <1>5
  <1>10. \A r \in S : \E k \in 1..n : f[k].rec = r
    BY <1>3, <1>5
  <1>11. Sound(f) /\ Len(f) = n
    BY <1>7, <1>8
  <1> QED BY <1>9, <1>10, <1>11, Zenon DEF f, n

\* What the actions of S3 leave in the file.
LEMMA WriteKeeps ==
    ASSUME IntakeInd, NEW name \in {"delete", "blackout", "backdate", "strip", "forge"}, NEW S, Keyed(S),
           Write(name, S), Written(FileOf(S), name, emitted)
    PROVE  IntakeInd'
  <1>1. /\ phase = "emitted" /\ phase' = "raw" /\ op' = name /\ file' = FileOf(S)
        /\ UNCHANGED <<emitted, pos, cands, quarantine, bundle, cut, used>>
    BY DEF Write
  <1>2. file = <<>> /\ pos = 0 /\ cands = {} /\ quarantine = {}
    BY <1>1 DEF IntakeInd, FileInv, ReadOf, RefusedOf
  <1>3. Sound(file') /\ Len(file') \in Nat
    BY <1>1, FileOfIs, FS_CardinalityType DEF Keyed
  <1>4. ReadOf(file', 0) = {} /\ RefusedOf(file', 0) = {}
    BY DEF ReadOf, RefusedOf
  <1>5. FileInv(file, pos, cands, quarantine, phase)'
    BY <1>1, <1>2, <1>3, <1>4 DEF FileInv
  <1>6. BundleInv(bundle, cands, phase, cut)'
    BY <1>1 DEF IntakeInd, BundleInv
  <1>7. Written(file, op, emitted)'
    BY <1>1
  <1> QED BY <1>1, <1>5, <1>6, <1>7 DEF IntakeInd

LEMMA IntakeStart == Init => IntakeInd
  <1> SUFFICES ASSUME Init PROVE IntakeInd
    OBVIOUS
  <1>1. /\ emitted \in Streams /\ phase = "emitted" /\ op = "none" /\ file = <<>> /\ pos = 0
        /\ cands = {} /\ quarantine = {} /\ bundle = EmptyBundle /\ cut = FALSE
        /\ used = [flags |-> NoFlags, rules |-> {}]
    BY DEF Init
  <1>2. Sound(file) /\ Len(file) = 0
    BY <1>1 DEF Sound, Range
  <1>3. ReadOf(file, 0) = {} /\ RefusedOf(file, 0) = {}
    BY DEF ReadOf, RefusedOf
  <1>4. FileInv(file, pos, cands, quarantine, phase)
    BY <1>1, <1>2, <1>3 DEF FileInv
  <1>5. BundleInv(bundle, cands, phase, cut)
    BY <1>1 DEF BundleInv
  <1>6. Written(file, op, emitted)
    BY <1>1 DEF Written
  <1> QED BY <1>1, <1>4, <1>5, <1>6 DEF IntakeInd

\* The actions of S3 itself.
LEMMA DegradeKeeps ==
    ASSUME IntakeInd, Degrade \/ Blackout \/ Backdate \/ StripIdentity \/ ChainForge
    PROVE  IntakeInd'
  <1>1. Numbered(emitted) /\ emitted \in Streams
    BY StreamsAssumption DEF IntakeInd
  <1>2. CASE Degrade
    <2>1. PICK gone \in SUBSET emitted : Write("delete", emitted \ gone)
      BY <1>2 DEF Degrade
    <2> DEFINE S == emitted \ gone
    <2>2. S \in SUBSET emitted
      OBVIOUS
    <2>3. Keyed(S)
      BY <1>1, <2>2, NumberedKeyed
    <2>4. Written(FileOf(S), "delete", emitted)
      BY <2>2 DEF Written
    <2> HIDE DEF S
    <2>5. Write("delete", S)
      BY <2>1 DEF S
    <2> QED BY <2>3, <2>4, <2>5, WriteKeeps
  <1>3. CASE Blackout
    <2>1. PICK b \in Blackouts : Write("blackout", emitted \ BlackedOut(emitted, b.sources, b.lo, b.hi))
      BY <1>3 DEF Blackout
    <2> DEFINE S == emitted \ BlackedOut(emitted, b.sources, b.lo, b.hi)
    <2>2. S \in SUBSET emitted
      OBVIOUS
    <2>3. Keyed(S)
      BY <1>1, <2>2, NumberedKeyed
    <2>4. Written(FileOf(S), "blackout", emitted)
      BY <2>2 DEF Written
    <2> HIDE DEF S
    <2>5. Write("blackout", S)
      BY <2>1 DEF S
    <2> QED BY <2>3, <2>4, <2>5, WriteKeeps
  <1>4. CASE Backdate
    <2>1. PICK r \in emitted, d \in Shifts : Write("backdate", Backdated(emitted, r, d))
      BY <1>4 DEF Backdate
    <2> DEFINE S == Backdated(emitted, r, d)
    <2>2. d \in Int
      BY ChoicesAssumption
    <2>3. Keyed(S)
      BY <1>1, <2>2, BackdatedKeyed
    <2>4. Written(FileOf(S), "backdate", emitted)
      BY DEF Written
    <2> HIDE DEF S
    <2>5. Write("backdate", S)
      BY <2>1 DEF S
    <2> QED BY <2>3, <2>4, <2>5, WriteKeeps
  <1>5. CASE StripIdentity
    <2> DEFINE keys == UNION {r.attrs : r \in emitted}
    <2>1. PICK s \in Sources : Write("strip", Stripped(emitted, s, keys))
      BY <1>5, Zenon DEF StripIdentity
    <2> DEFINE S == Stripped(emitted, s, keys)
    <2>2. Keyed(S)
      BY <1>1, StrippedKeyed
    <2>3. Written(FileOf(S), "strip", emitted)
      BY DEF Written
    <2> HIDE DEF S
    <2>4. Write("strip", S)
      BY <2>1 DEF S
    <2> QED BY <2>2, <2>3, <2>4, WriteKeeps
  <1>6. CASE ChainForge
    <2>1. PICK host \in emitted, n \in ForgedCounts :
              ForgeAccepts(emitted, host, n) /\ Write("forge", Forged(emitted, host, n))
      BY <1>6 DEF ChainForge
    <2> DEFINE S == Forged(emitted, host, n)
    <2>2. n \in Nat \ {0}
      BY ChoicesAssumption
    <2>3. Keyed(S)
      BY <1>1, <2>1, <2>2, ForgedKeyed
    <2>4. Written(FileOf(S), "forge", emitted)
      BY <2>1, Zenon DEF Written
    <2> HIDE DEF S
    <2>5. Write("forge", S)
      BY <2>1 DEF S
    <2> QED BY <2>3, <2>4, <2>5, WriteKeeps
  <1> QED BY <1>2, <1>3, <1>4, <1>5, <1>6

LEMMA SupplyKeeps ==
    ASSUME IntakeInd, Supply
    PROVE  IntakeInd'
  <1>1. PICK f \in ExternalFiles : file' = f
    BY DEF Supply
  <1>2. /\ phase = "emitted" /\ phase' = "raw" /\ op' = "external"
        /\ UNCHANGED <<emitted, pos, cands, quarantine, bundle, cut, used>>
    BY DEF Supply
  <1>3. file = <<>> /\ pos = 0 /\ cands = {} /\ quarantine = {}
    BY <1>2 DEF IntakeInd, FileInv, ReadOf, RefusedOf
  <1>4. Sound(file')
    BY <1>1, FilesAssumption DEF Sound
  <1>5. Len(file') \in Nat
    BY <1>4 DEF Sound
  <1>6. ReadOf(file', 0) = {} /\ RefusedOf(file', 0) = {}
    BY DEF ReadOf, RefusedOf
  <1>7. FileInv(file, pos, cands, quarantine, phase)'
    BY <1>2, <1>3, <1>4, <1>5, <1>6 DEF FileInv
  <1>8. BundleInv(bundle, cands, phase, cut)'
    BY <1>2 DEF IntakeInd, BundleInv
  <1>9. Written(file, op, emitted)'
    BY <1>2 DEF Written
  <1> QED BY <1>2, <1>7, <1>8, <1>9 DEF IntakeInd

(* One more line: it is a candidate, or it is refused.                     *)
LEMMA NextLine ==
    ASSUME NEW f, NEW n \in Nat
    PROVE  /\ ReadOf(f, n + 1) = ReadOf(f, n) \cup
                 (IF f[n + 1].defects = {} THEN {[n |-> n + 1, rec |-> f[n + 1].rec]} ELSE {})
           /\ RefusedOf(f, n + 1) = RefusedOf(f, n) \cup
                 (IF f[n + 1].defects # {} THEN {[n |-> n + 1, reason |-> Reason(Line(f, n + 1))]} ELSE {})
  <1> DEFINE c(k) == [n |-> k, rec |-> f[k].rec]
             d(k) == [n |-> k, reason |-> Reason(Line(f, k))]
             A(m) == {j \in 1..m : f[j].defects = {}}
             B(m) == {j \in 1..m : f[j].defects # {}}
  <1>1. A(n + 1) = A(n) \cup (IF f[n + 1].defects = {} THEN {n + 1} ELSE {})
    OBVIOUS
  <1>2. B(n + 1) = B(n) \cup (IF f[n + 1].defects # {} THEN {n + 1} ELSE {})
    OBVIOUS
  <1>3. \A m : ReadOf(f, m) = {c(k) : k \in A(m)} /\ RefusedOf(f, m) = {d(k) : k \in B(m)}
    BY Zenon DEF ReadOf, RefusedOf
  <1> HIDE DEF A, B, c, d
  <1>4. {c(k) : k \in A(n + 1)} = {c(k) : k \in A(n)} \cup (IF f[n + 1].defects = {} THEN {c(n + 1)} ELSE {})
    BY <1>1
  <1>5. {d(k) : k \in B(n + 1)} = {d(k) : k \in B(n)} \cup (IF f[n + 1].defects # {} THEN {d(n + 1)} ELSE {})
    BY <1>2
  <1>6. /\ ReadOf(f, n + 1) = ReadOf(f, n) \cup (IF f[n + 1].defects = {} THEN {c(n + 1)} ELSE {})
        /\ RefusedOf(f, n + 1) = RefusedOf(f, n) \cup (IF f[n + 1].defects # {} THEN {d(n + 1)} ELSE {})
    BY <1>3, <1>4, <1>5, Zenon
  <1> QED BY <1>6, Zenon DEF c, d

LEMMA ReadLineKeeps ==
    ASSUME IntakeInd, ReadLine
    PROVE  IntakeInd'
  <1>1. /\ phase = "raw" /\ pos < Len(file) /\ pos' = pos + 1
        /\ UNCHANGED <<phase, emitted, op, file, bundle, cut, used>>
    BY DEF ReadLine
  <1>2. Sound(file) /\ pos \in 0..Len(file) /\ cands = ReadOf(file, pos) /\ quarantine = RefusedOf(file, pos)
    BY <1>1 DEF IntakeInd, FileInv
  <1>3. pos \in Nat /\ Len(file) \in Nat /\ pos + 1 \in 0..Len(file)
    BY <1>1, <1>2 DEF Sound
  <1>4. ThisLine = Line(file, pos + 1)
    BY DEF ThisLine, Line
  <1>5. cands' = ReadOf(file, pos + 1) /\ quarantine' = RefusedOf(file, pos + 1)
    <2>1. CASE file[pos + 1].defects = {}
      <3>1. Clean(ThisLine)
        BY <1>4, <2>1 DEF Clean, Line
      <3>2. cands' = cands \cup {[n |-> ThisLine.n, rec |-> ThisLine.rec]} /\ quarantine' = quarantine
        BY <3>1 DEF ReadLine
      <3>3. ThisLine.n = pos + 1 /\ ThisLine.rec = file[pos + 1].rec
        BY <1>4 DEF Line
      <3> DEFINE c == {[n |-> pos + 1, rec |-> file[pos + 1].rec]}
      <3>4. cands' = cands \cup c
        BY <3>2, <3>3
      <3>5. ReadOf(file, pos + 1) = ReadOf(file, pos) \cup c
        BY <1>3, <2>1, NextLine, Zenon
      <3>6. RefusedOf(file, pos + 1) = RefusedOf(file, pos) \cup {}
        BY <1>3, <2>1, NextLine, Zenon
      <3> HIDE DEF c
      <3> QED BY <1>2, <3>2, <3>4, <3>5, <3>6
    <2>2. CASE file[pos + 1].defects # {}
      <3>1. ~Clean(ThisLine)
        BY <1>4, <2>2 DEF Clean, Line
      <3>2. cands' = cands /\ quarantine' = quarantine \cup {[n |-> ThisLine.n, reason |-> Reason(ThisLine)]}
        BY <3>1, Zenon DEF ReadLine
      <3>3. ThisLine.n = pos + 1
        BY <1>4 DEF Line
      <3>4. quarantine' = quarantine \cup {[n |-> pos + 1, reason |-> Reason(Line(file, pos + 1))]}
        BY <1>4, <3>2, <3>3, Zenon
      <3> DEFINE c == {[n |-> pos + 1, reason |-> Reason(Line(file, pos + 1))]}
      <3>5. ReadOf(file, pos + 1) = ReadOf(file, pos) \cup {}
        BY <1>3, <2>2, NextLine, Zenon
      <3>6. RefusedOf(file, pos + 1) = RefusedOf(file, pos) \cup c
        BY <1>3, <2>2, NextLine, Zenon
      <3>7. quarantine' = quarantine \cup c
        BY <3>4
      <3> HIDE DEF c
      <3> QED BY <1>2, <3>2, <3>5, <3>6, <3>7
    <2> QED BY <2>1, <2>2
  <1>6. FileInv(file, pos, cands, quarantine, phase)'
    BY <1>1, <1>2, <1>3, <1>5 DEF FileInv
  <1>7. BundleInv(bundle, cands, phase, cut)'
    BY <1>1 DEF IntakeInd, BundleInv
  <1>8. Written(file, op, emitted)'
    BY <1>1 DEF IntakeInd
  <1> QED BY <1>1, <1>6, <1>7, <1>8 DEF IntakeInd

LEMMA SealKeeps ==
    ASSUME IntakeInd, Seal
    PROVE  IntakeInd'
  <1>1. /\ phase = "raw" /\ pos = Len(file) /\ phase' = "sealed"
        /\ bundle' = SealedOf(cands)
        /\ quarantine' = quarantine \cup CrossDrops(cands)
        /\ UNCHANGED <<emitted, op, file, pos, cands, cut, used>>
    BY Zenon DEF Seal, SealedOf
  <1>2. FileInv(file, pos, cands, quarantine, phase)'
    BY <1>1, Zenon DEF IntakeInd, FileInv
  <1>3. BundleInv(bundle, cands, phase, cut)'
    <2>1. cut = FALSE
      BY <1>1 DEF IntakeInd, BundleInv
    <2> QED BY <1>1, <2>1 DEF BundleInv
  <1>4. Written(file, op, emitted)'
    BY <1>1 DEF IntakeInd
  <1> QED BY <1>1, <1>2, <1>3, <1>4 DEF IntakeInd

LEMMA LoseLineKeeps ==
    ASSUME IntakeInd, LoseLine
    PROVE  IntakeInd'
  <1>1. /\ phase = "sealed" /\ ~cut /\ cut' = TRUE
        /\ UNCHANGED <<phase, emitted, op, file, pos, cands, quarantine, used>>
    BY DEF LoseLine
  <1>2. PICK s \in Sources : \E k \in DOMAIN bundle[s] : bundle' = [bundle EXCEPT ![s] = RemoveAt(@, k)]
    BY DEF LoseLine
  <1>3. bundle = SealedOf(cands)
    BY <1>1 DEF IntakeInd, BundleInv
  <1>4. bundle' \in Short(SealedOf(cands))
    <2> DEFINE w == SealedOf(cands)
               a(x, i) == [w EXCEPT ![x] = RemoveAt(@, i)]
    <2>1. PICK k \in DOMAIN w[s] : bundle' = a(s, k)
      BY <1>2, <1>3
    <2>2. Short(w) = UNION {{a(x, i) : i \in DOMAIN w[x]} : x \in Sources}
      BY Zenon DEF Short
    <2> HIDE DEF w, a
    <2>3. bundle' \in Short(w)
      BY <2>1, <2>2
    <2> QED BY <2>3 DEF w
  <1>5. FileInv(file, pos, cands, quarantine, phase)'
    BY <1>1, Zenon DEF IntakeInd, FileInv
  <1>6. BundleInv(bundle, cands, phase, cut)'
    BY <1>1, <1>4 DEF BundleInv
  <1>7. Written(file, op, emitted)'
    BY <1>1 DEF IntakeInd
  <1> QED BY <1>1, <1>5, <1>6, <1>7 DEF IntakeInd

(* The commands that run over a sealed file leave it alone.                *)
LaterSteps == Calibrate \/ EditProfile \/ Judge \/ Refuse \/ Dispute \/ PassOverRules

LEMMA LaterKeeps ==
    ASSUME IntakeInd, LaterSteps \/ MeetLabel \/ UNCHANGED vars
    PROVE  IntakeInd'
  <1>1. UNCHANGED <<emitted, op, file, pos, cands, quarantine, bundle, cut>>
    BY DEF LaterSteps, MeetLabel, Calibrate, EditProfile, Judge, Refuse, Dispute, PassOverRules, vars
  <1>2. \/ phase' = phase
        \/ phase = "raw" /\ phase' = "aborted"
        \/ phase \in {"sealed", "calibrated", "judged"} /\ phase' \in {"calibrated", "judged", "done", "passed", "aborted"}
    BY DEF LaterSteps, MeetLabel, Calibrate, EditProfile, Judge, Refuse, Dispute, PassOverRules, vars
  <1>3. used'.flags \in Flags \cup {NoFlags}
    <2>1. CASE Judge
      <3>1. PICK f \in Flags : used' = [flags |-> f, rules |-> {}]
        BY <2>1 DEF Judge
      <3> QED BY <3>1
    <2>2. CASE PassOverRules
      <3>1. PICK rules \in SUBSET RuleSeqs : used' = [used EXCEPT !.rules = rules]
        BY <2>2 DEF PassOverRules
      <3>2. used'.flags = used.flags
        BY <3>1
      <3> QED BY <3>2 DEF IntakeInd
    <2>3. CASE ~Judge /\ ~PassOverRules
      <3>1. used' = used
        BY <2>3 DEF LaterSteps, MeetLabel, Calibrate, EditProfile, Refuse, Dispute, vars
      <3> QED BY <3>1 DEF IntakeInd
    <2> QED BY <2>1, <2>2, <2>3
  <1>4. FileInv(file, pos, cands, quarantine, phase)'
    BY <1>1, <1>2 DEF IntakeInd, FileInv
  <1>5. BundleInv(bundle, cands, phase, cut)'
    BY <1>1, <1>2 DEF IntakeInd, BundleInv
  <1>6. Written(file, op, emitted)'
    BY <1>1 DEF IntakeInd
  <1>7. phase' \in {"emitted", "raw", "sealed", "calibrated", "judged", "done", "passed", "aborted"}
        /\ (op' = "none" <=> phase' = "emitted")
    BY <1>1, <1>2 DEF IntakeInd
  <1> QED BY <1>1, <1>3, <1>4, <1>5, <1>6, <1>7 DEF IntakeInd

(* What S4 has read, refused and sealed is a function of the file, at      *)
(* every step.                                                             *)
THEOREM IntakeInvariant == Spec => []IntakeInd
  <1>1. IntakeInd /\ [Next]_vars => IntakeInd'
    <2> SUFFICES ASSUME IntakeInd, [Next]_vars PROVE IntakeInd'
      OBVIOUS
    <2>1. CASE Degrade \/ Blackout \/ Backdate \/ StripIdentity \/ ChainForge
      BY <2>1, DegradeKeeps
    <2>2. CASE Supply
      BY <2>2, SupplyKeeps
    <2>3. CASE ReadLine
      BY <2>3, ReadLineKeeps
    <2>4. CASE Seal
      BY <2>4, SealKeeps
    <2>5. CASE LoseLine
      BY <2>5, LoseLineKeeps
    <2>6. CASE LaterSteps \/ MeetLabel \/ UNCHANGED vars
      BY <2>6, LaterKeeps
    <2> QED BY <2>1, <2>2, <2>3, <2>4, <2>5, <2>6, Zenon DEF Next, Done, LaterSteps
  <1> QED BY <1>1, IntakeStart, PTL DEF Spec

-----------------------------------------------------------------------------
\* What S4 promises

(* The candidates are the clean lines, one each.                           *)
LEMMA CandsAre ==
    ASSUME IntakeInd
    PROVE  /\ Len(file) \in Nat /\ pos \in 0..Len(file)
           /\ \A c \in cands : /\ c.n \in 1..pos /\ c.rec = file[c.n].rec /\ file[c.n].defects = {}
                               /\ WellFormed(c.rec) /\ c = [n |-> c.n, rec |-> file[c.n].rec]
           /\ \A k \in 1..pos : file[k].defects = {} => [n |-> k, rec |-> file[k].rec] \in cands
  <1>1. Sound(file) /\ pos \in 0..Len(file) /\ cands = ReadOf(file, pos)
    BY DEF IntakeInd, FileInv
  <1>2. Len(file) \in Nat /\ DOMAIN file = 1..Len(file)
    BY <1>1 DEF Sound
  <1>3. \A k \in 1..pos : file[k].defects = {} => WellFormed(file[k].rec)
    BY <1>1, <1>2 DEF Sound
  <1>4. ASSUME NEW c \in cands
        PROVE  /\ c.n \in 1..pos /\ c.rec = file[c.n].rec /\ file[c.n].defects = {}
               /\ WellFormed(c.rec) /\ c = [n |-> c.n, rec |-> file[c.n].rec]
    <2>1. PICK k \in 1..pos : file[k].defects = {} /\ c = [n |-> k, rec |-> file[k].rec]
      BY <1>1 DEF ReadOf
    <2>2. c.n = k /\ c.rec = file[k].rec
      BY <2>1
    <2> QED BY <1>3, <2>1, <2>2
  <1>5. \A k \in 1..pos : file[k].defects = {} => [n |-> k, rec |-> file[k].rec] \in cands
    BY <1>1 DEF ReadOf
  <1> QED BY <1>1, <1>2, <1>4, <1>5

(* What the cross-record checks keep has a number of its own.              *)
LEMMA KeptKeyed ==
    ASSUME IntakeInd
    PROVE  Keyed(Kept(cands)) /\ \A r \in Kept(cands) : \E c \in cands : c.rec = r
  <1> DEFINE unique == {c.rec : c \in cands}
             g == [k \in 1..pos |-> file[k].rec]
  <1>1. unique \subseteq Imaged(g, 1..pos)
    BY CandsAre DEF Imaged
  <1>2. IsFiniteSet(1..pos)
    <2>1. pos \in Int
      BY CandsAre
    <2> QED BY <2>1, FS_Interval
  <1>3. Kept(cands) = {r \in unique : ~Collides(r, unique)}
    BY Zenon DEF Kept
  <1>4. \A r \in unique : \E c \in cands : c.rec = r
    OBVIOUS
  <1> HIDE DEF g, unique
  <1>5. IsFiniteSet(Imaged(g, 1..pos))
    BY <1>2, ImageFinite
  <1>6. IsFiniteSet(Kept(cands))
    BY <1>1, <1>3, <1>5, FS_Subset
  <1>7. \A r \in Kept(cands) : WellFormed(r)
    BY <1>3, <1>4, CandsAre
  <1>8. \A r, q \in Kept(cands) : r.src = q.src /\ r.seq = q.seq => r = q
    BY <1>3 DEF Collides
  <1> QED BY <1>3, <1>4, <1>6, <1>7, <1>8 DEF Keyed

(* So what it seals of one source is in order.                             *)
LEMMA OfKeyed ==
    ASSUME NEW S, Keyed(S), NEW s
    PROVE  Keyed(Of(S, s)) /\ \A r \in Of(S, s) : r.src = s
  <1>1. Of(S, s) \in SUBSET S
    BY DEF Of
  <1>2. IsFiniteSet(Of(S, s))
    BY <1>1, FS_Subset DEF Keyed
  <1> QED BY <1>1, <1>2 DEF Keyed, Of

\* e is w with some of its elements left out.
Drawn(e, w) ==
    /\ e \in Seq(Range(w)) /\ w \in Seq(Range(w))
    /\ \E h \in [1..Len(e) -> 1..Len(w)] :
          /\ \A k \in 1..Len(e) : e[k] = w[h[k]]
          /\ \A j, k \in 1..Len(e) : j < k => h[j] < h[k]

LEMMA RemovedDrawn ==
    ASSUME NEW w, w \in Seq(Range(w)), NEW k \in 1..Len(w)
    PROVE  Drawn(RemoveAt(w, k), w) /\ Len(RemoveAt(w, k)) = Len(w) - 1
  <1> DEFINE V == Range(w)
             n == Len(w)
             a == SubSeq(w, 1, k - 1)
             b == SubSeq(w, k + 1, n)
             e == a \o b
             h == [i \in 1..(n - 1) |-> IF i < k THEN i ELSE i + 1]
  <1>1. n \in Nat /\ k \in 1..n /\ w \in Seq(V)
    OBVIOUS
  <1>2. RemoveAt(w, k) = e
    BY DEF RemoveAt
  <1> HIDE DEF n, V
  <1>3. \A i \in 1..n : w[i] \in V
    BY <1>1 DEF n
  <1>4. a \in Seq(V) /\ Len(a) = k - 1 /\ \A i \in 1..(k - 1) : a[i] = w[i]
    BY <1>1, <1>3 DEF n
  <1>5. b \in Seq(V) /\ Len(b) = n - k /\ \A i \in 1..(n - k) : b[i] = w[k + i]
    BY <1>1, <1>3 DEF n
  <1> HIDE DEF a, b
  <1>6. e \in Seq(V) /\ Len(e) = n - 1
    <2>1. e \in Seq(V) /\ Len(e) = Len(a) + Len(b)
      BY <1>4, <1>5, ConcatProperties
    <2> QED BY <1>1, <1>4, <1>5, <2>1
  <1>7. \A i \in 1..(k - 1) : e[i] = w[i]
    BY <1>1, <1>4, <1>5
  <1>8. \A i \in k..(n - 1) : e[i] = w[i + 1]
    <2> TAKE i \in k..(n - 1)
    <2>1. e[i] = b[i - (k - 1)]
      BY <1>1, <1>4, <1>5
    <2>2. i - (k - 1) \in 1..(n - k) /\ k + (i - (k - 1)) = i + 1
      BY <1>1
    <2>3. b[i - (k - 1)] = w[k + (i - (k - 1))]
      BY <1>5, <2>2
    <2> QED BY <2>1, <2>2, <2>3
  <1> HIDE DEF e
  <1>9. h \in [1..(n - 1) -> 1..n] /\ \A i, j \in 1..(n - 1) : i < j => h[i] < h[j]
    BY <1>1
  <1>10. \A i \in 1..(n - 1) : e[i] = w[h[i]]
    <2> TAKE i \in 1..(n - 1)
    <2>1. CASE i < k
      BY <1>1, <1>7, <2>1
    <2>2. CASE ~(i < k)
      <3>1. h[i] = i + 1 /\ i \in k..(n - 1)
        BY <1>1, <2>2
      <3> QED BY <1>8, <3>1
    <2> QED BY <2>1, <2>2
  <1> HIDE DEF h
  <1>11. Drawn(e, w)
    BY <1>1, <1>6, <1>9, <1>10 DEF Drawn, V, n
  <1> QED BY <1>2, <1>6, <1>11 DEF n

(* What the bundle holds of a source is what was sealed of it, or a part   *)
(* of that.                                                                *)
LEMMA BundleDrawn ==
    ASSUME IntakeInd, NEW s \in Sources
    PROVE  LET w == Sealed(Of(Kept(cands), s), Class[s])
           IN Drawn(bundle[s], w) /\ (bundle[s] = <<>> \/ bundle[s] = w \/ Len(bundle[s]) = Len(w) - 1)
  <1> DEFINE S == Of(Kept(cands), s)
             w == Sealed(S, Class[s])
  <1>1. Keyed(S) /\ \A r \in S : r.src = s
    BY KeptKeyed, OfKeyed
  <1>2. w \in Seq(Range(w)) /\ Len(w) \in Nat
    <2>1. Seals(w, InOrder(S), Cardinality(S), Class[s], S)
      BY <1>1, SealedIs, Zenon
    <2> HIDE DEF w
    <2> QED BY <2>1 DEF Seals
  <1>3. SealedOf(cands)[s] = w /\ DOMAIN SealedOf(cands) = Sources
    BY DEF SealedOf
  <1> HIDE DEF w, S
  <1>4. Drawn(w, w)
    <2> DEFINE h == [i \in 1..Len(w) |-> i]
    <2>1. /\ h \in [1..Len(w) -> 1..Len(w)]
          /\ \A k \in 1..Len(w) : w[k] = w[h[k]]
          /\ \A j, k \in 1..Len(w) : j < k => h[j] < h[k]
      BY <1>2
    <2> HIDE DEF h
    <2> QED BY <1>2, <2>1 DEF Drawn
  <1>5. Drawn(<<>>, w)
    <2> DEFINE h == [i \in 1..0 |-> i]
    <2>1. /\ h \in [1..0 -> 1..Len(w)] /\ Len(<<>>) = 0
          /\ \A k \in 1..0 : <<>>[k] = w[h[k]]
          /\ \A j, k \in 1..0 : j < k => h[j] < h[k]
          /\ <<>> \in Seq(Range(w))
      OBVIOUS
    <2> HIDE DEF h
    <2> QED BY <1>2, <2>1 DEF Drawn
  <1>6. CASE bundle = EmptyBundle
    <2>1. bundle[s] = <<>>
      BY <1>6 DEF EmptyBundle
    <2> QED BY <1>5, <2>1 DEF w, S
  <1>7. CASE bundle = SealedOf(cands)
    BY <1>3, <1>4, <1>7 DEF w, S
  <1>8. CASE bundle \in Short(SealedOf(cands))
    <2> DEFINE all == SealedOf(cands)
               a(x, i) == [all EXCEPT ![x] = RemoveAt(@, i)]
    <2>1. Short(all) = UNION {{a(x, i) : i \in DOMAIN all[x]} : x \in Sources}
      BY Zenon DEF Short
    <2>2. PICK x \in Sources : \E i \in DOMAIN all[x] : bundle = a(x, i)
      <3> HIDE DEF all, a
      <3> QED BY <1>8, <2>1 DEF all
    <2>3. PICK i \in DOMAIN all[x] : bundle = a(x, i)
      BY <2>2
    <2>4. CASE x = s
      <3>1. i \in 1..Len(w)
        BY <1>2, <1>3, <2>3, <2>4
      <3>2. bundle[s] = RemoveAt(w, i)
        BY <1>3, <2>3, <2>4
      <3>3. Drawn(RemoveAt(w, i), w) /\ Len(RemoveAt(w, i)) = Len(w) - 1
        BY <1>2, <3>1, RemovedDrawn
      <3> QED BY <3>2, <3>3 DEF w, S
    <2>5. CASE x # s
      <3>1. bundle[s] = w
        BY <1>3, <2>3, <2>5
      <3> QED BY <1>4, <3>1 DEF w, S
    <2> QED BY <2>4, <2>5
  <1> QED BY <1>6, <1>7, <1>8 DEF IntakeInd, BundleInv

(* The bundle as S4 sealed it holds what S4 kept.                          *)
LEMMA RecordsKept ==
    ASSUME IntakeInd, bundle = SealedOf(cands)
    PROVE  Records = Kept(cands)
  <1> DEFINE R(s) == {bundle[s][k].rec : k \in DOMAIN bundle[s]}
             K == Kept(cands)
  <1>1. ASSUME NEW s \in Sources PROVE R(s) = Of(K, s)
    <2> DEFINE S == Of(K, s)
               q == InOrder(S)
               e == Sealed(S, Class[s])
               n == Cardinality(S)
    <2>1. Keyed(S) /\ \A r \in S : r.src = s
      BY KeptKeyed, OfKeyed
    <2>2. Seals(e, q, n, Class[s], S)
      BY <2>1, SealedIs, Zenon
    <2>3. bundle[s] = e
      BY DEF SealedOf
    <2> HIDE DEF S, q, e, n
    <2>4. DOMAIN e = 1..n /\ \A k \in 1..n : e[k].rec = q[k] /\ q[k] \in S
      BY <2>2 DEF Seals
    <2>5. \A r \in S : \E k \in 1..n : e[k].rec = r
      <3> TAKE r \in S
      <3>1. PICK k \in 1..n : q[k] = r
        BY <2>2 DEF Seals
      <3> QED BY <2>4, <3>1
    <2>6. R(s) = S
      BY <2>3, <2>4, <2>5
    <2> QED BY <2>6 DEF S
  <1>2. \A r \in K : r.src \in Sources
    BY KeptKeyed DEF Keyed, WellFormed
  <1>3. Records = UNION {R(s) : s \in Sources}
    BY Zenon DEF Records
  <1> HIDE DEF R, K
  <1>4. Records = UNION {Of(K, s) : s \in Sources}
    BY <1>1, <1>3
  <1>5. Records = K
    BY <1>2, <1>4 DEF Of
  <1> QED BY <1>5 DEF K

\* A line that repeats an earlier one, and one whose number another claims.
Repeats(c) == \E d \in cands : d.rec = c.rec /\ d.n < c.n
Contested(c) == Collides(c.rec, {d.rec : d \in cands})

(* A line that was read is refused, dropped or kept, for one reason.       *)
LEMMA EntriesOf ==
    ASSUME IntakeInd, pos = Len(file), quarantine = RefusedOf(file, pos) \cup CrossDrops(cands),
           NEW n \in 1..pos
    PROVE  LET c == [n |-> n, rec |-> file[n].rec]
               kept == file[n].defects = {} /\ ~Repeats(c) /\ ~Contested(c)
           IN /\ kept => \A q \in quarantine : q.n # n
              /\ ~kept => \E q \in quarantine : q.n = n /\ \A p \in quarantine : p.n = n => p = q
  <1> DEFINE c == [n |-> n, rec |-> file[n].rec]
             a(k) == [n |-> k, reason |-> Reason(Line(file, k))]
             u(k) == [n |-> k, reason |-> "DUPLICATE_RECORD"]
             v(k) == [n |-> k, reason |-> "SEQ_REGRESSION"]
             A == {a(k) : k \in {j \in 1..pos : file[j].defects # {}}}
             U == {u(x.n) : x \in {y \in cands : Repeats(y)}}
             V == {v(x.n) : x \in {y \in cands : Contested(y) /\ ~Repeats(y)}}
  <1>1. quarantine = A \cup (U \cup V)
    BY Zenon DEF RefusedOf, CrossDrops, Repeats, Contested
  <1>2. \A k : a(k).n = k /\ u(k).n = k /\ v(k).n = k
    OBVIOUS
  <1>3. \A x \in cands : x.n \in 1..pos /\ x = [n |-> x.n, rec |-> file[x.n].rec] /\ file[x.n].defects = {}
    BY CandsAre
  <1>4. \A x \in cands : x.n = n => x = c
    BY <1>3
  <1>5. file[n].defects = {} => c \in cands /\ c.n = n
    BY CandsAre
  <1> HIDE DEF a, u, v, c
  <1>6. \A p \in A : p.n = n => p = a(n) /\ file[n].defects # {}
    BY <1>2
  <1>7. \A p \in U : p.n = n => p = u(n) /\ c \in cands /\ Repeats(c)
    BY <1>2, <1>4
  <1>8. \A p \in V : p.n = n => p = v(n) /\ c \in cands /\ Contested(c) /\ ~Repeats(c)
    BY <1>2, <1>4
  <1>9. file[n].defects # {} => a(n) \in A
    OBVIOUS
  <1>10. file[n].defects = {} /\ Repeats(c) => u(n) \in U
    BY <1>5
  <1>11. file[n].defects = {} /\ ~Repeats(c) /\ Contested(c) => v(n) \in V
    BY <1>5
  <1> HIDE DEF A, U, V
  <1>12. c \in cands => file[n].defects = {}
    <2>1. ASSUME c \in cands PROVE file[n].defects = {}
      <3>1. c.n = n
        BY DEF c
      <3> QED BY <1>3, <2>1, <3>1
    <2> QED BY <2>1
  <1>13. CASE file[n].defects # {}
    <2>1. a(n) \in quarantine /\ a(n).n = n
      BY <1>1, <1>2, <1>9, <1>13
    <2>2. \A p \in quarantine : p.n = n => p = a(n)
      BY <1>1, <1>6, <1>7, <1>8, <1>12, <1>13
    <2> QED BY <1>13, <2>1, <2>2
  <1>14. CASE file[n].defects = {} /\ Repeats(c)
    <2>1. u(n) \in quarantine /\ u(n).n = n
      BY <1>1, <1>2, <1>10, <1>14
    <2>2. \A p \in quarantine : p.n = n => p = u(n)
      BY <1>1, <1>6, <1>7, <1>8, <1>14
    <2> QED BY <1>14, <2>1, <2>2 DEF c
  <1>15. CASE file[n].defects = {} /\ ~Repeats(c) /\ Contested(c)
    <2>1. v(n) \in quarantine /\ v(n).n = n
      BY <1>1, <1>2, <1>11, <1>15
    <2>2. \A p \in quarantine : p.n = n => p = v(n)
      BY <1>1, <1>6, <1>7, <1>8, <1>15
    <2> QED BY <1>15, <2>1, <2>2 DEF c
  <1>16. CASE file[n].defects = {} /\ ~Repeats(c) /\ ~Contested(c)
    <2>1. \A p \in quarantine : p.n # n
      BY <1>1, <1>6, <1>7, <1>8, <1>16
    <2> QED BY <1>16, <2>1 DEF c
  <1> QED BY <1>13, <1>14, <1>15, <1>16

(* What is in quarantine is a line that was read.                          *)
LEMMA EntriesAreLines ==
    ASSUME IntakeInd, pos = Len(file), quarantine = RefusedOf(file, pos) \cup CrossDrops(cands)
    PROVE  \A q \in quarantine : q.n \in 1..pos
  <1> TAKE q \in quarantine
  <1>1. CASE q \in RefusedOf(file, pos)
    BY <1>1 DEF RefusedOf
  <1>2. CASE q \in CrossDrops(cands)
    <2> DEFINE u(k) == [n |-> k, reason |-> "DUPLICATE_RECORD"]
               v(k) == [n |-> k, reason |-> "SEQ_REGRESSION"]
               U == {u(x.n) : x \in {y \in cands : Repeats(y)}}
               V == {v(x.n) : x \in {y \in cands : Contested(y) /\ ~Repeats(y)}}
    <2>0. CrossDrops(cands) = U \cup V
      BY Zenon DEF CrossDrops, Repeats, Contested
    <2>1. \E c \in cands : q.n = c.n
      <3> HIDE DEF U, V
      <3>1. CASE q \in U
        BY <3>1 DEF U
      <3>2. CASE q \in V
        BY <3>2 DEF V
      <3> QED BY <1>2, <2>0, <3>1, <3>2
    <2> QED BY <2>1, CandsAre
  <1> QED BY <1>1, <1>2

(* Every line is accounted for once, and the counts agree.                 *)
LEMMA LinesAccounted ==
    ASSUME IntakeInd, pos = Len(file), quarantine = RefusedOf(file, pos) \cup CrossDrops(cands),
           bundle = SealedOf(cands)
    PROVE  /\ \A n \in 1..Len(file) :
                 Cardinality({q \in quarantine : q.n = n})
                 + Cardinality({c \in cands : c.n = n /\ c.rec \in Records /\
                                   \A d \in cands : d.rec = c.rec => c.n <= d.n}) = 1
           /\ Len(file) = Cardinality(Records) + Cardinality(quarantine)
  <1> DEFINE N == Len(file)
             at(n) == [n |-> n, rec |-> file[n].rec]
             B == {n \in 1..N : file[n].defects # {} \/ Repeats(at(n)) \/ Contested(at(n))}
             A == (1..N) \ B
             unique == {c.rec : c \in cands}
  <1>1. N \in Nat /\ \A n \in 1..N : file[n].defects = {} => at(n) \in cands
    BY CandsAre
  <1>2. \A c \in cands : c.n \in 1..N /\ c = at(c.n) /\ file[c.n].defects = {}
    BY CandsAre
  <1>3. \A n : at(n).n = n /\ at(n).rec = file[n].rec
    OBVIOUS
  <1>4. Records = {r \in unique : ~Collides(r, unique)}
    BY RecordsKept, Zenon DEF Kept
  <1>5. \A n \in A : \A q \in quarantine : q.n # n
    BY EntriesOf
  <1>6. \A n \in B : \E q \in quarantine : q.n = n /\ \A p \in quarantine : p.n = n => p = q
    BY EntriesOf
  <1>7. \A q \in quarantine : q.n \in 1..N
    BY EntriesAreLines
  <1> HIDE DEF at, N
  <1>8. \A n \in A : file[n].defects = {} /\ ~Repeats(at(n)) /\ ~Contested(at(n)) /\ at(n) \in cands
    BY <1>1
  <1>9. \A n \in A : file[n].rec \in Records
    BY <1>3, <1>4, <1>8 DEF Contested
  <1>10. \A c \in cands : c.rec \in Records => ~Contested(c)
    BY <1>4 DEF Contested
  <1>11. \A c \in cands : c.n \in B /\ c.rec \in Records => Repeats(c)
    BY <1>2, <1>10
  <1>12. ASSUME NEW n \in 1..N
         PROVE  Cardinality({q \in quarantine : q.n = n})
                   + Cardinality({c \in cands : c.n = n /\ c.rec \in Records /\
                                     \A d \in cands : d.rec = c.rec => c.n <= d.n}) = 1
    <2> DEFINE Q == {q \in quarantine : q.n = n}
               C == {c \in cands : c.n = n /\ c.rec \in Records /\ \A d \in cands : d.rec = c.rec => c.n <= d.n}
    <2>1. CASE n \in A
      <3>1. Q = {}
        BY <1>5, <2>1
      <3>2. \A d \in cands : d.rec = at(n).rec => ~(d.n < n)
        BY <1>3, <1>8, <2>1 DEF Repeats
      <3>3. \A d \in cands : d.rec = at(n).rec => n <= d.n
        <4> TAKE d \in cands
        <4>1. d.n \in Nat /\ n \in Nat
          BY <1>1, <1>2
        <4> QED BY <3>2, <4>1
      <3>4. at(n) \in C
        BY <1>3, <1>8, <1>9, <2>1, <3>3
      <3>5. \A c \in C : c = at(n)
        BY <1>2
      <3> HIDE DEF Q, C
      <3>6. C = {at(n)}
        BY <3>4, <3>5
      <3>7. Cardinality(Q) = 0 /\ Cardinality(C) = 1
        BY <3>1, <3>6, FS_EmptySet, FS_Singleton
      <3>8. Cardinality(Q) + Cardinality(C) = 1
        BY <3>7
      <3> QED BY <3>8 DEF Q, C
    <2>2. CASE n \in B
      <3>1. PICK q \in quarantine : q.n = n /\ \A p \in quarantine : p.n = n => p = q
        BY <1>6, <2>2
      <3>2. Q = {q}
        BY <3>1
      <3>3. \A c \in C : FALSE
        <4> SUFFICES ASSUME NEW c \in C PROVE FALSE
          OBVIOUS
        <4>1. Repeats(c)
          BY <1>11, <2>2
        <4>2. PICK d \in cands : d.rec = c.rec /\ d.n < c.n
          BY <4>1 DEF Repeats
        <4>3. d.n \in Nat /\ c.n \in Nat /\ c.n <= d.n
          BY <1>1, <1>2, <4>2
        <4> QED BY <4>2, <4>3
      <3> HIDE DEF Q, C
      <3>4. C = {}
        BY <3>3
      <3>5. Cardinality(Q) = 1 /\ Cardinality(C) = 0
        BY <3>2, <3>4, FS_EmptySet, FS_Singleton
      <3>6. Cardinality(Q) + Cardinality(C) = 1
        BY <3>5
      <3> QED BY <3>6 DEF Q, C
    <2> QED BY <2>1, <2>2
  <1>13. IsFiniteSet(1..N) /\ Cardinality(1..N) = N
    <2>1. 0 \in Int /\ 1 \in Int /\ N \in Int
      BY <1>1
    <2>2. IsFiniteSet(1..N) /\ Cardinality(1..N) = IF 1 > N THEN 0 ELSE N - 1 + 1
      BY <2>1, FS_Interval
    <2> QED BY <1>1, <2>2
  <1>14. IsFiniteSet(A) /\ IsFiniteSet(B) /\ Cardinality(A) + Cardinality(B) = N
    <2>1. IsFiniteSet(B) /\ IsFiniteSet(A)
      BY <1>13, FS_Subset
    <2>2. A \cup B = 1..N /\ A \cap B = {}
      OBVIOUS
    <2> HIDE DEF A, B
    <2>3. Cardinality(1..N) = Cardinality(A) + Cardinality(B) - Cardinality(A \cap B)
      BY <2>1, <2>2, FS_Union
    <2>4. Cardinality(A \cap B) = 0 /\ Cardinality(A) \in Nat /\ Cardinality(B) \in Nat
      BY <2>1, <2>2, FS_EmptySet, FS_CardinalityType
    <2> QED BY <1>13, <2>1, <2>3, <2>4
  <1>15. Cardinality(quarantine) = Cardinality(B)
    <2> DEFINE g == [n \in B |-> CHOOSE q \in quarantine : q.n = n]
    <2>1. \A n \in B : g[n] \in quarantine /\ g[n].n = n /\ \A p \in quarantine : p.n = n => p = g[n]
      <3> TAKE n \in B
      <3>1. \E q \in quarantine : q.n = n
        BY <1>6
      <3>2. g[n] \in quarantine /\ g[n].n = n
        BY <3>1
      <3> HIDE DEF g
      <3> QED BY <1>6, <3>2
    <2>2. g \in [B -> quarantine]
      BY <2>1
    <2> HIDE DEF g
    <2>3. g \in Injection(B, quarantine)
      BY <2>1, <2>2 DEF Injection, IsInjective
    <2>4. \A q \in quarantine : q.n \in B
      BY <1>5, <1>7
    <2>5. \A q \in quarantine : \E n \in B : g[n] = q
      BY <2>1, <2>4
    <2> HIDE DEF B
    <2>6. g \in Surjection(B, quarantine)
      BY <2>2, <2>5 DEF Surjection
    <2>7. ExistsBijection(B, quarantine)
      BY <2>3, <2>6 DEF ExistsBijection, Bijection
    <2> QED BY <1>14, <2>7, FS_Bijection
  <1>16. Cardinality(Records) = Cardinality(A)
    <2> DEFINE g == [n \in A |-> file[n].rec]
    <2>1. g \in [A -> Records]
      BY <1>9
    <2>2. \A m, n \in A : m < n => g[m] # g[n]
      <3> SUFFICES ASSUME NEW m \in A, NEW n \in A, m < n, g[m] = g[n] PROVE FALSE
        OBVIOUS
      <3>1. at(m) \in cands /\ at(m).n = m /\ at(n).n = n /\ at(m).rec = at(n).rec /\ ~Repeats(at(n))
        BY <1>3, <1>8
      <3> QED BY <3>1 DEF Repeats
    <2>3. \A m, n \in A : g[m] = g[n] => m = n
      <3> TAKE m, n \in A
      <3>1. m \in Nat /\ n \in Nat
        BY <1>1
      <3> HIDE DEF g, A
      <3> QED BY <2>2, <3>1
    <2>4. \A r \in Records : \E n \in A : g[n] = r
      <3> TAKE r \in Records
      <3> DEFINE T == {m \in Nat : \E c \in cands : c.rec = r /\ c.n = m}
      <3>1. T # {} /\ T \in SUBSET Nat
        <4>1. PICK c \in cands : c.rec = r
          BY <1>4
        <4>2. c.n \in Nat
          BY <1>1, <1>2
        <4> QED BY <4>1, <4>2
      <3>2. PICK m \in T : \A k \in T : m <= k
        BY <3>1, LeastNat
      <3>3. PICK c \in cands : c.rec = r /\ c.n = m
        BY <3>2
      <3>4. ~Repeats(c)
        <4> SUFFICES ASSUME Repeats(c) PROVE FALSE
          OBVIOUS
        <4>1. PICK d \in cands : d.rec = c.rec /\ d.n < c.n
          BY DEF Repeats
        <4>2. d.n \in Nat /\ c.n \in Nat
          BY <1>1, <1>2
        <4>3. d.n \in T
          BY <3>3, <4>1, <4>2
        <4>4. m <= d.n
          BY <3>2, <4>3
        <4> QED BY <3>3, <4>1, <4>2, <4>4
      <3>5. c.n \in 1..N /\ c = at(c.n) /\ c.n \notin B
        BY <1>2, <1>10, <3>3, <3>4
      <3>6. c.n \in A /\ file[c.n].rec = r
        BY <1>3, <3>3, <3>5
      <3> QED BY <3>6
    <2> HIDE DEF g, A
    <2>5. g \in Injection(A, Records) /\ g \in Surjection(A, Records)
      BY <2>1, <2>3, <2>4 DEF Injection, IsInjective, Surjection
    <2>6. ExistsBijection(A, Records)
      BY <2>5 DEF ExistsBijection, Bijection
    <2> QED BY <1>14, <2>6, FS_Bijection
  <1>17. N = Cardinality(Records) + Cardinality(quarantine)
    <2>1. Cardinality(A) \in Nat /\ Cardinality(B) \in Nat
      BY <1>14, FS_CardinalityType
    <2> QED BY <1>14, <1>15, <1>16, <2>1
  <1> QED BY <1>12, <1>17 DEF N

(* A chain that S4 sealed verifies.                                        *)
LEMMA SealVerifies ==
    ASSUME NEW e, NEW q, NEW n, NEW class, NEW S, Seals(e, q, n, class, S), class # "NONE"
    PROVE  VerifyChain(e) = {}
  <1>1. /\ n \in Nat /\ q \in Seq(S) /\ Len(q) = n /\ DOMAIN e = 1..n
        /\ \A k \in 1..n : e[k].rec = q[k] /\ e[k].prev = SubSeq(q, 1, k - 1) /\ e[k].hash = SubSeq(q, 1, k)
    BY DEF Seals
  <1>2. ASSUME NEW k \in 1..n
        PROVE  /\ e[k].prev = IF k = 1 THEN <<>> ELSE e[k - 1].hash
               /\ e[k].hash = Append(e[k].prev, e[k].rec)
    <2>1. ASSUME k = 1 PROVE e[k].prev = <<>>
      <3>1. e[k].prev = SubSeq(q, 1, 0) /\ SubSeq(q, 1, 0) = <<>>
        BY <1>1, <2>1
      <3> QED BY <3>1
    <2>2. ASSUME k # 1 PROVE e[k].prev = e[k - 1].hash
      <3>1. k - 1 \in 1..n
        BY <1>1, <2>2
      <3> QED BY <1>1, <3>1
    <2>3. SubSeq(q, 1, k) = Append(SubSeq(q, 1, k - 1), q[k])
      <3> DEFINE a == SubSeq(q, 1, k - 1)
                 b == SubSeq(q, 1, k)
      <3>1. a \in Seq(S) /\ Len(a) = k - 1 /\ \A i \in 1..(k - 1) : a[i] = q[i]
        BY <1>1
      <3>2. b \in Seq(S) /\ Len(b) = k /\ \A i \in 1..k : b[i] = q[i]
        BY <1>1
      <3>3. q[k] \in S /\ k \in Nat
        BY <1>1
      <3> HIDE DEF a, b
      <3>4. Append(a, q[k]) \in Seq(S) /\ Len(Append(a, q[k])) = k
        BY <3>1, <3>3
      <3>5. \A i \in 1..k : Append(a, q[k])[i] = b[i]
        BY <3>1, <3>2, <3>3
      <3>6. b = Append(a, q[k])
        BY <3>2, <3>3, <3>4, <3>5, SeqEqual
      <3> QED BY <3>6 DEF a, b
    <2> QED BY <1>1, <2>1, <2>2, <2>3
  <1>3. VerifyChain(e) = {k \in 1..n : e[k].prev # (IF k = 1 THEN <<>> ELSE e[k - 1].hash)
                                           \/ e[k].hash # Append(e[k].prev, e[k].rec)}
    BY <1>1, Zenon DEF VerifyChain
  <1> QED BY <1>2, <1>3

(* S4 loses nothing and depends on no order: every line of the raw file    *)
(* becomes one sealed record or one quarantine entry, a sealed chain       *)
(* verifies, and a file read backwards seals the same bundle.              *)
THEOREM IntakeExact == Spec => []IntakeIsExact
  <1>1. IntakeInd => IntakeIsExact
    <2> SUFFICES ASSUME IntakeInd PROVE IntakeIsExact
      OBVIOUS
    <2>1. TypeOK
      <3>1. \A c \in cands : c.n \in 1..pos
        BY CandsAre
      <3>2. ASSUME NEW s \in Sources, NEW k \in DOMAIN bundle[s] PROVE bundle[s][k].rec.src = s
        <4> DEFINE S == Of(Kept(cands), s)
                   w == Sealed(S, Class[s])
                   q == InOrder(S)
                   n == Cardinality(S)
        <4>1. Keyed(S) /\ \A r \in S : r.src = s
          BY KeptKeyed, OfKeyed
        <4>2. Seals(w, q, n, Class[s], S)
          BY <4>1, SealedIs, Zenon
        <4>3. Drawn(bundle[s], w)
          BY BundleDrawn, Zenon
        <4> HIDE DEF S, w, q, n
        <4>4. Len(w) = n /\ \A i \in 1..n : w[i].rec = q[i] /\ q[i] \in S
          BY <4>2 DEF Seals
        <4>5. DOMAIN bundle[s] = 1..Len(bundle[s])
          BY <4>3 DEF Drawn
        <4>6. \E i \in 1..Len(w) : bundle[s][k] = w[i]
          BY <4>3, <4>5 DEF Drawn
        <4> QED BY <4>1, <4>4, <4>6
      <3> QED BY <3>1, <3>2 DEF TypeOK, IntakeInd, FileInv, BundleInv
    <2>2. BundleIsOrderFree
      <3> DEFINE back(c) == [c EXCEPT !.n = Len(file) + 1 - @]
                 other == {back(c) : c \in cands}
      <3> SUFFICES ASSUME phase = "sealed", ~cut, NEW s \in Sources
                   PROVE  bundle[s] = Sealed(Of(Kept(other), s), Class[s])
        BY Zenon DEF BundleIsOrderFree
      <3>1. \A c \in cands : back(c).rec = c.rec
        <4> TAKE c \in cands
        <4>1. c = [n |-> c.n, rec |-> file[c.n].rec]
          BY CandsAre
        <4> QED BY <4>1
      <3>2. {c.rec : c \in other} = {c.rec : c \in cands}
        <4> HIDE DEF back
        <4> QED BY <3>1
      <3> HIDE DEF other
      <3>3. Kept(other) = Kept(cands)
        BY <3>2, Zenon DEF Kept
      <3>4. bundle = SealedOf(cands)
        BY DEF IntakeInd, BundleInv
      <3> QED BY <3>3, <3>4 DEF SealedOf
    <2>3. EveryLineAccounted
      <3> SUFFICES ASSUME phase = "sealed", ~cut PROVE EveryLineAccounted
        BY DEF EveryLineAccounted
      <3>1. pos = Len(file) /\ quarantine = RefusedOf(file, pos) \cup CrossDrops(cands) /\ bundle = SealedOf(cands)
        BY DEF IntakeInd, FileInv, BundleInv
      <3>2. ASSUME NEW s \in Sources, Class[s] # "NONE" PROVE VerifyChain(bundle[s]) = {}
        <4> DEFINE S == Of(Kept(cands), s)
                   e == Sealed(S, Class[s])
        <4>1. Keyed(S) /\ \A r \in S : r.src = s
          BY KeptKeyed, OfKeyed
        <4>2. Seals(e, InOrder(S), Cardinality(S), Class[s], S)
          BY <4>1, SealedIs, Zenon
        <4>3. bundle[s] = e
          BY <3>1 DEF SealedOf
        <4> HIDE DEF S, e
        <4> QED BY <3>2, <4>2, <4>3, SealVerifies
      <3> QED BY <3>1, <3>2, LinesAccounted, Zenon DEF EveryLineAccounted
    <2> QED BY <2>1, <2>2, <2>3 DEF IntakeIsExact
  <1> QED BY <1>1, IntakeInvariant, PTL

-----------------------------------------------------------------------------
\* Arithmetic

(* The ceiling of a quotient: one less is below it.                        *)
LEMMA CeilIs ==
    ASSUME NEW x \in Nat, NEW d \in Nat \ {0}
    PROVE  CeilDiv(x, d) \in Nat /\ (CeilDiv(x, d) - 1) * d < x /\ x <= CeilDiv(x, d) * d
  <1> DEFINE y == x + d - 1
             c == y \div d
  <1>1. y \in Nat
    OBVIOUS
  <1> HIDE DEF y
  <1>2. c \in Nat /\ d * c <= y /\ y < d * c + d
    BY <1>1
  <1> HIDE DEF c
  <1>3. (c - 1) * d = d * c - d /\ c * d = d * c
    BY <1>2
  <1>4. d * c \in Nat
    BY <1>2
  <1>5. (c - 1) * d < x /\ x <= c * d
    BY <1>2, <1>3, <1>4 DEF y
  <1> QED BY <1>2, <1>5 DEF c, y, CeilDiv

(* The least of a set of numbers.                                          *)
LEMMA MinIs ==
    ASSUME NEW T \in SUBSET Nat, T # {}
    PROVE  Min(T) \in T /\ \A y \in T : Min(T) <= y
  <1>1. \E x \in T : \A y \in T : x <= y
    BY LeastNat
  <1> QED BY <1>1, Zenon DEF Min

-----------------------------------------------------------------------------
\* JudgeInd: the profile that is used, and the document it gives

LEMMA JudgeStart == Init => JudgeInd
  <1> SUFFICES ASSUME Init PROVE JudgeInd
    OBVIOUS
  <1>1. phase = "emitted" /\ profile = NoProfile
    BY DEF Init
  <1> DEFINE x == BuildProfile({}, Identity, Scenario, FALSE)
  <1>2. NoProfile = [body |-> x, id |-> x]
    BY Zenon DEF NoProfile, WriteProfile
  <1> HIDE DEF x
  <1>3. profile = [body |-> profile.body, id |-> profile.id]
    BY <1>1, <1>2
  <1>4. used = [flags |-> NoFlags, rules |-> {}]
    BY DEF Init
  <1>5. used = [flags |-> used.flags, rules |-> used.rules]
    BY <1>4
  <1> QED BY <1>1, <1>3, <1>5 DEF JudgeInd, ProfileInv

LEMMA CalibrateKeeps ==
    ASSUME JudgeInd, Calibrate
    PROVE  JudgeInd'
  <1>1. phase' = "calibrated" /\ used' = used /\ Records' = Records
    BY DEF Calibrate, Records
  <1>2. \/ \E c \in Calibrations : profile'.body = BuildProfile(c.reference, c.degspec, c.scenario, c.collapse)
        \/ profile'.body = BuildProfile(Records, Identity, Scenario, FALSE)
    <2>1. CASE \E c \in Calibrations :
                   profile' = WriteProfile(BuildProfile(c.reference, c.degspec, c.scenario, c.collapse))
      <3>1. PICK c \in Calibrations :
                   profile' = WriteProfile(BuildProfile(c.reference, c.degspec, c.scenario, c.collapse))
        BY <2>1
      <3> QED BY <3>1 DEF WriteProfile
    <2>2. CASE profile' = WriteProfile(BuildProfile(Records, Identity, Scenario, FALSE))
      BY <2>2 DEF WriteProfile
    <2> QED BY <2>1, <2>2 DEF Calibrate
  <1>3. profile' = [body |-> profile'.body, id |-> profile'.id]
    <2>1. PICK x : profile' = WriteProfile(x)
      BY DEF Calibrate
    <2> QED BY <2>1 DEF WriteProfile
  <1> QED BY <1>1, <1>2, <1>3 DEF JudgeInd, ProfileInv

LEMMA EditKeeps ==
    ASSUME JudgeInd, EditProfile
    PROVE  JudgeInd'
  <1> DEFINE G == [s \in Sources |-> [g \in Regimes |-> [n |-> NMin, q |-> T1]]]
             b == [profile.body EXCEPT !.gaps = G]
  <1>1. phase = "calibrated" /\ phase' = "calibrated" /\ LoadProfile(profile) /\ profile' = [profile EXCEPT !.body = b]
        /\ used' = used /\ Records' = Records
    BY DEF EditProfile, Records
  <1>2. profile = [body |-> profile.body, id |-> profile.id]
    BY <1>1 DEF JudgeInd, ProfileInv
  <1> HIDE DEF b
  <1>3. profile'.id = profile.id /\ profile'.body = b
    BY <1>1, <1>2
  <1>4. profile' = [body |-> profile'.body, id |-> profile'.id]
    BY <1>1, <1>2
  <1>5. LoadProfile(profile') => profile'.body = profile.body
    BY <1>1, <1>3 DEF LoadProfile
  <1> QED BY <1>1, <1>4, <1>5 DEF JudgeInd, ProfileInv

LEMMA JudgeKeeps ==
    ASSUME JudgeInd, Judge
    PROVE  JudgeInd'
  <1>1. /\ phase = "calibrated" /\ phase' = "judged" /\ profile' = profile /\ bundle' = bundle /\ Records' = Records
    BY DEF Judge, Records
  <1>2. PICK f \in Flags : \E seed \in Seeds :
            /\ f.noProfile \/ (LoadProfile(profile) /\ FailedGates(profile.body, Records, seed, Scenario) = {})
            /\ used' = [flags |-> f, rules |-> {}]
            /\ doc' = Document(bundle, profile.body, f, {})
    BY DEF Judge
  <1>3. used'.flags = f /\ used'.rules = {} /\ used' = [flags |-> used'.flags, rules |-> used'.rules]
    BY <1>2
  <1>4. ProfileInv(profile, Records, phase)'
    BY <1>1 DEF JudgeInd, ProfileInv
  <1>5. doc' = Document(bundle', profile'.body, used'.flags, {})
    BY <1>1, <1>2, <1>3, Zenon
  <1>6. \/ used'.flags.noProfile
        \/ /\ LoadProfile(profile')
           /\ \E seed \in Seeds : FailedGates(profile'.body, Records', seed, Scenario) = {}
    BY <1>1, <1>2, <1>3, Zenon
  <1> QED BY <1>1, <1>3, <1>4, <1>5, <1>6 DEF JudgeInd

LEMMA DisputeKeeps ==
    ASSUME JudgeInd, Dispute
    PROVE  JudgeInd'
  <1>1. /\ phase = "judged" /\ phase' = "done" /\ profile' = profile /\ used' = used /\ bundle' = bundle
        /\ Records' = Records
    BY DEF Dispute, Records
  <1>2. ProfileInv(profile, Records, phase)'
    BY <1>1 DEF JudgeInd, ProfileInv
  <1>3. doc' = Disputed(doc, found'.events) /\ doc = Document(bundle, profile.body, used.flags, {})
    BY <1>1 DEF Dispute, JudgeInd
  <1>4. doc' = Disputed(Document(bundle', profile'.body, used'.flags, {}), found'.events)
    BY <1>1, <1>3, Zenon
  <1>5. found' \in RunPass(Records, {}, ExactCap)
    BY Zenon DEF Dispute
  <1>6. found' \in RunPass(Records', {}, ExactCap)
    BY <1>1, <1>5, Zenon
  <1>7. used.flags \in Flags /\ used.rules = {} /\ used = [flags |-> used.flags, rules |-> used.rules]
    BY <1>1 DEF JudgeInd
  <1> QED BY <1>1, <1>2, <1>4, <1>6, <1>7 DEF JudgeInd

\* What comes before calibration, and what ends the run.
LEMMA OthersKeep ==
    ASSUME JudgeInd, [Next]_vars, ~Calibrate, ~EditProfile, ~Judge, ~Dispute
    PROVE  JudgeInd'
  <1>1. CASE UNCHANGED vars
    <2>1. UNCHANGED <<phase, profile, bundle, used, doc, found>> /\ Records' = Records
      BY <1>1 DEF vars, Records
    <2> QED BY <2>1 DEF JudgeInd, ProfileInv, PassInv
  <1>2. CASE Refuse \/ MeetLabel
    <2>1. phase' = "aborted" /\ profile' = profile /\ used' = used
      BY <1>2 DEF Refuse, MeetLabel
    <2>2. profile = [body |-> profile.body, id |-> profile.id]
      BY DEF JudgeInd, ProfileInv
    <2> QED BY <2>1, <2>2 DEF JudgeInd, ProfileInv
  <1>4. CASE PassOverRules
    <2>1. phase' = "passed" /\ profile' = profile /\ bundle' = bundle /\ Records' = Records
      BY <1>4 DEF PassOverRules, Records
    <2>2. profile = [body |-> profile.body, id |-> profile.id]
      BY DEF JudgeInd, ProfileInv
    <2>3. PICK kept \in {Records}, rules \in SUBSET RuleSeqs :
             /\ rules # {} /\ \A i \in rules : {i.left, i.right} \subseteq kept
             /\ found' \in RunPass(kept, rules, ExactCap)
             /\ used' = [used EXCEPT !.rules = rules]
      BY <1>4 DEF PassOverRules
    <2>4. used'.rules = rules /\ used' = [flags |-> used'.flags, rules |-> used'.rules]
      <3>1. used = [flags |-> used.flags, rules |-> used.rules]
        BY <1>4 DEF PassOverRules, JudgeInd
      <3> QED BY <2>3, <3>1
    <2>5. kept = Records
      OBVIOUS
    <2>6. \A i \in rules : i.left \in Records /\ i.right \in Records
      BY <2>3, <2>5, Zenon
    <2>7. found' \in RunPass(Records, rules, ExactCap)
      BY <2>3, <2>5, Zenon
    <2>8. PassInv(found', Records', used'.rules)
      BY <2>1, <2>3, <2>4, <2>6, <2>7, Zenon DEF PassInv
    <2> QED BY <2>1, <2>2, <2>4, <2>8 DEF JudgeInd, ProfileInv
  <1>3. CASE Degrade \/ Blackout \/ Backdate \/ StripIdentity \/ ChainForge \/ Supply \/ ReadLine \/ Seal \/ LoseLine
    <2>1. phase \in {"emitted", "raw", "sealed"} /\ phase' \in {"raw", "sealed"} /\ profile' = profile /\ used' = used
      BY <1>3 DEF Degrade, Blackout, Backdate, StripIdentity, ChainForge, Write, Supply, ReadLine, Seal, LoseLine
    <2> QED BY <2>1 DEF JudgeInd, ProfileInv
  <1> QED BY <1>1, <1>2, <1>3, <1>4, Zenon DEF Next, Done

(* A profile that loads is the one a calibration wrote, and the document   *)
(* was made from a profile that passes the gates or from none, at every    *)
(* step.                                                                   *)
THEOREM JudgeInvariant == Spec => []JudgeInd
  <1>1. JudgeInd /\ [Next]_vars => JudgeInd'
    BY CalibrateKeeps, EditKeeps, JudgeKeeps, DisputeKeeps, OthersKeep, Zenon
  <1> QED BY <1>1, JudgeStart, PTL DEF Spec

-----------------------------------------------------------------------------
\* _merge

\* Windows that follow one another, each with what is said of it.
Windows(O) == [t0 : Int, t1 : Int, out : O]
Tiled(w, O) ==
    /\ w \in Seq(Windows(O))
    /\ \A k \in 1..Len(w) : w[k].t0 < w[k].t1
    /\ \A k \in 1..(Len(w) - 1) : w[k].t1 = w[k + 1].t0

Extended(acc, t) == [acc EXCEPT ![Len(acc)].t1 = t]
MergeStep(acc, w) ==
    IF acc # <<>> /\ Last(acc).out = w.out /\ Last(acc).t1 = w.t0 THEN Extended(acc, w.t1) ELSE Append(acc, w)

\* What lengthening the last interval does.
Lengthens(a, acc, t, O) ==
    /\ a \in Seq(Windows(O)) /\ Len(a) = Len(acc)
    /\ \A j \in 1..(Len(acc) - 1) : a[j] = acc[j]
    /\ a[Len(acc)].t0 = acc[Len(acc)].t0 /\ a[Len(acc)].t1 = t /\ a[Len(acc)].out = acc[Len(acc)].out

LEMMA ExtendedLengthens ==
    ASSUME NEW O, NEW acc \in Seq(Windows(O)), acc # <<>>, NEW t \in Int
    PROVE  Lengthens(Extended(acc, t), acc, t, O)
  <1> DEFINE m == Len(acc)
             e == [acc[m] EXCEPT !.t1 = t]
             a == [acc EXCEPT ![m] = e]
  <1>1. m \in Nat \ {0} /\ acc \in [1..m -> Windows(O)]
    BY EmptySeq
  <1>2. acc[m] \in Windows(O)
    BY <1>1
  <1>3. e \in Windows(O) /\ e.t0 = acc[m].t0 /\ e.t1 = t /\ e.out = acc[m].out
    BY <1>2 DEF Windows
  <1>4. Extended(acc, t) = a
    BY Zenon DEF Extended
  <1> HIDE DEF e, m
  <1>5. a \in [1..m -> Windows(O)] /\ a[m] = e /\ \A j \in 1..(m - 1) : a[j] = acc[j]
    BY <1>1, <1>3
  <1> HIDE DEF a
  <1>6. a \in Seq(Windows(O)) /\ Len(a) = m
    BY <1>1, <1>5
  <1>7. Lengthens(a, acc, t, O)
    BY <1>3, <1>5, <1>6 DEF Lengthens, m
  <1> QED BY <1>4, <1>7, Zenon

LEMMA MergeStepState ==
    ASSUME NEW O, NEW acc \in Seq(Windows(O)), NEW x \in Windows(O)
    PROVE  MergeStep(acc, x) \in Seq(Windows(O))
  <1>1. x.t1 \in Int
    BY DEF Windows
  <1>2. Append(acc, x) \in Seq(Windows(O))
    OBVIOUS
  <1>3. acc # <<>> => Extended(acc, x.t1) \in Seq(Windows(O))
    BY <1>1, ExtendedLengthens DEF Lengthens
  <1> QED BY <1>2, <1>3, Zenon DEF MergeStep

Merging(v, w, O) ==
    /\ v \in [0..Len(w) -> Seq(Windows(O))]
    /\ v[0] = <<>>
    /\ \A k \in 1..Len(w) : v[k] = MergeStep(v[k - 1], w[k])

\* The fold is that.
LEMMA MergeSteps ==
    ASSUME NEW O, NEW w \in Seq(Windows(O))
    PROVE  \E v : Merging(v, w, O) /\ Merge(w) = v[Len(w)]
  <1> DEFINE n == Len(w)
             V == Seq(Windows(O))
             b == <<>>
             F == [p \in (1..n) \X V |-> MergeStep(p[2], w[p[1]])]
             Step(j) == [s \in SUBSET (DOMAIN w) |->
                            IF s = {} THEN b ELSE MergeStep(j[s \ {Largest(s)}], w[Largest(s)])]
             i == CHOOSE j : j = Step(j)
  <1>1. n \in Nat /\ DOMAIN w = 1..n /\ \A k \in 1..n : w[k] \in Windows(O)
    OBVIOUS
  <1>2. b \in V
    OBVIOUS
  <1>3. Merge(w) = i[DOMAIN w]
    BY DEF Merge, FoldLeft, MapThenFoldSet, MergeStep, Extended, Largest, Max
  <1>4. F \in [(1..n) \X V -> V]
    <2> SUFFICES ASSUME NEW k \in 1..n, NEW acc \in V PROVE MergeStep(acc, w[k]) \in V
      OBVIOUS
    <2> QED BY <1>1, MergeStepState
  <1> HIDE DEF n, V, b
  <1>5. \A k \in 1..n, acc \in V : F[<<k, acc>>] = MergeStep(acc, w[k])
    OBVIOUS
  <1> HIDE DEF F
  <1>6. PICK h : Folds(h, F, b, n, V)
    BY <1>1, <1>2, <1>4, FoldExists
  <1>7. ASSUME NEW s \in SUBSET (1..n), s # {} PROVE Largest(s) \in 1..n /\ Largest(s) \in s
    <2>1. Largest(s) \in s
      BY <1>1, <1>7, LargestTaken
    <2> QED BY <2>1
  <1>8. h = Step(h)
    <2>1. ASSUME NEW s \in SUBSET (1..n)
          PROVE  h[s] = IF s = {} THEN b ELSE MergeStep(h[s \ {Largest(s)}], w[Largest(s)])
      <3>1. CASE s = {}
        BY <1>6, <3>1 DEF Folds
      <3>2. CASE s # {}
        <4>1. Largest(s) \in 1..n /\ s \ {Largest(s)} \in SUBSET (1..n)
          BY <1>7, <3>2
        <4>2. h[s \ {Largest(s)}] \in V /\ h[s] = F[<<Largest(s), h[s \ {Largest(s)}]>>]
          BY <1>6, <3>2, <4>1 DEF Folds
        <4> QED BY <1>5, <3>2, <4>1, <4>2
      <3> QED BY <3>1, <3>2
    <2>2. h = [s \in SUBSET (1..n) |-> h[s]]
      BY <1>6 DEF Folds
    <2> QED BY <1>1, <2>1, <2>2
  <1> HIDE DEF Step
  <1>9. i = Step(i)
    BY <1>8, Zenon
  <1> HIDE DEF i
  <1>10. \A s \in SUBSET (1..n) : i[s] = IF s = {} THEN b ELSE MergeStep(i[s \ {Largest(s)}], w[Largest(s)])
    BY <1>1, <1>9 DEF Step
  <1>11. i[1..0] = b /\ \A k \in 1..n : i[1..k] = MergeStep(i[1..(k - 1)], w[k])
    <2>1. 1..0 = {}
      OBVIOUS
    <2>2. ASSUME NEW k \in 1..n PROVE i[1..k] = MergeStep(i[1..(k - 1)], w[k])
      <3>0. k \in Nat /\ k >= 1 /\ k <= n /\ n \in Nat
        BY <1>1
      <3>5. 1..k \subseteq 1..n
        BY <3>0
      <3>6. k \in 1..k /\ 1..k \subseteq 0..k
        BY <3>0
      <3>1. 1..k \in SUBSET (1..n) /\ k \in 1..k /\ 1..k # {} /\ 1..k \subseteq 0..k
        BY <3>5, <3>6, Zenon
      <3>2. (1..k) \ {k} = 1..(k - 1)
        BY <3>0
      <3>3. Largest(1..k) = k
        BY <3>0, <3>1, LargestOf
      <3>4. i[1..k] = MergeStep(i[(1..k) \ {Largest(1..k)}], w[Largest(1..k)])
        BY <1>10, <3>1, Zenon
      <3> QED BY <3>2, <3>3, <3>4
    <2>3. {} \in SUBSET (1..n)
      OBVIOUS
    <2>4. i[{}] = b
      BY <1>10, <2>3, Zenon
    <2> QED BY <2>1, <2>2, <2>4
  <1> DEFINE v == [k \in 0..n |-> i[1..k]]
  <1>12. \A k \in 0..n : v[k] = i[1..k]
    OBVIOUS
  <1>13. v[0] = b /\ \A k \in 1..n : v[k] = MergeStep(v[k - 1], w[k])
    <2>1. \A k \in 1..n : v[k] = i[1..k] /\ v[k - 1] = i[1..(k - 1)]
      BY <1>1
    <2> QED BY <1>1, <1>11, <2>1
  <1>14. DOMAIN v = 0..n /\ v = [k \in 0..n |-> v[k]]
    OBVIOUS
  <1> HIDE DEF v
  <1>15. v \in [0..n -> V]
    <2> DEFINE U == {k \in Nat : k <= n => v[k] \in V}
    <2>1. 0 \in U
      BY <1>2, <1>13
    <2>2. ASSUME NEW k \in 1..n, k - 1 \in U PROVE k \in U
      <3>1. v[k - 1] \in V /\ w[k] \in Windows(O)
        BY <1>1, <2>2
      <3>2. MergeStep(v[k - 1], w[k]) \in V
        BY <3>1, MergeStepState DEF V
      <3> QED BY <1>13, <3>2
    <2> HIDE DEF U
    <2>3. 0..n \subseteq U
      BY <1>1, <2>1, <2>2, BoundedInduction
    <2>4. \A k \in 0..n : v[k] \in V
      BY <1>1, <2>3 DEF U
    <2> QED BY <1>14, <2>4
  <1>16. Merge(w) = v[n]
    BY <1>1, <1>3, <1>12
  <1> QED BY <1>13, <1>15, <1>16 DEF Merging, n, b, V

\* The windows up to k make the intervals m.
MakesUp(m, w, k, O) ==
    /\ m \in Seq(Windows(O)) /\ Len(m) >= 1
    /\ m[1].t0 = w[1].t0 /\ m[Len(m)].t1 = w[k].t1
    /\ \A i \in 1..Len(m) : m[i].t0 < m[i].t1
    /\ \A i \in 1..(Len(m) - 1) : m[i].t1 = m[i + 1].t0 /\ m[i].out # m[i + 1].out
    /\ \A i \in 1..Len(m) : \A t \in Int : m[i].t0 <= t /\ t < m[i].t1 =>
          \E j \in 1..k : w[j].t0 <= t /\ t < w[j].t1 /\ w[j].out = m[i].out

\* One more window.
LEMMA MakesUpMore ==
    ASSUME NEW O, NEW w, Tiled(w, O), NEW k \in 2..Len(w), NEW m, MakesUp(m, w, k - 1, O)
    PROVE  MakesUp(MergeStep(m, w[k]), w, k, O)
  <1> DEFINE n == Len(m)
             x == w[k]
  <1>1. k \in Nat /\ k - 1 \in 1..Len(w) /\ x \in Windows(O) /\ x.t0 \in Int /\ x.t1 \in Int /\ x.t0 < x.t1
        /\ w[k - 1].t1 = x.t0
    <2>1. w \in Seq(Windows(O)) /\ k \in 1..Len(w) /\ k - 1 \in 1..(Len(w) - 1) /\ (k - 1) + 1 = k
      BY DEF Tiled
    <2>2. x \in Windows(O) /\ x.t0 < x.t1 /\ w[k - 1].t1 = w[(k - 1) + 1].t0
      BY <2>1 DEF Tiled
    <2> QED BY <2>1, <2>2 DEF Windows
  <1>2. m \in Seq(Windows(O)) /\ n \in Nat /\ n >= 1 /\ m # <<>> /\ Last(m) = m[n]
    BY DEF MakesUp, Last
  <1>3. m[n].t1 = x.t0
    BY <1>1 DEF MakesUp
  <1>4. \A i \in 1..n : m[i].t0 \in Int /\ m[i].t1 \in Int
    <2>1. ASSUME NEW i \in 1..n PROVE m[i] \in Windows(O)
      BY <1>2
    <2> QED BY <2>1 DEF Windows
  <1> HIDE DEF n, x
  <1>5. CASE m[n].out = x.out
    <2> DEFINE a == Extended(m, x.t1)
    <2>1. MergeStep(m, x) = a
      BY <1>2, <1>3, <1>5 DEF MergeStep
    <2>2. Lengthens(a, m, x.t1, O)
      BY <1>1, <1>2, ExtendedLengthens
    <2> HIDE DEF a
    <2>3. /\ a \in Seq(Windows(O)) /\ Len(a) = n /\ \A j \in 1..(n - 1) : a[j] = m[j]
          /\ a[n].t0 = m[n].t0 /\ a[n].t1 = x.t1 /\ a[n].out = m[n].out
      BY <2>2 DEF Lengthens, n
    <2>4. a[1].t0 = w[1].t0
      <3>1. CASE n = 1
        BY <2>3, <3>1 DEF MakesUp, n
      <3>2. CASE n # 1
        <4>1. 1 \in 1..(n - 1)
          BY <1>2, <3>2
        <4> QED BY <2>3, <4>1 DEF MakesUp
      <3> QED BY <3>1, <3>2
    <2>5. ASSUME NEW i \in 1..n PROVE a[i].t0 < a[i].t1
      <3>1. m[i].t0 < m[i].t1
        BY DEF MakesUp, n
      <3>2. CASE i = n
        BY <1>1, <1>3, <1>4, <2>3, <3>1, <3>2
      <3>3. CASE i # n
        <4>1. i \in 1..(n - 1)
          BY <1>2, <3>3
        <4> QED BY <2>3, <3>1, <4>1
      <3> QED BY <3>2, <3>3
    <2>6. ASSUME NEW i \in 1..(n - 1) PROVE a[i].t1 = a[i + 1].t0 /\ a[i].out # a[i + 1].out
      <3>1. m[i].t1 = m[i + 1].t0 /\ m[i].out # m[i + 1].out
        BY DEF MakesUp, n
      <3>2. CASE i + 1 = n
        BY <2>3, <3>1, <3>2
      <3>3. CASE i + 1 # n
        <4>1. i + 1 \in 1..(n - 1)
          BY <1>2, <3>3
        <4> QED BY <2>3, <3>1, <4>1
      <3> QED BY <3>2, <3>3
    <2>7. ASSUME NEW i \in 1..n, NEW t \in Int, a[i].t0 <= t, t < a[i].t1
          PROVE  \E j \in 1..k : w[j].t0 <= t /\ t < w[j].t1 /\ w[j].out = a[i].out
      <3>1. CASE i = n /\ t >= x.t0
        <4>1. k \in 1..k
          BY <1>1
        <4>2. w[k].t0 <= t /\ t < w[k].t1 /\ w[k].out = a[i].out
          BY <1>1, <1>5, <2>3, <2>7, <3>1 DEF x
        <4> QED BY <4>1, <4>2
      <3>2. CASE ~(i = n /\ t >= x.t0)
        <4>1. m[i].t0 <= t /\ t < m[i].t1 /\ m[i].out = a[i].out
          <5>1. CASE i = n
            BY <1>1, <1>3, <1>4, <2>3, <2>7, <3>2, <5>1
          <5>2. CASE i # n
            <6>1. i \in 1..(n - 1)
              BY <1>2, <5>2
            <6> QED BY <2>3, <2>7, <6>1
          <5> QED BY <5>1, <5>2
        <4>2. PICK j \in 1..(k - 1) : w[j].t0 <= t /\ t < w[j].t1 /\ w[j].out = m[i].out
          BY <4>1 DEF MakesUp, n
        <4>3. j \in 1..k
          BY <1>1
        <4> QED BY <4>1, <4>2, <4>3
      <3> QED BY <3>1, <3>2
    <2>8. MakesUp(a, w, k, O)
      BY <1>2, <2>3, <2>4, <2>5, <2>6, <2>7 DEF MakesUp, x
    <2> QED BY <2>1, <2>8 DEF x
  <1>6. CASE m[n].out # x.out
    <2> DEFINE a == Append(m, x)
    <2>1. MergeStep(m, x) = a
      BY <1>2, <1>6 DEF MergeStep
    <2>2. a \in Seq(Windows(O)) /\ Len(a) = n + 1 /\ a[n + 1] = x /\ \A j \in 1..n : a[j] = m[j]
      BY <1>1, <1>2 DEF n
    <2> HIDE DEF a
    <2>3. a[1].t0 = w[1].t0
      <3>1. 1 \in 1..n
        BY <1>2
      <3> QED BY <2>2, <3>1 DEF MakesUp
    <2>4. ASSUME NEW i \in 1..(n + 1) PROVE a[i].t0 < a[i].t1
      <3>1. CASE i = n + 1
        BY <1>1, <2>2, <3>1
      <3>2. CASE i # n + 1
        <4>1. i \in 1..n
          BY <1>2, <3>2
        <4> QED BY <2>2, <4>1 DEF MakesUp, n
      <3> QED BY <3>1, <3>2
    <2>5. ASSUME NEW i \in 1..n PROVE a[i].t1 = a[i + 1].t0 /\ a[i].out # a[i + 1].out
      <3>1. CASE i = n
        BY <1>3, <1>6, <2>2, <3>1
      <3>2. CASE i # n
        <4>1. i \in 1..(n - 1) /\ i + 1 \in 1..n
          BY <1>2, <3>2
        <4> QED BY <2>2, <4>1 DEF MakesUp, n
      <3> QED BY <3>1, <3>2
    <2>6. ASSUME NEW i \in 1..(n + 1), NEW t \in Int, a[i].t0 <= t, t < a[i].t1
          PROVE  \E j \in 1..k : w[j].t0 <= t /\ t < w[j].t1 /\ w[j].out = a[i].out
      <3>1. CASE i = n + 1
        <4>1. k \in 1..k
          BY <1>1
        <4> QED BY <2>2, <2>6, <3>1, <4>1 DEF x
      <3>2. CASE i # n + 1
        <4>1. i \in 1..n
          BY <1>2, <3>2
        <4>2. m[i].t0 <= t /\ t < m[i].t1
          BY <2>2, <2>6, <4>1
        <4>3. PICK j \in 1..(k - 1) : w[j].t0 <= t /\ t < w[j].t1 /\ w[j].out = m[i].out
          BY <4>1, <4>2 DEF MakesUp, n
        <4>4. j \in 1..k
          BY <1>1
        <4> QED BY <2>2, <4>1, <4>3, <4>4
      <3> QED BY <3>1, <3>2
    <2>7. n + 1 >= 1 /\ (n + 1) - 1 = n
      BY <1>2
    <2>8. MakesUp(a, w, k, O)
      BY <2>2, <2>3, <2>4, <2>5, <2>6, <2>7 DEF MakesUp, x
    <2> QED BY <2>1, <2>8 DEF x
  <1> QED BY <1>5, <1>6

(* Merging loses no instant and changes what is said of none.              *)
LEMMA MergeIs ==
    ASSUME NEW O, NEW w, Tiled(w, O), Len(w) >= 1
    PROVE  MakesUp(Merge(w), w, Len(w), O)
  <1> DEFINE n == Len(w)
  <1>1. w \in Seq(Windows(O)) /\ n \in Nat /\ n >= 1 /\ w[1] \in Windows(O) /\ w[1].t0 < w[1].t1
    BY DEF Tiled
  <1>2. PICK v : Merging(v, w, O) /\ Merge(w) = v[n]
    BY <1>1, MergeSteps
  <1>3. v[0] = <<>> /\ \A k \in 1..n : v[k] = MergeStep(v[k - 1], w[k])
    BY <1>2 DEF Merging
  <1> DEFINE U == {k \in Nat : k >= 1 /\ k <= n => MakesUp(v[k], w, k, O)}
  <1>4. 0 \in U
    OBVIOUS
  <1> HIDE DEF n
  <1>5. v[1] = <<w[1]>>
    <2>1. 1 \in 1..n /\ 1 - 1 = 0
      BY <1>1
    <2>2. v[1] = MergeStep(<<>>, w[1])
      BY <1>3, <2>1
    <2>3. MergeStep(<<>>, w[1]) = Append(<<>>, w[1])
      BY Zenon DEF MergeStep
    <2> QED BY <2>2, <2>3
  <1>6. MakesUp(v[1], w, 1, O)
    <2> DEFINE a == <<w[1]>>
    <2>1. a \in Seq(Windows(O)) /\ Len(a) = 1 /\ a[1] = w[1]
      BY <1>1
    <2>2. 1..(1 - 1) = {} /\ 1..1 = {1}
      OBVIOUS
    <2> HIDE DEF a
    <2>3. MakesUp(a, w, 1, O)
      BY <1>1, <2>1, <2>2 DEF MakesUp
    <2> QED BY <1>5, <2>3 DEF a
  <1>7. ASSUME NEW k \in 1..n, k - 1 \in U PROVE k \in U
    <2>1. CASE k = 1
      BY <1>6, <2>1
    <2>2. CASE k # 1
      <3>1. k \in 2..n /\ MakesUp(v[k - 1], w, k - 1, O)
        BY <1>1, <1>7, <2>2
      <3>2. MakesUp(MergeStep(v[k - 1], w[k]), w, k, O)
        BY <3>1, MakesUpMore DEF n
      <3> QED BY <1>3, <3>2
    <2> QED BY <2>1, <2>2
  <1> HIDE DEF U
  <1>8. 0..n \subseteq U
    BY <1>1, <1>4, <1>7, BoundedInduction
  <1>9. n \in U
    BY <1>1, <1>8
  <1> QED BY <1>1, <1>2, <1>9 DEF U, n

-----------------------------------------------------------------------------
\* breakpoints

\* The events of a source: their instants never fall.
Timed(evs) ==
    /\ evs \in Seq(Range(evs))
    /\ \A k \in 1..Len(evs) : evs[k].rec.t \in Int /\ evs[k].rec.seq \in Int
    /\ \A j, k \in 1..Len(evs) : j < k => evs[j].rec.t <= evs[k].rec.t

\* g cuts the span at the instants G and nowhere else.
Cuts(g, G) ==
    /\ g \in Seq(G) /\ Len(g) >= 2
    /\ g[1] = T0 /\ g[Len(g)] = T1
    /\ \A k \in 1..(Len(g) - 1) : g[k] < g[k + 1]
    /\ \A k \in 1..(Len(g) - 1) : \A x \in G : ~(g[k] < x /\ x < g[k + 1])

(* An order of numbers has nothing between neighbours of its list.         *)
LEMMA NumbersList ==
    ASSUME NEW G, G \subseteq T0..T1, T0 \in G, T1 \in G
    PROVE  Cuts(Ascending(G, <), G)
  <1> DEFINE g == Ascending(G, <)
             n == Cardinality(G)
  <1>1. T0 \in Nat /\ T1 \in Nat /\ T0 < T1 /\ G \in SUBSET Int
    BY SpanAssumption
  <1>2. IsFiniteSet(G)
    <2>1. IsFiniteSet(T0..T1)
      BY <1>1, FS_Interval
    <2> QED BY <2>1, FS_Subset
  <1>3. n \in Nat
    BY <1>2, FS_CardinalityType
  <1>4. StrictOrder(NumberOrder(G), G)
    BY <1>1, NumberOrderStrict
  <1>5. Lists(g, NumberOrder(G), G) /\ g \in Seq(G) /\ Len(g) = n
    BY <1>2, <1>4, NumberOrderIs, AscendingLists, Zenon
  <1> HIDE DEF g
  <1>6. /\ g \in [1..n -> G]
        /\ \A j, k \in 1..n : j < k => <<g[j], g[k]>> \in NumberOrder(G)
        /\ \A x \in G : \E k \in 1..n : g[k] = x
    BY <1>5 DEF Lists
  <1> HIDE DEF n
  <1>7. \A k \in 1..n : g[k] \in G /\ g[k] \in Int /\ T0 <= g[k] /\ g[k] <= T1
    <2> TAKE k \in 1..n
    <2>1. g[k] \in G
      BY <1>6
    <2>2. g[k] \in T0..T1
      BY <2>1, Zenon
    <2> QED BY <1>1, <2>1, <2>2
  <1>8. \A j, k \in 1..n : j < k => g[j] < g[k]
    BY <1>6 DEF NumberOrder
  <1>9. PICK i \in 1..n : g[i] = T0
    BY <1>6
  <1>10. PICK l \in 1..n : g[l] = T1
    BY <1>6
  <1>11. i = 1
    <2>1. ~(1 < i)
      BY <1>1, <1>3, <1>7, <1>8, <1>9
    <2> QED BY <1>3, <2>1
  <1>12. l = n
    <2>1. ~(l < n)
      BY <1>1, <1>3, <1>7, <1>8, <1>10
    <2> QED BY <1>3, <2>1
  <1>13. n >= 2
    BY <1>1, <1>3, <1>9, <1>10, <1>11, <1>12
  <1>14. \A k \in 1..(n - 1) : g[k] < g[k + 1]
    BY <1>3, <1>8
  <1>15. ASSUME NEW k \in 1..(n - 1), NEW x \in G, g[k] < x, x < g[k + 1] PROVE FALSE
    <2>1. PICK j \in 1..n : g[j] = x
      BY <1>6
    <2>2. k \in 1..n /\ k + 1 \in 1..n /\ g[k] \in Int /\ g[k + 1] \in Int /\ g[j] \in Int
      BY <1>3, <1>7
    <2>3. ~(j < k) /\ j # k
      BY <1>8, <1>15, <2>1, <2>2
    <2>4. ~(k + 1 < j) /\ j # k + 1
      BY <1>8, <1>15, <2>1, <2>2
    <2> QED BY <1>3, <2>2, <2>3, <2>4
  <1>16. Cuts(g, G)
    BY <1>5, <1>9, <1>10, <1>11, <1>12, <1>13, <1>14, <1>15 DEF Cuts
  <1> QED BY <1>16 DEF g

(* The grid of a source lies in the span, and cuts it at its arrivals and  *)
(* at the ends of the phases.                                              *)
LEMMA GridInSpan ==
    ASSUME NEW evs, Timed(evs), NEW extra \in SUBSET Int
    PROVE  Grid(evs, extra) \subseteq T0..T1 /\ T0 \in Grid(evs, extra) /\ T1 \in Grid(evs, extra)
  <1> DEFINE X == {evs[k].rec.t : k \in DOMAIN evs} \cup {p.t0 : p \in Phases} \cup {p.t1 : p \in Phases} \cup extra
  <1>1. T0 \in Int /\ T1 \in Int /\ T0 < T1
    BY SpanAssumption
  <1>2. ASSUME NEW x \in X PROVE x \in Int
    <2>1. ASSUME NEW k \in DOMAIN evs PROVE evs[k].rec.t \in Int
      BY DEF Timed
    <2>2. \A p \in Phases : p.t0 \in Int /\ p.t1 \in Int
      BY PhasesAssumption
    <2> QED BY <2>1, <2>2
  <1>3. Grid(evs, extra) = {T0, T1} \cup {x \in X : T0 <= x /\ x <= T1}
    BY DEF Grid
  <1> HIDE DEF X
  <1> QED BY <1>1, <1>2, <1>3

LEMMA GridIs ==
    ASSUME NEW evs, Timed(evs), NEW extra \in SUBSET Int
    PROVE  Cuts(Ascending(Grid(evs, extra), <), Grid(evs, extra))
  BY GridInSpan, NumbersList

\* What a window says of the instants in it.
LEMMA PhaseHolds ==
    ASSUME NEW evs, NEW extra, NEW a \in Int, NEW b \in Int, T0 <= a, b <= T1,
           \A x \in Grid(evs, extra) : ~(a < x /\ x < b),
           NEW t \in Int, a <= t, t < b
    PROVE  PhaseOf(t) = PhaseOf(a)
  <1>1. ASSUME NEW p \in Phases PROVE (p.t0 <= t /\ t < p.t1) <=> (p.t0 <= a /\ a < p.t1)
    <2>1. p.t0 \in Int /\ p.t1 \in Int /\ T0 \in Int /\ T1 \in Int
      BY PhasesAssumption, SpanAssumption
    <2>2. T0 <= p.t0 /\ p.t0 <= T1 => p.t0 \in Grid(evs, extra)
      BY DEF Grid
    <2>3. T0 <= p.t1 /\ p.t1 <= T1 => p.t1 \in Grid(evs, extra)
      BY DEF Grid
    <2>4. ~(a < p.t0 /\ p.t0 <= t) /\ ~(a < p.t1 /\ p.t1 <= t)
      BY <2>1, <2>2, <2>3
    <2> QED BY <2>1, <2>4
  <1>2. (\E p \in Phases : p.t0 <= t /\ t < p.t1) <=> (\E p \in Phases : p.t0 <= a /\ a < p.t1)
    BY <1>1
  <1>3. (CHOOSE p \in Phases : p.t0 <= t /\ t < p.t1) = (CHOOSE p \in Phases : p.t0 <= a /\ a < p.t1)
    BY <1>1, Zenon
  <1> QED BY <1>2, <1>3, Zenon DEF PhaseOf

-----------------------------------------------------------------------------
\* The intervals of a source

\* What is said of a window.
Said(evs, s, prof, flags, a, b) ==
    LET o == Observe(evs, a, b, Class[s]) IN Classify(o, ThresholdOf(prof, s, o.regime, flags), Class[s])

\* The intervals m tile the span, and each instant has the outcome of one
\* window of the grid g.
Portray(m, g, evs, s, prof, flags) ==
    /\ m \in Seq(Range(m)) /\ Len(m) >= 1 /\ m[1].t0 = T0 /\ m[Len(m)].t1 = T1
    /\ \A i \in 1..Len(m) : /\ m[i] = [t0 |-> m[i].t0, t1 |-> m[i].t1, out |-> m[i].out]
                            /\ m[i].t0 \in Int /\ m[i].t1 \in Int /\ m[i].t0 < m[i].t1
    /\ \A i \in 1..(Len(m) - 1) : m[i].t1 = m[i + 1].t0 /\ m[i].out # m[i + 1].out
    /\ \A i \in 1..Len(m) : \A t \in Int : m[i].t0 <= t /\ t < m[i].t1 =>
          \E k \in 1..(Len(g) - 1) : /\ g[k] <= t /\ t < g[k + 1]
                                     /\ m[i].out = Said(evs, s, prof, flags, g[k], g[k + 1])

(* What the document says of an instant is what is said of the window of   *)
(* the grid that it lies in.                                               *)
LEMMA Intervals ==
    ASSUME NEW evs, Timed(evs), NEW s, NEW prof, NEW flags, NEW extra \in SUBSET Int
    PROVE  Portray(SourceLiveness(evs, s, prof, flags, extra).intervals,
                   Ascending(Grid(evs, extra), <), evs, s, prof, flags)
  <1> DEFINE G == Grid(evs, extra)
             g == Ascending(G, <)
             w == Elementary(evs, s, prof, flags, extra)
             S(k) == Said(evs, s, prof, flags, g[k], g[k + 1])
             n == Len(g) - 1
             O == {S(k) : k \in 1..n}
             m == Merge(w)
  <1>1. Cuts(g, G)
    BY GridIs
  <1>2. G \subseteq Int
    BY GridInSpan
  <1>3. w = [k \in 1..n |-> [t0 |-> g[k], t1 |-> g[k + 1], out |-> S(k)]]
    BY Zenon DEF Elementary, Said
  <1>4. SourceLiveness(evs, s, prof, flags, extra).intervals = m
    BY DEF SourceLiveness
  <1> HIDE DEF G, g, w, m, S
  <1>5. Len(g) \in Nat /\ n \in Nat /\ n >= 1 /\ \A k \in 1..n : g[k] \in Int /\ g[k + 1] \in Int /\ g[k] < g[k + 1]
    <2>1. g \in Seq(G) /\ Len(g) \in Nat /\ Len(g) >= 2
      BY <1>1 DEF Cuts
    <2>2. ASSUME NEW k \in 1..n PROVE g[k] \in Int /\ g[k + 1] \in Int
      <3>1. g[k] \in G /\ g[k + 1] \in G
        BY <2>1
      <3> QED BY <1>2, <3>1, Zenon
    <2> QED BY <1>1, <2>1, <2>2 DEF Cuts
  <1> HIDE DEF n
  <1>6. \A k \in 1..n : w[k] = [t0 |-> g[k], t1 |-> g[k + 1], out |-> S(k)]
    BY <1>3
  <1>a. \A k \in 1..n : S(k) \in O
    OBVIOUS
  <1> HIDE DEF O
  <1>7. ASSUME NEW k \in 1..n PROVE w[k].t0 = g[k] /\ w[k].t1 = g[k + 1] /\ w[k].out = S(k) /\ S(k) \in O
    <2>1. w[k] = [t0 |-> g[k], t1 |-> g[k + 1], out |-> S(k)]
      BY <1>6
    <2> QED BY <1>a, <2>1
  <1>8. w \in Seq(Windows(O)) /\ Len(w) = n
    <2>1. ASSUME NEW k \in 1..n PROVE w[k] \in Windows(O)
      <3>1. w[k] = [t0 |-> g[k], t1 |-> g[k + 1], out |-> S(k)]
        BY <1>6
      <3>2. g[k] \in Int /\ g[k + 1] \in Int /\ S(k) \in O
        BY <1>5, <1>7
      <3> QED BY <3>1, <3>2 DEF Windows
    <2>2. w \in [1..n -> Windows(O)]
      BY <1>3, <2>1
    <2> QED BY <1>5, <2>2
  <1>9. Tiled(w, O)
    <2>1. ASSUME NEW k \in 1..(n - 1) PROVE w[k].t1 = w[k + 1].t0
      <3>1. k \in 1..n /\ k + 1 \in 1..n
        BY <1>5
      <3> QED BY <1>7, <3>1
    <2> QED BY <1>5, <1>7, <1>8, <2>1 DEF Tiled
  <1>10. MakesUp(m, w, n, O)
    BY <1>5, <1>8, <1>9, MergeIs DEF m
  <1>11. w[1].t0 = T0 /\ w[n].t1 = T1
    <2>1. 1 \in 1..n /\ n \in 1..n /\ n + 1 = Len(g)
      BY <1>5 DEF n
    <2> QED BY <1>1, <1>7, <2>1 DEF Cuts
  <1>12. m \in Seq(Windows(O)) /\ Len(m) \in Nat /\ \A i \in 1..Len(m) : m[i] \in Windows(O)
    BY <1>10 DEF MakesUp
  <1>13. m \in Seq(Range(m))
    BY <1>12 DEF Range
  <1>14. \A i \in 1..Len(m) : /\ m[i] = [t0 |-> m[i].t0, t1 |-> m[i].t1, out |-> m[i].out]
                             /\ m[i].t0 \in Int /\ m[i].t1 \in Int
    BY <1>12 DEF Windows
  <1>15. ASSUME NEW i \in 1..Len(m), NEW t \in Int, m[i].t0 <= t, t < m[i].t1
         PROVE  \E k \in 1..n : g[k] <= t /\ t < g[k + 1] /\ m[i].out = S(k)
    <2>1. PICK k \in 1..n : w[k].t0 <= t /\ t < w[k].t1 /\ w[k].out = m[i].out
      BY <1>10, <1>15 DEF MakesUp
    <2> QED BY <1>7, <2>1
  <1>16. Portray(m, g, evs, s, prof, flags)
    BY <1>10, <1>11, <1>13, <1>14, <1>15 DEF MakesUp, Portray, S, n
  <1> QED BY <1>4, <1>16, Zenon DEF g, G

-----------------------------------------------------------------------------
\* classify, and the span of a window

\* No rule before the last matches.
Clears(o, thr) ==
    /\ thr.mode # "F2" /\ o.regime # NoRegime /\ thr.known /\ ~thr.saturated
    /\ o.chain.status # "UNVERIFIED" /\ o.chain.missing = <<>>
    /\ o.bracketed /\ ~(o.n < MMin) /\ ~(o.gap > thr.ns)

(* LIVE is the answer of the last rule and of no other.                    *)
LEMMA LiveClears ==
    ASSUME NEW o, NEW thr, NEW class
    PROVE  Classify(o, thr, class).verdict = "LIVE" <=> Clears(o, thr)
  <1> DEFINE rules == Ladder(o, thr, class)
             T == {k \in DOMAIN rules : rules[k][1]}
             i == Min(T)
  <1>1. DOMAIN rules = 1..10
    BY DEF Ladder
  <1>2. /\ rules[1] = <<thr.mode = "F2", Outcome("BLIND", "NO_PROFILE", <<>>)>>
        /\ rules[2] = <<o.regime = NoRegime, Outcome("BLIND", "REGIME", <<>>)>>
        /\ rules[3] = <<~thr.known, Outcome("BLIND", "INSUFFICIENT", <<>>)>>
        /\ rules[4] = <<thr.saturated, Outcome("BLIND", "OVERFLOW", <<>>)>>
        /\ rules[5] = <<o.chain.status = "UNVERIFIED", Outcome("BLIND", "CHAIN", <<>>)>>
        /\ rules[6] = <<o.chain.missing # <<>>, Outcome("SUPPRESSED", class, o.chain.missing)>>
        /\ rules[7] = <<~o.bracketed, Outcome("BLIND", "UNBRACKETED", <<>>)>>
        /\ rules[8] = <<o.n < MMin, Outcome("BLIND", "UNDERSAMPLED", <<>>)>>
        /\ rules[9] = <<o.gap > thr.ns, Outcome("BLIND", "GAP", <<>>)>>
        /\ rules[10] = <<TRUE, Outcome("LIVE", "OK", <<>>)>>
    BY DEF Ladder
  <1>3. Classify(o, thr, class) = rules[i][2]
    BY Zenon DEF Classify
  <1>4. T = {k \in 1..10 : rules[k][1]}
    BY <1>1
  <1>5. ASSUME NEW c, NEW v, NEW r, NEW m PROVE <<c, Outcome(v, r, m)>>[2].verdict = v /\ <<c, Outcome(v, r, m)>>[1] = c
    BY DEF Outcome
  <1> HIDE DEF rules
  <1>6. rules[10][1] /\ rules[10][2].verdict = "LIVE"
    BY <1>2, <1>5
  <1>7. \A k \in 1..9 : rules[k][2].verdict # "LIVE"
    <2>1. /\ rules[1][2].verdict = "BLIND" /\ rules[2][2].verdict = "BLIND" /\ rules[3][2].verdict = "BLIND"
          /\ rules[4][2].verdict = "BLIND" /\ rules[5][2].verdict = "BLIND" /\ rules[6][2].verdict = "SUPPRESSED"
          /\ rules[7][2].verdict = "BLIND" /\ rules[8][2].verdict = "BLIND" /\ rules[9][2].verdict = "BLIND"
      BY <1>2, <1>5
    <2>2. \A k \in 1..9 : k = 1 \/ k = 2 \/ k = 3 \/ k = 4 \/ k = 5 \/ k = 6 \/ k = 7 \/ k = 8 \/ k = 9
      OBVIOUS
    <2> QED BY <2>1, <2>2
  <1>8. (\A k \in 1..9 : ~rules[k][1]) <=> Clears(o, thr)
    <2>1. /\ rules[1][1] = (thr.mode = "F2") /\ rules[2][1] = (o.regime = NoRegime) /\ rules[3][1] = (~thr.known)
          /\ rules[4][1] = thr.saturated /\ rules[5][1] = (o.chain.status = "UNVERIFIED")
          /\ rules[6][1] = (o.chain.missing # <<>>) /\ rules[7][1] = (~o.bracketed)
          /\ rules[8][1] = (o.n < MMin) /\ rules[9][1] = (o.gap > thr.ns)
      BY <1>2, <1>5
    <2>2. (\A k \in 1..9 : ~rules[k][1]) <=>
             /\ ~rules[1][1] /\ ~rules[2][1] /\ ~rules[3][1] /\ ~rules[4][1] /\ ~rules[5][1]
             /\ ~rules[6][1] /\ ~rules[7][1] /\ ~rules[8][1] /\ ~rules[9][1]
      OBVIOUS
    <2> QED BY <2>1, <2>2, Zenon DEF Clears
  <1> HIDE DEF T
  <1>9. i \in T /\ \A y \in T : i <= y
    <2>1. 10 \in T /\ T \in SUBSET Nat
      BY <1>4, <1>6
    <2> QED BY <2>1, MinIs
  <1>10. i \in 1..10 /\ rules[i][1] /\ \A k \in 1..10 : rules[k][1] => i <= k
    BY <1>4, <1>9
  <1> HIDE DEF i
  <1>11. rules[i][2].verdict = "LIVE" <=> i = 10
    BY <1>6, <1>7, <1>10
  <1>12. i = 10 <=> \A k \in 1..9 : ~rules[k][1]
    <2>1. ASSUME i = 10, NEW k \in 1..9 PROVE ~rules[k][1]
      BY <1>10, <2>1
    <2>2. ASSUME \A k \in 1..9 : ~rules[k][1] PROVE i = 10
      BY <1>10, <2>2
    <2> QED BY <2>1, <2>2
  <1> QED BY <1>3, <1>8, <1>11, <1>12

(* A set of places that holds all before each of its own is an initial     *)
(* stretch.                                                                *)
LEMMA Stretch ==
    ASSUME NEW n \in Nat, NEW D \in SUBSET (1..n),
           \A k \in D : \A j \in 1..n : j < k => j \in D
    PROVE  Cardinality(D) \in 0..n /\ D = 1..Cardinality(D)
  <1>1. CASE D = {}
    <2>1. Cardinality(D) = 0 /\ 1..0 = {}
      BY <1>1, FS_EmptySet
    <2> QED BY <1>1, <2>1
  <1>2. CASE D # {}
    <2> DEFINE m == Largest(D)
    <2>1. m \in D /\ \A y \in D : m >= y
      BY <1>2, LargestTaken
    <2> HIDE DEF m
    <2>4. m \in 1..n
      BY <2>1, Zenon
    <2>5. \A k \in 1..n : k \in D <=> k <= m
      BY <2>1, <2>4
    <2>6. D = {k \in 1..n : k <= m}
      BY <2>5
    <2>7. 1..m = {k \in 1..n : k <= m}
      BY <2>4
    <2>2. m \in 1..n /\ D = 1..m
      BY <2>4, <2>6, <2>7
    <2>3. Cardinality(1..m) = m
      <3>1. 1 \in Int /\ m \in Int /\ 1 <= m
        BY <2>2
      <3>2. Cardinality(1..m) = (IF 1 > m THEN 0 ELSE m - 1 + 1)
        BY <3>1, FS_Interval
      <3> QED BY <3>1, <3>2
    <2> QED BY <2>2, <2>3
  <1> QED BY <1>1, <1>2

\* The place in evs of what is on either side of a window.
Flanks(l, evs, a, b) ==
    /\ l \in 0..Len(evs)
    /\ Span(evs, a, b).left = l /\ Span(evs, a, b).right = l + 1
    /\ \A k \in 1..Len(evs) : (evs[k].rec.t <= a <=> k <= l) /\ (evs[k].rec.t < b <=> k <= l)

(* A window with no arrival inside has neighbours on its two sides.        *)
LEMMA SpanIs ==
    ASSUME NEW evs, Timed(evs), NEW a \in Int, NEW b \in Int, a < b,
           \A k \in 1..Len(evs) : ~(a < evs[k].rec.t /\ evs[k].rec.t < b)
    PROVE  \E l : Flanks(l, evs, a, b)
  <1> DEFINE n == Len(evs)
             A == {k \in DOMAIN evs : evs[k].rec.t <= a}
             B == {k \in DOMAIN evs : evs[k].rec.t < b}
             l == Cardinality(A)
  <1>1. n \in Nat /\ DOMAIN evs = 1..n /\ \A k \in 1..n : evs[k].rec.t \in Int
    BY DEF Timed
  <1>2. A = B
    BY <1>1
  <1>3. \A k \in A : \A j \in 1..n : j < k => j \in A
    <2> SUFFICES ASSUME NEW k \in A, NEW j \in 1..n, j < k PROVE j \in A
      OBVIOUS
    <2>1. k \in 1..n /\ evs[k].rec.t <= a
      BY <1>1
    <2>2. evs[j].rec.t <= evs[k].rec.t
      BY <2>1 DEF Timed
    <2> QED BY <1>1, <2>1, <2>2
  <1>4. A \in SUBSET (1..n)
    BY <1>1
  <1>5. \A k \in 1..n : (k \in A <=> evs[k].rec.t <= a) /\ (k \in B <=> evs[k].rec.t < b)
    BY <1>1
  <1>6. Span(evs, a, b) = [left |-> Cardinality(A), right |-> Cardinality(B) + 1]
    BY Zenon DEF Span
  <1> HIDE DEF A, B, n
  <1>7. l \in 0..n /\ A = 1..l
    BY <1>1, <1>3, <1>4, Stretch
  <1> HIDE DEF l
  <1>8. \A k \in 1..n : k \in A <=> k <= l
    BY <1>1, <1>7
  <1>9. Span(evs, a, b).left = l /\ Span(evs, a, b).right = l + 1
    BY <1>2, <1>6 DEF l
  <1>10. Flanks(l, evs, a, b)
    BY <1>2, <1>5, <1>7, <1>8, <1>9 DEF Flanks, n
  <1> QED BY <1>10

\* A threshold that can be compared with.
Usable(thr) == thr.mode # "F2" /\ thr.known /\ ~thr.saturated

\* The neighbours l and l + 1 are near enough, and linked where they should be.
Joined(l, evs, class, thr) ==
    /\ l \in 1..(Len(evs) - 1) /\ ~(2 < MMin)
    /\ ~(evs[l + 1].rec.t - evs[l].rec.t > thr.ns)
    /\ class # "NONE" => Linked(evs[l], evs[l + 1]) /\ evs[l + 1].rec.seq <= evs[l].rec.seq + 1

(* The chain of two neighbours.                                            *)
LEMMA ChainIs ==
    ASSUME NEW evs, Timed(evs), NEW l \in 1..(Len(evs) - 1), NEW class
    PROVE  LET c == ChainState(evs, l, l + 1, class)
           IN (c.status # "UNVERIFIED" /\ c.missing = <<>>)
                <=> (class # "NONE" => Linked(evs[l], evs[l + 1]) /\ evs[l + 1].rec.seq <= evs[l].rec.seq + 1)
  <1> DEFINE pairs == {k \in l..((l + 1) - 1) : TRUE}
             holes == {k \in pairs : evs[k + 1].rec.seq > evs[k].rec.seq + 1}
             c == ChainState(evs, l, l + 1, class)
             open == \E k \in pairs : ~Linked(evs[k], evs[k + 1])
             two == <<evs[Min(holes)].rec.seq, evs[Min(holes) + 1].rec.seq>>
  <1>1. pairs = {l} /\ l \in 1..Len(evs) /\ l + 1 \in 1..Len(evs)
    BY DEF Timed
  <1>2. evs[l].rec.seq \in Int /\ evs[l + 1].rec.seq \in Int
    BY <1>1 DEF Timed
  <1>3. holes = {} <=> evs[l + 1].rec.seq <= evs[l].rec.seq + 1
    <2> HIDE DEF pairs
    <2> QED BY <1>1, <1>2
  <1>4. open <=> ~Linked(evs[l], evs[l + 1])
    <2> HIDE DEF pairs
    <2> QED BY <1>1
  <1>5. c = IF class = "NONE" THEN [status |-> "ABSENT", missing |-> <<>>]
            ELSE IF open THEN [status |-> "UNVERIFIED", missing |-> <<>>]
            ELSE [status |-> "VERIFIED", missing |-> IF holes = {} THEN <<>> ELSE two]
    BY Zenon DEF ChainState
  <1>6. two # <<>>
    OBVIOUS
  <1> HIDE DEF open, holes, two, c
  <1>7. CASE class = "NONE"
    BY <1>5, <1>7 DEF c
  <1>8. CASE class # "NONE" /\ open
    BY <1>4, <1>5, <1>8 DEF c
  <1>9. CASE class # "NONE" /\ ~open
    <2>1. c.status = "VERIFIED" /\ (c.missing = <<>> <=> holes = {})
      BY <1>5, <1>6, <1>9
    <2> QED BY <1>3, <1>4, <1>9, <2>1 DEF c
  <1> QED BY <1>7, <1>8, <1>9

(* The gap of two neighbours.                                              *)
LEMMA GapIs ==
    ASSUME NEW evs, Timed(evs), NEW l \in 1..(Len(evs) - 1)
    PROVE  Max({0} \cup {evs[k + 1].rec.t - evs[k].rec.t : k \in l..((l + 1) - 1)}) = evs[l + 1].rec.t - evs[l].rec.t
  <1> DEFINE v == evs[l + 1].rec.t - evs[l].rec.t
             X == {0} \cup {evs[k + 1].rec.t - evs[k].rec.t : k \in l..((l + 1) - 1)}
  <1>1. l \in Nat /\ l \in 1..Len(evs) /\ l + 1 \in 1..Len(evs) /\ l < l + 1
    BY DEF Timed
  <1>2. v \in Nat
    <2>1. evs[l].rec.t \in Int /\ evs[l + 1].rec.t \in Int /\ evs[l].rec.t <= evs[l + 1].rec.t
      BY <1>1 DEF Timed
    <2> QED BY <2>1
  <1>3. l..((l + 1) - 1) = {l}
    BY <1>1
  <1>4. X = {0, v}
    BY <1>3
  <1> HIDE DEF X
  <1>5. X \subseteq 0..v /\ v \in X
    <2> HIDE DEF v
    <2> QED BY <1>2, <1>4
  <1> HIDE DEF v
  <1>6. Largest(X) = v
    BY <1>2, <1>5, LargestOf
  <1>7. Max(X) = Largest(X)
    BY Zenon DEF Max, Largest
  <1> QED BY <1>6, <1>7 DEF X, v

(* LIVE is said of a window with two neighbours that are near enough, and  *)
(* linked where they should be, in a regime with a threshold; of no other. *)
LEMMA LiveSaid ==
    ASSUME NEW evs, Timed(evs), NEW s, NEW prof, NEW flags, NEW a \in Int, NEW b \in Int,
           NEW l, Flanks(l, evs, a, b)
    PROVE  LET thr == ThresholdOf(prof, s, PhaseOf(a), flags)
           IN Said(evs, s, prof, flags, a, b).verdict = "LIVE"
                <=> PhaseOf(a) # NoRegime /\ Usable(thr) /\ Joined(l, evs, Class[s], thr)
  <1> DEFINE n == Len(evs)
             class == Class[s]
             sp == Span(evs, a, b)
             br == sp.left > 0 /\ sp.right <= n
             gp == Max({0} \cup {evs[k + 1].rec.t - evs[k].rec.t : k \in sp.left..(sp.right - 1)})
             ch == ChainState(evs, sp.left, sp.right, class)
             no == [status |-> IF class = "NONE" THEN "ABSENT" ELSE "VERIFIED", missing |-> <<>>]
             o == Observe(evs, a, b, class)
             thr == ThresholdOf(prof, s, PhaseOf(a), flags)
  <1>1. o = [regime |-> PhaseOf(a), bracketed |-> br, n |-> IF br THEN sp.right - sp.left + 1 ELSE 0,
             gap |-> IF br THEN gp ELSE 0, chain |-> IF br THEN ch ELSE no]
    BY Zenon DEF Observe
  <1>2. l \in 0..n /\ sp.left = l /\ sp.right = l + 1 /\ n \in Nat
    BY DEF Flanks, Timed
  <1>3. Said(evs, s, prof, flags, a, b) = Classify(o, ThresholdOf(prof, s, o.regime, flags), class)
    BY Zenon DEF Said
  <1>4. br <=> l \in 1..(n - 1)
    <2> HIDE DEF sp, n
    <2> QED BY <1>2
  <1> HIDE DEF o, sp
  <1>5. o.regime = PhaseOf(a) /\ (o.bracketed <=> br)
    <2> HIDE DEF br, gp, ch, no
    <2> QED BY <1>1
  <1>6. Said(evs, s, prof, flags, a, b).verdict = "LIVE" <=> Clears(o, thr)
    <2>1. ThresholdOf(prof, s, o.regime, flags) = thr
      BY <1>5
    <2> QED BY <1>3, <2>1, LiveClears
  <1>7. CASE br
    <2>1. l \in 1..(n - 1)
      BY <1>4, <1>7
    <2>2. o.n = 2
      <3>1. o.n = sp.right - sp.left + 1
        <4> HIDE DEF gp, ch, no, br
        <4> QED BY <1>1, <1>7
      <3> QED BY <1>2, <2>1, <3>1
    <2>3. o.gap = evs[l + 1].rec.t - evs[l].rec.t
      <3>1. o.gap = gp
        <4> HIDE DEF gp, ch, no, br
        <4> QED BY <1>1, <1>7
      <3>2. gp = Max({0} \cup {evs[k + 1].rec.t - evs[k].rec.t : k \in l..((l + 1) - 1)})
        BY <1>2, Zenon
      <3> QED BY <2>1, <3>1, <3>2, GapIs, Zenon
    <2>4. o.chain = ChainState(evs, l, l + 1, class)
      <3>1. o.chain = ch
        <4> HIDE DEF gp, ch, no, br
        <4> QED BY <1>1, <1>7
      <3> QED BY <1>2, <3>1
    <2>5. (o.chain.status # "UNVERIFIED" /\ o.chain.missing = <<>>)
             <=> (class # "NONE" => Linked(evs[l], evs[l + 1]) /\ evs[l + 1].rec.seq <= evs[l].rec.seq + 1)
      BY <2>1, <2>4, ChainIs
    <2> HIDE DEF thr, class, n, br, gp, ch, no
    <2> QED BY <1>5, <1>6, <1>7, <2>1, <2>2, <2>3, <2>5, Zenon DEF Clears, Usable, Joined, n, class, thr
  <1>8. CASE ~br
    <2> HIDE DEF br
    <2> QED BY <1>4, <1>5, <1>6, <1>8, Zenon DEF Clears, Joined
  <1> QED BY <1>7, <1>8

-----------------------------------------------------------------------------
\* The gaps of a calibration run

\* q runs through the n records S, in the order of their numbers and instants.
Runs(q, n, S) ==
    /\ n \in Nat /\ q \in [1..n -> S] /\ IsFiniteSet(S)
    /\ \A k \in 1..(n - 1) : q[k + 1].seq = q[k].seq + 1 /\ q[k].t <= q[k + 1].t
    /\ \A k \in 1..n : q[k].t \in Int /\ q[k].seq \in Nat
    /\ \A p \in S \X S : p[2].seq = p[1].seq + 1 => \E k \in 1..(n - 1) : p = <<q[k], q[k + 1]>>
    /\ \A j, k \in 1..n : q[j].seq = q[k].seq => j = k

(* A clean run numbers the records of a source in the order of their       *)
(* instants, without a hole: neighbours in that order are neighbours in    *)
(* the numbering, and the other way round.                                 *)
LEMMA NumbersRun ==
    ASSUME NEW R, Numbered(R), NEW s, NEW S, S = Of(R, s)
    PROVE  Runs(InOrder(S), Cardinality(S), S)
  <1> DEFINE q == InOrder(S)
             n == Cardinality(S)
  <1>1. Keyed(S) /\ (\A r \in S : r.src = s) /\ S \subseteq R
    <2>1. S \in SUBSET R
      BY DEF Of
    <2>2. \A r \in S : r.src = s
      BY DEF Of
    <2> QED BY <2>1, <2>2, NumberedKeyed
  <1>2. n \in Nat /\ IsFiniteSet(S)
    BY <1>1, FS_CardinalityType DEF Keyed
  <1>3. Lists(q, BundleOrder(S), S)
    BY <1>1, BundleLists, Zenon
  <1> HIDE DEF q, n
  <1>4. q \in [1..n -> S] /\ \A r \in S : \E k \in 1..n : q[k] = r
    BY <1>3 DEF Lists, n
  <1>5. \A r \in S : r.seq \in Nat /\ r.t \in Int
    BY <1>1 DEF Keyed, WellFormed
  <1>6. \A j, k \in 1..n : j < k => Before(q[j], q[k])
    BY <1>3 DEF Lists, BundleOrder, n
  <1>7. \A r, x \in S : (x.seq = r.seq => x = r) /\ (x.seq < r.seq => x.t <= r.t)
    <2> TAKE r, x \in S
    <2>1. r \in R /\ r.src = s /\ x \in Of(R, r.src)
      BY <1>1 DEF Of
    <2> QED BY <2>1 DEF Numbered
  <1>8. \A r \in S : r.seq = 0 \/ \E x \in S : x.seq = r.seq - 1
    <2> TAKE r \in S
    <2>1. r \in R /\ r.src = s
      BY <1>1
    <2> QED BY <2>1 DEF Numbered
  <1>9. \A j, k \in 1..n : j < k => q[j].seq < q[k].seq /\ q[j].t <= q[k].t
    <2> SUFFICES ASSUME NEW j \in 1..n, NEW k \in 1..n, j < k PROVE q[j].seq < q[k].seq /\ q[j].t <= q[k].t
      OBVIOUS
    <2>1. q[j] \in S /\ q[k] \in S /\ Before(q[j], q[k])
      BY <1>4, <1>6
    <2>2. q[j].seq \in Nat /\ q[k].seq \in Nat /\ q[j].t \in Int /\ q[k].t \in Int
      BY <1>5, <2>1
    <2>3. q[k].seq < q[j].seq => q[k].t <= q[j].t
      BY <1>7, <2>1
    <2>4. q[k].seq = q[j].seq => q[k] = q[j]
      BY <1>7, <2>1
    <2> QED BY <2>1, <2>2, <2>3, <2>4 DEF Before
  <1>10. \A k \in 1..n : q[k] \in S /\ q[k].t \in Int /\ q[k].seq \in Nat
    BY <1>4, <1>5
  <1>11. ASSUME NEW k \in 1..(n - 1) PROVE q[k + 1].seq = q[k].seq + 1 /\ q[k].t <= q[k + 1].t
    <2>1. k \in 1..n /\ k + 1 \in 1..n /\ k < k + 1
      BY <1>2
    <2>2. q[k].seq < q[k + 1].seq /\ q[k].t <= q[k + 1].t /\ q[k].seq \in Nat /\ q[k + 1].seq \in Nat
      BY <1>9, <1>10, <2>1
    <2>3. PICK x \in S : x.seq = q[k + 1].seq - 1
      BY <1>8, <1>10, <2>1, <2>2
    <2>4. PICK j \in 1..n : q[j] = x
      BY <1>4
    <2>5. ~(j < k) /\ ~(k + 1 < j)
      BY <1>9, <1>10, <2>1, <2>2, <2>3, <2>4
    <2>6. j = k \/ j = k + 1
      BY <2>1, <2>5, <1>2
    <2> QED BY <2>2, <2>3, <2>4, <2>6
  <1>12. ASSUME NEW j \in 1..n, NEW k \in 1..n, q[j].seq = q[k].seq PROVE j = k
    <2>1. ~(j < k) /\ ~(k < j)
      BY <1>9, <1>10, <1>12
    <2> QED BY <1>2, <2>1
  <1>13. ASSUME NEW p \in S \X S, p[2].seq = p[1].seq + 1 PROVE \E k \in 1..(n - 1) : p = <<q[k], q[k + 1]>>
    <2>1. p[1] \in S /\ p[2] \in S /\ p = <<p[1], p[2]>>
      OBVIOUS
    <2>2. PICK i \in 1..n : q[i] = p[1]
      BY <1>4, <2>1
    <2>3. PICK j \in 1..n : q[j] = p[2]
      BY <1>4, <2>1
    <2>4. i < j
      BY <1>2, <1>9, <1>10, <1>13, <2>2, <2>3
    <2>5. i \in 1..(n - 1) /\ i + 1 \in 1..n
      BY <1>2, <2>4
    <2>6. q[i + 1].seq = q[j].seq
      BY <1>11, <1>13, <2>2, <2>3, <2>5
    <2>7. j = i + 1
      BY <1>12, <2>5, <2>6
    <2> QED BY <2>1, <2>2, <2>3, <2>5, <2>7
  <1>14. Runs(q, n, S)
    BY <1>2, <1>4, <1>10, <1>11, <1>12, <1>13 DEF Runs
  <1> QED BY <1>14 DEF q, n

\* The arrivals of one regime that follow one another in the numbering.
InRegime(a, b, g, ex) == PhaseOf(a.t) = g /\ PhaseOf(b.t) = g /\ ~\E x \in ex : Meets(x, a.t, b.t)
Gaps(S, g, ex) == {p \in S \X S : p[2].seq = p[1].seq + 1 /\ InRegime(p[1], p[2], g, ex)}
Width(p) == p[2].t - p[1].t

\* v lists widths of the gaps P, and one at place k has at most k - 1 shorter.
Ranks(v, P) ==
    /\ IsFiniteSet(P) /\ Len(v) = Cardinality(P) /\ DOMAIN v = 1..Len(v)
    /\ \A k \in 1..Len(v) : \E p \in P :
          /\ v[k][1] = Width(p) /\ Width(p) \in Nat
          /\ \E m \in 0..(k - 1) : Cardinality({x \in P : Width(x) < Width(p)}) = m

WidthOrder(G) == {x \in G \X G : x[1][1] < x[2][1] \/ (x[1][1] = x[2][1] /\ x[1][2] < x[2][2])}

LEMMA WidthOrderIs ==
    ASSUME NEW S
    PROVE  Ascending(S, LAMBDA a, b : a[1] < b[1] \/ (a[1] = b[1] /\ a[2] < b[2]))
              = <<>> \o AscendingBy(S, WidthOrder(S))
  <1> DEFINE B(y, x) == y[1] < x[1] \/ (y[1] = x[1] /\ y[2] < x[2])
             c(k) == CHOOSE x \in S : Cardinality({y \in S : B(y, x)}) = k - 1
             d(k) == CHOOSE x \in S : Cardinality(Preceding(WidthOrder(S), S, x)) = k - 1
  <1>1. \A x \in S : {y \in S : B(y, x)} = Preceding(WidthOrder(S), S, x)
    BY DEF WidthOrder, Preceding
  <1>3. Ascending(S, LAMBDA a, b : a[1] < b[1] \/ (a[1] = b[1] /\ a[2] < b[2]))
            = <<>> \o [k \in 1..Cardinality(S) |-> c(k)]
    BY Zenon DEF Ascending
  <1> HIDE DEF B
  <1>2. \A k \in 1..Cardinality(S) : c(k) = d(k)
    <2> TAKE k \in 1..Cardinality(S)
    <2> QED BY <1>1, Zenon
  <1>4. AscendingBy(S, WidthOrder(S)) = [k \in 1..Cardinality(S) |-> d(k)]
    BY DEF AscendingBy
  <1> HIDE DEF c, d
  <1>5. [k \in 1..Cardinality(S) |-> c(k)] = [k \in 1..Cardinality(S) |-> d(k)]
    BY <1>2
  <1> QED BY <1>3, <1>4, <1>5, Zenon

(* The gaps of a regime, as S6 lists them, are the pairs of arrivals that  *)
(* follow one another in it, ranked by their widths.                       *)
LEMMA GapsRanked ==
    ASSUME NEW R, Numbered(R), NEW s, NEW S, S = Of(R, s), NEW g, NEW ex
    PROVE  Ranks(GapVector(S, g, ex), Gaps(S, g, ex)) /\ Len(GapVector(S, g, ex)) \in Nat
  <1> DEFINE q == InOrder(S)
             n == Cardinality(S)
             I == {i \in 1..(n - 1) : InRegime(q[i], q[i + 1], g, ex)}
             w(k) == q[k + 1].t - q[k].t
             G == {<<w(k), k>> : k \in I}
             v == GapVector(S, g, ex)
             P == Gaps(S, g, ex)
             c == Cardinality(G)
             f == [y \in G |-> <<q[y[2]], q[y[2] + 1]>>]
  <1>1. /\ n \in Nat /\ q \in [1..n -> S] /\ IsFiniteSet(S)
        /\ \A k \in 1..(n - 1) : q[k + 1].seq = q[k].seq + 1 /\ q[k].t <= q[k + 1].t
        /\ \A k \in 1..n : q[k].t \in Int /\ q[k].seq \in Nat
        /\ \A p \in S \X S : p[2].seq = p[1].seq + 1 => \E k \in 1..(n - 1) : p = <<q[k], q[k + 1]>>
        /\ \A j, k \in 1..n : q[j].seq = q[k].seq => j = k
    <2>1. Runs(q, n, S)
      BY NumbersRun, Zenon
    <2> HIDE DEF n, q
    <2> QED BY <2>1 DEF Runs
  <1>2. Len(q) = n
    <2> HIDE DEF q, n
    <2> QED BY <1>1
  <1>3. v = <<>> \o AscendingBy(G, WidthOrder(G))
    <2> DEFINE J == {i \in 1..(Len(q) - 1) :
                       /\ PhaseOf(q[i].t) = g /\ PhaseOf(q[i + 1].t) = g
                       /\ ~\E x \in ex : Meets(x, q[i].t, q[i + 1].t)}
               H == {<<q[k + 1].t - q[k].t, k>> : k \in J}
    <2>1. v = Ascending(H, LAMBDA a, b : a[1] < b[1] \/ (a[1] = b[1] /\ a[2] < b[2]))
      BY Zenon DEF GapVector
    <2>2. J = I
      <3> HIDE DEF q, n
      <3> QED BY <1>2 DEF InRegime
    <2>3. H = G
      BY <2>2, Zenon
    <2> HIDE DEF H
    <2>4. v = <<>> \o AscendingBy(H, WidthOrder(H))
      BY <2>1, WidthOrderIs, Zenon
    <2> QED BY <2>3, <2>4, Zenon
  <1> HIDE DEF q, n, v
  <1>4. I \subseteq 1..(n - 1) /\ \A k \in I : k \in Nat /\ k \in 1..n /\ k + 1 \in 1..n /\ w(k) \in Nat
    <2>1. \A k \in 1..(n - 1) : k \in Nat /\ k \in 1..n /\ k + 1 \in 1..n
      BY <1>1
    <2>2. ASSUME NEW k \in 1..(n - 1) PROVE w(k) \in Nat
      <3>1. q[k].t \in Int /\ q[k + 1].t \in Int /\ q[k].t <= q[k + 1].t
        BY <1>1, <2>1
      <3> QED BY <3>1
    <2> QED BY <2>1, <2>2
  <1>5. \A y \in G : y[2] \in I /\ y[1] = w(y[2]) /\ y = <<y[1], y[2]>>
    <2> HIDE DEF I, w
    <2> QED OBVIOUS
  <1>6. \A k \in I : <<w(k), k>> \in G
    <2> HIDE DEF I, w
    <2> QED OBVIOUS
  <1>7. IsFiniteSet(G)
    <2> DEFINE h == [k \in I |-> <<w(k), k>>]
    <2>1. IsFiniteSet(1..(n - 1))
      <3>1. 1 \in Int /\ n - 1 \in Int
        BY <1>1
      <3> QED BY <3>1, FS_Interval
    <2>2. IsFiniteSet(I)
      BY <1>4, <2>1, FS_Subset
    <2>3. Imaged(h, I) = G
      <3> HIDE DEF w, I
      <3> QED BY DEF Imaged
    <2>4. IsFiniteSet(Imaged(h, I))
      BY <2>2, ImageFinite
    <2> QED BY <2>3, <2>4
  <1> HIDE DEF G, I
  <1>8. c \in Nat
    BY <1>7, FS_CardinalityType
  <1>9. StrictOrder(WidthOrder(G), G)
    <2>1. \A y \in G : y[1] \in Nat /\ y[2] \in Nat /\ y = <<y[1], y[2]>>
      <3> HIDE DEF w
      <3> QED BY <1>4, <1>5
    <2>2. \A x, y \in G : <<x, y>> \in WidthOrder(G) <=> (x[1] < y[1] \/ (x[1] = y[1] /\ x[2] < y[2]))
      BY DEF WidthOrder
    <2>3. \A x \in G : <<x, x>> \notin WidthOrder(G)
      BY <2>1, <2>2
    <2>4. \A x, y, z \in G : <<x, y>> \in WidthOrder(G) /\ <<y, z>> \in WidthOrder(G) => <<x, z>> \in WidthOrder(G)
      BY <2>1, <2>2
    <2>5. \A x, y \in G : x = y \/ <<x, y>> \in WidthOrder(G) \/ <<y, x>> \in WidthOrder(G)
      <3> TAKE x, y \in G
      <3>1. x[1] = y[1] /\ x[2] = y[2] => x = y
        BY <2>1
      <3> QED BY <2>1, <2>2, <3>1
    <2> QED BY <2>3, <2>4, <2>5 DEF StrictOrder
  <1>10. Lists(v, WidthOrder(G), G) /\ v \in Seq(G) /\ Len(v) = c
    BY <1>3, <1>7, <1>9, AscendingLists, Zenon
  <1> HIDE DEF c
  <1>11. /\ v \in [1..c -> G]
         /\ \A j, k \in 1..c : j < k => <<v[j], v[k]>> \in WidthOrder(G)
         /\ \A y \in G : \E k \in 1..c : v[k] = y
    BY <1>10 DEF Lists, c
  <1>12. \A k \in I : /\ <<q[k], q[k + 1]>> \in P /\ Width(<<q[k], q[k + 1]>>) = w(k)
    <2> TAKE k \in I
    <2>1. q[k] \in S /\ q[k + 1] \in S /\ q[k + 1].seq = q[k].seq + 1
      BY <1>1, <1>4
    <2>2. InRegime(q[k], q[k + 1], g, ex)
      BY DEF I
    <2> QED BY <2>1, <2>2 DEF Gaps, Width
  <1>13. ASSUME NEW p \in P PROVE \E k \in I : p = <<q[k], q[k + 1]>>
    <2>1. p \in S \X S /\ p[2].seq = p[1].seq + 1 /\ InRegime(p[1], p[2], g, ex)
      BY DEF Gaps
    <2>2. PICK k \in 1..(n - 1) : p = <<q[k], q[k + 1]>>
      BY <1>1, <2>1
    <2>3. k \in I
      BY <2>1, <2>2 DEF I
    <2> QED BY <2>2, <2>3
  <1> HIDE DEF P
  <1>14. /\ \A y \in G : f[y] \in P /\ Width(f[y]) = y[1] /\ f[y] = <<q[y[2]], q[y[2] + 1]>> /\ y[1] \in Nat
         /\ DOMAIN f = G /\ f = [y \in G |-> f[y]]
    <2> HIDE DEF w
    <2> QED BY <1>4, <1>5, <1>12
  <1>15. \A p \in P : \E y \in G : f[y] = p
    <2> TAKE p \in P
    <2>1. PICK k \in I : p = <<q[k], q[k + 1]>>
      BY <1>13
    <2> DEFINE y == <<w(k), k>>
    <2>2. y \in G /\ y[2] = k
      BY <1>6
    <2> HIDE DEF y, f
    <2>3. f[y] = p
      BY <1>14, <2>1, <2>2
    <2> QED BY <2>2, <2>3
  <1>16. \A x, y \in G : f[x] = f[y] => x = y
    <2> SUFFICES ASSUME NEW x \in G, NEW y \in G, f[x] = f[y] PROVE x = y
      OBVIOUS
    <2> HIDE DEF f
    <2>1. q[x[2]] = q[y[2]]
      BY <1>14
    <2>2. x[2] \in 1..n /\ y[2] \in 1..n
      <3> HIDE DEF w
      <3> QED BY <1>4, <1>5
    <2>3. x[2] = y[2]
      BY <1>1, <2>1, <2>2
    <2>4. x[1] = y[1]
      BY <1>14
    <2>5. x = <<x[1], x[2]>> /\ y = <<y[1], y[2]>>
      <3> HIDE DEF w
      <3> QED BY <1>5
    <2> QED BY <2>3, <2>4, <2>5
  <1> HIDE DEF f
  <1>17. IsFiniteSet(P) /\ Cardinality(P) = c
    <2>1. f \in [G -> P]
      BY <1>14
    <2>2. f \in Bijection(G, P)
      BY <1>15, <1>16, <2>1 DEF Bijection, Injection, Surjection, IsInjective
    <2> QED BY <1>7, <2>2, FS_Bijection DEF c, ExistsBijection
  <1>18. ASSUME NEW k \in 1..c
         PROVE  \E p \in P : /\ v[k][1] = Width(p) /\ Width(p) \in Nat
                             /\ \E m \in 0..(k - 1) : Cardinality({x \in P : Width(x) < Width(p)}) = m
    <2> DEFINE p == f[v[k]]
               T == {x \in P : Width(x) < Width(p)}
               h == [i \in 1..c |-> f[v[i]]]
               U == Imaged(h, 1..(k - 1))
    <2>1. v[k] \in G /\ k \in Nat /\ k >= 1 /\ k <= c
      BY <1>8, <1>11
    <2>2. p \in P /\ Width(p) = v[k][1] /\ Width(p) \in Nat
      BY <1>14, <2>1
    <2> HIDE DEF p
    <2>3. ASSUME NEW x \in T PROVE x \in U
      <3>1. x \in P /\ Width(x) < Width(p)
        OBVIOUS
      <3>2. PICK y \in G : f[y] = x
        BY <1>15, <3>1
      <3>3. PICK i \in 1..c : v[i] = y
        BY <1>11
      <3>4. Width(x) = y[1] /\ y[1] \in Nat
        BY <1>14, <3>2
      <3>5. i # k
        BY <2>2, <3>1, <3>3, <3>4
      <3>6. ~(k < i)
        <4> SUFFICES ASSUME k < i PROVE FALSE
          OBVIOUS
        <4>1. <<v[k], v[i]>> \in WidthOrder(G)
          BY <1>11
        <4>2. v[k][1] <= v[i][1]
          BY <2>2, <3>3, <3>4, <4>1 DEF WidthOrder
        <4> QED BY <2>2, <3>1, <3>3, <3>4, <4>2
      <3>7. i \in 1..(k - 1)
        BY <1>8, <2>1, <3>5, <3>6
      <3>8. h[i] = x
        BY <3>2, <3>3
      <3> HIDE DEF h
      <3> QED BY <3>7, <3>8 DEF Imaged
    <2> HIDE DEF h
    <2>4. IsFiniteSet(1..(k - 1)) /\ Cardinality(1..(k - 1)) = k - 1
      <3>1. 1 \in Int /\ k - 1 \in Int
        BY <2>1
      <3>2. IsFiniteSet(1..(k - 1)) /\ Cardinality(1..(k - 1)) = (IF 1 > k - 1 THEN 0 ELSE (k - 1) - 1 + 1)
        BY <3>1, FS_Interval
      <3> QED BY <2>1, <3>2
    <2>5. IsFiniteSet(U) /\ Cardinality(U) <= k - 1
      <3> DEFINE e == [i \in 1..(k - 1) |-> h[i]]
      <3>1. e \in Surjection(1..(k - 1), U)
        BY DEF Surjection, Imaged
      <3> HIDE DEF e, U
      <3> QED BY <2>4, <3>1, FS_Surjection
    <2>6. T \subseteq U
      BY <2>3
    <2> HIDE DEF T, U
    <2>7. IsFiniteSet(T) /\ Cardinality(T) <= Cardinality(U) /\ Cardinality(T) \in Nat /\ Cardinality(U) \in Nat
      BY <2>5, <2>6, FS_Subset, FS_CardinalityType
    <2>8. Cardinality(T) \in 0..(k - 1)
      BY <2>1, <2>5, <2>7
    <2> QED BY <2>2, <2>8 DEF T
  <1>19. Len(v) = Cardinality(P) /\ DOMAIN v = 1..Len(v) /\ Len(v) = c
    BY <1>10, <1>11, <1>17
  <1>20. Ranks(v, P)
    BY <1>17, <1>18, <1>19 DEF Ranks
  <1> QED BY <1>8, <1>19, <1>20 DEF v, P

-----------------------------------------------------------------------------
\* Where a document says LIVE

SaysLive(m, t) == \E k \in DOMAIN m : m[k].t0 <= t /\ t < m[k].t1 /\ m[k].out.verdict = "LIVE"

\* The neighbours on either side of an instant.
Around(l, evs, t) == l \in 1..(Len(evs) - 1) /\ evs[l].rec.t <= t /\ t < evs[l + 1].rec.t

(* Intervals that tile the span hold each of its instants.                 *)
LEMMA Covered ==
    ASSUME NEW m, NEW g, NEW evs, NEW s, NEW prof, NEW flags, Portray(m, g, evs, s, prof, flags), NEW t \in Instants
    PROVE  \E i \in 1..Len(m) : m[i].t0 <= t /\ t < m[i].t1
  <1> DEFINE n == Len(m)
             X == {i \in 1..n : t < m[i].t1}
  <1>1. n \in Nat /\ n >= 1 /\ m[1].t0 = T0 /\ m[n].t1 = T1
    BY DEF Portray
  <1>2. t \in Int /\ T0 <= t /\ t < T1
    BY SpanAssumption DEF Instants
  <1>3. n \in X
    BY <1>1, <1>2
  <1>4. X \in SUBSET Nat
    OBVIOUS
  <1>5. PICK i \in X : \A j \in X : i <= j
    BY <1>3, <1>4, LeastNat
  <1>6. i \in 1..n /\ t < m[i].t1
    OBVIOUS
  <1>7. CASE i = 1
    BY <1>1, <1>2, <1>6, <1>7
  <1>8. CASE i # 1
    <2>1. i - 1 \in 1..(n - 1) /\ (i - 1) + 1 = i /\ i - 1 \in 1..n
      BY <1>1, <1>6, <1>8
    <2>2. i - 1 \notin X
      BY <1>5, <1>6, <1>4, <2>1
    <2>3. m[i - 1].t1 \in Int /\ m[i - 1].t1 = m[i].t0
      <3>1. m[i - 1].t1 = m[(i - 1) + 1].t0
        BY <2>1 DEF Portray, n
      <3> QED BY <2>1, <3>1 DEF Portray, n
    <2>4. m[i - 1].t1 <= t
      BY <1>2, <2>1, <2>2, <2>3
    <2> QED BY <1>6, <2>3, <2>4
  <1> QED BY <1>7, <1>8

(* An instant is LIVE exactly where its regime has a threshold and the     *)
(* records on either side of it are joined.                                *)
LEMMA LiveIff ==
    ASSUME NEW evs, Timed(evs), NEW s, NEW prof, NEW flags, NEW t \in Instants
    PROVE  LET thr == ThresholdOf(prof, s, PhaseOf(t), flags)
           IN SaysLive(SourceLiveness(evs, s, prof, flags, {}).intervals, t)
                <=> /\ PhaseOf(t) # NoRegime /\ Usable(thr)
                    /\ \E l : Around(l, evs, t) /\ Joined(l, evs, Class[s], thr)
  <1> DEFINE m == SourceLiveness(evs, s, prof, flags, {}).intervals
             G == Grid(evs, {})
             g == Ascending(G, <)
             class == Class[s]
             th(x) == ThresholdOf(prof, s, PhaseOf(x), flags)
             Ok(x) == PhaseOf(x) # NoRegime /\ Usable(th(x)) /\ \E l : Around(l, evs, x) /\ Joined(l, evs, class, th(x))
  <1>1. {} \in SUBSET Int
    OBVIOUS
  <1>2. Portray(m, g, evs, s, prof, flags)
    BY <1>1, Intervals, Zenon
  <1>3. Cuts(g, G) /\ G \subseteq T0..T1
    BY <1>1, GridIs, GridInSpan, Zenon
  <1>4. t \in Int /\ T0 \in Int /\ T1 \in Int /\ T0 <= t /\ t < T1
    BY SpanAssumption DEF Instants
  <1>5. \A k \in 1..Len(evs) : T0 <= evs[k].rec.t /\ evs[k].rec.t <= T1 => evs[k].rec.t \in G
    BY DEF Grid, Timed
  <1> HIDE DEF m, g, G
  <1>6. ASSUME NEW k \in 1..(Len(g) - 1), g[k] <= t, t < g[k + 1]
        PROVE  Said(evs, s, prof, flags, g[k], g[k + 1]).verdict = "LIVE" <=> Ok(t)
    <2> DEFINE a == g[k]
               b == g[k + 1]
    <2>1. a \in G /\ b \in G /\ a < b /\ \A x \in G : ~(a < x /\ x < b)
      <3>1. g \in Seq(G) /\ k \in 1..Len(g) /\ k + 1 \in 1..Len(g)
        BY <1>3 DEF Cuts
      <3> QED BY <1>3, <3>1 DEF Cuts
    <2>2. a \in T0..T1 /\ b \in T0..T1
      BY <1>3, <2>1, Zenon
    <2>3. a \in Int /\ b \in Int /\ T0 <= a /\ b <= T1 /\ a <= t /\ t < b
      BY <1>4, <1>6, <2>2
    <2> HIDE DEF a, b
    <2>4. PhaseOf(t) = PhaseOf(a)
      <3>1. \A x \in Grid(evs, {}) : ~(a < x /\ x < b)
        BY <2>1 DEF G
      <3> QED BY <1>4, <2>3, <3>1, PhaseHolds
    <2>5. ASSUME NEW j \in 1..Len(evs) PROVE ~(a < evs[j].rec.t /\ evs[j].rec.t < b)
      <3>1. evs[j].rec.t \in Int
        BY DEF Timed
      <3> QED BY <1>4, <1>5, <2>1, <2>3, <3>1
    <2>6. PICK l : Flanks(l, evs, a, b)
      BY <2>1, <2>3, <2>5, SpanIs
    <2>7. Said(evs, s, prof, flags, a, b).verdict = "LIVE"
             <=> PhaseOf(a) # NoRegime /\ Usable(th(a)) /\ Joined(l, evs, class, th(a))
      BY <2>3, <2>6, LiveSaid
    <2>8. th(a) = th(t)
      BY <2>4
    <2>9. \A j \in 1..(Len(evs) - 1) : Around(j, evs, t) <=> j = l
      <3>1. l \in 0..Len(evs) /\ \A i \in 1..Len(evs) : (evs[i].rec.t <= a <=> i <= l) /\ (evs[i].rec.t < b <=> i <= l)
        BY <2>6 DEF Flanks
      <3>2. Len(evs) \in Nat /\ \A i \in 1..Len(evs) : evs[i].rec.t \in Int
        BY DEF Timed
      <3>3. \A i \in 1..Len(evs) : evs[i].rec.t <= t <=> i <= l
        BY <1>4, <2>3, <3>1, <3>2
      <3> TAKE j \in 1..(Len(evs) - 1)
      <3>4. j \in 1..Len(evs) /\ j + 1 \in 1..Len(evs)
        BY <3>2
      <3>5. (t < evs[j + 1].rec.t) <=> ~(j + 1 <= l)
        BY <1>4, <3>2, <3>3, <3>4
      <3> QED BY <3>1, <3>3, <3>4, <3>5 DEF Around
    <2>10. Joined(l, evs, class, th(t)) => l \in 1..(Len(evs) - 1)
      BY DEF Joined
    <2>11. \A j : Around(j, evs, t) => j \in 1..(Len(evs) - 1)
      BY DEF Around
    <2> HIDE DEF th, class
    <2>12. (\E j : Around(j, evs, t) /\ Joined(j, evs, class, th(t))) <=> Joined(l, evs, class, th(t))
      BY <2>9, <2>10, <2>11
    <2> QED BY <2>4, <2>7, <2>8, <2>12 DEF a, b
  <1>7. ASSUME NEW i \in 1..Len(m), m[i].t0 <= t, t < m[i].t1 PROVE m[i].out.verdict = "LIVE" <=> Ok(t)
    <2>1. PICK k \in 1..(Len(g) - 1) : /\ g[k] <= t /\ t < g[k + 1]
                                       /\ m[i].out = Said(evs, s, prof, flags, g[k], g[k + 1])
      BY <1>2, <1>4, <1>7 DEF Portray
    <2> HIDE DEF Ok
    <2> QED BY <1>6, <2>1
  <1>8. \E i \in 1..Len(m) : m[i].t0 <= t /\ t < m[i].t1
    BY <1>2, Covered
  <1>9. DOMAIN m = 1..Len(m)
    BY <1>2 DEF Portray
  <1> HIDE DEF Ok
  <1>10. SaysLive(m, t) <=> Ok(t)
    BY <1>7, <1>8, <1>9 DEF SaysLive
  <1> QED BY <1>10 DEF Ok, m, th, class

-----------------------------------------------------------------------------
\* Where a threshold comes from

(* What is at most the ceiling of a quotient is less than one above it.    *)
LEMMA BelowCeil ==
    ASSUME NEW x \in Nat, NEW d \in Nat \ {0}, NEW y \in Int, ~(y > CeilDiv(x, d))
    PROVE  (y - 1) * d < x
  <1> DEFINE c == CeilDiv(x, d)
  <1>1. c \in Nat /\ (c - 1) * d < x
    BY CeilIs
  <1> HIDE DEF c
  <1>2. y <= c
    BY <1>1 DEF c
  <1>3. (y - 1) * d <= (c - 1) * d
    <2>1. c - y \in Nat /\ (c - y) * d \in Nat
      BY <1>1, <1>2
    <2>2. (c - 1) * d = (y - 1) * d + (c - y) * d
      BY <1>1
    <2>3. (y - 1) * d \in Int /\ (c - 1) * d \in Int
      BY <1>1
    <2> QED BY <2>1, <2>2, <2>3
  <1>4. (y - 1) * d \in Int /\ (c - 1) * d \in Int
    BY <1>1
  <1> QED BY <1>1, <1>3, <1>4

(* The rank that is read has fewer than the share below it.                *)
LEMMA RankIs ==
    ASSUME NEW m \in Nat \ {0}
    PROVE  Rank(m) \in 1..m /\ (Rank(m) = 1 \/ (Rank(m) - 1) * QuantileQ < m * QuantileP)
  <1> DEFINE x == m * QuantileP
             j == CeilDiv(x, QuantileQ)
  <1>1. QuantileP \in Nat /\ QuantileQ \in Nat \ {0} /\ QuantileP < QuantileQ
    BY QuantileAssumption
  <1>2. x \in Nat
    BY <1>1
  <1>3. (x + (QuantileQ - 1)) \div QuantileQ = j
    <2> HIDE DEF x
    <2>1. x + (QuantileQ - 1) = x + QuantileQ - 1
      BY <1>1, <1>2
    <2> QED BY <2>1 DEF CeilDiv
  <1>4. Rank(m) = IF j < 1 THEN 1 ELSE IF j > m THEN m ELSE j
    <2> HIDE DEF j
    <2> QED BY <1>3, Zenon DEF Rank
  <1>5. j \in Nat /\ (j - 1) * QuantileQ < x
    <2> HIDE DEF x
    <2> QED BY <1>1, <1>2, CeilIs
  <1> HIDE DEF j, x
  <1>6. CASE j > m
    <2>1. x <= m * QuantileQ
      <3>1. m * QuantileQ = x + m * (QuantileQ - QuantileP)
        BY <1>1 DEF x
      <3>2. m * (QuantileQ - QuantileP) \in Nat
        BY <1>1
      <3> QED BY <1>2, <3>1, <3>2
    <2>2. m * QuantileQ <= (j - 1) * QuantileQ
      <3>1. (j - 1) * QuantileQ = m * QuantileQ + (j - 1 - m) * QuantileQ
        BY <1>1, <1>5
      <3>2. j - 1 - m \in Nat
        BY <1>5, <1>6
      <3>3. (j - 1 - m) * QuantileQ \in Nat /\ m * QuantileQ \in Nat
        BY <1>1, <3>2
      <3> QED BY <3>1, <3>3
    <2>3. (j - 1) * QuantileQ \in Int /\ m * QuantileQ \in Int
      BY <1>1, <1>5
    <2> QED BY <1>2, <1>5, <2>1, <2>2, <2>3
  <1>7. CASE ~(j > m)
    BY <1>4, <1>5, <1>7 DEF x
  <1> QED BY <1>6, <1>7

\* The two thresholds that can be compared with.
Measured(prof, s, g, thr) ==
    LET entry == prof.gaps[s][g]
    IN /\ entry.n > 0 /\ entry.n >= NMin
       /\ thr.ns = CeilDiv(entry.q * SlackNum, SlackDen) /\ ~(CeilDiv(entry.q * SlackNum, SlackDen) > U64Max)

DeclaredFor(s, flags, thr) ==
    /\ flags.declared /\ NominalPeriod[s] > 0 /\ thr.ns = CeilDiv(NominalPeriod[s] * SlackNum, SlackDen)

LEMMA ThresholdIs ==
    ASSUME NEW mode, NEW x, Usable(Threshold(mode, x))
    PROVE  /\ Threshold(mode, x).ns = CeilDiv(x * SlackNum, SlackDen)
           /\ ~(CeilDiv(x * SlackNum, SlackDen) > U64Max)
  <1> DEFINE raw == CeilDiv(x * SlackNum, SlackDen)
  <1>1. Threshold(mode, x) = [mode |-> mode, known |-> TRUE, ns |-> IF raw > U64Max THEN U64Max ELSE raw,
                              saturated |-> raw > U64Max]
    BY Zenon DEF Threshold
  <1> HIDE DEF raw
  <1>2. Threshold(mode, x).saturated = (raw > U64Max)
    BY <1>1
  <1>3. ~(raw > U64Max)
    BY <1>2 DEF Usable
  <1>4. Threshold(mode, x).ns = raw
    BY <1>1, <1>3
  <1> QED BY <1>3, <1>4 DEF raw

(* A usable threshold was measured or declared.                            *)
LEMMA UsableIs ==
    ASSUME NEW prof, NEW s, NEW g, NEW flags, g # NoRegime, Usable(ThresholdOf(prof, s, g, flags))
    PROVE  /\ ~flags.noProfile
           /\ \/ Measured(prof, s, g, ThresholdOf(prof, s, g, flags))
              \/ DeclaredFor(s, flags, ThresholdOf(prof, s, g, flags))
  <1> DEFINE thr == ThresholdOf(prof, s, g, flags)
             entry == prof.gaps[s][g]
  <1>1. \A mode : ~NoThreshold(mode).known
    BY DEF NoThreshold
  <1>2. NoThreshold("F2").mode = "F2"
    BY DEF NoThreshold
  <1>3. ~flags.noProfile
    BY <1>1, Zenon DEF ThresholdOf, Usable
  <1>4. thr = RegimeThreshold(prof, s, g, flags.declared)
    BY <1>3, Zenon DEF ThresholdOf
  <1>5. thr = IF entry.n > 0 /\ entry.n >= NMin THEN Threshold("F0", entry.q)
              ELSE IF flags.declared /\ NominalPeriod[s] > 0 THEN Threshold("F3", NominalPeriod[s])
              ELSE NoThreshold("F1")
    BY <1>4, Zenon DEF RegimeThreshold
  <1> HIDE DEF thr
  <1>6. CASE entry.n > 0 /\ entry.n >= NMin
    <2>1. thr = Threshold("F0", entry.q)
      BY <1>5, <1>6, Zenon
    <2>2. Usable(Threshold("F0", entry.q))
      BY <2>1 DEF thr
    <2> QED BY <1>3, <1>6, <2>1, <2>2, ThresholdIs, Zenon DEF Measured, thr
  <1>7. CASE ~(entry.n > 0 /\ entry.n >= NMin) /\ flags.declared /\ NominalPeriod[s] > 0
    <2>1. thr = Threshold("F3", NominalPeriod[s])
      BY <1>5, <1>7, Zenon
    <2>2. Usable(Threshold("F3", NominalPeriod[s]))
      BY <2>1 DEF thr
    <2> QED BY <1>3, <1>7, <2>1, <2>2, ThresholdIs, Zenon DEF DeclaredFor, thr
  <1>8. CASE ~(entry.n > 0 /\ entry.n >= NMin) /\ ~(flags.declared /\ NominalPeriod[s] > 0)
    <2>1. thr = NoThreshold("F1")
      BY <1>5, <1>8, Zenon
    <2> QED BY <1>1, <2>1 DEF Usable, thr
  <1> QED BY <1>6, <1>7, <1>8

-----------------------------------------------------------------------------
\* The profile that is used

\* What a profile says of one regime of one source.
EntryOf(R, s, g, ex, collapse) == RegimeProfile(IF collapse THEN <<>> ELSE GapVector(Of(R, s), g, ex))

Built(b, R, spec, sc, collapse) ==
    /\ b.reference = R /\ b.degspec = spec /\ b.scenario = sc
    /\ \A s \in Sources : \A g \in Regimes : b.gaps[s][g] = EntryOf(R, s, g, sc.excluded, collapse)

LEMMA BuiltIs ==
    ASSUME NEW R, NEW spec, NEW sc, NEW collapse
    PROVE  Built(BuildProfile(R, spec, sc, collapse), R, spec, sc, collapse)
  <1> DEFINE b == BuildProfile(R, spec, sc, collapse)
             e(s, g) == RegimeProfile(IF collapse THEN <<>> ELSE GapVector(Of(R, s), g, sc.excluded))
             G == [s \in Sources |-> [g \in Regimes |-> e(s, g)]]
  <1>1. b = [reference |-> R, degspec |-> spec, scenario |-> sc, collapsed |-> collapse, gaps |-> G]
    BY Zenon DEF BuildProfile
  <1>2. \A s, g : e(s, g) = EntryOf(R, s, g, sc.excluded, collapse)
    BY Zenon DEF EntryOf
  <1> HIDE DEF e
  <1>3. \A s \in Sources : \A g \in Regimes : G[s][g] = e(s, g)
    OBVIOUS
  <1> HIDE DEF G, b
  <1>4. b.reference = R /\ b.degspec = spec /\ b.scenario = sc /\ b.gaps = G
    BY <1>1
  <1>5. Built(b, R, spec, sc, collapse)
    BY <1>2, <1>3, <1>4 DEF Built
  <1> QED BY <1>5 DEF b

(* The profile a document was made with is the one of a clean run, not of  *)
(* the run it judges, under the exclusions of that run.                    *)
LEMMA ProfileUsed ==
    ASSUME JudgeInd, phase = "judged", ~used.flags.noProfile
    PROVE  \E c \in Calibrations :
              /\ profile.body = BuildProfile(c.reference, Identity, c.scenario, c.collapse)
              /\ c.degspec = Identity /\ Numbered(c.reference)
              /\ c.scenario.config = Scenario.config /\ c.scenario.family = Scenario.family
              /\ c.scenario.excluded = Scenario.excluded
  <1> DEFINE b == profile.body
  <1>1. LoadProfile(profile) /\ \E seed \in Seeds : FailedGates(b, Records, seed, Scenario) = {}
    BY DEF JudgeInd
  <1>2. PICK seed \in Seeds : FailedGates(b, Records, seed, Scenario) = {}
    BY <1>1
  <1>3. /\ b.reference # Records /\ b.degspec = Identity
        /\ b.scenario.config = Scenario.config /\ b.scenario.family = Scenario.family
        /\ b.scenario.excluded = Scenario.excluded
    <2> DEFINE X == {g \in {"B1", "B2", "B3", "B4", "B5", "B6"} :
                        \/ g = "B1" /\ b.reference = Records
                        \/ g = "B2" /\ b.degspec # Identity
                        \/ g = "B3" /\ seed \in CalibrationBand
                        \/ g = "B4" /\ b.scenario.config # Scenario.config
                        \/ g = "B5" /\ b.scenario.family # Scenario.family
                        \/ g = "B6" /\ b.scenario.excluded # Scenario.excluded}
    <2>1. X = {}
      BY <1>2, Zenon DEF FailedGates
    <2>2. "B1" \notin X /\ "B2" \notin X /\ "B4" \notin X /\ "B5" \notin X /\ "B6" \notin X
      <3> HIDE DEF X
      <3> QED BY <2>1
    <2> QED BY <2>2
  <1>4. \/ \E c \in Calibrations : b = BuildProfile(c.reference, c.degspec, c.scenario, c.collapse)
        \/ b = BuildProfile(Records, Identity, Scenario, FALSE)
    BY <1>1 DEF JudgeInd, ProfileInv
  <1> HIDE DEF b
  <1>5. b # BuildProfile(Records, Identity, Scenario, FALSE)
    <2> SUFFICES ASSUME b = BuildProfile(Records, Identity, Scenario, FALSE) PROVE FALSE
      OBVIOUS
    <2>1. Built(BuildProfile(Records, Identity, Scenario, FALSE), Records, Identity, Scenario, FALSE)
      BY BuiltIs
    <2> QED BY <1>3, <2>1 DEF Built
  <1>6. PICK c \in Calibrations : b = BuildProfile(c.reference, c.degspec, c.scenario, c.collapse)
    BY <1>4, <1>5
  <1>7. b.degspec = c.degspec /\ b.scenario = c.scenario
    <2>1. Built(BuildProfile(c.reference, c.degspec, c.scenario, c.collapse), c.reference, c.degspec, c.scenario,
                c.collapse)
      BY BuiltIs
    <2> QED BY <1>6, <2>1 DEF Built
  <1>8. c.degspec = Identity
    BY <1>3, <1>7
  <1>9. Numbered(c.reference)
    BY <1>8, CalibrationsAssumption
  <1>10. b = BuildProfile(c.reference, Identity, c.scenario, c.collapse)
    BY <1>6, <1>8, Zenon
  <1> QED BY <1>3, <1>7, <1>8, <1>9, <1>10 DEF b

(* What is read of a regime that has enough gaps: a width that fewer than  *)
(* its share of them stay below.                                           *)
LEMMA EntryRanks ==
    ASSUME NEW R, Numbered(R), NEW s, NEW g, NEW ex, NEW collapse, NEW e, e = EntryOf(R, s, g, ex, collapse),
           e.n > 0
    PROVE  LET P == Gaps(Of(R, s), g, ex)
           IN /\ e.n = Cardinality(P) /\ IsFiniteSet(P)
              /\ \E p \in P :
                    /\ e.q = Width(p) /\ e.q \in Nat
                    /\ LET T == {x \in P : Width(x) < Width(p)}
                       IN T = {} \/ Cardinality(T) * QuantileQ < Cardinality(P) * QuantileP
  <1> DEFINE P == Gaps(Of(R, s), g, ex)
             w == GapVector(Of(R, s), g, ex)
             v == IF collapse THEN <<>> ELSE w
             m == Len(v)
  <1>1. e = [n |-> Len(v), q |-> IF v = <<>> THEN 0 ELSE QExact(v)]
    BY Zenon DEF EntryOf, RegimeProfile
  <1>2. e.n = Len(v) /\ (v # <<>> => e.q = QExact(v))
    <2> HIDE DEF v
    <2> QED BY <1>1
  <1>3. Len(<<>>) = 0
    OBVIOUS
  <1>4. v # <<>>
    <2> HIDE DEF v
    <2> QED BY <1>2, <1>3
  <1>5. v = w
    <2> HIDE DEF w
    <2> QED BY <1>4
  <1>6. Ranks(w, P) /\ Len(w) \in Nat
    BY GapsRanked
  <1> HIDE DEF P, w, v
  <1>7. m \in Nat \ {0} /\ e.q = QExact(v) /\ Ranks(v, P)
    BY <1>2, <1>4, <1>5, <1>6
  <1>8. IsFiniteSet(P) /\ m = Cardinality(P)
    BY <1>7 DEF Ranks
  <1>9. e.q = v[Rank(m)][1]
    BY <1>7, Zenon DEF QExact
  <1> HIDE DEF m
  <1>10. Rank(m) \in 1..m /\ (Rank(m) = 1 \/ (Rank(m) - 1) * QuantileQ < m * QuantileP)
    BY <1>7, RankIs
  <1> DEFINE k == Rank(m)
  <1>11. k \in 1..m /\ k \in Nat /\ (k = 1 \/ (k - 1) * QuantileQ < m * QuantileP)
    BY <1>7, <1>10
  <1> HIDE DEF k
  <1>12. PICK p \in P : /\ v[k][1] = Width(p) /\ Width(p) \in Nat
                        /\ \E c \in 0..(k - 1) : Cardinality({x \in P : Width(x) < Width(p)}) = c
    BY <1>7, <1>11 DEF Ranks, m
  <1> DEFINE T == {x \in P : Width(x) < Width(p)}
  <1>13. PICK c \in 0..(k - 1) : Cardinality(T) = c
    BY <1>12
  <1>14. T = {} \/ Cardinality(T) * QuantileQ < Cardinality(P) * QuantileP
    <2>1. CASE k = 1
      <3>1. Cardinality(T) = 0
        BY <1>13, <2>1
      <3>2. IsFiniteSet(T)
        BY <1>8, FS_Subset
      <3> QED BY <3>1, <3>2, FS_EmptySet
    <2>2. CASE k # 1
      <3>1. QuantileQ \in Nat
        BY QuantileAssumption
      <3>2. (k - 1) * QuantileQ = c * QuantileQ + ((k - 1) - c) * QuantileQ
        BY <1>11, <3>1
      <3>3. c * QuantileQ \in Nat /\ ((k - 1) - c) * QuantileQ \in Nat
        BY <1>11, <3>1
      <3>4. c * QuantileQ <= (k - 1) * QuantileQ /\ (k - 1) * QuantileQ \in Nat
        BY <3>2, <3>3
      <3>5. m * QuantileP \in Nat
        BY <1>7, QuantileAssumption
      <3>6. c * QuantileQ < m * QuantileP
        BY <1>11, <2>2, <3>3, <3>4, <3>5
      <3> QED BY <1>8, <1>13, <3>6
    <2> QED BY <2>1, <2>2
  <1>15. e.q = Width(p) /\ e.q \in Nat
    BY <1>9, <1>12 DEF k
  <1>16. e.n = Cardinality(P)
    BY <1>2, <1>8 DEF m
  <1> HIDE DEF T
  <1> QED BY <1>8, <1>12, <1>14, <1>15, <1>16 DEF P, T

-----------------------------------------------------------------------------
\* Every LIVE instant is witnessed

\* The order of what was sealed.
LEMMA SealsTimed ==
    ASSUME NEW e, NEW q, NEW n, NEW class, NEW S, Seals(e, q, n, class, S), Keyed(S), NEW d, Drawn(d, e)
    PROVE  Timed(d) /\ \A k \in 1..Len(d) : d[k].rec \in S
  <1>1. /\ n \in Nat /\ q \in [1..n -> S] /\ Len(e) = n
        /\ \A k \in 1..n : e[k].rec = q[k]
        /\ \A j, k \in 1..n : j < k => q[j].t <= q[k].t
    BY DEF Seals
  <1>2. \A k \in 1..n : e[k].rec \in S /\ e[k].rec.t \in Int /\ e[k].rec.seq \in Int
    <2> TAKE k \in 1..n
    <2>1. q[k] \in S
      BY <1>1
    <2> QED BY <1>1, <2>1 DEF Keyed, WellFormed
  <1>3. d \in Seq(Range(e)) /\ Len(d) \in Nat /\ DOMAIN d = 1..Len(d)
    BY DEF Drawn
  <1>4. PICK h \in [1..Len(d) -> 1..Len(e)] : /\ \A k \in 1..Len(d) : d[k] = e[h[k]]
                                              /\ \A j, k \in 1..Len(d) : j < k => h[j] < h[k]
    BY DEF Drawn
  <1>5. \A k \in 1..Len(d) : h[k] \in 1..n /\ d[k] = e[h[k]]
    BY <1>1, <1>4
  <1>6. d \in Seq(Range(d))
    <2>1. \A k \in 1..Len(d) : d[k] \in Range(d)
      BY <1>3 DEF Range
    <2> QED BY <1>3, <2>1
  <1>7. \A k \in 1..Len(d) : d[k].rec \in S /\ d[k].rec.t \in Int /\ d[k].rec.seq \in Int
    BY <1>2, <1>5
  <1>8. \A j, k \in 1..Len(d) : j < k => d[j].rec.t <= d[k].rec.t
    <2> SUFFICES ASSUME NEW j \in 1..Len(d), NEW k \in 1..Len(d), j < k PROVE d[j].rec.t <= d[k].rec.t
      OBVIOUS
    <2>1. h[j] \in 1..n /\ h[k] \in 1..n /\ h[j] < h[k]
      BY <1>4, <1>5
    <2> QED BY <1>1, <1>5, <2>1
  <1> QED BY <1>6, <1>7, <1>8 DEF Timed

LEMMA BundleTimed ==
    ASSUME IntakeInd, NEW s \in Sources
    PROVE  Timed(bundle[s]) /\ \A k \in 1..Len(bundle[s]) : bundle[s][k].rec \in Of(Kept(cands), s)
  <1> DEFINE S == Of(Kept(cands), s)
             e == Sealed(S, Class[s])
  <1>1. Keyed(S) /\ \A r \in S : r.src = s
    BY KeptKeyed, OfKeyed
  <1>2. Seals(e, InOrder(S), Cardinality(S), Class[s], S)
    BY <1>1, SealedIs, Zenon
  <1>3. Drawn(bundle[s], e)
    BY BundleDrawn, Zenon
  <1> HIDE DEF S, e
  <1> QED BY <1>1, <1>2, <1>3, SealsTimed DEF S

\* What a document says.
LEMMA DocumentSays ==
    ASSUME NEW b, NEW p, NEW flags, NEW s \in Sources, NEW t
    PROVE  LiveAt(Document(b, p, flags, {}), s, t) <=> SaysLive(SourceLiveness(b[s], s, p, flags, {}).intervals, t)
  <1> DEFINE F == [x \in Sources |-> SourceLiveness(b[x], x, p, flags, {})]
             un == \E x \in Sources : Class[x] = "SEQUENCED" /\ F[x].suppressed > 0
             uc == \E x \in Sources : F[x].mode \in {"F1", "F3"}
             d == Document(b, p, flags, {})
  <1>1. d = [sources |-> F, unauthenticated |-> un, uncalibrated |-> uc, disputed |-> {}]
    BY Zenon DEF Document
  <1>2. F[s] = SourceLiveness(b[s], s, p, flags, {})
    OBVIOUS
  <1> HIDE DEF F, un, uc, d
  <1>3. d.sources[s] = SourceLiveness(b[s], s, p, flags, {})
    BY <1>1, <1>2
  <1>4. LiveAt(d, s, t) <=> SaysLive(d.sources[s].intervals, t)
    BY Zenon DEF LiveAt, SaysLive
  <1>5. LiveAt(d, s, t) <=> SaysLive(SourceLiveness(b[s], s, p, flags, {}).intervals, t)
    BY <1>3, <1>4, Zenon
  <1> QED BY <1>5 DEF d

LEMMA DocSays ==
    ASSUME JudgeInd, phase = "judged", NEW s \in Sources, NEW t
    PROVE  LiveAt(doc, s, t)
              <=> SaysLive(SourceLiveness(bundle[s], s, profile.body, used.flags, {}).intervals, t)
  <1>1. doc = Document(bundle, profile.body, used.flags, {})
    BY DEF JudgeInd
  <1> QED BY <1>1, DocumentSays, Zenon

(* A measured threshold is a ceiling of slack times a gap of the clean run. *)
LEMMA MeasuredIs ==
    ASSUME JudgeInd, phase = "judged", ~used.flags.noProfile, NEW s \in Sources, NEW t, PhaseOf(t) # NoRegime,
           NEW thr, Measured(profile.body, s, PhaseOf(t), thr)
    PROVE  thr.ns \in Nat /\ \A gap \in Int : ~(gap > thr.ns) => WithinReference(s, PhaseOf(t), gap)
  <1> DEFINE prof == profile.body
             g == PhaseOf(t)
  <1>1. PICK c \in Calibrations :
               /\ prof = BuildProfile(c.reference, Identity, c.scenario, c.collapse)
               /\ Numbered(c.reference) /\ c.scenario.excluded = Scenario.excluded
    BY ProfileUsed
  <1> DEFINE R == c.reference
             e == EntryOf(R, s, g, Scenario.excluded, c.collapse)
             P == Gaps(Of(R, s), g, Scenario.excluded)
  <1>2. g \in Regimes
    <2>1. \E p \in Phases : p.t0 <= t /\ t < p.t1
      BY DEF PhaseOf
    <2>2. g = (CHOOSE p \in Phases : p.t0 <= t /\ t < p.t1).regime
      BY <2>1, Zenon DEF PhaseOf
    <2>3. (CHOOSE p \in Phases : p.t0 <= t /\ t < p.t1) \in Phases
      BY <2>1, Zenon
    <2> QED BY <2>2, <2>3 DEF Regimes
  <1>3. prof.reference = R /\ prof.gaps[s][g] = e
    <2>1. Built(BuildProfile(c.reference, Identity, c.scenario, c.collapse), R, Identity, c.scenario, c.collapse)
      BY BuiltIs
    <2> QED BY <1>1, <1>2, <2>1 DEF Built
  <1>4. /\ e.n > 0 /\ e.n >= NMin /\ thr.ns = CeilDiv(e.q * SlackNum, SlackDen)
        /\ ~(CeilDiv(e.q * SlackNum, SlackDen) > U64Max)
    BY <1>3, Zenon DEF Measured
  <1>5. ReferenceGaps(s, g) = P
    BY <1>3, Zenon DEF ReferenceGaps, Gaps, InRegime
  <1> HIDE DEF e
  <1>6. /\ e.n = Cardinality(P) /\ IsFiniteSet(P)
        /\ \E p \in P :
              /\ e.q = Width(p) /\ e.q \in Nat
              /\ LET T == {x \in P : Width(x) < Width(p)}
                 IN T = {} \/ Cardinality(T) * QuantileQ < Cardinality(P) * QuantileP
    BY <1>1, <1>4, EntryRanks DEF e
  <1> HIDE DEF P, g
  <1>7. PICK p \in P :
              /\ e.q = Width(p) /\ e.q \in Nat
              /\ LET T == {x \in P : Width(x) < Width(p)}
                 IN T = {} \/ Cardinality(T) * QuantileQ < Cardinality(P) * QuantileP
    BY <1>6
  <1> DEFINE x == e.q * SlackNum
             T == {y \in P : y[2].t - y[1].t < p[2].t - p[1].t}
  <1>8. SlackNum \in Nat /\ SlackDen \in Nat \ {0}
    BY SlackAssumption
  <1>9. x \in Nat
    BY <1>7, <1>8
  <1>10. CeilDiv(x, SlackDen) \in Nat
    BY <1>8, <1>9, CeilIs
  <1>11. CeilDiv(x, SlackDen) <= U64Max
    BY <1>4, <1>10, LimitsAssumption
  <1>12. Cardinality(P) >= NMin
    BY <1>4, <1>6
  <1>13. T = {} \/ Cardinality(T) * QuantileQ < Cardinality(P) * QuantileP
    BY <1>7, Zenon DEF Width
  <1>14. e.q = p[2].t - p[1].t
    BY <1>7 DEF Width
  <1>15. ASSUME NEW gap \in Int, ~(gap > thr.ns) PROVE WithinReference(s, g, gap)
    <2>1. (gap - 1) * SlackDen < x
      BY <1>4, <1>8, <1>9, <1>15, BelowCeil
    <2> HIDE DEF T
    <2> QED BY <1>5, <1>11, <1>12, <1>13, <1>14, <2>1, Zenon DEF WithinReference, T, x
  <1> QED BY <1>4, <1>10, <1>15 DEF g

\* A declared one is the ceiling of slack times the declared period.
LEMMA DeclaredIs ==
    ASSUME NEW s \in Sources, NEW flags, NEW thr, DeclaredFor(s, flags, thr)
    PROVE  /\ thr.ns \in Nat /\ flags.declared /\ NominalPeriod[s] > 0
           /\ \A gap \in Int : ~(gap > thr.ns) => (gap - 1) * SlackDen < NominalPeriod[s] * SlackNum
  <1> DEFINE x == NominalPeriod[s] * SlackNum
  <1>1. SlackNum \in Nat /\ SlackDen \in Nat \ {0}
    BY SlackAssumption
  <1>2. x \in Nat
    BY <1>1, LimitsAssumption
  <1>3. thr.ns = CeilDiv(x, SlackDen) /\ flags.declared /\ NominalPeriod[s] > 0
    BY DEF DeclaredFor
  <1>4. CeilDiv(x, SlackDen) \in Nat
    BY <1>1, <1>2, CeilIs
  <1>5. ASSUME NEW gap \in Int, ~(gap > thr.ns) PROVE (gap - 1) * SlackDen < x
    BY <1>1, <1>2, <1>3, <1>5, BelowCeil
  <1> QED BY <1>3, <1>4, <1>5

(* LIVE is said only between two records that are linked and consecutive,  *)
(* where a source is linked at all, in a regime, and no further apart than *)
(* what an earlier clean run, or the declared period, makes normal.        *)
THEOREM LiveWitnessed == Spec => []LiveIsWitnessed
  <1>1. ASSUME IntakeInd, JudgeInd PROVE LiveIsWitnessed
    <2> SUFFICES ASSUME phase = "judged", NEW s \in Sources, NEW t \in Instants, LiveAt(doc, s, t)
                 PROVE
            /\ ~used.flags.noProfile /\ PhaseOf(t) # NoRegime
            /\ \E k \in 1..(Len(bundle[s]) - 1) :
                  LET l == bundle[s][k]
                      r == bundle[s][k + 1]
                      gap == r.rec.t - l.rec.t
                  IN /\ l.rec.t <= t /\ t < r.rec.t
                     /\ \/ WithinReference(s, PhaseOf(t), gap)
                        \/ /\ used.flags.declared /\ NominalPeriod[s] > 0
                           /\ (gap - 1) * SlackDen < NominalPeriod[s] * SlackNum
                     /\ Class[s] # "NONE" => r.prev = l.hash /\ r.rec.seq <= l.rec.seq + 1
      BY <1>1, Zenon DEF LiveIsWitnessed
    <2> DEFINE evs == bundle[s]
               prof == profile.body
               g == PhaseOf(t)
               thr == ThresholdOf(prof, s, g, used.flags)
    <2>1. Timed(evs)
      BY <1>1, BundleTimed
    <2>2. SaysLive(SourceLiveness(evs, s, prof, used.flags, {}).intervals, t)
      BY <1>1, DocSays
    <2>3. g # NoRegime /\ Usable(thr) /\ \E l : Around(l, evs, t) /\ Joined(l, evs, Class[s], thr)
      BY <2>1, <2>2, LiveIff
    <2>4. PICK l : Around(l, evs, t) /\ Joined(l, evs, Class[s], thr)
      BY <2>3
    <2>5. ~used.flags.noProfile /\ (Measured(prof, s, g, thr) \/ DeclaredFor(s, used.flags, thr))
      BY <2>3, UsableIs
    <2> DEFINE gap == evs[l + 1].rec.t - evs[l].rec.t
    <2>6. l \in 1..(Len(evs) - 1) /\ l \in 1..Len(evs) /\ l + 1 \in 1..Len(evs)
      BY <2>1, <2>4 DEF Around, Timed
    <2>7. gap \in Int
      BY <2>1, <2>6 DEF Timed
    <2>8. ~(gap > thr.ns)
      BY <2>4 DEF Joined
    <2>10. ASSUME Measured(prof, s, g, thr) PROVE WithinReference(s, g, gap)
      BY <1>1, <2>3, <2>5, <2>7, <2>8, <2>10, MeasuredIs
    <2>11. ASSUME DeclaredFor(s, used.flags, thr)
           PROVE  /\ used.flags.declared /\ NominalPeriod[s] > 0
                  /\ (gap - 1) * SlackDen < NominalPeriod[s] * SlackNum
      BY <2>7, <2>8, <2>11, DeclaredIs
    <2>12. Class[s] # "NONE" => evs[l + 1].prev = evs[l].hash /\ evs[l + 1].rec.seq <= evs[l].rec.seq + 1
      BY <2>4 DEF Joined, Linked
    <2>13. evs[l].rec.t <= t /\ t < evs[l + 1].rec.t
      BY <2>4 DEF Around
    <2>14. \/ WithinReference(s, g, gap)
           \/ /\ used.flags.declared /\ NominalPeriod[s] > 0
              /\ (gap - 1) * SlackDen < NominalPeriod[s] * SlackNum
      BY <2>5, <2>10, <2>11
    <2> QED BY <2>3, <2>5, <2>6, <2>12, <2>13, <2>14, Zenon
  <1> QED BY <1>1, IntakeInvariant, JudgeInvariant, PTL

-----------------------------------------------------------------------------
\* Nothing that was lost hides

(* Two linked neighbours of what is left of a seal were neighbours in it.  *)
LEMMA LinkedAdjacent ==
    ASSUME NEW e, NEW q, NEW n, NEW class, NEW S, Seals(e, q, n, class, S), class # "NONE",
           NEW d, Drawn(d, e), NEW l \in 1..(Len(d) - 1), Linked(d[l], d[l + 1])
    PROVE  \E j \in 1..(n - 1) : d[l].rec = q[j] /\ d[l + 1].rec = q[j + 1]
  <1>1. /\ n \in Nat /\ q \in [1..n -> S] /\ q \in Seq(S) /\ Len(q) = n /\ Len(e) = n
        /\ \A k \in 1..n : e[k].rec = q[k] /\ e[k].prev = SubSeq(q, 1, k - 1) /\ e[k].hash = SubSeq(q, 1, k)
    BY DEF Seals
  <1>2. Len(d) \in Nat
    BY DEF Drawn
  <1>3. PICK h \in [1..Len(d) -> 1..Len(e)] : /\ \A k \in 1..Len(d) : d[k] = e[h[k]]
                                              /\ \A j, k \in 1..Len(d) : j < k => h[j] < h[k]
    BY DEF Drawn
  <1>4. l \in 1..Len(d) /\ l + 1 \in 1..Len(d) /\ l < l + 1
    BY <1>2
  <1> DEFINE i == h[l]
             j == h[l + 1]
  <1>5. i \in 1..n /\ j \in 1..n /\ i < j /\ d[l] = e[i] /\ d[l + 1] = e[j]
    BY <1>1, <1>3, <1>4
  <1> HIDE DEF i, j
  <1>6. d[l + 1].prev = d[l].hash
    BY DEF Linked
  <1>7. SubSeq(q, 1, j - 1) = SubSeq(q, 1, i)
    BY <1>1, <1>5, <1>6
  <1>8. Len(SubSeq(q, 1, j - 1)) = j - 1 /\ Len(SubSeq(q, 1, i)) = i
    <2>1. j - 1 \in Nat /\ i \in Nat /\ 1 \in Nat /\ \A k \in 1..n : q[k] \in S
      BY <1>1, <1>5
    <2> QED BY <1>1, <1>5, <2>1
  <1>9. j = i + 1 /\ i \in 1..(n - 1)
    BY <1>1, <1>5, <1>7, <1>8
  <1> QED BY <1>1, <1>5, <1>9

(* What S4 keeps of a file that S3 wrote is what S3 wrote.                 *)
LEMMA FileKept ==
    ASSUME IntakeInd, phase = "judged", NEW B, Keyed(B), file = FileOf(B)
    PROVE  Kept(cands) = B
  <1> DEFINE f == FileOf(B)
             unique == {c.rec : c \in cands}
  <1>1. /\ Sound(f)
        /\ \A k \in 1..Len(f) : f[k].defects = {} /\ f[k].rec \in B
        /\ \A r \in B : \E k \in 1..Len(f) : f[k].rec = r
    BY FileOfIs, Zenon
  <1>2. file = f /\ pos = Len(file)
    BY DEF IntakeInd, FileInv
  <1> HIDE DEF f
  <1>3. ASSUME NEW r \in B PROVE r \in unique
    <2>1. PICK k \in 1..pos : file[k].rec = r /\ file[k].defects = {}
      BY <1>1, <1>2
    <2>2. [n |-> k, rec |-> file[k].rec] \in cands
      BY <2>1, CandsAre
    <2> QED BY <2>1, <2>2
  <1>4. ASSUME NEW r \in unique PROVE r \in B
    <2>1. PICK c \in cands : r = c.rec
      OBVIOUS
    <2> QED BY <1>1, <1>2, <2>1, CandsAre
  <1>5. Kept(cands) = {r \in unique : ~Collides(r, unique)}
    BY Zenon DEF Kept
  <1> HIDE DEF unique
  <1>6. unique = B
    BY <1>3, <1>4
  <1>7. \A r \in B : ~Collides(r, B)
    BY DEF Collides, Keyed
  <1> QED BY <1>5, <1>6, <1>7

\* Every record of B stands for one of e; every one of e has one of B at its instant.
Thinned(B, e) == \A x \in B : \E z \in e : z.src = x.src /\ z.seq = x.seq /\ z.t = x.t
Shadows(B, e) == \A r \in e : \E x \in B : x.src = r.src /\ x.t = r.t

(* What the operators leave, and so what S4 keeps: a part of the stream,   *)
(* or with the forge a stream that has a record at every instant of it.    *)
LEMMA WrittenIs ==
    ASSUME IntakeInd, phase = "judged"
    PROVE  /\ op \in {"delete", "blackout", "strip"} => Thinned(Kept(cands), emitted)
           /\ op = "forge" => Shadows(Kept(cands), emitted)
  <1>1. Numbered(emitted)
    BY StreamsAssumption DEF IntakeInd
  <1>2. Written(file, op, emitted)
    BY DEF IntakeInd
  <1>3. CASE op \in {"delete", "blackout"}
    <2>1. PICK B \in SUBSET emitted : file = FileOf(B)
      BY <1>2, <1>3 DEF Written
    <2>2. Keyed(B)
      BY <1>1, NumberedKeyed
    <2>3. Kept(cands) = B
      BY <2>1, <2>2, FileKept
    <2> QED BY <1>3, <2>3 DEF Thinned
  <1>4. CASE op = "strip"
    <2> DEFINE keys == UNION {r.attrs : r \in emitted}
    <2>1. PICK s \in Sources : file = FileOf(Stripped(emitted, s, keys))
      BY <1>2, <1>4, Zenon DEF Written
    <2> DEFINE B == Stripped(emitted, s, keys)
    <2>2. Keyed(B) /\ B = {StrippedRecord(r, s, keys) : r \in emitted}
      <3>1. B = {StrippedRecord(r, s, keys) : r \in emitted}
        BY Zenon DEF Stripped, StrippedRecord
      <3>2. Keyed(B)
        BY <1>1, StrippedKeyed
      <3> QED BY <3>1, <3>2
    <2>3. Kept(cands) = B
      BY <2>1, <2>2, FileKept
    <2>4. Thinned(B, emitted)
      <3> SUFFICES ASSUME NEW x \in B PROVE \E z \in emitted : z.src = x.src /\ z.seq = x.seq /\ z.t = x.t
        BY DEF Thinned
      <3>1. PICK z \in emitted : x = StrippedRecord(z, s, keys)
        <4> HIDE DEF keys
        <4> QED BY <2>2, Zenon
      <3>2. WellFormed(z)
        BY <1>1 DEF Numbered
      <3>3. x.src = z.src /\ x.seq = z.seq /\ x.t = z.t
        BY <3>1, <3>2, StrippedRecordIs
      <3> QED BY <3>3
    <2> QED BY <1>4, <2>3, <2>4
  <1>5. CASE op = "forge"
    <2>1. PICK host \in emitted : \E n \in ForgedCounts : ForgeAccepts(emitted, host, n) /\ file = FileOf(Forged(emitted, host, n))
      BY <1>2, <1>5 DEF Written
    <2>2. PICK n \in ForgedCounts : ForgeAccepts(emitted, host, n) /\ file = FileOf(Forged(emitted, host, n))
      BY <2>1
    <2>3. n \in Nat \ {0}
      BY ChoicesAssumption
    <2>4. Keyed(Forged(emitted, host, n))
          /\ \A r \in emitted : \E x \in Forged(emitted, host, n) : x.src = r.src /\ x.t = r.t
      BY <1>1, <2>2, <2>3, ForgedKeyed
    <2>5. Kept(cands) = Forged(emitted, host, n)
      BY <2>2, <2>4, FileKept
    <2> QED BY <1>5, <2>4, <2>5 DEF Shadows
  <1> QED BY <1>3, <1>4, <1>5

(* What is said is said of instants of the span.                           *)
LEMMA LiveInstant ==
    ASSUME NEW evs, Timed(evs), NEW s, NEW prof, NEW flags, NEW t \in Int,
           SaysLive(SourceLiveness(evs, s, prof, flags, {}).intervals, t)
    PROVE  t \in Instants
  <1> DEFINE m == SourceLiveness(evs, s, prof, flags, {}).intervals
             G == Grid(evs, {})
             g == Ascending(G, <)
  <1>1. {} \in SUBSET Int
    OBVIOUS
  <1>2. Portray(m, g, evs, s, prof, flags)
    BY <1>1, Intervals, Zenon
  <1>3. Cuts(g, G) /\ G \subseteq T0..T1
    BY <1>1, GridIs, GridInSpan, Zenon
  <1> HIDE DEF m, g, G
  <1>4. PICK i \in 1..Len(m) : m[i].t0 <= t /\ t < m[i].t1
    <2>1. DOMAIN m = 1..Len(m)
      BY <1>2 DEF Portray
    <2> QED BY <2>1 DEF SaysLive, m
  <1>5. PICK k \in 1..(Len(g) - 1) : g[k] <= t /\ t < g[k + 1]
    BY <1>2, <1>4 DEF Portray
  <1>6. g[k] \in G /\ g[k + 1] \in G
    <2>1. g \in Seq(G) /\ k \in 1..Len(g) /\ k + 1 \in 1..Len(g)
      BY <1>3 DEF Cuts
    <2> QED BY <2>1
  <1>7. g[k] \in T0..T1 /\ g[k + 1] \in T0..T1
    BY <1>3, <1>6, Zenon
  <1>8. T0 \in Int /\ T1 \in Int
    BY SpanAssumption
  <1> QED BY <1>5, <1>7, <1>8 DEF Instants

(* A record of a linked source that is gone leaves no LIVE verdict at its  *)
(* instant.                                                                *)
THEOREM HiddenLoss == Spec => []NoHiddenLoss
  <1>1. ASSUME IntakeInd, JudgeInd PROVE NoHiddenLoss
    <2> SUFFICES ASSUME phase = "judged", op \notin {"backdate", "external"}, NEW r \in emitted,
                        Class[r.src] # "NONE",
                        ~\E k \in DOMAIN bundle[r.src] : bundle[r.src][k].rec.t = r.t,
                        LiveAt(doc, r.src, r.t)
                 PROVE  FALSE
      BY Zenon DEF NoHiddenLoss
    <2> DEFINE s == r.src
               t == r.t
               evs == bundle[s]
               S == Of(Kept(cands), s)
               q == InOrder(S)
               n == Cardinality(S)
               e == Sealed(S, Class[s])
               prof == profile.body
    <2>1. Numbered(emitted)
      BY <1>1, StreamsAssumption DEF IntakeInd
    <2>2. WellFormed(r) /\ s \in Sources /\ t \in Int
      BY <2>1 DEF Numbered, WellFormed
    <2>3. Timed(evs)
      BY <1>1, <2>2, BundleTimed
    <2>4. SaysLive(SourceLiveness(evs, s, prof, used.flags, {}).intervals, t)
      BY <1>1, <2>2, DocSays
    <2>5. t \in Instants
      BY <2>2, <2>3, <2>4, LiveInstant
    <2>6. PICK l : Around(l, evs, t) /\ Joined(l, evs, Class[s], ThresholdOf(prof, s, PhaseOf(t), used.flags))
      BY <2>3, <2>4, <2>5, LiveIff
    <2>7. l \in 1..(Len(evs) - 1) /\ Linked(evs[l], evs[l + 1]) /\ evs[l + 1].rec.seq <= evs[l].rec.seq + 1
      BY <2>6 DEF Joined
    <2>8. Keyed(S) /\ \A x \in S : x.src = s
      BY <1>1, KeptKeyed, OfKeyed
    <2>9. Seals(e, q, n, Class[s], S)
      BY <2>8, SealedIs, Zenon
    <2>10. Drawn(evs, e)
      BY <1>1, <2>2, BundleDrawn, Zenon
    <2>11. l \in 1..Len(evs) /\ l + 1 \in 1..Len(evs) /\ DOMAIN evs = 1..Len(evs)
      BY <2>3, <2>7 DEF Timed
    <2>12. evs[l].rec.t <= t /\ t < evs[l + 1].rec.t /\ evs[l].rec.t # t
      BY <2>6, <2>11 DEF Around
    <2> HIDE DEF S, q, n, e, evs
    <2>13. PICK j \in 1..(n - 1) : evs[l].rec = q[j] /\ evs[l + 1].rec = q[j + 1]
      BY <2>7, <2>9, <2>10, LinkedAdjacent DEF s
    <2>14. /\ n \in Nat /\ q \in [1..n -> S]
           /\ \A i, k \in 1..n : i < k => q[i].t <= q[k].t
           /\ \A x \in S : \E k \in 1..n : q[k] = x
      BY <2>9 DEF Seals
    <2>15. \A k \in 1..n : q[k] \in S /\ q[k].t \in Int /\ q[k].seq \in Int /\ q[k].src = s
      <3>1. \A k \in 1..n : q[k] \in S
        BY <2>14
      <3> QED BY <2>8, <3>1 DEF Keyed, WellFormed
    <2>16. j \in 1..n /\ j + 1 \in 1..n /\ q[j].t < t /\ t < q[j + 1].t /\ q[j + 1].seq <= q[j].seq + 1
      <3>1. j \in 1..n /\ j + 1 \in 1..n
        BY <2>14
      <3> QED BY <2>2, <2>7, <2>12, <2>13, <2>15, <3>1
    <2>17. ASSUME NEW x \in S, x.t = t PROVE FALSE
      <3>1. PICK k \in 1..n : q[k] = x
        BY <2>14
      <3>2. k # j /\ k # j + 1
        BY <2>2, <2>15, <2>16, <2>17, <3>1
      <3>3. ~(k < j)
        <4>1. k < j => q[k].t <= q[j].t
          BY <2>14, <2>16
        <4> QED BY <2>2, <2>15, <2>16, <2>17, <3>1, <4>1
      <3>4. ~(j + 1 < k)
        <4>1. j + 1 < k => q[j + 1].t <= q[k].t
          BY <2>14, <2>16
        <4> QED BY <2>2, <2>15, <2>16, <2>17, <3>1, <4>1
      <3> QED BY <2>14, <2>16, <3>2, <3>3, <3>4
    <2>18. CASE op = "forge"
      <3>1. PICK x \in Kept(cands) : x.src = s /\ x.t = t
        BY <1>1, <2>18, WrittenIs DEF Shadows
      <3> QED BY <2>17, <3>1 DEF S, Of
    <2>19. CASE op \in {"delete", "blackout", "strip"}
      <3>1. Thinned(Kept(cands), emitted)
        BY <1>1, <2>19, WrittenIs
      <3>2. q[j] \in Kept(cands) /\ q[j + 1] \in Kept(cands)
        BY <2>15, <2>16 DEF S, Of
      <3>3. PICK y \in emitted : y.src = q[j].src /\ y.seq = q[j].seq /\ y.t = q[j].t
        BY <3>1, <3>2 DEF Thinned
      <3>4. PICK z \in emitted : z.src = q[j + 1].src /\ z.seq = q[j + 1].seq /\ z.t = q[j + 1].t
        BY <3>1, <3>2 DEF Thinned
      <3>5. y.src = s /\ z.src = s /\ y.seq \in Nat /\ z.seq \in Nat /\ r.seq \in Nat
        BY <2>1, <2>15, <2>16, <3>3, <3>4 DEF Numbered, WellFormed
      <3>6. r \in Of(emitted, s) /\ y \in Of(emitted, s) /\ z \in Of(emitted, s)
        BY <3>5 DEF Of
      <3>7. (y.seq = r.seq => y = r) /\ (r.seq < y.seq => r.t <= y.t)
        BY <2>1, <3>5, <3>6 DEF Numbered
      <3>8. (z.seq = r.seq => z = r) /\ (z.seq < r.seq => z.t <= r.t)
        BY <2>1, <3>5, <3>6 DEF Numbered
      <3>9. y.seq < r.seq
        BY <2>2, <2>15, <2>16, <3>3, <3>5, <3>7
      <3>10. r.seq < z.seq
        BY <2>2, <2>15, <2>16, <3>4, <3>5, <3>8
      <3> QED BY <2>15, <2>16, <3>3, <3>4, <3>5, <3>9, <3>10
    <2>20. op # "none"
      BY <1>1 DEF IntakeInd
    <2>21. op \in {"none", "delete", "blackout", "backdate", "strip", "forge", "external"}
      BY <1>1 DEF IntakeInd
    <2> QED BY <2>18, <2>19, <2>20, <2>21
  <1> QED BY <1>1, IntakeInvariant, JudgeInvariant, PTL

(* In the whole stream the records on either side of an instant are no     *)
(* further apart than two on either side of it are in any part of the      *)
(* stream, and S4 has linked them.                                         *)
LEMMA WholeJoins ==
    ASSUME NEW R, Numbered(R), NEW s, NEW t \in Int, NEW y \in Of(R, s), NEW z \in Of(R, s), y.t <= t, t < z.t,
           NEW class, NEW thr, thr.ns \in Nat, ~(z.t - y.t > thr.ns), ~(2 < MMin)
    PROVE  LET e == Sealed(Of(R, s), class)
           IN Timed(e) /\ \E k : Around(k, e, t) /\ Joined(k, e, class, thr)
  <1> DEFINE S == Of(R, s)
             e == Sealed(S, class)
             q == InOrder(S)
             n == Cardinality(S)
  <1>1. Keyed(R)
    BY NumberedKeyed
  <1>2. Keyed(S) /\ \A r \in S : r.src = s
    BY <1>1, OfKeyed
  <1>3. Seals(e, q, n, class, S)
    BY <1>2, SealedIs, Zenon
  <1>4. Runs(q, n, S)
    BY NumbersRun, Zenon
  <1>5. y \in S /\ z \in S
    OBVIOUS
  <1> HIDE DEF S, e, q, n
  <1>6. Timed(e)
    <2>1. e \in Seq(Range(e)) /\ Len(e) = n /\ n \in Nat
      BY <1>3 DEF Seals
    <2>2. Drawn(e, e)
      <3> DEFINE h == [i \in 1..Len(e) |-> i]
      <3>1. /\ h \in [1..Len(e) -> 1..Len(e)]
            /\ \A k \in 1..Len(e) : e[k] = e[h[k]]
            /\ \A j, k \in 1..Len(e) : j < k => h[j] < h[k]
        BY <2>1
      <3> HIDE DEF h
      <3> QED BY <2>1, <3>1 DEF Drawn
    <2> QED BY <1>2, <1>3, <2>2, SealsTimed
  <1>7. /\ n \in Nat /\ q \in [1..n -> S] /\ q \in Seq(S) /\ Len(q) = n /\ Len(e) = n
        /\ \A k \in 1..n : e[k].rec = q[k]
        /\ \A k \in 1..n : e[k].prev = IF class = "NONE" THEN <<>> ELSE SubSeq(q, 1, k - 1)
        /\ \A k \in 1..n : e[k].hash = IF class = "NONE" THEN <<>> ELSE SubSeq(q, 1, k)
        /\ \A j, k \in 1..n : j < k => q[j].t <= q[k].t
        /\ \A r \in S : \E k \in 1..n : q[k] = r
    BY <1>3 DEF Seals
  <1>8. /\ \A k \in 1..(n - 1) : q[k + 1].seq = q[k].seq + 1
        /\ \A k \in 1..n : q[k].t \in Int /\ q[k].seq \in Nat
    BY <1>4 DEF Runs
  <1>9. PICK i \in 1..n : q[i] = y
    BY <1>5, <1>7
  <1>10. PICK j \in 1..n : q[j] = z
    BY <1>5, <1>7
  <1> DEFINE X == {k \in 1..n : t < q[k].t}
  <1>11. j \in X /\ X \in SUBSET Nat
    BY <1>10
  <1>12. PICK x \in X : \A k \in X : x <= k
    BY <1>11, LeastNat
  <1>13. x \in 1..n /\ t < q[x].t /\ x <= j
    BY <1>11, <1>12
  <1>14. \A k \in 1..n : k < x => q[k].t <= t
    <2> SUFFICES ASSUME NEW k \in 1..n, k < x PROVE q[k].t <= t
      OBVIOUS
    <2>1. k \notin X
      BY <1>7, <1>12, <1>13
    <2> QED BY <1>8, <2>1
  <1>15. i < x
    <2>1. q[i] = y /\ q[x].t \in Int /\ t < q[x].t /\ y.t \in Int /\ y.t <= t
      BY <1>8, <1>9, <1>13
    <2>2. x # i
      BY <2>1
    <2>3. ~(x < i)
      <3> SUFFICES ASSUME x < i PROVE FALSE
        OBVIOUS
      <3>1. q[x].t <= q[i].t
        BY <1>7, <1>9, <1>13
      <3> QED BY <2>1, <3>1
    <2> QED BY <1>7, <1>13, <2>2, <2>3
  <1> DEFINE k == x - 1
  <1>16. k \in 1..(n - 1) /\ k \in 1..n /\ k + 1 = x /\ k + 1 \in 1..n /\ i <= k /\ k < x
    BY <1>7, <1>13, <1>15
  <1> HIDE DEF k, X
  <1>17. q[k].t <= t /\ t < q[k + 1].t /\ y.t <= q[k].t /\ q[k + 1].t <= z.t
    <2>1. q[k].t <= t
      BY <1>14, <1>16
    <2>2. q[i].t <= q[k].t
      <3>1. i = k \/ i < k
        BY <1>7, <1>16
      <3> QED BY <1>7, <1>8, <1>16, <3>1
    <2>3. q[k + 1].t <= q[j].t
      <3>1. k + 1 = j \/ k + 1 < j
        BY <1>7, <1>13, <1>16
      <3> QED BY <1>7, <1>8, <1>16, <3>1, SMTT(30)
    <2> QED BY <1>9, <1>10, <1>13, <1>16, <2>1, <2>2, <2>3
  <1>18. e[k].rec = q[k] /\ e[k + 1].rec = q[k + 1]
    BY <1>7, <1>16
  <1>19. Around(k, e, t)
    BY <1>7, <1>16, <1>17, <1>18 DEF Around
  <1>20. ~(e[k + 1].rec.t - e[k].rec.t > thr.ns)
    <2>1. y.t \in Int /\ z.t \in Int /\ q[k].t \in Int /\ q[k + 1].t \in Int
      BY <1>8, <1>9, <1>10, <1>16
    <2> QED BY <1>17, <1>18, <2>1
  <1>21. class # "NONE" => Linked(e[k], e[k + 1]) /\ e[k + 1].rec.seq <= e[k].rec.seq + 1
    <2> SUFFICES ASSUME class # "NONE" PROVE Linked(e[k], e[k + 1]) /\ e[k + 1].rec.seq <= e[k].rec.seq + 1
      OBVIOUS
    <2>1. e[k].hash = SubSeq(q, 1, k) /\ e[k + 1].hash = SubSeq(q, 1, k + 1) /\ e[k + 1].prev = SubSeq(q, 1, (k + 1) - 1)
      BY <1>7, <1>16
    <2>2. (k + 1) - 1 = k
      BY <1>16
    <2>3. k \in Nat /\ k + 1 \in Nat /\ 1 \in Nat /\ k <= n /\ k + 1 <= n /\ 0 < k /\ \A m \in 1..n : q[m] \in S
      <3>1. n \in Nat /\ \A m \in 1..n : q[m] \in S
        BY <1>7
      <3>2. k \in Nat /\ k + 1 \in Nat /\ k <= n /\ k + 1 <= n /\ 0 < k
        BY <1>16, <3>1
      <3> QED BY <3>1, <3>2
    <2>4. SubSeq(q, 1, k) # <<>> /\ SubSeq(q, 1, k + 1) # <<>>
      <3>1. Len(SubSeq(q, 1, k)) = k
        BY <1>7, <2>3
      <3>2. Len(SubSeq(q, 1, k + 1)) = k + 1
        BY <1>7, <2>3
      <3>3. Len(<<>>) = 0
        OBVIOUS
      <3> DEFINE a == SubSeq(q, 1, k)
                 b == SubSeq(q, 1, k + 1)
      <3> HIDE DEF a, b
      <3>4. Len(a) = k /\ Len(b) = k + 1
        BY <3>1, <3>2 DEF a, b
      <3>5. a # <<>> /\ b # <<>>
        BY <2>3, <3>3, <3>4
      <3> QED BY <3>5 DEF a, b
    <2>5. e[k + 1].rec.seq = e[k].rec.seq + 1
      BY <1>8, <1>16, <1>18
    <2>6. e[k].rec.seq \in Nat
      BY <1>8, <1>16, <1>18
    <2>7. Linked(e[k], e[k + 1])
      <3>1. SubSeq(q, 1, (k + 1) - 1) = SubSeq(q, 1, k)
        BY <2>2, Zenon
      <3> QED BY <2>1, <2>4, <3>1, Zenon DEF Linked
    <2> QED BY <2>5, <2>6, <2>7
  <1>22. Joined(k, e, class, thr)
    BY <1>7, <1>16, <1>20, <1>21 DEF Joined
  <1> QED BY <1>6, <1>19, <1>22 DEF e, S

(* Where S7 says LIVE of what is left of a stream, it would have said LIVE *)
(* of the whole, with the same profile, and that profile is the one of     *)
(* another, clean run.                                                     *)
THEOREM SuppressionHidesNothing == Spec => []SuppressionNeverHides
  <1>1. ASSUME IntakeInd, JudgeInd PROVE SuppressionNeverHides
    <2> DEFINE clean == {BuildProfile(c.reference, Identity, Scenario, c.collapse) :
                            c \in {x \in Calibrations : x.degspec = Identity /\ x.scenario = Scenario}}
               pairs == {<<Document(bundle, p, used.flags, {}), Document(CleanBundle, p, used.flags, {})>> : p \in clean}
    <2> SUFFICES ASSUME phase = "judged", op \in {"delete", "blackout", "strip"},
                        NEW s \in Sources, NEW t \in Instants, LiveAt(doc, s, t)
                 PROVE  \E d \in pairs : LiveAt(d[1], s, t) /\ LiveAt(d[2], s, t)
      BY Zenon DEF SuppressionNeverHides
    <2> DEFINE evs == bundle[s]
               prof == profile.body
               thr == ThresholdOf(prof, s, PhaseOf(t), used.flags)
               all == Sealed(Of(emitted, s), Class[s])
    <2>1. Timed(evs) /\ \A k \in 1..Len(evs) : evs[k].rec \in Of(Kept(cands), s)
      BY <1>1, BundleTimed
    <2>2. SaysLive(SourceLiveness(evs, s, prof, used.flags, {}).intervals, t)
      BY <1>1, DocSays
    <2>3. PhaseOf(t) # NoRegime /\ Usable(thr) /\ \E l : Around(l, evs, t) /\ Joined(l, evs, Class[s], thr)
      BY <2>1, <2>2, LiveIff
    <2>4. PICK l : Around(l, evs, t) /\ Joined(l, evs, Class[s], thr)
      BY <2>3
    <2>5. ~used.flags.noProfile /\ (Measured(prof, s, PhaseOf(t), thr) \/ DeclaredFor(s, used.flags, thr))
      BY <2>3, UsableIs
    <2>6. thr.ns \in Nat
      BY <1>1, <2>3, <2>5, MeasuredIs, DeclaredIs
    <2>7. l \in 1..(Len(evs) - 1) /\ l \in 1..Len(evs) /\ l + 1 \in 1..Len(evs)
      BY <2>1, <2>4 DEF Around, Timed
    <2>8. Numbered(emitted) /\ Thinned(Kept(cands), emitted)
      BY <1>1, StreamsAssumption, WrittenIs DEF IntakeInd
    <2>9. evs[l].rec \in Of(Kept(cands), s) /\ evs[l + 1].rec \in Of(Kept(cands), s)
      BY <2>1, <2>7
    <2>10. PICK y \in emitted : y.src = s /\ y.t = evs[l].rec.t
      BY <2>8, <2>9 DEF Thinned, Of
    <2>11. PICK z \in emitted : z.src = s /\ z.t = evs[l + 1].rec.t
      BY <2>8, <2>9 DEF Thinned, Of
    <2>12. y \in Of(emitted, s) /\ z \in Of(emitted, s)
      BY <2>10, <2>11 DEF Of
    <2>13. y.t <= t /\ t < z.t /\ ~(z.t - y.t > thr.ns) /\ ~(2 < MMin)
      BY <2>4, <2>10, <2>11 DEF Around, Joined
    <2>14. t \in Int
      BY SpanAssumption DEF Instants
    <2> HIDE DEF evs, thr, prof
    <2>15. Timed(all) /\ \E k : Around(k, all, t) /\ Joined(k, all, Class[s], thr)
      BY <2>6, <2>8, <2>12, <2>13, <2>14, WholeJoins
    <2> HIDE DEF all
    <2>16. SaysLive(SourceLiveness(all, s, prof, used.flags, {}).intervals, t)
      BY <2>3, <2>15, LiveIff DEF thr
    <2>17. CleanBundle[s] = all
      BY DEF CleanBundle, all
    <2>18. LiveAt(Document(CleanBundle, prof, used.flags, {}), s, t)
      BY <2>16, <2>17, DocumentSays
    <2>19. LiveAt(Document(bundle, prof, used.flags, {}), s, t)
      BY <2>2, DocumentSays DEF evs
    <2>20. prof \in clean
      <3>1. PICK c \in Calibrations :
                 /\ profile.body = BuildProfile(c.reference, Identity, c.scenario, c.collapse)
                 /\ c.degspec = Identity /\ Numbered(c.reference)
                 /\ c.scenario.config = Scenario.config /\ c.scenario.family = Scenario.family
                 /\ c.scenario.excluded = Scenario.excluded
        BY <1>1, <2>5, ProfileUsed
      <3>2. /\ c.scenario = [config |-> c.scenario.config, family |-> c.scenario.family, excluded |-> c.scenario.excluded]
            /\ Scenario = [config |-> Scenario.config, family |-> Scenario.family, excluded |-> Scenario.excluded]
        BY ScenarioAssumption
      <3>3. c.scenario = Scenario
        BY <3>1, <3>2
      <3>4. prof = BuildProfile(c.reference, Identity, Scenario, c.collapse)
        BY <3>1, <3>3 DEF prof
      <3> QED BY <3>1, <3>3, <3>4
    <2> HIDE DEF clean
    <2> DEFINE d == <<Document(bundle, prof, used.flags, {}), Document(CleanBundle, prof, used.flags, {})>>
    <2>21. d \in pairs
      BY <2>20, Zenon
    <2>22. d[1] = Document(bundle, prof, used.flags, {}) /\ d[2] = Document(CleanBundle, prof, used.flags, {})
      OBVIOUS
    <2> HIDE DEF d, pairs
    <2> QED BY <2>18, <2>19, <2>21, <2>22
  <1> QED BY <1>1, IntakeInvariant, JudgeInvariant, PTL

-----------------------------------------------------------------------------
\* The document, instant by instant

\* What is said of each instant.
Voice(evs, s, prof, flags) == [t \in Int |-> Said(evs, s, prof, flags, t, t + 1)]

\* No endpoint lies inside.
Unbroken(a, b, G) == \A x \in G : ~(a < x /\ x < b)

(* Of an instant the same is said as of any window it lies in.             *)
LEMMA SaidOfInstant ==
    ASSUME NEW evs, Timed(evs), NEW s, NEW prof, NEW flags, NEW extra,
           NEW a \in Int, NEW b \in Int, T0 <= a, b <= T1,
           Unbroken(a, b, Grid(evs, extra)), NEW t \in Int, a <= t, t < b
    PROVE  Said(evs, s, prof, flags, a, b) = Said(evs, s, prof, flags, t, t + 1)
  <1> DEFINE n == Len(evs)
             c == t + 1
             class == Class[s]
  <1>1. n \in Nat /\ \A k \in 1..n : evs[k].rec.t \in Int
    BY DEF Timed
  <1>2. T0 \in Int /\ T1 \in Int
    BY SpanAssumption
  <1>3. ASSUME NEW k \in 1..n PROVE ~(a < evs[k].rec.t /\ evs[k].rec.t < b)
    <2>1. evs[k].rec.t \in Int /\ k \in DOMAIN evs
      BY <1>1 DEF Timed
    <2>2. T0 <= evs[k].rec.t /\ evs[k].rec.t <= T1 => evs[k].rec.t \in Grid(evs, extra)
      BY <2>1 DEF Grid
    <2> QED BY <1>2, <2>1, <2>2 DEF Unbroken
  <1>4. PICK l : Flanks(l, evs, a, b)
    <2>1. a < b
      OBVIOUS
    <2> QED BY <1>3, <2>1, SpanIs
  <1>5. PICK j : Flanks(j, evs, t, c)
    <2>1. t < c /\ c \in Int /\ \A k \in 1..n : ~(t < evs[k].rec.t /\ evs[k].rec.t < c)
      BY <1>1
    <2> QED BY <2>1, SpanIs
  <1>6. j = l
    <2>1. j \in 0..n /\ l \in 0..n
      BY <1>4, <1>5 DEF Flanks
    <2>2. \A k \in 1..n : (evs[k].rec.t <= a <=> k <= l) /\ (evs[k].rec.t < b <=> k <= l) /\ (evs[k].rec.t <= t <=> k <= j)
      BY <1>4, <1>5 DEF Flanks
    <2>3. \A k \in 1..n : k <= l <=> k <= j
      BY <1>1, <2>2
    <2>4. ~(j < l)
      <3> SUFFICES ASSUME j < l PROVE FALSE
        OBVIOUS
      <3>1. l \in 1..n
        BY <2>1
      <3> QED BY <2>1, <2>3, <3>1
    <2>5. ~(l < j)
      <3> SUFFICES ASSUME l < j PROVE FALSE
        OBVIOUS
      <3>1. j \in 1..n
        BY <2>1
      <3> QED BY <2>1, <2>3, <3>1
    <2> QED BY <2>1, <2>4, <2>5
  <1>7. Span(evs, a, b) = Span(evs, t, c)
    <2>1. Span(evs, a, b) = [left |-> Span(evs, a, b).left, right |-> Span(evs, a, b).right]
      BY DEF Span
    <2>2. Span(evs, t, c) = [left |-> Span(evs, t, c).left, right |-> Span(evs, t, c).right]
      BY DEF Span
    <2>3. Span(evs, a, b).left = Span(evs, t, c).left /\ Span(evs, a, b).right = Span(evs, t, c).right
      BY <1>4, <1>5, <1>6 DEF Flanks
    <2> QED BY <2>1, <2>2, <2>3, Zenon
  <1>8. PhaseOf(t) = PhaseOf(a)
    <2>1. \A x \in Grid(evs, extra) : ~(a < x /\ x < b)
      BY DEF Unbroken
    <2> QED BY <1>2, <2>1, PhaseHolds
  <1> HIDE DEF c
  <1>9. Observe(evs, a, b, class) = Observe(evs, t, c, class)
    BY <1>7, <1>8, Zenon DEF Observe
  <1>10. Said(evs, s, prof, flags, a, b) = Said(evs, s, prof, flags, t, c)
    BY <1>9, Zenon DEF Said
  <1> QED BY <1>10 DEF c

\* The intervals m tile the span, no two neighbours saying the same, and say
\* of each instant what f says.
Tells(m, f) ==
    /\ m \in Seq(Range(m)) /\ Len(m) >= 1 /\ m[1].t0 = T0 /\ m[Len(m)].t1 = T1
    /\ \A i \in 1..Len(m) : /\ m[i] = [t0 |-> m[i].t0, t1 |-> m[i].t1, out |-> m[i].out]
                            /\ m[i].t0 \in Int /\ m[i].t1 \in Int /\ m[i].t0 < m[i].t1
    /\ \A i \in 1..(Len(m) - 1) : m[i].t1 = m[i + 1].t0 /\ m[i].out # m[i + 1].out
    /\ \A i \in 1..Len(m) : \A t \in Int : m[i].t0 <= t /\ t < m[i].t1 => m[i].out = f[t]

(* Whatever else the envelope asks for, that is what the intervals are.    *)
LEMMA IntervalsTell ==
    ASSUME NEW evs, Timed(evs), NEW s, NEW prof, NEW flags, NEW extra \in SUBSET Int
    PROVE  Tells(SourceLiveness(evs, s, prof, flags, extra).intervals, Voice(evs, s, prof, flags))
  <1> DEFINE m == SourceLiveness(evs, s, prof, flags, extra).intervals
             G == Grid(evs, extra)
             g == Ascending(G, <)
             f == Voice(evs, s, prof, flags)
  <1>1. Portray(m, g, evs, s, prof, flags)
    BY Intervals, Zenon
  <1>2. Cuts(g, G) /\ G \subseteq T0..T1
    BY GridIs, GridInSpan, Zenon
  <1> HIDE DEF m, g, G
  <1>3. ASSUME NEW i \in 1..Len(m), NEW t \in Int, m[i].t0 <= t, t < m[i].t1 PROVE m[i].out = f[t]
    <2>1. PICK k \in 1..(Len(g) - 1) : /\ g[k] <= t /\ t < g[k + 1]
                                       /\ m[i].out = Said(evs, s, prof, flags, g[k], g[k + 1])
      BY <1>1, <1>3 DEF Portray
    <2> DEFINE a == g[k]
               b == g[k + 1]
    <2>2. a \in G /\ b \in G /\ \A x \in G : ~(a < x /\ x < b)
      <3>1. g \in Seq(G) /\ k \in 1..Len(g) /\ k + 1 \in 1..Len(g)
        BY <1>2 DEF Cuts
      <3> QED BY <1>2, <3>1 DEF Cuts
    <2>3. a \in T0..T1 /\ b \in T0..T1
      BY <1>2, <2>2, Zenon
    <2>4. a \in Int /\ b \in Int /\ T0 <= a /\ b <= T1 /\ a <= t /\ t < b
      BY <2>1, <2>3, SpanAssumption
    <2> HIDE DEF a, b, f
    <2>5. Said(evs, s, prof, flags, a, b) = f[t]
      <3>1. Unbroken(a, b, Grid(evs, extra))
        BY <2>2 DEF G, Unbroken
      <3>2. Said(evs, s, prof, flags, a, b) = Said(evs, s, prof, flags, t, t + 1)
        BY <2>4, <3>1, SaidOfInstant
      <3>3. f[t] = Said(evs, s, prof, flags, t, t + 1)
        BY DEF f, Voice
      <3> QED BY <3>2, <3>3
    <2> QED BY <2>1, <2>5 DEF a, b
  <1>4. Tells(m, f)
    <2> HIDE DEF f
    <2> QED BY <1>1, <1>3 DEF Portray, Tells
  <1> QED BY <1>4 DEF m

(* What that says of the ends, one at a time.                              *)
LEMMA TellsEnds ==
    ASSUME NEW m, NEW f, Tells(m, f)
    PROVE  /\ Len(m) \in Nat /\ Len(m) >= 1 /\ m[1].t0 = T0 /\ m[Len(m)].t1 = T1
           /\ m = [k \in 1..Len(m) |-> m[k]]
           /\ \A k \in 1..Len(m) : m[k].t0 \in Int /\ m[k].t1 \in Int /\ m[k].t0 < m[k].t1 /\ m[k].out = f[m[k].t0]
  <1>1. m \in Seq(Range(m)) /\ Len(m) >= 1 /\ m[1].t0 = T0 /\ m[Len(m)].t1 = T1
    BY DEF Tells
  <1>2. Len(m) \in Nat /\ m = [k \in 1..Len(m) |-> m[k]]
    BY <1>1
  <1>3. ASSUME NEW k \in 1..Len(m)
        PROVE  m[k].t0 \in Int /\ m[k].t1 \in Int /\ m[k].t0 < m[k].t1
    BY DEF Tells
  <1>4. ASSUME NEW k \in 1..Len(m) PROVE m[k].out = f[m[k].t0]
    <2> DEFINE t == m[k].t0
    <2>1. t \in Int /\ m[k].t0 <= t /\ t < m[k].t1
      BY <1>3
    <2> HIDE DEF t
    <2>2. m[k].out = f[t]
      BY <2>1 DEF Tells
    <2> QED BY <2>2 DEF t
  <1> QED BY <1>1, <1>2, <1>3, <1>4

(* Of two intervals the earlier ends before the later begins, and all lie  *)
(* in the span.                                                            *)
LEMMA TilesAscend ==
    ASSUME NEW m, NEW f, Tells(m, f), NEW i \in 1..Len(m), NEW j \in 1..Len(m), i < j
    PROVE  m[i].t1 <= m[j].t0
  <1> DEFINE n == Len(m)
             t == [k \in 1..n |-> m[k].t0]
  <1>1. n \in Nat /\ \A k \in 1..n : m[k].t0 \in Int /\ m[k].t1 \in Int /\ m[k].t0 < m[k].t1
    BY TellsEnds
  <1>2. \A k \in 1..(n - 1) : m[k].t1 = m[k + 1].t0
    BY DEF Tells
  <1> HIDE DEF n
  <1>3. t \in [1..n -> Int] /\ \A k \in 1..n : t[k] = m[k].t0
    BY <1>1
  <1>4. ASSUME NEW k \in 1..(n - 1) PROVE t[k] <= t[k + 1]
    <2>1. k \in 1..n /\ k + 1 \in 1..n
      BY <1>1
    <2>2. t[k] = m[k].t0 /\ t[k + 1] = m[k + 1].t0
      BY <1>3, <2>1
    <2> HIDE DEF t
    <2>3. m[k].t0 \in Int /\ m[k].t1 \in Int /\ m[k].t0 < m[k].t1 /\ m[k].t1 = m[k + 1].t0
      BY <1>1, <1>2, <2>1
    <2> QED BY <2>2, <2>3
  <1> HIDE DEF t
  <1>5. i + 1 \in 1..n /\ i \in 1..(n - 1) /\ i \in 1..n /\ j \in 1..n /\ i + 1 <= j
    BY <1>1 DEF n
  <1>6. t[i + 1] <= t[j]
    BY <1>1, <1>3, <1>4, <1>5, Rises
  <1> QED BY <1>2, <1>3, <1>5, <1>6

LEMMA TilesInSpan ==
    ASSUME NEW m, NEW f, Tells(m, f), NEW i \in 1..Len(m)
    PROVE  T0 <= m[i].t0 /\ m[i].t1 <= T1
  <1> DEFINE n == Len(m)
  <1>1. n \in Nat /\ n >= 1 /\ m[1].t0 = T0 /\ m[n].t1 = T1 /\ i \in 1..n /\ 1 \in 1..n /\ n \in 1..n
    BY DEF Tells
  <1>2. \A k \in 1..n : m[k].t0 \in Int /\ m[k].t1 \in Int /\ m[k].t0 < m[k].t1
    BY DEF Tells
  <1>3. T0 <= m[i].t0
    <2>1. CASE i = 1
      BY <1>1, <1>2, <2>1
    <2>2. CASE i # 1
      <3>1. 1 < i
        BY <1>1, <2>2
      <3>2. m[1].t1 <= m[i].t0
        BY <1>1, <3>1, TilesAscend
      <3> QED BY <1>1, <1>2, <3>2
    <2> QED BY <2>1, <2>2
  <1>4. m[i].t1 <= T1
    <2>1. CASE i = n
      BY <1>1, <1>2, <2>1
    <2>2. CASE i # n
      <3>1. i < n
        BY <1>1, <2>2
      <3>2. m[i].t1 <= m[n].t0
        BY <1>1, <3>1, TilesAscend
      <3> QED BY <1>1, <1>2, <3>2
    <2> QED BY <2>1, <2>2
  <1> QED BY <1>3, <1>4

\* The interval an instant lies in.
Holds(m, i, t) == i \in 1..Len(m) /\ m[i].t0 <= t /\ t < m[i].t1

(* Every instant of the span lies in one interval, and in no other.        *)
LEMMA TileOf ==
    ASSUME NEW m, NEW f, Tells(m, f), NEW t \in Int, T0 <= t, t < T1
    PROVE  \E i : Holds(m, i, t)
  <1> DEFINE n == Len(m)
             X == {i \in 1..n : t < m[i].t1}
  <1>1. n \in Nat /\ n >= 1 /\ m[1].t0 = T0 /\ m[n].t1 = T1
    BY DEF Tells
  <1>2. n \in X
    BY <1>1
  <1>3. X \in SUBSET Nat
    OBVIOUS
  <1>4. PICK i \in X : \A j \in X : i <= j
    BY <1>2, <1>3, LeastNat
  <1>5. i \in 1..n /\ t < m[i].t1
    OBVIOUS
  <1>6. m[i].t0 <= t
    <2>1. CASE i = 1
      BY <1>1, <2>1
    <2>2. CASE i # 1
      <3>1. i - 1 \in 1..(n - 1) /\ (i - 1) + 1 = i /\ i - 1 \in 1..n
        BY <1>1, <1>5, <2>2
      <3>2. i - 1 \notin X
        BY <1>3, <1>4, <1>5, <3>1
      <3>3. m[i - 1].t1 \in Int /\ m[i - 1].t1 = m[(i - 1) + 1].t0
        BY <3>1 DEF Tells, n
      <3> QED BY <3>1, <3>2, <3>3
    <2> QED BY <2>1, <2>2
  <1> QED BY <1>5, <1>6 DEF Holds

LEMMA OneTile ==
    ASSUME NEW m, NEW f, Tells(m, f), NEW t \in Int, NEW i, NEW j, Holds(m, i, t), Holds(m, j, t)
    PROVE  i = j
  <1>1. \A k \in 1..Len(m) : m[k].t0 \in Int /\ m[k].t1 \in Int
    BY DEF Tells
  <1>2. i \in 1..Len(m) /\ j \in 1..Len(m) /\ i \in Int /\ j \in Int
    BY DEF Holds
  <1>3. ~(i < j)
    <2> SUFFICES ASSUME i < j PROVE FALSE
      OBVIOUS
    <2>1. m[i].t1 <= m[j].t0
      BY <1>2, TilesAscend
    <2> QED BY <1>1, <1>2, <2>1 DEF Holds
  <1>4. ~(j < i)
    <2> SUFFICES ASSUME j < i PROVE FALSE
      OBVIOUS
    <2>1. m[j].t1 <= m[i].t0
      BY <1>2, TilesAscend
    <2> QED BY <1>1, <1>2, <2>1 DEF Holds
  <1> QED BY <1>2, <1>3, <1>4

(* An interval ends where what is said changes, and not before.            *)
LEMMA NotShorter ==
    ASSUME NEW m, NEW n, NEW f, Tells(m, f), Tells(n, f), NEW i \in 1..Len(m), i \in 1..Len(n),
           m[i].t0 = n[i].t0
    PROVE  ~(m[i].t1 < n[i].t1)
  <1> DEFINE x == m[i].t1
  <1> SUFFICES ASSUME x < n[i].t1 PROVE FALSE
    OBVIOUS
  <1>1. /\ m[i].t0 \in Int /\ x \in Int /\ m[i].t0 < x
        /\ n[i].t0 \in Int /\ n[i].t1 \in Int
    BY DEF Tells
  <1>2. m[i].out = f[m[i].t0]
    BY TellsEnds
  <1>3. n[i].out = f[m[i].t0] /\ n[i].out = f[x]
    <2>1. n[i].out = f[n[i].t0]
      BY TellsEnds
    <2>2. n[i].t0 <= x /\ x < n[i].t1
      BY <1>1
    <2> HIDE DEF x
    <2>3. n[i].out = f[x]
      BY <1>1, <2>2 DEF Tells
    <2> QED BY <2>1, <2>3
  <1>4. Len(m) \in Nat /\ m[Len(m)].t1 = T1
    BY DEF Tells
  <1>5. i # Len(m)
    <2>1. n[i].t1 <= T1
      BY TilesInSpan
    <2> QED BY <1>1, <1>4, <2>1, SpanAssumption
  <1>6. i \in 1..(Len(m) - 1) /\ i + 1 \in 1..Len(m)
    BY <1>4, <1>5
  <1>7. m[i + 1].t0 = x /\ m[i].out # m[i + 1].out
    BY <1>6 DEF Tells
  <1>8. m[i + 1].t0 \in Int /\ m[i + 1].t1 \in Int /\ m[i + 1].t0 < m[i + 1].t1
    BY <1>6 DEF Tells
  <1>9. m[i + 1].out = f[x]
    <2> HIDE DEF x
    <2> QED BY <1>1, <1>6, <1>7, <1>8 DEF Tells
  <1> QED BY <1>2, <1>3, <1>7, <1>9

LEMMA TellsOn ==
    ASSUME NEW m, NEW n, NEW f, Tells(m, f), Tells(n, f)
    PROVE  Len(m) <= Len(n) /\ \A k \in 1..Len(m) : m[k] = n[k]
  <1> DEFINE U == {k \in Nat : k \in 1..Len(m) => k \in 1..Len(n) /\ m[k] = n[k]}
  <1>1. Len(m) \in Nat /\ Len(m) >= 1 /\ Len(n) \in Nat /\ Len(n) >= 1
    BY DEF Tells
  <1>2. 0 \in U
    OBVIOUS
  <1>3. ASSUME NEW k \in 1..Len(m), k - 1 \in U PROVE k \in U
    <2>1. k \in 1..Len(n) /\ m[k].t0 = n[k].t0
      <3>1. CASE k = 1
        BY <1>1, <3>1 DEF Tells
      <3>2. CASE k # 1
        <4>1. k - 1 \in 1..Len(m) /\ k - 1 \in 1..(Len(m) - 1) /\ (k - 1) + 1 = k
          BY <1>1, <3>2
        <4>2. k - 1 \in 1..Len(n) /\ m[k - 1] = n[k - 1]
          BY <1>3, <4>1
        <4>3. m[k - 1].t1 = m[k].t0
          BY <4>1 DEF Tells
        <4>4. m[k].t0 < m[k].t1 /\ m[k].t0 \in Int /\ m[k].t1 \in Int
          BY DEF Tells
        <4>5. m[k].t1 <= T1
          BY TilesInSpan
        <4>6. n[Len(n)].t1 = T1
          BY DEF Tells
        <4>7. k - 1 # Len(n)
          BY <4>2, <4>3, <4>4, <4>5, <4>6, SpanAssumption
        <4>8. k - 1 \in 1..(Len(n) - 1) /\ k \in 1..Len(n)
          BY <1>1, <4>2, <4>7
        <4>9. n[k - 1].t1 = n[k].t0
          BY <4>1, <4>8 DEF Tells
        <4> QED BY <4>2, <4>3, <4>8, <4>9
      <3> QED BY <3>1, <3>2
    <2>2. /\ m[k].t0 \in Int /\ m[k].t1 \in Int /\ n[k].t0 \in Int /\ n[k].t1 \in Int
          /\ m[k].t0 < m[k].t1 /\ n[k].t0 < n[k].t1
      BY <2>1 DEF Tells
    <2>3. ~(m[k].t1 < n[k].t1) /\ ~(n[k].t1 < m[k].t1)
      BY <2>1, NotShorter
    <2>4. m[k].t1 = n[k].t1
      BY <2>2, <2>3
    <2>5. m[k].out = f[m[k].t0] /\ n[k].out = f[n[k].t0]
      BY <2>1, TellsEnds
    <2>6. /\ m[k] = [t0 |-> m[k].t0, t1 |-> m[k].t1, out |-> m[k].out]
          /\ n[k] = [t0 |-> n[k].t0, t1 |-> n[k].t1, out |-> n[k].out]
      BY <2>1 DEF Tells
    <2>7. m[k] = n[k]
      BY <2>1, <2>4, <2>5, <2>6, Zenon
    <2> QED BY <2>1, <2>7
  <1> HIDE DEF U
  <1>4. 0..Len(m) \subseteq U
    BY <1>1, <1>2, <1>3, BoundedInduction
  <1>5. \A k \in 1..Len(m) : k \in 1..Len(n) /\ m[k] = n[k]
    BY <1>4 DEF U
  <1>6. Len(m) \in 1..Len(m)
    BY <1>1
  <1> QED BY <1>1, <1>5, <1>6

(* There is one way to tell it.                                            *)
LEMMA OneTelling ==
    ASSUME NEW m, NEW n, NEW f, Tells(m, f), Tells(n, f)
    PROVE  m = n
  <1>1. Len(m) <= Len(n) /\ \A k \in 1..Len(m) : m[k] = n[k]
    BY TellsOn
  <1>2. Len(n) <= Len(m)
    BY TellsOn
  <1>3. Len(m) \in Nat /\ Len(n) \in Nat
    BY TellsEnds
  <1>4. m = [k \in 1..Len(m) |-> m[k]] /\ n = [k \in 1..Len(n) |-> n[k]]
    BY TellsEnds
  <1>5. Len(m) = Len(n)
    BY <1>1, <1>2, <1>3
  <1> QED BY <1>1, <1>4, <1>5

(* No question moves an endpoint.                                          *)
LEMMA QueriesMoveNothing ==
    ASSUME NEW evs, Timed(evs), NEW s, NEW prof, NEW flags, NEW ex \in SUBSET Int, NEW ey \in SUBSET Int
    PROVE  SourceLiveness(evs, s, prof, flags, ex).intervals = SourceLiveness(evs, s, prof, flags, ey).intervals
  <1>1. Tells(SourceLiveness(evs, s, prof, flags, ex).intervals, Voice(evs, s, prof, flags))
    BY IntervalsTell, Zenon
  <1>2. Tells(SourceLiveness(evs, s, prof, flags, ey).intervals, Voice(evs, s, prof, flags))
    BY IntervalsTell, Zenon
  <1> QED BY <1>1, <1>2, OneTelling, Zenon

-----------------------------------------------------------------------------
\* How much of the span is told one way

(* The first k numbers, and the last of them.                              *)
LEMMA FirstNumbers ==
    ASSUME NEW n \in Nat, NEW k \in 1..n
    PROVE  /\ 1..k \in SUBSET (1..n) /\ 1..k # {}
           /\ Largest(1..k) = k /\ (1..k) \ {k} = 1..(k - 1)
  <1>0. k \in Nat /\ k >= 1 /\ k <= n
    OBVIOUS
  <1>1. 1..k \subseteq 1..n
    BY <1>0
  <1>2. k \in 1..k /\ 1..k \subseteq 0..k
    BY <1>0
  <1>3. 1..k \in SUBSET (1..n) /\ 1..k # {}
    BY <1>1, <1>2, Zenon
  <1>4. (1..k) \ {k} = 1..(k - 1)
    BY <1>0
  <1>5. Largest(1..k) = k
    BY <1>0, <1>2, LargestOf
  <1> QED BY <1>3, <1>4, <1>5

\* What an interval adds to a volume.
Counts(i, verdict, reasons) == i.out.verdict = verdict /\ i.out.reason \in reasons
VolumeStep(acc, i, verdict, reasons) ==
    IF Counts(i, verdict, reasons) THEN acc + (i.t1 - i.t0) ELSE acc

\* c adds them one by one.
Adding(c, m, verdict, reasons) ==
    /\ c \in [0..Len(m) -> Int] /\ c[0] = 0
    /\ \A k \in 1..Len(m) : c[k] = VolumeStep(c[k - 1], m[k], verdict, reasons)

LEMMA VolumeSteps ==
    ASSUME NEW m, NEW f, Tells(m, f), NEW verdict, NEW reasons
    PROVE  \E c : Adding(c, m, verdict, reasons) /\ Volume(m, verdict, reasons) = c[Len(m)]
  <1> DEFINE n == Len(m)
             F == [p \in (1..n) \X Int |-> VolumeStep(p[2], m[p[1]], verdict, reasons)]
             Step(j) == [s \in SUBSET (DOMAIN m) |->
                            IF s = {} THEN 0
                            ELSE VolumeStep(j[s \ {Largest(s)}], m[Largest(s)], verdict, reasons)]
             i == CHOOSE j : j = Step(j)
  <1>1. n \in Nat /\ DOMAIN m = 1..n
    <2>1. m = [k \in 1..n |-> m[k]]
      BY TellsEnds
    <2>2. n \in Nat
      BY TellsEnds
    <2> QED BY <2>1, <2>2, Zenon
  <1>2. \A k \in 1..n : m[k].t0 \in Int /\ m[k].t1 \in Int
    BY TellsEnds
  <1>3. Volume(m, verdict, reasons) = i[DOMAIN m]
    BY DEF Volume, FoldLeft, MapThenFoldSet, VolumeStep, Counts, Largest, Max
  <1>4. F \in [(1..n) \X Int -> Int]
    <2> SUFFICES ASSUME NEW k \in 1..n, NEW acc \in Int PROVE VolumeStep(acc, m[k], verdict, reasons) \in Int
      OBVIOUS
    <2> QED BY <1>2 DEF VolumeStep
  <1> HIDE DEF n
  <1>5. \A k \in 1..n, acc \in Int : F[<<k, acc>>] = VolumeStep(acc, m[k], verdict, reasons)
    OBVIOUS
  <1> HIDE DEF F
  <1>6. PICK h : Folds(h, F, 0, n, Int)
    <2>1. 0 \in Int
      OBVIOUS
    <2> QED BY <1>1, <1>4, <2>1, FoldExists
  <1>7. ASSUME NEW s \in SUBSET (1..n), s # {} PROVE Largest(s) \in 1..n /\ Largest(s) \in s
    <2>1. Largest(s) \in s
      BY <1>1, <1>7, LargestTaken
    <2> QED BY <2>1
  <1>8. h = Step(h)
    <2>1. ASSUME NEW s \in SUBSET (1..n)
          PROVE  h[s] = IF s = {} THEN 0
                        ELSE VolumeStep(h[s \ {Largest(s)}], m[Largest(s)], verdict, reasons)
      <3>1. CASE s = {}
        BY <1>6, <3>1 DEF Folds
      <3>2. CASE s # {}
        <4>1. Largest(s) \in 1..n /\ s \ {Largest(s)} \in SUBSET (1..n)
          BY <1>7, <3>2
        <4>2. h[s \ {Largest(s)}] \in Int /\ h[s] = F[<<Largest(s), h[s \ {Largest(s)}]>>]
          BY <1>6, <3>2, <4>1 DEF Folds
        <4> QED BY <1>5, <3>2, <4>1, <4>2
      <3> QED BY <3>1, <3>2
    <2>2. h = [s \in SUBSET (1..n) |-> h[s]]
      BY <1>6 DEF Folds
    <2> QED BY <1>1, <2>1, <2>2
  <1> HIDE DEF Step
  <1>9. i = Step(i)
    BY <1>8, Zenon
  <1> HIDE DEF i
  <1>10. \A s \in SUBSET (1..n) :
            i[s] = IF s = {} THEN 0 ELSE VolumeStep(i[s \ {Largest(s)}], m[Largest(s)], verdict, reasons)
    BY <1>1, <1>9 DEF Step
  <1>11. i[1..0] = 0
    <2>1. 1..0 = {} /\ {} \in SUBSET (1..n)
      OBVIOUS
    <2> QED BY <1>10, <2>1
  <1>12. ASSUME NEW k \in 1..n PROVE i[1..k] = VolumeStep(i[1..(k - 1)], m[k], verdict, reasons)
    <2>1. /\ 1..k \in SUBSET (1..n) /\ 1..k # {}
          /\ Largest(1..k) = k /\ (1..k) \ {k} = 1..(k - 1)
      BY <1>1, FirstNumbers
    <2>2. i[1..k] = VolumeStep(i[(1..k) \ {Largest(1..k)}], m[Largest(1..k)], verdict, reasons)
      BY <1>10, <2>1, Zenon
    <2> QED BY <2>1, <2>2
  <1> DEFINE c == [k \in 0..n |-> i[1..k]]
  <1>13. c[0] = 0 /\ \A k \in 1..n : c[k] = VolumeStep(c[k - 1], m[k], verdict, reasons)
    <2>1. \A k \in 1..n : c[k] = i[1..k] /\ c[k - 1] = i[1..(k - 1)]
      BY <1>1
    <2>2. c[0] = i[1..0]
      BY <1>1
    <2> HIDE DEF c
    <2> QED BY <1>11, <1>12, <2>1, <2>2
  <1>14. c = [k \in 0..n |-> c[k]] /\ c[n] = i[DOMAIN m]
    BY <1>1
  <1> HIDE DEF c
  <1>15. c \in [0..n -> Int]
    <2> DEFINE U == {k \in Nat : k \in 0..n => c[k] \in Int}
    <2>1. 0 \in U
      BY <1>13
    <2>2. ASSUME NEW k \in 1..n, k - 1 \in U PROVE k \in U
      <3>1. c[k - 1] \in Int
        <4>1. k - 1 \in 0..n
          BY <1>1
        <4> QED BY <2>2, <4>1
      <3>2. c[k] \in Int
        BY <1>2, <1>13, <3>1 DEF VolumeStep
      <3> QED BY <3>2
    <2> HIDE DEF U
    <2>3. 0..n \subseteq U
      BY <1>1, <2>1, <2>2, BoundedInduction
    <2>4. \A k \in 0..n : c[k] \in Int
      BY <2>3 DEF U
    <2> QED BY <1>14, <2>4
  <1>16. Volume(m, verdict, reasons) = c[n]
    BY <1>3, <1>14
  <1> QED BY <1>13, <1>15, <1>16 DEF Adding, n

\* The instants of which f says that.
Told(f, verdict, reasons) == {t \in Instants : f[t].verdict = verdict /\ f[t].reason \in reasons}

(* A volume counts the instants.                                           *)
LEMMA VolumeIs ==
    ASSUME NEW m, NEW f, Tells(m, f), NEW verdict, NEW reasons
    PROVE  IsFiniteSet(Told(f, verdict, reasons)) /\ Volume(m, verdict, reasons) = Cardinality(Told(f, verdict, reasons))
  <1> DEFINE n == Len(m)
             A == Told(f, verdict, reasons)
             end == [k \in 0..n |-> IF k = 0 THEN T0 ELSE m[k].t1]
             part == [k \in 0..n |-> {t \in A : t < end[k]}]
  <1>1. n \in Nat /\ n >= 1 /\ m[1].t0 = T0 /\ m[n].t1 = T1 /\ T0 \in Int /\ T1 \in Int
    BY TellsEnds, SpanAssumption
  <1>2. PICK c : Adding(c, m, verdict, reasons) /\ Volume(m, verdict, reasons) = c[n]
    BY VolumeSteps
  <1>3. A \subseteq Instants /\ \A t \in A : t \in Int /\ T0 <= t /\ t < T1
    BY <1>1 DEF Told, Instants
  <1>4. \A k \in 1..n : m[k].t0 \in Int /\ m[k].t1 \in Int /\ m[k].t0 < m[k].t1
    BY TellsEnds
  <1>5. ASSUME NEW k \in 1..n PROVE end[k] = m[k].t1 /\ end[k - 1] = m[k].t0
    <2>1. end[k] = m[k].t1
      OBVIOUS
    <2>2. CASE k = 1
      BY <1>1, <2>1, <2>2
    <2>3. CASE k # 1
      <3>1. k - 1 \in 1..(n - 1) /\ k - 1 \in 0..n /\ (k - 1) + 1 = k /\ k - 1 # 0
        BY <1>1, <2>3
      <3>2. m[k - 1].t1 = m[k].t0
        BY <3>1 DEF Tells
      <3> QED BY <2>1, <3>1, <3>2
    <2> QED BY <2>2, <2>3
  <1>6. end[0] = T0
    BY <1>1
  <1>7. \A k \in 0..n : part[k] = {t \in A : t < end[k]}
    OBVIOUS
  <1> HIDE DEF n, A, end, part
  <1>8. ASSUME NEW k \in 1..n, NEW t \in Int, m[k].t0 <= t, t < m[k].t1
        PROVE  t \in A <=> Counts(m[k], verdict, reasons)
    <2>1. m[k].out = f[t]
      BY <1>8 DEF Tells, n
    <2>2. T0 <= m[k].t0 /\ m[k].t1 <= T1
      BY TilesInSpan DEF n
    <2>3. t \in Instants
      BY <1>1, <1>4, <1>8, <2>2 DEF Instants
    <2> QED BY <2>1, <2>3 DEF A, Told, Counts
  <1> DEFINE U == {k \in Nat : k \in 0..n => IsFiniteSet(part[k]) /\ c[k] = Cardinality(part[k])}
  <1>9. 0 \in U
    <2>1. part[0] = {}
      BY <1>1, <1>3, <1>6, <1>7
    <2> QED BY <2>1, <1>2, FS_EmptySet DEF Adding
  <1>10. ASSUME NEW k \in 1..n, k - 1 \in U PROVE k \in U
    <2> DEFINE a == m[k].t0
               b == m[k].t1
               P == part[k - 1]
    <2>1. k \in 0..n /\ k - 1 \in 0..n /\ a \in Int /\ b \in Int /\ a < b
      BY <1>1, <1>4
    <2>2. IsFiniteSet(P) /\ c[k - 1] = Cardinality(P)
      BY <1>10, <2>1
    <2>3. c[k] = VolumeStep(c[k - 1], m[k], verdict, reasons)
      BY <1>2 DEF Adding, n
    <2>4. P = {t \in A : t < a} /\ part[k] = {t \in A : t < b}
      BY <1>5, <1>7, <2>1
    <2>5. CASE Counts(m[k], verdict, reasons)
      <3>1. \A t \in Int : a <= t /\ t < b => t \in A
        BY <1>8, <2>5
      <3>2. part[k] = P \cup (a..(b - 1)) /\ P \cap (a..(b - 1)) = {}
        <4> HIDE DEF a, b, P
        <4>1. ASSUME NEW t \in part[k] PROVE t \in P \cup (a..(b - 1))
          BY <1>3, <2>1, <2>4
        <4>2. ASSUME NEW t \in a..(b - 1) PROVE t \in part[k] /\ t \notin P
          BY <2>1, <2>4, <3>1
        <4>3. ASSUME NEW t \in P PROVE t \in part[k]
          BY <1>3, <2>1, <2>4
        <4> QED BY <4>1, <4>2, <4>3
      <3>3. IsFiniteSet(a..(b - 1)) /\ Cardinality(a..(b - 1)) = b - a
        <4> HIDE DEF a, b
        <4>1. b - 1 \in Int /\ ~(a > b - 1) /\ (b - 1) - a + 1 = b - a
          BY <2>1
        <4> QED BY <2>1, <4>1, FS_Interval
      <3> HIDE DEF a, b, P
      <3> DEFINE Q == a..(b - 1)
      <3> HIDE DEF Q
      <3>6. IsFiniteSet(P \cup Q) /\ Cardinality(P \cup Q) = Cardinality(P) + Cardinality(Q) - Cardinality(P \cap Q)
        BY <2>2, <3>3, FS_Union DEF Q
      <3>4. IsFiniteSet(part[k]) /\ Cardinality(part[k]) = Cardinality(P) + Cardinality(a..(b - 1)) - Cardinality({})
        BY <3>2, <3>6 DEF Q
      <3>5. Cardinality(part[k]) = Cardinality(P) + (b - a)
        BY <2>1, <2>2, <3>3, <3>4, FS_EmptySet, FS_CardinalityType
      <3> QED BY <2>2, <2>3, <2>5, <3>4, <3>5 DEF VolumeStep, a, b
    <2>6. CASE ~Counts(m[k], verdict, reasons)
      <3>1. \A t \in Int : a <= t /\ t < b => t \notin A
        BY <1>8, <2>6
      <3>2. part[k] = P
        <4> HIDE DEF a, b, P
        <4>1. ASSUME NEW t \in part[k] PROVE t \in P
          BY <1>3, <2>1, <2>4, <3>1
        <4>2. ASSUME NEW t \in P PROVE t \in part[k]
          BY <1>3, <2>1, <2>4
        <4> QED BY <4>1, <4>2
      <3> HIDE DEF a, b, P
      <3> QED BY <2>2, <2>3, <2>6, <3>2 DEF VolumeStep
    <2> QED BY <2>5, <2>6
  <1> HIDE DEF U
  <1>11. 0..n \subseteq U
    BY <1>1, <1>9, <1>10, BoundedInduction
  <1>12. IsFiniteSet(part[n]) /\ c[n] = Cardinality(part[n])
    <2>1. n \in 0..n
      BY <1>1
    <2> QED BY <1>11, <2>1 DEF U
  <1>13. part[n] = A
    <2>1. n \in 0..n /\ n \in 1..n
      BY <1>1
    <2>2. end[n] = T1
      BY <1>1, <1>5, <2>1
    <2> QED BY <1>3, <1>7, <2>1, <2>2
  <1> QED BY <1>2, <1>12, <1>13 DEF A

-----------------------------------------------------------------------------
\* The volumes of a document

\* What can be said: LIVE, BLIND for a reason, SUPPRESSED in a class.
Sayable(out) ==
    /\ out.verdict \in {"LIVE", "BLIND", "SUPPRESSED"}
    /\ out.verdict \in {"BLIND", "SUPPRESSED"} => out.reason \in Reasons

LEMMA ClassifySays ==
    ASSUME NEW o, NEW thr, NEW class, o.chain.missing # <<>> => class \in Reasons
    PROVE  Sayable(Classify(o, thr, class))
  <1> DEFINE rules == Ladder(o, thr, class)
             T == {k \in DOMAIN rules : rules[k][1]}
             i == Min(T)
  <1>1. DOMAIN rules = 1..10
    BY DEF Ladder
  <1>2. /\ rules[1] = <<thr.mode = "F2", Outcome("BLIND", "NO_PROFILE", <<>>)>>
        /\ rules[2] = <<o.regime = NoRegime, Outcome("BLIND", "REGIME", <<>>)>>
        /\ rules[3] = <<~thr.known, Outcome("BLIND", "INSUFFICIENT", <<>>)>>
        /\ rules[4] = <<thr.saturated, Outcome("BLIND", "OVERFLOW", <<>>)>>
        /\ rules[5] = <<o.chain.status = "UNVERIFIED", Outcome("BLIND", "CHAIN", <<>>)>>
        /\ rules[6] = <<o.chain.missing # <<>>, Outcome("SUPPRESSED", class, o.chain.missing)>>
        /\ rules[7] = <<~o.bracketed, Outcome("BLIND", "UNBRACKETED", <<>>)>>
        /\ rules[8] = <<o.n < MMin, Outcome("BLIND", "UNDERSAMPLED", <<>>)>>
        /\ rules[9] = <<o.gap > thr.ns, Outcome("BLIND", "GAP", <<>>)>>
        /\ rules[10] = <<TRUE, Outcome("LIVE", "OK", <<>>)>>
    BY DEF Ladder
  <1>3. Classify(o, thr, class) = rules[i][2]
    BY Zenon DEF Classify
  <1>4. T = {k \in 1..10 : rules[k][1]}
    BY <1>1
  <1>5. ASSUME NEW c, NEW v, NEW r, NEW m
        PROVE  <<c, Outcome(v, r, m)>>[2].verdict = v /\ <<c, Outcome(v, r, m)>>[2].reason = r /\ <<c, Outcome(v, r, m)>>[1] = c
    BY DEF Outcome
  <1> HIDE DEF rules
  <1>6. rules[10][1] /\ rules[6][1] = (o.chain.missing # <<>>)
    BY <1>2, <1>5
  <1>7. ASSUME NEW k \in {1, 2, 3, 4, 5, 7, 8, 9, 10} PROVE Sayable(rules[k][2])
    <2>1. \A j \in {1, 2, 3, 4, 5, 7, 8, 9} : rules[j][2].verdict = "BLIND"
      BY <1>2, <1>5
    <2>2. /\ rules[1][2].reason = "NO_PROFILE" /\ rules[2][2].reason = "REGIME" /\ rules[3][2].reason = "INSUFFICIENT"
          /\ rules[4][2].reason = "OVERFLOW" /\ rules[5][2].reason = "CHAIN" /\ rules[7][2].reason = "UNBRACKETED"
          /\ rules[8][2].reason = "UNDERSAMPLED" /\ rules[9][2].reason = "GAP"
      BY <1>2, <1>5
    <2>3. \A j \in {1, 2, 3, 4, 5, 7, 8, 9} : rules[j][2].reason \in Reasons
      BY <2>2 DEF Reasons
    <2>4. rules[10][2].verdict = "LIVE"
      BY <1>2, <1>5
    <2> QED BY <2>1, <2>3, <2>4 DEF Sayable
  <1>8. rules[6][1] => Sayable(rules[6][2])
    <2>1. rules[6][2].verdict = "SUPPRESSED" /\ rules[6][2].reason = class
      BY <1>2, <1>5
    <2> QED BY <1>6, <2>1 DEF Sayable
  <1> HIDE DEF T
  <1>9. i \in T
    <2>1. 10 \in T /\ T \in SUBSET Nat
      BY <1>4, <1>6
    <2> QED BY <2>1, MinIs
  <1>10. i \in 1..10 /\ rules[i][1]
    BY <1>4, <1>9
  <1> HIDE DEF i
  <1>11. CASE i = 6
    BY <1>3, <1>8, <1>10, <1>11
  <1>12. CASE i # 6
    <2>1. i \in {1, 2, 3, 4, 5, 7, 8, 9, 10}
      BY <1>10, <1>12
    <2> QED BY <1>3, <1>7, <2>1
  <1> QED BY <1>11, <1>12

LEMMA VoiceSays ==
    ASSUME NEW evs, NEW s \in Sources, NEW prof, NEW flags, NEW t \in Int
    PROVE  Sayable(Voice(evs, s, prof, flags)[t])
  <1> DEFINE o == Observe(evs, t, t + 1, Class[s])
             span == Span(evs, t, t + 1)
  <1>1. o.chain = IF span.left > 0 /\ span.right <= Len(evs) THEN ChainState(evs, span.left, span.right, Class[s])
                  ELSE [status |-> IF Class[s] = "NONE" THEN "ABSENT" ELSE "VERIFIED", missing |-> <<>>]
    BY DEF Observe
  <1>2. Class[s] = "NONE" => o.chain.missing = <<>>
    <2> SUFFICES ASSUME Class[s] = "NONE" PROVE o.chain.missing = <<>>
      OBVIOUS
    <2>1. ChainState(evs, span.left, span.right, Class[s]) = [status |-> "ABSENT", missing |-> <<>>]
      BY Zenon DEF ChainState
    <2> HIDE DEF span, o
    <2> QED BY <1>1, <2>1
  <1>3. o.chain.missing # <<>> => Class[s] \in Reasons
    BY <1>2, ClassesAssumption DEF Reasons
  <1> HIDE DEF o, span
  <1>4. Sayable(Classify(o, ThresholdOf(prof, s, o.regime, flags), Class[s]))
    BY <1>3, ClassifySays
  <1>5. Voice(evs, s, prof, flags)[t] = Classify(o, ThresholdOf(prof, s, o.regime, flags), Class[s])
    BY DEF Voice, Said, o
  <1> QED BY <1>4, <1>5

(* What SumFunction makes of a function.                                   *)
LEMMA FunctionSummed ==
    ASSUME NEW f, IsFiniteSet(DOMAIN f), f \in [DOMAIN f -> Int], NEW h, IsSum(h, f, DOMAIN f)
    PROVE  SumFunction(f) = h[DOMAIN f]
  <1> DEFINE D == DOMAIN f
             x(s) == CHOOSE y \in s : TRUE
             Step(i) == [s \in SUBSET D |-> IF s = {} THEN 0 ELSE f[x(s)] + i[s \ {x(s)}]]
             i == CHOOSE j : j = Step(j)
             d == [s \in SUBSET D |-> x(s)]
  <1>1. SumFunction(f) = i[D]
    BY DEF SumFunction, SumFunctionOnSet, FoldFunctionOnSet, MapThenFoldSet
  <1>2. h = Step(h)
    <2>1. ASSUME NEW s \in SUBSET D
          PROVE  h[s] = IF s = {} THEN 0 ELSE f[x(s)] + h[s \ {x(s)}]
      <3>1. s # {} => x(s) \in s
        OBVIOUS
      <3> HIDE DEF x
      <3> QED BY <3>1 DEF IsSum
    <2>2. h = [s \in SUBSET D |-> h[s]]
      BY DEF IsSum
    <2> HIDE DEF x
    <2> QED BY <2>1, <2>2
  <1> HIDE DEF Step
  <1>3. i = Step(i)
    BY <1>2, Zenon
  <1> HIDE DEF i
  <1>4. ASSUME NEW s \in SUBSET D
        PROVE  (s # {} => d[s] \in s) /\ i[s] = IF s = {} THEN 0 ELSE f[d[s]] + i[s \ {d[s]}]
    <2>1. s # {} => x(s) \in s
      OBVIOUS
    <2>2. i[s] = IF s = {} THEN 0 ELSE f[x(s)] + i[s \ {x(s)}]
      BY <1>3 DEF Step
    <2>3. d[s] = x(s)
      OBVIOUS
    <2> HIDE DEF x, d
    <2> QED BY <2>1, <2>2, <2>3
  <1> HIDE DEF d
  <1>5. SumsBy(i, d, f, D)
    BY <1>4 DEF SumsBy
  <1>6. i[D] = h[D]
    BY <1>5, SumInAnyOrder
  <1> QED BY <1>1, <1>6

(* The volumes of a source add up to what is not LIVE.                     *)
LEMMA VolumesAddUp ==
    ASSUME NEW m, NEW f, Tells(m, f), \A t \in Instants : Sayable(f[t])
    PROVE  SumFunction([r \in Reasons |-> Volume(m, "BLIND", {r})]) + Volume(m, "SUPPRESSED", Reasons)
              = Cardinality({t \in Instants : f[t].verdict # "LIVE"})
  <1> DEFINE b == [r \in Reasons |-> Volume(m, "BLIND", {r})]
             B == Told(f, "BLIND", Reasons)
             S == Told(f, "SUPPRESSED", Reasons)
             label == [t \in B |-> f[t].reason]
  <1>1. \A r \in Reasons : b[r] = Cardinality(Told(f, "BLIND", {r})) /\ IsFiniteSet(Told(f, "BLIND", {r}))
    BY VolumeIs
  <1>2. IsFiniteSet(B) /\ IsFiniteSet(S) /\ Volume(m, "SUPPRESSED", Reasons) = Cardinality(S)
    BY VolumeIs
  <1>3. DOMAIN b = Reasons /\ b = [r \in Reasons |-> b[r]]
    OBVIOUS
  <1> HIDE DEF b
  <1>4. b \in [Reasons -> Int]
    <2>1. ASSUME NEW r \in Reasons PROVE b[r] \in Int
      <3>1. Cardinality(Told(f, "BLIND", {r})) \in Nat
        BY <1>1, FS_CardinalityType
      <3> QED BY <1>1, <3>1
    <2> QED BY <1>3, <2>1
  <1>5. IsFiniteSet(Reasons)
    <2> DEFINE A1 == {"NO_PROFILE", "REGIME", "INSUFFICIENT", "OVERFLOW", "CHAIN", "UNBRACKETED"}
               A2 == {"UNDERSAMPLED", "GAP", "OK", "CHAINED", "SEQUENCED"}
    <2>1. IsFiniteSet({"NO_PROFILE"} \cup {"REGIME"} \cup {"INSUFFICIENT"} \cup {"OVERFLOW"} \cup {"CHAIN"} \cup {"UNBRACKETED"})
      BY FS_Singleton, FS_Union
    <2>2. IsFiniteSet({"UNDERSAMPLED"} \cup {"GAP"} \cup {"OK"} \cup {"CHAINED"} \cup {"SEQUENCED"})
      BY FS_Singleton, FS_Union
    <2>3. Reasons = ({"NO_PROFILE"} \cup {"REGIME"} \cup {"INSUFFICIENT"} \cup {"OVERFLOW"} \cup {"CHAIN"} \cup {"UNBRACKETED"})
                    \cup ({"UNDERSAMPLED"} \cup {"GAP"} \cup {"OK"} \cup {"CHAINED"} \cup {"SEQUENCED"})
      BY DEF Reasons
    <2> QED BY <2>1, <2>2, <2>3, FS_Union
  <1>6. PICK h : IsSum(h, b, Reasons)
    BY <1>4, <1>5, SumExists
  <1>7. SumFunction(b) = h[Reasons]
    BY <1>3, <1>4, <1>5, <1>6, FunctionSummed
  <1>8. \A t \in B : label[t] = f[t].reason
    OBVIOUS
  <1> HIDE DEF label
  <1>9. \A t \in B : label[t] \in Reasons
    BY <1>8 DEF Told
  <1>10. ASSUME NEW r \in Reasons PROVE b[r] = Cardinality({t \in B : label[t] = r})
    <2>1. Told(f, "BLIND", {r}) = {t \in B : label[t] = r}
      BY <1>8 DEF Told
    <2> QED BY <1>1, <2>1
  <1>11. h[Reasons] = Cardinality(B)
    <2> HIDE DEF B
    <2> QED BY <1>2, <1>4, <1>5, <1>6, <1>9, <1>10, FibresAddUp
  <1>12. B \cap S = {} /\ B \cup S = {t \in Instants : f[t].verdict # "LIVE"}
    <2>1. B \cap S = {}
      BY DEF Told
    <2>2. ASSUME NEW t \in Instants PROVE t \in B \cup S <=> f[t].verdict # "LIVE"
      BY DEF Told, Sayable
    <2>3. B \subseteq Instants /\ S \subseteq Instants
      BY DEF Told
    <2> HIDE DEF B, S
    <2> QED BY <2>1, <2>2, <2>3
  <1> HIDE DEF B, S
  <1>13. Cardinality(B \cup S) = Cardinality(B) + Cardinality(S) - Cardinality(B \cap S)
    BY <1>2, FS_Union
  <1>14. Cardinality(B \cap S) = 0 /\ Cardinality(B) \in Nat /\ Cardinality(S) \in Nat
    BY <1>2, <1>12, FS_EmptySet, FS_CardinalityType
  <1>15. SumFunction(b) + Volume(m, "SUPPRESSED", Reasons) = Cardinality(B \cup S)
    BY <1>2, <1>7, <1>11, <1>13, <1>14
  <1> QED BY <1>12, <1>15, Zenon DEF b

-----------------------------------------------------------------------------
\* The document as its constructors see it

(* A known threshold was measured or declared.                             *)
LEMMA KnownMode ==
    ASSUME NEW prof, NEW s, NEW g, NEW flags, ThresholdOf(prof, s, g, flags).known
    PROVE  ThresholdOf(prof, s, g, flags).mode \in {"F0", "F3"}
  <1> DEFINE thr == ThresholdOf(prof, s, g, flags)
             entry == prof.gaps[s][g]
  <1>1. \A mode : ~NoThreshold(mode).known
    BY DEF NoThreshold
  <1>2. \A mode, x : Threshold(mode, x).mode = mode
    BY DEF Threshold
  <1>3. ~flags.noProfile /\ g # NoRegime
    BY <1>1, Zenon DEF ThresholdOf
  <1>4. thr = RegimeThreshold(prof, s, g, flags.declared)
    BY <1>3, Zenon DEF ThresholdOf
  <1>5. thr = IF entry.n > 0 /\ entry.n >= NMin THEN Threshold("F0", entry.q)
              ELSE IF flags.declared /\ NominalPeriod[s] > 0 THEN Threshold("F3", NominalPeriod[s])
              ELSE NoThreshold("F1")
    BY <1>4, Zenon DEF RegimeThreshold
  <1>6. thr.known
    OBVIOUS
  <1> HIDE DEF thr, entry
  <1>7. thr.mode = "F0" \/ thr.mode = "F3"
    BY <1>1, <1>2, <1>5, <1>6, Zenon
  <1> QED BY <1>7 DEF thr

(* What is published was measured or declared.                             *)
LEMMA PublishedMode ==
    ASSUME NEW evs, Timed(evs), NEW s, NEW prof, NEW flags, NEW extra \in SUBSET Int,
           SourceLiveness(evs, s, prof, flags, extra).published
    PROVE  SourceLiveness(evs, s, prof, flags, extra).mode \in {"F0", "F3"}
  <1> DEFINE G == Grid(evs, extra) \ {T1}
             phases == [a \in G |-> PhaseOf(a)]
             regimes == {PhaseOf(a) : a \in G} \ {NoRegime}
             modes == {ThresholdOf(prof, s, g, flags).mode : g \in regimes}
             src == SourceLiveness(evs, s, prof, flags, extra)
  <1>1. /\ src.mode = IF flags.noProfile THEN "F2" ELSE Weakest(modes)
        /\ src.published = (/\ ~flags.noProfile /\ Cardinality(regimes) = 1
                            /\ \A g \in regimes : ThresholdOf(prof, s, g, flags).known
                                                  /\ ~ThresholdOf(prof, s, g, flags).saturated)
    BY DEF SourceLiveness
  <1>2. src.published
    OBVIOUS
  <1>3. IsFiniteSet(regimes)
    <2>1. Grid(evs, extra) \subseteq T0..T1
      BY GridInSpan
    <2>2. IsFiniteSet(T0..T1)
      BY SpanAssumption, FS_Interval
    <2>3. IsFiniteSet(G)
      BY <2>1, <2>2, FS_Subset
    <2>4. \A a \in G : phases[a] = PhaseOf(a)
      OBVIOUS
    <2> HIDE DEF G, phases
    <2>5. IsFiniteSet(Imaged(phases, G))
      BY <2>3, ImageFinite
    <2>6. regimes \subseteq Imaged(phases, G)
      BY <2>4 DEF Imaged
    <2> QED BY <2>5, <2>6, FS_Subset
  <1> HIDE DEF src, regimes
  <1>4. ~flags.noProfile /\ Cardinality(regimes) = 1 /\ \A g \in regimes : ThresholdOf(prof, s, g, flags).known
    BY <1>1, <1>2
  <1>5. PICK r : regimes = {r}
    BY <1>3, <1>4, FS_Singleton
  <1> DEFINE x == ThresholdOf(prof, s, r, flags).mode
  <1>6. x \in {"F0", "F3"}
    BY <1>4, <1>5, KnownMode
  <1>7. modes = {x}
    BY <1>5
  <1> HIDE DEF x, modes
  <1>8. Weakest(modes) = x
    <2>1. Strength[x] <= Strength[x]
      BY <1>6 DEF Strength
    <2>2. \E y \in modes : \A n \in modes : Strength[y] <= Strength[n]
      BY <1>7, <2>1
    <2>3. Weakest(modes) = CHOOSE y \in modes : \A n \in modes : Strength[y] <= Strength[n]
      BY <1>7 DEF Weakest
    <2>4. Weakest(modes) \in modes
      BY <2>2, <2>3, Zenon
    <2> QED BY <1>7, <2>4
  <1>9. src.mode = x
    BY <1>1, <1>4, <1>8
  <1> QED BY <1>6, <1>9 DEF src

\* The part of a document about one source, of which f tells the instants.
Faithful(d, f) ==
    /\ Tells(d.intervals, f) /\ \A t \in Instants : Sayable(f[t])
    /\ d.blind = [r \in Reasons |-> Volume(d.intervals, "BLIND", {r})]
    /\ d.suppressed = Volume(d.intervals, "SUPPRESSED", Reasons)
    /\ d.published => d.mode \in {"F0", "F3"}

LEMMA SourceFaithful ==
    ASSUME NEW evs, Timed(evs), NEW s \in Sources, NEW prof, NEW flags
    PROVE  Faithful(SourceLiveness(evs, s, prof, flags, {}), Voice(evs, s, prof, flags))
  <1> DEFINE d == SourceLiveness(evs, s, prof, flags, {})
             f == Voice(evs, s, prof, flags)
  <1>1. Tells(d.intervals, f)
    BY IntervalsTell, Zenon
  <1>2. ASSUME NEW t \in Instants PROVE Sayable(f[t])
    <2>1. t \in Int
      BY SpanAssumption DEF Instants
    <2> QED BY <2>1, VoiceSays
  <1>3. /\ d.blind = [r \in Reasons |-> Volume(d.intervals, "BLIND", {r})]
        /\ d.suppressed = Volume(d.intervals, "SUPPRESSED", Reasons)
    BY DEF SourceLiveness
  <1>4. d.published => d.mode \in {"F0", "F3"}
    BY PublishedMode, Zenon
  <1> HIDE DEF d, f
  <1>5. Faithful(d, f)
    BY <1>1, <1>2, <1>3, <1>4, Zenon DEF Faithful
  <1> QED BY <1>5 DEF d, f

LEMMA DocumentParts ==
    ASSUME NEW b, NEW p, NEW flags, NEW events, NEW s \in Sources, NEW f,
           Faithful(SourceLiveness(b[s], s, p, flags, {}), f)
    PROVE  /\ Faithful(Document(b, p, flags, {}).sources[s], f)
           /\ Faithful(Disputed(Document(b, p, flags, {}), events).sources[s], f)
  <1> DEFINE F == [x \in Sources |-> SourceLiveness(b[x], x, p, flags, {})]
             un == \E x \in Sources : Class[x] = "SEQUENCED" /\ F[x].suppressed > 0
             uc == \E x \in Sources : F[x].mode \in {"F1", "F3"}
             d == Document(b, p, flags, {})
             H == [x \in Sources |-> [d.sources[x] EXCEPT !.suspected = \E e \in events : e.src = x]]
             src == SourceLiveness(b[s], s, p, flags, {})
             sus == \E e \in events : e.src = s
  <1>1. d = [sources |-> F, unauthenticated |-> un, uncalibrated |-> uc, disputed |-> {}]
    BY Zenon DEF Document
  <1>2. F[s] = src
    OBVIOUS
  <1>3. Disputed(d, events) = [d EXCEPT !.disputed = events, !.sources = H]
    BY Zenon DEF Disputed
  <1>4. H[s] = [d.sources[s] EXCEPT !.suspected = sus]
    OBVIOUS
  <1> HIDE DEF F, un, uc, H
  <1>5. d.sources[s] = src
    BY <1>1, <1>2
  <1>6. Disputed(d, events).sources = H
    BY <1>1, <1>3
  <1> HIDE DEF d
  <1>7. /\ [src EXCEPT !.suspected = sus].intervals = src.intervals
        /\ [src EXCEPT !.suspected = sus].blind = src.blind
        /\ [src EXCEPT !.suspected = sus].suppressed = src.suppressed
        /\ [src EXCEPT !.suspected = sus].published = src.published
        /\ [src EXCEPT !.suspected = sus].mode = src.mode
    BY DEF SourceLiveness
  <1> HIDE DEF src, sus
  <1>8. Faithful(src, f)
    BY DEF src
  <1>9. Faithful([src EXCEPT !.suspected = sus], f)
    BY <1>7, <1>8 DEF Faithful
  <1> QED BY <1>4, <1>5, <1>6, <1>8, <1>9 DEF d

(* What f says, the document says.                                         *)
LEMMA LiveTold ==
    ASSUME NEW d, NEW s, NEW f, Tells(d.sources[s].intervals, f), NEW t \in Instants
    PROVE  LiveAt(d, s, t) <=> f[t].verdict = "LIVE"
  <1> DEFINE m == d.sources[s].intervals
  <1>1. t \in Int /\ T0 <= t /\ t < T1
    BY SpanAssumption DEF Instants
  <1>2. LiveAt(d, s, t) <=> SaysLive(m, t)
    BY Zenon DEF LiveAt, SaysLive
  <1>3. DOMAIN m = 1..Len(m)
    BY TellsEnds
  <1> HIDE DEF m
  <1>4. ASSUME NEW k, Holds(m, k, t) PROVE m[k].out = f[t]
    BY <1>1, <1>4 DEF Holds, Tells, m
  <1>5. ASSUME SaysLive(m, t) PROVE f[t].verdict = "LIVE"
    <2>1. PICK k \in 1..Len(m) : m[k].t0 <= t /\ t < m[k].t1 /\ m[k].out.verdict = "LIVE"
      BY <1>3, <1>5 DEF SaysLive
    <2>2. m[k].out = f[t]
      BY <1>4, <2>1 DEF Holds
    <2> QED BY <2>1, <2>2
  <1>6. ASSUME f[t].verdict = "LIVE" PROVE SaysLive(m, t)
    <2>1. PICK k : Holds(m, k, t)
      BY <1>1, TileOf DEF m
    <2>2. m[k].out = f[t]
      BY <1>4, <2>1
    <2> QED BY <1>3, <1>6, <2>1, <2>2 DEF Holds, SaysLive
  <1> QED BY <1>2, <1>5, <1>6

LEMMA AcceptedPart ==
    ASSUME NEW doc1, NEW s, NEW f, Faithful(doc1.sources[s], f)
    PROVE  LET d == doc1.sources[s]
           IN /\ d.intervals[1].t0 = T0 /\ Last(d.intervals).t1 = T1
              /\ \A k \in 1..(Len(d.intervals) - 1) :
                    d.intervals[k].t1 = d.intervals[k + 1].t0 /\ d.intervals[k].out # d.intervals[k + 1].out
              /\ SumFunction(d.blind) + d.suppressed = Cardinality({t \in Instants : ~LiveAt(doc1, s, t)})
              /\ d.published => d.mode \in {"F0", "F3"}
  <1> DEFINE d == doc1.sources[s]
             m == d.intervals
  <1>1. Tells(m, f)
    BY DEF Faithful
  <1>2. m[1].t0 = T0 /\ m[Len(m)].t1 = T1
    BY <1>1, TellsEnds
  <1>3. Last(m).t1 = T1
    BY <1>2 DEF Last
  <1>4. \A k \in 1..(Len(m) - 1) : m[k].t1 = m[k + 1].t0 /\ m[k].out # m[k + 1].out
    BY <1>1 DEF Tells
  <1>5. {t \in Instants : ~LiveAt(doc1, s, t)} = {t \in Instants : f[t].verdict # "LIVE"}
    BY <1>1, LiveTold
  <1>6. SumFunction([r \in Reasons |-> Volume(m, "BLIND", {r})]) + Volume(m, "SUPPRESSED", Reasons)
           = Cardinality({t \in Instants : f[t].verdict # "LIVE"})
    <2>1. \A t \in Instants : Sayable(f[t])
      BY DEF Faithful
    <2> HIDE DEF m
    <2> QED BY <1>1, <2>1, VolumesAddUp
  <1>7. /\ d.blind = [r \in Reasons |-> Volume(m, "BLIND", {r})]
        /\ d.suppressed = Volume(m, "SUPPRESSED", Reasons)
        /\ d.published => d.mode \in {"F0", "F3"}
    BY DEF Faithful
  <1> QED BY <1>2, <1>3, <1>4, <1>5, <1>6, <1>7, Zenon

-----------------------------------------------------------------------------
\* The questions of the later stages

\* What f calls LIVE.
LiveBy(f) == {t \in Instants : f[t].verdict = "LIVE"}

(* An interval overlaps a question in one of its instants.                 *)
LEMMA Overlap ==
    ASSUME NEW m, NEW f, Tells(m, f), NEW t0 \in Int, NEW t1 \in Int, t0 < t1, NEW k
    PROVE  k \in Overlapping(m, t0, t1) <=> k \in 1..Len(m) /\ \E t \in t0..(t1 - 1) : Holds(m, k, t) /\ m[k].out = f[t]
  <1>1. DOMAIN m = 1..Len(m)
    BY TellsEnds
  <1>2. ASSUME k \in 1..Len(m) PROVE m[k].t0 \in Int /\ m[k].t1 \in Int /\ m[k].t0 < m[k].t1
    BY <1>2, TellsEnds
  <1>3. ASSUME k \in Overlapping(m, t0, t1)
        PROVE  k \in 1..Len(m) /\ \E t \in t0..(t1 - 1) : Holds(m, k, t) /\ m[k].out = f[t]
    <2>1. k \in 1..Len(m) /\ m[k].t0 < t1 /\ t0 < m[k].t1
      BY <1>1, <1>3 DEF Overlapping
    <2> DEFINE t == IF t0 < m[k].t0 THEN m[k].t0 ELSE t0
    <2>2. t \in Int /\ t0 <= t /\ t < t1 /\ m[k].t0 <= t /\ t < m[k].t1
      BY <1>2, <2>1
    <2> HIDE DEF t
    <2>3. m[k].out = f[t]
      BY <2>1, <2>2 DEF Tells
    <2>4. t \in t0..(t1 - 1)
      BY <2>2
    <2> QED BY <2>1, <2>2, <2>3, <2>4 DEF Holds
  <1>4. ASSUME k \in 1..Len(m), NEW t \in t0..(t1 - 1), Holds(m, k, t) PROVE k \in Overlapping(m, t0, t1)
    <2>1. m[k].t0 < t1 /\ t0 < m[k].t1
      BY <1>2, <1>4 DEF Holds
    <2> QED BY <1>1, <1>4, <2>1 DEF Overlapping
  <1> QED BY <1>3, <1>4

(* live: LIVE at every instant of it.                                      *)
LEMMA IsLiveIs ==
    ASSUME NEW d, NEW s, NEW f, Tells(d.sources[s].intervals, f), NEW t0 \in Int, NEW t1 \in Int, t0 < t1
    PROVE  IsLive(d, s, t0, t1) <=> t0..(t1 - 1) \subseteq LiveBy(f)
  <1> DEFINE m == d.sources[s].intervals
             over == Overlapping(m, t0, t1)
  <1>1. Len(m) \in Nat /\ Len(m) >= 1 /\ m[1].t0 = T0 /\ m[Len(m)].t1 = T1
    BY TellsEnds
  <1>2. m # <<>> /\ Last(m).t1 = T1
    <2>1. Len(<<>>) = 0
      OBVIOUS
    <2>2. m # <<>>
      BY <1>1, <2>1
    <2> QED BY <1>1, <2>2 DEF Last
  <1>3. IsLive(d, s, t0, t1) <=> T0 <= t0 /\ t1 <= T1 /\ \A k \in over : m[k].out.verdict = "LIVE"
    <2>1. IsLive(d, s, t0, t1) <=> /\ m # <<>> /\ t0 < t1 /\ m[1].t0 <= t0 /\ t1 <= Last(m).t1
                                   /\ \A k \in over : m[k].out.verdict = "LIVE"
      BY Zenon DEF IsLive
    <2> HIDE DEF m, over
    <2> QED BY <1>1, <1>2, <2>1
  <1> HIDE DEF m
  <1>4. \A k : k \in over <=> k \in 1..Len(m) /\ \E t \in t0..(t1 - 1) : Holds(m, k, t) /\ m[k].out = f[t]
    BY Overlap DEF m
  <1> HIDE DEF over
  <1>5. ASSUME T0 <= t0, t1 <= T1, \A k \in over : m[k].out.verdict = "LIVE", NEW t \in t0..(t1 - 1)
        PROVE  t \in LiveBy(f)
    <2>1. t \in Int /\ T0 <= t /\ t < T1 /\ t \in Instants
      BY <1>5, SpanAssumption DEF Instants
    <2>2. PICK k : Holds(m, k, t)
      BY <2>1, TileOf DEF m
    <2>3. m[k].out = f[t] /\ k \in 1..Len(m)
      BY <2>1, <2>2 DEF Holds, Tells, m
    <2>4. k \in over
      BY <1>4, <2>2, <2>3
    <2> QED BY <1>5, <2>1, <2>3, <2>4 DEF LiveBy
  <1>6. ASSUME t0..(t1 - 1) \subseteq LiveBy(f)
        PROVE  T0 <= t0 /\ t1 <= T1 /\ \A k \in over : m[k].out.verdict = "LIVE"
    <2>1. t0 \in t0..(t1 - 1) /\ t1 - 1 \in t0..(t1 - 1)
      OBVIOUS
    <2>2. t0 \in Instants /\ t1 - 1 \in Instants
      BY <1>6, <2>1 DEF LiveBy
    <2>3. T0 <= t0 /\ t1 <= T1
      BY <2>2, SpanAssumption DEF Instants
    <2>4. ASSUME NEW k \in over PROVE m[k].out.verdict = "LIVE"
      <3>1. PICK t \in t0..(t1 - 1) : m[k].out = f[t]
        BY <1>4
      <3> QED BY <1>6, <3>1 DEF LiveBy
    <2> QED BY <2>3, <2>4
  <1> QED BY <1>3, <1>5, <1>6

(* licences_for: inside the span and nowhere LIVE.                         *)
LEMMA LicencesForIs ==
    ASSUME NEW d, NEW s, NEW f, Tells(d.sources[s].intervals, f),
           NEW t0 \in Int, NEW t1 \in Int, T0 <= t0, t0 < t1
    PROVE  LicencesFor(d, s, t0, t1).granted <=> t1 <= T1 /\ t0..(t1 - 1) \cap LiveBy(f) = {}
  <1> DEFINE m == d.sources[s].intervals
             over == Overlapping(m, t0, t1)
             lo == Min(over)
             hi == Max(over)
  <1>1. LicencesFor(d, s, t0, t1).granted
           <=> /\ over # {} /\ m[lo].t0 <= t0 /\ t1 <= m[hi].t1
               /\ \A k \in over : m[k].out.verdict # "LIVE"
    BY DEF LicencesFor
  <1>2. \A k : k \in over <=> k \in 1..Len(m) /\ \E t \in t0..(t1 - 1) : Holds(m, k, t) /\ m[k].out = f[t]
    BY Overlap
  <1>3. Tells(m, f)
    OBVIOUS
  <1> HIDE DEF m
  <1>4. Len(m) \in Nat /\ \A k \in 1..Len(m) : m[k].t0 \in Int /\ m[k].t1 \in Int /\ m[k].t0 < m[k].t1
    BY <1>3, TellsEnds
  <1>5. over \subseteq 1..Len(m) /\ \A k \in over : m[k].t0 < t1 /\ t0 < m[k].t1
    <2>1. over \subseteq 1..Len(m)
      BY <1>2
    <2> QED BY <2>1 DEF Overlapping
  <1>6. over # {} => lo \in over /\ (\A k \in over : lo <= k) /\ hi \in over /\ \A k \in over : k <= hi
    <2> SUFFICES ASSUME over # {} PROVE lo \in over /\ (\A k \in over : lo <= k) /\ hi \in over /\ \A k \in over : k <= hi
      OBVIOUS
    <2> HIDE DEF over
    <2>1. over \in SUBSET Nat
      BY <1>4, <1>5
    <2>2. lo \in over /\ \A k \in over : lo <= k
      BY <2>1, MinIs
    <2>3. hi = Largest(over)
      BY DEF Max, Largest
    <2>4. hi \in over /\ \A k \in over : k <= hi
      BY <1>4, <1>5, <2>3, LargestTaken
    <2> QED BY <2>2, <2>4
  <1> HIDE DEF over, lo, hi
  <1>7. ASSUME over # {}, t1 <= m[hi].t1, \A k \in over : m[k].out.verdict # "LIVE"
        PROVE  t1 <= T1 /\ t0..(t1 - 1) \cap LiveBy(f) = {}
    <2>1. hi \in 1..Len(m)
      BY <1>5, <1>6, <1>7
    <2>2. m[hi].t1 <= T1
      BY <1>3, <2>1, TilesInSpan
    <2>3. t1 <= T1
      BY <1>4, <1>7, <2>1, <2>2, SpanAssumption
    <2>4. ASSUME NEW t \in t0..(t1 - 1) PROVE t \notin LiveBy(f)
      <3>1. t \in Int /\ T0 <= t /\ t < T1
        BY <2>3, SpanAssumption
      <3>2. PICK k : Holds(m, k, t)
        BY <1>3, <3>1, TileOf
      <3>3. m[k].out = f[t] /\ k \in 1..Len(m)
        BY <1>3, <3>1, <3>2 DEF Holds, Tells
      <3>4. k \in over
        BY <1>2, <3>2, <3>3
      <3> QED BY <1>7, <3>3, <3>4 DEF LiveBy
    <2> QED BY <2>3, <2>4
  <1>8. ASSUME t1 <= T1, t0..(t1 - 1) \cap LiveBy(f) = {}
        PROVE  over # {} /\ m[lo].t0 <= t0 /\ t1 <= m[hi].t1 /\ \A k \in over : m[k].out.verdict # "LIVE"
    <2>1. t0 < T1 /\ T0 <= t1 - 1 /\ t1 - 1 < T1 /\ t1 - 1 \in Int /\ t0 \in t0..(t1 - 1) /\ t1 - 1 \in t0..(t1 - 1)
      BY <1>8, SpanAssumption
    <2>2. PICK i : Holds(m, i, t0)
      BY <1>3, <2>1, TileOf
    <2>3. PICK j : Holds(m, j, t1 - 1)
      BY <1>3, <2>1, TileOf
    <2>4. i \in 1..Len(m) /\ j \in 1..Len(m) /\ m[i].out = f[t0]
      BY <1>3, <2>2, <2>3 DEF Holds, Tells
    <2>5. i \in over
      BY <1>2, <2>1, <2>2, <2>4
    <2>6. lo \in 1..Len(m) /\ hi \in 1..Len(m) /\ lo \in over /\ hi \in over
      BY <1>5, <1>6, <2>5
    <2>7. lo = i
      <3> SUFFICES ASSUME lo < i PROVE FALSE
        BY <1>6, <2>4, <2>5, <2>6
      <3>1. m[lo].t1 <= m[i].t0
        BY <1>3, <2>4, <2>6, TilesAscend
      <3> QED BY <1>4, <1>5, <2>2, <2>4, <2>6, <3>1 DEF Holds
    <2>8. t1 <= m[hi].t1
      <3>1. t1 <= m[j].t1
        BY <1>4, <2>3, <2>4 DEF Holds
      <3>2. ~(j < hi)
        <4> SUFFICES ASSUME j < hi PROVE FALSE
          OBVIOUS
        <4>1. m[j].t1 <= m[hi].t0
          BY <1>3, <2>4, <2>6, TilesAscend
        <4> QED BY <1>4, <1>5, <2>4, <2>6, <3>1, <4>1
      <3>3. ~(hi < j)
        <4> SUFFICES ASSUME hi < j PROVE FALSE
          OBVIOUS
        <4>1. m[j].out = f[t1 - 1]
          BY <1>3, <2>1, <2>3, <2>4 DEF Holds, Tells
        <4>2. j \in over
          BY <1>2, <2>1, <2>3, <2>4, <4>1
        <4> QED BY <1>6, <2>4, <2>6, <4>2
      <3>4. hi = j
        BY <2>4, <2>6, <3>2, <3>3
      <3> QED BY <3>1, <3>4
    <2>9. ASSUME NEW k \in over PROVE m[k].out.verdict # "LIVE"
      <3>1. PICK t \in t0..(t1 - 1) : m[k].out = f[t]
        BY <1>2
      <3>2. t \in Instants
        BY <1>8, SpanAssumption DEF Instants
      <3>3. t \notin LiveBy(f)
        BY <1>8
      <3> QED BY <3>1, <3>2, <3>3 DEF LiveBy
    <2> QED BY <2>2, <2>5, <2>7, <2>8, <2>9 DEF Holds
  <1> QED BY <1>1, <1>7, <1>8

-----------------------------------------------------------------------------
\* The maximal runs

Windowed == Int \X Int
Stretched(acc, x) == [acc EXCEPT ![Len(acc)][2] = x]
RunStep(acc, i) ==
    IF i.out.verdict = "LIVE" THEN acc
    ELSE IF acc # <<>> /\ Last(acc)[2] = i.t0 THEN Stretched(acc, i.t1)
    ELSE Append(acc, <<i.t0, i.t1>>)

\* What stretching the last run does.
Stretches(a, acc, x) ==
    /\ a \in Seq(Windowed) /\ Len(a) = Len(acc)
    /\ \A j \in 1..(Len(acc) - 1) : a[j] = acc[j]
    /\ a[Len(acc)][1] = acc[Len(acc)][1] /\ a[Len(acc)][2] = x

LEMMA StretchedStretches ==
    ASSUME NEW acc \in Seq(Windowed), acc # <<>>, NEW x \in Int
    PROVE  Stretches(Stretched(acc, x), acc, x)
  <1> DEFINE m == Len(acc)
             e == [acc[m] EXCEPT ![2] = x]
             a == [acc EXCEPT ![m] = e]
  <1>1. m \in Nat \ {0} /\ acc \in [1..m -> Windowed]
    BY EmptySeq
  <1>2. acc[m] \in Windowed
    BY <1>1
  <1>3. e \in Windowed /\ e[1] = acc[m][1] /\ e[2] = x
    BY <1>2, SMTT(30) DEF Windowed
  <1>4. Stretched(acc, x) = a
    BY Zenon DEF Stretched
  <1> HIDE DEF e, m
  <1>5. a \in [1..m -> Windowed] /\ a[m] = e /\ \A j \in 1..(m - 1) : a[j] = acc[j]
    BY <1>1, <1>3
  <1> HIDE DEF a
  <1>6. a \in Seq(Windowed) /\ Len(a) = m
    BY <1>1, <1>5
  <1>7. Stretches(a, acc, x)
    BY <1>3, <1>5, <1>6 DEF Stretches, m
  <1> QED BY <1>4, <1>7

LEMMA RunStepIn ==
    ASSUME NEW acc \in Seq(Windowed), NEW i, i.t0 \in Int, i.t1 \in Int
    PROVE  RunStep(acc, i) \in Seq(Windowed)
  <1>1. CASE i.out.verdict = "LIVE"
    BY <1>1 DEF RunStep
  <1>2. CASE i.out.verdict # "LIVE" /\ acc # <<>> /\ Last(acc)[2] = i.t0
    <2>1. Stretches(Stretched(acc, i.t1), acc, i.t1)
      BY <1>2, StretchedStretches
    <2>2. RunStep(acc, i) = Stretched(acc, i.t1)
      BY <1>2, Zenon DEF RunStep
    <2> QED BY <2>1, <2>2 DEF Stretches
  <1>3. CASE i.out.verdict # "LIVE" /\ ~(acc # <<>> /\ Last(acc)[2] = i.t0)
    <2>1. RunStep(acc, i) = Append(acc, <<i.t0, i.t1>>)
      BY <1>3, Zenon DEF RunStep
    <2>2. <<i.t0, i.t1>> \in Windowed
      BY DEF Windowed
    <2> QED BY <2>1, <2>2
  <1> QED BY <1>1, <1>2, <1>3

\* r is the runs of the instants before e that are not LIVE.
Within(r, j, t) == r[j][1] <= t /\ t < r[j][2]
RunsTo(r, f, e) ==
    /\ r \in Seq(Windowed)
    /\ \A j \in 1..Len(r) : r[j][1] < r[j][2] /\ r[j][2] <= e
    /\ \A j \in 1..(Len(r) - 1) : r[j][2] < r[j + 1][1]
    /\ \A t \in Int : (\E j \in 1..Len(r) : Within(r, j, t)) <=> T0 <= t /\ t < e /\ f[t].verdict # "LIVE"

LEMMA RunsGoOn ==
    ASSUME NEW f, NEW e \in Int, NEW r, RunsTo(r, f, e), T0 <= e,
           NEW i, i.t0 = e, i.t1 \in Int, e < i.t1,
           \A t \in Int : e <= t /\ t < i.t1 => i.out = f[t]
    PROVE  RunsTo(RunStep(r, i), f, i.t1)
  <1> DEFINE n == Len(r)
             x == i.t1
  <1>1. r \in Seq(Windowed) /\ n \in Nat /\ x \in Int /\ e < x /\ T0 \in Int
    BY SpanAssumption DEF RunsTo
  <1>2. \A j \in 1..n : r[j][1] \in Int /\ r[j][2] \in Int /\ r[j][1] < r[j][2] /\ r[j][2] <= e
    <2>1. \A j \in 1..n : r[j] \in Windowed
      BY <1>1
    <2> QED BY <2>1 DEF RunsTo, Windowed
  <1>3. \A j \in 1..(n - 1) : r[j][2] < r[j + 1][1]
    BY DEF RunsTo
  <1>4. \A t \in Int : (\E j \in 1..n : Within(r, j, t)) <=> T0 <= t /\ t < e /\ f[t].verdict # "LIVE"
    BY DEF RunsTo
  <1>5. \A t \in Int : T0 <= t /\ t < x /\ f[t].verdict # "LIVE" <=>
                          \/ T0 <= t /\ t < e /\ f[t].verdict # "LIVE"
                          \/ e <= t /\ t < x /\ i.out.verdict # "LIVE"
    BY <1>1
  <1> HIDE DEF n, x
  <1>6. CASE i.out.verdict = "LIVE"
    <2>1. RunStep(r, i) = r
      BY <1>6 DEF RunStep
    <2>2. \A j \in 1..n : r[j][1] < r[j][2] /\ r[j][2] <= x
      BY <1>1, <1>2
    <2>3. \A t \in Int : (\E j \in 1..n : Within(r, j, t)) <=> T0 <= t /\ t < x /\ f[t].verdict # "LIVE"
      BY <1>4, <1>5, <1>6
    <2> QED BY <1>1, <1>3, <2>1, <2>2, <2>3 DEF RunsTo, n, x
  <1>7. CASE i.out.verdict # "LIVE" /\ r # <<>> /\ Last(r)[2] = i.t0
    <2> DEFINE a == Stretched(r, x)
    <2>1. Stretches(a, r, x)
      BY <1>1, <1>7, StretchedStretches
    <2>2. RunStep(r, i) = a
      BY <1>7, Zenon DEF RunStep, x
    <2>3. n >= 1 /\ r[n][2] = e
      <3>1. n # 0
        BY <1>1, <1>7, EmptySeq DEF n
      <3> QED BY <1>1, <1>7, <3>1 DEF Last, n
    <2> HIDE DEF a
    <2>4. /\ a \in Seq(Windowed) /\ Len(a) = n
          /\ (\A j \in 1..(n - 1) : a[j] = r[j]) /\ a[n][1] = r[n][1] /\ a[n][2] = x
      BY <2>1 DEF Stretches, n
    <2>5. ASSUME NEW j \in 1..n PROVE a[j][1] < a[j][2] /\ a[j][2] <= x /\ a[j][1] = r[j][1]
      <3>1. CASE j = n
        BY <1>1, <1>2, <2>3, <2>4, <3>1
      <3>2. CASE j # n
        <4>1. j \in 1..(n - 1)
          BY <1>1, <3>2
        <4>2. a[j] = r[j]
          BY <2>4, <4>1
        <4> QED BY <1>1, <1>2, <4>2
      <3> QED BY <3>1, <3>2
    <2>6. ASSUME NEW j \in 1..(n - 1) PROVE a[j][2] < a[j + 1][1]
      <3>1. j + 1 \in 1..n
        BY <1>1
      <3>2. a[j] = r[j] /\ a[j + 1][1] = r[j + 1][1]
        BY <2>4, <2>5, <3>1
      <3> QED BY <1>3, <3>2
    <2>7. ASSUME NEW t \in Int
          PROVE  (\E j \in 1..n : Within(a, j, t)) <=> (\E j \in 1..n : Within(r, j, t)) \/ (e <= t /\ t < x)
      <3>1. n \in 1..n /\ r[n][1] <= e
        <4>1. n \in 1..n
          BY <1>1, <2>3
        <4> QED BY <1>2, <2>3, <4>1
      <3>2. ASSUME NEW j \in 1..n, Within(a, j, t)
            PROVE  (\E l \in 1..n : Within(r, l, t)) \/ (e <= t /\ t < x)
        <4>1. CASE j = n
          BY <1>1, <1>2, <2>3, <2>4, <3>1, <3>2, <4>1 DEF Within
        <4>2. CASE j # n
          <5>1. j \in 1..(n - 1)
            BY <1>1, <4>2
          <5>2. a[j] = r[j]
            BY <2>4, <5>1
          <5> QED BY <3>2, <5>2 DEF Within
        <4> QED BY <4>1, <4>2
      <3>3. ASSUME NEW j \in 1..n, Within(r, j, t) PROVE \E l \in 1..n : Within(a, l, t)
        <4>1. CASE j = n
          BY <1>1, <1>2, <2>3, <2>4, <3>1, <3>3, <4>1 DEF Within
        <4>2. CASE j # n
          <5>1. j \in 1..(n - 1)
            BY <1>1, <4>2
          <5>2. a[j] = r[j]
            BY <2>4, <5>1
          <5> QED BY <3>3, <5>2 DEF Within
        <4> QED BY <4>1, <4>2
      <3>4. ASSUME e <= t, t < x PROVE Within(a, n, t)
        BY <1>1, <1>2, <2>4, <3>1, <3>4 DEF Within
      <3> QED BY <3>1, <3>2, <3>3, <3>4
    <2>8. \A t \in Int : (\E j \in 1..n : Within(a, j, t)) <=> T0 <= t /\ t < x /\ f[t].verdict # "LIVE"
      BY <1>4, <1>5, <1>7, <2>7
    <2> QED BY <2>2, <2>4, <2>5, <2>6, <2>8 DEF RunsTo, x
  <1>8. CASE i.out.verdict # "LIVE" /\ ~(r # <<>> /\ Last(r)[2] = i.t0)
    <2> DEFINE w == <<i.t0, x>>
               a == Append(r, w)
    <2>1. RunStep(r, i) = a
      BY <1>8, Zenon DEF RunStep, x
    <2>2. w \in Windowed /\ w[1] = e /\ w[2] = x
      BY <1>1 DEF Windowed
    <2>3. n >= 1 => r[n][2] # e
      <3> SUFFICES ASSUME n >= 1, r[n][2] = e PROVE FALSE
        OBVIOUS
      <3>1. r # <<>>
        BY DEF n
      <3>2. Last(r) = r[n]
        BY DEF Last, n
      <3> QED BY <1>8, <3>1, <3>2
    <2> HIDE DEF w
    <2>4. /\ a \in Seq(Windowed) /\ Len(a) = n + 1
          /\ (\A j \in 1..n : a[j] = r[j]) /\ a[n + 1] = w
      BY <1>1, <2>2 DEF n
    <2> HIDE DEF a
    <2>5. ASSUME NEW j \in 1..(n + 1) PROVE a[j][1] < a[j][2] /\ a[j][2] <= x
      <3>1. CASE j = n + 1
        BY <1>1, <2>2, <2>4, <3>1
      <3>2. CASE j # n + 1
        <4>1. j \in 1..n
          BY <1>1, <3>2
        <4>2. a[j] = r[j]
          BY <2>4, <4>1
        <4> QED BY <1>1, <1>2, <4>1, <4>2
      <3> QED BY <3>1, <3>2
    <2>6. ASSUME NEW j \in 1..n PROVE a[j][2] < a[j + 1][1]
      <3>1. CASE j = n
        <4>1. r[n][2] < e
          BY <1>1, <1>2, <2>3, <3>1
        <4> QED BY <2>2, <2>4, <3>1, <4>1
      <3>2. CASE j # n
        <4>1. j \in 1..(n - 1) /\ j + 1 \in 1..n
          BY <1>1, <3>2
        <4>2. a[j] = r[j] /\ a[j + 1] = r[j + 1]
          BY <2>4, <4>1
        <4> QED BY <1>3, <4>1, <4>2
      <3> QED BY <3>1, <3>2
    <2>7. ASSUME NEW t \in Int
          PROVE  (\E j \in 1..(n + 1) : Within(a, j, t)) <=> (\E j \in 1..n : Within(r, j, t)) \/ (e <= t /\ t < x)
      <3>1. n + 1 \in 1..(n + 1) /\ (Within(a, n + 1, t) <=> e <= t /\ t < x)
        BY <1>1, <2>2, <2>4 DEF Within
      <3>2. ASSUME NEW j \in 1..n PROVE j \in 1..(n + 1) /\ (Within(a, j, t) <=> Within(r, j, t))
        BY <1>1, <2>4 DEF Within
      <3>3. \A j \in 1..(n + 1) : j = n + 1 \/ j \in 1..n
        BY <1>1
      <3> QED BY <3>1, <3>2, <3>3
    <2>8. \A t \in Int : (\E j \in 1..(n + 1) : Within(a, j, t)) <=> T0 <= t /\ t < x /\ f[t].verdict # "LIVE"
      BY <1>4, <1>5, <1>8, <2>7
    <2>9. (n + 1) - 1 = n
      BY <1>1
    <2> QED BY <2>1, <2>4, <2>5, <2>6, <2>8, <2>9 DEF RunsTo, x
  <1> QED BY <1>6, <1>7, <1>8

\* r takes the intervals one by one.
Running(r, m) ==
    /\ r \in [0..Len(m) -> Seq(Windowed)] /\ r[0] = <<>>
    /\ \A k \in 1..Len(m) : r[k] = RunStep(r[k - 1], m[k])

LEMMA RunSteps ==
    ASSUME NEW d, NEW s, NEW f, Tells(d.sources[s].intervals, f)
    PROVE  \E r : /\ Running(r, d.sources[s].intervals)
                  /\ NonLiveRuns(d, s) = r[Len(d.sources[s].intervals)]
  <1> DEFINE m == d.sources[s].intervals
             n == Len(m)
             V == Seq(Windowed)
             b == <<>>
             F == [p \in (1..n) \X V |-> RunStep(p[2], m[p[1]])]
             Step(j) == [x \in SUBSET (DOMAIN m) |->
                            IF x = {} THEN b ELSE RunStep(j[x \ {Largest(x)}], m[Largest(x)])]
             i == CHOOSE j : j = Step(j)
  <1>1. n \in Nat /\ DOMAIN m = 1..n
    <2>1. m = [k \in 1..n |-> m[k]]
      BY TellsEnds
    <2>2. n \in Nat
      BY TellsEnds
    <2> QED BY <2>1, <2>2, Zenon
  <1>2. b \in V /\ \A k \in 1..n : m[k].t0 \in Int /\ m[k].t1 \in Int
    <2>1. b \in V
      OBVIOUS
    <2>2. \A k \in 1..n : m[k].t0 \in Int /\ m[k].t1 \in Int
      BY TellsEnds
    <2> QED BY <2>1, <2>2
  <1>3. NonLiveRuns(d, s) = i[DOMAIN m]
    BY DEF NonLiveRuns, FoldLeft, MapThenFoldSet, RunStep, Stretched, Largest, Max
  <1>4. F \in [(1..n) \X V -> V]
    <2> SUFFICES ASSUME NEW k \in 1..n, NEW acc \in V PROVE RunStep(acc, m[k]) \in V
      OBVIOUS
    <2> QED BY <1>2, RunStepIn
  <1> HIDE DEF n, V, b, m
  <1>5. \A k \in 1..n, acc \in V : F[<<k, acc>>] = RunStep(acc, m[k])
    OBVIOUS
  <1> HIDE DEF F
  <1>6. PICK h : Folds(h, F, b, n, V)
    BY <1>1, <1>2, <1>4, FoldExists
  <1>7. ASSUME NEW x \in SUBSET (1..n), x # {} PROVE Largest(x) \in 1..n /\ Largest(x) \in x
    <2>1. Largest(x) \in x
      BY <1>1, <1>7, LargestTaken
    <2> QED BY <2>1
  <1>8. h = Step(h)
    <2>1. ASSUME NEW x \in SUBSET (1..n)
          PROVE  h[x] = IF x = {} THEN b ELSE RunStep(h[x \ {Largest(x)}], m[Largest(x)])
      <3>1. CASE x = {}
        BY <1>6, <3>1 DEF Folds
      <3>2. CASE x # {}
        <4>1. Largest(x) \in 1..n /\ x \ {Largest(x)} \in SUBSET (1..n)
          BY <1>7, <3>2
        <4>2. h[x \ {Largest(x)}] \in V /\ h[x] = F[<<Largest(x), h[x \ {Largest(x)}]>>]
          BY <1>6, <3>2, <4>1 DEF Folds
        <4> QED BY <1>5, <3>2, <4>1, <4>2
      <3> QED BY <3>1, <3>2
    <2>2. h = [x \in SUBSET (1..n) |-> h[x]]
      BY <1>6 DEF Folds
    <2> QED BY <1>1, <2>1, <2>2
  <1> HIDE DEF Step
  <1>9. i = Step(i)
    BY <1>8, Zenon
  <1> HIDE DEF i
  <1>10. \A x \in SUBSET (1..n) : i[x] = IF x = {} THEN b ELSE RunStep(i[x \ {Largest(x)}], m[Largest(x)])
    BY <1>1, <1>9 DEF Step
  <1>11. i[1..0] = b
    <2>1. 1..0 = {} /\ {} \in SUBSET (1..n)
      OBVIOUS
    <2> QED BY <1>10, <2>1
  <1>12. ASSUME NEW k \in 1..n PROVE i[1..k] = RunStep(i[1..(k - 1)], m[k])
    <2>1. /\ 1..k \in SUBSET (1..n) /\ 1..k # {}
          /\ Largest(1..k) = k /\ (1..k) \ {k} = 1..(k - 1)
      BY <1>1, FirstNumbers
    <2>2. i[1..k] = RunStep(i[(1..k) \ {Largest(1..k)}], m[Largest(1..k)])
      BY <1>10, <2>1, Zenon
    <2> QED BY <2>1, <2>2
  <1> DEFINE r == [k \in 0..n |-> i[1..k]]
  <1>13. r[0] = b /\ \A k \in 1..n : r[k] = RunStep(r[k - 1], m[k])
    <2>1. \A k \in 1..n : r[k] = i[1..k] /\ r[k - 1] = i[1..(k - 1)]
      BY <1>1
    <2>2. r[0] = i[1..0]
      BY <1>1
    <2> HIDE DEF r
    <2> QED BY <1>11, <1>12, <2>1, <2>2
  <1>14. r = [k \in 0..n |-> r[k]] /\ r[n] = i[DOMAIN m]
    BY <1>1
  <1> HIDE DEF r
  <1>15. r \in [0..n -> V]
    <2> DEFINE U == {k \in Nat : k \in 0..n => r[k] \in V}
    <2>1. 0 \in U
      BY <1>2, <1>13
    <2>2. ASSUME NEW k \in 1..n, k - 1 \in U PROVE k \in U
      <3>1. r[k - 1] \in V
        <4>1. k - 1 \in 0..n
          BY <1>1
        <4> QED BY <2>2, <4>1
      <3>2. RunStep(r[k - 1], m[k]) \in V
        BY <1>2, <3>1, RunStepIn DEF V
      <3> QED BY <1>13, <3>2
    <2> HIDE DEF U
    <2>3. 0..n \subseteq U
      BY <1>1, <2>1, <2>2, BoundedInduction
    <2>4. \A k \in 0..n : r[k] \in V
      BY <2>3 DEF U
    <2> QED BY <1>14, <2>4
  <1>16. NonLiveRuns(d, s) = r[n]
    BY <1>3, <1>14
  <1> QED BY <1>13, <1>15, <1>16 DEF Running, n, b, V, m

(* The runs are the instants that are not LIVE, each as long as it can be. *)
LEMMA RunsAre ==
    ASSUME NEW d, NEW s, NEW f, Tells(d.sources[s].intervals, f)
    PROVE  RunsTo(NonLiveRuns(d, s), f, T1)
  <1> DEFINE m == d.sources[s].intervals
             n == Len(m)
             end == [k \in 0..n |-> IF k = 0 THEN T0 ELSE m[k].t1]
  <1>1. Tells(m, f) /\ n \in Nat /\ n >= 1 /\ m[1].t0 = T0 /\ m[n].t1 = T1 /\ T0 \in Int /\ T1 \in Int
    BY TellsEnds, SpanAssumption
  <1>2. PICK r : Running(r, m) /\ NonLiveRuns(d, s) = r[n]
    BY RunSteps
  <1> HIDE DEF m
  <1>3. \A k \in 1..n : m[k].t0 \in Int /\ m[k].t1 \in Int /\ m[k].t0 < m[k].t1 /\ T0 <= m[k].t0
    BY <1>1, TellsEnds, TilesInSpan
  <1>4. ASSUME NEW k \in 1..n PROVE end[k] = m[k].t1 /\ end[k - 1] = m[k].t0
    <2>1. end[k] = m[k].t1
      OBVIOUS
    <2>2. CASE k = 1
      BY <1>1, <2>1, <2>2
    <2>3. CASE k # 1
      <3>1. k - 1 \in 1..(n - 1) /\ k - 1 \in 0..n /\ (k - 1) + 1 = k /\ k - 1 # 0
        BY <1>1, <2>3
      <3>2. m[k - 1].t1 = m[k].t0
        BY <1>1, <3>1 DEF Tells
      <3> QED BY <2>1, <3>1, <3>2
    <2> QED BY <2>2, <2>3
  <1>5. end[0] = T0
    BY <1>1
  <1> HIDE DEF end
  <1> DEFINE U == {k \in Nat : k \in 0..n => RunsTo(r[k], f, end[k])}
  <1>6. 0 \in U
    <2>1. RunsTo(<<>>, f, T0)
      <3>1. <<>> \in Seq(Windowed) /\ Len(<<>>) = 0 /\ 1..0 = {} /\ 1..(0 - 1) = {}
        OBVIOUS
      <3>2. \A t \in Int : ~(T0 <= t /\ t < T0)
        BY <1>1
      <3> QED BY <3>1, <3>2 DEF RunsTo
    <2> QED BY <1>2, <1>5, <2>1 DEF Running
  <1>7. ASSUME NEW k \in 1..n, k - 1 \in U PROVE k \in U
    <2>1. k - 1 \in 0..n /\ k \in 1..Len(m)
      BY <1>1
    <2>2. RunsTo(r[k - 1], f, m[k].t0)
      BY <1>4, <1>7, <2>1
    <2>3. \A t \in Int : m[k].t0 <= t /\ t < m[k].t1 => m[k].out = f[t]
      BY <1>1, <2>1 DEF Tells
    <2>4. RunsTo(RunStep(r[k - 1], m[k]), f, m[k].t1)
      BY <1>3, <2>2, <2>3, RunsGoOn
    <2>5. r[k] = RunStep(r[k - 1], m[k])
      BY <1>2 DEF Running
    <2> QED BY <1>4, <2>4, <2>5
  <1> HIDE DEF U
  <1>8. 0..n \subseteq U
    BY <1>1, <1>6, <1>7, BoundedInduction
  <1>9. n \in 0..n /\ n \in 1..n
    BY <1>1
  <1>10. RunsTo(r[n], f, end[n])
    BY <1>8, <1>9 DEF U
  <1> QED BY <1>1, <1>2, <1>4, <1>9, <1>10

\* A source's verdicts in a document, and what they say.
LEMMA RunsPointwise ==
    ASSUME NEW d, NEW s, NEW f, Tells(d.sources[s].intervals, f), NEW runs, runs = NonLiveRuns(d, s)
    PROVE  /\ UNION {runs[k][1]..(runs[k][2] - 1) : k \in DOMAIN runs} = Instants \ LiveBy(f)
           /\ \A k \in 1..(Len(runs) - 1) : runs[k][2] < runs[k + 1][1]
  <1>1. RunsTo(runs, f, T1)
    BY RunsAre
  <1>2. runs \in Seq(Windowed) /\ DOMAIN runs = 1..Len(runs) /\ T0 \in Int /\ T1 \in Int
    BY <1>1, SpanAssumption DEF RunsTo
  <1>3. \A k \in 1..Len(runs) : runs[k][1] \in Int /\ runs[k][2] \in Int
    <2>1. \A k \in 1..Len(runs) : runs[k] \in Windowed
      BY <1>2
    <2> QED BY <2>1 DEF Windowed
  <1>4. \A k \in 1..Len(runs) : \A t \in Int : t \in runs[k][1]..(runs[k][2] - 1) <=> Within(runs, k, t)
    BY <1>3 DEF Within
  <1>5. \A t \in Int : (\E j \in 1..Len(runs) : Within(runs, j, t)) <=> T0 <= t /\ t < T1 /\ f[t].verdict # "LIVE"
    BY <1>1 DEF RunsTo
  <1>6. \A t \in Int : t \in Instants \ LiveBy(f) <=> T0 <= t /\ t < T1 /\ f[t].verdict # "LIVE"
    BY <1>2 DEF Instants, LiveBy
  <1>7. Instants \subseteq Int
    BY <1>2 DEF Instants
  <1>8. ASSUME NEW t \in Instants \ LiveBy(f) PROVE \E k \in DOMAIN runs : t \in runs[k][1]..(runs[k][2] - 1)
    BY <1>2, <1>4, <1>5, <1>6, <1>7
  <1>9. ASSUME NEW k \in DOMAIN runs, NEW t \in runs[k][1]..(runs[k][2] - 1) PROVE t \in Instants \ LiveBy(f)
    BY <1>2, <1>3, <1>4, <1>5, <1>6
  <1>10. \A k \in 1..(Len(runs) - 1) : runs[k][2] < runs[k + 1][1]
    BY <1>1 DEF RunsTo
  <1> QED BY <1>8, <1>9, <1>10

\* What is answered about two sources, of which f and g tell the instants.
Answered(d, r, s, f, g, t0, t1) ==
    /\ IssueLicences(d, {r, s}, t0, t1).granted
         <=> t1 <= T1 /\ t0..(t1 - 1) \cap (LiveBy(f) \cup LiveBy(g)) = {}
    /\ AbsenceStatus(d, {r, s}, t0, t1) = "OBSERVED"
         <=> t0..(t1 - 1) \subseteq LiveBy(f) \cap LiveBy(g)

(* issue_licences: granted where every source is nowhere LIVE.             *)
LEMMA GrantedIs ==
    ASSUME NEW d, NEW r, NEW s, NEW f, NEW g, Tells(d.sources[r].intervals, f), Tells(d.sources[s].intervals, g),
           NEW t0 \in Int, NEW t1 \in Int, T0 <= t0, t0 < t1
    PROVE  Answered(d, r, s, f, g, t0, t1)
  <1> DEFINE span == t0..(t1 - 1)
             P(x) == LicencesFor(d, x, t0, t1).granted
             L(x) == IsLive(d, x, t0, t1)
             A == LiveBy(f)
             B == LiveBy(g)
             blocked == {x \in {r, s} : L(x) \/ ~P(x)}
  <1>1. L(r) <=> span \subseteq A
    BY IsLiveIs
  <1>2. L(s) <=> span \subseteq B
    BY IsLiveIs
  <1>3. P(r) <=> t1 <= T1 /\ span \cap A = {}
    BY LicencesForIs
  <1>4. P(s) <=> t1 <= T1 /\ span \cap B = {}
    BY LicencesForIs
  <1>5. t0 \in span
    OBVIOUS
  <1>6. IssueLicences(d, {r, s}, t0, t1).granted <=> {r, s} # {} /\ blocked = {}
    BY DEF IssueLicences
  <1>7. AbsenceStatus(d, {r, s}, t0, t1) = "OBSERVED" <=> \A x \in {r, s} : L(x)
    BY DEF AbsenceStatus
  <1>8. blocked = {} <=> ~L(r) /\ ~L(s) /\ P(r) /\ P(s)
    <2> HIDE DEF L, P
    <2> QED OBVIOUS
  <1> HIDE DEF L, P, A, B, span, blocked
  <1>9. IssueLicences(d, {r, s}, t0, t1).granted <=> t1 <= T1 /\ span \cap (A \cup B) = {}
    <2>1. span \cap A = {} => ~(span \subseteq A)
      BY <1>5
    <2>2. span \cap B = {} => ~(span \subseteq B)
      BY <1>5
    <2>3. span \cap (A \cup B) = {} <=> span \cap A = {} /\ span \cap B = {}
      OBVIOUS
    <2> QED BY <1>1, <1>2, <1>3, <1>4, <1>6, <1>8, <2>1, <2>2, <2>3
  <1>10. AbsenceStatus(d, {r, s}, t0, t1) = "OBSERVED" <=> span \subseteq A \cap B
    BY <1>1, <1>2, <1>7
  <1> QED BY <1>9, <1>10 DEF span, A, B, Answered

(* The liveness document of a run is well-formed, depends on nothing that  *)
(* is asked of it, and answers instant by instant.                         *)
THEOREM DocumentExact == Spec => []DocumentIsExact
  <1>1. ASSUME IntakeInd, JudgeInd PROVE DocumentIsExact
    <2> DEFINE f(s) == Voice(bundle[s], s, profile.body, used.flags)
    <2>1. ASSUME NEW s \in Sources PROVE Timed(bundle[s])
      BY <1>1, BundleTimed
    <2>2. ASSUME phase \in {"judged", "done"}, NEW s \in Sources PROVE Faithful(doc.sources[s], f(s))
      <3>1. Faithful(SourceLiveness(bundle[s], s, profile.body, used.flags, {}), f(s))
        BY <2>1, SourceFaithful
      <3> HIDE DEF f
      <3>2. CASE phase = "judged"
        <4>1. doc = Document(bundle, profile.body, used.flags, {})
          BY <1>1, <3>2 DEF JudgeInd
        <4> QED BY <3>1, <4>1, DocumentParts
      <3>3. CASE phase = "done"
        <4>1. doc = Disputed(Document(bundle, profile.body, used.flags, {}), found.events)
          BY <1>1, <3>3 DEF JudgeInd
        <4> QED BY <3>1, <4>1, DocumentParts
      <3> QED BY <2>2, <3>2, <3>3
    <2>3. QueryIndependent
      <3> SUFFICES ASSUME phase = "judged", NEW x \in Instants, NEW s \in Sources
                   PROVE  SourceLiveness(bundle[s], s, profile.body, used.flags, {x}).intervals = doc.sources[s].intervals
        BY Zenon DEF QueryIndependent
      <3>1. {x} \in SUBSET Int
        BY SpanAssumption DEF Instants
      <3>2. Tells(SourceLiveness(bundle[s], s, profile.body, used.flags, {x}).intervals, f(s))
        BY <2>1, <3>1, IntervalsTell, Zenon
      <3>3. Tells(doc.sources[s].intervals, f(s))
        BY <2>2 DEF Faithful
      <3> HIDE DEF f
      <3> QED BY <3>2, <3>3, OneTelling, Zenon
    <2> HIDE DEF f
    <2>4. DocumentIsAccepted
      <3> SUFFICES ASSUME phase \in {"judged", "done"}, NEW s \in Sources
                   PROVE  LET d == doc.sources[s]
                          IN /\ d.intervals[1].t0 = T0 /\ Last(d.intervals).t1 = T1
                             /\ \A k \in 1..(Len(d.intervals) - 1) :
                                   d.intervals[k].t1 = d.intervals[k + 1].t0 /\ d.intervals[k].out # d.intervals[k + 1].out
                             /\ SumFunction(d.blind) + d.suppressed = Cardinality({t \in Instants : ~LiveAt(doc, s, t)})
                             /\ d.published => d.mode \in {"F0", "F3"}
        BY Zenon DEF DocumentIsAccepted
      <3>1. Faithful(doc.sources[s], f(s))
        BY <2>2
      <3> QED BY <3>1, AcceptedPart, Zenon
    <2>5. ASSUME phase = "judged", NEW s \in Sources
          PROVE  Tells(doc.sources[s].intervals, f(s)) /\ LiveInstants(doc, s) = LiveBy(f(s))
      <3>1. Tells(doc.sources[s].intervals, f(s))
        BY <2>2, <2>5 DEF Faithful
      <3>2. \A t \in Instants : LiveAt(doc, s, t) <=> f(s)[t].verdict = "LIVE"
        BY <3>1, LiveTold
      <3> QED BY <3>1, <3>2 DEF LiveInstants, LiveBy
    <2>6. AnswersArePointwise
      <3>1. ASSUME phase = "judged", NEW r \in Sources, NEW s \in Sources,
                   NEW t0 \in T0..(T1 + 1), NEW t1 \in T0..(T1 + 1), t0 < t1
            PROVE  /\ IssueLicences(doc, {r, s}, t0, t1).granted
                        <=> t1 <= T1 /\ t0..(t1 - 1) \cap (LiveInstants(doc, r) \cup LiveInstants(doc, s)) = {}
                   /\ (AbsenceStatus(doc, {r, s}, t0, t1) = "OBSERVED")
                        <=> t0..(t1 - 1) \subseteq LiveInstants(doc, r) \cap LiveInstants(doc, s)
        <4> DEFINE A == f(r)
                   B == f(s)
        <4>1. /\ Tells(doc.sources[r].intervals, A) /\ LiveInstants(doc, r) = LiveBy(A)
              /\ Tells(doc.sources[s].intervals, B) /\ LiveInstants(doc, s) = LiveBy(B)
          BY <2>5, <3>1
        <4>2. t0 \in Int /\ t1 \in Int /\ T0 <= t0 /\ t0 < t1
          BY <3>1, SpanAssumption
        <4> HIDE DEF A, B
        <4>3. Answered(doc, r, s, A, B, t0, t1)
          BY <4>1, <4>2, GrantedIs
        <4> QED BY <4>1, <4>3 DEF Answered
      <3>2. ASSUME phase = "judged", NEW s \in Sources, NEW runs \in {NonLiveRuns(doc, s)}
            PROVE  /\ UNION {runs[k][1]..(runs[k][2] - 1) : k \in DOMAIN runs} = Instants \ LiveInstants(doc, s)
                   /\ \A k \in 1..(Len(runs) - 1) : runs[k][2] < runs[k + 1][1]
        <4>1. Tells(doc.sources[s].intervals, f(s)) /\ LiveInstants(doc, s) = LiveBy(f(s))
          BY <2>5, <3>2
        <4>2. runs = NonLiveRuns(doc, s)
          OBVIOUS
        <4>3. /\ UNION {runs[k][1]..(runs[k][2] - 1) : k \in DOMAIN runs} = Instants \ LiveBy(f(s))
              /\ \A k \in 1..(Len(runs) - 1) : runs[k][2] < runs[k + 1][1]
          BY <4>1, <4>2, RunsPointwise
        <4> QED BY <4>1, <4>3
      <3>3. ASSUME phase = "judged", NEW r \in Sources, NEW s \in Sources,
                   NEW here \in {LiveInstants(doc, r)}, NEW there \in {LiveInstants(doc, s)},
                   NEW t0 \in T0..(T1 + 1), NEW t1 \in T0..(T1 + 1), t0 < t1
            PROVE  LET span == t0..(t1 - 1)
                   IN /\ IssueLicences(doc, {r, s}, t0, t1).granted
                            <=> t1 <= T1 /\ span \cap (here \cup there) = {}
                      /\ (AbsenceStatus(doc, {r, s}, t0, t1) = "OBSERVED") <=> span \subseteq here \cap there
        <4>1. here = LiveInstants(doc, r) /\ there = LiveInstants(doc, s)
          OBVIOUS
        <4>2. /\ IssueLicences(doc, {r, s}, t0, t1).granted
                   <=> t1 <= T1 /\ t0..(t1 - 1) \cap (LiveInstants(doc, r) \cup LiveInstants(doc, s)) = {}
              /\ (AbsenceStatus(doc, {r, s}, t0, t1) = "OBSERVED")
                   <=> t0..(t1 - 1) \subseteq LiveInstants(doc, r) \cap LiveInstants(doc, s)
          BY <3>1, <3>3
        <4> QED BY <4>1, <4>2, Zenon
      <3> QED BY <3>2, <3>3, Zenon DEF AnswersArePointwise
    <2> QED BY <2>3, <2>4, <2>6 DEF DocumentIsExact
  <1> QED BY <1>1, IntakeInvariant, JudgeInvariant, PTL

-----------------------------------------------------------------------------
\* The orders of the temporal pass

NumberedOrder(S) == {x \in S \X S : x[1].seq < x[2].seq}
SourceOrder(S) == {x \in S \X S : x[1].src < x[2].src \/ (x[1].src = x[2].src /\ x[1].seq < x[2].seq)}

LEMMA NumberedOrderIs ==
    ASSUME NEW S
    PROVE  BySeq(S) = <<>> \o AscendingBy(S, NumberedOrder(S))
  <1> DEFINE c(k) == CHOOSE x \in S : Cardinality({y \in S : y.seq < x.seq}) = k - 1
             d(k) == CHOOSE x \in S : Cardinality(Preceding(NumberedOrder(S), S, x)) = k - 1
  <1>1. \A x \in S : {y \in S : y.seq < x.seq} = Preceding(NumberedOrder(S), S, x)
    BY DEF NumberedOrder, Preceding
  <1>2. \A k \in 1..Cardinality(S) : c(k) = d(k)
    <2> TAKE k \in 1..Cardinality(S)
    <2> QED BY <1>1, Zenon
  <1>3. BySeq(S) = <<>> \o [k \in 1..Cardinality(S) |-> c(k)]
    BY Zenon DEF BySeq, Ascending
  <1>4. AscendingBy(S, NumberedOrder(S)) = [k \in 1..Cardinality(S) |-> d(k)]
    BY DEF AscendingBy
  <1> HIDE DEF c, d
  <1>5. [k \in 1..Cardinality(S) |-> c(k)] = [k \in 1..Cardinality(S) |-> d(k)]
    BY <1>2
  <1> QED BY <1>3, <1>4, <1>5, Zenon

LEMMA SourceOrderIs ==
    ASSUME NEW S
    PROVE  Sequenced(S) = <<>> \o AscendingBy(S, SourceOrder(S))
  <1> DEFINE B(y, x) == y.src < x.src \/ (y.src = x.src /\ y.seq < x.seq)
             c(k) == CHOOSE x \in S : Cardinality({y \in S : B(y, x)}) = k - 1
             d(k) == CHOOSE x \in S : Cardinality(Preceding(SourceOrder(S), S, x)) = k - 1
  <1>1. \A x \in S : {y \in S : B(y, x)} = Preceding(SourceOrder(S), S, x)
    BY DEF SourceOrder, Preceding
  <1>2. Sequenced(S) = <<>> \o [k \in 1..Cardinality(S) |-> c(k)]
    BY Zenon DEF Sequenced, Ascending
  <1> HIDE DEF B
  <1>3. \A k \in 1..Cardinality(S) : c(k) = d(k)
    <2> TAKE k \in 1..Cardinality(S)
    <2> QED BY <1>1, Zenon
  <1>4. AscendingBy(S, SourceOrder(S)) = [k \in 1..Cardinality(S) |-> d(k)]
    BY DEF AscendingBy
  <1> HIDE DEF c, d
  <1>5. [k \in 1..Cardinality(S) |-> c(k)] = [k \in 1..Cardinality(S) |-> d(k)]
    BY <1>3
  <1> QED BY <1>2, <1>4, <1>5, Zenon

\* es holds each record of S at one place.
Places(es, S) ==
    /\ Len(es) \in Nat /\ Len(es) = Cardinality(S) /\ DOMAIN es = 1..Len(es) /\ es \in Seq(S)
    /\ \A k \in 1..Len(es) : es[k] \in S
    /\ \A j, k \in 1..Len(es) : es[j] = es[k] => j = k
    /\ \A r \in S : \E k \in 1..Len(es) : es[k] = r

(* The records of one source in the order of their numbers.                *)
LEMMA BySeqPlaces ==
    ASSUME NEW S, Keyed(S), NEW s, \A r \in S : r.src = s
    PROVE  /\ Places(BySeq(S), S)
           /\ \A j, k \in 1..Len(BySeq(S)) : j < k => BySeq(S)[j].seq < BySeq(S)[k].seq
  <1> DEFINE es == BySeq(S)
             n == Cardinality(S)
             B == NumberedOrder(S)
  <1>1. IsFiniteSet(S) /\ \A r \in S : r.seq \in Int
    BY DEF Keyed, WellFormed
  <1>2. StrictOrder(B, S)
    BY <1>1 DEF StrictOrder, NumberedOrder, Keyed
  <1>3. Lists(es, B, S) /\ es \in Seq(S) /\ Len(es) = n
    BY <1>1, <1>2, NumberedOrderIs, AscendingLists, Zenon
  <1>4. n \in Nat
    BY <1>1, FS_CardinalityType
  <1>5. es \in [1..n -> S] /\ (\A r \in S : \E k \in 1..n : es[k] = r)
        /\ \A j, k \in 1..n : j < k => <<es[j], es[k]>> \in B
    BY <1>3 DEF Lists
  <1>6. \A j, k \in 1..n : j < k => es[j].seq < es[k].seq
    BY <1>5 DEF NumberedOrder
  <1>7. \A j, k \in 1..n : es[j] = es[k] => j = k
    <2> SUFFICES ASSUME NEW j \in 1..n, NEW k \in 1..n, es[j] = es[k] PROVE j = k
      OBVIOUS
    <2>1. es[j] \in S
      BY <1>5
    <2>2. es[j].seq \in Int /\ es[j].seq = es[k].seq
      BY <1>1, <2>1
    <2>3. ~(j < k) /\ ~(k < j)
      BY <1>6, <2>2
    <2> QED BY <1>4, <2>3
  <1> HIDE DEF es, n
  <1> QED BY <1>3, <1>4, <1>5, <1>6, <1>7 DEF Places, es, n

(* All the records, source by source.                                      *)
LEMMA SequencedPlaces ==
    ASSUME NEW S, Keyed(S)
    PROVE  Places(Sequenced(S), S)
  <1> DEFINE es == Sequenced(S)
             n == Cardinality(S)
             B == SourceOrder(S)
  <1>1. IsFiniteSet(S) /\ \A r \in S : r.seq \in Int /\ r.src \in Int
    <2>1. IsFiniteSet(S) /\ \A r \in S : r.seq \in Int /\ r.src \in Sources
      BY DEF Keyed, WellFormed
    <2>2. Sources \subseteq Int
      BY SourcesAssumption
    <2>3. \A r \in S : r.src \in Int
      BY <2>1, <2>2, Zenon
    <2> QED BY <2>1, <2>3
  <1>2. StrictOrder(B, S)
    <2>1. \A x \in S : <<x, x>> \notin B
      BY <1>1 DEF SourceOrder
    <2>2. \A x, y, z \in S : <<x, y>> \in B /\ <<y, z>> \in B => <<x, z>> \in B
      BY <1>1 DEF SourceOrder
    <2>3. \A x, y \in S : x = y \/ <<x, y>> \in B \/ <<y, x>> \in B
      BY <1>1 DEF SourceOrder, Keyed
    <2> QED BY <2>1, <2>2, <2>3 DEF StrictOrder
  <1>3. Lists(es, B, S) /\ es \in Seq(S) /\ Len(es) = n
    BY <1>1, <1>2, SourceOrderIs, AscendingLists, Zenon
  <1>4. n \in Nat
    BY <1>1, FS_CardinalityType
  <1>5. es \in [1..n -> S] /\ (\A r \in S : \E k \in 1..n : es[k] = r)
        /\ \A j, k \in 1..n : j < k => <<es[j], es[k]>> \in B
    BY <1>3 DEF Lists
  <1>6. \A j, k \in 1..n : j < k => es[j] # es[k]
    <2> SUFFICES ASSUME NEW j \in 1..n, NEW k \in 1..n, j < k PROVE es[j] # es[k]
      OBVIOUS
    <2>1. es[j] \in S /\ <<es[j], es[k]>> \in B
      BY <1>5
    <2> QED BY <1>2, <2>1 DEF StrictOrder
  <1>7. \A j, k \in 1..n : es[j] = es[k] => j = k
    BY <1>4, <1>6
  <1> HIDE DEF es, n
  <1> QED BY <1>3, <1>4, <1>5, <1>7 DEF Places, es, n

-----------------------------------------------------------------------------
\* The patience pass

PatienceStep(values, acc, k) ==
    LET at == Position(values, acc.tails, k) IN
    [tails |-> IF at = Len(acc.tails) THEN Append(acc.tails, k)
               ELSE [acc.tails EXCEPT ![at + 1] = k],
     parent |-> Append(acc.parent, IF at > 0 THEN acc.tails[at] ELSE 0)]

NoPiles == [tails |-> <<>>, parent |-> <<>>]
PileStates == [tails : Seq(Int), parent : Seq(Int)]

\* c is the state of the pass after each index.
Piling(c, values) ==
    /\ c[0] = NoPiles
    /\ \A k \in 1..Len(values) : c[k] = PatienceStep(values, c[k - 1], k)

(* Where an index goes is at most one past the tails.                      *)
LEMMA PositionIs ==
    ASSUME NEW values, NEW tails \in Seq(Int), NEW k
    PROVE  LET X == {j \in DOMAIN tails : values[tails[j]] <= values[k]}
           IN /\ Position(values, tails, k) = Cardinality(X) /\ X \in SUBSET (1..Len(tails))
              /\ Position(values, tails, k) \in 0..Len(tails)
  <1> DEFINE X == {j \in DOMAIN tails : values[tails[j]] <= values[k]}
             m == Len(tails)
  <1>1. m \in Nat /\ DOMAIN tails = 1..m
    OBVIOUS
  <1>2. X \in SUBSET (1..m) /\ Position(values, tails, k) = Cardinality(X)
    BY <1>1 DEF Position
  <1> HIDE DEF X, m
  <1>3. IsFiniteSet(1..m) /\ Cardinality(1..m) = m
    BY <1>1, FS_Interval
  <1>4. Cardinality(X) \in Nat /\ Cardinality(X) <= m
    BY <1>2, <1>3, FS_Subset, FS_CardinalityType
  <1>5. Position(values, tails, k) \in 0..m
    BY <1>1, <1>2, <1>4
  <1> QED BY <1>2, <1>5 DEF X, m

LEMMA PatienceStepState ==
    ASSUME NEW values, NEW acc \in PileStates, NEW k \in Int
    PROVE  PatienceStep(values, acc, k) \in PileStates
  <1> DEFINE at == Position(values, acc.tails, k)
             tails == IF at = Len(acc.tails) THEN Append(acc.tails, k) ELSE [acc.tails EXCEPT ![at + 1] = k]
             last == IF at > 0 THEN acc.tails[at] ELSE 0
  <1>1. acc.tails \in Seq(Int) /\ acc.parent \in Seq(Int)
    BY DEF PileStates
  <1>2. at \in 0..Len(acc.tails)
    BY <1>1, PositionIs
  <1> HIDE DEF at
  <1>3. tails \in Seq(Int)
    <2>1. Append(acc.tails, k) \in Seq(Int)
      BY <1>1
    <2>2. [acc.tails EXCEPT ![at + 1] = k] \in Seq(Int)
      <3>1. Len(acc.tails) \in Nat /\ acc.tails \in [1..Len(acc.tails) -> Int]
        BY <1>1
      <3>2. [acc.tails EXCEPT ![at + 1] = k] \in [1..Len(acc.tails) -> Int]
        BY <3>1
      <3> HIDE DEF tails
      <3> QED BY <3>1, <3>2
    <2> QED BY <2>1, <2>2
  <1>4. last \in Int
    BY <1>1, <1>2
  <1>5. PatienceStep(values, acc, k) = [tails |-> tails, parent |-> Append(acc.parent, last)]
    BY Zenon DEF PatienceStep, at
  <1> HIDE DEF tails, last
  <1>6. Append(acc.parent, last) \in Seq(Int)
    BY <1>1, <1>4
  <1> QED BY <1>3, <1>5, <1>6 DEF PileStates

(* The fold takes the indices one after the other.                         *)
LEMMA PatienceSteps ==
    ASSUME NEW values \in Seq(Int)
    PROVE  \E c : Piling(c, values) /\ Patience(values) = c[Len(values)]
  <1> DEFINE n == Len(values)
             V == PileStates
             F == [p \in (1..n) \X V |-> PatienceStep(values, p[2], p[1])]
             q == [k \in DOMAIN values |-> k]
             Step(j) == [s \in SUBSET (DOMAIN q) |->
                            IF s = {} THEN NoPiles
                            ELSE PatienceStep(values, j[s \ {Largest(s)}], q[Largest(s)])]
             i == CHOOSE j : j = Step(j)
  <1>1. n \in Nat /\ DOMAIN values = 1..n
    OBVIOUS
  <1>2. DOMAIN q = 1..n /\ \A k \in 1..n : q[k] = k
    BY <1>1
  <1>3. Patience(values) = i[DOMAIN q]
    BY DEF Patience, FoldLeft, MapThenFoldSet, PatienceStep, NoPiles, Largest, Max
  <1> HIDE DEF q
  <1>4. F \in [(1..n) \X V -> V]
    <2> SUFFICES ASSUME NEW k \in 1..n, NEW acc \in V PROVE PatienceStep(values, acc, k) \in V
      OBVIOUS
    <2> QED BY PatienceStepState
  <1> HIDE DEF n
  <1>5. \A k \in 1..n, acc \in V : F[<<k, acc>>] = PatienceStep(values, acc, k)
    OBVIOUS
  <1> HIDE DEF F
  <1>6. NoPiles \in V
    BY DEF NoPiles, PileStates
  <1> HIDE DEF V
  <1>7. PICK h : Folds(h, F, NoPiles, n, V)
    BY <1>1, <1>4, <1>6, FoldExists
  <1>8. ASSUME NEW s \in SUBSET (1..n), s # {} PROVE Largest(s) \in 1..n /\ Largest(s) \in s
    <2>1. Largest(s) \in s
      BY <1>1, <1>8, LargestTaken
    <2> QED BY <2>1
  <1>9. h = Step(h)
    <2>1. ASSUME NEW s \in SUBSET (1..n)
          PROVE  h[s] = IF s = {} THEN NoPiles
                        ELSE PatienceStep(values, h[s \ {Largest(s)}], q[Largest(s)])
      <3>1. CASE s = {}
        BY <1>7, <3>1 DEF Folds
      <3>2. CASE s # {}
        <4>1. Largest(s) \in 1..n /\ s \ {Largest(s)} \in SUBSET (1..n)
          BY <1>8, <3>2
        <4>2. h[s \ {Largest(s)}] \in V /\ h[s] = F[<<Largest(s), h[s \ {Largest(s)}]>>]
          BY <1>7, <3>2, <4>1 DEF Folds
        <4> QED BY <1>2, <1>5, <3>2, <4>1, <4>2
      <3> QED BY <3>1, <3>2
    <2>2. h = [s \in SUBSET (1..n) |-> h[s]]
      BY <1>7 DEF Folds
    <2> QED BY <1>2, <2>1, <2>2
  <1> HIDE DEF Step
  <1>10. i = Step(i)
    BY <1>9, Zenon
  <1> HIDE DEF i
  <1>11. \A s \in SUBSET (1..n) :
            i[s] = IF s = {} THEN NoPiles ELSE PatienceStep(values, i[s \ {Largest(s)}], q[Largest(s)])
    BY <1>2, <1>10 DEF Step
  <1>12. i[1..0] = NoPiles
    <2>1. 1..0 = {} /\ {} \in SUBSET (1..n)
      OBVIOUS
    <2> QED BY <1>11, <2>1
  <1>13. ASSUME NEW k \in 1..n PROVE i[1..k] = PatienceStep(values, i[1..(k - 1)], k)
    <2>1. /\ 1..k \in SUBSET (1..n) /\ 1..k # {}
          /\ Largest(1..k) = k /\ (1..k) \ {k} = 1..(k - 1)
      BY <1>1, FirstNumbers
    <2>2. i[1..k] = PatienceStep(values, i[(1..k) \ {Largest(1..k)}], q[Largest(1..k)])
      BY <1>11, <2>1, Zenon
    <2> QED BY <1>2, <2>1, <2>2
  <1> DEFINE c == [k \in 0..n |-> i[1..k]]
  <1>14. \A k \in 1..n : c[k] = i[1..k] /\ c[k - 1] = i[1..(k - 1)]
    BY <1>1
  <1>15. c[0] = i[1..0] /\ c[n] = i[DOMAIN q]
    BY <1>1, <1>2
  <1> HIDE DEF c
  <1>16. c[0] = NoPiles /\ \A k \in 1..n : c[k] = PatienceStep(values, c[k - 1], k)
    BY <1>12, <1>13, <1>14, <1>15
  <1>17. Patience(values) = c[n]
    BY <1>3, <1>15
  <1> QED BY <1>16, <1>17 DEF Piling, n

(* Among tails that never fall, those before the place are the ones not    *)
(* above the value.                                                        *)
LEMMA PositionSplits ==
    ASSUME NEW values, NEW tails \in Seq(Int), NEW k, values[k] \in Int,
           \A j \in 1..Len(tails) : values[tails[j]] \in Int,
           \A i, j \in 1..Len(tails) : i < j => values[tails[i]] <= values[tails[j]]
    PROVE  \A j \in 1..Len(tails) : values[tails[j]] <= values[k] <=> j <= Position(values, tails, k)
  <1> DEFINE X == {j \in DOMAIN tails : values[tails[j]] <= values[k]}
             m == Len(tails)
             at == Position(values, tails, k)
  <1>1. m \in Nat /\ DOMAIN tails = 1..m
    OBVIOUS
  <1>2. at = Cardinality(X) /\ X \in SUBSET (1..m)
    BY PositionIs
  <1>3. \A j \in 1..m : j \in X <=> values[tails[j]] <= values[k]
    BY <1>1
  <1>4. ASSUME NEW j \in X, NEW i \in 1..m, i <= j PROVE i \in X
    <2>1. CASE i = j
      BY <2>1
    <2>2. CASE i # j
      <3>1. j \in 1..m /\ i < j
        BY <1>1, <1>2, <1>4, <2>2
      <3>2. values[tails[i]] <= values[tails[j]] /\ values[tails[j]] <= values[k]
        BY <1>3, <3>1
      <3>3. values[tails[i]] <= values[k]
        BY <3>1, <3>2
      <3> QED BY <1>3, <3>3
    <2> QED BY <2>1, <2>2
  <1> HIDE DEF X, at
  <1>5. at \in Nat /\ X = 1..at
    <2>1. CASE X = {}
      <3>1. at = 0
        BY <1>2, <2>1, FS_EmptySet
      <3> QED BY <2>1, <3>1
    <2>2. CASE X # {}
      <3> DEFINE M == Largest(X)
      <3>1. M \in X /\ \A y \in X : M >= y
        BY <1>1, <1>2, <2>2, LargestTaken
      <3> HIDE DEF M
      <3>2. M \in 1..m
        BY <1>2, <3>1
      <3>3. X = 1..M
        <4>1. \A i \in X : i \in 1..M
          BY <1>1, <1>2, <3>1, <3>2
        <4>2. ASSUME NEW i \in 1..M PROVE i \in X
          <5>1. i \in 1..m /\ i <= M
            BY <1>1, <3>2
          <5> QED BY <1>4, <3>1, <5>1
        <4> QED BY <4>1, <4>2
      <3>4. at = M
        BY <1>1, <1>2, <3>2, <3>3, FS_Interval
      <3> QED BY <3>2, <3>3, <3>4
    <2> QED BY <2>1, <2>2
  <1>6. \A j \in 1..m : j \in X <=> j <= at
    BY <1>1, <1>5
  <1> QED BY <1>3, <1>6 DEF at

\* The tails after x has gone to the place after at.
NextTails(tails, at, x) == IF at = Len(tails) THEN Append(tails, x) ELSE [tails EXCEPT ![at + 1] = x]

Moved(T, tails, at, x) ==
    /\ T \in Seq(Int) /\ Len(T) = (IF at = Len(tails) THEN Len(tails) + 1 ELSE Len(tails))
    /\ T[at + 1] = x
    /\ \A j \in 1..Len(tails) : j # at + 1 => T[j] = tails[j]

LEMMA NextTailsAre ==
    ASSUME NEW tails \in Seq(Int), NEW at \in 0..Len(tails), NEW x \in Int
    PROVE  Moved(NextTails(tails, at, x), tails, at, x)
  <1>1. Len(tails) \in Nat /\ tails \in [1..Len(tails) -> Int]
    OBVIOUS
  <1>2. CASE at = Len(tails)
    <2>1. NextTails(tails, at, x) = Append(tails, x)
      BY <1>2 DEF NextTails
    <2> QED BY <1>1, <1>2, <2>1 DEF Moved
  <1>3. CASE at # Len(tails)
    <2> DEFINE U == [tails EXCEPT ![at + 1] = x]
    <2>1. NextTails(tails, at, x) = U
      BY <1>3 DEF NextTails
    <2>2. at + 1 \in 1..Len(tails)
      <3>1. \A n \in Nat : \A a \in 0..n : a # n => a + 1 \in 1..n
        OBVIOUS
      <3>2. at \in 0..Len(tails)
        OBVIOUS
      <3> QED BY <1>1, <1>3, <3>1, <3>2, Zenon
    <2>3. U \in [1..Len(tails) -> Int] /\ U[at + 1] = x /\ \A j \in 1..Len(tails) : j # at + 1 => U[j] = tails[j]
      BY <1>1, <2>2
    <2> HIDE DEF U
    <2>4. U \in Seq(Int) /\ Len(U) = Len(tails)
      BY <1>1, <2>3
    <2> QED BY <1>3, <2>1, <2>3, <2>4 DEF Moved
  <1> QED BY <1>2, <1>3

\* After k indices: each of them has a level, the length of the longest run
\* that ends in it, and the tails are the lowest ends there are of each level.
Piles(values, p, k, level) ==
    /\ p.tails \in Seq(Int) /\ p.parent \in Seq(Int) /\ Len(p.parent) = k
    /\ \A i \in 1..Len(p.tails) : p.tails[i] \in 1..k /\ level[p.tails[i]] = i
    /\ \A i, j \in 1..Len(p.tails) : i < j => values[p.tails[i]] <= values[p.tails[j]]
    /\ \A j \in 1..k :
          /\ level[j] \in 1..Len(p.tails)
          /\ values[p.tails[level[j]]] <= values[j]
          /\ level[j] = 1 => p.parent[j] = 0
          /\ level[j] # 1 => /\ p.parent[j] \in 1..(j - 1)
                             /\ level[p.parent[j]] = level[j] - 1
                             /\ values[p.parent[j]] <= values[j]
    /\ \A i, j \in 1..k : i < j /\ values[i] <= values[j] => level[i] < level[j]

(* One index more.                                                         *)
LEMMA PilesGrow ==
    ASSUME NEW values \in Seq(Int), NEW k \in Nat, k + 1 \in 1..Len(values),
           NEW p, NEW level, Piles(values, p, k, level)
    PROVE  \E m : Piles(values, PatienceStep(values, p, k + 1), k + 1, m)
  <1> DEFINE x == k + 1
             T == p.tails
             L == Len(T)
             at == Position(values, T, x)
             U == NextTails(T, at, x)
             last == IF at > 0 THEN T[at] ELSE 0
             Q == Append(p.parent, last)
             m == [j \in 1..x |-> IF j = x THEN at + 1 ELSE level[j]]
  <1>1. /\ T \in Seq(Int) /\ p.parent \in Seq(Int) /\ Len(p.parent) = k /\ L \in Nat /\ x \in Int
        /\ \A i \in 1..L : T[i] \in 1..k /\ level[T[i]] = i
    BY DEF Piles
  <1>2. \A j \in 1..x : values[j] \in Int
    OBVIOUS
  <1>3. at \in 0..L
    BY <1>1, PositionIs
  <1>4. \A j \in 1..L : values[T[j]] <= values[x] <=> j <= at
    <2>1. ASSUME NEW j \in 1..L PROVE values[T[j]] \in Int
      <3>1. T[j] \in 1..k /\ 1..k \subseteq 1..x
        BY <1>1
      <3> HIDE DEF T, x
      <3> QED BY <1>2, <3>1
    <2>2. values[x] \in Int
      BY <1>2
    <2>3. \A i, j \in 1..L : i < j => values[T[i]] <= values[T[j]]
      BY DEF Piles
    <2> HIDE DEF T, x
    <2> QED BY <1>1, <2>1, <2>2, <2>3, PositionSplits
  <1>5. /\ U \in Seq(Int) /\ Len(U) = (IF at = L THEN L + 1 ELSE L) /\ U[at + 1] = x
        /\ \A j \in 1..L : j # at + 1 => U[j] = T[j]
    <2>1. Moved(U, T, at, x)
      <3> HIDE DEF at, x, T
      <3> QED BY <1>1, <1>3, NextTailsAre
    <2> HIDE DEF at, x, T, U
    <2> QED BY <2>1 DEF Moved, L
  <1>6. PatienceStep(values, p, x) = [tails |-> U, parent |-> Q]
    BY Zenon DEF PatienceStep, NextTails
  <1>7. at > 0 => /\ last = T[at] /\ last \in 1..k /\ level[last] = at /\ values[last] <= values[x]
    <2> SUFFICES ASSUME at > 0 PROVE last = T[at] /\ last \in 1..k /\ level[last] = at /\ values[last] <= values[x]
      OBVIOUS
    <2>1. last = T[at]
      OBVIOUS
    <2>2. at \in 1..L /\ at <= at
      BY <1>1, <1>3
    <2> HIDE DEF at, last, T, L, x
    <2>3. T[at] \in 1..k /\ level[T[at]] = at
      BY <1>1, <2>2
    <2>4. values[T[at]] <= values[x]
      BY <1>4, <2>2
    <2> QED BY <2>1, <2>3, <2>4
  <1>8. last \in Int /\ (at = 0 => last = 0)
    BY <1>1, <1>3
  <1>9. Q \in Seq(Int) /\ Len(Q) = x /\ Q[x] = last /\ \A j \in 1..k : Q[j] = p.parent[j]
    <2> DEFINE s == p.parent
    <2>1. s \in Seq(Int) /\ last \in Int /\ Len(s) = k /\ x = k + 1
      BY <1>1, <1>8
    <2>2. Q = Append(s, last)
      OBVIOUS
    <2> HIDE DEF s, last, Q, x
    <2>3. /\ Q \in Seq(Int) /\ Len(Q) = Len(s) + 1 /\ Q[Len(s) + 1] = last
          /\ \A j \in 1..Len(s) : Q[j] = s[j]
      BY <2>1, <2>2, AppendProperties
    <2> QED BY <2>1, <2>3 DEF s
  <1>10. m[x] = at + 1 /\ \A j \in 1..k : m[j] = level[j]
    BY <1>1
  <1> HIDE DEF T, L, at, U, last, Q, m
  <1>20. Len(U) \in Nat /\ at + 1 \in 1..Len(U) /\ \A j \in 1..L : j \in 1..Len(U)
    <2>1. Len(U) \in Nat
      BY <1>5
    <2>2. CASE at = L
      BY <1>1, <1>3, <1>5, <2>1, <2>2
    <2>3. CASE at # L
      BY <1>1, <1>3, <1>5, <2>1, <2>3
    <2> QED BY <2>2, <2>3
  <1>11. \A j \in 1..k : level[j] \in 1..L /\ values[T[level[j]]] <= values[j]
    BY DEF Piles, T, L
  <1>21. (\A j \in 1..k : j \in 1..x /\ values[j] \in Int) /\ \A i \in 1..L : values[T[i]] \in Int
    <2>1. \A j \in 1..k : j \in 1..x
      OBVIOUS
    <2> HIDE DEF x
    <2> QED BY <1>1, <1>2, <2>1
  <1>22. values[x] \in Int
    BY <1>2
  <1>12. \A i \in 1..Len(U) : i = at + 1 \/ (i \in 1..L /\ i # at + 1 /\ U[i] = T[i])
    BY <1>1, <1>3, <1>5
  <1>13. ASSUME NEW i \in 1..Len(U) PROVE U[i] \in 1..x /\ m[U[i]] = i
    <2>1. CASE i = at + 1
      <3>1. x \in 1..x
        OBVIOUS
      <3> HIDE DEF x
      <3> QED BY <1>5, <1>10, <2>1, <3>1
    <2>2. CASE i # at + 1
      <3>1. i \in 1..L /\ U[i] = T[i]
        BY <1>12, <2>2
      <3>2. T[i] \in 1..k /\ level[T[i]] = i
        BY <1>1, <3>1
      <3>3. U[i] \in 1..k /\ m[T[i]] = level[T[i]]
        BY <1>10, <3>1, <3>2
      <3> QED BY <1>21, <3>1, <3>2, <3>3
    <2> QED BY <2>1, <2>2
  <1>14. ASSUME NEW i \in 1..Len(U), NEW j \in 1..Len(U), i < j PROVE values[U[i]] <= values[U[j]]
    <2>1. CASE j = at + 1
      <3>1. i \in 1..L /\ U[i] = T[i] /\ i <= at
        BY <1>3, <1>12, <1>14, <2>1
      <3> QED BY <1>4, <1>5, <2>1, <3>1
    <2>2. CASE i = at + 1
      <3>1. j \in 1..L /\ U[j] = T[j] /\ ~(j <= at)
        BY <1>3, <1>12, <1>14, <2>2
      <3>2. ~(values[T[j]] <= values[x]) /\ values[T[j]] \in Int /\ values[x] \in Int
        BY <1>1, <1>2, <1>4, <3>1
      <3>3. values[x] <= values[T[j]]
        BY <3>2
      <3>4. U[i] = x
        BY <1>5, <2>2
      <3> QED BY <3>1, <3>3, <3>4
    <2>3. CASE i # at + 1 /\ j # at + 1
      <3>1. i \in 1..L /\ U[i] = T[i] /\ j \in 1..L /\ U[j] = T[j]
        BY <1>12, <2>3
      <3>2. values[T[i]] <= values[T[j]]
        BY <1>14, <3>1 DEF Piles, T, L
      <3> QED BY <3>1, <3>2
    <2> QED BY <2>1, <2>2, <2>3
  <1>15. ASSUME NEW j \in 1..x
         PROVE  /\ m[j] \in 1..Len(U)
                /\ values[U[m[j]]] <= values[j]
                /\ m[j] = 1 => Q[j] = 0
                /\ m[j] # 1 => Q[j] \in 1..(j - 1) /\ m[Q[j]] = m[j] - 1 /\ values[Q[j]] <= values[j]
    <2>1. CASE j = x
      <3>1. m[j] \in 1..Len(U)
        BY <1>10, <1>20, <2>1
      <3>2. values[U[m[j]]] <= values[j]
        BY <1>2, <1>5, <1>10, <2>1
      <3>3. m[j] = 1 => Q[j] = 0
        BY <1>3, <1>8, <1>9, <1>10, <2>1
      <3>4. ASSUME m[j] # 1 PROVE Q[j] \in 1..(j - 1) /\ m[Q[j]] = m[j] - 1 /\ values[Q[j]] <= values[j]
        <4>1. at > 0
          BY <1>3, <1>10, <2>1, <3>4
        <4>2. last \in 1..k /\ level[last] = at /\ values[last] <= values[x]
          BY <1>7, <4>1
        <4>3. Q[j] = last /\ m[last] = at
          BY <1>9, <1>10, <2>1, <4>2
        <4>4. m[j] - 1 = at /\ j - 1 = k
          BY <1>3, <1>10, <2>1 DEF x
        <4> QED BY <2>1, <4>2, <4>3, <4>4
      <3> QED BY <3>1, <3>2, <3>3, <3>4
    <2>2. CASE j # x
      <3>1. j \in 1..k /\ m[j] = level[j] /\ Q[j] = p.parent[j]
        <4>1. j \in 1..k
          BY <2>2 DEF x
        <4> QED BY <1>9, <1>10, <4>1
      <3>2. level[j] \in 1..L /\ values[T[level[j]]] <= values[j]
        BY <1>11, <3>1
      <3>3. m[j] \in 1..Len(U)
        BY <1>20, <3>1, <3>2
      <3>4. values[U[m[j]]] <= values[j]
        <4>1. CASE level[j] = at + 1
          <5>1. ~(values[T[level[j]]] <= values[x])
            BY <1>3, <1>4, <3>2, <4>1
          <5>2. values[T[level[j]]] \in Int /\ values[x] \in Int /\ values[j] \in Int
            BY <1>21, <1>22, <3>1, <3>2
          <5>3. values[x] <= values[j]
            BY <3>2, <5>1, <5>2
          <5> QED BY <1>5, <3>1, <4>1, <5>3
        <4>2. CASE level[j] # at + 1
          BY <1>5, <3>1, <3>2, <4>2
        <4> QED BY <4>1, <4>2
      <3>5. m[j] = 1 => Q[j] = 0
        BY <3>1 DEF Piles
      <3>6. ASSUME m[j] # 1 PROVE Q[j] \in 1..(j - 1) /\ m[Q[j]] = m[j] - 1 /\ values[Q[j]] <= values[j]
        <4>1. /\ p.parent[j] \in 1..(j - 1) /\ level[p.parent[j]] = level[j] - 1
              /\ values[p.parent[j]] <= values[j]
          BY <3>1, <3>6 DEF Piles
        <4>2. p.parent[j] \in 1..k
          BY <3>1, <4>1
        <4> QED BY <1>10, <3>1, <4>1, <4>2
      <3> QED BY <3>3, <3>4, <3>5, <3>6
    <2> QED BY <2>1, <2>2
  <1>16. ASSUME NEW i \in 1..x, NEW j \in 1..x, i < j, values[i] <= values[j] PROVE m[i] < m[j]
    <2>1. CASE j = x
      <3>1. i \in 1..k /\ m[i] = level[i]
        BY <1>10, <1>16, <2>1
      <3>2. level[i] \in 1..L /\ values[T[level[i]]] <= values[i]
        BY <1>11, <3>1
      <3>3. values[T[level[i]]] \in Int /\ values[i] \in Int /\ values[x] \in Int
        BY <1>21, <1>22, <3>1, <3>2
      <3>4. values[T[level[i]]] <= values[x]
        BY <1>16, <2>1, <3>2, <3>3
      <3>5. level[i] <= at
        BY <1>4, <3>2, <3>4
      <3> QED BY <1>3, <1>10, <2>1, <3>1, <3>2, <3>5
    <2>2. CASE j # x
      <3>1. i \in 1..k /\ j \in 1..k
        BY <1>16, <2>2
      <3>2. level[i] < level[j]
        BY <1>16, <3>1 DEF Piles
      <3> QED BY <1>10, <3>1, <3>2
    <2> QED BY <2>1, <2>2
  <1> DEFINE r == [tails |-> U, parent |-> Q]
  <1>17. r.tails = U /\ r.parent = Q
    OBVIOUS
  <1> HIDE DEF r
  <1>18. Piles(values, r, x, m)
    BY <1>5, <1>9, <1>13, <1>14, <1>15, <1>16, <1>17 DEF Piles
  <1>19. PatienceStep(values, p, k + 1) = r
    BY <1>6 DEF r
  <1> QED BY <1>18, <1>19

(* After all of them.                                                      *)
LEMMA PilesOf ==
    ASSUME NEW values \in Seq(Int)
    PROVE  \E level : Piles(values, Patience(values), Len(values), level)
  <1> DEFINE n == Len(values)
  <1>1. n \in Nat
    OBVIOUS
  <1>2. PICK c : Piling(c, values) /\ Patience(values) = c[n]
    BY PatienceSteps
  <1> DEFINE U == {k \in Nat : k \in 0..n => \E level : Piles(values, c[k], k, level)}
  <1>3. 0 \in U
    <2>1. c[0] = NoPiles
      BY <1>2 DEF Piling
    <2>2. Piles(values, NoPiles, 0, <<>>)
      BY DEF Piles, NoPiles
    <2> QED BY <2>1, <2>2
  <1>4. ASSUME NEW k \in 1..n, k - 1 \in U PROVE k \in U
    <2> DEFINE j == k - 1
    <2>1. j \in Nat /\ j \in 0..n /\ j + 1 = k /\ j + 1 \in 1..n
      BY <1>1
    <2>2. PICK level : Piles(values, c[j], j, level)
      BY <1>4, <2>1
    <2>3. c[k] = PatienceStep(values, c[j], k)
      BY <1>2 DEF Piling
    <2> HIDE DEF j, U
    <2>4. \E m : Piles(values, PatienceStep(values, c[j], j + 1), j + 1, m)
      BY <2>1, <2>2, PilesGrow
    <2>5. \E m : Piles(values, c[k], k, m)
      BY <2>1, <2>3, <2>4
    <2> QED BY <2>5 DEF U
  <1> HIDE DEF U
  <1>5. 0..n \subseteq U
    BY <1>1, <1>3, <1>4, BoundedInduction
  <1>6. n \in U /\ n \in 0..n
    BY <1>1, <1>5
  <1> HIDE DEF n
  <1>7. \E level : Piles(values, c[n], n, level)
    BY <1>6 DEF U
  <1> QED BY <1>2, <1>7 DEF n

\* What ends in k is followed back.
BackStep(run, parent, k) == IF k = 0 THEN {} ELSE {k} \cup run[parent[k]]
Followed(run, parent, n) == run = [k \in 0..n |-> BackStep(run, parent, k)]

LEMMA FollowedExists ==
    ASSUME NEW n \in Nat, NEW parent, \A k \in 1..n : parent[k] \in 0..(k - 1)
    PROVE  \E run : Followed(run, parent, n)
  <1> DEFINE U == {m \in Nat : m \in 0..n => \E f : \A k \in 0..m : f[k] = BackStep(f, parent, k)}
  <1>1. 0 \in U
    <2> DEFINE f == [k \in 0..0 |-> {}]
    <2>1. \A k \in 0..0 : f[k] = BackStep(f, parent, k)
      BY DEF BackStep
    <2> QED BY <2>1
  <1>2. ASSUME NEW m \in 1..n, m - 1 \in U PROVE m \in U
    <2>1. m - 1 \in 0..n
      OBVIOUS
    <2>2. PICK f : \A k \in 0..(m - 1) : f[k] = BackStep(f, parent, k)
      BY <1>2, <2>1
    <2> DEFINE g == [k \in 0..m |-> IF k = m THEN {m} \cup f[parent[m]] ELSE f[k]]
    <2>3. \A k \in 0..m : k = m \/ k \in 0..(m - 1)
      OBVIOUS
    <2>4. g[m] = {m} \cup f[parent[m]] /\ \A k \in 0..(m - 1) : g[k] = f[k]
      OBVIOUS
    <2> HIDE DEF g
    <2>5. g[m] = BackStep(g, parent, m)
      <3>1. parent[m] \in 0..(m - 1) /\ m # 0
        OBVIOUS
      <3>2. g[parent[m]] = f[parent[m]]
        BY <2>4, <3>1
      <3> QED BY <2>4, <3>1, <3>2 DEF BackStep
    <2>6. ASSUME NEW k \in 0..(m - 1) PROVE g[k] = BackStep(g, parent, k)
      <3>1. CASE k = 0
        BY <2>2, <2>4, <3>1 DEF BackStep
      <3>2. CASE k # 0
        <4>1. k \in 1..n /\ parent[k] \in 0..(m - 1)
          BY <3>2
        <4>2. g[parent[k]] = f[parent[k]] /\ g[k] = f[k]
          BY <2>4, <4>1
        <4>3. f[k] = {k} \cup f[parent[k]]
          BY <2>2, <3>2 DEF BackStep
        <4> QED BY <3>2, <4>2, <4>3 DEF BackStep
      <3> QED BY <3>1, <3>2
    <2>7. \A k \in 0..m : g[k] = BackStep(g, parent, k)
      BY <2>3, <2>5, <2>6
    <2> QED BY <2>7
  <1> HIDE DEF U
  <1>3. 0..n \subseteq U
    BY <1>1, <1>2, BoundedInduction
  <1>4. n \in U /\ n \in 0..n
    BY <1>3
  <1>5. PICK f : \A k \in 0..n : f[k] = BackStep(f, parent, k)
    BY <1>4 DEF U
  <1> DEFINE run == [k \in 0..n |-> f[k]]
  <1>6. \A k \in 0..n : run[k] = f[k]
    OBVIOUS
  <1>7. run = [k \in 0..n |-> run[k]]
    OBVIOUS
  <1> HIDE DEF run
  <1>8. ASSUME NEW k \in 0..n PROVE run[k] = BackStep(run, parent, k)
    <2>1. k # 0 => parent[k] \in 0..n
      <3> SUFFICES ASSUME k # 0 PROVE parent[k] \in 0..n
        OBVIOUS
      <3>1. k \in 1..n
        OBVIOUS
      <3>2. parent[k] \in 0..(k - 1)
        BY <3>1
      <3> QED BY <3>1, <3>2
    <2>2. k # 0 => run[parent[k]] = f[parent[k]]
      BY <1>6, <2>1
    <2> QED BY <1>5, <1>6, <2>2 DEF BackStep
  <1>9. run = [k \in 0..n |-> BackStep(run, parent, k)]
    BY <1>7, <1>8, Zenon
  <1> QED BY <1>9 DEF Followed

\* The values at the places of G never fall.
Ascends(values, G) == \A i, j \in G : i < j => values[i] <= values[j]

\* A run that ends in k, as long as its level.
RunTo(r, values, level, k) ==
    /\ r \in SUBSET (1..k) /\ k \in r /\ IsFiniteSet(r) /\ Cardinality(r) = level[k]
    /\ Ascends(values, r) /\ \A i \in r : values[i] <= values[k]

LEMMA FollowedRuns ==
    ASSUME NEW values \in Seq(Int), NEW p, NEW level, Piles(values, p, Len(values), level),
           NEW run, Followed(run, p.parent, Len(values)), NEW k \in 1..Len(values)
    PROVE  RunTo(run[k], values, level, k)
  <1> DEFINE n == Len(values)
             U == {m \in Nat : \A j \in 1..m : j \in 1..n => RunTo(run[j], values, level, j)}
  <1>1. n \in Nat /\ \A j \in 1..n : values[j] \in Int
    OBVIOUS
  <1>20. \A j \in 0..n : run[j] = BackStep(run, p.parent, j)
    <2> DEFINE g == [j \in 0..n |-> BackStep(run, p.parent, j)]
    <2>1. run = g
      BY DEF Followed
    <2>2. \A j \in 0..n : g[j] = BackStep(run, p.parent, j)
      OBVIOUS
    <2> HIDE DEF g
    <2> QED BY <2>1, <2>2
  <1>2. \A j \in 1..n : run[j] = {j} \cup run[p.parent[j]]
    <2> TAKE j \in 1..n
    <2>1. j # 0 /\ j \in 0..n
      BY <1>1
    <2>2. BackStep(run, p.parent, j) = {j} \cup run[p.parent[j]]
      BY <2>1, Zenon DEF BackStep
    <2> QED BY <1>20, <2>1, <2>2, Zenon
  <1>3. run[0] = {}
    <2>1. 0 \in 0..n
      BY <1>1
    <2>2. BackStep(run, p.parent, 0) = {}
      BY Zenon DEF BackStep
    <2> QED BY <1>20, <2>1, <2>2, Zenon
  <1>4. ASSUME NEW j \in 1..n
        PROVE  /\ level[j] \in Nat /\ level[j] >= 1 /\ (level[j] = 1 => p.parent[j] = 0)
               /\ level[j] # 1 => p.parent[j] \in 1..(j - 1) /\ level[p.parent[j]] = level[j] - 1
                                  /\ values[p.parent[j]] <= values[j]
    <2>1. level[j] \in 1..Len(p.tails) /\ p.tails \in Seq(Int)
      BY DEF Piles
    <2>2. (level[j] = 1 => p.parent[j] = 0)
          /\ (level[j] # 1 => p.parent[j] \in 1..(j - 1) /\ level[p.parent[j]] = level[j] - 1
                              /\ values[p.parent[j]] <= values[j])
      BY DEF Piles
    <2> QED BY <2>1, <2>2
  <1> HIDE DEF n
  <1>5. 0 \in U
    OBVIOUS
  <1>6. ASSUME NEW m \in Nat, m \in U PROVE m + 1 \in U
    <2> DEFINE j == m + 1
    <2>1. SUFFICES ASSUME j \in 1..n PROVE RunTo(run[j], values, level, j)
      BY <1>6
    <2>2. run[j] = {j} \cup run[p.parent[j]] /\ j \in Nat /\ j - 1 = m
      BY <1>2, <2>1
    <2>3. CASE level[j] = 1
      <3>1. run[j] = {j}
        BY <1>3, <1>4, <2>1, <2>2, <2>3
      <3>2. IsFiniteSet({j}) /\ Cardinality({j}) = 1
        BY FS_Singleton
      <3>3. values[j] \in Int
        BY <1>1, <2>1
      <3>4. Ascends(values, {j})
        BY <2>2 DEF Ascends
      <3> HIDE DEF j
      <3>5. \A h \in {j} : values[h] <= values[j]
        BY <3>3
      <3>6. {j} \in SUBSET (1..j) /\ j \in {j}
        BY <2>2
      <3>7. RunTo({j}, values, level, j)
        BY <2>3, <3>2, <3>4, <3>5, <3>6 DEF RunTo
      <3> QED BY <3>1, <3>7
    <2>4. CASE level[j] # 1
      <3> DEFINE i == p.parent[j]
                 r == run[i]
      <3>1. i \in 1..m /\ level[i] = level[j] - 1 /\ values[i] <= values[j]
        BY <1>4, <2>1, <2>2, <2>4
      <3>2. i \in 1..n
        BY <1>1, <2>1, <3>1
      <3>3. RunTo(r, values, level, i)
        BY <1>6, <3>1, <3>2
      <3> HIDE DEF i
      <3>4. run[j] = {j} \cup r
        BY <2>2 DEF i
      <3> HIDE DEF r
      <3>5. r \in SUBSET (1..i) /\ IsFiniteSet(r) /\ Cardinality(r) = level[i] /\ Ascends(values, r)
            /\ \A h \in r : values[h] <= values[i]
        BY <3>3 DEF RunTo
      <3>6. \A h \in r : h \in 1..n /\ h < j /\ values[h] \in Int
        BY <1>1, <3>1, <3>2, <3>5
      <3>7. \A h \in r : values[h] <= values[j]
        <4> SUFFICES ASSUME NEW h \in r PROVE values[h] <= values[j]
          OBVIOUS
        <4>1. values[h] \in Int /\ values[i] \in Int /\ values[j] \in Int
          BY <1>1, <2>1, <3>2, <3>6
        <4> QED BY <3>1, <3>5, <4>1
      <3>8. IsFiniteSet(r \cup {j}) /\ Cardinality(r \cup {j}) = level[j]
        <4>1. j \notin r
          BY <3>6
        <4>2. Cardinality(r \cup {j}) = Cardinality(r) + 1 /\ IsFiniteSet(r \cup {j})
          BY <3>5, <4>1, FS_AddElement
        <4>3. level[j] \in Nat
          BY <1>4, <2>1
        <4> QED BY <3>1, <3>5, <4>2, <4>3
      <3>9. run[j] \in SUBSET (1..j) /\ j \in run[j]
        BY <2>2, <3>4, <3>6
      <3>10. Ascends(values, run[j])
        <4> SUFFICES ASSUME NEW a \in run[j], NEW b \in run[j], a < b PROVE values[a] <= values[b]
          BY DEF Ascends
        <4>1. CASE b = j
          <5>1. a \in r
            BY <2>2, <3>4, <4>1
          <5> QED BY <3>7, <4>1, <5>1
        <4>2. CASE b # j
          <5>1. b \in r
            BY <3>4, <4>2
          <5>2. a # j
            BY <2>2, <3>6, <5>1
          <5>3. a \in r
            BY <3>4, <5>2
          <5> QED BY <3>5, <5>1, <5>3 DEF Ascends
        <4> QED BY <4>1, <4>2
      <3>11. run[j] = r \cup {j} /\ values[j] \in Int
        BY <1>1, <2>1, <3>4
      <3> HIDE DEF j
      <3>12. \A a \in run[j] : values[a] <= values[j]
        BY <3>7, <3>11
      <3> QED BY <3>8, <3>9, <3>10, <3>11, <3>12 DEF RunTo
    <2> QED BY <2>3, <2>4
  <1> HIDE DEF U
  <1>7. Nat \subseteq U
    BY <1>5, <1>6, NatSetInduction
  <1>8. k \in Nat /\ k \in 1..k /\ k \in 1..n
    BY DEF n
  <1>9. k \in U
    BY <1>7, <1>8
  <1>10. \A j \in 1..k : j \in 1..n => RunTo(run[j], values, level, j)
    BY <1>9 DEF U
  <1>11. k \in 1..k => (k \in 1..n => RunTo(run[k], values, level, k))
    BY <1>10, Zenon
  <1> HIDE DEF n
  <1>12. RunTo(run[k], values, level, k)
    BY <1>8, <1>11, Zenon
  <1> QED BY <1>12

\* K is a largest set of places where the values never fall.
LongestRun(values, K) ==
    /\ K \in SUBSET (1..Len(values)) /\ IsFiniteSet(K) /\ Ascends(values, K)
    /\ \A G \in SUBSET (1..Len(values)) : Ascends(values, G) => Cardinality(G) <= Cardinality(K)

(* No run is longer than there are levels.                                 *)
LEMMA LevelsBound ==
    ASSUME NEW values \in Seq(Int), NEW p, NEW level, Piles(values, p, Len(values), level),
           NEW G \in SUBSET (1..Len(values)), Ascends(values, G)
    PROVE  Cardinality(G) <= Len(p.tails)
  <1> DEFINE m == Len(p.tails)
             n == Len(values)
             T == 1..m
             f == [g \in G |-> level[g]]
  <1>1. n \in Nat /\ m \in Nat /\ \A j \in 1..n : level[j] \in 1..m
    BY DEF Piles
  <1>2. \A i, j \in 1..n : i < j /\ values[i] <= values[j] => level[i] < level[j]
    BY DEF Piles
  <1>5. f \in [G -> T] /\ \A g \in G : f[g] = level[g]
    BY <1>1
  <1> HIDE DEF m, n, f
  <1>3. IsFiniteSet(T) /\ Cardinality(T) = m /\ IsFiniteSet(1..n)
    BY <1>1, FS_Interval
  <1>4. IsFiniteSet(G)
    BY <1>3, FS_Subset DEF n
  <1> HIDE DEF T
  <1>6. Cardinality(G) \in Nat
    BY <1>4, FS_CardinalityType
  <1>7. \A x, y \in G : f[x] = f[y] => x = y
    <2> SUFFICES ASSUME NEW x \in G, NEW y \in G, f[x] = f[y] PROVE x = y
      OBVIOUS
    <2>1. x \in 1..n /\ y \in 1..n /\ level[x] = level[y]
      BY <1>5 DEF n
    <2>2. level[x] \in Int
      BY <1>1, <2>1
    <2>3. ~(x < y)
      <3> SUFFICES ASSUME x < y PROVE FALSE
        OBVIOUS
      <3>1. values[x] <= values[y]
        BY DEF Ascends
      <3> QED BY <1>2, <2>1, <2>2, <3>1
    <2>4. ~(y < x)
      <3> SUFFICES ASSUME y < x PROVE FALSE
        OBVIOUS
      <3>1. values[y] <= values[x]
        BY DEF Ascends
      <3> QED BY <1>2, <2>1, <2>2, <3>1
    <2> QED BY <2>1, <2>3, <2>4
  <1>9. f \in Injection(G, T)
    BY <1>5, <1>7 DEF Injection, IsInjective
  <1>8. Cardinality(G) <= m
    BY <1>3, <1>9, FS_Injection
  <1> QED BY <1>8 DEF m

(* What longest_non_decreasing returns is one.                             *)
LEMMA LongestIs ==
    ASSUME NEW values \in Seq(Int)
    PROVE  LongestRun(values, LongestNonDecreasing(values))
  <1> DEFINE n == Len(values)
             p == Patience(values)
             run == CHOOSE f : f = [k \in 0..n |-> IF k = 0 THEN {} ELSE {k} \cup f[p.parent[k]]]
             K == LongestNonDecreasing(values)
  <1>1. PICK level : Piles(values, p, n, level)
    BY PilesOf
  <1>2. n \in Nat /\ p.tails \in Seq(Int) /\ Len(p.tails) \in Nat
    BY <1>1 DEF Piles
  <1>3. K = IF values = <<>> THEN {} ELSE run[Last(p.tails)]
    BY Zenon DEF LongestNonDecreasing
  <1> HIDE DEF p
  <1>4. Followed(run, p.parent, n)
    <2>1. \A k \in 1..n : p.parent[k] \in 0..(k - 1)
      <3> TAKE k \in 1..n
      <3>1. (level[k] = 1 => p.parent[k] = 0) /\ (level[k] # 1 => p.parent[k] \in 1..(k - 1))
        BY <1>1 DEF Piles
      <3> QED BY <1>2, <3>1
    <2> HIDE DEF n
    <2>2. PICK f : Followed(f, p.parent, n)
      BY <1>2, <2>1, FollowedExists
    <2>3. f = [k \in 0..n |-> IF k = 0 THEN {} ELSE {k} \cup f[p.parent[k]]]
      BY <2>2 DEF Followed, BackStep
    <2>4. run = [k \in 0..n |-> IF k = 0 THEN {} ELSE {k} \cup run[p.parent[k]]]
      BY <2>3, Zenon
    <2> HIDE DEF run
    <2> QED BY <2>4 DEF Followed, BackStep
  <1> HIDE DEF run, K
  <1>5. CASE values = <<>>
    <2>1. K = {} /\ 1..n = {}
      BY <1>3, <1>5
    <2>2. IsFiniteSet({}) /\ Cardinality({}) = 0
      BY FS_EmptySet
    <2>3. Ascends(values, {})
      BY DEF Ascends
    <2>4. \A G \in SUBSET (1..n) : G = {}
      BY <2>1
    <2>5. ASSUME NEW G \in SUBSET (1..n) PROVE Cardinality(G) <= Cardinality(K)
      <3>1. G = {}
        BY <2>4
      <3>2. Cardinality(G) = 0 /\ Cardinality(K) = 0
        BY <2>1, <2>2, <3>1
      <3> QED BY <3>2
    <2> QED BY <2>1, <2>2, <2>3, <2>5 DEF LongestRun, K
  <1>6. CASE values # <<>>
    <2> DEFINE m == Len(p.tails)
               e == p.tails[m]
    <2>1. 1 \in 1..n
      BY <1>6
    <2>2. \A j \in 1..n : level[j] \in 1..m
      BY <1>1 DEF Piles
    <2>3. m \in Nat /\ m \in 1..m
      BY <1>2, <2>1, <2>2
    <2>4. e \in 1..n /\ level[e] = m
      BY <1>1, <2>3 DEF Piles
    <2>5. K = run[e]
      BY <1>3, <1>6 DEF Last
    <2>6. RunTo(run[e], values, level, e)
      <3> HIDE DEF e
      <3> QED BY <1>1, <1>4, <2>4, FollowedRuns
    <2> HIDE DEF e
    <2>7. K \in SUBSET (1..e) /\ IsFiniteSet(K) /\ Cardinality(K) = m /\ Ascends(values, K)
      BY <2>4, <2>5, <2>6 DEF RunTo
    <2>8. K \in SUBSET (1..n)
      BY <1>2, <2>4, <2>7
    <2>9. \A G \in SUBSET (1..n) : Ascends(values, G) => Cardinality(G) <= m
      BY <1>1, LevelsBound
    <2> QED BY <2>7, <2>8, <2>9 DEF LongestRun, K
  <1> QED BY <1>5, <1>6

-----------------------------------------------------------------------------
\* The corrections of a source

(* As many records as places.                                              *)
LEMMA PlacesCounted ==
    ASSUME NEW S, IsFiniteSet(S), NEW es, Places(es, S), NEW A \in SUBSET (1..Len(es))
    PROVE  Cardinality({es[k] : k \in A}) = Cardinality(A)
  <1> DEFINE B == {es[k] : k \in A}
             f == [k \in A |-> es[k]]
             n == Len(es)
  <1>1. n \in Nat /\ (\A k \in 1..n : es[k] \in S) /\ \A j, k \in 1..n : es[j] = es[k] => j = k
    BY DEF Places
  <1>2. f \in [A -> B] /\ \A k \in A : f[k] = es[k]
    OBVIOUS
  <1>3. \A b \in B : \E k \in A : f[k] = b
    BY <1>2
  <1>4. B \subseteq S
    BY <1>1
  <1> HIDE DEF f, B
  <1>5. \A j, k \in A : f[j] = f[k] => j = k
    BY <1>1, <1>2
  <1>6. f \in Injection(A, B) /\ f \in Surjection(A, B)
    BY <1>2, <1>3, <1>5 DEF Injection, IsInjective, Surjection
  <1>7. IsFiniteSet(B)
    BY <1>4, FS_Subset
  <1>8. Cardinality(A) = Cardinality(B)
    BY <1>6, <1>7, FS_Injection
  <1> QED BY <1>8 DEF B

\* The records are in the order of their numbers.
InOrderOf(rs) == \A a, b \in rs : a.src = b.src /\ a.seq < b.seq => a.t <= b.t

\* What monotonic_corrections takes from one source.
Corrected(records, s) ==
    LET es == BySeq({r \in records : r.src = s})
        keep == LongestNonDecreasing([k \in DOMAIN es |-> es[k].t])
    IN {es[k] : k \in DOMAIN es \ keep}

(* It is as little as can be taken.                                        *)
LEMMA CorrectedIs ==
    ASSUME NEW S, Keyed(S), NEW s
    PROVE  /\ Corrected(S, s) \in SUBSET Of(S, s)
           /\ InOrderOf(Of(S, s) \ Corrected(S, s))
           /\ \A gone \in SUBSET Of(S, s) :
                 InOrderOf(Of(S, s) \ gone) => Cardinality(Corrected(S, s)) <= Cardinality(gone)
  <1> DEFINE O == Of(S, s)
             es == BySeq(O)
             n == Len(es)
             values == [k \in DOMAIN es |-> es[k].t]
             K == LongestNonDecreasing(values)
             C == {es[k] : k \in (1..n) \ K}
  <1>1. Keyed(O) /\ \A r \in O : r.src = s
    BY OfKeyed
  <1>2. IsFiniteSet(O) /\ \A r \in O : r.seq \in Int /\ r.t \in Int
    BY <1>1 DEF Keyed, WellFormed
  <1>3. Places(es, O) /\ \A j, k \in 1..n : j < k => es[j].seq < es[k].seq
    <2> HIDE DEF O
    <2> QED BY <1>1, BySeqPlaces
  <1>4. Corrected(S, s) = C
    <2>1. DOMAIN es = 1..n
      BY <1>3 DEF Places
    <2>2. O = {r \in S : r.src = s}
      BY DEF Of
    <2>3. Corrected(S, s) = {es[k] : k \in DOMAIN es \ K}
      BY <2>2, Zenon DEF Corrected
    <2> HIDE DEF es, K
    <2> QED BY <2>1, <2>3
  <1> HIDE DEF O, es
  <1>5. /\ n \in Nat /\ DOMAIN es = 1..n /\ (\A k \in 1..n : es[k] \in O)
        /\ (\A j, k \in 1..n : es[j] = es[k] => j = k) /\ \A r \in O : \E k \in 1..n : es[k] = r
    BY <1>3 DEF Places
  <1>6. values \in [1..n -> Int] /\ \A k \in 1..n : values[k] = es[k].t
    BY <1>2, <1>5
  <1>7. values \in Seq(Int) /\ Len(values) = n
    <2> HIDE DEF values
    <2> QED BY <1>5, <1>6
  <1> HIDE DEF values
  <1>8. LongestRun(values, K)
    BY <1>7, LongestIs
  <1> HIDE DEF K
  <1>9. /\ K \in SUBSET (1..n) /\ IsFiniteSet(K) /\ Ascends(values, K)
        /\ \A G \in SUBSET (1..n) : Ascends(values, G) => Cardinality(G) <= Cardinality(K)
    BY <1>7, <1>8 DEF LongestRun
  <1> HIDE DEF n
  <1>10. C \in SUBSET O
    BY <1>5
  <1>11. InOrderOf(O \ C)
    <2> SUFFICES ASSUME NEW a \in O \ C, NEW b \in O \ C, a.seq < b.seq PROVE a.t <= b.t
      BY DEF InOrderOf
    <2>1. PICK i \in 1..n : es[i] = a
      BY <1>5
    <2>2. PICK j \in 1..n : es[j] = b
      BY <1>5
    <2>3. i \in K /\ j \in K
      BY <2>1, <2>2
    <2>4. i < j
      <3>1. a.seq \in Int /\ b.seq \in Int
        BY <1>2
      <3>2. ~(j < i)
        <4> SUFFICES ASSUME j < i PROVE FALSE
          OBVIOUS
        <4>1. b.seq < a.seq
          BY <1>3, <2>1, <2>2 DEF n
        <4> QED BY <3>1, <4>1
      <3>3. i # j
        BY <2>1, <2>2, <3>1
      <3> QED BY <3>2, <3>3
    <2>5. values[i] <= values[j]
      BY <1>9, <2>3, <2>4 DEF Ascends
    <2> QED BY <1>6, <2>1, <2>2, <2>5
  <1>12. ASSUME NEW gone \in SUBSET O, InOrderOf(O \ gone) PROVE Cardinality(C) <= Cardinality(gone)
    <2> DEFINE G == {k \in 1..n : es[k] \notin gone}
               H == (1..n) \ G
    <2>1. Ascends(values, G)
      <3> SUFFICES ASSUME NEW i \in G, NEW j \in G, i < j PROVE values[i] <= values[j]
        BY DEF Ascends
      <3>1. es[i] \in O \ gone /\ es[j] \in O \ gone
        BY <1>5
      <3>2. es[i].seq < es[j].seq
        BY <1>3 DEF n
      <3>3. es[i].src = es[j].src
        BY <1>1, <3>1
      <3>4. es[i].t <= es[j].t
        BY <1>12, <3>1, <3>2, <3>3 DEF InOrderOf
      <3> QED BY <1>6, <3>4
    <2>2. Cardinality(G) <= Cardinality(K)
      BY <1>9, <2>1
    <2>3. gone = {es[k] : k \in H}
      <3>1. \A r \in gone : \E k \in H : es[k] = r
        BY <1>5
      <3>2. \A k \in H : es[k] \in gone
        OBVIOUS
      <3> QED BY <3>1, <3>2
    <2>4. G \in SUBSET (1..n)
      OBVIOUS
    <2> HIDE DEF G
    <2>5. Cardinality(gone) = Cardinality(H) /\ Cardinality(C) = Cardinality((1..n) \ K)
      BY <1>2, <1>3, <2>3, PlacesCounted DEF n
    <2>6. IsFiniteSet(1..n) /\ Cardinality(1..n) = n
      BY <1>5, FS_Interval
    <2>7. Cardinality(H) = n - Cardinality(G) /\ IsFiniteSet(G) /\ Cardinality(G) \in Nat
      <3>1. IsFiniteSet(G) /\ Cardinality(G) \in Nat
        BY <2>4, <2>6, FS_Subset, FS_CardinalityType
      <3>2. (1..n) \cap G = G
        BY <2>4
      <3>3. Cardinality((1..n) \ G) = Cardinality(1..n) - Cardinality((1..n) \cap G)
        BY <2>6, FS_Difference
      <3> QED BY <2>6, <3>1, <3>2, <3>3
    <2>8. Cardinality((1..n) \ K) = n - Cardinality(K) /\ Cardinality(K) \in Nat
      <3>1. Cardinality(K) \in Nat
        BY <1>9, FS_CardinalityType
      <3>2. (1..n) \cap K = K
        BY <1>9
      <3>3. Cardinality((1..n) \ K) = Cardinality(1..n) - Cardinality((1..n) \cap K)
        BY <2>6, FS_Difference
      <3> QED BY <2>6, <3>1, <3>2, <3>3
    <2> QED BY <1>5, <2>2, <2>5, <2>7, <2>8
  <1> HIDE DEF C
  <1> QED BY <1>4, <1>10, <1>11, <1>12 DEF O

(* And the corrections of one source are those of the whole.               *)
LEMMA CorrectionsOf ==
    ASSUME NEW S, Keyed(S)
    PROVE  Corrections(S) \in SUBSET S /\ \A s : Of(Corrections(S), s) = Corrected(S, s)
  <1> DEFINE D == {r.src : r \in S}
             C == UNION {Corrected(S, s) : s \in D}
  <1>1. Corrections(S) = C
    BY Zenon DEF Corrections, Corrected
  <1>2. \A s : Corrected(S, s) \in SUBSET Of(S, s)
    BY CorrectedIs
  <1>3. \A s : \A r \in Corrected(S, s) : r \in S /\ r.src = s
    BY <1>2 DEF Of
  <1>4. C \in SUBSET S
    BY <1>3
  <1>5. ASSUME NEW s PROVE Of(C, s) = Corrected(S, s)
    <2>1. ASSUME NEW r \in Of(C, s) PROVE r \in Corrected(S, s)
      <3>1. r \in C /\ r.src = s
        BY DEF Of
      <3>2. PICK d \in D : r \in Corrected(S, d)
        BY <3>1
      <3>3. d = s
        BY <1>3, <3>1, <3>2
      <3> QED BY <3>2, <3>3
    <2>2. ASSUME NEW r \in Corrected(S, s) PROVE r \in Of(C, s)
      <3>1. r \in S /\ r.src = s
        BY <1>3
      <3>2. s \in D
        BY <3>1
      <3>3. r \in C
        BY <3>2
      <3> HIDE DEF C
      <3> QED BY <3>1, <3>3 DEF Of
    <2> QED BY <2>1, <2>2
  <1> HIDE DEF C
  <1> QED BY <1>1, <1>4, <1>5

(* They leave every source in order, and take nothing from what is.        *)
LEMMA CorrectionsOrder ==
    ASSUME NEW S, Keyed(S)
    PROVE  InOrderOf(S \ Corrections(S)) /\ (InOrderOf(S) <=> Corrections(S) = {})
  <1> DEFINE C == Corrections(S)
  <1>1. C \in SUBSET S /\ \A s : Of(C, s) = Corrected(S, s)
    BY CorrectionsOf
  <1> HIDE DEF C
  <1>2. InOrderOf(S \ C)
    <2> SUFFICES ASSUME NEW a \in S \ C, NEW b \in S \ C, a.src = b.src, a.seq < b.seq PROVE a.t <= b.t
      BY DEF InOrderOf
    <2> DEFINE s == a.src
    <2>1. a \in Of(S, s) \ Of(C, s) /\ b \in Of(S, s) \ Of(C, s)
      BY DEF Of
    <2>2. InOrderOf(Of(S, s) \ Of(C, s))
      <3>1. InOrderOf(Of(S, s) \ Corrected(S, s))
        BY CorrectedIs
      <3> QED BY <1>1, <3>1
    <2> HIDE DEF s
    <2> QED BY <2>1, <2>2 DEF InOrderOf
  <1>3. ASSUME InOrderOf(S) PROVE C = {}
    <2> SUFFICES ASSUME NEW r \in C PROVE FALSE
      OBVIOUS
    <2> DEFINE s == r.src
               O == Of(S, s)
    <2>1. r \in Corrected(S, s)
      BY <1>1 DEF Of
    <2>2. InOrderOf(O \ {})
      <3>1. O \in SUBSET S
        BY DEF Of
      <3> QED BY <1>3, <3>1 DEF InOrderOf
    <2>3. Cardinality(Corrected(S, s)) <= Cardinality({}) /\ Corrected(S, s) \in SUBSET O
      BY <2>2, CorrectedIs
    <2>4. IsFiniteSet(O)
      BY OfKeyed DEF Keyed
    <2> HIDE DEF s, O
    <2>5. IsFiniteSet(Corrected(S, s))
      BY <2>3, <2>4, FS_Subset
    <2>6. Cardinality(Corrected(S, s)) \in Nat /\ Cardinality({}) = 0
      BY <2>5, FS_CardinalityType, FS_EmptySet
    <2>7. Cardinality(Corrected(S, s)) = 0
      BY <2>3, <2>6
    <2>8. Corrected(S, s) = {}
      BY <2>5, <2>7, FS_EmptySet
    <2> QED BY <2>1, <2>8
  <1>4. ASSUME C = {} PROVE InOrderOf(S)
    BY <1>2, <1>4
  <1> QED BY <1>2, <1>3, <1>4 DEF C

-----------------------------------------------------------------------------
\* Bellman-Ford

(* The least of a set of numbers that has a lower bound.                   *)
LEMMA LowestTaken ==
    ASSUME NEW T \in SUBSET Int, T # {}, NEW b \in Int, \A y \in T : b <= y
    PROVE  Min(T) \in T /\ \A y \in T : Min(T) <= y
  <1> DEFINE M == {m \in Nat : \E x \in T : m = x - b}
  <1>1. M \in SUBSET Nat /\ M # {}
    <2>1. PICK x \in T : TRUE
      OBVIOUS
    <2>2. x - b \in M
      BY <2>1
    <2> QED BY <2>2
  <1>2. PICK m \in M : \A k \in M : m <= k
    BY <1>1, LeastNat
  <1>3. PICK x \in T : m = x - b
    BY <1>2
  <1>4. ASSUME NEW y \in T PROVE x <= y
    <2>1. y - b \in M
      OBVIOUS
    <2>2. m <= y - b
      BY <1>2, <2>1
    <2> QED BY <1>3, <2>2
  <1> QED BY <1>4, Zenon DEF Min

LEMMA RoundIs ==
    ASSUME NEW L \in Nat, NEW E, Edged(E, L), NEW d \in [1..(L + 1) -> Int]
    PROVE  Relaxed(Round(d, E), d, E, L)
  <1> DEFINE N == L + 1
             T(m) == {d[m]} \cup {d[e.u + 1] + e.w : e \in {x \in E : x.v + 1 = m}}
             r == [m \in 1..N |-> Min(T(m))]
  <1>11. N \in Nat /\ d \in [1..N -> Int]
    OBVIOUS
  <1>1. PICK lo \in Int, hi \in Int : \A k \in 1..N : lo <= d[k] /\ d[k] <= hi
    <2> HIDE DEF N
    <2> QED BY <1>11, ValuesBounded
  <1>2. PICK W \in Int : \A c \in E : W <= c.w
    BY DEF Edged
  <1>3. \A c \in E : c.u + 1 \in 1..N /\ c.v + 1 \in 1..N /\ c.w \in Int
    <2>1. \A c \in E : c.u \in 0..L /\ c.v \in 0..L /\ c.w \in Int
      BY DEF Edged
    <2>2. \A j \in 0..L : j + 1 \in 1..N
      OBVIOUS
    <2> HIDE DEF N
    <2> QED BY <2>1, <2>2
  <1>4. ASSUME NEW m \in 1..N
        PROVE  Min(T(m)) \in T(m) /\ \A y \in T(m) : Min(T(m)) <= y
    <2> DEFINE b == IF W <= 0 THEN lo + W ELSE lo
    <2>1. b \in Int /\ b <= lo /\ b <= lo + W
      OBVIOUS
    <2> HIDE DEF b
    <2>2. \A c \in E : d[c.u + 1] + c.w \in Int /\ b <= d[c.u + 1] + c.w
      BY <1>1, <1>2, <1>3, <2>1
    <2>3. d[m] \in Int /\ b <= d[m]
      BY <1>1, <2>1
    <2>4. T(m) \in SUBSET Int /\ T(m) # {} /\ \A y \in T(m) : b <= y
      BY <2>2, <2>3
    <2> HIDE DEF T
    <2> QED BY <2>1, <2>4, LowestTaken
  <1>5. Round(d, E) = r
    <2>1. Round(d, E) = <<>> \o r
      BY DEF Round
    <2>2. \A m \in 1..N : T(m) \in SUBSET Int
      BY <1>3
    <2> HIDE DEF T
    <2>3. \A m \in 1..N : Min(T(m)) \in Int
      BY <1>4, <2>2
    <2>4. r \in Seq(Int)
      BY <2>3
    <2> HIDE DEF r
    <2> QED BY <2>1, <2>4
  <1>6. \A m \in 1..N : r[m] = Min(T(m))
    OBVIOUS
  <1>7. \A m \in 1..N : T(m) \in SUBSET Int
    BY <1>3
  <1>8. r \in [1..N -> Int]
    <2> HIDE DEF T
    <2> QED BY <1>4, <1>7
  <1> HIDE DEF r
  <1>9. ASSUME NEW m \in 1..N
        PROVE  r[m] <= d[m] /\ (r[m] = d[m] \/ \E c \in E : c.v + 1 = m /\ r[m] = d[c.u + 1] + c.w)
    <2>1. d[m] \in T(m)
      OBVIOUS
    <2>2. r[m] <= d[m] /\ r[m] \in T(m)
      <3> HIDE DEF T
      <3> QED BY <1>4, <1>6, <2>1
    <2> QED BY <2>2
  <1>10. ASSUME NEW c \in E PROVE r[c.v + 1] <= d[c.u + 1] + c.w
    <2> DEFINE m == c.v + 1
    <2>1. m \in 1..N
      BY <1>3
    <2>2. d[c.u + 1] + c.w \in T(m)
      OBVIOUS
    <2> HIDE DEF T, m
    <2>3. r[m] <= d[c.u + 1] + c.w
      BY <1>4, <1>6, <2>1, <2>2
    <2> QED BY <2>3 DEF m
  <1> HIDE DEF T
  <1> QED BY <1>5, <1>8, <1>9, <1>10 DEF Relaxed

\* The rounds of the pass, each over what the one before left.
Rounds(dist, E, L) ==
    /\ dist[0] = [m \in 1..(L + 1) |-> 0]
    /\ \A k \in 1..(L + 1) : dist[k] = Round(dist[k - 1], E)

(* If the constraints can be met, the last round meets them.               *)
LEMMA RoundsEnd ==
    ASSUME NEW L \in Nat, NEW E, Edged(E, L), NEW dist, Rounds(dist, E, L)
    PROVE  /\ dist[L + 1] \in [1..(L + 1) -> Int]
           /\ AtMostZero(E, L) # {} => \A c \in E : dist[L + 1][c.v + 1] - dist[L + 1][c.u + 1] <= c.w
  <1> DEFINE N == L + 1
  <1>1. N \in Nat /\ N \in 0..N /\ 1..N = 1..(L + 1)
    OBVIOUS
  <1>2. dist[0] = [m \in 1..N |-> 0] /\ \A k \in 1..N : dist[k] = Round(dist[k - 1], E)
    BY DEF Rounds
  <1>3. \A k \in 1..N : dist[k - 1] \in [1..N -> Int] => Relaxed(dist[k], dist[k - 1], E, L)
    <2> SUFFICES ASSUME NEW k \in 1..N, dist[k - 1] \in [1..N -> Int]
                 PROVE  Relaxed(dist[k], dist[k - 1], E, L)
      OBVIOUS
    <2>1. dist[k] = Round(dist[k - 1], E)
      BY <1>2
    <2> DEFINE d == dist[k - 1]
    <2>2. d \in [1..(L + 1) -> Int]
      OBVIOUS
    <2> HIDE DEF d
    <2>3. Relaxed(Round(d, E), d, E, L)
      BY <2>2, RoundIs
    <2> QED BY <2>1, <2>3 DEF d
  <1> DEFINE U == {k \in Nat : dist[k] \in [1..N -> Int]}
  <1>4. 0 \in U
    BY <1>2
  <1>5. ASSUME NEW k \in 1..N, k - 1 \in U PROVE k \in U
    <2>1. Relaxed(dist[k], dist[k - 1], E, L)
      BY <1>3, <1>5
    <2> QED BY <2>1 DEF Relaxed
  <1> HIDE DEF U
  <1>6. 0..N \subseteq U
    BY <1>1, <1>4, <1>5, BoundedInduction
  <1>7. \A k \in 0..N : dist[k] \in [1..N -> Int]
    BY <1>6 DEF U
  <1>8. ASSUME AtMostZero(E, L) # {} PROVE \A c \in E : dist[N][c.v + 1] - dist[N][c.u + 1] <= c.w
    <2>1. PICK D : Greatest(D, E, L)
      BY <1>8, GreatestExists
    <2>2. /\ D \in [1..N -> Int] /\ (\A m \in 1..N : D[m] <= 0)
          /\ \A c \in E : D[c.v + 1] - D[c.u + 1] <= c.w
      BY <2>1 DEF Greatest, AtMostZero
    <2> DEFINE S(k) == Tight(dist[k], D, L)
               V == {k \in Nat : Descending(dist[k], D, L) /\ (S(k) = 1..N \/ Cardinality(S(k)) >= k)}
    <2>3. IsFiniteSet(1..N) /\ Cardinality(1..N) = N
      BY <1>1, FS_Interval
    <2>4. ASSUME NEW k PROVE S(k) \subseteq 1..N /\ IsFiniteSet(S(k)) /\ Cardinality(S(k)) \in Nat
      <3>1. S(k) \subseteq 1..N
        BY DEF Tight
      <3> HIDE DEF S, N
      <3> QED BY <2>3, <3>1, FS_Subset, FS_CardinalityType
    <2>5. 0 \in V
      <3>1. Descending(dist[0], D, L)
        BY <1>2, <2>2 DEF Descending
      <3>2. Cardinality(S(0)) >= 0
        BY <2>4
      <3> QED BY <3>1, <3>2
    <2>6. ASSUME NEW k \in 1..N, k - 1 \in V PROVE k \in V
      <3>1. k - 1 \in 0..N /\ k \in Nat
        OBVIOUS
      <3>2. dist[k - 1] \in [1..N -> Int] /\ Relaxed(dist[k], dist[k - 1], E, L)
        BY <1>3, <1>7, <3>1
      <3>3. Descending(dist[k - 1], D, L)
        BY <2>6
      <3>4. /\ Descending(dist[k], D, L) /\ S(k - 1) \subseteq S(k)
            /\ S(k - 1) # 1..N => S(k) # S(k - 1)
        BY <2>1, <3>2, <3>3, RoundSettles
      <3>5. S(k - 1) = 1..N \/ Cardinality(S(k - 1)) >= k - 1
        BY <2>6
      <3> HIDE DEF S, N
      <3>6. CASE S(k - 1) = 1..N
        <4>1. S(k) = 1..N
          BY <2>4, <3>4, <3>6
        <4> QED BY <3>1, <3>4, <4>1
      <3>7. CASE S(k - 1) # 1..N
        <4>1. S(k) # S(k - 1) /\ Cardinality(S(k - 1)) >= k - 1
          BY <3>4, <3>5, <3>7
        <4>2. Cardinality(S(k - 1)) <= Cardinality(S(k))
              /\ (Cardinality(S(k - 1)) = Cardinality(S(k)) => S(k - 1) = S(k))
          BY <2>4, <3>4, FS_Subset
        <4>3. Cardinality(S(k - 1)) \in Nat /\ Cardinality(S(k)) \in Nat
          BY <2>4
        <4>4. Cardinality(S(k)) >= k
          BY <3>1, <4>1, <4>2, <4>3
        <4> QED BY <3>1, <3>4, <4>4
      <3> QED BY <3>6, <3>7
    <2> HIDE DEF V
    <2>7. 0..N \subseteq V
      BY <1>1, <2>5, <2>6, BoundedInduction
    <2>8. N \in V
      BY <1>1, <2>7
    <2>9. Descending(dist[N], D, L) /\ (S(N) = 1..N \/ Cardinality(S(N)) >= N)
      BY <2>8 DEF V
    <2>10. S(N) = 1..N
      <3> HIDE DEF S, N
      <3>1. CASE Cardinality(S(N)) >= N
        <4>1. S(N) \subseteq 1..N /\ Cardinality(S(N)) <= N /\ (Cardinality(S(N)) = N => S(N) = 1..N)
          BY <2>3, <2>4, FS_Subset
        <4>2. Cardinality(S(N)) \in Nat
          BY <2>4
        <4> QED BY <1>1, <3>1, <4>1, <4>2
      <3> QED BY <2>9, <3>1
    <2>11. \A m \in 1..N : dist[N][m] = D[m]
      BY <2>10 DEF Tight
    <2>12. \A c \in E : c.u + 1 \in 1..N /\ c.v + 1 \in 1..N
      BY DEF Edged
    <2> QED BY <2>2, <2>11, <2>12
  <1>9. dist[N] \in [1..N -> Int]
    BY <1>1, <1>7
  <1> QED BY <1>8, <1>9

\* The pins of what is removed are gone.
KeptOf(cs, removed) == {c \in cs : ~(c.kind = "pin" /\ (c.u \in removed \/ c.v \in removed))}

RoundStep(dist, E, n, k) ==
    IF k = 0 THEN [m \in 1..n |-> 0] ELSE CHOOSE d \in {Round(prev, E) : prev \in {dist[k - 1]}} : TRUE

LEMMA RoundStepIs ==
    ASSUME NEW dist, NEW E, NEW n, NEW k, k # 0
    PROVE  RoundStep(dist, E, n, k) = Round(dist[k - 1], E)
  <1> DEFINE T == {Round(prev, E) : prev \in {dist[k - 1]}}
             d == CHOOSE e \in T : TRUE
  <1>1. \E e \in T : TRUE
    OBVIOUS
  <1>2. d \in T
    BY <1>1, Zenon
  <1>3. \A e \in T : e = Round(dist[k - 1], E)
    OBVIOUS
  <1> HIDE DEF d
  <1>4. d = Round(dist[k - 1], E)
    BY <1>2, <1>3
  <1> QED BY <1>4 DEF RoundStep, d

LEMMA RoundsExist ==
    ASSUME NEW n \in Nat, NEW E
    PROVE  \E dist : dist = [k \in 0..n |-> RoundStep(dist, E, n, k)]
  <1> DEFINE U == {m \in Nat : \E f : \A k \in 0..m : f[k] = RoundStep(f, E, n, k)}
  <1>1. 0 \in U
    <2> DEFINE f == [k \in 0..0 |-> [m \in 1..n |-> 0]]
    <2>1. \A k \in 0..0 : f[k] = RoundStep(f, E, n, k)
      BY DEF RoundStep
    <2> QED BY <2>1
  <1>2. ASSUME NEW m \in 1..n, m - 1 \in U PROVE m \in U
    <2>1. PICK f : \A k \in 0..(m - 1) : f[k] = RoundStep(f, E, n, k)
      BY <1>2
    <2> DEFINE g == [k \in 0..m |-> IF k = m THEN Round(f[m - 1], E) ELSE f[k]]
    <2>2. \A k \in 0..m : k = m \/ k \in 0..(m - 1)
      OBVIOUS
    <2>3. g[m] = Round(f[m - 1], E) /\ \A k \in 0..(m - 1) : g[k] = f[k]
      OBVIOUS
    <2> HIDE DEF g
    <2>4. m # 0 /\ m - 1 \in 0..(m - 1)
      OBVIOUS
    <2>5. g[m] = RoundStep(g, E, n, m)
      <3>1. RoundStep(g, E, n, m) = Round(g[m - 1], E)
        BY <2>4, RoundStepIs
      <3> QED BY <2>3, <2>4, <3>1
    <2>6. ASSUME NEW k \in 0..(m - 1) PROVE g[k] = RoundStep(g, E, n, k)
      <3>1. CASE k = 0
        BY <2>1, <2>3, <3>1 DEF RoundStep
      <3>2. CASE k # 0
        <4>1. RoundStep(g, E, n, k) = Round(g[k - 1], E) /\ RoundStep(f, E, n, k) = Round(f[k - 1], E)
          BY <3>2, RoundStepIs
        <4>2. k - 1 \in 0..(m - 1)
          BY <3>2
        <4> QED BY <2>1, <2>3, <4>1, <4>2
      <3> QED BY <3>1, <3>2
    <2>7. \A k \in 0..m : g[k] = RoundStep(g, E, n, k)
      BY <2>2, <2>5, <2>6
    <2> QED BY <2>7
  <1> HIDE DEF U
  <1>3. 0..n \subseteq U
    BY <1>1, <1>2, BoundedInduction
  <1>4. n \in U
    BY <1>3
  <1>5. PICK f : \A k \in 0..n : f[k] = RoundStep(f, E, n, k)
    BY <1>4 DEF U
  <1> DEFINE dist == [k \in 0..n |-> f[k]]
  <1>6. \A k \in 0..n : dist[k] = f[k]
    OBVIOUS
  <1>7. dist = [k \in 0..n |-> dist[k]]
    OBVIOUS
  <1> HIDE DEF dist
  <1>8. ASSUME NEW k \in 0..n PROVE dist[k] = RoundStep(dist, E, n, k)
    <2>1. CASE k = 0
      BY <1>5, <1>6, <2>1 DEF RoundStep
    <2>2. CASE k # 0
      <3>1. RoundStep(dist, E, n, k) = Round(dist[k - 1], E) /\ RoundStep(f, E, n, k) = Round(f[k - 1], E)
        BY <2>2, RoundStepIs
      <3>2. k - 1 \in 0..n
        BY <2>2
      <3> QED BY <1>5, <1>6, <3>1, <3>2
    <2> QED BY <2>1, <2>2
  <1>9. dist = [k \in 0..n |-> RoundStep(dist, E, n, k)]
    BY <1>7, <1>8, Zenon
  <1> QED BY <1>9

(* The pass finds the constraints satisfiable exactly when they are.       *)
LEMMA FeasibleIs ==
    ASSUME NEW es, NEW L \in Nat, Len(es) = L, NEW cs, NEW removed, Edged(KeptOf(cs, removed), L)
    PROVE  Feasible(es, cs, removed) <=> Solvable(KeptOf(cs, removed), L)
  <1> DEFINE E == KeptOf(cs, removed)
             N == L + 1
             dist == CHOOSE f : f = [k \in 0..N |-> RoundStep(f, E, N, k)]
  <1>1. Feasible(es, cs, removed) <=> \A c \in E : dist[N][c.u + 1] + c.w >= dist[N][c.v + 1]
    <2>1. Len(es) + 1 = N
      OBVIOUS
    <2> HIDE DEF N
    <2> QED BY <2>1, Zenon DEF Feasible, KeptOf, RoundStep
  <1> HIDE DEF E
  <1>2. Edged(E, L)
    BY DEF E
  <1>3. Rounds(dist, E, L)
    <2>1. N \in Nat /\ 0 \in 0..N /\ (\A k \in 1..N : k \in 0..N /\ k # 0)
      OBVIOUS
    <2> HIDE DEF N
    <2>2. \E f : f = [k \in 0..N |-> RoundStep(f, E, N, k)]
      BY <2>1, RoundsExist, Zenon
    <2>3. dist = [k \in 0..N |-> RoundStep(dist, E, N, k)]
      BY <2>2, Zenon
    <2> DEFINE g == [k \in 0..N |-> RoundStep(dist, E, N, k)]
    <2>4. \A k \in 0..N : g[k] = RoundStep(dist, E, N, k)
      OBVIOUS
    <2>5. dist = g
      BY <2>3
    <2> HIDE DEF dist, g
    <2>6. \A k \in 0..N : dist[k] = RoundStep(dist, E, N, k)
      BY <2>4, <2>5
    <2>7. dist[0] = [m \in 1..N |-> 0]
      BY <2>1, <2>6 DEF RoundStep
    <2>8. \A k \in 1..N : dist[k] = Round(dist[k - 1], E)
      BY <2>1, <2>6, RoundStepIs
    <2> QED BY <2>7, <2>8 DEF Rounds, N
  <1> HIDE DEF dist
  <1>4. /\ dist[N] \in [1..N -> Int]
        /\ AtMostZero(E, L) # {} => \A c \in E : dist[N][c.v + 1] - dist[N][c.u + 1] <= c.w
    BY <1>2, <1>3, RoundsEnd
  <1>5. \A c \in E : /\ c.u \in 0..L /\ c.v \in 0..L /\ c.u + 1 \in 1..N /\ c.v + 1 \in 1..N /\ c.w \in Int
    BY <1>2 DEF Edged
  <1> DEFINE final == dist[N]
  <1>6. \A c \in E : final[c.u + 1] + c.w >= final[c.v + 1] <=> final[c.v + 1] - final[c.u + 1] <= c.w
    <2> TAKE c \in E
    <2>1. final[c.u + 1] \in Int /\ final[c.v + 1] \in Int /\ c.w \in Int
      BY <1>4, <1>5
    <2> QED BY <2>1
  <1>7. ASSUME \A c \in E : final[c.v + 1] - final[c.u + 1] <= c.w PROVE Solvable(E, L)
    <2> DEFINE x == [k \in 0..L |-> final[k + 1]]
    <2>1. x \in [0..L -> Int] /\ \A k \in 0..L : x[k] = final[k + 1]
      BY <1>4
    <2> HIDE DEF x
    <2>2. \A c \in E : x[c.v] - x[c.u] <= c.w
      BY <1>5, <1>7, <2>1
    <2> QED BY <2>1, <2>2 DEF Solvable
  <1>8. ASSUME Solvable(E, L) PROVE AtMostZero(E, L) # {}
    <2>1. PICK x \in [0..L -> Int] : \A c \in E : x[c.v] - x[c.u] <= c.w
      BY <1>8 DEF Solvable
    <2> DEFINE f == [m \in 1..N |-> x[m - 1]]
    <2>2. f \in [1..N -> Int] /\ N \in Nat /\ \A k \in 0..L : k + 1 \in 1..N /\ f[k + 1] = x[k]
      OBVIOUS
    <2> HIDE DEF f, N
    <2>3. PICK lo \in Int, hi \in Int : \A k \in 1..N : lo <= f[k] /\ f[k] <= hi
      BY <2>2, ValuesBounded
    <2> DEFINE y == [m \in 1..N |-> f[m] - hi]
    <2>4. y \in [1..N -> Int] /\ \A m \in 1..N : y[m] = f[m] - hi
      BY <2>2
    <2> HIDE DEF y
    <2>5. \A m \in 1..N : y[m] <= 0
      BY <2>2, <2>3, <2>4
    <2>6. ASSUME NEW c \in E PROVE y[c.v + 1] - y[c.u + 1] <= c.w
      <3>1. y[c.v + 1] = x[c.v] - hi /\ y[c.u + 1] = x[c.u] - hi
        BY <1>5, <2>2, <2>4
      <3>2. x[c.v] \in Int /\ x[c.u] \in Int /\ c.w \in Int /\ x[c.v] - x[c.u] <= c.w
        BY <1>5, <2>1
      <3> QED BY <3>1, <3>2
    <2>7. y \in AtMostZero(E, L)
      BY <2>4, <2>5, <2>6 DEF AtMostZero, N
    <2> QED BY <2>7
  <1> HIDE DEF N
  <1> QED BY <1>1, <1>4, <1>6, <1>7, <1>8 DEF E

-----------------------------------------------------------------------------
\* The constraints of a pass

Pinned(c, es) ==
    /\ c.kind = "pin" /\ c.w \in Int
    /\ \/ c.u = 0 /\ c.v \in 1..Len(es) /\ c.w = es[c.v].t
       \/ c.v = 0 /\ c.u \in 1..Len(es) /\ c.w = -es[c.u].t

Chained(c, es) ==
    /\ c.kind = "seq" /\ c.u \in 1..Len(es) /\ c.v \in 1..Len(es) /\ c.w = 0
    /\ es[c.u].src = es[c.v].src /\ es[c.v].seq < es[c.u].seq

Ruled(c, es) ==
    c.kind = "rule" /\ c.u \in 1..Len(es) /\ c.v \in 1..Len(es) /\ c.w \in Int /\ -1 <= c.w

\* Every record is pinned to its instant, and nothing else is asked of it than
\* the order of its numbers and what the rules ask.
Binds(cs, es) ==
    /\ \A k \in 1..Len(es) : /\ [kind |-> "pin", u |-> 0, v |-> k, w |-> es[k].t] \in cs
                             /\ [kind |-> "pin", u |-> k, v |-> 0, w |-> -es[k].t] \in cs
    /\ \A c \in cs : Pinned(c, es) \/ Chained(c, es) \/ Ruled(c, es)

PlaceOf(es, r) == CHOOSE k \in DOMAIN es : es[k] = r
NextPlaces(es, a, b) ==
    /\ es[a].src = es[b].src /\ es[a].seq < es[b].seq
    /\ ~\E c \in DOMAIN es : es[c].src = es[a].src /\ es[a].seq < es[c].seq /\ es[c].seq < es[b].seq
PinsOf(es) ==
    UNION {{[kind |-> "pin", u |-> 0, v |-> k, w |-> es[k].t],
            [kind |-> "pin", u |-> k, v |-> 0, w |-> -es[k].t]} : k \in DOMAIN es}
ChainsOf(es) ==
    {[kind |-> "seq", u |-> p[2], v |-> p[1], w |-> 0] :
        p \in {q \in (DOMAIN es) \X (DOMAIN es) : NextPlaces(es, q[1], q[2])}}
AskedOf(es, rules) ==
    UNION {{[kind |-> "rule", u |-> PlaceOf(es, i.left), v |-> PlaceOf(es, i.right), w |-> i.within],
            [kind |-> "rule", u |-> PlaceOf(es, i.right), v |-> PlaceOf(es, i.left), w |-> -1]} : i \in rules}

LEMMA ConstraintsBind ==
    ASSUME NEW S, Keyed(S), NEW es, Places(es, S), NEW rules,
           \A i \in rules : i.left \in S /\ i.right \in S /\ i.within \in Nat
    PROVE  Binds(Constraints(es, rules), es) /\ (rules = {} => \A c \in Constraints(es, rules) : c.kind # "rule")
  <1> DEFINE at(r) == PlaceOf(es, r)
             pins == PinsOf(es)
             seqs == ChainsOf(es)
             asked == AskedOf(es, rules)
             cs == Constraints(es, rules)
  <1>1. cs = pins \cup seqs \cup asked
    BY Zenon DEF Constraints, PinsOf, ChainsOf, AskedOf, PlaceOf, NextPlaces
  <1> HIDE DEF cs
  <1>2. /\ DOMAIN es = 1..Len(es) /\ (\A k \in 1..Len(es) : es[k] \in S)
        /\ \A r \in S : \E k \in 1..Len(es) : es[k] = r
    BY DEF Places
  <1>3. \A k \in 1..Len(es) : es[k].t \in Int
    BY <1>2 DEF Keyed, WellFormed
  <1>4. \A r \in S : at(r) \in 1..Len(es)
    <2> TAKE r \in S
    <2>1. \E k \in DOMAIN es : es[k] = r
      BY <1>2
    <2>2. at(r) \in DOMAIN es
      BY <2>1, Zenon DEF PlaceOf
    <2> QED BY <1>2, <2>2
  <1>5. \A c \in pins : Pinned(c, es) /\ c.kind = "pin"
    BY <1>2, <1>3 DEF Pinned, PinsOf
  <1>6. \A c \in seqs : Chained(c, es) /\ c.kind = "seq"
    <2> SUFFICES ASSUME NEW c \in seqs PROVE Chained(c, es) /\ c.kind = "seq"
      OBVIOUS
    <2>1. PICK p \in {q \in (DOMAIN es) \X (DOMAIN es) : NextPlaces(es, q[1], q[2])} :
             c = [kind |-> "seq", u |-> p[2], v |-> p[1], w |-> 0]
      BY DEF ChainsOf
    <2>2. p[1] \in 1..Len(es) /\ p[2] \in 1..Len(es) /\ NextPlaces(es, p[1], p[2])
      BY <1>2
    <2>3. es[p[1]].src = es[p[2]].src /\ es[p[1]].seq < es[p[2]].seq
      BY <2>2 DEF NextPlaces
    <2> QED BY <2>1, <2>2, <2>3 DEF Chained
  <1>7. \A c \in asked : Ruled(c, es)
    <2> SUFFICES ASSUME NEW c \in asked PROVE Ruled(c, es)
      OBVIOUS
    <2>1. PICK i \in rules :
             \/ c = [kind |-> "rule", u |-> PlaceOf(es, i.left), v |-> PlaceOf(es, i.right), w |-> i.within]
             \/ c = [kind |-> "rule", u |-> PlaceOf(es, i.right), v |-> PlaceOf(es, i.left), w |-> -1]
      BY DEF AskedOf
    <2>2. PlaceOf(es, i.left) \in 1..Len(es) /\ PlaceOf(es, i.right) \in 1..Len(es) /\ i.within \in Nat
      BY <1>4
    <2> QED BY <2>1, <2>2 DEF Ruled
  <1>8. rules = {} => asked = {}
    BY DEF AskedOf
  <1>9. \A k \in 1..Len(es) : /\ [kind |-> "pin", u |-> 0, v |-> k, w |-> es[k].t] \in pins
                              /\ [kind |-> "pin", u |-> k, v |-> 0, w |-> -es[k].t] \in pins
    BY <1>2 DEF PinsOf
  <1> HIDE DEF pins, seqs, asked
  <1>10. Binds(cs, es)
    BY <1>1, <1>5, <1>6, <1>7, <1>9 DEF Binds
  <1>11. rules = {} => \A c \in cs : c.kind # "rule"
    BY <1>1, <1>5, <1>6, <1>8
  <1> QED BY <1>10, <1>11 DEF cs

(* So no constraint asks for more than some bound.                         *)
LEMMA BoundIsEdged ==
    ASSUME NEW S, Keyed(S), NEW es, Places(es, S), NEW cs, Binds(cs, es), NEW removed
    PROVE  Edged(KeptOf(cs, removed), Len(es))
  <1> DEFINE L == Len(es)
             f == [k \in 1..L |-> es[k].t]
  <1>1. L \in Nat /\ \A k \in 1..L : es[k].t \in Int
    BY DEF Places, Keyed, WellFormed
  <1>2. f \in [1..L -> Int] /\ \A k \in 1..L : f[k] = es[k].t
    BY <1>1
  <1> HIDE DEF L, f
  <1>3. PICK lo \in Int, hi \in Int : \A k \in 1..L : lo <= f[k] /\ f[k] <= hi
    BY <1>1, <1>2, ValuesBounded
  <1> DEFINE a == IF lo <= -hi THEN lo ELSE -hi
             W == IF a <= -1 THEN a ELSE -1
  <1>4. W \in Int /\ W <= lo /\ W <= -hi /\ W <= -1
    OBVIOUS
  <1> HIDE DEF a, W
  <1>5. ASSUME NEW c \in KeptOf(cs, removed) PROVE c.u \in 0..L /\ c.v \in 0..L /\ c.w \in Int /\ W <= c.w
    <2>1. Pinned(c, es) \/ Chained(c, es) \/ Ruled(c, es)
      BY DEF Binds, KeptOf
    <2>2. CASE Pinned(c, es)
      <3>1. CASE c.u = 0 /\ c.v \in 1..L /\ c.w = es[c.v].t
        BY <1>1, <1>2, <1>3, <1>4, <3>1
      <3>2. CASE c.v = 0 /\ c.u \in 1..L /\ c.w = -es[c.u].t
        BY <1>1, <1>2, <1>3, <1>4, <3>2
      <3> QED BY <2>2, <3>1, <3>2 DEF Pinned, L
    <2>3. CASE Chained(c, es)
      <3>1. c.u \in 1..L /\ c.v \in 1..L /\ c.w = 0
        BY <2>3 DEF Chained, L
      <3> QED BY <1>1, <1>4, <3>1
    <2>4. CASE Ruled(c, es)
      <3>1. c.u \in 1..L /\ c.v \in 1..L /\ c.w \in Int /\ -1 <= c.w
        BY <2>4 DEF Ruled, L
      <3> QED BY <1>1, <1>4, <3>1
    <2> QED BY <2>1, <2>2, <2>3, <2>4
  <1> QED BY <1>4, <1>5 DEF Edged, L

-----------------------------------------------------------------------------
\* The instants of the freed records

\* The instant of a place: the origin's, the one x gives it, or its own.
Given(es, freed, x, k) == IF k = 0 THEN 0 ELSE IF k \in freed THEN x[k] ELSE es[k].t

MeetsAll(es, freed, x, E) == \A c \in E : Given(es, freed, x, c.v) - Given(es, freed, x, c.u) <= c.w

LEMMA GivenIsInt ==
    ASSUME NEW es, \A k \in 1..Len(es) : es[k].t \in Int, NEW freed \in SUBSET (1..Len(es)),
           NEW x \in [freed -> Int], NEW k \in 0..Len(es)
    PROVE  Given(es, freed, x, k) \in Int
  <1>1. CASE k = 0
    BY <1>1 DEF Given
  <1>2. CASE k \in freed
    BY <1>2 DEF Given
  <1>3. CASE k # 0 /\ k \notin freed
    <2>1. k \in 1..Len(es)
      BY <1>3
    <2> QED BY <1>3, <2>1 DEF Given
  <1> QED BY <1>1, <1>2, <1>3

(* The constraints that stay can be met exactly when some instants of the  *)
(* freed records meet them: the pins hold the others where they are.       *)
LEMMA SolvableIs ==
    ASSUME NEW S, Keyed(S), NEW es, Places(es, S), NEW cs, Binds(cs, es), NEW freed \in SUBSET (1..Len(es))
    PROVE  Solvable(KeptOf(cs, freed), Len(es)) <=> \E x \in [freed -> Int] : MeetsAll(es, freed, x, KeptOf(cs, freed))
  <1> DEFINE L == Len(es)
             E == KeptOf(cs, freed)
  <1>1. L \in Nat /\ \A k \in 1..L : es[k].t \in Int
    BY DEF Places, Keyed, WellFormed
  <1>2. \A c \in E : c.u \in 0..L /\ c.v \in 0..L /\ c.w \in Int
    <2>1. Edged(E, L)
      BY BoundIsEdged
    <2> HIDE DEF E, L
    <2> QED BY <2>1 DEF Edged
  <1>3. \A k \in (1..L) \ freed : /\ [kind |-> "pin", u |-> 0, v |-> k, w |-> es[k].t] \in E
                                  /\ [kind |-> "pin", u |-> k, v |-> 0, w |-> -es[k].t] \in E
    <2> TAKE k \in (1..L) \ freed
    <2>1. /\ [kind |-> "pin", u |-> 0, v |-> k, w |-> es[k].t] \in cs
          /\ [kind |-> "pin", u |-> k, v |-> 0, w |-> -es[k].t] \in cs
      BY DEF Binds
    <2>2. 0 \notin freed
      OBVIOUS
    <2> QED BY <2>1, <2>2 DEF KeptOf
  <1> HIDE DEF E, L
  <1>4. ASSUME Solvable(E, L) PROVE \E x \in [freed -> Int] : MeetsAll(es, freed, x, E)
    <2>1. PICK y \in [0..L -> Int] : \A c \in E : y[c.v] - y[c.u] <= c.w
      BY <1>4 DEF Solvable
    <2> DEFINE x == [k \in freed |-> y[k] - y[0]]
    <2>2. freed \subseteq 1..L /\ \A k \in 1..L : k \in 0..L
      BY DEF L
    <2>3. 0 \in 0..L /\ y[0] \in Int
      BY <1>1
    <2>4. x \in [freed -> Int] /\ \A k \in freed : x[k] = y[k] - y[0]
      BY <2>2, <2>3
    <2> HIDE DEF x
    <2>5. ASSUME NEW k \in 0..L PROVE Given(es, freed, x, k) = y[k] - y[0]
      <3>1. CASE k = 0
        BY <2>3, <3>1 DEF Given
      <3>2. CASE k \in freed
        BY <2>2, <2>4, <3>2 DEF Given
      <3>3. CASE k # 0 /\ k \notin freed
        <4> DEFINE a == [kind |-> "pin", u |-> 0, v |-> k, w |-> es[k].t]
                   b == [kind |-> "pin", u |-> k, v |-> 0, w |-> -es[k].t]
        <4>1. k \in (1..L) \ freed
          BY <3>3
        <4>2. a \in E /\ b \in E
          BY <1>3, <4>1
        <4>3. a.u = 0 /\ a.v = k /\ a.w = es[k].t /\ b.u = k /\ b.v = 0 /\ b.w = -es[k].t
          OBVIOUS
        <4> HIDE DEF a, b
        <4>4. y[k] - y[0] <= es[k].t
          BY <2>1, <4>2, <4>3
        <4>5. y[0] - y[k] <= -es[k].t
          BY <2>1, <4>2, <4>3
        <4>6. y[k] \in Int /\ es[k].t \in Int
          BY <1>1, <4>1
        <4>7. y[k] - y[0] = es[k].t
          BY <2>3, <4>4, <4>5, <4>6
        <4> QED BY <3>3, <4>7 DEF Given
      <3> QED BY <3>1, <3>2, <3>3
    <2>6. ASSUME NEW c \in E PROVE Given(es, freed, x, c.v) - Given(es, freed, x, c.u) <= c.w
      <3>1. Given(es, freed, x, c.v) = y[c.v] - y[0] /\ Given(es, freed, x, c.u) = y[c.u] - y[0]
        BY <1>2, <2>5
      <3>2. y[c.v] \in Int /\ y[c.u] \in Int /\ y[c.v] - y[c.u] <= c.w /\ c.w \in Int
        BY <1>2, <2>1
      <3> QED BY <2>3, <3>1, <3>2
    <2>7. MeetsAll(es, freed, x, E)
      BY <2>6 DEF MeetsAll
    <2> QED BY <2>4, <2>7
  <1>5. ASSUME NEW x \in [freed -> Int], MeetsAll(es, freed, x, E) PROVE Solvable(E, L)
    <2> DEFINE y == [k \in 0..L |-> Given(es, freed, x, k)]
    <2>1. \A k \in 0..L : Given(es, freed, x, k) \in Int
      BY <1>1, GivenIsInt DEF L
    <2>2. y \in [0..L -> Int] /\ \A k \in 0..L : y[k] = Given(es, freed, x, k)
      BY <2>1
    <2> HIDE DEF y
    <2>3. \A c \in E : y[c.v] - y[c.u] <= c.w
      BY <1>2, <1>5, <2>2 DEF MeetsAll
    <2> QED BY <2>2, <2>3 DEF Solvable
  <1>6. Solvable(E, L) <=> \E x \in [freed -> Int] : MeetsAll(es, freed, x, E)
    BY <1>4, <1>5
  <1> QED BY <1>6 DEF E, L

TimesOf(es) == {0} \cup {es[k].t : k \in DOMAIN es}

LEMMA TimesIs ==
    ASSUME NEW S, Keyed(S), NEW es, Places(es, S)
    PROVE  /\ Min(TimesOf(es)) \in Int /\ Largest(TimesOf(es)) \in Int /\ Min(TimesOf(es)) <= Largest(TimesOf(es))
           /\ 0 \in Min(TimesOf(es))..Largest(TimesOf(es))
           /\ \A k \in 1..Len(es) : es[k].t \in Min(TimesOf(es))..Largest(TimesOf(es))
  <1> DEFINE L == Len(es)
             T == TimesOf(es)
             f == [k \in 1..L |-> es[k].t]
  <1>1. L \in Nat /\ DOMAIN es = 1..L /\ \A k \in 1..L : es[k].t \in Int
    BY DEF Places, Keyed, WellFormed
  <1>2. f \in [1..L -> Int] /\ \A k \in 1..L : f[k] = es[k].t
    BY <1>1
  <1> HIDE DEF f, L
  <1>3. PICK lo \in Int, hi \in Int : \A k \in 1..L : lo <= f[k] /\ f[k] <= hi
    BY <1>1, <1>2, ValuesBounded
  <1> DEFINE a == IF lo <= 0 THEN lo ELSE 0
             b == IF 0 <= hi THEN hi ELSE 0
  <1>4. a \in Int /\ a <= lo /\ a <= 0 /\ b \in Int /\ hi <= b /\ 0 <= b
    OBVIOUS
  <1> HIDE DEF a, b
  <1>5. T \in SUBSET Int /\ 0 \in T /\ \A k \in 1..L : es[k].t \in T
    BY <1>1 DEF TimesOf
  <1>6. \A y \in T : a <= y /\ y <= b
    <2> SUFFICES ASSUME NEW y \in T PROVE a <= y /\ y <= b
      OBVIOUS
    <2>1. y = 0 \/ \E k \in 1..L : y = es[k].t
      BY <1>1 DEF TimesOf
    <2>2. CASE y = 0
      BY <1>4, <2>2
    <2>3. CASE \E k \in 1..L : y = es[k].t
      BY <1>1, <1>2, <1>3, <1>4, <2>3
    <2> QED BY <2>1, <2>2, <2>3
  <1> HIDE DEF T
  <1>7. Min(T) \in T /\ \A y \in T : Min(T) <= y
    <2>1. T # {} /\ \A y \in T : a <= y
      BY <1>5, <1>6
    <2> QED BY <1>4, <1>5, <2>1, LowestTaken
  <1>8. Largest(T) \in T /\ \A y \in T : Largest(T) >= y
    <2>1. T # {} /\ \A y \in T : y <= b
      BY <1>5, <1>6
    <2> QED BY <1>4, <1>5, <2>1, HighestTaken
  <1> DEFINE p == Min(T)
             q == Largest(T)
  <1>9. p \in Int /\ q \in Int /\ \A y \in T : y \in Int /\ p <= y /\ q >= y
    BY <1>5, <1>7, <1>8
  <1> HIDE DEF p, q
  <1>11. \A y \in T : y \in p..q
    BY <1>9
  <1>10. p <= q /\ 0 \in p..q /\ \A k \in 1..L : es[k].t \in p..q
    <2>1. p <= 0 /\ q >= 0
      BY <1>5, <1>9
    <2>2. p <= q
      BY <1>9, <2>1
    <2>3. \A k \in 1..L : es[k].t \in p..q
      BY <1>5, <1>11
    <2> QED BY <1>5, <1>11, <2>2, <2>3
  <1> QED BY <1>9, <1>10 DEF p, q, T, L

(* An assignment of the freed instants that meets the constraints can be   *)
(* drawn into the room the property searches.                              *)
LEMMA RoomEnough ==
    ASSUME NEW S, Keyed(S), NEW es, Places(es, S), NEW cs, Binds(cs, es), NEW freed \in SUBSET (1..Len(es)),
           NEW x \in [freed -> Int], MeetsAll(es, freed, x, KeptOf(cs, freed))
    PROVE  \E y \in [freed -> Room(es, Cardinality(freed))] : MeetsAll(es, freed, y, KeptOf(cs, freed))
  <1> DEFINE L == Len(es)
             E == KeptOf(cs, freed)
             lo == Min(TimesOf(es))
             hi == Largest(TimesOf(es))
             Y == {x[k] : k \in freed}
             n == Cardinality(Y)
             m == Cardinality(freed)
             d(v) == DrawnIn(Y, lo, hi, v)
             y == [k \in freed |-> d(x[k])]
             g(k) == Given(es, freed, x, k)
             h(k) == Given(es, freed, y, k)
  <1>1. L \in Nat /\ \A k \in 1..L : es[k].t \in Int
    BY DEF Places, Keyed, WellFormed
  <1>2. lo \in Int /\ hi \in Int /\ lo <= hi /\ 0 \in lo..hi /\ \A k \in 1..L : es[k].t \in lo..hi
    BY TimesIs
  <1>3. Room(es, m) = (lo - m)..(hi + m)
    BY DEF Room, TimesOf, Largest, Max
  <1>4. IsFiniteSet(freed)
    <2>1. IsFiniteSet(1..L)
      BY <1>1, FS_Interval
    <2> HIDE DEF L
    <2> QED BY <2>1, FS_Subset DEF L
  <1>5. Y \in SUBSET Int /\ IsFiniteSet(Y) /\ n \in Nat /\ m \in Nat /\ n <= m
    <2>1. Y \in SUBSET Int
      OBVIOUS
    <2>2. x \in Surjection(freed, Y)
      BY DEF Surjection
    <2> HIDE DEF Y
    <2>3. IsFiniteSet(Y) /\ n <= m
      BY <1>4, <2>2, FS_Surjection
    <2> QED BY <1>4, <2>1, <2>3, FS_CardinalityType
  <1>6. \A k \in freed : x[k] \in Y /\ x[k] \in Int
    OBVIOUS
  <1> HIDE DEF lo, hi, Y, n, m, L
  <1>7. \A v \in Int : d(v) \in (lo - n)..(hi + n) /\ (lo <= v /\ v <= hi => d(v) = v)
    BY <1>2, <1>5, DrawnInIs DEF n
  <1>8. y \in [freed -> Room(es, m)] /\ \A k \in freed : y[k] = d(x[k])
    <2>1. \A k \in freed : d(x[k]) \in Room(es, m)
      <3> TAKE k \in freed
      <3>1. d(x[k]) \in (lo - n)..(hi + n)
        BY <1>6, <1>7
      <3> HIDE DEF d
      <3> QED BY <1>2, <1>3, <1>5, <3>1
    <2> QED BY <2>1
  <1>9. ASSUME NEW k \in 0..L PROVE g(k) \in Y \cup (lo..hi) /\ g(k) \in Int /\ h(k) = d(g(k)) /\ h(k) \in Int
    <2>1. CASE k = 0
      <3>1. g(k) = 0 /\ h(k) = 0
        BY <2>1 DEF Given
      <3>2. d(0) = 0
        BY <1>2, <1>7
      <3> QED BY <1>2, <3>1, <3>2
    <2>2. CASE k \in freed
      <3>1. k # 0
        BY <2>2 DEF L
      <3>2. g(k) = x[k] /\ h(k) = y[k]
        BY <2>2, <3>1 DEF Given
      <3>3. d(x[k]) \in Int
        <4>1. d(x[k]) \in (lo - n)..(hi + n)
          BY <1>6, <1>7, <2>2
        <4> HIDE DEF d
        <4> QED BY <1>2, <1>5, <4>1
      <3> QED BY <1>6, <1>8, <2>2, <3>2, <3>3
    <2>3. CASE k # 0 /\ k \notin freed
      <3>1. g(k) = es[k].t /\ h(k) = es[k].t
        BY <2>3 DEF Given
      <3>2. es[k].t \in lo..hi
        BY <1>2, <2>3
      <3>3. es[k].t \in Int /\ lo <= es[k].t /\ es[k].t <= hi
        BY <1>2, <3>2
      <3>4. d(es[k].t) = es[k].t
        BY <1>7, <3>3
      <3> QED BY <3>1, <3>2, <3>3, <3>4
    <2> QED BY <2>1, <2>2, <2>3
  <1> HIDE DEF y, g, h
  <1>10. \A a, b \in Y \cup (lo..hi) : a <= b =>
            d(a) <= d(b) /\ d(b) - d(a) <= b - a /\ (a < b => d(a) < d(b))
    BY <1>2, <1>5, DrawnInKeeps
  <1> HIDE DEF d
  <1>11. \A c \in E : c.u \in 0..L /\ c.v \in 0..L /\ c.w \in Int
    <2>1. Edged(E, L)
      BY BoundIsEdged DEF L
    <2> HIDE DEF E
    <2> QED BY <2>1 DEF Edged
  <1>12. ASSUME NEW c \in E PROVE h(c.v) - h(c.u) <= c.w
    <2>1. c.u \in 0..L /\ c.v \in 0..L /\ c.w \in Int /\ g(c.v) - g(c.u) <= c.w
      BY <1>11 DEF MeetsAll, g
    <2> DEFINE a == g(c.u)
               b == g(c.v)
    <2>2. /\ a \in Y \cup (lo..hi) /\ b \in Y \cup (lo..hi) /\ a \in Int /\ b \in Int
          /\ h(c.u) = d(a) /\ h(c.v) = d(b) /\ d(a) \in Int /\ d(b) \in Int
      BY <1>9, <2>1
    <2>3. (a <= b => d(a) <= d(b) /\ d(b) - d(a) <= b - a) /\ (b < a => d(b) < d(a))
      <3>1. a <= b => d(a) <= d(b) /\ d(b) - d(a) <= b - a
        BY <1>10, <2>2
      <3>2. b < a => d(b) < d(a)
        <4> SUFFICES ASSUME b < a PROVE d(b) < d(a)
          OBVIOUS
        <4>1. b <= a
          BY <2>2
        <4> QED BY <1>10, <2>2, <4>1
      <3> QED BY <3>1, <3>2
    <2>4. Pinned(c, es) \/ Chained(c, es) \/ Ruled(c, es)
      BY DEF Binds, KeptOf
    <2>5. CASE Chained(c, es) \/ Ruled(c, es)
      <3>1. -1 <= c.w
        BY <2>5 DEF Chained, Ruled
      <3>2. b - a <= c.w
        BY <2>1
      <3> HIDE DEF a, b
      <3>3. d(b) - d(a) <= c.w
        <4>1. CASE a <= b
          BY <2>1, <2>2, <2>3, <3>2, <4>1
        <4>2. CASE b < a
          BY <2>1, <2>2, <2>3, <3>1, <4>2
        <4> QED BY <2>2, <4>1, <4>2
      <3> QED BY <2>2, <3>3
    <2>6. CASE Pinned(c, es)
      <3>1. c.kind = "pin" /\ c.u \notin freed /\ c.v \notin freed
        BY <2>6 DEF Pinned, KeptOf
      <3>2. \A k \in 0..L : k \notin freed => g(k) = h(k)
        BY DEF g, h, Given
      <3>3. h(c.u) = g(c.u) /\ h(c.v) = g(c.v)
        BY <2>1, <3>1, <3>2
      <3> QED BY <2>1, <3>3
    <2> QED BY <2>4, <2>5, <2>6
  <1>13. MeetsAll(es, freed, y, E)
    BY <1>12 DEF MeetsAll, h
  <1> QED BY <1>8, <1>13 DEF m

-----------------------------------------------------------------------------
\* The covers of the contradictions

GreedyStep(pairs, sofar) ==
    LET left == {p \in pairs : p \cap sofar = {}}
        count(e) == Cardinality({p \in left : e \in p})
    IN IF left = {} THEN {sofar}
       ELSE {sofar \cup {e} : e \in {x \in UNION pairs : \A y \in UNION pairs : count(y) <= count(x)}}

GrownStep(grown, pairs, k) ==
    IF k = 0 THEN {{}} ELSE UNION {GreedyStep(pairs, c) : c \in grown[k - 1]}

(* A step leaves a cover alone and adds an event to what is none.          *)
LEMMA GreedyStepIs ==
    ASSUME NEW pairs, IsFiniteSet(UNION pairs), {} \notin pairs, NEW c \in SUBSET (UNION pairs),
           NEW d \in GreedyStep(pairs, c)
    PROVE  /\ d \in SUBSET (UNION pairs)
           /\ Covers(c, pairs) => d = c
           /\ ~Covers(c, pairs) => Cardinality(d) = Cardinality(c) + 1
  <1> DEFINE left == {p \in pairs : p \cap c = {}}
             count(e) == Cardinality({p \in left : e \in p})
             best == {x \in UNION pairs : \A y \in UNION pairs : count(y) <= count(x)}
  <1>1. Covers(c, pairs) <=> left = {}
    BY DEF Covers
  <1>2. GreedyStep(pairs, c) = IF left = {} THEN {c} ELSE {c \cup {e} : e \in best}
    BY Zenon DEF GreedyStep
  <1>3. \A e : IsFiniteSet({p \in left : e \in p}) /\ count(e) \in Nat
    <2> TAKE e
    <2> DEFINE P == {p \in left : e \in p}
    <2>1. P \subseteq SUBSET (UNION pairs)
      OBVIOUS
    <2>2. IsFiniteSet(SUBSET (UNION pairs))
      BY FS_SUBSET
    <2> HIDE DEF P
    <2>3. IsFiniteSet(P)
      BY <2>1, <2>2, FS_Subset
    <2>4. Cardinality(P) \in Nat
      BY <2>3, FS_CardinalityType
    <2> QED BY <2>3, <2>4 DEF P
  <1>4. CASE left = {}
    BY <1>1, <1>2, <1>4
  <1>5. CASE left # {}
    <2>1. PICK e \in best : d = c \cup {e}
      BY <1>2, <1>5
    <2>2. PICK p \in left : TRUE
      BY <1>5
    <2>3. PICK y \in p : y \in UNION pairs
      <3>1. p \in pairs /\ p # {}
        BY <2>2
      <3> HIDE DEF left
      <3> QED BY <3>1
    <2>4. count(y) # 0
      <3>1. p \in {q \in left : y \in q}
        BY <2>2, <2>3
      <3> DEFINE P == {q \in left : y \in q}
      <3>2. IsFiniteSet(P) /\ P # {}
        BY <1>3, <3>1
      <3> HIDE DEF P
      <3>3. Cardinality(P) # 0
        BY <3>2, FS_EmptySet
      <3> QED BY <3>3 DEF P
    <2>5. e \in UNION pairs /\ count(y) <= count(e)
      BY <2>1, <2>3
    <2>6. count(e) # 0
      <3>1. count(y) \in Nat /\ count(e) \in Nat
        BY <1>3
      <3> HIDE DEF count
      <3> QED BY <2>4, <2>5, <3>1
    <2>7. \E q \in left : e \in q
      <3> SUFFICES ASSUME ~\E q \in left : e \in q PROVE FALSE
        OBVIOUS
      <3>1. {q \in left : e \in q} = {}
        OBVIOUS
      <3>2. count(e) = 0
        BY <3>1, FS_EmptySet
      <3> QED BY <2>6, <3>2
    <2>8. e \notin c
      BY <2>7
    <2>9. IsFiniteSet(c)
      BY FS_Subset
    <2>10. Cardinality(d) = Cardinality(c) + 1
      BY <2>1, <2>8, <2>9, FS_AddElement
    <2> QED BY <1>1, <1>5, <2>1, <2>5, <2>10
  <1> QED BY <1>4, <1>5

(* The recursion has a value.                                              *)
LEMMA GrownExists ==
    ASSUME NEW n \in Nat, NEW pairs
    PROVE  \E grown : grown = [k \in 0..n |-> GrownStep(grown, pairs, k)]
  <1> DEFINE U == {m \in Nat : \E f : \A k \in 0..m : f[k] = GrownStep(f, pairs, k)}
  <1>1. 0 \in U
    <2> DEFINE f == [k \in 0..0 |-> {{}}]
    <2>1. \A k \in 0..0 : f[k] = GrownStep(f, pairs, k)
      BY DEF GrownStep
    <2> QED BY <2>1
  <1>2. ASSUME NEW m \in 1..n, m - 1 \in U PROVE m \in U
    <2>1. PICK f : \A k \in 0..(m - 1) : f[k] = GrownStep(f, pairs, k)
      BY <1>2
    <2> DEFINE g == [k \in 0..m |-> IF k = m THEN GrownStep(f, pairs, m) ELSE f[k]]
    <2>2. \A k \in 0..m : k = m \/ k \in 0..(m - 1)
      OBVIOUS
    <2>3. g[m] = GrownStep(f, pairs, m) /\ \A k \in 0..(m - 1) : g[k] = f[k]
      OBVIOUS
    <2> HIDE DEF g
    <2>4. ASSUME NEW k \in 0..m PROVE GrownStep(g, pairs, k) = GrownStep(f, pairs, k)
      <3>1. CASE k = 0
        BY <3>1 DEF GrownStep
      <3>2. CASE k # 0
        <4>1. k - 1 \in 0..(m - 1)
          BY <3>2
        <4>2. g[k - 1] = f[k - 1]
          BY <2>3, <4>1
        <4> QED BY <4>2 DEF GrownStep
      <3> QED BY <3>1, <3>2
    <2>5. m \in 0..m /\ \A k \in 0..(m - 1) : k \in 0..m
      OBVIOUS
    <2>6. \A k \in 0..m : g[k] = GrownStep(g, pairs, k)
      BY <2>1, <2>2, <2>3, <2>4, <2>5
    <2> QED BY <2>6
  <1> HIDE DEF U
  <1>3. 0..n \subseteq U
    BY <1>1, <1>2, BoundedInduction
  <1>4. n \in U
    BY <1>3
  <1>5. PICK f : \A k \in 0..n : f[k] = GrownStep(f, pairs, k)
    BY <1>4 DEF U
  <1> DEFINE g == [k \in 0..n |-> f[k]]
  <1>6. \A k \in 0..n : g[k] = f[k]
    OBVIOUS
  <1>7. g = [k \in 0..n |-> g[k]]
    OBVIOUS
  <1> HIDE DEF g
  <1>8. ASSUME NEW k \in 0..n PROVE g[k] = GrownStep(g, pairs, k)
    <2>1. CASE k = 0
      BY <1>5, <1>6, <2>1 DEF GrownStep
    <2>2. CASE k # 0
      <3>1. k - 1 \in 0..n
        BY <2>2
      <3>2. g[k - 1] = f[k - 1]
        BY <1>6, <3>1
      <3>3. GrownStep(g, pairs, k) = GrownStep(f, pairs, k)
        BY <3>2 DEF GrownStep
      <3> QED BY <1>5, <1>6, <3>3
    <2> QED BY <2>1, <2>2
  <1>9. g = [k \in 0..n |-> GrownStep(g, pairs, k)]
    BY <1>7, <1>8, Zenon
  <1> QED BY <1>9

(* As many steps as there are events end in covers.                        *)
LEMMA GreedyCovers ==
    ASSUME NEW pairs, IsFiniteSet(UNION pairs), {} \notin pairs, NEW c \in Greedy(pairs)
    PROVE  c \in SUBSET (UNION pairs) /\ Covers(c, pairs)
  <1> DEFINE events == UNION pairs
             n == Cardinality(events)
             grown == CHOOSE f : f = [k \in 0..n |-> GrownStep(f, pairs, k)]
  <1>1. Greedy(pairs) = grown[n]
    BY Zenon DEF Greedy, GrownStep, GreedyStep
  <1>2. n \in Nat
    BY FS_CardinalityType
  <1>3. \A k \in 0..n : grown[k] = GrownStep(grown, pairs, k)
    <2> HIDE DEF n
    <2>1. \E f : f = [k \in 0..n |-> GrownStep(f, pairs, k)]
      BY <1>2, GrownExists
    <2>2. grown = [k \in 0..n |-> GrownStep(grown, pairs, k)]
      BY <2>1, Zenon
    <2> DEFINE g == [k \in 0..n |-> GrownStep(grown, pairs, k)]
    <2>3. \A k \in 0..n : g[k] = GrownStep(grown, pairs, k)
      OBVIOUS
    <2>4. grown = g
      BY <2>2
    <2> HIDE DEF grown, g
    <2> QED BY <2>3, <2>4
  <1> HIDE DEF grown
  <1> DEFINE U == {k \in Nat : \A e \in grown[k] : e \in SUBSET events /\ (Covers(e, pairs) \/ Cardinality(e) >= k)}
  <1>4. 0 \in U
    <2> HIDE DEF n
    <2>1. 0 \in 0..n
      BY <1>2
    <2>2. grown[0] = GrownStep(grown, pairs, 0)
      BY <1>3, <2>1, Zenon
    <2>3. GrownStep(grown, pairs, 0) = {{}}
      BY Zenon DEF GrownStep
    <2>4. Cardinality({}) >= 0
      BY FS_EmptySet
    <2>5. \A e \in grown[0] : e = {}
      BY <2>2, <2>3
    <2>6. \A e \in grown[0] : e \in SUBSET events /\ Cardinality(e) >= 0
      BY <2>4, <2>5
    <2> QED BY <2>6
  <1>5. ASSUME NEW k \in 1..n, k - 1 \in U PROVE k \in U
    <2>1. k \in Nat /\ k \in 0..n /\ k # 0
      BY <1>2
    <2>2. ASSUME NEW d \in grown[k] PROVE d \in SUBSET events /\ (Covers(d, pairs) \/ Cardinality(d) >= k)
      <3>1. grown[k] = UNION {GreedyStep(pairs, e) : e \in grown[k - 1]}
        BY <1>3, <2>1 DEF GrownStep
      <3>2. PICK e \in grown[k - 1] : d \in GreedyStep(pairs, e)
        BY <2>2, <3>1
      <3>3. e \in SUBSET events /\ (Covers(e, pairs) \/ Cardinality(e) >= k - 1)
        BY <1>5, <3>2
      <3>4. /\ d \in SUBSET (UNION pairs)
            /\ Covers(e, pairs) => d = e
            /\ ~Covers(e, pairs) => Cardinality(d) = Cardinality(e) + 1
        BY <3>2, <3>3, GreedyStepIs
      <3>5. CASE Covers(e, pairs)
        BY <3>4, <3>5
      <3>6. CASE ~Covers(e, pairs)
        <4>1. Cardinality(d) = Cardinality(e) + 1 /\ Cardinality(e) >= k - 1
          BY <3>3, <3>4, <3>6
        <4>2. Cardinality(e) \in Nat
          BY <3>3, FS_Subset, FS_CardinalityType
        <4>3. Cardinality(d) >= k
          BY <2>1, <4>1, <4>2
        <4> QED BY <3>4, <4>3
      <3> QED BY <3>5, <3>6
    <2> HIDE DEF events
    <2> QED BY <2>1, <2>2
  <1> HIDE DEF U, n
  <1>6. 0..n \subseteq U
    BY <1>2, <1>4, <1>5, BoundedInduction
  <1>7. n \in U /\ c \in grown[n]
    BY <1>1, <1>2, <1>6
  <1>8. c \in SUBSET events /\ (Covers(c, pairs) \/ Cardinality(c) >= n)
    BY <1>7 DEF U
  <1>9. CASE Cardinality(c) >= n
    <2>1. Cardinality(c) <= n /\ (Cardinality(c) = n => c = events) /\ Cardinality(c) \in Nat
      BY <1>8, FS_Subset, FS_CardinalityType DEF n
    <2>2. c = events
      BY <1>2, <1>9, <2>1
    <2>3. Covers(c, pairs)
      BY <2>2 DEF Covers
    <2> QED BY <1>8, <2>3
  <1> QED BY <1>8, <1>9

(* So every correction set covers what is left, with what is on hand.      *)
LEMMA CorrectionSetsCover ==
    ASSUME NEW pairs, IsFiniteSet(UNION pairs), {} \notin pairs, NEW cap, NEW already,
           NEW x \in CorrectionSets(pairs, cap, already)
    PROVE  x.events \in SUBSET (UNION pairs) /\ Covers(already \cup x.events, pairs)
  <1> DEFINE left == {p \in pairs : p \cap already = {}}
             events == UNION left
             covers == {c \in SUBSET events : Covers(c, left)}
             least == {c \in covers : \A y \in covers : Cardinality(c) <= Cardinality(y)}
  <1>1. CorrectionSets(pairs, cap, already) =
            IF Cardinality(events) <= cap THEN {[events |-> c, greedy |-> FALSE] : c \in least}
            ELSE {[events |-> c, greedy |-> TRUE] : c \in Greedy(left)}
    BY Zenon DEF CorrectionSets
  <1>2. events \subseteq UNION pairs /\ {} \notin left
    OBVIOUS
  <1>3. x.events \in SUBSET events /\ Covers(x.events, left)
    <2>1. CASE Cardinality(events) <= cap
      <3> HIDE DEF least
      <3>1. PICK c \in least : x = [events |-> c, greedy |-> FALSE]
        BY <1>1, <2>1
      <3>2. c \in covers
        BY DEF least
      <3> QED BY <3>1, <3>2
    <2>2. CASE ~(Cardinality(events) <= cap)
      <3>1. PICK c \in Greedy(left) : x = [events |-> c, greedy |-> TRUE]
        BY <1>1, <2>2
      <3>2. IsFiniteSet(events)
        <4> HIDE DEF events
        <4> QED BY <1>2, FS_Subset
      <3> HIDE DEF left
      <3>3. c \in SUBSET (UNION left) /\ Covers(c, left)
        BY <1>2, <3>2, GreedyCovers
      <3> QED BY <3>1, <3>3
    <2> QED BY <2>1, <2>2
  <1>4. Covers(already \cup x.events, pairs)
    <2> SUFFICES ASSUME NEW p \in pairs PROVE p \cap (already \cup x.events) # {}
      BY DEF Covers
    <2>1. CASE p \cap already = {}
      <3>1. p \in left
        BY <2>1
      <3>2. p \cap x.events # {}
        BY <1>3, <3>1 DEF Covers
      <3> QED BY <3>2
    <2>2. CASE p \cap already # {}
      BY <2>2
    <2> QED BY <2>1, <2>2
  <1> QED BY <1>2, <1>3, <1>4

-----------------------------------------------------------------------------
\* The result of a pass

\* The pass frees the places of `chosen': what the corrections name, and
\* something of every contradiction.
Passed(result, S, es, cs, chosen) ==
    /\ chosen \in SUBSET (1..Len(es)) /\ result.events = {es[k] : k \in chosen}
    /\ result.exhausted <=> chosen # {} /\ ~Feasible(es, cs, chosen)
    /\ \A v \in Violations(es, cs) : v.kind = "rule" => {v.u, v.v} \cap chosen # {}
    /\ (\A c \in cs : c.kind # "rule") => result.events = Corrections(S)

RuledPairs(es, cs) == {{c.u, c.v} : c \in {v \in Violations(es, cs) : v.kind = "rule"}}
MonotonicOf(es, S) == {k \in DOMAIN es : es[k] \in Corrections(S)}

LEMMA PassIs ==
    ASSUME NEW S, Keyed(S), NEW rules,
           \A i \in rules : i.left \in S /\ i.right \in S /\ i.within \in Nat,
           NEW cap, NEW result \in RunPass(S, rules, cap)
    PROVE  \E chosen : Passed(result, S, Sequenced(S), Constraints(Sequenced(S), rules), chosen)
  <1> DEFINE es == Sequenced(S)
             cs == Constraints(es, rules)
             mono == MonotonicOf(es, S)
             pairs == RuledPairs(es, cs)
             res(x) == [events |-> {es[k] : k \in mono \cup x.events}, greedy |-> x.greedy,
                        exhausted |-> mono \cup x.events # {} /\ ~Feasible(es, cs, mono \cup x.events)]
  <1>1. RunPass(S, rules, cap) = {res(x) : x \in CorrectionSets(pairs, cap, mono)}
    BY Zenon DEF RunPass, RuledPairs, MonotonicOf
  <1> HIDE DEF mono, pairs
  <1>2. PICK x \in CorrectionSets(pairs, cap, mono) : result = res(x)
    BY <1>1
  <1>3. Places(es, S)
    BY SequencedPlaces
  <1> HIDE DEF es
  <1>4. Binds(cs, es)
    BY <1>3, ConstraintsBind
  <1> HIDE DEF cs
  <1>5. /\ Len(es) \in Nat /\ DOMAIN es = 1..Len(es)
        /\ (\A k \in 1..Len(es) : es[k] \in S) /\ \A r \in S : \E k \in 1..Len(es) : es[k] = r
    BY <1>3 DEF Places
  <1>6. {} \notin pairs /\ UNION pairs \in SUBSET (1..Len(es))
    <2>1. \A c \in cs : c.kind = "rule" => c.u \in 1..Len(es) /\ c.v \in 1..Len(es)
      BY <1>4 DEF Binds, Pinned, Chained, Ruled
    <2>2. \A v \in Violations(es, cs) : v \in cs
      BY DEF Violations
    <2>3. ASSUME NEW p \in pairs PROVE p # {} /\ p \subseteq 1..Len(es)
      <3>1. PICK c \in Violations(es, cs) : c.kind = "rule" /\ p = {c.u, c.v}
        BY <2>3 DEF RuledPairs, pairs
      <3>2. c.u \in 1..Len(es) /\ c.v \in 1..Len(es)
        BY <2>1, <2>2, <3>1
      <3> QED BY <3>1, <3>2
    <2> QED BY <2>3
  <1>7. IsFiniteSet(UNION pairs)
    <2>1. IsFiniteSet(1..Len(es))
      BY <1>5, FS_Interval
    <2> QED BY <1>6, <2>1, FS_Subset
  <1>8. x.events \in SUBSET (UNION pairs) /\ Covers(mono \cup x.events, pairs)
    BY <1>2, <1>6, <1>7, CorrectionSetsCover
  <1> DEFINE chosen == mono \cup x.events
  <1>9. chosen \in SUBSET (1..Len(es))
    BY <1>5, <1>6, <1>8 DEF MonotonicOf, mono
  <1>10. result.events = {es[k] : k \in chosen} /\ (result.exhausted <=> chosen # {} /\ ~Feasible(es, cs, chosen))
    BY <1>2
  <1>11. ASSUME NEW v \in Violations(es, cs), v.kind = "rule" PROVE {v.u, v.v} \cap chosen # {}
    <2>1. {v.u, v.v} \in pairs
      BY <1>11 DEF RuledPairs, pairs
    <2> HIDE DEF chosen
    <2> QED BY <1>8, <2>1 DEF Covers, chosen
  <1>12. ASSUME \A c \in cs : c.kind # "rule" PROVE result.events = Corrections(S)
    <2>1. pairs = {}
      BY <1>12 DEF RuledPairs, pairs, Violations
    <2>2. x.events = {}
      BY <1>8, <2>1
    <2>3. chosen = mono
      BY <2>2
    <2>4. Corrections(S) \in SUBSET S
      BY CorrectionsOf
    <2>5. {es[k] : k \in mono} = Corrections(S)
      BY <1>5, <2>4 DEF MonotonicOf, mono
    <2> QED BY <1>10, <2>3, <2>5
  <1> HIDE DEF chosen
  <1>13. Passed(result, S, es, cs, chosen)
    BY <1>9, <1>10, <1>11, <1>12 DEF Passed
  <1> QED BY <1>13 DEF es, cs

\* The instant of a place when the records of `freed' follow the others.
FollowTime(es, freed, lo, k) ==
    Largest({lo} \cup {es[j].t : j \in {i \in (1..Len(es)) \ freed : es[i].src = es[k].src /\ es[i].seq <= es[k].seq}})

(* With no rule the corrections leave nothing that contradicts.            *)
LEMMA CorrectedMeets ==
    ASSUME NEW S, Keyed(S), NEW es, Places(es, S), NEW cs, Binds(cs, es), \A c \in cs : c.kind # "rule",
           NEW freed \in SUBSET (1..Len(es)), InOrderOf(S \ {es[k] : k \in freed})
    PROVE  \E x \in [freed -> Int] : MeetsAll(es, freed, x, KeptOf(cs, freed))
  <1> DEFINE L == Len(es)
             E == KeptOf(cs, freed)
             lo == Min(TimesOf(es))
             hi == Largest(TimesOf(es))
             T(k) == {lo} \cup {es[j].t : j \in {i \in (1..L) \ freed : es[i].src = es[k].src /\ es[i].seq <= es[k].seq}}
             y(k) == FollowTime(es, freed, lo, k)
             x == [k \in freed |-> y(k)]
  <1>1. /\ L \in Nat /\ (\A j, k \in 1..L : es[j] = es[k] => j = k)
        /\ \A k \in 1..L : es[k] \in S /\ es[k].t \in Int /\ es[k].seq \in Int
    BY DEF Places, Keyed, WellFormed
  <1>2. lo \in Int /\ hi \in Int /\ lo <= hi /\ \A k \in 1..L : es[k].t \in lo..hi
    BY TimesIs
  <1> HIDE DEF lo, hi
  <1>3. ASSUME NEW k \in 1..L PROVE y(k) = Largest(T(k)) /\ Largest(T(k)) \in T(k) /\ (\A a \in T(k) : Largest(T(k)) >= a) /\ T(k) \in SUBSET Int
    <2>1. T(k) \in SUBSET Int /\ T(k) # {} /\ \A a \in T(k) : a <= hi
      BY <1>1, <1>2
    <2>2. y(k) = Largest(T(k))
      BY Zenon DEF FollowTime
    <2> HIDE DEF T, y
    <2> QED BY <1>2, <2>1, <2>2, HighestTaken
  <1> HIDE DEF y, T
  <1>4. \A k \in 1..L : y(k) \in Int
    BY <1>3
  <1>5. ASSUME NEW k \in (1..L) \ freed PROVE y(k) = es[k].t
    <2>1. es[k].t \in T(k)
      BY <1>1 DEF T
    <2>2. ASSUME NEW a \in T(k) PROVE a <= es[k].t
      <3>1. a = lo \/ \E j \in (1..L) \ freed : a = es[j].t /\ es[j].src = es[k].src /\ es[j].seq <= es[k].seq
        BY <2>2 DEF T
      <3>2. CASE a = lo
        BY <1>2, <3>2
      <3>3. ASSUME NEW j \in (1..L) \ freed, a = es[j].t, es[j].src = es[k].src, es[j].seq <= es[k].seq
            PROVE  a <= es[k].t
        <4> DEFINE F == {es[i] : i \in freed}
        <4>1. es[j] \in S \ F /\ es[k] \in S \ F
          BY <1>1 DEF L
        <4>2. CASE es[j].seq < es[k].seq
          BY <3>3, <4>1, <4>2 DEF InOrderOf
        <4>3. CASE ~(es[j].seq < es[k].seq)
          <5>1. es[j].seq = es[k].seq
            BY <1>1, <3>3, <4>3
          <5>2. es[j] = es[k]
            BY <3>3, <4>1, <5>1 DEF Keyed
          <5> QED BY <1>1, <3>3, <5>2
        <4> QED BY <4>2, <4>3
      <3> QED BY <3>1, <3>2, <3>3
    <2>3. y(k) \in T(k) /\ y(k) >= es[k].t /\ y(k) \in Int
      BY <1>3, <1>4, <2>1
    <2>4. y(k) <= es[k].t
      BY <2>2, <2>3
    <2> QED BY <1>1, <2>3, <2>4
  <1>6. x \in [freed -> Int] /\ \A k \in freed : x[k] = y(k)
    BY <1>4
  <1> HIDE DEF x
  <1>7. ASSUME NEW k \in 1..L PROVE Given(es, freed, x, k) = y(k)
    BY <1>5, <1>6 DEF Given
  <1>8. ASSUME NEW c \in E PROVE Given(es, freed, x, c.v) - Given(es, freed, x, c.u) <= c.w
    <2>1. c \in cs /\ ~(c.kind = "pin" /\ (c.u \in freed \/ c.v \in freed))
      BY DEF KeptOf
    <2>2. Pinned(c, es) \/ Chained(c, es)
      BY <2>1 DEF Binds, Ruled
    <2>3. CASE Pinned(c, es)
      <3>1. c.u \notin freed /\ c.v \notin freed
        BY <2>1, <2>3 DEF Pinned
      <3>2. CASE c.u = 0 /\ c.v \in 1..L /\ c.w = es[c.v].t
        <4>1. Given(es, freed, x, c.u) = 0 /\ Given(es, freed, x, c.v) = es[c.v].t /\ es[c.v].t \in Int
          BY <1>1, <3>1, <3>2 DEF Given
        <4> QED BY <3>2, <4>1
      <3>3. CASE c.v = 0 /\ c.u \in 1..L /\ c.w = -es[c.u].t
        <4>1. Given(es, freed, x, c.v) = 0 /\ Given(es, freed, x, c.u) = es[c.u].t /\ es[c.u].t \in Int
          BY <1>1, <3>1, <3>3 DEF Given
        <4> QED BY <3>3, <4>1
      <3> QED BY <2>3, <3>2, <3>3 DEF Pinned
    <2>4. CASE Chained(c, es)
      <3>1. /\ c.u \in 1..L /\ c.v \in 1..L /\ c.w = 0
            /\ es[c.u].src = es[c.v].src /\ es[c.v].seq < es[c.u].seq
        BY <2>4 DEF Chained
      <3> DEFINE u == c.u
                 v == c.v
      <3>2. Given(es, freed, x, v) = y(v) /\ Given(es, freed, x, u) = y(u)
        BY <1>7, <3>1
      <3> HIDE DEF u, v
      <3>3. u \in 1..L /\ v \in 1..L /\ es[u].src = es[v].src /\ es[v].seq < es[u].seq
        BY <3>1 DEF u, v
      <3>4. T(v) \subseteq T(u)
        <4> SUFFICES ASSUME NEW a \in T(v) PROVE a \in T(u)
          OBVIOUS
        <4>1. a = lo \/ \E j \in (1..L) \ freed : a = es[j].t /\ es[j].src = es[v].src /\ es[j].seq <= es[v].seq
          BY DEF T
        <4>2. ASSUME NEW j \in (1..L) \ freed, a = es[j].t, es[j].src = es[v].src, es[j].seq <= es[v].seq
              PROVE  a \in T(u)
          <5>1. es[j].seq <= es[u].seq /\ es[j].src = es[u].src
            BY <1>1, <3>3, <4>2
          <5> QED BY <4>2, <5>1 DEF T
        <4> QED BY <4>1, <4>2 DEF T
      <3>5. y(v) <= y(u)
        <4>1. y(v) \in T(u)
          BY <1>3, <3>3, <3>4
        <4>2. y(u) >= y(v) /\ y(u) \in Int /\ y(v) \in Int
          BY <1>3, <1>4, <3>3, <4>1
        <4> QED BY <4>2
      <3>6. y(v) - y(u) <= 0
        BY <1>4, <3>3, <3>5
      <3> QED BY <3>1, <3>2, <3>6 DEF u, v
    <2> QED BY <2>2, <2>3, <2>4
  <1>9. MeetsAll(es, freed, x, E)
    BY <1>8 DEF MeetsAll
  <1> QED BY <1>6, <1>9

-----------------------------------------------------------------------------
\* What the pass over the sealed records found

(* The records read back from the bundle have numbers of their own.        *)
LEMMA RecordsKeyed ==
    ASSUME IntakeInd
    PROVE  Keyed(Records)
  <1>1. Keyed(Kept(cands))
    BY KeptKeyed
  <1>2. Records \in SUBSET Kept(cands)
    <2> SUFFICES ASSUME NEW r \in Records PROVE r \in Kept(cands)
      OBVIOUS
    <2>1. PICK s \in Sources : r \in {bundle[s][k].rec : k \in DOMAIN bundle[s]}
      BY Zenon DEF Records
    <2>2. PICK k \in DOMAIN bundle[s] : r = bundle[s][k].rec
      BY <2>1
    <2>3. Timed(bundle[s]) /\ \A j \in 1..Len(bundle[s]) : bundle[s][j].rec \in Of(Kept(cands), s)
      BY BundleTimed
    <2>4. DOMAIN bundle[s] = 1..Len(bundle[s])
      BY <2>3 DEF Timed
    <2> QED BY <2>2, <2>3, <2>4 DEF Of
  <1>3. IsFiniteSet(Records)
    BY <1>1, <1>2, FS_Subset DEF Keyed
  <1> QED BY <1>1, <1>2, <1>3 DEF Keyed

(* With no rule, what the pass disputes is what monotonic_corrections      *)
(* takes, and the rest can be satisfied.                                   *)
LEMMA UnruledPass ==
    ASSUME NEW S, Keyed(S), NEW cap, NEW result \in RunPass(S, {}, cap)
    PROVE  result.events = Corrections(S) /\ ~result.exhausted
  <1> DEFINE es == Sequenced(S)
             cs == Constraints(es, {})
  <1>1. Places(es, S)
    BY SequencedPlaces
  <1>2. PICK chosen : Passed(result, S, es, cs, chosen)
    <2>1. \E chosen : Passed(result, S, Sequenced(S), Constraints(Sequenced(S), {}), chosen)
      BY PassIs
    <2> QED BY <2>1
  <1> HIDE DEF es
  <1>3. Binds(cs, es) /\ \A c \in cs : c.kind # "rule"
    BY <1>1, ConstraintsBind
  <1> HIDE DEF cs
  <1>4. result.events = Corrections(S) /\ result.events = {es[k] : k \in chosen} /\ chosen \in SUBSET (1..Len(es))
    BY <1>2, <1>3 DEF Passed
  <1>5. InOrderOf(S \ {es[k] : k \in chosen})
    <2>1. InOrderOf(S \ Corrections(S))
      BY CorrectionsOrder
    <2> QED BY <1>4, <2>1
  <1>6. \E x \in [chosen -> Int] : MeetsAll(es, chosen, x, KeptOf(cs, chosen))
    BY <1>1, <1>3, <1>4, <1>5, CorrectedMeets
  <1>7. Feasible(es, cs, chosen)
    <2>1. Solvable(KeptOf(cs, chosen), Len(es))
      BY <1>1, <1>3, <1>4, <1>6, SolvableIs
    <2>2. Edged(KeptOf(cs, chosen), Len(es))
      BY <1>1, <1>3, BoundIsEdged
    <2>3. Len(es) \in Nat
      BY <1>1 DEF Places
    <2> QED BY <2>1, <2>2, <2>3, FeasibleIs
  <1> QED BY <1>2, <1>4, <1>7 DEF Passed

LEMMA DisputeMinimal ==
    ASSUME IntakeInd, JudgeInd
    PROVE  CorrectionIsMinimum
  <1> SUFFICES ASSUME phase = "done"
               PROVE  /\ doc.disputed \subseteq Records /\ InOrderOf(Records \ doc.disputed)
                      /\ \A s \in Sources : \A gone \in SUBSET Of(Records, s) :
                            InOrderOf(Of(Records, s) \ gone) => Cardinality(Of(doc.disputed, s)) <= Cardinality(gone)
                      /\ NoTamperToken(doc) <=> InOrderOf(Records)
                      /\ ~found.exhausted
    BY Zenon DEF CorrectionIsMinimum, InOrderOf
  <1> DEFINE C == Corrections(Records)
  <1>1. Keyed(Records)
    BY RecordsKeyed
  <1>2. found \in RunPass(Records, {}, ExactCap)
    BY DEF JudgeInd
  <1>3. found.events = C /\ ~found.exhausted
    BY <1>1, <1>2, UnruledPass
  <1>4. doc.disputed = C /\ \A s \in Sources : doc.sources[s].suspected <=> \E e \in C : e.src = s
    <2>1. doc = Disputed(Document(bundle, profile.body, used.flags, {}), C)
      BY <1>3 DEF JudgeInd
    <2> DEFINE d == Document(bundle, profile.body, used.flags, {})
    <2>2. d.disputed = {} /\ \A s \in Sources : d.sources[s] = SourceLiveness(bundle[s], s, profile.body, used.flags, {})
      BY DEF Document
    <2> HIDE DEF C
    <2>3. doc.disputed = C
      BY <2>1 DEF Disputed, Document
    <2>4. ASSUME NEW s \in Sources PROVE doc.sources[s].suspected <=> \E e \in C : e.src = s
      <3>1. doc.sources[s] = [SourceLiveness(bundle[s], s, profile.body, used.flags, {}) EXCEPT !.suspected = \E e \in C : e.src = s]
        BY <2>1, <2>2 DEF Disputed, Document
      <3> QED BY <3>1 DEF SourceLiveness
    <2> QED BY <2>3, <2>4
  <1>5. C \in SUBSET Records /\ \A s : Of(C, s) = Corrected(Records, s)
    BY <1>1, CorrectionsOf
  <1>6. InOrderOf(Records \ C) /\ (InOrderOf(Records) <=> C = {})
    BY <1>1, CorrectionsOrder
  <1>7. ASSUME NEW s \in Sources, NEW gone \in SUBSET Of(Records, s), InOrderOf(Of(Records, s) \ gone)
        PROVE  Cardinality(Of(C, s)) <= Cardinality(gone)
    BY <1>1, <1>5, <1>7, CorrectedIs
  <1>8. NoTamperToken(doc) <=> C = {}
    <2>1. \A e \in C : e.src \in Sources
      BY <1>1, <1>5 DEF Keyed, WellFormed
    <2> HIDE DEF C
    <2> QED BY <1>4, <2>1 DEF NoTamperToken
  <1> HIDE DEF C
  <1> QED BY <1>3, <1>4, <1>5, <1>6, <1>7, <1>8

(* With rules, the bounds of Room are as good as none: the freed instants  *)
(* may lie anywhere.                                                       *)
LEMMA RoomSuffices ==
    ASSUME NEW S, Keyed(S), NEW es, Places(es, S), NEW cs, Binds(cs, es), NEW freed \in SUBSET (1..Len(es))
    PROVE  Feasible(es, cs, freed)
             <=> \E x \in [freed -> Room(es, Cardinality(freed))] : MeetsAll(es, freed, x, KeptOf(cs, freed))
  <1>1. Feasible(es, cs, freed) <=> Solvable(KeptOf(cs, freed), Len(es))
    <2>1. Edged(KeptOf(cs, freed), Len(es))
      BY BoundIsEdged
    <2>2. Len(es) \in Nat
      BY DEF Places
    <2> QED BY <2>1, <2>2, FeasibleIs
  <1>2. Solvable(KeptOf(cs, freed), Len(es)) <=> \E x \in [freed -> Int] : MeetsAll(es, freed, x, KeptOf(cs, freed))
    BY SolvableIs
  <1>3. ASSUME NEW x \in [freed -> Int], MeetsAll(es, freed, x, KeptOf(cs, freed))
        PROVE  \E y \in [freed -> Room(es, Cardinality(freed))] : MeetsAll(es, freed, y, KeptOf(cs, freed))
    BY <1>3, RoomEnough
  <1>4. \A y \in [freed -> Room(es, Cardinality(freed))] : y \in [freed -> Int]
    <2>1. Room(es, Cardinality(freed)) \in SUBSET Int
      <3>1. \A a, b : a..b \in SUBSET Int
        OBVIOUS
      <3> QED BY <3>1, Zenon DEF Room
    <2> QED BY <2>1
  <1> QED BY <1>1, <1>2, <1>3, <1>4

LEMMA FeasibleExact ==
    ASSUME IntakeInd, JudgeInd
    PROVE  FeasibleIsExact
  <1> DEFINE es == Sequenced(Records)
             cs == Constraints(es, used.rules)
             freed == {k \in DOMAIN es : es[k] \in found.events}
             at(x, k) == IF k = 0 THEN 0 ELSE IF k \in freed THEN x[k] ELSE es[k].t
             kept == {c \in cs : ~(c.kind = "pin" /\ (c.u \in freed \/ c.v \in freed))}
  <1> SUFFICES ASSUME phase = "passed"
               PROVE  /\ \A v \in Violations(es, cs) : v.kind = "rule" => {v.u, v.v} \cap freed # {}
                      /\ freed # {} =>
                            (found.exhausted <=> ~\E x \in [freed -> Room(es, Cardinality(freed))] :
                                                     \A c \in kept : at(x, c.v) - at(x, c.u) <= c.w)
    BY Zenon DEF FeasibleIsExact
  <1>1. Keyed(Records)
    BY RecordsKeyed
  <1>2. Places(es, Records)
    BY <1>1, SequencedPlaces
  <1>3. PassInv(found, Records, used.rules)
    BY DEF JudgeInd
  <1>4. \A i \in used.rules : i.left \in Records /\ i.right \in Records /\ i.within \in Nat
    BY <1>3, RuleSeqsAssumption DEF PassInv
  <1>5. PICK chosen : Passed(found, Records, es, cs, chosen)
    <2>1. \E chosen : Passed(found, Records, Sequenced(Records), Constraints(Sequenced(Records), used.rules), chosen)
      BY <1>1, <1>3, <1>4, PassIs DEF PassInv
    <2> QED BY <2>1
  <1>6. Binds(cs, es)
    BY <1>1, <1>2, <1>4, ConstraintsBind
  <1>7. \A x, c : at(x, c) = Given(es, freed, x, c)
    BY Zenon DEF Given
  <1>8. kept = KeptOf(cs, freed)
    BY Zenon DEF KeptOf
  <1> HIDE DEF es, cs, at, kept
  <1>9. freed = chosen
    <2>1. chosen \in SUBSET (1..Len(es)) /\ found.events = {es[k] : k \in chosen}
      BY <1>5 DEF Passed
    <2>2. DOMAIN es = 1..Len(es) /\ \A j, k \in 1..Len(es) : es[j] = es[k] => j = k
      BY <1>2 DEF Places
    <2>3. chosen \subseteq freed
      <3> SUFFICES ASSUME NEW k \in chosen PROVE k \in DOMAIN es /\ es[k] \in found.events
        OBVIOUS
      <3> QED BY <2>1, <2>2
    <2>4. ASSUME NEW k \in freed PROVE k \in chosen
      <3>1. k \in 1..Len(es) /\ es[k] \in found.events
        BY <2>2
      <3>2. PICK j \in chosen : es[k] = es[j]
        BY <2>1, <3>1
      <3>3. j = k
        BY <2>1, <2>2, <3>1, <3>2
      <3> QED BY <3>2, <3>3
    <2> HIDE DEF freed
    <2> QED BY <2>3, <2>4
  <1>10. freed \in SUBSET (1..Len(es))
    BY <1>5, <1>9 DEF Passed
  <1> HIDE DEF freed
  <1>11. \A v \in Violations(es, cs) : v.kind = "rule" => {v.u, v.v} \cap freed # {}
    BY <1>5, <1>9, Zenon DEF Passed
  <1>12. ASSUME freed # {}
         PROVE  found.exhausted <=> ~\E x \in [freed -> Room(es, Cardinality(freed))] :
                                        \A c \in kept : at(x, c.v) - at(x, c.u) <= c.w
    <2>1. found.exhausted <=> ~Feasible(es, cs, freed)
      BY <1>5, <1>9, <1>12 DEF Passed
    <2>2. Feasible(es, cs, freed)
            <=> \E x \in [freed -> Room(es, Cardinality(freed))] : MeetsAll(es, freed, x, KeptOf(cs, freed))
      BY <1>1, <1>2, <1>6, <1>10, RoomSuffices
    <2>3. \A x : MeetsAll(es, freed, x, KeptOf(cs, freed)) <=> \A c \in kept : at(x, c.v) - at(x, c.u) <= c.w
      BY <1>7, <1>8, Zenon DEF MeetsAll
    <2> QED BY <2>1, <2>2, <2>3, Zenon
  <1> QED BY <1>11, <1>12

(* The temporal pass disputes no more records than it must, a source keeps *)
(* its token only if its instants ascend with its numbers, and Bellman-Ford*)
(* says truly whether what the pass leaves can be satisfied.               *)
THEOREM DisputeExact == Spec => []DisputeIsExact
  <1>1. IntakeInd /\ JudgeInd => DisputeIsExact
    BY DisputeMinimal, FeasibleExact DEF DisputeIsExact
  <1> QED BY <1>1, IntakeInvariant, JudgeInvariant, PTL

=============================================================================
