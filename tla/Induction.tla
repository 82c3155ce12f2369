----------------------------- MODULE Induction -----------------------------
(***************************************************************************)
(* Induction principles stated over sets, so that the provers can apply    *)
(* them: the recursive functions of the models are reasoned about with     *)
(* these and with nothing else. Sums over finite sets, finite sets listed  *)
(* in an order, and systems of difference constraints.                     *)
(***************************************************************************)
EXTENDS Integers, FiniteSets, Sequences, WellFoundedInduction, FiniteSetTheorems, SequenceTheorems, TLAPS

(* Every non-empty set of naturals has a least element. *)
LEMMA LeastNat ==
    ASSUME NEW T \in SUBSET Nat, T # {}
    PROVE  \E n \in T : \A m \in T : n <= m
  <1> DEFINE LT == OpToRel(<, Nat)
  <1>1. IsWellFoundedOn(LT, Nat)
    BY NatLessThanWellFounded
  <1>2. \A a, b \in Nat : a < b => <<a, b>> \in LT
    BY DEF OpToRel
  <1> HIDE DEF LT
  <1>3. PICK x \in T : \A y \in T : ~(<<y, x>> \in LT)
    BY <1>1, WFMin
  <1>4. ASSUME NEW m \in T PROVE ~(m < x)
    <2>1. m \in Nat /\ x \in Nat
      OBVIOUS
    <2> QED BY <1>2, <1>3, <2>1, Zenon
  <1>5. ASSUME NEW m \in T PROVE x <= m
    <2>1. m \in Nat /\ x \in Nat
      OBVIOUS
    <2> QED BY <1>4, <2>1
  <1> QED BY <1>5

(* What holds of 0 and of the successor of each number it holds of holds   *)
(* of every number.                                                        *)
LEMMA NatSetInduction ==
    ASSUME NEW S, 0 \in S, \A n \in Nat : n \in S => n + 1 \in S
    PROVE  Nat \subseteq S
  <1> DEFINE T == Nat \ S
  <1> SUFFICES ASSUME T # {} PROVE FALSE
    OBVIOUS
  <1>1. PICK n \in T : \A m \in T : n <= m
    BY LeastNat
  <1>2. n - 1 \in Nat /\ n - 1 \notin T
    BY <1>1
  <1> QED BY <1>2

(* The same up to a bound. *)
LEMMA BoundedInduction ==
    ASSUME NEW N \in Nat, NEW S, 0 \in S,
           \A n \in 1..N : n - 1 \in S => n \in S
    PROVE  0..N \subseteq S
  <1> DEFINE U == {n \in Nat : n <= N => n \in S}
  <1>1. 0 \in U
    OBVIOUS
  <1>2. ASSUME NEW n \in Nat, n \in U PROVE n + 1 \in U
    BY <1>2
  <1> HIDE DEF U
  <1>3. Nat \subseteq U
    BY <1>1, <1>2, NatSetInduction
  <1> QED BY <1>3 DEF U

(* A subset of a finite set can be completed, inside it, to any size in    *)
(* between.                                                                *)
LEMMA SetOfEachSize ==
    ASSUME NEW S, IsFiniteSet(S), NEW K \in SUBSET S,
           NEW n \in Nat, Cardinality(K) <= n, n <= Cardinality(S)
    PROVE  \E J \in SUBSET S : K \subseteq J /\ Cardinality(J) = n
  <1> DEFINE U == {m \in Nat : m <= n => \E J \in SUBSET S :
                        K \subseteq J /\ IsFiniteSet(J) /\ Cardinality(J) <= n
                                      /\ m <= Cardinality(J)}
  <1>0. IsFiniteSet(K) /\ Cardinality(K) \in Nat
    BY FS_Subset, FS_CardinalityType
  <1>1. 0 \in U
    BY <1>0
  <1>2. ASSUME NEW m \in Nat, m \in U PROVE m + 1 \in U
    <2> SUFFICES ASSUME m + 1 <= n
                 PROVE  \E J \in SUBSET S : K \subseteq J /\ IsFiniteSet(J)
                                 /\ Cardinality(J) <= n /\ m + 1 <= Cardinality(J)
      OBVIOUS
    <2>1. PICK J \in SUBSET S : K \subseteq J /\ IsFiniteSet(J)
                                 /\ Cardinality(J) <= n /\ m <= Cardinality(J)
      BY <1>2
    <2>2. Cardinality(J) \in Nat /\ Cardinality(S) \in Nat
      BY <2>1, FS_CardinalityType
    <2>3. CASE m + 1 <= Cardinality(J)
      BY <2>1, <2>3
    <2>4. CASE ~(m + 1 <= Cardinality(J))
      <3>1. J # S
        BY <2>2, <2>4
      <3>2. PICK x \in S : x \notin J
        BY <3>1
      <3>3. IsFiniteSet(J \cup {x}) /\ Cardinality(J \cup {x}) = Cardinality(J) + 1
        BY <2>1, <3>2, FS_AddElement
      <3>4. K \subseteq J \cup {x} /\ J \cup {x} \in SUBSET S
        BY <2>1
      <3> QED BY <2>1, <2>2, <2>4, <3>3, <3>4
    <2> QED BY <2>3, <2>4
  <1> HIDE DEF U
  <1>3. n \in U
    BY <1>1, <1>2, NatSetInduction
  <1>4. PICK J \in SUBSET S : K \subseteq J /\ IsFiniteSet(J) /\ Cardinality(J) <= n
                                   /\ n <= Cardinality(J)
    BY <1>3 DEF U
  <1>5. Cardinality(J) \in Nat
    BY <1>4, FS_CardinalityType
  <1> QED BY <1>4, <1>5

-----------------------------------------------------------------------------
\* Finite sets

Imaged(g, S) == {g[x] : x \in S}

(* The image of a finite set is finite. *)
LEMMA ImageFinite ==
    ASSUME NEW S, IsFiniteSet(S), NEW g
    PROVE  IsFiniteSet(Imaged(g, S))
  <1> DEFINE T == {g[x] : x \in S}
             f == [x \in S |-> g[x]]
  <1>1. f \in Surjection(S, T)
    BY DEF Surjection
  <1> QED BY <1>1, FS_Surjection DEF Imaged

-----------------------------------------------------------------------------
\* Sums

\* h is the sum of f over each subset of S, in whatever order it is taken.
IsSum(h, f, S) ==
    /\ h \in [SUBSET S -> Int]
    /\ h[{}] = 0
    /\ \A s \in SUBSET S : \A x \in s : h[s] = f[x] + h[s \ {x}]

(* A finite set has such a sum. *)
LEMMA SumExists ==
    ASSUME NEW S, IsFiniteSet(S), NEW f \in [S -> Int]
    PROVE  \E h : IsSum(h, f, S)
  <1> DEFINE U == {n \in Nat : \A T \in SUBSET S : Cardinality(T) = n => \E h : IsSum(h, f, T)}
  <1>1. 0 \in U
    <2> SUFFICES ASSUME NEW T \in SUBSET S, Cardinality(T) = 0 PROVE \E h : IsSum(h, f, T)
      OBVIOUS
    <2>1. T = {}
      BY FS_Subset, FS_EmptySet
    <2>2. IsSum([s \in SUBSET T |-> 0], f, T)
      BY <2>1 DEF IsSum
    <2> QED BY <2>2
  <1>2. ASSUME NEW n \in Nat, n \in U PROVE n + 1 \in U
    <2> SUFFICES ASSUME NEW T \in SUBSET S, Cardinality(T) = n + 1 PROVE \E h : IsSum(h, f, T)
      OBVIOUS
    <2>1. IsFiniteSet(T)
      BY FS_Subset
    <2>2. PICK y \in T : TRUE
      BY <2>1, FS_EmptySet
    <2>3. T \ {y} \in SUBSET S /\ Cardinality(T \ {y}) = n
      <3>1. Cardinality(T \ {y}) = Cardinality(T) - 1
        BY <2>1, <2>2, FS_RemoveElement
      <3> QED BY <3>1
    <2>4. PICK g : IsSum(g, f, T \ {y})
      BY <1>2, <2>3
    <2> DEFINE h == [s \in SUBSET T |-> IF y \in s THEN f[y] + g[s \ {y}] ELSE g[s]]
    <2>5. f[y] \in Int
      OBVIOUS
    <2>6. h \in [SUBSET T -> Int]
      <3> SUFFICES ASSUME NEW s \in SUBSET T PROVE (IF y \in s THEN f[y] + g[s \ {y}] ELSE g[s]) \in Int
        OBVIOUS
      <3>1. s \ {y} \in SUBSET (T \ {y}) /\ (y \notin s => s \in SUBSET (T \ {y}))
        OBVIOUS
      <3> QED BY <2>4, <2>5, <3>1 DEF IsSum
    <2>7. h[{}] = 0
      BY <2>4 DEF IsSum
    <2>8. ASSUME NEW s \in SUBSET T, NEW x \in s PROVE h[s] = f[x] + h[s \ {x}]
      <3>0. s \ {x} \in SUBSET T /\ f[x] \in Int
        BY <2>8
      <3>1. CASE x = y
        BY <3>0, <3>1
      <3>2. CASE x # y /\ y \in s
        <4>1. s \ {y} \in SUBSET (T \ {y}) /\ x \in s \ {y}
          BY <3>2
        <4>2. g[s \ {y}] = f[x] + g[(s \ {y}) \ {x}]
          BY <2>4, <4>1 DEF IsSum
        <4>3. (s \ {y}) \ {x} = (s \ {x}) \ {y} /\ y \in s \ {x}
          BY <3>2
        <4>4. g[(s \ {y}) \ {x}] \in Int
          BY <2>4, <4>1 DEF IsSum
        <4>5. h[s] = f[y] + g[s \ {y}] /\ h[s \ {x}] = f[y] + g[(s \ {x}) \ {y}]
          BY <3>0, <3>2, <4>3
        <4>6. h[s \ {x}] = f[y] + g[(s \ {y}) \ {x}]
          BY <4>3, <4>5
        <4>7. \A a, b, c \in Int : a + (b + c) = b + (a + c)
          OBVIOUS
        <4> HIDE DEF h
        <4> QED BY <2>5, <3>0, <4>2, <4>4, <4>5, <4>6, <4>7
      <3>3. CASE y \notin s
        <4>1. s \in SUBSET (T \ {y}) /\ y \notin s \ {x}
          BY <3>3
        <4>2. g[s] = f[x] + g[s \ {x}]
          BY <2>4, <4>1 DEF IsSum
        <4> QED BY <3>0, <3>3, <4>1, <4>2
      <3> QED BY <3>1, <3>2, <3>3
    <2>9. IsSum(h, f, T)
      BY <2>6, <2>7, <2>8 DEF IsSum
    <2> QED BY <2>9
  <1> HIDE DEF U
  <1>3. Cardinality(S) \in U
    BY <1>1, <1>2, NatSetInduction, FS_CardinalityType
  <1> QED BY <1>3 DEF U

\* i is taken in the order that c dictates.
SumsBy(i, c, f, S) ==
    \A s \in SUBSET S : /\ s # {} => c[s] \in s
                        /\ i[s] = IF s = {} THEN 0 ELSE f[c[s]] + i[s \ {c[s]}]

(* A sum taken in some order is that sum. *)
LEMMA SumInAnyOrder ==
    ASSUME NEW S, IsFiniteSet(S), NEW f \in [S -> Int], NEW h, IsSum(h, f, S), NEW i, NEW c,
           SumsBy(i, c, f, S)
    PROVE  i[S] = h[S]
  <1> DEFINE U == {n \in Nat : \A s \in SUBSET S : Cardinality(s) = n => i[s] = h[s]}
  <1>1. 0 \in U
    <2> SUFFICES ASSUME NEW s \in SUBSET S, Cardinality(s) = 0 PROVE i[s] = h[s]
      OBVIOUS
    <2>1. s = {}
      BY FS_Subset, FS_EmptySet
    <2> QED BY <2>1 DEF IsSum, SumsBy
  <1>2. ASSUME NEW n \in Nat, n \in U PROVE n + 1 \in U
    <2> SUFFICES ASSUME NEW s \in SUBSET S, Cardinality(s) = n + 1 PROVE i[s] = h[s]
      OBVIOUS
    <2> DEFINE x == c[s]
    <2>1. IsFiniteSet(s)
      BY FS_Subset
    <2>2. s # {}
      BY <2>1, FS_EmptySet
    <2>3. x \in s
      BY <2>2 DEF SumsBy
    <2>4. i[s] = f[x] + i[s \ {x}]
      BY <2>2 DEF SumsBy
    <2> HIDE DEF x
    <2>5. s \ {x} \in SUBSET S /\ Cardinality(s \ {x}) = n
      <3>1. Cardinality(s \ {x}) = Cardinality(s) - 1
        BY <2>1, <2>3, FS_RemoveElement
      <3> QED BY <3>1
    <2>6. i[s \ {x}] = h[s \ {x}]
      BY <1>2, <2>5
    <2> QED BY <2>3, <2>4, <2>6 DEF IsSum
  <1> HIDE DEF U
  <1>3. Cardinality(S) \in U
    BY <1>1, <1>2, NatSetInduction, FS_CardinalityType
  <1> QED BY <1>3 DEF U

\* f is the steps of t.
Steps(f, t, n) == t \in [1..(n + 1) -> Int] /\ f \in [1..n -> Int] /\ \A k \in 1..n : f[k] = t[k + 1] - t[k]

(* The sum of the steps from number to number is the way from the first to *)
(* the last.                                                               *)
LEMMA Telescopes ==
    ASSUME NEW n \in Nat, NEW f, NEW t, Steps(f, t, n), NEW h, IsSum(h, f, 1..n)
    PROVE  h[1..n] = t[n + 1] - t[1]
  <1> USE DEF Steps
  <1> DEFINE U == {m \in 0..n : h[1..m] = t[m + 1] - t[1]}
  <1>1. 0 \in U
    <2>1. 1..0 = {} /\ t[1] \in Int /\ 0 + 1 = 1
      OBVIOUS
    <2>2. h[1..0] = 0
      BY <2>1 DEF IsSum
    <2> QED BY <2>1, <2>2
  <1>2. ASSUME NEW m \in 1..n, m - 1 \in U PROVE m \in U
    <2>1. 1..m \in SUBSET (1..n) /\ m \in 1..m /\ (1..m) \ {m} = 1..(m - 1)
      <3>1. ASSUME NEW k \in (1..m) \ {m} PROVE k \in 1..(m - 1)
        OBVIOUS
      <3>2. ASSUME NEW k \in 1..(m - 1) PROVE k \in (1..m) \ {m}
        OBVIOUS
      <3>3. (1..m) \ {m} = 1..(m - 1)
        BY <3>1, <3>2, Zenon
      <3> QED BY <3>3
    <2>2. h[1..m] = f[m] + h[1..(m - 1)]
      <3>1. h[1..m] = f[m] + h[(1..m) \ {m}]
        BY <2>1 DEF IsSum
      <3> QED BY <2>1, <3>1, Zenon
    <2>3. h[1..(m - 1)] = t[m] - t[1]
      BY <1>2
    <2>4. t[m] \in Int /\ t[m + 1] \in Int /\ t[1] \in Int /\ f[m] = t[m + 1] - t[m]
      OBVIOUS
    <2>5. h[1..m] = t[m + 1] - t[1]
      BY <2>2, <2>3, <2>4
    <2> QED BY <2>5
  <1> HIDE DEF U
  <1>3. 0..n \subseteq U
    BY <1>1, <1>2, BoundedInduction
  <1> QED BY <1>3 DEF U

(* What is counted label by label adds up to what there is. *)
LEMMA FibresAddUp ==
    ASSUME NEW A, IsFiniteSet(A), NEW D, IsFiniteSet(D),
           NEW label, \A a \in A : label[a] \in D,
           NEW f \in [D -> Int], \A d \in D : f[d] = Cardinality({a \in A : label[a] = d}),
           NEW h, IsSum(h, f, D)
    PROVE  h[D] = Cardinality(A)
  <1> DEFINE over(s) == {a \in A : label[a] \in s}
             U == {n \in Nat : \A s \in SUBSET D : Cardinality(s) = n => h[s] = Cardinality(over(s))}
  <1>1. 0 \in U
    <2> SUFFICES ASSUME NEW s \in SUBSET D, Cardinality(s) = 0 PROVE h[s] = Cardinality(over(s))
      OBVIOUS
    <2>1. s = {}
      BY FS_Subset, FS_EmptySet
    <2>2. over(s) = {}
      BY <2>1
    <2> QED BY <2>1, <2>2, FS_EmptySet DEF IsSum
  <1>2. ASSUME NEW n \in Nat, n \in U PROVE n + 1 \in U
    <2> SUFFICES ASSUME NEW s \in SUBSET D, Cardinality(s) = n + 1 PROVE h[s] = Cardinality(over(s))
      OBVIOUS
    <2>1. IsFiniteSet(s)
      BY FS_Subset
    <2>2. PICK d \in s : TRUE
      BY <2>1, FS_EmptySet
    <2>3. s \ {d} \in SUBSET D /\ Cardinality(s \ {d}) = n
      <3>1. Cardinality(s \ {d}) = Cardinality(s) - 1
        BY <2>1, <2>2, FS_RemoveElement
      <3> QED BY <3>1
    <2>4. h[s \ {d}] = Cardinality(over(s \ {d}))
      BY <1>2, <2>3
    <2> DEFINE X == {a \in A : label[a] = d}
               Y == over(s \ {d})
    <2>5. over(s) = X \cup Y /\ X \cap Y = {}
      BY <2>2
    <2>6. IsFiniteSet(X) /\ IsFiniteSet(Y)
      BY FS_Subset
    <2>7. f[d] = Cardinality(X)
      BY <2>2
    <2>8. h[s] = f[d] + h[s \ {d}]
      BY <2>2 DEF IsSum
    <2> HIDE DEF X, Y, over
    <2>9. Cardinality(X) \in Nat /\ Cardinality(Y) \in Nat
          /\ Cardinality(X \cup Y) = Cardinality(X) + Cardinality(Y) - Cardinality(X \cap Y)
      BY <2>6, FS_Union, FS_CardinalityType
    <2>10. Cardinality(X \cap Y) = 0
      BY <2>5, FS_EmptySet
    <2> QED BY <2>4, <2>5, <2>7, <2>8, <2>9, <2>10 DEF Y
  <1> HIDE DEF U
  <1>3. Cardinality(D) \in U
    BY <1>1, <1>2, NatSetInduction, FS_CardinalityType
  <1>4. h[D] = Cardinality(over(D))
    BY <1>3 DEF U
  <1>5. over(D) = A
    OBVIOUS
  <1> QED BY <1>4, <1>5

-----------------------------------------------------------------------------
\* Orderings

StrictOrder(B, S) ==
    /\ \A x \in S : <<x, x>> \notin B
    /\ \A x, y, z \in S : <<x, y>> \in B /\ <<y, z>> \in B => <<x, z>> \in B
    /\ \A x, y \in S : x = y \/ <<x, y>> \in B \/ <<y, x>> \in B

Preceding(B, S, r) == {q \in S : <<q, r>> \in B}

\* q lists S in the order of B.
Lists(q, B, S) ==
    /\ q \in [1..Cardinality(S) -> S]
    /\ \A j, k \in 1..Cardinality(S) : j < k => <<q[j], q[k]>> \in B
    /\ \A r \in S : \E k \in 1..Cardinality(S) : q[k] = r

(* Of what is before what, more is before the second. *)
LEMMA RankGrows ==
    ASSUME NEW S, IsFiniteSet(S), NEW B, StrictOrder(B, S), NEW x \in S, NEW y \in S, <<x, y>> \in B
    PROVE  Cardinality(Preceding(B, S, x)) < Cardinality(Preceding(B, S, y))
  <1>1. Preceding(B, S, x) \subseteq Preceding(B, S, y) /\ x \in Preceding(B, S, y) /\ x \notin Preceding(B, S, x)
    BY DEF StrictOrder, Preceding
  <1>2. IsFiniteSet(Preceding(B, S, y)) /\ IsFiniteSet(Preceding(B, S, x))
    BY FS_Subset DEF Preceding
  <1>3. Cardinality(Preceding(B, S, x)) <= Cardinality(Preceding(B, S, y))
        /\ Cardinality(Preceding(B, S, x)) # Cardinality(Preceding(B, S, y))
    BY <1>1, <1>2, FS_Subset
  <1> QED BY <1>2, <1>3, FS_CardinalityType

(* Every place of the order is taken. *)
LEMMA RankTaken ==
    ASSUME NEW S, IsFiniteSet(S), NEW B, StrictOrder(B, S), NEW k \in 1..Cardinality(S)
    PROVE  \E r \in S : Cardinality(Preceding(B, S, r)) = k - 1
  <1> DEFINE n == Cardinality(S)
             f == [r \in S |-> Cardinality(Preceding(B, S, r)) + 1]
  <1>0. n \in Nat
    BY FS_CardinalityType
  <1>1. ASSUME NEW r \in S PROVE Cardinality(Preceding(B, S, r)) + 1 \in 1..n
    <2>1. Preceding(B, S, r) \subseteq S /\ r \notin Preceding(B, S, r)
      BY DEF StrictOrder, Preceding
    <2>2. IsFiniteSet(Preceding(B, S, r)) /\ Cardinality(Preceding(B, S, r)) <= n /\ Cardinality(Preceding(B, S, r)) # n
      BY <2>1, FS_Subset
    <2>3. Cardinality(Preceding(B, S, r)) \in Nat
      BY <2>2, FS_CardinalityType
    <2> HIDE DEF n
    <2> QED BY <1>0, <2>2, <2>3
  <1>2. f \in [S -> 1..n]
    BY <1>1
  <1>3. ASSUME NEW x \in S, NEW y \in S, f[x] = f[y] PROVE x = y
    <2>0. Cardinality(Preceding(B, S, x)) \in Nat /\ Cardinality(Preceding(B, S, y)) \in Nat
      BY FS_Subset, FS_CardinalityType DEF Preceding
    <2>1. Cardinality(Preceding(B, S, x)) = Cardinality(Preceding(B, S, y))
      BY <1>3, <2>0
    <2>2. <<x, y>> \notin B /\ <<y, x>> \notin B
      BY <2>0, <2>1, RankGrows
    <2> QED BY <2>2 DEF StrictOrder
  <1>4. f \in Injection(S, 1..n)
    BY <1>2, <1>3 DEF Injection, IsInjective
  <1>5. IsFiniteSet(1..n) /\ Cardinality(1..n) = n
    BY <1>0, FS_Interval
  <1>6. f \in Surjection(S, 1..n)
    BY <1>4, <1>5, FS_Injection
  <1>7. PICK r \in S : f[r] = k
    BY <1>6 DEF Surjection
  <1>8. Cardinality(Preceding(B, S, r)) \in Nat
    BY FS_Subset, FS_CardinalityType DEF Preceding
  <1> QED BY <1>0, <1>7, <1>8

(* The rows, each at the place that the number before it gives it, are     *)
(* listed in order.                                                        *)
LEMMA RanksList ==
    ASSUME NEW S, IsFiniteSet(S), NEW B, StrictOrder(B, S), NEW q,
           q \in [1..Cardinality(S) -> S],
           \A k \in 1..Cardinality(S) : Cardinality(Preceding(B, S, q[k])) = k - 1
    PROVE  Lists(q, B, S)
  <1> DEFINE n == Cardinality(S)
  <1>0. n \in Nat
    BY FS_CardinalityType
  <1>1. ASSUME NEW j \in 1..n, NEW k \in 1..n, j < k PROVE <<q[j], q[k]>> \in B
    <2>1. q[j] \in S /\ q[k] \in S
      OBVIOUS
    <2>2. q[j] # q[k] /\ <<q[k], q[j]>> \notin B
      BY <1>0, <1>1, <2>1, RankGrows
    <2> QED BY <2>1, <2>2 DEF StrictOrder
  <1>2. ASSUME NEW r \in S PROVE \E k \in 1..n : q[k] = r
    <2> DEFINE k == Cardinality(Preceding(B, S, r)) + 1
    <2>1. Preceding(B, S, r) \subseteq S /\ r \notin Preceding(B, S, r)
      BY DEF StrictOrder, Preceding
    <2>2. IsFiniteSet(Preceding(B, S, r)) /\ Cardinality(Preceding(B, S, r)) <= n /\ Cardinality(Preceding(B, S, r)) # n
      BY <2>1, FS_Subset
    <2>3. Cardinality(Preceding(B, S, r)) \in Nat
      BY <2>2, FS_CardinalityType
    <2>4. k \in 1..n /\ k - 1 = Cardinality(Preceding(B, S, r))
      <3> HIDE DEF n
      <3> QED BY <1>0, <2>2, <2>3
    <2>5. Cardinality(Preceding(B, S, q[k])) = Cardinality(Preceding(B, S, r)) /\ q[k] \in S
      BY <2>4
    <2> HIDE DEF k
    <2>6. <<q[k], r>> \notin B /\ <<r, q[k]>> \notin B
      BY <2>3, <2>5, RankGrows
    <2> QED BY <2>4, <2>5, <2>6 DEF StrictOrder
  <1> QED BY <1>1, <1>2 DEF Lists

(* There is one way to list a set in an order. *)
LEMMA OneList ==
    ASSUME NEW S, IsFiniteSet(S), NEW B, StrictOrder(B, S), NEW q, NEW u, Lists(q, B, S), Lists(u, B, S)
    PROVE  q = u
  <1> DEFINE n == Cardinality(S)
             D == {k \in 1..n : q[k] # u[k]}
  <1>0. n \in Nat
    BY FS_CardinalityType
  <1>1. ASSUME D # {} PROVE FALSE
    <2>1. D \in SUBSET Nat
      BY <1>0
    <2>2. PICK k \in D : \A m \in D : k <= m
      BY <1>1, <2>1, LeastNat
    <2>3. k \in 1..n /\ q[k] # u[k] /\ q[k] \in S /\ u[k] \in S
      BY DEF Lists
    <2>4. PICK j \in 1..n : q[j] = u[k]
      BY <2>3 DEF Lists
    <2>5. PICK i \in 1..n : u[i] = q[k]
      BY <2>3 DEF Lists
    <2>6. ~(j < k)
      <3> SUFFICES ASSUME j < k PROVE FALSE
        OBVIOUS
      <3>1. j \notin D
        BY <1>0, <2>2, <2>1
      <3>2. u[j] = u[k] /\ <<u[j], u[k]>> \in B
        BY <2>3, <2>4, <3>1 DEF Lists
      <3> QED BY <2>3, <3>2 DEF StrictOrder
    <2>7. ~(i < k)
      <3> SUFFICES ASSUME i < k PROVE FALSE
        OBVIOUS
      <3>1. i \notin D
        BY <1>0, <2>2, <2>1
      <3>2. q[i] = q[k] /\ <<q[i], q[k]>> \in B
        BY <2>3, <2>5, <3>1 DEF Lists
      <3> QED BY <2>3, <3>2 DEF StrictOrder
    <2>8. k < j /\ k < i
      BY <1>0, <2>3, <2>4, <2>5, <2>6, <2>7
    <2>9. <<q[k], u[k]>> \in B /\ <<u[k], q[k]>> \in B
      BY <2>3, <2>4, <2>5, <2>8 DEF Lists
    <2> QED BY <2>3, <2>9 DEF StrictOrder
  <1>2. \A k \in 1..n : q[k] = u[k]
    BY <1>1
  <1>3. q \in [1..n -> S] /\ u \in [1..n -> S]
    BY DEF Lists
  <1> HIDE DEF n
  <1>4. q = [k \in 1..n |-> q[k]] /\ u = [k \in 1..n |-> u[k]]
    BY <1>3
  <1>5. [k \in 1..n |-> q[k]] = [k \in 1..n |-> u[k]]
    BY <1>2
  <1> QED BY <1>4, <1>5, Zenon

(* A set before another: the lists of both, one after the other, list      *)
(* them all.                                                               *)
LEMMA ListsJoin ==
    ASSUME NEW S, NEW T, IsFiniteSet(S), IsFiniteSet(T), NEW B, NEW q, NEW u,
           Lists(q, B, S), Lists(u, B, T),
           \A x \in S, y \in T : <<x, y>> \in B /\ x # y
    PROVE  Lists(q \o u, B, S \cup T)
  <1> DEFINE m == Cardinality(S)
             n == Cardinality(T)
             w == q \o u
  <1>0. m \in Nat /\ n \in Nat
    BY FS_CardinalityType
  <1>1. S \cap T = {}
    OBVIOUS
  <1>2. IsFiniteSet(S \cup T) /\ Cardinality(S \cup T) = m + n
    <2>1. Cardinality(S \cap T) = 0
      BY <1>1, FS_EmptySet
    <2>2. Cardinality(S \cup T) = m + n - Cardinality(S \cap T)
      BY FS_Union
    <2>3. IsFiniteSet(S \cup T)
      BY FS_Union
    <2> QED BY <1>0, <2>1, <2>2, <2>3
  <1>3. q \in [1..m -> S] /\ u \in [1..n -> T]
    BY DEF Lists
  <1> HIDE DEF m, n
  <1>4. Len(q) = m /\ Len(u) = n /\ q \in Seq(S) /\ u \in Seq(T)
    BY <1>0, <1>3
  <1>5. q \in Seq(S \cup T) /\ u \in Seq(S \cup T)
    BY <1>0, <1>3
  <1>6. w \in Seq(S \cup T) /\ Len(w) = m + n
    BY <1>0, <1>4, <1>5
  <1>7. \A k \in 1..m : w[k] = q[k]
    BY <1>0, <1>4, <1>5
  <1>8. \A k \in (m + 1)..(m + n) : w[k] = u[k - m]
    BY <1>0, <1>4, <1>5
  <1> HIDE DEF w
  <1>9. w \in [1..(m + n) -> S \cup T]
    <2>1. \A N, A : w \in Seq(A) /\ Len(w) = N => w \in [1..N -> A]
      BY LenProperties
    <2> QED BY <1>6, <2>1
  <1>10. ASSUME NEW j \in 1..(m + n), NEW k \in 1..(m + n), j < k PROVE <<w[j], w[k]>> \in B
    <2>1. CASE k <= m
      <3>1. j \in 1..m /\ k \in 1..m
        BY <1>0, <1>10, <2>1
      <3> QED BY <1>7, <1>10, <3>1 DEF Lists, m
    <2>2. CASE j <= m /\ k > m
      <3>1. j \in 1..m /\ k \in (m + 1)..(m + n) /\ k - m \in 1..n
        BY <1>0, <2>2
      <3>2. w[j] \in S /\ w[k] \in T
        BY <1>3, <1>7, <1>8, <3>1
      <3> QED BY <3>2
    <2>3. CASE j > m
      <3>1. j \in (m + 1)..(m + n) /\ k \in (m + 1)..(m + n) /\ j - m \in 1..n /\ k - m \in 1..n /\ j - m < k - m
        BY <1>0, <1>10, <2>3
      <3>2. <<u[j - m], u[k - m]>> \in B
        BY <3>1 DEF Lists, n
      <3> QED BY <1>8, <3>1, <3>2
    <2> QED BY <1>0, <2>1, <2>2, <2>3
  <1>11. ASSUME NEW r \in S \cup T PROVE \E k \in 1..(m + n) : w[k] = r
    <2>1. CASE r \in S
      <3>1. PICK k \in 1..m : q[k] = r
        BY <2>1 DEF Lists, m
      <3>2. k \in 1..(m + n)
        BY <1>0
      <3> QED BY <1>7, <3>1, <3>2
    <2>2. CASE r \in T
      <3>1. PICK k \in 1..n : u[k] = r
        BY <2>2 DEF Lists, n
      <3>2. m + k \in (m + 1)..(m + n) /\ m + k \in 1..(m + n) /\ (m + k) - m = k
        BY <1>0
      <3>3. w[m + k] = r
        BY <1>8, <3>1, <3>2
      <3> QED BY <3>2, <3>3
    <2> QED BY <2>1, <2>2
  <1>12. Lists(w, B, S \cup T)
    BY <1>2, <1>9, <1>10, <1>11 DEF Lists
  <1> QED BY <1>12 DEF w

\* A set, put in an order.
AscendingBy(S, B) ==
    [k \in 1..Cardinality(S) |-> CHOOSE x \in S : Cardinality(Preceding(B, S, x)) = k - 1]

(* A set put in an order lists it. *)
LEMMA AscendingLists ==
    ASSUME NEW S, IsFiniteSet(S), NEW B, StrictOrder(B, S)
    PROVE  /\ Lists(AscendingBy(S, B), B, S)
           /\ <<>> \o AscendingBy(S, B) = AscendingBy(S, B)
           /\ AscendingBy(S, B) \in Seq(S) /\ Len(AscendingBy(S, B)) = Cardinality(S)
  <1> DEFINE q == AscendingBy(S, B)
             n == Cardinality(S)
  <1>0. n \in Nat
    BY FS_CardinalityType
  <1>1. ASSUME NEW k \in 1..n PROVE q[k] \in S /\ Cardinality(Preceding(B, S, q[k])) = k - 1
    <2>1. \E x \in S : Cardinality(Preceding(B, S, x)) = k - 1
      BY RankTaken
    <2>2. q[k] = CHOOSE x \in S : Cardinality(Preceding(B, S, x)) = k - 1
      BY DEF AscendingBy
    <2> QED BY <2>1, <2>2, Zenon
  <1>2. q = [k \in 1..n |-> q[k]]
    BY DEF AscendingBy
  <1> HIDE DEF q
  <1>3. q \in [1..n -> S]
    BY <1>1, <1>2
  <1>4. Lists(q, B, S)
    BY <1>1, <1>3, RanksList
  <1> HIDE DEF n
  <1>5. q \in Seq(S) /\ Len(q) = n
    BY <1>0, <1>3
  <1>6. <<>> \o q = q
    BY <1>5
  <1> QED BY <1>4, <1>5, <1>6 DEF q, n

NumberOrder(S) == {x \in S \X S : x[1] < x[2]}

(* The numbers are in a strict order. *)
LEMMA NumberOrderStrict ==
    ASSUME NEW S \in SUBSET Int
    PROVE  StrictOrder(NumberOrder(S), S)
  BY DEF StrictOrder, NumberOrder

(* What never falls from one place to the next never falls. *)
LEMMA Rises ==
    ASSUME NEW n \in Nat, NEW t \in [1..n -> Int],
           \A k \in 1..(n - 1) : t[k] <= t[k + 1],
           NEW i \in 1..n, NEW j \in 1..n, i <= j
    PROVE  t[i] <= t[j]
  <1> DEFINE U == {m \in Nat : i + m \in 1..n => t[i] <= t[i + m]}
  <1>1. 0 \in U
    OBVIOUS
  <1>2. ASSUME NEW m \in Nat, m \in U PROVE m + 1 \in U
    <2> SUFFICES ASSUME i + (m + 1) \in 1..n PROVE t[i] <= t[i + (m + 1)]
      OBVIOUS
    <2>1. i + m \in 1..(n - 1) /\ i + m \in 1..n /\ (i + m) + 1 = i + (m + 1)
      OBVIOUS
    <2>2. t[i] <= t[i + m] /\ t[i + m] <= t[(i + m) + 1]
      BY <1>2, <2>1
    <2>3. t[i] \in Int /\ t[i + m] \in Int /\ t[i + (m + 1)] \in Int
      BY <2>1
    <2> QED BY <2>1, <2>2, <2>3
  <1> HIDE DEF U
  <1>3. j - i \in Nat /\ i + (j - i) = j
    OBVIOUS
  <1>4. j - i \in U
    BY <1>1, <1>2, <1>3, NatSetInduction
  <1> QED BY <1>3, <1>4 DEF U

(* What rises from one place to the next rises. *)
LEMMA Climbs ==
    ASSUME NEW n \in Nat, NEW t \in [1..n -> Int],
           \A k \in 1..(n - 1) : t[k] < t[k + 1],
           NEW i \in 1..n, NEW j \in 1..n, i < j
    PROVE  t[i] < t[j]
  <1>1. i \in 1..(n - 1) /\ i + 1 \in 1..n /\ i + 1 <= j
    OBVIOUS
  <1>2. \A k \in 1..(n - 1) : t[k] <= t[k + 1]
    <2> TAKE k \in 1..(n - 1)
    <2>1. k \in 1..n /\ k + 1 \in 1..n /\ t[k] < t[k + 1]
      OBVIOUS
    <2> QED BY <2>1
  <1>3. t[i + 1] <= t[j]
    BY <1>1, <1>2, Rises
  <1>4. t[i] < t[i + 1] /\ t[i] \in Int /\ t[i + 1] \in Int /\ t[j] \in Int
    BY <1>1
  <1> QED BY <1>3, <1>4

-----------------------------------------------------------------------------
\* Folds over a sequence

Largest(s) == CHOOSE x \in s : \A y \in s : x >= y

(* The greatest of the first numbers. *)
LEMMA LargestOf ==
    ASSUME NEW s, NEW n \in Nat, n \in s, s \subseteq 0..n
    PROVE  Largest(s) = n
  <1>1. \A y \in s : n >= y
    OBVIOUS
  <1>2. Largest(s) \in s /\ \A y \in s : Largest(s) >= y
    BY <1>1, Zenon DEF Largest
  <1> DEFINE t == Largest(s)
  <1>3. t \in 0..n /\ t >= n
    BY <1>2
  <1> HIDE DEF t
  <1>4. t = n
    BY <1>3
  <1> QED BY <1>4 DEF t

(* Some number is the greatest. *)
LEMMA LargestTaken ==
    ASSUME NEW n \in Nat, NEW s \in SUBSET (1..n), s # {}
    PROVE  Largest(s) \in s /\ \A y \in s : Largest(s) >= y
  <1> DEFINE T == {m \in Nat : \E x \in s : m = n - x}
  <1>1. T \in SUBSET Nat /\ T # {}
    <2>1. PICK x \in s : TRUE
      OBVIOUS
    <2>2. n - x \in T
      BY <2>1
    <2> QED BY <2>2
  <1>2. PICK m \in T : \A k \in T : m <= k
    BY <1>1, LeastNat
  <1>3. PICK x \in s : m = n - x
    BY <1>2
  <1>4. ASSUME NEW y \in s PROVE x >= y
    <2>1. n - y \in T
      OBVIOUS
    <2>2. m <= n - y
      BY <1>2, <2>1
    <2> QED BY <1>3, <2>2
  <1> QED BY <1>4, Zenon DEF Largest

\* h folds F over the numbers up to n, the greatest last.
Folds(h, F, b, n, V) ==
    /\ h \in [SUBSET (1..n) -> V]
    /\ \A s \in SUBSET (1..n) : h[s] = IF s = {} THEN b ELSE F[<<Largest(s), h[s \ {Largest(s)}]>>]

(* There is such a fold. *)
LEMMA FoldExists ==
    ASSUME NEW n \in Nat, NEW V, NEW b \in V, NEW F \in [(1..n) \X V -> V]
    PROVE  \E h : Folds(h, F, b, n, V)
  <1> DEFINE U == {m \in 0..n : \E h : Folds(h, F, b, m, V)}
  <1>1. 0 \in U
    <2>1. Folds([s \in SUBSET (1..0) |-> b], F, b, 0, V)
      BY DEF Folds
    <2> QED BY <2>1
  <1>2. ASSUME NEW m \in 1..n, m - 1 \in U PROVE m \in U
    <2>1. PICK g : Folds(g, F, b, m - 1, V)
      BY <1>2
    <2> DEFINE h == [s \in SUBSET (1..m) |-> IF m \in s THEN F[<<m, g[s \ {m}]>>] ELSE g[s]]
    <2>2. ASSUME NEW s \in SUBSET (1..m)
          PROVE  s \ {m} \in SUBSET (1..(m - 1)) /\ (m \notin s => s \in SUBSET (1..(m - 1)))
      OBVIOUS
    <2>3. h \in [SUBSET (1..m) -> V]
      <3> SUFFICES ASSUME NEW s \in SUBSET (1..m)
                   PROVE  (IF m \in s THEN F[<<m, g[s \ {m}]>>] ELSE g[s]) \in V
        OBVIOUS
      <3>1. g[s \ {m}] \in V /\ (m \notin s => g[s] \in V)
        BY <2>1, <2>2 DEF Folds
      <3> QED BY <3>1
    <2>4. ASSUME NEW s \in SUBSET (1..m)
          PROVE  h[s] = IF s = {} THEN b ELSE F[<<Largest(s), h[s \ {Largest(s)}]>>]
      <3>1. CASE m \in s
        <4>1. Largest(s) = m
          <5>1. s \subseteq 0..m /\ m \in Nat
            OBVIOUS
          <5> QED BY <3>1, <5>1, LargestOf
        <4>2. s \ {m} \in SUBSET (1..m) /\ m \notin s \ {m}
          OBVIOUS
        <4>3. h[s \ {m}] = g[s \ {m}] /\ h[s] = F[<<m, g[s \ {m}]>>]
          BY <3>1, <4>2
        <4> HIDE DEF h
        <4> QED BY <3>1, <4>1, <4>3
      <3>2. CASE m \notin s
        <4>1. s \in SUBSET (1..(m - 1)) /\ h[s] = g[s]
          BY <2>2, <3>2
        <4>2. h[s \ {Largest(s)}] = g[s \ {Largest(s)}]
          BY <3>2
        <4>3. g[s] = IF s = {} THEN b ELSE F[<<Largest(s), g[s \ {Largest(s)}]>>]
          BY <2>1, <4>1 DEF Folds
        <4> HIDE DEF h
        <4> QED BY <4>1, <4>2, <4>3
      <3> QED BY <3>1, <3>2
    <2>5. Folds(h, F, b, m, V)
      BY <2>3, <2>4 DEF Folds
    <2> HIDE DEF h
    <2> QED BY <2>5
  <1> HIDE DEF U
  <1>3. n \in U
    BY <1>1, <1>2, BoundedInduction
  <1> QED BY <1>3 DEF U

-----------------------------------------------------------------------------
\* Bounded sets of numbers

(* The greatest of a set of numbers that has an upper bound.               *)
LEMMA HighestTaken ==
    ASSUME NEW T \in SUBSET Int, T # {}, NEW b \in Int, \A y \in T : y <= b
    PROVE  Largest(T) \in T /\ \A y \in T : Largest(T) >= y
  <1> DEFINE M == {m \in Nat : \E x \in T : m = b - x}
  <1>1. M \in SUBSET Nat /\ M # {}
    <2>1. PICK x \in T : TRUE
      OBVIOUS
    <2>2. b - x \in M
      BY <2>1
    <2> QED BY <2>2
  <1>2. PICK m \in M : \A k \in M : m <= k
    BY <1>1, LeastNat
  <1>3. PICK x \in T : m = b - x
    BY <1>2
  <1>4. ASSUME NEW y \in T PROVE x >= y
    <2>1. b - y \in M
      OBVIOUS
    <2>2. m <= b - y
      BY <1>2, <2>1
    <2> QED BY <1>3, <2>2
  <1> QED BY <1>4, Zenon DEF Largest

(* The values of a finite function have bounds.                            *)
LEMMA ValuesBounded ==
    ASSUME NEW n \in Nat, NEW f \in [1..n -> Int]
    PROVE  \E lo \in Int, hi \in Int : \A k \in 1..n : lo <= f[k] /\ f[k] <= hi
  <1> DEFINE U == {m \in Nat : m <= n => \E lo \in Int, hi \in Int : \A k \in 1..m : lo <= f[k] /\ f[k] <= hi}
  <1>1. 0 \in U
    OBVIOUS
  <1>2. ASSUME NEW m \in Nat, m \in U PROVE m + 1 \in U
    <2> SUFFICES ASSUME m + 1 <= n
                 PROVE  \E lo \in Int, hi \in Int : \A k \in 1..(m + 1) : lo <= f[k] /\ f[k] <= hi
      OBVIOUS
    <2>1. PICK lo \in Int, hi \in Int : \A k \in 1..m : lo <= f[k] /\ f[k] <= hi
      BY <1>2
    <2> DEFINE x == f[m + 1]
               a == IF lo <= x THEN lo ELSE x
               b == IF x <= hi THEN hi ELSE x
    <2>2. x \in Int
      OBVIOUS
    <2> HIDE DEF x
    <2>3. a \in Int /\ b \in Int /\ a <= lo /\ a <= x /\ hi <= b /\ x <= b
      BY <2>2
    <2>4. ASSUME NEW k \in 1..(m + 1) PROVE a <= f[k] /\ f[k] <= b
      <3>1. CASE k = m + 1
        BY <2>3, <3>1 DEF x
      <3>2. CASE k # m + 1
        <4>1. k \in 1..m /\ f[k] \in Int
          BY <3>2
        <4>2. lo <= f[k] /\ f[k] <= hi
          BY <2>1, <4>1
        <4> HIDE DEF a, b
        <4> QED BY <2>3, <4>1, <4>2
      <3> QED BY <3>1, <3>2
    <2> HIDE DEF a, b
    <2> QED BY <2>3, <2>4
  <1> HIDE DEF U
  <1>3. n \in U
    BY <1>1, <1>2, NatSetInduction
  <1> QED BY <1>3 DEF U

-----------------------------------------------------------------------------
\* Difference constraints: the value of node c.v less that of node c.u is at most c.w

\* The constraints run between the nodes, and none asks for more than some bound.
Edged(E, L) ==
    /\ \A c \in E : c.u \in 0..L /\ c.v \in 0..L /\ c.w \in Int
    /\ \E W \in Int : \A c \in E : W <= c.w

\* r is what one round makes of d.
Relaxed(r, d, E, L) ==
    /\ r \in [1..(L + 1) -> Int]
    /\ \A m \in 1..(L + 1) : r[m] <= d[m] /\ (r[m] = d[m] \/ \E c \in E : c.v + 1 = m /\ r[m] = d[c.u + 1] + c.w)
    /\ \A c \in E : r[c.v + 1] <= d[c.u + 1] + c.w

\* The constraints can be met.
Solvable(E, L) == \E x \in [0..L -> Int] : \A c \in E : x[c.v] - x[c.u] <= c.w

\* The assignments, none above 0, that meet the constraints.
AtMostZero(E, L) ==
    {y \in [1..(L + 1) -> Int] : /\ \A m \in 1..(L + 1) : y[m] <= 0
                                 /\ \A c \in E : y[c.v + 1] - y[c.u + 1] <= c.w}

Greatest(D, E, L) == D \in AtMostZero(E, L) /\ \A y \in AtMostZero(E, L), m \in 1..(L + 1) : y[m] <= D[m]

(* If there is one, there is a greatest one.                               *)
LEMMA GreatestExists ==
    ASSUME NEW L \in Nat, NEW E, Edged(E, L), AtMostZero(E, L) # {}
    PROVE  \E D : Greatest(D, E, L)
  <1> DEFINE N == L + 1
             Y == AtMostZero(E, L)
             T(m) == {y[m] : y \in Y}
             D == [m \in 1..N |-> Largest(T(m))]
  <1>1. \A y \in Y : y \in [1..N -> Int] /\ (\A m \in 1..N : y[m] <= 0) /\ \A c \in E : y[c.v + 1] - y[c.u + 1] <= c.w
    BY DEF AtMostZero
  <1>2. \A c \in E : c.u + 1 \in 1..N /\ c.v + 1 \in 1..N /\ c.w \in Int
    BY DEF Edged
  <1> HIDE DEF Y, N
  <1>3. ASSUME NEW m \in 1..N PROVE Largest(T(m)) \in T(m) /\ \A a \in T(m) : Largest(T(m)) >= a
    <2>1. T(m) \in SUBSET Int /\ \A a \in T(m) : a <= 0
      BY <1>1
    <2>2. T(m) # {}
      BY DEF Y
    <2> HIDE DEF T
    <2> QED BY <2>1, <2>2, HighestTaken
  <1>4. \A m \in 1..N : D[m] = Largest(T(m))
    OBVIOUS
  <1>5. D \in [1..N -> Int]
    <2>1. \A m \in 1..N : T(m) \in SUBSET Int
      BY <1>1
    <2> HIDE DEF T
    <2> QED BY <1>3, <2>1
  <1> HIDE DEF D
  <1>6. \A m \in 1..N : \E y \in Y : D[m] = y[m]
    <2> TAKE m \in 1..N
    <2>1. D[m] \in T(m)
      BY <1>3, <1>4
    <2> QED BY <2>1
  <1>7. \A y \in Y, m \in 1..N : y[m] <= D[m]
    <2> SUFFICES ASSUME NEW y \in Y, NEW m \in 1..N PROVE y[m] <= D[m]
      OBVIOUS
    <2>1. y[m] \in T(m)
      OBVIOUS
    <2>2. D[m] >= y[m]
      BY <1>3, <1>4, <2>1
    <2>3. D[m] \in Int /\ y[m] \in Int
      BY <1>1, <1>5
    <2> QED BY <2>2, <2>3
  <1>8. \A m \in 1..N : D[m] <= 0
    BY <1>1, <1>6
  <1>9. ASSUME NEW c \in E PROVE D[c.v + 1] - D[c.u + 1] <= c.w
    <2> DEFINE u == c.u + 1
               v == c.v + 1
    <2>1. u \in 1..N /\ v \in 1..N /\ c.w \in Int
      BY <1>2
    <2>2. \A y \in Y : y[v] - y[u] <= c.w
      BY <1>1
    <2> HIDE DEF u, v
    <2>3. PICK y \in Y : D[v] = y[v]
      BY <1>6, <2>1
    <2>4. y[v] \in Int /\ y[u] \in Int /\ D[u] \in Int
      BY <1>1, <1>5, <2>1
    <2>5. y[v] - y[u] <= c.w /\ y[u] <= D[u]
      BY <1>7, <2>1, <2>2
    <2>6. D[v] - D[u] <= c.w
      BY <2>1, <2>3, <2>4, <2>5
    <2> QED BY <2>6 DEF u, v
  <1>10. D \in Y
    BY <1>5, <1>8, <1>9 DEF Y, N, AtMostZero
  <1> QED BY <1>7, <1>10 DEF Greatest, Y, N

\* The nodes whose value is already the greatest there is.
Tight(d, D, L) == {m \in 1..(L + 1) : d[m] = D[m]}

\* d is on its way down to D.
Descending(d, D, L) ==
    d \in [1..(L + 1) -> Int] /\ \A m \in 1..(L + 1) : D[m] <= d[m] /\ d[m] <= 0

(* A round never passes it, and settles a node more until all are settled. *)
LEMMA RoundSettles ==
    ASSUME NEW L \in Nat, NEW E, Edged(E, L), NEW D, Greatest(D, E, L),
           NEW d, Descending(d, D, L), NEW r, Relaxed(r, d, E, L)
    PROVE  /\ Descending(r, D, L) /\ Tight(d, D, L) \subseteq Tight(r, D, L)
           /\ Tight(d, D, L) # 1..(L + 1) => Tight(r, D, L) # Tight(d, D, L)
  <1> DEFINE N == L + 1
             S == Tight(d, D, L)
  <1>1. \A c \in E : c.u + 1 \in 1..N /\ c.v + 1 \in 1..N /\ c.w \in Int
    BY DEF Edged
  <1>2. /\ D \in [1..N -> Int] /\ (\A m \in 1..N : D[m] <= 0)
        /\ \A c \in E : D[c.v + 1] - D[c.u + 1] <= c.w
    BY DEF Greatest, AtMostZero
  <1>3. d \in [1..N -> Int] /\ \A m \in 1..N : D[m] <= d[m] /\ d[m] <= 0
    BY DEF Descending
  <1>4. /\ r \in [1..N -> Int]
        /\ \A m \in 1..N : r[m] <= d[m] /\ (r[m] = d[m] \/ \E c \in E : c.v + 1 = m /\ r[m] = d[c.u + 1] + c.w)
        /\ \A c \in E : r[c.v + 1] <= d[c.u + 1] + c.w
    BY DEF Relaxed
  <1>5. S = {m \in 1..N : d[m] = D[m]} /\ Tight(r, D, L) = {m \in 1..N : r[m] = D[m]}
    BY DEF Tight
  <1>6. ASSUME NEW m \in 1..N PROVE D[m] <= r[m] /\ r[m] <= 0
    <2>1. D[m] \in Int /\ r[m] \in Int /\ d[m] \in Int /\ D[m] <= d[m] /\ d[m] <= 0 /\ r[m] <= d[m]
      BY <1>2, <1>3, <1>4
    <2>2. CASE r[m] = d[m]
      BY <2>1, <2>2
    <2>3. CASE r[m] # d[m]
      <3>1. PICK c \in E : c.v + 1 = m /\ r[m] = d[c.u + 1] + c.w
        BY <1>4, <2>3
      <3> DEFINE u == c.u + 1
      <3>2. u \in 1..N /\ c.w \in Int /\ D[m] - D[u] <= c.w /\ r[m] = d[u] + c.w
        BY <1>1, <1>2, <3>1
      <3> HIDE DEF u
      <3>3. D[u] \in Int /\ d[u] \in Int /\ D[u] <= d[u]
        BY <1>2, <1>3, <3>2
      <3> QED BY <2>1, <3>2, <3>3
    <2> QED BY <2>2, <2>3
  <1>7. Descending(r, D, L)
    BY <1>4, <1>6 DEF Descending
  <1>8. ASSUME NEW m \in S PROVE r[m] = D[m]
    <2>1. m \in 1..N /\ d[m] = D[m]
      BY <1>5
    <2>2. D[m] \in Int /\ r[m] \in Int /\ r[m] <= d[m] /\ D[m] <= r[m]
      BY <1>2, <1>4, <1>6, <2>1
    <2> QED BY <2>1, <2>2
  <1>9. ASSUME S # 1..N, Tight(r, D, L) = S PROVE FALSE
    <2> DEFINE up(m) == IF m \in S THEN D[m] ELSE D[m] + 1
               y == [m \in 1..N |-> up(m)]
    <2> HIDE DEF S
    <2>1. \A m \in 1..N : y[m] = up(m)
      OBVIOUS
    <2>2. y \in [1..N -> Int]
      BY <1>2
    <2> HIDE DEF y
    <2>3. \A m \in 1..N : (m \in S => y[m] = D[m]) /\ (m \notin S => y[m] = D[m] + 1)
      BY <2>1
    <2>4. ASSUME NEW m \in 1..N PROVE y[m] <= 0
      <3>1. D[m] \in Int /\ d[m] \in Int /\ D[m] <= d[m] /\ d[m] <= 0
        BY <1>2, <1>3
      <3>2. CASE m \in S
        BY <2>3, <3>1, <3>2
      <3>3. CASE m \notin S
        <4>1. d[m] # D[m]
          BY <1>5, <3>3
        <4> QED BY <2>3, <3>1, <3>3, <4>1
      <3> QED BY <3>2, <3>3
    <2>5. ASSUME NEW c \in E PROVE y[c.v + 1] - y[c.u + 1] <= c.w
      <3> DEFINE u == c.u + 1
                 v == c.v + 1
      <3>1. u \in 1..N /\ v \in 1..N /\ c.w \in Int /\ D[v] - D[u] <= c.w /\ r[v] <= d[u] + c.w
        BY <1>1, <1>2, <1>4
      <3> HIDE DEF u, v
      <3>2. D[u] \in Int /\ D[v] \in Int /\ d[u] \in Int /\ r[v] \in Int
        BY <1>2, <1>3, <1>4, <3>1
      <3>3. CASE u \in S /\ v \notin S
        <4>1. d[u] = D[u] /\ r[v] # D[v] /\ D[v] <= r[v]
          BY <1>5, <1>6, <1>9, <3>1, <3>3
        <4>2. y[u] = D[u] /\ y[v] = D[v] + 1
          BY <2>3, <3>1, <3>3
        <4>3. y[v] - y[u] <= c.w
          BY <3>1, <3>2, <4>1, <4>2
        <4> QED BY <4>3 DEF u, v
      <3>4. CASE u \notin S
        <4>1. y[u] = D[u] + 1 /\ (y[v] = D[v] \/ y[v] = D[v] + 1)
          BY <2>3, <3>1, <3>4
        <4>2. y[v] - y[u] <= c.w
          BY <3>1, <3>2, <4>1
        <4> QED BY <4>2 DEF u, v
      <3>5. CASE u \in S /\ v \in S
        <4>1. y[u] = D[u] /\ y[v] = D[v]
          BY <2>3, <3>1, <3>5
        <4>2. y[v] - y[u] <= c.w
          BY <3>1, <4>1
        <4> QED BY <4>2 DEF u, v
      <3> QED BY <3>3, <3>4, <3>5
    <2>6. y \in AtMostZero(E, L)
      BY <2>2, <2>4, <2>5 DEF AtMostZero
    <2>7. PICK m \in 1..N : m \notin S
      BY <1>5, <1>9
    <2>8. y[m] <= D[m]
      BY <2>6 DEF Greatest
    <2>9. y[m] = D[m] + 1 /\ D[m] \in Int
      BY <1>2, <2>3, <2>7
    <2> QED BY <2>8, <2>9
  <1> HIDE DEF S
  <1>10. S \subseteq Tight(r, D, L)
    BY <1>5, <1>8
  <1> QED BY <1>7, <1>9, <1>10 DEF S

-----------------------------------------------------------------------------
\* Values drawn in to where none leaves a gap of more than one

\* How many of the values of Y lie above h and not above y.
Above(Y, h, y) == Cardinality({a \in Y : h < a /\ a <= y})

(* It grows no faster than y, and at each value.                           *)
LEMMA AboveIs ==
    ASSUME NEW Y \in SUBSET Int, IsFiniteSet(Y), NEW h \in Int, NEW y \in Int
    PROVE  Above(Y, h, y) \in Nat /\ Above(Y, h, y) <= Cardinality(Y) /\ (y <= h => Above(Y, h, y) = 0)
  <1> DEFINE A == {a \in Y : h < a /\ a <= y}
  <1>0. \A a \in Y : a \in Int
    OBVIOUS
  <1>1. A \subseteq Y /\ (y <= h => A = {})
    <2>1. A \subseteq Y
      OBVIOUS
    <2>2. ASSUME y <= h, NEW a \in A PROVE FALSE
      <3>1. a \in Int /\ h < a /\ a <= y
        BY <1>0
      <3> QED BY <2>2, <3>1
    <2> QED BY <2>1, <2>2
  <1> HIDE DEF A
  <1>2. IsFiniteSet(A) /\ Cardinality(A) \in Nat /\ Cardinality(A) <= Cardinality(Y)
    BY <1>1, FS_Subset, FS_CardinalityType
  <1>3. y <= h => Cardinality(A) = 0
    BY <1>1, FS_EmptySet
  <1> QED BY <1>2, <1>3 DEF Above, A

LEMMA AboveGrows ==
    ASSUME NEW Y \in SUBSET Int, IsFiniteSet(Y), NEW h \in Int, NEW y \in Int, NEW z \in Int, y <= z
    PROVE  /\ Above(Y, h, y) <= Above(Y, h, z)
           /\ h <= y => Above(Y, h, z) - Above(Y, h, y) <= z - y
           /\ z \in Y /\ h < z /\ y < z => Above(Y, h, y) < Above(Y, h, z)
  <1> DEFINE A == {a \in Y : h < a /\ a <= y}
             B == {a \in Y : h < a /\ a <= z}
             C == {a \in Y : h < a /\ y < a /\ a <= z}
  <1>0. \A a \in Y : a \in Int
    OBVIOUS
  <1>1. A \subseteq Y /\ B \subseteq Y /\ C \subseteq Y /\ B = A \cup C /\ A \cap C = {}
    <2>1. A \subseteq Y /\ B \subseteq Y /\ C \subseteq Y
      OBVIOUS
    <2>2. \A a \in Y : a \in B <=> a \in A \/ a \in C
      BY <1>0
    <2>3. \A a \in Y : ~(a \in A /\ a \in C)
      BY <1>0
    <2> HIDE DEF A, B, C
    <2> QED BY <2>1, <2>2, <2>3
  <1>2. C \subseteq (y + 1)..z
    <2> SUFFICES ASSUME NEW a \in C PROVE a \in (y + 1)..z
      OBVIOUS
    <2>1. a \in Int /\ y < a /\ a <= z
      BY <1>0
    <2> QED BY <2>1
  <1>3. (z \in Y /\ h < z /\ y < z) => z \in C
    OBVIOUS
  <1> HIDE DEF A, B, C
  <1>4. IsFiniteSet(A) /\ IsFiniteSet(C) /\ Cardinality(A) \in Nat /\ Cardinality(C) \in Nat
    BY <1>1, FS_Subset, FS_CardinalityType
  <1>5. Cardinality(B) = Cardinality(A) + Cardinality(C)
    <2>1. Cardinality(A \cup C) = Cardinality(A) + Cardinality(C) - Cardinality(A \cap C)
      BY <1>4, FS_Union
    <2>2. Cardinality(A \cap C) = 0
      BY <1>1, FS_EmptySet
    <2> QED BY <1>1, <1>4, <2>1, <2>2
  <1>6. Cardinality(C) <= z - y
    <2>1. IsFiniteSet((y + 1)..z) /\ Cardinality((y + 1)..z) = (IF y + 1 > z THEN 0 ELSE z - (y + 1) + 1)
      BY FS_Interval
    <2>2. Cardinality((y + 1)..z) = z - y
      BY <2>1
    <2>3. Cardinality(C) <= Cardinality((y + 1)..z)
      BY <1>2, <2>1, FS_Subset
    <2> QED BY <2>2, <2>3
  <1>7. z \in C => Cardinality(C) # 0
    BY <1>4, FS_EmptySet
  <1>8. Above(Y, h, y) = Cardinality(A) /\ Above(Y, h, z) = Cardinality(B)
    BY DEF Above, A, B
  <1>9. z \in C => Cardinality(A) < Cardinality(B)
    BY <1>4, <1>5, <1>7
  <1> QED BY <1>3, <1>4, <1>5, <1>6, <1>8, <1>9

\* Every value brought as near to lo..hi as keeps those of Y in their order.
Negated(Y) == {-a : a \in Y}
DrawnIn(Y, lo, hi, y) ==
    IF y > hi THEN hi + Above(Y, hi, y) ELSE IF y < lo THEN lo - Above(Negated(Y), -lo, -y) ELSE y

LEMMA NegatedIs ==
    ASSUME NEW Y \in SUBSET Int, IsFiniteSet(Y)
    PROVE  /\ Negated(Y) \in SUBSET Int /\ IsFiniteSet(Negated(Y)) /\ Cardinality(Negated(Y)) = Cardinality(Y)
           /\ \A a \in Y : -a \in Negated(Y)
  <1> DEFINE f == [a \in Y |-> -a]
             Z == Negated(Y)
  <1>1. Z \in SUBSET Int /\ \A a \in Y : -a \in Z
    BY DEF Negated
  <1>2. f \in [Y -> Z] /\ (\A a, b \in Y : f[a] = f[b] => a = b)
    BY DEF Negated
  <1>3. \A z \in Z : \E a \in Y : f[a] = z
    BY DEF Negated
  <1> HIDE DEF f, Z
  <1>4. f \in Surjection(Y, Z) /\ f \in Injection(Y, Z)
    BY <1>2, <1>3 DEF Surjection, Injection, IsInjective
  <1>5. IsFiniteSet(Z)
    BY <1>4, FS_Surjection
  <1>6. Cardinality(Y) = Cardinality(Z)
    BY <1>4, <1>5, FS_Injection
  <1> QED BY <1>1, <1>5, <1>6 DEF Z

LEMMA DrawnInIs ==
    ASSUME NEW Y \in SUBSET Int, IsFiniteSet(Y), NEW lo \in Int, NEW hi \in Int, lo <= hi, NEW y \in Int
    PROVE  /\ DrawnIn(Y, lo, hi, y) \in (lo - Cardinality(Y))..(hi + Cardinality(Y))
           /\ lo <= y /\ y <= hi => DrawnIn(Y, lo, hi, y) = y
  <1> DEFINE n == Cardinality(Y)
             a == Above(Y, hi, y)
             b == Above(Negated(Y), -lo, -y)
  <1>1. n \in Nat
    BY FS_CardinalityType
  <1>2. a \in Nat /\ a <= n
    BY AboveIs
  <1>3. b \in Nat /\ b <= n
    <2>1. /\ Negated(Y) \in SUBSET Int /\ IsFiniteSet(Negated(Y)) /\ Cardinality(Negated(Y)) = n
      BY NegatedIs
    <2>2. -lo \in Int /\ -y \in Int
      OBVIOUS
    <2> HIDE DEF n
    <2> QED BY <2>1, <2>2, AboveIs
  <1>4. DrawnIn(Y, lo, hi, y) = IF y > hi THEN hi + a ELSE IF y < lo THEN lo - b ELSE y
    BY DEF DrawnIn
  <1> HIDE DEF n, a, b
  <1>5. CASE y > hi
    <2>1. DrawnIn(Y, lo, hi, y) = hi + a
      BY <1>4, <1>5
    <2> QED BY <1>1, <1>2, <1>5, <2>1 DEF n
  <1>6. CASE ~(y > hi) /\ y < lo
    <2>1. DrawnIn(Y, lo, hi, y) = lo - b
      BY <1>4, <1>6
    <2> QED BY <1>1, <1>3, <1>6, <2>1 DEF n
  <1>7. CASE ~(y > hi) /\ ~(y < lo)
    <2>1. DrawnIn(Y, lo, hi, y) = y
      BY <1>4, <1>7
    <2> QED BY <1>1, <1>7, <2>1 DEF n
  <1> QED BY <1>5, <1>6, <1>7

\* Among lo..hi and Y the order is kept and no distance grows.
LEMMA DrawnInKeeps ==
    ASSUME NEW Y \in SUBSET Int, IsFiniteSet(Y), NEW lo \in Int, NEW hi \in Int, lo <= hi,
           NEW y \in Y \cup (lo..hi), NEW z \in Y \cup (lo..hi), y <= z
    PROVE  /\ DrawnIn(Y, lo, hi, y) <= DrawnIn(Y, lo, hi, z)
           /\ DrawnIn(Y, lo, hi, z) - DrawnIn(Y, lo, hi, y) <= z - y
           /\ y < z => DrawnIn(Y, lo, hi, y) < DrawnIn(Y, lo, hi, z)
  <1> DEFINE a(v) == Above(Y, hi, v)
             b(v) == Above(Negated(Y), -lo, -v)
             d(v) == DrawnIn(Y, lo, hi, v)
             N == Negated(Y)
  <1>1. y \in Int /\ z \in Int /\ (z > hi => z \in Y) /\ (y < lo => y \in Y)
    OBVIOUS
  <1>2. /\ N \in SUBSET Int /\ IsFiniteSet(N) /\ \A v \in Y : -v \in N
    BY NegatedIs
  <1>3. d(y) = IF y > hi THEN hi + a(y) ELSE IF y < lo THEN lo - b(y) ELSE y
    BY DEF DrawnIn
  <1>4. d(z) = IF z > hi THEN hi + a(z) ELSE IF z < lo THEN lo - b(z) ELSE z
    BY DEF DrawnIn
  <1>5. a(y) \in Nat /\ a(z) \in Nat /\ a(hi) = 0
    BY <1>1, AboveIs
  <1>6. b(y) \in Nat /\ b(z) \in Nat /\ b(lo) = 0
    <2>1. -y \in Int /\ -z \in Int /\ -lo \in Int /\ -lo <= -lo
      BY <1>1
    <2> HIDE DEF N
    <2> QED BY <1>2, <2>1, AboveIs DEF N
  <1>7. /\ a(y) <= a(z) /\ (hi <= y => a(z) - a(y) <= z - y)
        /\ (z > hi /\ y < z => a(y) < a(z))
    BY <1>1, AboveGrows
  <1>8. z > hi => a(z) <= z - hi /\ a(z) > 0
    <2> SUFFICES ASSUME z > hi PROVE a(z) <= z - hi /\ a(z) > 0
      OBVIOUS
    <2>1. hi <= z /\ hi <= hi /\ hi < z /\ z \in Y
      BY <1>1
    <2>2. a(z) - a(hi) <= z - hi /\ a(hi) < a(z)
      BY <1>1, <2>1, AboveGrows
    <2> QED BY <1>1, <1>5, <2>2
  <1>9. /\ b(z) <= b(y) /\ (z <= lo => b(y) - b(z) <= z - y)
        /\ (y < lo /\ y < z => b(z) < b(y))
    <2>1. -y \in Int /\ -z \in Int /\ -lo \in Int /\ -z <= -y
      BY <1>1
    <2>2. y < lo => -y \in N
      BY <1>1, <1>2
    <2> HIDE DEF N
    <2>3. /\ Above(N, -lo, -z) <= Above(N, -lo, -y)
          /\ -lo <= -z => Above(N, -lo, -y) - Above(N, -lo, -z) <= (-y) - (-z)
          /\ -y \in N /\ -lo < -y /\ -z < -y => Above(N, -lo, -z) < Above(N, -lo, -y)
      BY <1>2, <2>1, AboveGrows
    <2>4. b(y) = Above(N, -lo, -y) /\ b(z) = Above(N, -lo, -z)
      BY DEF N
    <2> HIDE DEF b
    <2>5. (z <= lo => -lo <= -z) /\ (y < lo => -lo < -y) /\ (y < z => -z < -y) /\ (-y) - (-z) = z - y
      BY <1>1
    <2> QED BY <2>2, <2>3, <2>4, <2>5
  <1>10. y < lo => b(y) <= lo - y /\ b(y) > 0
    <2> SUFFICES ASSUME y < lo PROVE b(y) <= lo - y /\ b(y) > 0
      OBVIOUS
    <2>1. -y \in N /\ -lo < -y /\ -lo <= -y /\ -lo <= -lo /\ -y \in Int /\ -lo \in Int
      BY <1>1, <1>2
    <2> HIDE DEF N
    <2>2. Above(N, -lo, -y) - Above(N, -lo, -lo) <= (-y) - (-lo) /\ Above(N, -lo, -lo) < Above(N, -lo, -y)
      BY <1>2, <2>1, AboveGrows
    <2>3. b(y) = Above(N, -lo, -y) /\ b(lo) = Above(N, -lo, -lo)
      BY DEF N
    <2> HIDE DEF b
    <2> QED BY <1>1, <1>6, <2>2, <2>3
  <1> HIDE DEF a, b, d
  <1>11. CASE y > hi
    <2>1. z > hi /\ d(y) = hi + a(y) /\ d(z) = hi + a(z)
      BY <1>1, <1>3, <1>4, <1>11
    <2>2. d(y) <= d(z) /\ d(z) - d(y) <= z - y /\ (y < z => d(y) < d(z))
      BY <1>1, <1>5, <1>7, <1>11, <2>1
    <2> QED BY <2>2 DEF d
  <1>12. CASE z < lo
    <2>1. y < lo /\ ~(y > hi) /\ ~(z > hi)
      BY <1>1, <1>12
    <2>2. d(y) = lo - b(y) /\ d(z) = lo - b(z)
      BY <1>3, <1>4, <1>12, <2>1
    <2>3. d(y) <= d(z) /\ d(z) - d(y) <= z - y /\ (y < z => d(y) < d(z))
      BY <1>1, <1>6, <1>9, <1>12, <2>1, <2>2
    <2> QED BY <2>3 DEF d
  <1>13. CASE y <= hi /\ lo <= z
    <2>1. /\ d(y) <= y \/ y < lo
          /\ y < lo => d(y) = lo - b(y)
          /\ lo <= y => d(y) = y
          /\ z > hi => d(z) = hi + a(z)
          /\ z <= hi => d(z) = z
      BY <1>1, <1>3, <1>4, <1>13
    <2>2. d(y) <= d(z) /\ d(z) - d(y) <= z - y /\ (y < z => d(y) < d(z))
      <3>1. CASE y < lo /\ z > hi
        BY <1>1, <1>5, <1>6, <1>8, <1>10, <2>1, <3>1
      <3>2. CASE y < lo /\ z <= hi
        BY <1>1, <1>6, <1>10, <1>13, <2>1, <3>2
      <3>3. CASE lo <= y /\ z > hi
        BY <1>1, <1>5, <1>8, <1>13, <2>1, <3>3
      <3>4. CASE lo <= y /\ z <= hi
        BY <1>1, <2>1, <3>4
      <3> QED BY <1>1, <3>1, <3>2, <3>3, <3>4
    <2> QED BY <2>2 DEF d
  <1> QED BY <1>1, <1>11, <1>12, <1>13
=============================================================================
