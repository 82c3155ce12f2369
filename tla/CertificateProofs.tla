------------------------- MODULE CertificateProofs -------------------------
(***************************************************************************)
(* Proofs about stage S10, for every catalog, every corridor cap and every *)
(* pair of programs grounding can build. First what the selections of      *)
(* module HittingSet return (`canonical_select' a minimum hitting set at   *)
(* minimal levels, `_subset_minimal' an irredundant one), and the corridor *)
(* loop of module CutSearch: SearchInd is inductive, and rests on the      *)
(* selections and on what ReachProofs shows of the fixpoint and of its     *)
(* witness. Then the bracket and the premium of module Premium, and the    *)
(* witnesses, the verdicts and the certificate of module Certificate.      *)
(***************************************************************************)
EXTENDS Certificate, Induction

-----------------------------------------------------------------------------
(* Controls, levels and literals. *)

\* The catalog is finite, and so is every set of its controls.
LEMMA ControlFinite ==
    /\ IsFiniteSet(Control)
    /\ Cardinality(Control) = NControl
    /\ \A K \in SUBSET Control : IsFiniteSet(K) /\ Cardinality(K) \in 0..NControl
  <1>1. IsFiniteSet(Control) /\ Cardinality(Control) = NControl
    BY FS_Interval, CatalogAssumption DEF Control
  <1>2. ASSUME NEW K \in SUBSET Control
        PROVE  IsFiniteSet(K) /\ Cardinality(K) \in 0..NControl
    BY <1>1, FS_Subset, FS_CardinalityType, CatalogAssumption
  <1> QED BY <1>1, <1>2

\* A literal is a control and one of its levels.
LEMMA LiteralIs ==
    \A a : a \in Literal <=> \E c \in Control : \E l \in 1..MaxLevel[c] : a = <<c, l>>
  BY DEF Literal

\* A level vector gives each control a level up to its top one.
LEMMA LevelVectorIs ==
    \A lv : lv \in LevelVectors <=>
        lv \in [Control -> Nat] /\ \A c \in Control : lv[c] <= MaxLevel[c]
  <1>1. ASSUME NEW lv \in LevelVectors
        PROVE  lv \in [Control -> Nat] /\ \A c \in Control : lv[c] <= MaxLevel[c]
    BY CatalogAssumption DEF LevelVectors
  <1>2. ASSUME NEW lv \in [Control -> Nat], \A c \in Control : lv[c] <= MaxLevel[c]
        PROVE  lv \in LevelVectors
    <2>1. ASSUME NEW c \in Control PROVE lv[c] \in UNION {0..MaxLevel[d] : d \in Control}
      <3>1. lv[c] \in 0..MaxLevel[c]
        BY <1>2, CatalogAssumption
      <3> QED BY <3>1
    <2> QED BY <1>2, <2>1 DEF LevelVectors
  <1> QED BY <1>1, <1>2

\* The mask of a cut holds a literal when the cut reaches its level.
LEMMA MaskIs ==
    ASSUME NEW lv, NEW c \in Control, NEW l \in 1..MaxLevel[c]
    PROVE  <<c, l>> \in Mask(lv) <=> l <= lv[c]
  BY LiteralIs DEF Mask

\* Raising levels only adds literals to the mask.
LEMMA MaskMonotone ==
    ASSUME NEW lv \in LevelVectors, NEW other \in LevelVectors,
           \A c \in Control : lv[c] <= other[c]
    PROVE  Mask(lv) \subseteq Mask(other)
  <1> SUFFICES ASSUME NEW a \in Mask(lv) PROVE a \in Mask(other)
    OBVIOUS
  <1>1. PICK c, l : c \in Control /\ l \in 1..MaxLevel[c] /\ a = <<c, l>>
    BY LiteralIs DEF Mask
  <1>2. l \in Nat /\ lv[c] \in Nat /\ other[c] \in Nat
    BY <1>1, LevelVectorIs
  <1>3. l <= lv[c]
    BY <1>1, MaskIs
  <1> QED BY <1>1, <1>2, <1>3, MaskIs

-----------------------------------------------------------------------------
(* Hitting. *)

\* Every clause has a literal of a chosen control at or below its level.
LEMMA HitsAllMeans ==
    ASSUME NEW cls, NEW K, NEW lv
    PROVE  HitsAll(cls, K, lv) <=>
              \A k \in cls : \E c \in K : \E m \in 1..lv[c] : <<c, m>> \in k
  BY DEF HitsAll, HitBy

(* Raising levels and adding controls keeps every clause hit. *)
LEMMA HitsAllMonotone ==
    ASSUME NEW cls, NEW K \in SUBSET Control, NEW J \in SUBSET Control,
           K \subseteq J, NEW lv, NEW other,
           \A c \in K : lv[c] \in Nat /\ other[c] \in Nat /\ lv[c] <= other[c],
           HitsAll(cls, K, lv)
    PROVE  HitsAll(cls, J, other)
  <1> SUFFICES ASSUME NEW k \in cls
               PROVE  \E c \in J : \E m \in 1..other[c] : <<c, m>> \in k
    BY HitsAllMeans
  <1>1. PICK c, m : c \in K /\ m \in 1..lv[c] /\ <<c, m>> \in k
    BY HitsAllMeans
  <1>2. m \in 1..other[c]
    BY <1>1
  <1> QED BY <1>1, <1>2

(* A cut hits a clause when its mask meets it. *)
LEMMA HitsByMask ==
    ASSUME NEW cls, cls \subseteq SUBSET Literal, NEW lv \in LevelVectors
    PROVE  HitsAll(cls, Raised(lv), lv) <=> \A k \in cls : Mask(lv) \cap k # {}
  <1>1. ASSUME NEW k \in cls, NEW c \in Raised(lv), NEW m \in 1..lv[c], <<c, m>> \in k
        PROVE  Mask(lv) \cap k # {}
    <2>1. c \in Control /\ lv[c] \in Nat /\ lv[c] <= MaxLevel[c] /\ MaxLevel[c] \in Nat
      BY LevelVectorIs, CatalogAssumption DEF Raised
    <2>2. m \in 1..MaxLevel[c] /\ m <= lv[c]
      BY <2>1
    <2>3. <<c, m>> \in Mask(lv)
      BY <2>1, <2>2, MaskIs
    <2> QED BY <1>1, <2>3
  <1>2. ASSUME NEW k \in cls, NEW a \in Mask(lv) \cap k
        PROVE  \E c \in Raised(lv) : \E m \in 1..lv[c] : <<c, m>> \in k
    <2>1. PICK c, l : c \in Control /\ l \in 1..MaxLevel[c] /\ a = <<c, l>>
      BY LiteralIs DEF Mask
    <2>2. l <= lv[c] /\ lv[c] \in Nat /\ l \in Nat /\ l >= 1
      BY <2>1, MaskIs, LevelVectorIs
    <2>3. c \in Raised(lv) /\ l \in 1..lv[c]
      BY <2>1, <2>2 DEF Raised
    <2> QED BY <2>1, <2>3
  <1>3. HitsAll(cls, Raised(lv), lv) <=>
            \A k \in cls : \E c \in Raised(lv) : \E m \in 1..lv[c] : <<c, m>> \in k
    BY HitsAllMeans, Zenon
  <1>4. ASSUME HitsAll(cls, Raised(lv), lv), NEW k \in cls PROVE Mask(lv) \cap k # {}
    BY <1>1, <1>3, <1>4
  <1>5. ASSUME \A k \in cls : Mask(lv) \cap k # {} PROVE HitsAll(cls, Raised(lv), lv)
    BY <1>2, <1>3, <1>5
  <1> QED BY <1>4, <1>5

(* Unraised controls hit nothing. *)
LEMMA HitsByRaised ==
    ASSUME NEW cls, NEW K \in SUBSET Control, NEW lv \in LevelVectors, HitsAll(cls, K, lv)
    PROVE  HitsAll(cls, K \cap Raised(lv), lv)
  <1> SUFFICES ASSUME NEW k \in cls
               PROVE  \E c \in K \cap Raised(lv) : \E m \in 1..lv[c] : <<c, m>> \in k
    BY HitsAllMeans
  <1>1. PICK c, m : c \in K /\ m \in 1..lv[c] /\ <<c, m>> \in k
    BY HitsAllMeans
  <1>2. lv[c] \in Nat
    BY <1>1, LevelVectorIs
  <1>3. c \in Raised(lv)
    BY <1>1, <1>2 DEF Raised
  <1> QED BY <1>1, <1>3

(* What a cut hits, its controls hit at their top level. *)
LEMMA RaisedCovers ==
    ASSUME NEW cls, NEW lv \in LevelVectors, HitsAll(cls, Raised(lv), lv)
    PROVE  Raised(lv) \in Covers(cls, Control)
  <1>1. Raised(lv) \in SUBSET Control
    BY DEF Raised
  <1>2. \A c \in Raised(lv) : lv[c] \in Nat /\ MaxLevel[c] \in Nat /\ lv[c] <= MaxLevel[c]
    BY LevelVectorIs, CatalogAssumption DEF Raised
  <1>3. HitsAll(cls, Raised(lv), MaxLevel)
    BY <1>1, <1>2, HitsAllMonotone
  <1> QED BY <1>1, <1>3 DEF Covers

-----------------------------------------------------------------------------
(* The optimum. *)

(* Clauses that are non-empty sets of literals are all hit by the whole    *)
(* catalog at its top level.                                               *)
LEMMA CatalogCovers ==
    ASSUME NEW cls, cls \subseteq SUBSET Literal, {} \notin cls
    PROVE  HitsAll(cls, Control, MaxLevel) /\ Feasible(cls, Control)
  <1>1. ASSUME NEW k \in cls PROVE \E c \in Control : \E m \in 1..MaxLevel[c] : <<c, m>> \in k
    <2>1. PICK a \in k : a \in Literal
      OBVIOUS
    <2> QED BY <2>1, LiteralIs
  <1>2. HitsAll(cls, Control, MaxLevel)
    BY <1>1, HitsAllMeans
  <1> QED BY <1>2 DEF Feasible, Covers

(* min_cardinality is attained by a cover and is below every other.        *)
LEMMA MinCardinalityIs ==
    ASSUME NEW cls, NEW allowed \in SUBSET Control, Feasible(cls, allowed)
    PROVE  /\ MinCardinality(cls, allowed) \in 0..NControl
           /\ \E K \in Covers(cls, allowed) : Cardinality(K) = MinCardinality(cls, allowed)
           /\ \A K \in Covers(cls, allowed) : MinCardinality(cls, allowed) <= Cardinality(K)
  <1> DEFINE T == {Cardinality(K) : K \in Covers(cls, allowed)}
  <1>1. \A K \in Covers(cls, allowed) : Cardinality(K) \in 0..NControl
    BY ControlFinite DEF Covers
  <1>2. T \in SUBSET Nat /\ T # {}
    BY <1>1 DEF Feasible
  <1>3. PICK n \in T : \A m \in T : n <= m
    BY <1>2, LeastNat
  <1>4. n \in 0..NControl /\ (\E K \in Covers(cls, allowed) : Cardinality(K) = n)
        /\ \A K \in Covers(cls, allowed) : n <= Cardinality(K)
    BY <1>1, <1>3
  <1> QED BY <1>4 DEF MinCardinality

(* A larger database has no smaller optimum.                               *)
LEMMA MinCardinalityGrows ==
    ASSUME NEW cls, NEW more, cls \subseteq more, Feasible(more, Control)
    PROVE  Feasible(cls, Control) /\ MinCardinality(cls, Control) <= MinCardinality(more, Control)
  <1>1. PICK K \in Covers(more, Control) : Cardinality(K) = MinCardinality(more, Control)
    BY MinCardinalityIs
  <1>2. HitsAll(more, K, MaxLevel) /\ K \in SUBSET Control
    BY DEF Covers
  <1>3. HitsAll(cls, K, MaxLevel)
    BY <1>2, HitsAllMeans
  <1>4. K \in Covers(cls, Control)
    BY <1>2, <1>3 DEF Covers
  <1> QED BY <1>1, <1>4, MinCardinalityIs DEF Feasible

-----------------------------------------------------------------------------
(* Lowering. *)

(* Where the lowering loop leaves a control is where it must stop.         *)
LEMMA LowestLevelIs ==
    ASSUME NEW cls, NEW K \in SUBSET Control, NEW lv \in [Control -> Nat],
           NEW c \in K, lv[c] >= 1, HitsAll(cls, K, lv)
    PROVE  /\ LowestLevel(cls, K, lv, c) \in 1..lv[c]
           /\ HitsAll(cls, K, [lv EXCEPT ![c] = LowestLevel(cls, K, lv, c)])
           /\ \/ LowestLevel(cls, K, lv, c) = 1
              \/ ~HitsAll(cls, K, [lv EXCEPT ![c] = LowestLevel(cls, K, lv, c) - 1])
  <1> DEFINE At(m) == [lv EXCEPT ![c] = m]
             Good(l) == \A m \in l..lv[c] : HitsAll(cls, K, At(m))
             T == {l \in 1..lv[c] : Good(l)}
  <1>1. c \in Control /\ lv[c] \in Nat
    OBVIOUS
  <1>2. Good(lv[c])
    <2>1. At(lv[c]) = lv
      BY <1>1
    <2>2. \A m \in lv[c]..lv[c] : m = lv[c]
      BY <1>1
    <2> QED BY <2>1, <2>2
  <1>3. lv[c] \in T /\ T \in SUBSET Nat
    BY <1>1, <1>2
  <1> HIDE DEF Good
  <1>4. PICK l \in T : \A m \in T : l <= m
    BY <1>3, LeastNat
  <1>5. l = 1 \/ ~HitsAll(cls, K, At(l - 1))
    <2> SUFFICES ASSUME l # 1, HitsAll(cls, K, At(l - 1)) PROVE FALSE
      OBVIOUS
    <2>1. l \in 1..lv[c] /\ Good(l)
      OBVIOUS
    <2>2. \A m \in (l - 1)..lv[c] : m = l - 1 \/ m \in l..lv[c]
      BY <2>1, <1>1
    <2>3. Good(l - 1)
      BY <2>1, <2>2 DEF Good
    <2>4. l - 1 \in T
      BY <1>1, <2>1, <2>3
    <2> QED BY <1>4, <2>1, <2>4
  <1>6. l \in 1..lv[c] /\ Good(l)
    OBVIOUS
  <1> DEFINE L == LowestLevel(cls, K, lv, c)
  <1>7. /\ L \in 1..lv[c]
        /\ \A m \in L..lv[c] : HitsAll(cls, K, [lv EXCEPT ![c] = m])
        /\ L = 1 \/ ~HitsAll(cls, K, [lv EXCEPT ![c] = L - 1])
    BY <1>5, <1>6 DEF LowestLevel, Good
  <1>8. L \in L..lv[c]
    BY <1>1, <1>7
  <1> QED BY <1>7, <1>8

(* The lowering pass keeps every clause hit, keeps exactly the chosen      *)
(* controls raised, and leaves none that could go one step further down.   *)
LEMMA LoweredIs ==
    ASSUME NEW cls, NEW K \in SUBSET Control, HitsAll(cls, K, MaxLevel)
    PROVE  /\ Lowered(cls, K) \in LevelVectors
           /\ Raised(Lowered(cls, K)) = K
           /\ HitsAll(cls, K, Lowered(cls, K))
           /\ LevelMinimal(cls, K, Lowered(cls, K))
  <1> DEFINE Top == [c \in Control |-> IF c \in K THEN MaxLevel[c] ELSE 0]
             Step(g, n) == IF n = 0 THEN Top
                           ELSE IF n \notin K THEN g[n - 1]
                           ELSE [g[n - 1] EXCEPT ![n] = LowestLevel(cls, K, g[n - 1], n)]
             Upto(n) == \E g : g = [m \in 0..n |-> Step(g, m)]
             Pass == CHOOSE g : g = [m \in 0..NControl |-> Step(g, m)]
  <1>0. NControl \in Nat
    BY CatalogAssumption
  <1>1. Lowered(cls, K) = Pass[NControl]
    BY DEF Lowered
  <1>2. Upto(NControl)
    <2> DEFINE S == {n \in 0..NControl : Upto(n)}
    <2>1. 0 \in S
      <3> DEFINE h == [m \in 0..0 |-> Top]
      <3>1. h = [m \in 0..0 |-> Step(h, m)]
        OBVIOUS
      <3> HIDE DEF h
      <3> QED BY <1>0, <3>1
    <2>2. ASSUME NEW n \in 1..NControl, n - 1 \in S PROVE n \in S
      <3>1. PICK g : g = [m \in 0..(n - 1) |-> Step(g, m)]
        BY <2>2
      <3> DEFINE h == [m \in 0..n |-> IF m = n THEN Step(g, n) ELSE g[m]]
      <3>2. ASSUME NEW m \in 0..n PROVE h[m] = Step(h, m)
        <4>1. CASE m = n
          <5>1. h[n - 1] = g[n - 1]
            BY <1>0
          <5> QED BY <4>1, <5>1, <1>0
        <4>2. CASE m # n
          <5>1. m \in 0..(n - 1)
            BY <4>2, <1>0
          <5>2. g[m] = Step(g, m)
            BY <3>1, <5>1
          <5>3. m # 0 => h[m - 1] = g[m - 1]
            BY <4>2, <1>0
          <5> QED BY <4>2, <5>2, <5>3
        <4> QED BY <4>1, <4>2
      <3>3. h = [m \in 0..n |-> Step(h, m)]
        BY <3>2
      <3> HIDE DEF h
      <3> QED BY <3>3, <1>0, SMTT(30)
    <2> HIDE DEF S
    <2>3. 0..NControl \subseteq S
      BY <1>0, <2>1, <2>2, BoundedInduction
    <2>4. NControl \in S
      BY <2>3, <1>0
    <2> QED BY <2>4 DEF S
  <1>3. Pass = [m \in 0..NControl |-> Step(Pass, m)]
    BY <1>2
  <1> HIDE DEF Pass
  <1> DEFINE Good(lv, n) ==
                 /\ lv \in [Control -> Nat]
                 /\ \A c \in K : 1 <= lv[c] /\ lv[c] <= MaxLevel[c]
                 /\ \A c \in Control \ K : lv[c] = 0
                 /\ HitsAll(cls, K, lv)
                 /\ \A c \in K : c <= n =>
                        \/ lv[c] = 1
                        \/ ~HitsAll(cls, K, [lv EXCEPT ![c] = lv[c] - 1])
  <1>4. Good(Top, 0)
    <2>1. Top \in [Control -> Nat]
      BY CatalogAssumption
    <2>2. \A c \in K : Top[c] = MaxLevel[c] /\ MaxLevel[c] \in Nat \ {0}
      BY CatalogAssumption
    <2>3. HitsAll(cls, K, Top)
      BY <2>2, HitsAllMonotone
    <2>4. \A c \in K : ~(c <= 0)
      BY DEF Control
    <2> QED BY <2>1, <2>2, <2>3, <2>4
  <1>5. ASSUME NEW n \in 1..NControl, Good(Pass[n - 1], n - 1) PROVE Good(Pass[n], n)
    <2> DEFINE lv == Pass[n - 1]
    <2>1. n \in 0..NControl /\ n # 0 /\ n \in Control
      BY <1>0 DEF Control
    <2>2. CASE n \notin K
      <3>1. Pass[n] = lv
        BY <1>3, <2>1, <2>2
      <3>2. \A c \in K : c <= n => c <= n - 1
        BY <2>2, <1>0 DEF Control
      <3> QED BY <1>5, <3>1, <3>2
    <2>3. CASE n \in K
      <3> DEFINE L == LowestLevel(cls, K, lv, n)
                 new == [lv EXCEPT ![n] = L]
      <3>1. Pass[n] = new
        BY <1>3, <2>1, <2>3
      <3>2. lv \in [Control -> Nat] /\ lv[n] >= 1 /\ HitsAll(cls, K, lv)
        BY <1>5, <2>1, <2>3
      <3> HIDE DEF lv
      <3>3. /\ L \in 1..lv[n]
            /\ HitsAll(cls, K, new)
            /\ L = 1 \/ ~HitsAll(cls, K, [lv EXCEPT ![n] = L - 1])
        BY <2>3, <3>2, LowestLevelIs
      <3>4. lv[n] \in Nat /\ L \in Nat /\ lv[n] <= MaxLevel[n] /\ MaxLevel[n] \in Nat
        BY <1>5, <2>1, <2>3, <3>2, <3>3, CatalogAssumption DEF lv
      <3> HIDE DEF L
      <3>5. new \in [Control -> Nat] /\ new[n] = L
            /\ \A c \in Control : c # n => new[c] = lv[c]
        BY <2>1, <3>2, <3>4
      <3>6. \A c \in K : 1 <= new[c] /\ new[c] <= MaxLevel[c]
        <4> SUFFICES ASSUME NEW c \in K PROVE 1 <= new[c] /\ new[c] <= MaxLevel[c]
          OBVIOUS
        <4>1. CASE c = n
          BY <4>1, <3>3, <3>4, <3>5
        <4>2. CASE c # n
          BY <4>2, <3>5, <1>5 DEF lv
        <4> QED BY <4>1, <4>2
      <3>7. \A c \in Control \ K : new[c] = 0
        BY <2>3, <3>5, <1>5 DEF lv
      <3>8. ASSUME NEW c \in K, c <= n, new[c] # 1,
                   HitsAll(cls, K, [new EXCEPT ![c] = new[c] - 1])
            PROVE  FALSE
        <4>1. CASE c = n
          <5>1. [new EXCEPT ![n] = new[n] - 1] = [lv EXCEPT ![n] = L - 1]
            BY <2>1, <3>2, <3>5
          <5> QED BY <4>1, <5>1, <3>3, <3>5, <3>8
        <4>2. CASE c # n
          <5>1. c \in Control /\ c <= n - 1 /\ new[c] = lv[c]
            BY <4>2, <3>5, <3>8, <1>0 DEF Control
          <5>2. lv[c] # 1 /\ ~HitsAll(cls, K, [lv EXCEPT ![c] = lv[c] - 1])
            BY <5>1, <1>5, <3>8 DEF lv
          <5>3. \A d \in K : /\ [new EXCEPT ![c] = new[c] - 1][d] \in Nat
                             /\ [lv EXCEPT ![c] = lv[c] - 1][d] \in Nat
                             /\ [new EXCEPT ![c] = new[c] - 1][d] <= [lv EXCEPT ![c] = lv[c] - 1][d]
            <6> SUFFICES ASSUME NEW d \in K
                         PROVE /\ [new EXCEPT ![c] = new[c] - 1][d] \in Nat
                             /\ [lv EXCEPT ![c] = lv[c] - 1][d] \in Nat
                             /\ [new EXCEPT ![c] = new[c] - 1][d] <= [lv EXCEPT ![c] = lv[c] - 1][d]
              OBVIOUS
            <6>1. lv[d] \in Nat /\ new[d] \in Nat /\ lv[c] \in Nat /\ new[c] >= 1
              BY <3>2, <3>5, <3>6
            <6>2. new[d] <= lv[d]
              BY <3>3, <3>4, <3>5, <6>1
            <6>3. [new EXCEPT ![c] = new[c] - 1][d] = IF d = c THEN new[c] - 1 ELSE new[d]
              BY <3>5
            <6>4. [lv EXCEPT ![c] = lv[c] - 1][d] = IF d = c THEN lv[c] - 1 ELSE lv[d]
              BY <3>2
            <6> HIDE DEF new
            <6> QED BY <5>1, <6>1, <6>2, <6>3, <6>4
          <5>4. HitsAll(cls, K, [lv EXCEPT ![c] = lv[c] - 1])
            BY <3>8, <5>3, HitsAllMonotone
          <5> QED BY <5>2, <5>4
        <4> QED BY <4>1, <4>2
      <3> QED BY <3>1, <3>3, <3>5, <3>6, <3>7, <3>8
    <2> QED BY <2>2, <2>3
  <1> HIDE DEF Good
  <1>6. Good(Pass[NControl], NControl)
    <2> DEFINE S == {n \in 0..NControl : Good(Pass[n], n)}
    <2>1. 0 \in S
      <3>1. Pass[0] = Top
        BY <1>0, <1>3
      <3> HIDE DEF Top
      <3> QED BY <1>0, <1>4, <3>1
    <2>2. \A n \in 1..NControl : n - 1 \in S => n \in S
      BY <1>0, <1>5
    <2> HIDE DEF S
    <2>3. 0..NControl \subseteq S
      BY <1>0, <2>1, <2>2, BoundedInduction
    <2>4. NControl \in S
      BY <2>3, <1>0
    <2> QED BY <2>4 DEF S
  <1> DEFINE lv == Lowered(cls, K)
  <1>7. Good(lv, NControl)
    BY <1>1, <1>6
  <1> HIDE DEF lv
  <1>8. lv \in [Control -> Nat] /\ \A c \in Control : lv[c] <= MaxLevel[c]
    BY <1>7, CatalogAssumption DEF Good
  <1>9. lv \in LevelVectors
    BY <1>8, LevelVectorIs
  <1>10. Raised(lv) = K
    BY <1>7 DEF Good, Raised
  <1>11. LevelMinimal(cls, K, lv)
    <2>1. \A c \in K : c <= NControl
      BY <1>0 DEF Control
    <2> SUFFICES ASSUME NEW c \in K, lv[c] > 1
                 PROVE  ~HitsAll(cls, K, [lv EXCEPT ![c] = lv[c] - 1])
      BY DEF LevelMinimal
    <2>2. lv[c] \in Nat
      BY <1>8
    <2>3. lv[c] # 1
      BY <2>2
    <2> QED BY <1>7, <2>1, <2>3, Zenon DEF Good
  <1> QED BY <1>7, <1>9, <1>10, <1>11 DEF Good, lv

-----------------------------------------------------------------------------
(* The selections. *)

(* The greedy walk of canonical_select, given the optimum, ends with a     *)
(* cover of exactly that many controls: whenever it passes a control by,   *)
(* the controls still ahead cover what is left within what is left to      *)
(* spend.                                                                  *)
LEMMA GreedyIs ==
    ASSUME NEW cls, Feasible(cls, Control)
    PROVE  LET K == GreedyControls(cls, MinCardinality(cls, Control)) IN
           /\ K \in Covers(cls, Control)
           /\ Cardinality(K) = MinCardinality(cls, Control)
  <1> DEFINE best == MinCardinality(cls, Control)
             Left(K) == {k \in cls : k \notin UNION {HitBy(cls, c, MaxLevel[c]) : c \in K}}
             Step(g, n) ==
                 IF n = 0 THEN {}
                 ELSE LET taken == g[n - 1] IN
                      IF /\ Cardinality(taken) < best
                         /\ Extendable(Left(taken \cup {n}), n + 1,
                                       best - Cardinality(taken) - 1)
                      THEN taken \cup {n} ELSE taken
             Upto(n) == \E g : g = [m \in 0..n |-> Step(g, m)]
             Walk == CHOOSE g : g = [m \in 0..NControl |-> Step(g, m)]
  <1>0. NControl \in Nat /\ best \in Nat
    BY CatalogAssumption, MinCardinalityIs
  <1>1. GreedyControls(cls, best) = Walk[NControl]
    BY DEF GreedyControls
  <1> HIDE DEF best
  <1>2. Upto(NControl)
    <2> DEFINE S == {n \in 0..NControl : Upto(n)}
    <2>1. 0 \in S
      <3> DEFINE h == [m \in 0..0 |-> {}]
      <3>1. h = [m \in 0..0 |-> Step(h, m)]
        OBVIOUS
      <3> HIDE DEF h
      <3> QED BY <1>0, <3>1
    <2>2. ASSUME NEW n \in 1..NControl, n - 1 \in S PROVE n \in S
      <3>1. PICK g : g = [m \in 0..(n - 1) |-> Step(g, m)]
        BY <2>2
      <3> DEFINE h == [m \in 0..n |-> IF m = n THEN Step(g, n) ELSE g[m]]
      <3>2. ASSUME NEW m \in 0..n PROVE h[m] = Step(h, m)
        <4>1. CASE m = n
          <5>1. h[n - 1] = g[n - 1]
            BY <1>0
          <5>2. h[n] = Step(g, n)
            BY <1>0
          <5> HIDE DEF h, Left
          <5> QED BY <4>1, <5>1, <5>2
        <4>2. CASE m # n
          <5>1. m \in 0..(n - 1)
            BY <4>2, <1>0
          <5>2. g[m] = Step(g, m)
            BY <3>1, <5>1
          <5>3. m # 0 => h[m - 1] = g[m - 1]
            BY <4>2, <1>0
          <5>4. h[m] = g[m]
            BY <4>2
          <5> HIDE DEF h, Left
          <5> QED BY <5>2, <5>3, <5>4
        <4> QED BY <4>1, <4>2
      <3>3. h = [m \in 0..n |-> Step(h, m)]
        BY <3>2
      <3> HIDE DEF h, Step
      <3> QED BY <3>3, <1>0
    <2> HIDE DEF S
    <2>3. 0..NControl \subseteq S
      BY <1>0, <2>1, <2>2, BoundedInduction
    <2>4. NControl \in S
      BY <2>3, <1>0
    <2> QED BY <2>4 DEF S
  <1>3. Walk = [m \in 0..NControl |-> Step(Walk, m)]
    BY <1>2
  <1> HIDE DEF Walk
  <1>4. ASSUME NEW K \in SUBSET Control, NEW J \in SUBSET Control
        PROVE  HitsAll(Left(K), J, MaxLevel) <=> HitsAll(cls, K \cup J, MaxLevel)
    <2>1. \A k \in cls : k \in Left(K) <=> ~\E c \in K : \E m \in 1..MaxLevel[c] : <<c, m>> \in k
      <3> TAKE k \in cls
      <3>1. k \in UNION {HitBy(cls, c, MaxLevel[c]) : c \in K} <=>
                \E c \in K : \E m \in 1..MaxLevel[c] : <<c, m>> \in k
        <4>1. \A c : k \in HitBy(cls, c, MaxLevel[c]) <=> \E m \in 1..MaxLevel[c] : <<c, m>> \in k
          BY DEF HitBy
        <4> QED BY <4>1
      <3> QED BY <3>1
    <2>2. Left(K) \subseteq cls
      OBVIOUS
    <2> HIDE DEF Left
    <2> QED BY <2>1, <2>2, HitsAllMeans
  <1> HIDE DEF Left
  <1> DEFINE Good(K, n) ==
                 /\ K \in SUBSET (1..n)
                 /\ \E J \in SUBSET ((n + 1)..NControl) :
                       /\ HitsAll(Left(K), J, MaxLevel)
                       /\ Cardinality(K) + Cardinality(J) <= best
  <1>5. Good({}, 0)
    <2>1. PICK J \in Covers(cls, Control) : Cardinality(J) = best
      BY MinCardinalityIs DEF best
    <2>2. J \in SUBSET ((0 + 1)..NControl) /\ HitsAll(cls, J, MaxLevel) /\ {} \cup J = J
      BY DEF Covers, Control
    <2>3. HitsAll(Left({}), J, MaxLevel)
      BY <1>4, <2>2 DEF Control
    <2>4. Cardinality({}) + Cardinality(J) <= best
      BY <1>0, <2>1, FS_EmptySet
    <2> QED BY <2>2, <2>3, <2>4
  <1>6. ASSUME NEW n \in 1..NControl, Good(Walk[n - 1], n - 1) PROVE Good(Walk[n], n)
    <2> DEFINE taken == Walk[n - 1]
               Takes == /\ Cardinality(taken) < best
                        /\ Extendable(Left(taken \cup {n}), n + 1, best - Cardinality(taken) - 1)
    <2>1. n \in 0..NControl /\ n # 0 /\ n \in Control /\ n \in Nat
      BY <1>0 DEF Control
    <2>2. Walk[n] = IF Takes THEN taken \cup {n} ELSE taken
      BY <1>3, <2>1
    <2>3. taken \in SUBSET (1..(n - 1))
      BY <1>6
    <2>4. PICK J \in SUBSET (((n - 1) + 1)..NControl) :
              /\ HitsAll(Left(taken), J, MaxLevel)
              /\ Cardinality(taken) + Cardinality(J) <= best
      BY <1>6
    <2> HIDE DEF taken
    <2>5. /\ taken \in SUBSET Control /\ J \in SUBSET Control
          /\ taken \in SUBSET (1..n) /\ n \notin taken
      BY <1>0, <2>3 DEF Control
    <2>6. /\ IsFiniteSet(taken) /\ Cardinality(taken) \in Nat
          /\ IsFiniteSet(J) /\ Cardinality(J) \in Nat
      BY <2>5, ControlFinite
    <2>7. CASE Takes
      <3>1. PICK E \in Covers(Left(taken \cup {n}), (n + 1)..NControl) :
                Cardinality(E) <= best - Cardinality(taken) - 1
        BY <2>7 DEF Extendable
      <3>2. E \in SUBSET ((n + 1)..NControl) /\ HitsAll(Left(taken \cup {n}), E, MaxLevel)
        BY DEF Covers
      <3>3. Cardinality(taken \cup {n}) = Cardinality(taken) + 1
        BY <2>5, <2>6, FS_AddElement
      <3>4. E \in SUBSET Control
        BY <1>0, <3>2 DEF Control
      <3>5. Cardinality(E) \in Nat
        BY <3>4, ControlFinite
      <3>6. Cardinality(taken \cup {n}) + Cardinality(E) <= best
        BY <1>0, <2>6, <3>1, <3>3, <3>5
      <3>7. taken \cup {n} \in SUBSET (1..n)
        BY <2>1, <2>5
      <3> QED BY <2>2, <2>7, <3>2, <3>6, <3>7
    <2>8. CASE ~Takes
      <3>1. n \notin J
        <4> SUFFICES ASSUME n \in J PROVE FALSE
          OBVIOUS
        <4> DEFINE E == J \ {n}
        <4>1. IsFiniteSet(E) /\ Cardinality(E) = Cardinality(J) - 1
          BY <2>6, FS_RemoveElement
        <4>2. E \in SUBSET ((n + 1)..NControl) /\ E \in SUBSET Control
          BY <1>0, <2>5
        <4>3. taken \cup J = (taken \cup {n}) \cup E /\ taken \cup {n} \in SUBSET Control
          BY <2>1, <2>5
        <4>4. HitsAll(Left(taken \cup {n}), E, MaxLevel)
          BY <1>4, <2>4, <2>5, <4>2, <4>3
        <4>5. Cardinality(E) \in Nat
          BY <4>1, FS_CardinalityType
        <4>6. /\ Cardinality(E) <= best - Cardinality(taken) - 1
              /\ Cardinality(taken) < best
          BY <1>0, <2>4, <2>6, <4>1, <4>5
        <4>7. E \in Covers(Left(taken \cup {n}), (n + 1)..NControl)
          BY <4>2, <4>4 DEF Covers
        <4> QED BY <2>8, <4>6, <4>7 DEF Extendable
      <3>2. J \in SUBSET ((n + 1)..NControl)
        BY <1>0, <3>1
      <3> QED BY <2>2, <2>4, <2>5, <2>8, <3>2
    <2> QED BY <2>7, <2>8
  <1> HIDE DEF Good
  <1>7. Good(Walk[NControl], NControl)
    <2> DEFINE S == {n \in 0..NControl : Good(Walk[n], n)}
    <2>1. 0 \in S
      <3>1. Walk[0] = {}
        BY <1>0, <1>3
      <3> QED BY <1>0, <1>5, <3>1
    <2>2. \A n \in 1..NControl : n - 1 \in S => n \in S
      BY <1>0, <1>6
    <2> HIDE DEF S
    <2>3. 0..NControl \subseteq S
      BY <1>0, <2>1, <2>2, BoundedInduction
    <2>4. NControl \in S
      BY <2>3, <1>0
    <2> QED BY <2>4 DEF S
  <1> DEFINE K == Walk[NControl]
  <1>8. PICK J \in SUBSET ((NControl + 1)..NControl) :
            HitsAll(Left(K), J, MaxLevel) /\ Cardinality(K) + Cardinality(J) <= best
    BY <1>7 DEF Good
  <1>9. K \in SUBSET Control
    BY <1>7 DEF Good, Control
  <1> HIDE DEF K
  <1>10. J = {} /\ J \in SUBSET Control /\ K \cup J = K
    <2>1. \A x \in (NControl + 1)..NControl : FALSE
      BY <1>0
    <2> QED BY <2>1
  <1>11. HitsAll(cls, K, MaxLevel)
    BY <1>4, <1>8, <1>9, <1>10
  <1>12. K \in Covers(cls, Control)
    BY <1>9, <1>11 DEF Covers
  <1>13. best <= Cardinality(K)
    BY <1>12, MinCardinalityIs DEF best
  <1>14. Cardinality(K) = best
    BY <1>0, <1>8, <1>9, <1>10, <1>13, ControlFinite, FS_EmptySet
  <1> QED BY <1>1, <1>12, <1>14 DEF K, best

(* canonical_select, given the optimum, passes its own checks.             *)
LEMMA CanonicalSelectIs ==
    ASSUME NEW cls, Feasible(cls, Control)
    PROVE  LET lv == CanonicalSelect(cls, MinCardinality(cls, Control)) IN
           /\ SelectAccepts(cls, MinCardinality(cls, Control))
           /\ lv \in LevelVectors
           /\ HitsAll(cls, Raised(lv), lv)
           /\ LevelMinimal(cls, Raised(lv), lv)
           /\ Cardinality(Raised(lv)) = MinCardinality(cls, Control)
  <1> DEFINE K == GreedyControls(cls, MinCardinality(cls, Control))
  <1>1. K \in Covers(cls, Control) /\ Cardinality(K) = MinCardinality(cls, Control)
    BY GreedyIs
  <1>2. K \in SUBSET Control /\ HitsAll(cls, K, MaxLevel)
    BY <1>1 DEF Covers
  <1>3. /\ Lowered(cls, K) \in LevelVectors
        /\ Raised(Lowered(cls, K)) = K
        /\ HitsAll(cls, K, Lowered(cls, K))
        /\ LevelMinimal(cls, K, Lowered(cls, K))
    BY <1>2, LoweredIs
  <1> QED BY <1>1, <1>3 DEF CanonicalSelect, SelectAccepts

(* _subset_minimal keeps a cover no control of which can be spared.        *)
LEMMA SubsetControlsIs ==
    ASSUME NEW cls, HitsAll(cls, Control, MaxLevel)
    PROVE  LET K == SubsetControls(cls) IN
           /\ K \in Covers(cls, Control)
           /\ \A c \in K : ~HitsAll(cls, K \ {c}, MaxLevel)
  <1> DEFINE N == NControl + 1
             Step(g, n) == IF n = N THEN Control
                           ELSE IF HitsAll(cls, g[n + 1] \ {n}, MaxLevel)
                                THEN g[n + 1] \ {n} ELSE g[n + 1]
             From(n) == \E g : g = [m \in (N - n)..N |-> Step(g, m)]
             Kept == CHOOSE g : g = [m \in 1..N |-> Step(g, m)]
  <1>0. NControl \in Nat /\ N \in Nat /\ N - NControl = 1
    BY CatalogAssumption
  <1>1. SubsetControls(cls) = Kept[1]
    BY DEF SubsetControls
  <1>2. From(NControl)
    <2> DEFINE S == {n \in 0..NControl : From(n)}
    <2>1. 0 \in S
      <3> DEFINE h == [m \in (N - 0)..N |-> Control]
      <3>1. h = [m \in (N - 0)..N |-> Step(h, m)]
        BY <1>0
      <3> HIDE DEF h, Step
      <3> QED BY <1>0, <3>1
    <2>2. ASSUME NEW n \in 1..NControl, n - 1 \in S PROVE n \in S
      <3> DEFINE b == N - n
      <3>1. PICK g : g = [m \in (N - (n - 1))..N |-> Step(g, m)]
        BY <2>2
      <3>2. b \in 1..NControl /\ b # N /\ N - (n - 1) = b + 1 /\ N \in Nat
        BY <1>0
      <3> DEFINE h == [m \in b..N |-> IF m = b THEN Step(g, b) ELSE g[m]]
      <3> HIDE DEF b, N
      <3>3. ASSUME NEW m \in b..N PROVE h[m] = Step(h, m)
        <4>1. CASE m = b
          <5>1. h[b + 1] = g[b + 1] /\ h[b] = Step(g, b)
            BY <3>2, <4>1
          <5> HIDE DEF h
          <5> QED BY <3>2, <4>1, <5>1
        <4>2. CASE m # b
          <5>1. m \in (b + 1)..N
            BY <3>2, <4>2
          <5>2. g[m] = Step(g, m)
            BY <3>1, <3>2, <5>1
          <5>3. m # N => h[m + 1] = g[m + 1]
            BY <3>2, <4>2
          <5>4. h[m] = g[m]
            BY <4>2
          <5> HIDE DEF h
          <5> QED BY <5>2, <5>3, <5>4
        <4> QED BY <4>1, <4>2
      <3>4. h = [m \in b..N |-> Step(h, m)]
        BY <3>3
      <3> HIDE DEF h, Step
      <3>5. From(n)
        BY <3>4 DEF b
      <3> QED BY <3>5, <1>0
    <2> HIDE DEF S
    <2>3. 0..NControl \subseteq S
      BY <1>0, <2>1, <2>2, BoundedInduction
    <2>4. NControl \in S
      BY <2>3, <1>0
    <2> QED BY <2>4 DEF S
  <1>3. Kept = [m \in 1..N |-> Step(Kept, m)]
    <2>1. \E g : g = [m \in 1..N |-> Step(g, m)]
      BY <1>0, <1>2
    <2> HIDE DEF Step
    <2> QED BY <2>1
  <1> HIDE DEF Kept
  <1> DEFINE Good(K, n) ==
                 /\ K \in SUBSET Control
                 /\ HitsAll(cls, K, MaxLevel)
                 /\ \A c \in K : c >= n => ~HitsAll(cls, K \ {c}, MaxLevel)
  <1>4. Good(Kept[N], N)
    <2>1. Kept[N] = Control
      BY <1>0, <1>3
    <2>2. \A c \in Control : ~(c >= N)
      BY <1>0 DEF Control
    <2> QED BY <2>1, <2>2
  <1>5. ASSUME NEW n \in Control, Good(Kept[n + 1], n + 1) PROVE Good(Kept[n], n)
    <2> DEFINE K == Kept[n + 1]
    <2>1. n \in 1..N /\ n # N /\ n \in Nat
      BY <1>0 DEF Control
    <2>2. Kept[n] = IF HitsAll(cls, K \ {n}, MaxLevel) THEN K \ {n} ELSE K
      BY <1>3, <2>1
    <2>3. Good(K, n + 1)
      BY <1>5
    <2> HIDE DEF K
    <2>4. CASE HitsAll(cls, K \ {n}, MaxLevel)
      <3>1. ASSUME NEW c \in K \ {n}, c >= n PROVE ~HitsAll(cls, (K \ {n}) \ {c}, MaxLevel)
        <4>1. c >= n + 1 /\ K \in SUBSET Control
          BY <2>1, <2>3, <3>1 DEF Control
        <4>2. ~HitsAll(cls, K \ {c}, MaxLevel)
          BY <2>3, <4>1
        <4>3. \A d \in Control : MaxLevel[d] \in Nat /\ MaxLevel[d] <= MaxLevel[d]
          BY CatalogAssumption
        <4>4. (K \ {n}) \ {c} \subseteq K \ {c} /\ K \ {c} \in SUBSET Control
              /\ (K \ {n}) \ {c} \in SUBSET Control
          BY <4>1
        <4> QED BY <4>2, <4>3, <4>4, HitsAllMonotone
      <3> QED BY <2>2, <2>3, <2>4, <3>1
    <2>5. CASE ~HitsAll(cls, K \ {n}, MaxLevel)
      <3>1. \A c \in K : c >= n => c = n \/ c >= n + 1
        BY <2>1, <2>3 DEF Control
      <3> QED BY <2>2, <2>3, <2>5, <3>1
    <2> QED BY <2>4, <2>5
  <1> HIDE DEF Good
  <1>6. Good(Kept[1], 1)
    <2> DEFINE S == {n \in 0..NControl : Good(Kept[N - n], N - n)}
    <2>1. 0 \in S
      BY <1>0, <1>4
    <2>2. ASSUME NEW n \in 1..NControl, n - 1 \in S PROVE n \in S
      <3>1. N - n \in Control /\ N - (n - 1) = (N - n) + 1
        BY <1>0 DEF Control
      <3>2. Good(Kept[(N - n) + 1], (N - n) + 1)
        BY <2>2, <3>1
      <3> HIDE DEF N
      <3>3. Good(Kept[N - n], N - n)
        BY <3>1, <3>2, <1>5
      <3> QED BY <3>3, <1>0
    <2> HIDE DEF S
    <2>3. 0..NControl \subseteq S
      BY <1>0, <2>1, <2>2, BoundedInduction
    <2>4. NControl \in S
      BY <2>3, <1>0
    <2> QED BY <2>4, <1>0 DEF S
  <1>7. \A c \in Control : c >= 1
    BY DEF Control
  <1> QED BY <1>1, <1>6, <1>7 DEF Good, Covers

-----------------------------------------------------------------------------
(* What the selected cuts leave unhit when they are made smaller. *)

(* Some clause is not hit by the cut. *)
Misses(cls, lv) == \E k \in cls : Mask(lv) \cap k = {}

(* A cut with fewer controls than the optimum misses a clause.             *)
LEMMA FewerMisses ==
    ASSUME NEW cls, cls \subseteq SUBSET Literal, Feasible(cls, Control),
           NEW lv \in LevelVectors, Cardinality(Raised(lv)) < MinCardinality(cls, Control)
    PROVE  Misses(cls, lv)
  <1> SUFFICES ASSUME \A k \in cls : Mask(lv) \cap k # {} PROVE FALSE
    BY DEF Misses
  <1>1. Raised(lv) \in Covers(cls, Control)
    BY HitsByMask, RaisedCovers
  <1>2. MinCardinality(cls, Control) <= Cardinality(Raised(lv))
    BY <1>1, MinCardinalityIs
  <1>3. Raised(lv) \in SUBSET Control
    BY DEF Raised
  <1> QED BY <1>2, <1>3, ControlFinite, MinCardinalityIs

(* No control of a minimum cover can be spared.                            *)
LEMMA MinimumIsIrredundant ==
    ASSUME NEW cls, Feasible(cls, Control), NEW K \in SUBSET Control,
           Cardinality(K) = MinCardinality(cls, Control), NEW c \in K
    PROVE  ~HitsAll(cls, K \ {c}, MaxLevel)
  <1> SUFFICES ASSUME HitsAll(cls, K \ {c}, MaxLevel) PROVE FALSE
    OBVIOUS
  <1>1. K \ {c} \in Covers(cls, Control)
    BY DEF Covers
  <1>2. MinCardinality(cls, Control) <= Cardinality(K \ {c})
    BY <1>1, MinCardinalityIs
  <1>3. IsFiniteSet(K) /\ Cardinality(K) \in Nat
    BY ControlFinite
  <1>4. Cardinality(K \ {c}) = Cardinality(K) - 1
    BY <1>3, FS_RemoveElement
  <1> QED BY <1>2, <1>3, <1>4

(* The cut with control c one step lower. *)
OneDown(lv, c) == [lv EXCEPT ![c] = lv[c] - 1]

(* A cut at minimal levels whose controls are all needed misses a clause   *)
(* as soon as one control goes one step down.                              *)
LEMMA OneStepDownMisses ==
    ASSUME NEW cls, cls \subseteq SUBSET Literal, NEW lv \in LevelVectors,
           LevelMinimal(cls, Raised(lv), lv),
           NEW c \in Raised(lv), ~HitsAll(cls, Raised(lv) \ {c}, MaxLevel)
    PROVE  /\ OneDown(lv, c) \in LevelVectors
           /\ Misses(cls, OneDown(lv, c))
  <1> DEFINE low == [lv EXCEPT ![c] = lv[c] - 1]
  <1>1. /\ c \in Control /\ lv \in [Control -> Nat] /\ lv[c] >= 1 /\ lv[c] \in Nat
        /\ \A d \in Control : lv[d] <= MaxLevel[d] /\ MaxLevel[d] \in Nat
    BY LevelVectorIs, CatalogAssumption DEF Raised
  <1>2. /\ low \in [Control -> Nat] /\ low[c] = lv[c] - 1
        /\ \A d \in Control : d # c => low[d] = lv[d]
    BY <1>1
  <1>3. \A d \in Control : low[d] \in Nat /\ low[d] <= MaxLevel[d]
    <2> SUFFICES ASSUME NEW d \in Control PROVE low[d] \in Nat /\ low[d] <= MaxLevel[d]
      OBVIOUS
    <2>1. CASE d = c
      BY <1>1, <1>2, <2>1
    <2>2. CASE d # c
      BY <1>1, <1>2, <2>2
    <2> QED BY <2>1, <2>2
  <1>4. low \in LevelVectors
    BY <1>2, <1>3, LevelVectorIs
  <1> HIDE DEF low
  <1>5. ASSUME \A k \in cls : Mask(low) \cap k # {} PROVE FALSE
    <2>1. HitsAll(cls, Raised(low), low)
      BY <1>4, <1>5, HitsByMask
    <2>2. CASE lv[c] > 1
      <3>1. Raised(low) = Raised(lv)
        BY <1>1, <1>2, <2>2 DEF Raised
      <3>2. ~HitsAll(cls, Raised(lv), [lv EXCEPT ![c] = lv[c] - 1])
        BY <2>2 DEF LevelMinimal
      <3> QED BY <2>1, <3>1, <3>2 DEF low
    <2>3. CASE ~(lv[c] > 1)
      <3>1. Raised(low) = Raised(lv) \ {c}
        BY <1>1, <1>2, <2>3 DEF Raised
      <3>2. Raised(low) \in SUBSET Control
        BY DEF Raised
      <3>3. HitsAll(cls, Raised(low), MaxLevel)
        BY <1>1, <1>3, <2>1, <3>2, HitsAllMonotone
      <3> QED BY <3>1, <3>3
    <2> QED BY <2>2, <2>3
  <1> QED BY <1>4, <1>5 DEF low, OneDown, Misses

(* canonical_select returns a member of the family all_minimum_cuts lists. *)
LEMMA CanonicalIsMinimum ==
    ASSUME NEW cls, Feasible(cls, Control)
    PROVE  CanonicalSelect(cls, MinCardinality(cls, Control)) \in MinimumCuts(cls)
  <1> DEFINE lv == CanonicalSelect(cls, MinCardinality(cls, Control))
  <1>1. /\ lv \in LevelVectors /\ HitsAll(cls, Raised(lv), lv)
        /\ LevelMinimal(cls, Raised(lv), lv)
        /\ Cardinality(Raised(lv)) = MinCardinality(cls, Control)
    BY CanonicalSelectIs
  <1>2. ASSUME NEW other \in LevelVectors, HitsAll(cls, Raised(other), other)
        PROVE  MinCardinality(cls, Control) <= Cardinality(Raised(other))
    BY <1>2, RaisedCovers, MinCardinalityIs
  <1> HIDE DEF lv
  <1>3. lv \in MinimumCuts(cls)
    BY <1>1, <1>2 DEF MinimumCuts
  <1> QED BY <1>3 DEF lv

(* What the loop knows of a cut that canonical_select returns.             *)
LEMMA SelectedCut ==
    ASSUME NEW cls, cls \subseteq SUBSET Literal, {} \notin cls
    PROVE  LET best == MinCardinality(cls, Control)
               lv == CanonicalSelect(cls, best)
           IN  /\ Feasible(cls, Control) /\ SelectAccepts(cls, best)
               /\ lv \in MinimumCuts(cls)
               /\ lv \in LevelVectors
               /\ Cardinality(Raised(lv)) = best
               /\ ~Misses(cls, lv)
               /\ \A other \in LevelVectors :
                     Cardinality(Raised(other)) < best => Misses(cls, other)
               /\ \A c \in Raised(lv) :
                     /\ OneDown(lv, c) \in LevelVectors
                     /\ Misses(cls, OneDown(lv, c))
  <1> DEFINE best == MinCardinality(cls, Control)
             lv == CanonicalSelect(cls, best)
  <1>1. Feasible(cls, Control)
    BY CatalogCovers
  <1>2. /\ SelectAccepts(cls, best)
        /\ lv \in LevelVectors /\ HitsAll(cls, Raised(lv), lv)
        /\ LevelMinimal(cls, Raised(lv), lv)
        /\ Cardinality(Raised(lv)) = best
    BY <1>1, CanonicalSelectIs
  <1>3. lv \in MinimumCuts(cls)
    BY <1>1, CanonicalIsMinimum
  <1>4. \A other \in LevelVectors :
            Cardinality(Raised(other)) < best => Misses(cls, other)
    BY <1>1, FewerMisses
  <1>5. Raised(lv) \in SUBSET Control
    BY DEF Raised
  <1> HIDE DEF lv
  <1>6. \A c \in Raised(lv) : ~HitsAll(cls, Raised(lv) \ {c}, MaxLevel)
    BY <1>1, <1>2, <1>5, MinimumIsIrredundant
  <1>7. \A c \in Raised(lv) :
            /\ OneDown(lv, c) \in LevelVectors
            /\ Misses(cls, OneDown(lv, c))
    <2> TAKE c \in Raised(lv)
    <2> QED BY <1>2, <1>6, OneStepDownMisses
  <1>8. ~Misses(cls, lv)
    BY <1>2, HitsByMask DEF Misses
  <1> QED BY <1>1, <1>2, <1>3, <1>4, <1>7, <1>8 DEF lv

(* What it knows of the fallback cut.                                      *)
LEMMA FallbackCut ==
    ASSUME NEW cls, cls \subseteq SUBSET Literal, {} \notin cls
    PROVE  LET lv == SubsetMinimal(cls)
           IN  /\ HitsAll(cls, Control, MaxLevel)
               /\ lv \in LevelVectors
               /\ ~Misses(cls, lv)
               /\ \A c \in Raised(lv) :
                     /\ OneDown(lv, c) \in LevelVectors
                     /\ Misses(cls, OneDown(lv, c))
  <1> DEFINE K == SubsetControls(cls)
             lv == SubsetMinimal(cls)
  <1>1. HitsAll(cls, Control, MaxLevel)
    BY CatalogCovers
  <1>2. K \in SUBSET Control /\ HitsAll(cls, K, MaxLevel)
        /\ \A c \in K : ~HitsAll(cls, K \ {c}, MaxLevel)
    BY <1>1, SubsetControlsIs DEF Covers
  <1>3. /\ lv \in LevelVectors /\ Raised(lv) = K
        /\ HitsAll(cls, K, lv) /\ LevelMinimal(cls, K, lv)
    BY <1>2, LoweredIs DEF SubsetMinimal
  <1> HIDE DEF lv, K
  <1>4. \A c \in Raised(lv) :
            /\ OneDown(lv, c) \in LevelVectors
            /\ Misses(cls, OneDown(lv, c))
    <2> TAKE c \in Raised(lv)
    <2>1. LevelMinimal(cls, Raised(lv), lv)
      BY <1>3
    <2>2. \A d \in Raised(lv) : ~HitsAll(cls, Raised(lv) \ {d}, MaxLevel)
      BY <1>2, <1>3
    <2> QED BY <1>3, <2>1, <2>2, OneStepDownMisses
  <1>5. ~Misses(cls, lv)
    BY <1>3, HitsByMask DEF Misses
  <1> QED BY <1>1, <1>3, <1>4, <1>5 DEF lv

-----------------------------------------------------------------------------
(* The loop. *)

RP == INSTANCE ReachProofs WITH Cuts <- {Mask(lv) : lv \in LevelVectors}

-----------------------------------------------------------------------------
(* The results of ReachProofs, for the fixpoint the loop runs. *)

\* The assumptions of module Reach hold of the programs and cuts searched.
LEMMA ReachAssumptions ==
    /\ Fact \subseteq Nat
    /\ \A p \in Programs : p \in RP!ProgramRecord /\ RP!BuildAccepts(p)
    /\ {Mask(lv) : lv \in LevelVectors} \subseteq SUBSET Literal
  <1>1. \A p \in Programs : p \in RP!ProgramRecord /\ RP!BuildAccepts(p)
    BY SearchedProgramsAssumption
    DEF R!ProgramRecord, RP!ProgramRecord, R!Instance, RP!Instance,
        R!BuildAccepts, RP!BuildAccepts, R!StrictlyAscending, RP!StrictlyAscending,
        R!IsFiniteSet, RP!IsFiniteSet, R!Cardinality, RP!Cardinality
  <1> QED BY <1>1, SearchedProgramsAssumption DEF Mask

\* The invariant of the worklist is the one ReachProofs is about.
LEMMA SameInvariant == R!IndInv <=> RP!IndInv
  BY DEF R!IndInv, RP!IndInv, R!TypeOK, RP!TypeOK, R!OrderInv, RP!OrderInv,
         R!PhaseInv, RP!PhaseInv, R!CountersExact, RP!CountersExact, R!QueueInv, RP!QueueInv,
         R!LeavesAreAxioms, RP!LeavesAreAxioms, R!ReachSound, RP!ReachSound,
         R!Elems, RP!Elems, R!Arrived, RP!Arrived, R!BodySize, RP!BodySize,
         R!Cardinality, RP!Cardinality, R!IsFiniteSet, RP!IsFiniteSet, R!Blocked, RP!Blocked,
         R!Dependents, RP!Dependents, R!Follows, RP!Follows, R!Enabled, RP!Enabled,
         R!BodySet, RP!BodySet, R!LeastModel, RP!LeastModel, R!Closed, RP!Closed,
         R!Earlier, RP!Earlier, R!Before, RP!Before

\* So are the meaning of a program and the answer of the fixpoint.
LEMMA SameMeaning ==
    /\ \A p, c : R!Derivable(p, c) <=> RP!Derivable(p, c)
    /\ \A p, c : R!LeastModel(p, c) = RP!LeastModel(p, c)
    /\ R!DerivableResult <=> RP!DerivableResult
  BY DEF R!Derivable, RP!Derivable, R!LeastModel, RP!LeastModel, R!Closed, RP!Closed,
         R!Elems, RP!Elems, R!Enabled, RP!Enabled, R!Blocked, RP!Blocked,
         R!BodySet, RP!BodySet, R!DerivableResult, RP!DerivableResult

\* So is the witness.
LEMMA SameWitness ==
    /\ R!WitnessInstances = RP!WitnessInstances
    /\ R!WitnessMask = RP!WitnessMask
  BY DEF R!WitnessMask, RP!WitnessMask, R!WitnessInstances, RP!WitnessInstances,
         R!Candidates, RP!Candidates, R!Supports, RP!Supports, R!Position, RP!Position,
         R!WitnessGoal, RP!WitnessGoal, R!IsLeast, RP!IsLeast, R!Earlier, RP!Earlier,
         R!Before, RP!Before, R!Enabled, RP!Enabled, R!Blocked, RP!Blocked,
         R!BodySet, RP!BodySet, R!Elems, RP!Elems

\* A fresh call of reach satisfies the invariant.
LEMMA ReachStarts == R!Init => R!IndInv
  <1>1. R!Init => RP!Init
    BY DEF R!Init, RP!Init, R!BodySize, RP!BodySize, R!BodySet, RP!BodySet, R!Elems, RP!Elems,
           R!Cardinality, RP!Cardinality
  <1>2. RP!Init => RP!IndInv
    BY ReachAssumptions, RP!InitInd
  <1> QED BY <1>1, <1>2, SameInvariant

\* Its steps keep it, and so does whatever leaves its variables alone.
LEMMA ReachGoesOn == R!IndInv /\ [R!Next]_R!vars => R!IndInv'
  <1>1. [R!Next]_R!vars => [RP!Next]_RP!vars
    BY DEF R!Next, RP!Next, R!vars, RP!vars, R!question, RP!question,
           R!SeedInstance, RP!SeedInstance, R!SeedDone, RP!SeedDone,
           R!PopSeen, RP!PopSeen, R!PopNew, RP!PopNew, R!TouchBlocked, RP!TouchBlocked,
           R!Touch, RP!Touch, R!TouchDone, RP!TouchDone, R!Finish, RP!Finish,
           R!IsLeast, RP!IsLeast, R!Blocked, RP!Blocked, R!Dependents, RP!Dependents,
           R!BodySet, RP!BodySet, R!Elems, RP!Elems
  <1>2. RP!IndInv /\ [RP!Next]_RP!vars => RP!IndInv'
    BY ReachAssumptions, RP!StepInd
  <1>3. (R!IndInv <=> RP!IndInv) /\ (R!IndInv' <=> RP!IndInv')
    BY SameInvariant, PTL
  <1> QED BY <1>1, <1>2, <1>3

\* What a finished fixpoint answers.
LEMMA ReachAnswers ==
    ASSUME R!IndInv, pc = "done"
    PROVE  /\ seen = R!LeastModel(prog, cut)
           /\ R!DerivableResult <=> R!Derivable(prog, cut)
  <1>1. RP!IndInv
    BY SameInvariant
  <1>2. seen = RP!LeastModel(prog, cut) /\ (RP!DerivableResult <=> RP!Derivable(prog, cut))
    BY <1>1, ReachAssumptions, RP!AnswerIs
  <1> QED BY <1>2, SameMeaning

\* What the witness of a fixpoint that reached a goal shows.
LEMMA ReachWitness ==
    ASSUME R!IndInv, R!DerivableResult
    PROVE  /\ R!WitnessInstances \subseteq prog.insts
           /\ R!WitnessMask \in SUBSET Literal
           /\ cut \cap R!WitnessMask = {}
           /\ \A c : c \cap R!WitnessMask = {} => R!Derivable(prog, c)
  <1>1. RP!IndInv /\ RP!DerivableResult
    BY SameInvariant, SameMeaning
  <1>2. /\ RP!WitnessInstances \subseteq prog.insts
        /\ RP!WitnessMask \in SUBSET Literal
        /\ cut \cap RP!WitnessMask = {}
        /\ \A c : c \cap RP!WitnessMask = {} => RP!Derivable(prog, c)
    BY <1>1, ReachAssumptions, RP!WitnessIs
  <1> QED BY <1>2, SameMeaning, SameWitness

\* What severs still severs when more is raised.
LEMMA DerivableAntitone ==
    ASSUME NEW p, NEW c, NEW d, c \subseteq d, R!Derivable(p, d)
    PROVE  R!Derivable(p, c)
  <1>1. ASSUME NEW S, R!Closed(p, c, S) PROVE R!Closed(p, d, S)
    BY <1>1 DEF R!Closed, R!Enabled, R!Blocked
  <1> QED BY <1>1 DEF R!Derivable

-----------------------------------------------------------------------------
(* The inductive invariant. *)

\* Nothing is raised at the start.
LEMMA ZeroLevels ==
    LET zero == [c \in Control |-> 0] IN
    /\ zero \in LevelVectors /\ Mask(zero) = {} /\ Raised(zero) = {}
    /\ Cardinality(Raised(zero)) = 0
  <1> DEFINE zero == [c \in Control |-> 0]
  <1>1. zero \in LevelVectors
    BY LevelVectorIs, CatalogAssumption
  <1>2. Raised(zero) = {}
    BY DEF Raised
  <1>3. ASSUME NEW a \in Mask(zero) PROVE FALSE
    <2>1. PICK c, l : c \in Control /\ l \in 1..MaxLevel[c] /\ a = <<c, l>>
      BY LiteralIs DEF Mask
    <2>2. l <= zero[c]
      BY <2>1, MaskIs
    <2> QED BY <2>1, <2>2
  <1> QED BY <1>1, <1>2, <1>3, FS_EmptySet

\* Before anything is learned the optimum is zero.
LEMMA EmptyDatabase ==
    /\ MinCardinality({}, Control) = 0
    /\ Feasible({}, Control)
  <1>1. Feasible({}, Control)
    BY CatalogCovers
  <1>2. {} \in Covers({}, Control)
    BY HitsAllMeans DEF Covers
  <1> QED BY <1>1, <1>2, MinCardinalityIs, FS_EmptySet

\* The search starts in the invariant.
LEMMA InitSearch == Init => SearchInd
  <1> SUFFICES ASSUME Init PROVE SearchInd
    OBVIOUS
  <1> USE DEF Init
  <1>1. TypeOK
    BY ZeroLevels DEF TypeOK
  <1>2. Cardinality(Raised(levels)) <= Optimum
    BY ZeroLevels, EmptyDatabase DEF Optimum
  <1>3. ResultInv
    BY <1>2 DEF ResultInv
  <1> QED BY <1>1, <1>3 DEF SearchInd

\* A call of reach under a cut of the lattice starts a run of the fixpoint.
LEMMA RestartStarts ==
    ASSUME prog \in Programs, NEW lv \in LevelVectors, Restart(Mask(lv)), UNCHANGED prog
    PROVE  R!IndInv' /\ pc' = "seed"
  <1>1. (R!Init)'
    BY DEF Restart, R!Init
  <1>2. (R!Init => R!IndInv)'
    BY ReachStarts, PTL
  <1> QED BY <1>1, <1>2 DEF Restart

\* A fresh call under the cut lv, made with the database unchanged.
LEMMA CallKeeps ==
    ASSUME SearchInd, NEW lv \in LevelVectors, CallReach(lv), UNCHANGED prog
    PROVE  /\ levels' = lv /\ cut' = Mask(lv) /\ pc' = "seed" /\ R!IndInv'
  BY RestartStarts DEF SearchInd, ResultInv, CallReach, Restart

\* The cut selected is the canonical one for the clauses.
LEMMA SolveInd == SearchInd /\ Solve => SearchInd'
  <1> SUFFICES ASSUME SearchInd, Solve PROVE SearchInd'
    OBVIOUS
  <1>1. clauses \subseteq SUBSET Literal /\ {} \notin clauses
    BY DEF SearchInd, ResultInv
  <1> DEFINE lv == CanonicalSelect(clauses, Optimum)
  <1>2. lv \in LevelVectors
    BY <1>1, SelectedCut DEF Optimum
  <1>3. levels' = lv /\ cut' = Mask(lv) /\ pc' = "seed" /\ R!IndInv'
    BY <1>2, CallKeeps DEF Solve
  <1>4. TypeOK'
    BY <1>2, <1>3 DEF SearchInd, TypeOK, Solve
  <1>5. ResultInv'
    BY <1>3 DEF SearchInd, ResultInv, Solve, Optimum, Severing
  <1> QED BY <1>3, <1>4, <1>5 DEF SearchInd

\* A budget that runs out is followed by the fallback cut.
LEMMA BudgetOutInd == SearchInd /\ BudgetOut => SearchInd'
  <1> SUFFICES ASSUME SearchInd, BudgetOut PROVE SearchInd'
    OBVIOUS
  <1>1. clauses \subseteq SUBSET Literal /\ {} \notin clauses
    BY DEF SearchInd, ResultInv
  <1> DEFINE lv == SubsetMinimal(clauses)
  <1>2. lv \in LevelVectors
    BY <1>1, FallbackCut
  <1>3. levels' = lv /\ cut' = Mask(lv) /\ pc' = "seed" /\ R!IndInv'
    BY <1>2, CallKeeps DEF BudgetOut, Fallback
  <1>4. TypeOK'
    BY <1>2, <1>3 DEF SearchInd, TypeOK, BudgetOut, Fallback
  <1>5. ResultInv'
    BY <1>3 DEF SearchInd, ResultInv, BudgetOut, Fallback, Optimum, Severing
  <1> QED BY <1>3, <1>4, <1>5 DEF SearchInd

\* A step of the fixpoint changes neither the program nor the cut.
LEMMA ReachFrame == R!Next => UNCHANGED <<prog, cut>> /\ pc' # "idle"
  BY DEF R!Next, R!question, R!SeedInstance, R!SeedDone, R!PopSeen, R!PopNew, R!TouchBlocked,
         R!Touch, R!TouchDone, R!Finish

\* A step of the fixpoint is about the cut under test.
LEMMA ReachStepInd == SearchInd /\ ReachStep => SearchInd'
  <1> SUFFICES ASSUME SearchInd, ReachStep PROVE SearchInd'
    OBVIOUS
  <1>1. UNCHANGED <<prog, cut>> /\ pc' # "idle" /\ UNCHANGED search
    BY ReachFrame DEF ReachStep
  <1>2. pc # "idle"
    BY DEF SearchInd, ReachStep
  <1>3. R!IndInv'
    BY <1>2, ReachGoesOn DEF SearchInd, ReachStep
  <1>4. TypeOK' /\ ResultInv'
    BY <1>1 DEF SearchInd, TypeOK, ResultInv, search, Optimum, Severing
  <1> QED BY <1>1, <1>3, <1>4 DEF SearchInd

\* The step that ends the search: the fixpoint stays where it is.
LEMMA FinishKeeps ==
    ASSUME SearchInd, NEW claim, NEW severed, Finish(claim, severed),
           UNCHANGED <<prog, clauses, complete, capHit, exhausted>>, pc = "done",
           claim \in {"EXACT_PSI_RELATIVE", "SUBSET", "UNVERIFIED"}, severed \in BOOLEAN
    PROVE  TypeOK' /\ R!IndInv' /\ pc' = "done"
  <1>1. UNCHANGED R!vars
    BY DEF Finish, NoCall, work, R!vars
  <1>2. R!IndInv'
    BY <1>1, ReachGoesOn DEF SearchInd
  <1> QED BY <1>1, <1>2 DEF SearchInd, TypeOK, Finish, NoCall, R!vars

\* A fixpoint that reached no goal is a proof that the cut severs.
LEMMA SeveredInd == SearchInd /\ Severed => SearchInd'
  <1> SUFFICES ASSUME SearchInd, Severed PROVE SearchInd'
    OBVIOUS
  <1>1. R!IndInv /\ pc = "done" /\ ~R!DerivableResult /\ cut = Mask(levels)
    BY DEF SearchInd, Severed, TypeOK
  <1>2. ~R!Derivable(prog, Mask(levels))
    BY <1>1, ReachAnswers
  <1>3. TypeOK' /\ R!IndInv' /\ pc' = "done"
    BY FinishKeeps DEF Severed
  <1>4. ResultInv'
    BY <1>2 DEF SearchInd, ResultInv, Severed, Finish, NoCall, Optimum
  <1> QED BY <1>3, <1>4 DEF SearchInd

\* A derivation no control blocks survives every cut.
LEMMA UnblockableInd == SearchInd /\ Unblockable => SearchInd'
  <1> SUFFICES ASSUME SearchInd, Unblockable PROVE SearchInd'
    OBVIOUS
  <1>1. R!IndInv /\ pc = "done" /\ R!DerivableResult /\ R!WitnessMask = {}
    BY DEF SearchInd, Unblockable
  <1>2. \A c : R!Derivable(prog, c)
    BY <1>1, ReachWitness
  <1>3. TypeOK' /\ R!IndInv' /\ pc' = "done"
    BY FinishKeeps DEF Unblockable
  <1>4. Severing' = {}
    BY <1>2 DEF Severing, Unblockable
  <1>5. ResultInv'
    BY <1>2, <1>4 DEF SearchInd, ResultInv, Unblockable, Finish, NoCall, Optimum
  <1> QED BY <1>3, <1>5 DEF SearchInd

\* The fallback reports what the fixpoint under its cut answered.
LEMMA FallbackDoneInd == SearchInd /\ FallbackDone => SearchInd'
  <1> SUFFICES ASSUME SearchInd, FallbackDone PROVE SearchInd'
    OBVIOUS
  <1>1. R!IndInv /\ pc = "done" /\ cut = Mask(levels)
    BY DEF SearchInd, FallbackDone, TypeOK
  <1>2. R!DerivableResult <=> R!Derivable(prog, Mask(levels))
    BY <1>1, ReachAnswers
  <1>3. TypeOK' /\ R!IndInv' /\ pc' = "done"
    BY FinishKeeps DEF FallbackDone
  <1>4. ResultInv'
    BY <1>2 DEF SearchInd, ResultInv, FallbackDone, Finish, NoCall, Optimum
  <1> QED BY <1>3, <1>4 DEF SearchInd

\* The corridor learned is a new one that every severing cut must hit, so the
\* optimum of the larger database is at least the size of the cut it refutes.
LEMMA LearnInd == SearchInd /\ Learn => SearchInd'
  <1> SUFFICES ASSUME SearchInd, Learn PROVE SearchInd'
    OBVIOUS
  <1> DEFINE W == R!WitnessMask
  <1>1. /\ R!IndInv /\ pc = "done" /\ R!DerivableResult /\ cut = Mask(levels)
        /\ W # {} /\ clauses' = clauses \cup {W} /\ phase = "loop" /\ UNCHANGED prog
        /\ levels \in LevelVectors /\ prog \in Programs
    BY DEF SearchInd, Learn, TypeOK, ResultInv
  <1>2. /\ W \in SUBSET Literal /\ Mask(levels) \cap W = {}
        /\ \A c : c \cap W = {} => R!Derivable(prog, c)
    BY <1>1, ReachWitness
  <1> HIDE DEF W
  <1>3. clauses \subseteq SUBSET Literal /\ {} \notin clauses
        /\ levels = CanonicalSelect(clauses, Optimum)
        /\ complete /\ ~capHit /\ ~exhausted /\ minimality = "NONE"
    BY <1>1 DEF SearchInd, ResultInv
  <1>4. clauses' \subseteq SUBSET Literal /\ {} \notin clauses'
    BY <1>1, <1>2, <1>3
  <1>5. ASSUME NEW lv \in LevelVectors, NEW k \in clauses', Mask(lv) \cap k = {}
        PROVE  R!Derivable(prog, Mask(lv))
    <2>1. CASE k = W
      BY <1>2, <1>5, <2>1
    <2>2. CASE k \in clauses
      BY <1>5, <2>2 DEF SearchInd, ResultInv
    <2> QED BY <1>1, <2>1, <2>2
  <1>6. CASE Cardinality(clauses') >= CorridorCap
    <2> DEFINE lv == SubsetMinimal(clauses')
    <2>1. lv \in LevelVectors
      BY <1>4, FallbackCut
    <2>2. CallReach(lv) /\ phase' = "fallback" /\ complete' = FALSE /\ capHit' = TRUE
          /\ UNCHANGED <<prog, minimality, severs, exhausted>>
      BY <1>6 DEF Learn, Fallback
    <2>3. levels' = lv /\ cut' = Mask(lv) /\ pc' = "seed" /\ R!IndInv'
      BY <2>1, <2>2, CallKeeps
    <2>4. TypeOK'
      BY <1>4, <2>1, <2>2, <2>3 DEF SearchInd, TypeOK
    <2>5. ResultInv'
      BY <1>1, <1>3, <1>4, <1>5, <2>2, <2>3 DEF ResultInv
    <2> QED BY <2>3, <2>4, <2>5 DEF SearchInd
  <1>7. CASE ~(Cardinality(clauses') >= CorridorCap)
    <2>1. phase' = "solve" /\ NoCall /\ UNCHANGED <<complete, capHit, prog, minimality, severs, exhausted>>
      BY <1>7 DEF Learn
    <2>2. UNCHANGED R!vars
      BY <2>1 DEF NoCall, work, R!vars
    <2>3. R!IndInv' /\ pc' = "done"
      BY <1>1, <2>2, ReachGoesOn DEF R!vars
    <2>4. Feasible(clauses', Control)
      BY <1>4, SelectedCut
    <2>5. Optimum <= MinCardinality(clauses', Control)
      BY <1>1, <2>4, MinCardinalityGrows DEF Optimum
    <2>6. Cardinality(Raised(levels)) = Optimum
      BY <1>3, SelectedCut DEF Optimum
    <2>7. Cardinality(Raised(levels')) <= Optimum'
      BY <2>1, <2>5, <2>6 DEF NoCall, Optimum
    <2>8. \E k \in clauses' : Mask(levels') \cap k = {}
      BY <1>1, <1>2, <2>1 DEF NoCall
    <2>9. TypeOK'
      BY <1>4, <2>1 DEF SearchInd, TypeOK, NoCall
    <2>10. ResultInv'
      BY <1>1, <1>3, <1>4, <1>5, <2>1, <2>7, <2>8 DEF ResultInv
    <2> QED BY <2>3, <2>9, <2>10 DEF SearchInd
  <1> QED BY <1>6, <1>7

\* Every step of the loop keeps the invariant.
LEMMA NextInd == SearchInd /\ [Next]_vars => SearchInd'
  <1> SUFFICES ASSUME SearchInd, [Next]_vars PROVE SearchInd'
    OBVIOUS
  <1>1. CASE UNCHANGED vars
    <2>1. UNCHANGED R!vars
      BY <1>1 DEF vars, work, R!vars
    <2>2. pc # "idle" => R!IndInv'
      BY <2>1, ReachGoesOn DEF SearchInd
    <2>3. TypeOK' /\ ResultInv'
      BY <1>1 DEF SearchInd, TypeOK, ResultInv, vars, search, Optimum, Severing
    <2> QED BY <1>1, <2>2, <2>3 DEF SearchInd, vars, search
  <1> QED BY <1>1, SolveInd, BudgetOutInd, ReachStepInd, SeveredInd, UnblockableInd, LearnInd,
             FallbackDoneInd DEF Next

-----------------------------------------------------------------------------
(* What the invariant says. *)

\* The inductive invariant excludes the four internal errors.
LEMMA SearchIndIsInv == SearchInd => SearchInv
  <1> SUFFICES ASSUME SearchInd PROVE NoInternalError /\ CorridorsNecessary
    BY DEF SearchInv
  <1>1. clauses \subseteq SUBSET Literal /\ {} \notin clauses
    BY DEF SearchInd, ResultInv
  <1>2. /\ Feasible(clauses, Control) /\ SelectAccepts(clauses, Optimum)
        /\ ~Misses(clauses, CanonicalSelect(clauses, Optimum))
    BY <1>1, SelectedCut DEF Optimum
  <1>3. HitsAll(clauses, Control, MaxLevel)
    BY <1>1, FallbackCut
  <1>4. ASSUME phase = "loop", pc = "done", R!DerivableResult PROVE R!WitnessMask \notin clauses
    <2>1. R!IndInv /\ cut = Mask(levels) /\ levels = CanonicalSelect(clauses, Optimum)
      BY <1>4 DEF SearchInd, TypeOK, ResultInv
    <2>2. Mask(levels) \cap R!WitnessMask = {}
      BY <1>4, <2>1, ReachWitness
    <2> QED BY <1>2, <2>1, <2>2 DEF Misses
  <1>5. CorridorsNecessary
    BY DEF SearchInd, ResultInv, CorridorsNecessary, Severing
  <1> QED BY <1>2, <1>3, <1>4, <1>5 DEF NoInternalError

\* An exact result is a minimum cut of the program, not only of the clauses.
LEMMA ResultIsExact == ResultInv => ExactIsMinimum
  <1> SUFFICES ASSUME ResultInv, phase = "done", minimality = "EXACT_PSI_RELATIVE"
               PROVE  ExactIsMinimum
    BY DEF ExactIsMinimum
  <1>1. clauses \subseteq SUBSET Literal /\ {} \notin clauses
        /\ levels = CanonicalSelect(clauses, Optimum)
        /\ severs /\ ~R!Derivable(prog, Mask(levels))
    BY DEF ResultInv
  <1>2. /\ levels \in MinimumCuts(clauses) /\ levels \in LevelVectors
        /\ Cardinality(Raised(levels)) = Optimum
        /\ \A other \in LevelVectors :
              Cardinality(Raised(other)) < Optimum => Misses(clauses, other)
        /\ \A c \in Raised(levels) : /\ OneDown(levels, c) \in LevelVectors
                                     /\ Misses(clauses, OneDown(levels, c))
    BY <1>1, SelectedCut DEF Optimum
  <1>3. \A lv \in LevelVectors : Misses(clauses, lv) => lv \notin Severing
    BY DEF ResultInv, Misses, Severing
  <1>4. \A c \in Raised(levels) : OneDown(levels, c) \notin Severing
    BY <1>2, <1>3
  <1>5. \A c \in Raised(levels) : [levels EXCEPT ![c] = @ - 1] \notin Severing
    BY <1>4 DEF OneDown
  <1> QED BY <1>1, <1>2, <1>3, <1>5 DEF ExactIsMinimum, Severing

\* A cut that severs with fewer controls can be widened to one that severs
\* with any number of controls in between.
LEMMA ProbeFinds == ProbeIsExhaustive
  <1> DEFINE n == Cardinality(Raised(levels))
  <1> SUFFICES ASSUME Raised(levels) # {}, NEW lv \in LevelVectors,
                      Cardinality(Raised(lv)) < n, lv \in Severing
               PROVE  ProbeFindsSmaller(prog, n)
    BY DEF ProbeIsExhaustive
  <1>1. Raised(levels) \in SUBSET Control /\ Raised(lv) \in SUBSET Control
    BY DEF Raised
  <1>2. n \in 0..NControl /\ Cardinality(Raised(lv)) \in 0..NControl /\ NControl \in Nat
    BY <1>1, ControlFinite, CatalogAssumption
  <1> HIDE DEF n
  <1>3. n - 1 \in Nat /\ Cardinality(Raised(lv)) <= n - 1 /\ n - 1 <= NControl
    BY <1>2
  <1>4. PICK J \in SUBSET Control : Raised(lv) \subseteq J /\ Cardinality(J) = n - 1
    BY <1>1, <1>3, ControlFinite, SetOfEachSize
  <1> DEFINE up == [c \in Control |-> IF c \in J /\ lv[c] = 0 THEN 1 ELSE lv[c]]
  <1>5. \A c \in Control : lv[c] \in Nat /\ lv[c] <= MaxLevel[c] /\ MaxLevel[c] \in Nat \ {0}
    BY LevelVectorIs, CatalogAssumption
  <1>6. \A c \in Control : up[c] \in Nat /\ lv[c] <= up[c] /\ up[c] <= MaxLevel[c]
                            /\ (up[c] >= 1 <=> c \in J)
    BY <1>4, <1>5 DEF Raised
  <1>7. up \in [Control -> Nat]
    BY <1>5
  <1> HIDE DEF up
  <1>8. up \in LevelVectors /\ Raised(up) = J
    BY <1>6, <1>7, LevelVectorIs DEF Raised
  <1>9. Mask(lv) \subseteq Mask(up)
    BY <1>6, <1>8, MaskMonotone
  <1>10. ~R!Derivable(prog, Mask(up))
    BY <1>9, DerivableAntitone DEF Severing
  <1> QED BY <1>4, <1>8, <1>10 DEF ProbeFindsSmaller

\* The other two claims say no more than was found.
LEMMA ResultIsEarned == ResultInv => OtherClaimsAreEarned
  <1> SUFFICES ASSUME ResultInv PROVE OtherClaimsAreEarned
    OBVIOUS
  <1>1. SubsetIsIrredundant
    <2> SUFFICES ASSUME phase = "done", minimality = "SUBSET" PROVE SubsetIsIrredundant
      BY DEF SubsetIsIrredundant
    <2>1. /\ clauses \subseteq SUBSET Literal /\ {} \notin clauses
          /\ levels = SubsetMinimal(clauses)
          /\ severs = ~R!Derivable(prog, Mask(levels))
          /\ ~complete /\ (capHit \/ exhausted)
      BY DEF ResultInv
    <2>2. /\ levels \in LevelVectors
          /\ \A c \in Raised(levels) : /\ OneDown(levels, c) \in LevelVectors
                                       /\ Misses(clauses, OneDown(levels, c))
      BY <2>1, FallbackCut
    <2>3. \A lv \in LevelVectors : Misses(clauses, lv) => lv \notin Severing
      BY DEF ResultInv, Misses, Severing
    <2>4. \A c \in Raised(levels) : OneDown(levels, c) \notin Severing
      BY <2>2, <2>3
    <2>5. \A c \in Raised(levels) : [levels EXCEPT ![c] = @ - 1] \notin Severing
      BY <2>4 DEF OneDown
    <2> QED BY <2>1, <2>2, <2>5 DEF SubsetIsIrredundant, Severing
  <1>2. UnblockableMeansNone
    <2> SUFFICES ASSUME phase = "done" PROVE UnblockableMeansNone
      BY DEF UnblockableMeansNone
    <2>1. clauses \subseteq SUBSET Literal /\ {} \notin clauses
      BY DEF ResultInv
    <2>2. CanonicalSelect(clauses, Optimum) \in LevelVectors
      BY <2>1, SelectedCut DEF Optimum
    <2>3. minimality \in {"EXACT_PSI_RELATIVE", "UNVERIFIED"} => levels \in LevelVectors
      BY <2>2 DEF ResultInv
    <2> QED BY <2>3 DEF ResultInv, UnblockableMeansNone, Severing
  <1>3. ProbeIsExhaustive
    BY ProbeFinds
  <1> QED BY <1>1, <1>2, <1>3 DEF OtherClaimsAreEarned

-----------------------------------------------------------------------------
(* The theorems. *)

\* The invariant of the corridor loop: the state is well-formed, every
\* corridor learned is one that every severing cut hits, and none of the
\* errors enumerate_psi and the selections believe unreachable is raised.
THEOREM SearchInvariant == Spec => []SearchInv
  <1>1. Spec => []SearchInd
    BY InitSearch, NextInd, PTL DEF Spec
  <1> QED BY <1>1, SearchIndIsInv, PTL

\* The claims of a result are earned in every reachable state.
LEMMA SearchInductive == Spec => []ResultInv
  <1>1. Spec => []SearchInd
    BY InitSearch, NextInd, PTL DEF Spec
  <1>2. SearchInd => ResultInv
    BY DEF SearchInd
  <1> QED BY <1>1, <1>2, PTL

\* EXACT_PSI_RELATIVE is earned: the cut severs the program, no cut with fewer
\* controls does, and no raised control can go one step down.
THEOREM ExactIsEarned == Spec => []ExactIsMinimum
  BY SearchInductive, ResultIsExact, PTL

\* SUBSET and UNVERIFIED are earned, whatever stopped the loop, and the probe
\* one control smaller finds every smaller cut.
THEOREM ClaimsAreEarned == Spec => []OtherClaimsAreEarned
  BY SearchInductive, ResultIsEarned, PTL

\* The database never shrinks, the cut proposed never gets smaller, and a cut
\* already refuted is never proposed again.
THEOREM SearchAdvancing == Spec => SearchAdvances
  <1> DEFINE A == /\ clauses \subseteq clauses'
                  /\ (phase = "solve" /\ phase' = "loop") =>
                        Cardinality(Raised(levels)) <= Cardinality(Raised(levels'))
                  /\ (phase = "solve" /\ phase' = "loop" /\ clauses # {}) => levels' # levels
  <1>1. SearchInd /\ [Next]_vars => [A]_vars
    <2> SUFFICES ASSUME SearchInd, Next PROVE A
      OBVIOUS
    <2>1. CASE Solve
      <3>1. clauses \subseteq SUBSET Literal /\ {} \notin clauses
        BY DEF SearchInd, ResultInv
      <3>2. levels' = CanonicalSelect(clauses, Optimum) /\ UNCHANGED clauses /\ phase = "solve"
        BY <2>1 DEF Solve, CallReach
      <3>3. Cardinality(Raised(levels')) = Optimum /\ ~Misses(clauses, levels')
        BY <3>1, <3>2, SelectedCut DEF Optimum
      <3>4. /\ Cardinality(Raised(levels)) <= Optimum
            /\ clauses # {} => Misses(clauses, levels)
        BY <3>2 DEF SearchInd, ResultInv, Misses
      <3> QED BY <3>2, <3>3, <3>4
    <2>2. CASE BudgetOut
      BY <2>2 DEF BudgetOut, Fallback
    <2>3. CASE ReachStep
      BY <2>3 DEF ReachStep, search
    <2>4. CASE Severed \/ Unblockable \/ FallbackDone
      BY <2>4 DEF Severed, Unblockable, FallbackDone, Finish
    <2>5. CASE Learn
      BY <2>5 DEF Learn, Fallback
    <2> QED BY <2>1, <2>2, <2>3, <2>4, <2>5 DEF Next
  <1>2. Spec => []SearchInd
    BY InitSearch, NextInd, PTL DEF Spec
  <1>3. Spec => [][A]_vars
    BY <1>1, <1>2, PTL DEF Spec
  <1> QED BY <1>3 DEF SearchAdvances

-----------------------------------------------------------------------------
(* NEC and OCC. *)

\* The minimum hitting sets of a database.
Best(db) == {K \in Covers(db, Control) : Cardinality(K) = MinCardinality(db, Control)}

\* Forbidding a control leaves the covers that do without it.
LEMMA CoversWithout ==
    ASSUME NEW db, NEW c \in Control
    PROVE  Covers(db, Control \ {c}) = {K \in Covers(db, Control) : c \notin K}
  BY DEF Covers

\* NEC: a larger optimum without c, or none, means that every minimum hitting
\* set has c.
LEMMA NecessaryIs ==
    ASSUME NEW db, Feasible(db, Control)
    PROVE  Necessary(db) = {c \in Control : \A K \in Best(db) : c \in K}
  <1> DEFINE best == MinCardinality(db, Control)
  <1>1. /\ best \in 0..NControl
        /\ \A K \in Covers(db, Control) : best <= Cardinality(K)
    BY MinCardinalityIs
  <1>2. \A K \in Covers(db, Control) : Cardinality(K) \in Nat
    BY ControlFinite DEF Covers
  <1> HIDE DEF best
  <1>3. ASSUME NEW c \in Control
        PROVE  c \in Necessary(db) <=> \A K \in Best(db) : c \in K
    <2> DEFINE C == Control \ {c}
               other == MinCardinality(db, C)
    <2>1. CASE ~Feasible(db, C)
      <3>1. c \in Necessary(db)
        BY <2>1 DEF Necessary
      <3>2. \A K \in Best(db) : c \in K
        BY <2>1, CoversWithout DEF Best, Feasible
      <3> QED BY <3>1, <3>2
    <2>2. CASE Feasible(db, C)
      <3>1. /\ other \in 0..NControl
            /\ \E K \in Covers(db, C) : Cardinality(K) = other
            /\ \A K \in Covers(db, C) : other <= Cardinality(K)
        BY <2>2, MinCardinalityIs
      <3>2. c \in Necessary(db) <=> other > best
        BY <2>2 DEF Necessary, best
      <3> HIDE DEF other
      <3>3. ASSUME other > best, NEW K \in Best(db), c \notin K PROVE FALSE
        <4>1. K \in Covers(db, C) /\ Cardinality(K) = best
          BY <3>3, CoversWithout DEF Best, best
        <4> QED BY <1>1, <3>1, <3>3, <4>1
      <3>4. ASSUME \A K \in Best(db) : c \in K PROVE other > best
        <4>1. PICK K \in Covers(db, C) : Cardinality(K) = other
          BY <3>1
        <4>2. K \in Covers(db, Control) /\ c \notin K
          BY <4>1, CoversWithout
        <4>3. Cardinality(K) # best
          BY <3>4, <4>2 DEF Best, best
        <4> QED BY <1>1, <3>1, <4>1, <4>2, <4>3
      <3> QED BY <3>2, <3>3, <3>4
    <2> QED BY <2>1, <2>2
  <1> QED BY <1>3 DEF Necessary

\* Taking c out of a cover leaves a cover of what c does not hit, and putting
\* it back gives a cover.
LEMMA CoverSplit ==
    ASSUME NEW db, NEW c \in Control, NEW l \in 1..MaxLevel[c],
           NEW kept, kept = db \ HitBy(db, c, l)
    PROVE  /\ \A J \in Covers(kept, Control \ {c}) :
                 J \cup {c} \in Covers(db, Control) /\ c \notin J
           /\ l = MaxLevel[c] =>
                 \A K \in Covers(db, Control) : c \in K => K \ {c} \in Covers(kept, Control \ {c})
  <1>1. ASSUME NEW J \in Covers(kept, Control \ {c}) PROVE J \cup {c} \in Covers(db, Control)
    <2>1. J \in SUBSET (Control \ {c}) /\ HitsAll(kept, J, MaxLevel)
      BY DEF Covers
    <2>2. ASSUME NEW k \in db
          PROVE  \E d \in J \cup {c} : \E m \in 1..MaxLevel[d] : <<d, m>> \in k
      <3>1. CASE k \in kept
        BY <2>1, <3>1, HitsAllMeans
      <3>2. CASE k \notin kept
        <4>1. PICK m \in 1..l : <<c, m>> \in k
          BY <3>2 DEF HitBy
        <4>2. m \in 1..MaxLevel[c]
          BY CatalogAssumption
        <4> QED BY <4>1, <4>2
      <3> QED BY <3>1, <3>2
    <2>3. HitsAll(db, J \cup {c}, MaxLevel)
      BY <2>2, HitsAllMeans
    <2> QED BY <2>1, <2>3 DEF Covers
  <1>2. ASSUME l = MaxLevel[c], NEW K \in Covers(db, Control), c \in K
        PROVE  K \ {c} \in Covers(kept, Control \ {c})
    <2>1. K \in SUBSET Control /\ HitsAll(db, K, MaxLevel)
      BY DEF Covers
    <2>2. ASSUME NEW k \in kept
          PROVE  \E d \in K \ {c} : \E m \in 1..MaxLevel[d] : <<d, m>> \in k
      <3>1. PICK d \in K : \E m \in 1..MaxLevel[d] : <<d, m>> \in k
        BY <2>1, HitsAllMeans
      <3>2. d # c
        BY <1>2, <3>1 DEF HitBy
      <3> QED BY <3>1, <3>2
    <2>3. HitsAll(kept, K \ {c}, MaxLevel)
      BY <2>2, HitsAllMeans
    <2> QED BY <2>1, <2>3 DEF Covers
  <1>3. \A J \in Covers(kept, Control \ {c}) : c \notin J
    BY DEF Covers
  <1> QED BY <1>1, <1>2, <1>3

\* OCC: paying for itself at some level means being in a minimum hitting set.
LEMMA OccurringIs ==
    ASSUME NEW db, Feasible(db, Control)
    PROVE  Occurring(db) = UNION Best(db)
  <1> DEFINE best == MinCardinality(db, Control)
             Kept(c, l) == db \ HitBy(db, c, l)
  <1>1. /\ best \in 0..NControl
        /\ \A K \in Covers(db, Control) : best <= Cardinality(K)
    BY MinCardinalityIs
  <1>2. \A K \in SUBSET Control : IsFiniteSet(K) /\ Cardinality(K) \in Nat
    BY ControlFinite
  <1> HIDE DEF best
  <1>3. ASSUME NEW c \in Occurring(db) PROVE c \in UNION Best(db)
    <2>1. c \in Control
      BY DEF Occurring
    <2>2. PICK l \in 1..MaxLevel[c] :
             /\ Feasible(Kept(c, l), Control \ {c})
             /\ 1 + MinCardinality(Kept(c, l), Control \ {c}) = best
      BY DEF Occurring, best
    <2> DEFINE kept == Kept(c, l)
    <2>3. PICK J \in Covers(kept, Control \ {c}) :
             Cardinality(J) = MinCardinality(kept, Control \ {c})
      BY <2>2, MinCardinalityIs
    <2>4. J \cup {c} \in Covers(db, Control) /\ c \notin J
      BY <2>1, <2>3, CoverSplit
    <2>5. J \in SUBSET Control
      BY <2>3 DEF Covers
    <2>6. Cardinality(J \cup {c}) = Cardinality(J) + 1
      BY <1>2, <2>4, <2>5, FS_AddElement
    <2>7. Cardinality(J \cup {c}) = best
      BY <1>2, <2>2, <2>3, <2>5, <2>6
    <2> QED BY <2>4, <2>7 DEF Best, best
  <1>4. ASSUME NEW K \in Best(db), NEW c \in K PROVE c \in Occurring(db)
    <2>1. K \in SUBSET Control /\ K \in Covers(db, Control) /\ Cardinality(K) = best /\ c \in Control
      BY DEF Best, Covers, best
    <2> DEFINE l == MaxLevel[c]
               kept == Kept(c, l)
               least == MinCardinality(kept, Control \ {c})
    <2>2. l \in 1..MaxLevel[c]
      BY <2>1, CatalogAssumption
    <2>3. K \ {c} \in Covers(kept, Control \ {c})
      BY <2>1, <2>2, CoverSplit
    <2>4. Feasible(kept, Control \ {c})
      BY <2>3 DEF Feasible
    <2>5. /\ least \in 0..NControl
          /\ \E J \in Covers(kept, Control \ {c}) : Cardinality(J) = least
          /\ \A J \in Covers(kept, Control \ {c}) : least <= Cardinality(J)
      BY <2>4, MinCardinalityIs
    <2>6. Cardinality(K \ {c}) = best - 1
      BY <1>2, <2>1, FS_RemoveElement
    <2>7. PICK J \in Covers(kept, Control \ {c}) : Cardinality(J) = least
      BY <2>5
    <2>8. J \cup {c} \in Covers(db, Control) /\ c \notin J /\ J \in SUBSET Control
      BY <2>1, <2>2, <2>7, CoverSplit DEF Covers
    <2>9. Cardinality(J \cup {c}) = least + 1
      BY <1>2, <2>7, <2>8, FS_AddElement
    <2> HIDE DEF kept, least, l
    <2>10. 1 + least = best
      <3>1. least <= best - 1
        BY <2>3, <2>5, <2>6
      <3>2. best <= least + 1
        BY <1>1, <2>8, <2>9
      <3>3. best \in Nat /\ least \in Nat
        BY <1>1, <2>5, CatalogAssumption
      <3> QED BY <3>1, <3>2, <3>3
    <2> QED BY <2>1, <2>2, <2>4, <2>10 DEF Occurring, kept, least, best, l
  <1> QED BY <1>3, <1>4

-----------------------------------------------------------------------------
(* What a search that returned has shown. *)

\* The result r of a search over p: the claim it makes, and what it has
\* shown of p.
Finished(p, r) ==
    /\ r.clauses \subseteq SUBSET Literal /\ {} \notin r.clauses
    /\ \A lv \in LevelVectors : Misses(r.clauses, lv) => R!Derivable(p, Mask(lv))
    /\ {r.complete, r.capHit, r.exhausted} \subseteq BOOLEAN
    /\ r.minimality \in {"EXACT_PSI_RELATIVE", "SUBSET", "UNVERIFIED"}
    /\ r.minimality = "SUBSET" =>
          /\ r.levels = SubsetMinimal(r.clauses)
          /\ ~r.complete /\ (r.capHit \/ r.exhausted)
    /\ r.minimality # "SUBSET" =>
          /\ r.levels = CanonicalSelect(r.clauses, MinCardinality(r.clauses, Control))
          /\ r.complete /\ ~r.capHit /\ ~r.exhausted
    /\ r.severs = ~R!Derivable(p, Mask(r.levels))
    /\ r.minimality = "EXACT_PSI_RELATIVE" => r.severs
    /\ r.minimality = "UNVERIFIED" => SeveringOf(p) = {}

\* A search that is done has finished its program.
LEMMA DoneIsFinished ==
    ASSUME SearchInd, phase = "done"
    PROVE  Finished(prog, Result)
  <1>1. TypeOK /\ ResultInv
    BY DEF SearchInd
  <1>2. /\ Result.clauses = clauses /\ Result.levels = levels /\ Result.minimality = minimality
        /\ Result.severs = severs /\ Result.complete = complete /\ Result.capHit = capHit
        /\ Result.exhausted = exhausted
    BY DEF Result
  <1>3. minimality = "UNVERIFIED" => SeveringOf(prog) = {}
    BY <1>1 DEF ResultInv, Severing, SeveringOf
  <1>4. \A lv \in LevelVectors : Misses(clauses, lv) => R!Derivable(prog, Mask(lv))
    BY <1>1 DEF ResultInv, Misses
  <1>5. {complete, capHit, exhausted} \subseteq BOOLEAN
    BY <1>1 DEF TypeOK
  <1>6. /\ clauses \subseteq SUBSET Literal /\ {} \notin clauses
        /\ minimality \in {"EXACT_PSI_RELATIVE", "SUBSET", "UNVERIFIED"}
        /\ minimality = "SUBSET" =>
              levels = SubsetMinimal(clauses) /\ ~complete /\ (capHit \/ exhausted)
        /\ minimality # "SUBSET" =>
              /\ levels = CanonicalSelect(clauses, MinCardinality(clauses, Control))
              /\ complete /\ ~capHit /\ ~exhausted
        /\ severs = ~R!Derivable(prog, Mask(levels))
        /\ minimality = "EXACT_PSI_RELATIVE" => severs
    BY <1>1 DEF ResultInv, Optimum
  <1> QED BY <1>2, <1>3, <1>4, <1>5, <1>6 DEF Finished

\* What a finished result says of its cut and of the cuts that sever.
LEMMA FinishedCut ==
    ASSUME NEW p, NEW r, Finished(p, r)
    PROVE  LET best == MinCardinality(r.clauses, Control) IN
           /\ Feasible(r.clauses, Control)
           /\ r.levels \in LevelVectors
           /\ ~Misses(r.clauses, r.levels)
           /\ \A c \in Raised(r.levels) : /\ OneDown(r.levels, c) \in LevelVectors
                                          /\ Misses(r.clauses, OneDown(r.levels, c))
           /\ \A lv \in SeveringOf(p) : /\ Raised(lv) \in Covers(r.clauses, Control)
                                        /\ best <= Cardinality(Raised(lv))
           /\ r.minimality # "SUBSET" => Cardinality(Raised(r.levels)) = best
           /\ r.minimality = "EXACT_PSI_RELATIVE" => r.levels \in SeveringOf(p)
  <1> DEFINE cls == r.clauses
             best == MinCardinality(cls, Control)
  <1>1. cls \subseteq SUBSET Literal /\ {} \notin cls
    BY DEF Finished
  <1>2. Feasible(cls, Control)
    BY <1>1, SelectedCut
  <1>3. /\ r.levels \in LevelVectors
        /\ ~Misses(cls, r.levels)
        /\ \A c \in Raised(r.levels) : /\ OneDown(r.levels, c) \in LevelVectors
                                       /\ Misses(cls, OneDown(r.levels, c))
        /\ r.minimality # "SUBSET" => Cardinality(Raised(r.levels)) = best
    <2>1. CASE r.minimality = "SUBSET"
      BY <1>1, <2>1, FallbackCut DEF Finished
    <2>2. CASE r.minimality # "SUBSET"
      BY <1>1, <2>2, SelectedCut DEF Finished
    <2> QED BY <2>1, <2>2
  <1>4. ASSUME NEW lv \in SeveringOf(p)
        PROVE  Raised(lv) \in Covers(cls, Control) /\ best <= Cardinality(Raised(lv))
    <2>1. lv \in LevelVectors /\ ~R!Derivable(p, Mask(lv))
      BY DEF SeveringOf
    <2>2. ~Misses(cls, lv)
      BY <2>1 DEF Finished
    <2>3. HitsAll(cls, Raised(lv), lv)
      BY <1>1, <2>1, <2>2, HitsByMask DEF Misses
    <2>4. Raised(lv) \in Covers(cls, Control)
      BY <2>1, <2>3, RaisedCovers
    <2> QED BY <1>2, <2>4, MinCardinalityIs
  <1>5. r.minimality = "EXACT_PSI_RELATIVE" => r.levels \in SeveringOf(p)
    BY <1>3 DEF Finished, SeveringOf
  <1> QED BY <1>2, <1>3, <1>4, <1>5

\* The minimum cuts that sever p raise a minimum hitting set, when the search
\* was not cut short.
LEMMA MinimumIsBest ==
    ASSUME NEW p, NEW r, Finished(p, r), r.complete, NEW lv \in MinimumSevering(p)
    PROVE  Raised(lv) \in Best(r.clauses)
  <1> DEFINE best == MinCardinality(r.clauses, Control)
  <1>1. lv \in SeveringOf(p) /\ \A other \in SeveringOf(p) :
                                   Cardinality(Raised(lv)) <= Cardinality(Raised(other))
    BY DEF MinimumSevering
  <1>2. r.minimality = "EXACT_PSI_RELATIVE"
    BY <1>1 DEF Finished
  <1>3. /\ Raised(lv) \in Covers(r.clauses, Control) /\ best <= Cardinality(Raised(lv))
        /\ r.levels \in SeveringOf(p) /\ Cardinality(Raised(r.levels)) = best
        /\ Feasible(r.clauses, Control)
    BY <1>1, <1>2, FinishedCut
  <1>4. Cardinality(Raised(lv)) <= best
    BY <1>1, <1>3
  <1>5. best \in Nat /\ Cardinality(Raised(lv)) \in Nat
    BY <1>3, MinCardinalityIs, ControlFinite, CatalogAssumption DEF Raised
  <1> QED BY <1>3, <1>4, <1>5 DEF Best

\* What severs a program severs every part of it.
LEMMA DerivableInPart ==
    ASSUME NEW p, NEW q, NEW c, p.insts \subseteq q.insts,
           R!Elems(p.axioms) \subseteq R!Elems(q.axioms), p.goals = q.goals,
           R!Derivable(p, c)
    PROVE  R!Derivable(q, c)
  <1>1. ASSUME NEW S, R!Closed(q, c, S) PROVE R!Closed(p, c, S)
    BY <1>1 DEF R!Closed
  <1> QED BY <1>1 DEF R!Derivable

\* In particular, what severs P_max severs P_min.
LEMMA LowerIsPart ==
    ASSUME NEW pr \in Pairs, NEW c, R!Derivable(pr[1], c)
    PROVE  R!Derivable(pr[2], c)
  BY PairsAssumption, DerivableInPart

-----------------------------------------------------------------------------
(* The bracket. *)

\* Each search is about its own program, and the premium is drawn from the two
\* databases as they were when the searches returned.
BracketInv ==
    /\ pair \in Pairs
    /\ side \in {"lower", "upper", "end"}
    /\ prog = IF side = "lower" THEN pair[1] ELSE pair[2]
    /\ side # "lower" => Finished(pair[1], lower)
    /\ side # "end" => outcome = Pending
    /\ side = "end" =>
          /\ Finished(pair[2], Result)
          /\ \/ outcome.reason # "NONE" /\ outcome = Suppressed(outcome.reason)
             \/ /\ Precondition = "NONE"
                /\ outcome = [published |-> TRUE, reason |-> "NONE",
                              nec |-> Necessary(clauses), occ |-> Occurring(lower.clauses),
                              b |-> Necessary(clauses) \ Occurring(lower.clauses)]

\* A search never changes its program.
LEMMA SearchFrame == Next => UNCHANGED prog
  BY ReachFrame DEF Next, Solve, BudgetOut, ReachStep, Severed, Unblockable, Learn, FallbackDone

\* The bracket starts with the search over P_min.
LEMMA BracketStarts == PInit => BracketInv /\ SearchInd
  BY InitSearch DEF PInit, BracketInv

\* Nothing that leaves the results alone disturbs the bracket.
LEMMA BracketFrame ==
    ASSUME BracketInv, UNCHANGED <<prog, search, bracket>>
    PROVE  BracketInv'
  <1>1. Result' = Result /\ Precondition' = Precondition
    BY DEF search, bracket, Result, Precondition, Reasons
  <1> QED BY <1>1 DEF BracketInv, search, bracket

\* Every step of the bracket keeps its invariant and that of the search.
LEMMA BracketInd ==
    ASSUME BracketInv, SearchInd, [PNext]_pvars
    PROVE  BracketInv' /\ SearchInd'
  <1>1. CASE SearchStep
    <2>1. UNCHANGED prog /\ UNCHANGED bracket /\ side \in {"lower", "upper"}
      BY <1>1, SearchFrame DEF SearchStep
    <2>2. BracketInv'
      BY <2>1 DEF BracketInv, bracket
    <2>3. SearchInd'
      BY <1>1, NextInd DEF SearchStep
    <2> QED BY <2>2, <2>3
  <1>2. CASE StartUpper
    <2>1. Finished(pair[1], Result)
      BY <1>2, DoneIsFinished DEF StartUpper, BracketInv
    <2>2. /\ lower' = Result /\ pair' = pair /\ side' = "upper" /\ prog' = pair[2]
          /\ outcome' = outcome /\ side = "lower"
      BY <1>2 DEF StartUpper
    <2>3. BracketInv'
      BY <2>1, <2>2 DEF BracketInv
    <2>4. Init'
      BY <1>2, PairsAssumption DEF StartUpper, Init, BracketInv
    <2>5. (Init => SearchInd)'
      BY InitSearch, PTL
    <2> QED BY <2>3, <2>4, <2>5
  <1>3. CASE Suppress \/ PremiumBudgetOut \/ Publish
    <2>1. UNCHANGED <<vars, pair, upstream, lower>> /\ side = "upper" /\ side' = "end" /\ phase = "done"
      BY <1>3 DEF Suppress, PremiumBudgetOut, Publish
    <2>2. Finished(pair[2], Result)
      BY <2>1, DoneIsFinished DEF BracketInv
    <2>3. Result' = Result /\ Precondition' = Precondition /\ prog' = prog /\ clauses' = clauses
      BY <2>1 DEF Result, Precondition, Reasons, vars, search
    <2>4. \/ outcome' = Suppressed(outcome'.reason) /\ outcome'.reason # "NONE"
          \/ /\ Precondition = "NONE"
             /\ outcome' = [published |-> TRUE, reason |-> "NONE",
                            nec |-> Necessary(clauses), occ |-> Occurring(lower.clauses),
                            b |-> Necessary(clauses) \ Occurring(lower.clauses)]
      BY <1>3 DEF Suppress, PremiumBudgetOut, Publish, Suppressed
    <2>5. BracketInv'
      BY <2>1, <2>2, <2>3, <2>4 DEF BracketInv
    <2>6. SearchInd'
      BY <2>1, NextInd
    <2> QED BY <2>5, <2>6
  <1>4. CASE UNCHANGED pvars
    <2>1. UNCHANGED <<prog, search, bracket>> /\ UNCHANGED vars
      BY <1>4 DEF pvars, vars
    <2> QED BY <2>1, BracketFrame, NextInd
  <1> QED BY <1>1, <1>2, <1>3, <1>4 DEF PNext

-----------------------------------------------------------------------------
(* The premium. *)

\* blindness_premium goes on only when none of the four preconditions fails.
LEMMA NoReason ==
    ASSUME Precondition = "NONE"
    PROVE  /\ ~upstream.groundingCapped /\ ~upstream.erAmbiguous
           /\ lower.complete /\ complete
  <1> DEFINE failing == {k \in DOMAIN Reasons : Reasons[k].fails}
             least == CHOOSE k \in failing : \A j \in failing : k <= j
  <1>1. DOMAIN Reasons = 1..4 /\ \A k \in 1..4 : Reasons[k].reason # "NONE"
    BY DEF Reasons
  <1>2. failing = {}
    <2> SUFFICES ASSUME failing # {} PROVE FALSE
      OBVIOUS
    <2>1. failing \in SUBSET Nat
      BY <1>1
    <2>2. \E k \in failing : \A j \in failing : k <= j
      BY <2>1, LeastNat
    <2>3. least \in failing
      BY <2>2
    <2>4. Precondition = Reasons[least].reason
      BY DEF Precondition
    <2> QED BY <1>1, <2>3, <2>4
  <1>3. ~Reasons[1].fails /\ ~Reasons[2].fails /\ ~Reasons[4].fails
    BY <1>1, <1>2
  <1> QED BY <1>3 DEF Reasons

\* A published premium is drawn from two searches that were not cut short.
LEMMA PublishedIs ==
    ASSUME BracketInv, outcome.published
    PROVE  /\ side = "end" /\ Finished(pair[1], lower) /\ Finished(pair[2], Result)
           /\ ~upstream.groundingCapped /\ ~upstream.erAmbiguous
           /\ lower.complete /\ complete
           /\ outcome.reason = "NONE"
           /\ outcome.nec = Necessary(clauses) /\ outcome.occ = Occurring(lower.clauses)
           /\ outcome.b = outcome.nec \ outcome.occ
  <1>1. side = "end"
    BY DEF BracketInv, Pending, Suppressed
  <1>2. /\ Precondition = "NONE"
        /\ outcome = [published |-> TRUE, reason |-> "NONE",
                      nec |-> Necessary(clauses), occ |-> Occurring(lower.clauses),
                      b |-> Necessary(clauses) \ Occurring(lower.clauses)]
    BY <1>1 DEF BracketInv, Suppressed
  <1> QED BY <1>1, <1>2, NoReason DEF BracketInv

\* NEC and OCC are every and some.
LEMMA PremiumSets == BracketInv => NecOccAreEveryAndSome
  <1> SUFFICES ASSUME BracketInv, outcome.published PROVE NecOccAreEveryAndSome
    BY DEF NecOccAreEveryAndSome
  <1>1. /\ Finished(pair[1], lower) /\ Finished(pair[2], Result)
        /\ outcome.nec = Necessary(clauses) /\ outcome.occ = Occurring(lower.clauses)
        /\ Result.clauses = clauses
    BY PublishedIs DEF Result
  <1>2. Feasible(clauses, Control) /\ Feasible(lower.clauses, Control)
    BY <1>1, FinishedCut
  <1>3. outcome.nec = {c \in Control : \A K \in Best(clauses) : c \in K}
    BY <1>1, <1>2, NecessaryIs
  <1>4. outcome.occ = UNION Best(lower.clauses)
    BY <1>1, <1>2, OccurringIs
  <1> QED BY <1>3, <1>4 DEF NecOccAreEveryAndSome, Best

\* A control of the premium is in every minimum cut of P_max and in none of
\* P_min.
LEMMA PremiumMeans == BracketInv => PremiumSound
  <1> SUFFICES ASSUME BracketInv, side = "end", NEW c \in outcome.b
               PROVE  /\ \A lv \in MinimumSevering(pair[2]) : c \in Raised(lv)
                      /\ \A lv \in MinimumSevering(pair[1]) : c \notin Raised(lv)
    BY DEF PremiumSound
  <1>1. outcome.published
    BY DEF BracketInv, Suppressed
  <1>2. /\ Finished(pair[1], lower) /\ Finished(pair[2], Result)
        /\ lower.complete /\ Result.complete /\ Result.clauses = clauses
        /\ c \in Necessary(clauses) /\ c \notin Occurring(lower.clauses)
    BY <1>1, PublishedIs DEF Result
  <1>3. Feasible(clauses, Control) /\ Feasible(lower.clauses, Control)
    BY <1>2, FinishedCut
  <1>4. (\A K \in Best(clauses) : c \in K) /\ (\A K \in Best(lower.clauses) : c \notin K)
    BY <1>2, <1>3, NecessaryIs, OccurringIs
  <1>5. ASSUME NEW lv \in MinimumSevering(pair[2]) PROVE c \in Raised(lv)
    <2>1. Raised(lv) \in Best(Result.clauses)
      BY <1>2, MinimumIsBest
    <2> QED BY <1>2, <1>4, <2>1
  <1>6. ASSUME NEW lv \in MinimumSevering(pair[1]) PROVE c \notin Raised(lv)
    <2>1. Raised(lv) \in Best(lower.clauses)
      BY <1>2, MinimumIsBest
    <2> QED BY <1>4, <2>1
  <1> QED BY <1>5, <1>6

\* The bracket is a bracket.
LEMMA BracketIsOrdered == BracketInv => BracketOrdered
  <1> SUFFICES ASSUME BracketInv, side = "end" PROVE BracketOrdered
    BY DEF BracketOrdered
  <1>1. /\ Finished(pair[1], lower) /\ Finished(pair[2], Result) /\ pair \in Pairs
        /\ Result.levels = levels /\ Result.severs = severs /\ Result.minimality = minimality
    BY DEF BracketInv, Result
  <1>2. levels \in LevelVectors
    BY <1>1, FinishedCut
  <1>3. severs => ~R!Derivable(pair[2], Mask(levels))
    BY <1>1 DEF Finished
  <1>4. severs => levels \in SeveringOf(pair[1])
    BY <1>1, <1>2, <1>3, LowerIsPart DEF SeveringOf
  <1>5. ASSUME lower.minimality = "EXACT_PSI_RELATIVE", minimality = "EXACT_PSI_RELATIVE"
        PROVE  Cardinality(Raised(lower.levels)) <= Cardinality(Raised(levels))
    <2>1. levels \in SeveringOf(pair[1])
      BY <1>1, <1>4, <1>5 DEF Finished
    <2> QED BY <1>1, <1>5, <2>1, FinishedCut
  <1> QED BY <1>4, <1>5 DEF BracketOrdered

\* A search that was cut short yields no premium.
LEMMA NotCutShort == BracketInv => NoPremiumFromACutShortSearch
  <1> SUFFICES ASSUME BracketInv, outcome.published PROVE NoPremiumFromACutShortSearch
    BY DEF NoPremiumFromACutShortSearch
  <1>1. /\ Finished(pair[1], lower) /\ Finished(pair[2], Result)
        /\ ~upstream.groundingCapped /\ ~upstream.erAmbiguous
        /\ lower.complete /\ complete
        /\ Result.complete = complete /\ Result.capHit = capHit /\ Result.exhausted = exhausted
    BY PublishedIs DEF Result
  <1>2. ~lower.capHit /\ ~lower.exhausted /\ ~capHit /\ ~exhausted
    BY <1>1 DEF Finished
  <1> QED BY <1>1, <1>2 DEF NoPremiumFromACutShortSearch

\* The invariant of the bracket earns the premium.
LEMMA BracketEarns == BracketInv => PremiumIsEarned
  BY PremiumSets, PremiumMeans, BracketIsOrdered, NotCutShort DEF PremiumIsEarned

-----------------------------------------------------------------------------
(* Witnesses. *)

\* The cut with control c dropped whole.
Without(lv, c) == [lv EXCEPT ![c] = 0]

\* Dropping a control takes its literals, all of them and no others, out of
\* the mask, and goes at least as far as lowering it one step.
LEMMA WithoutIs ==
    ASSUME NEW lv \in LevelVectors, NEW c \in Control
    PROVE  /\ Without(lv, c) \in LevelVectors
           /\ Mask(Without(lv, c)) = {a \in Mask(lv) : a[1] # c}
           /\ c \in Raised(lv) /\ OneDown(lv, c) \in LevelVectors =>
                 Mask(Without(lv, c)) \subseteq Mask(OneDown(lv, c))
  <1> DEFINE w == Without(lv, c)
  <1>1. /\ lv \in [Control -> Nat] /\ \A d \in Control : lv[d] <= MaxLevel[d]
        /\ \A d \in Control : MaxLevel[d] \in Nat
    BY LevelVectorIs, CatalogAssumption
  <1>2. w \in [Control -> Nat] /\ w[c] = 0 /\ \A d \in Control : d # c => w[d] = lv[d]
    BY <1>1 DEF Without
  <1> HIDE DEF w
  <1>3. w \in LevelVectors
    <2>1. \A d \in Control : w[d] <= MaxLevel[d]
      BY <1>1, <1>2
    <2> QED BY <1>2, <2>1, LevelVectorIs
  <1>4. ASSUME NEW a PROVE a \in Mask(w) <=> a \in Mask(lv) /\ a[1] # c
    <2> SUFFICES ASSUME a \in Literal PROVE a \in Mask(w) <=> a \in Mask(lv) /\ a[1] # c
      BY DEF Mask
    <2>1. PICK d, l : d \in Control /\ l \in 1..MaxLevel[d] /\ a = <<d, l>>
      BY LiteralIs
    <2>2. (a \in Mask(w) <=> l <= w[d]) /\ (a \in Mask(lv) <=> l <= lv[d]) /\ a[1] = d
      BY <2>1, MaskIs
    <2>3. l \in Nat /\ l >= 1
      BY <1>1, <2>1
    <2> QED BY <1>2, <2>1, <2>2, <2>3
  <1>5. ASSUME c \in Raised(lv), OneDown(lv, c) \in LevelVectors
        PROVE  Mask(w) \subseteq Mask(OneDown(lv, c))
    <2>1. \A d \in Control : w[d] <= OneDown(lv, c)[d]
      BY <1>1, <1>2, <1>5 DEF OneDown, Raised
    <2> QED BY <1>3, <1>5, <2>1, MaskMonotone
  <1> QED BY <1>3, <1>4, <1>5 DEF w

\* Every raised control of a finished search is needed: without it a clause
\* is missed, and a goal derived.
LEMMA DroppedDerives ==
    ASSUME NEW p, NEW r, Finished(p, r), NEW c \in Raised(r.levels)
    PROVE  R!Derivable(p, Mask(Without(r.levels, c)))
  <1>1. /\ r.levels \in LevelVectors /\ OneDown(r.levels, c) \in LevelVectors
        /\ Misses(r.clauses, OneDown(r.levels, c))
    BY FinishedCut
  <1>2. R!Derivable(p, Mask(OneDown(r.levels, c)))
    BY <1>1 DEF Finished
  <1>3. c \in Control
    BY DEF Raised
  <1>4. Mask(Without(r.levels, c)) \subseteq Mask(OneDown(r.levels, c))
    BY <1>1, <1>3, WithoutIs
  <1> QED BY <1>2, <1>4, DerivableAntitone

\* What the checker and the body builder ask of the instances of a witness.
IsTree(p, D0) ==
    /\ D0 # {} /\ D0 \subseteq p.insts
    /\ \A S \in SUBSET D0 : S # {} => \E i \in S : \A j \in S : j.head \notin R!BodySet(i)
    /\ \A S \in SUBSET Fact :
          (/\ O!AxiomsOf(p.insts) \subseteq S
           /\ \A i \in D0 : R!BodySet(i) \subseteq S => i.head \in S)
          => \A i \in D0 : R!BodySet(i) \subseteq S

\* The witness of a finished probe over P_max is such a tree.
LEMMA ProbeTree ==
    ASSUME R!IndInv, R!DerivableResult, NEW pr \in Pairs, prog = pr[2]
    PROVE  IsTree(prog, R!WitnessInstances)
  <1> DEFINE W == RP!WitnessInstances
             axioms == R!Elems(prog.axioms)
  <1>1. RP!IndInv /\ RP!DerivableResult /\ R!WitnessInstances = W
    BY SameInvariant, SameMeaning, SameWitness
  <1>2. /\ W \subseteq prog.insts
        /\ \A S \in SUBSET W :
              S # {} => \E i \in S : \A j \in S : j.head \notin RP!BodySet(i)
        /\ \A S : (/\ \A f \in UNION {RP!BodySet(i) : i \in prog.insts} : RP!BareAxiom(f) => f \in S
                  /\ \A i \in W : RP!BodySet(i) \subseteq S => i.head \in S)
                 => \A i \in W : RP!BodySet(i) \subseteq S
        /\ (\A g \in prog.goals : ~RP!BareAxiom(g)) => W # {}
    BY <1>1, ReachAssumptions, RP!WitnessIsTree
  <1> HIDE DEF W
  <1>3. /\ \A i \in prog.insts : i.head \in axioms => i.body = <<>> /\ i.blockers = {}
        /\ prog.goals \cap axioms \subseteq {i.head : i \in prog.insts}
    BY GroundedAssumption
  <1>4. \A i : RP!BodySet(i) = R!BodySet(i) /\ O!G!BodySet(i) = R!BodySet(i)
    BY DEF RP!BodySet, R!BodySet, O!G!BodySet, RP!Elems, R!Elems, O!G!Elems
  <1>5. \A i : i.body = <<>> => R!BodySet(i) = {}
    BY DEF R!BodySet, R!Elems
  <1>6. \A f : RP!BareAxiom(f) <=>
            /\ f \in axioms
            /\ ~\E i \in prog.insts : i.head = f /\ R!BodySet(i) = {} /\ i.blockers = {}
    BY <1>4 DEF RP!BareAxiom, RP!Elems, R!Elems
  <1> HIDE DEF axioms
  <1>7. \A f : RP!BareAxiom(f) => \A i \in prog.insts : i.head # f
    BY <1>3, <1>5, <1>6
  <1>8. \A g \in prog.goals : ~RP!BareAxiom(g)
    BY <1>3, <1>6, <1>7
  <1>9. \A f : f \in O!AxiomsOf(prog.insts) <=>
            /\ \E i \in prog.insts : f \in R!BodySet(i)
            /\ \A i \in prog.insts : i.head # f
    <2> DEFINE bodies == UNION {O!G!BodySet(i) : i \in prog.insts}
    <2>1. O!AxiomsOf(prog.insts) = bodies \ {i.head : i \in prog.insts}
      BY DEF O!AxiomsOf
    <2>2. \A f : f \in bodies <=> \E i \in prog.insts : f \in R!BodySet(i)
      BY <1>4
    <2> HIDE DEF bodies
    <2> QED BY <2>1, <2>2
  <1>10. ASSUME NEW S, O!AxiomsOf(prog.insts) \subseteq S,
                \A i \in W : R!BodySet(i) \subseteq S => i.head \in S
         PROVE  \A i \in W : R!BodySet(i) \subseteq S
    <2>1. \A f \in UNION {RP!BodySet(i) : i \in prog.insts} : RP!BareAxiom(f) => f \in S
      <3> SUFFICES ASSUME NEW f, NEW i \in prog.insts, f \in RP!BodySet(i), RP!BareAxiom(f)
                   PROVE  f \in S
        OBVIOUS
      <3>1. f \in R!BodySet(i)
        BY <1>4
      <3>2. f \in O!AxiomsOf(prog.insts)
        BY <1>7, <1>9, <3>1
      <3> QED BY <1>10, <3>2
    <2> QED BY <1>2, <1>4, <1>10, <2>1
  <1>11. \A S \in SUBSET W : S # {} => \E i \in S : \A j \in S : j.head \notin R!BodySet(i)
    BY <1>2, <1>4
  <1> QED BY <1>1, <1>2, <1>8, <1>10, <1>11 DEF IsTree

-----------------------------------------------------------------------------
(* The inductive invariant of stage S10. *)

Verdicts == [max |-> SafetyAt(levels), min |-> SafetyAt(lower.levels)]

\* The stages from the probes on, and those from the first verdict on.
Probing == stage # "bracket"
Decided == stage \notin {"bracket", "probe"}

\* Each raised control is in exactly one place: still to be probed, the one
\* whose probe runs, or answered; and an answer is a tree if there is one.
ProbeInv ==
    /\ stage = "bracket" => SearchInd
    /\ Probing => side = "end"
    /\ Decided => probes = {} /\ dropped = 0
    /\ dropped # 0 =>
          /\ R!IndInv /\ pc # "idle"
          /\ dropped \in Raised(levels)
          /\ cut = Mask(Without(levels, dropped))
    /\ ~Probing => trees = {} /\ dropped = 0
    /\ Probing =>
          /\ probes \subseteq Raised(levels)
          /\ \A t \in trees :
                /\ t.control \in Raised(levels)
                /\ R!Derivable(pair[2], Mask(Without(levels, t.control)))
                /\ IsTree(pair[2], t.insts)
          /\ \A c \in Raised(levels) \ probes :
                \/ c = dropped
                \/ ~R!Derivable(pair[2], Mask(Without(levels, c)))
                \/ \E t \in trees : t.control = c

\* A verdict is built from the decision at its cut; a refusal has the code
\* that the first refused verdict gives.
VerdictInv ==
    /\ stage \in {"bracket", "probe", "decided", "sealed_max", "sealed", "emitted",
                  "accepted", "aborted"}
    /\ Decided => safety = Verdicts
    /\ stage # "aborted" => error = "NONE"
    /\ stage \in {"sealed_max", "sealed", "emitted", "accepted"} =>
          BuildError(safety.max, minimality) = "NONE"
    /\ stage = "aborted" =>
          error \in {BuildError(safety.max, minimality), BuildError(safety.min, lower.minimality)}

CertificateInd == BracketInv /\ ProbeInv /\ VerdictInv

\* S10 starts in the invariant.
LEMMA CertificateStarts == CInit => CertificateInd
  <1> SUFFICES ASSUME CInit PROVE CertificateInd
    OBVIOUS
  <1>1. BracketInv /\ SearchInd
    BY BracketStarts DEF CInit
  <1>2. ProbeInv
    BY <1>1 DEF CInit, ProbeInv, Probing, Decided
  <1>3. VerdictInv
    BY DEF CInit, VerdictInv, Decided
  <1> QED BY <1>1, <1>2, <1>3 DEF CertificateInd

\* A step of the bracket touches nothing of the rest.
LEMMA InBracket ==
    ASSUME CertificateInd, stage = "bracket", [PNext]_pvars, UNCHANGED proof
    PROVE  CertificateInd'
  <1>1. BracketInv' /\ SearchInd'
    BY BracketInd DEF CertificateInd, ProbeInv
  <1>2. UNCHANGED <<stage, report, probes, dropped, trees, safety, voided, error>>
    BY DEF proof
  <1>3. ProbeInv'
    BY <1>1, <1>2 DEF CertificateInd, ProbeInv, Probing, Decided
  <1>4. VerdictInv'
    BY <1>2 DEF CertificateInd, VerdictInv, Decided
  <1> QED BY <1>1, <1>3, <1>4 DEF CertificateInd

\* The probes start with every raised control to be probed.
LEMMA BracketDoneInd == CertificateInd /\ BracketDone => CertificateInd'
  <1> SUFFICES ASSUME CertificateInd, BracketDone PROVE CertificateInd'
    OBVIOUS
  <1>1. UNCHANGED pvars /\ stage' = "probe" /\ probes' = Raised(levels) /\ side = "end"
        /\ UNCHANGED <<dropped, trees, safety, voided, error>> /\ stage = "bracket"
    BY DEF BracketDone
  <1>2. UNCHANGED <<prog, search, bracket>> /\ UNCHANGED <<levels, pair, side>>
    BY <1>1 DEF pvars, vars, search, bracket
  <1>3. BracketInv'
    BY <1>2, BracketFrame DEF CertificateInd
  <1>4. trees = {} /\ dropped = 0
    BY <1>1 DEF CertificateInd, ProbeInv, Probing
  <1>5. ProbeInv'
    BY <1>1, <1>2, <1>4 DEF ProbeInv, Probing, Decided
  <1>6. VerdictInv'
    BY <1>1 DEF CertificateInd, VerdictInv, Decided
  <1> QED BY <1>3, <1>5, <1>6 DEF CertificateInd

\* A probe is a fresh fixpoint over P_max with one control dropped.
LEMMA ProbeCallInd == CertificateInd /\ ProbeCall => CertificateInd'
  <1> SUFFICES ASSUME CertificateInd, ProbeCall PROVE CertificateInd'
    OBVIOUS
  <1>1. PICK c \in probes : /\ dropped' = c /\ probes' = probes \ {c}
                            /\ Restart(Mask([levels EXCEPT ![c] = 0]))
    BY DEF ProbeCall
  <1>2. /\ stage = "probe" /\ dropped = 0
        /\ UNCHANGED <<prog, search, bracket, stage, report, trees, safety, voided, error>>
    BY DEF ProbeCall
  <1>3. UNCHANGED <<levels, pair, side, lower, minimality, clauses, capHit, upstream>>
    BY <1>2 DEF search, bracket
  <1>4. BracketInv' /\ BracketInv
    BY <1>2, BracketFrame DEF CertificateInd
  <1>5. side = "end" /\ probes \subseteq Raised(levels) /\ c \in Raised(levels) /\ c \in Control
    BY <1>1, <1>2 DEF CertificateInd, ProbeInv, Probing, Raised
  <1>6. prog = pair[2] /\ prog \in Programs /\ Finished(pair[2], Result) /\ Result.levels = levels
    BY <1>4, <1>5, PairsAssumption DEF BracketInv, Result
  <1>7. levels \in LevelVectors
    BY <1>6, FinishedCut
  <1>8. Without(levels, c) \in LevelVectors
    BY <1>5, <1>7, WithoutIs
  <1>9. R!IndInv' /\ pc' = "seed" /\ cut' = Mask(Without(levels, c))
    <2>1. Restart(Mask(Without(levels, c)))
      BY <1>1 DEF Without
    <2> QED BY <1>2, <1>6, <1>8, <2>1, RestartStarts DEF Restart
  <1>10. ProbeInv'
    <2>1. \A d \in Raised(levels) \ probes : \/ ~R!Derivable(pair[2], Mask(Without(levels, d)))
                                             \/ \E t \in trees : t.control = d
      BY <1>2, <1>5 DEF CertificateInd, ProbeInv, Probing, Raised, Control
    <2>2. \A t \in trees : /\ t.control \in Raised(levels)
                           /\ R!Derivable(pair[2], Mask(Without(levels, t.control)))
                           /\ IsTree(pair[2], t.insts)
      BY <1>2 DEF CertificateInd, ProbeInv, Probing
    <2> QED BY <1>1, <1>2, <1>3, <1>5, <1>9, <2>1, <2>2 DEF ProbeInv, Probing, Decided
  <1>11. VerdictInv'
    BY <1>2 DEF CertificateInd, VerdictInv, Decided
  <1> QED BY <1>4, <1>10, <1>11 DEF CertificateInd

\* Its steps are those of the fixpoint.
LEMMA ProbeStepInd == CertificateInd /\ ProbeStep => CertificateInd'
  <1> SUFFICES ASSUME CertificateInd, ProbeStep PROVE CertificateInd'
    OBVIOUS
  <1>1. /\ stage = "probe" /\ dropped # 0 /\ R!Next /\ UNCHANGED <<search, bracket, proof>>
        /\ UNCHANGED <<prog, cut>> /\ pc' # "idle"
    BY ReachFrame DEF ProbeStep
  <1>2. UNCHANGED <<levels, pair, side, stage, report, probes, dropped, trees, safety, voided, error>>
    BY <1>1 DEF search, bracket, proof
  <1>3. BracketInv'
    BY <1>1, BracketFrame DEF CertificateInd
  <1>4. R!IndInv'
    BY <1>1, ReachGoesOn DEF CertificateInd, ProbeInv
  <1>5. ProbeInv'
    BY <1>1, <1>2, <1>4 DEF CertificateInd, ProbeInv, Probing, Decided
  <1>6. VerdictInv'
    BY <1>1, <1>2 DEF CertificateInd, VerdictInv, Decided
  <1> QED BY <1>3, <1>5, <1>6 DEF CertificateInd

\* A probe that derives a goal leaves its tree behind.
LEMMA ProbeDoneInd == CertificateInd /\ ProbeDone => CertificateInd'
  <1> SUFFICES ASSUME CertificateInd, ProbeDone PROVE CertificateInd'
    OBVIOUS
  <1> DEFINE tree == [control |-> dropped, insts |-> R!WitnessInstances]
  <1>1. /\ stage = "probe" /\ dropped # 0 /\ pc = "done" /\ dropped' = 0
        /\ UNCHANGED <<pvars, stage, report, probes, safety, voided, error>>
        /\ trees' = IF R!DerivableResult THEN trees \cup {tree} ELSE trees
    BY DEF ProbeDone
  <1>2. UNCHANGED <<prog, search, bracket, levels, pair, side>>
    BY <1>1 DEF pvars, vars, search, bracket
  <1>3. BracketInv' /\ BracketInv
    BY <1>2, BracketFrame DEF CertificateInd
  <1>4. /\ side = "end" /\ R!IndInv /\ cut = Mask(Without(levels, dropped))
        /\ dropped \in Raised(levels)
    BY <1>1 DEF CertificateInd, ProbeInv, Probing
  <1>5. prog = pair[2] /\ pair \in Pairs
    BY <1>3, <1>4 DEF BracketInv
  <1>6. R!DerivableResult <=> R!Derivable(pair[2], Mask(Without(levels, dropped)))
    BY <1>1, <1>4, <1>5, ReachAnswers
  <1>7. R!DerivableResult => IsTree(pair[2], R!WitnessInstances)
    BY <1>4, <1>5, ProbeTree
  <1>8. tree.control = dropped /\ tree.insts = R!WitnessInstances
    OBVIOUS
  <1> HIDE DEF tree
  <1>9. ProbeInv'
    <2>1. \A c \in Raised(levels) \ probes :
             \/ c = dropped
             \/ ~R!Derivable(pair[2], Mask(Without(levels, c)))
             \/ \E t \in trees : t.control = c
      BY <1>1 DEF CertificateInd, ProbeInv, Probing
    <2>2. \A t \in trees : /\ t.control \in Raised(levels)
                           /\ R!Derivable(pair[2], Mask(Without(levels, t.control)))
                           /\ IsTree(pair[2], t.insts)
      BY <1>1 DEF CertificateInd, ProbeInv, Probing
    <2>3. trees \subseteq trees' /\ \A t \in trees' : t \in trees \/ (t = tree /\ R!DerivableResult)
      BY <1>1
    <2>4. R!DerivableResult => tree \in trees'
      BY <1>1
    <2>5. \A t \in trees' : /\ t.control \in Raised(levels)
                            /\ R!Derivable(pair[2], Mask(Without(levels, t.control)))
                            /\ IsTree(pair[2], t.insts)
      BY <1>4, <1>6, <1>7, <1>8, <2>2, <2>3
    <2>6. \A c \in Raised(levels) \ probes :
             \/ ~R!Derivable(pair[2], Mask(Without(levels, c)))
             \/ \E t \in trees' : t.control = c
      BY <1>6, <1>8, <2>1, <2>3, <2>4
    <2>7. probes \subseteq Raised(levels)
      BY <1>1 DEF CertificateInd, ProbeInv, Probing
    <2> QED BY <1>1, <1>2, <1>4, <2>5, <2>6, <2>7 DEF ProbeInv, Probing, Decided
  <1>10. VerdictInv'
    BY <1>1 DEF CertificateInd, VerdictInv, Decided
  <1> QED BY <1>3, <1>9, <1>10 DEF CertificateInd

\* What decides the verdicts does not change once the probes are over.
LEMMA VerdictFrame ==
    ASSUME CertificateInd, Probing, stage' # "bracket", Decided' => probes = {} /\ dropped = 0,
           UNCHANGED <<pvars, report, probes, dropped, trees>>
    PROVE  /\ BracketInv' /\ ProbeInv'
           /\ Verdicts' = Verdicts /\ minimality' = minimality
           /\ lower' = lower /\ Flags' = Flags
           /\ \A s, m : (BuildError(s, m))' = BuildError(s, m)
  <1>1. UNCHANGED <<prog, search, bracket, levels, pair, side, lower, upstream, capHit, minimality, cut, pc>>
    BY DEF pvars, vars, search, bracket
  <1>2. UNCHANGED R!vars
    BY DEF pvars, vars, work, R!vars
  <1>3. BracketInv'
    BY <1>1, BracketFrame DEF CertificateInd
  <1>4. dropped # 0 => R!IndInv'
    BY <1>2, ReachGoesOn DEF CertificateInd, ProbeInv
  <1>5. ProbeInv'
    BY <1>1, <1>4 DEF CertificateInd, ProbeInv, Probing, Decided
  <1>6. Flags' = Flags
    BY <1>1 DEF Flags
  <1>7. Verdicts' = Verdicts
    BY <1>1, <1>6 DEF Verdicts, SafetyAt, DecideSafety, Suspected
  <1>8. \A s, m : (BuildError(s, m))' = BuildError(s, m)
    BY <1>1, <1>6 DEF BuildError, Suspected
  <1> QED BY <1>1, <1>3, <1>5, <1>6, <1>7, <1>8

\* The two decisions are made at the two cuts.
LEMMA DecideInd == CertificateInd /\ Decide => CertificateInd'
  <1> SUFFICES ASSUME CertificateInd, Decide PROVE CertificateInd'
    OBVIOUS
  <1>1. /\ stage = "probe" /\ stage' = "decided" /\ probes = {} /\ dropped = 0
        /\ UNCHANGED <<pvars, report, probes, dropped, trees, error>> /\ safety' = Verdicts
    BY DEF Decide, Verdicts
  <1>2. BracketInv' /\ ProbeInv' /\ Verdicts' = Verdicts
    BY <1>1, VerdictFrame DEF Probing, Decided
  <1>3. VerdictInv'
    BY <1>1, <1>2 DEF CertificateInd, VerdictInv, Decided
  <1> QED BY <1>2, <1>3 DEF CertificateInd

\* A verdict is sealed, or S10 ends with the code it was refused with.
LEMMA BuildInd == CertificateInd /\ (BuildMax \/ BuildMin) => CertificateInd'
  <1> SUFFICES ASSUME CertificateInd, BuildMax \/ BuildMin PROVE CertificateInd'
    OBVIOUS
  <1>1. /\ stage \in {"decided", "sealed_max"}
        /\ stage' \in {"sealed_max", "sealed", "aborted"}
        /\ stage' = "aborted" <=> error' # "NONE"
        /\ UNCHANGED <<pvars, report, probes, dropped, trees, safety, voided>>
    BY DEF BuildMax, BuildMin, BuildVerdict
  <1>2. \/ /\ stage = "decided" /\ error' = BuildError(safety.max, minimality)
           /\ stage' # "sealed"
        \/ /\ stage = "sealed_max" /\ error' = BuildError(safety.min, lower.minimality)
    BY DEF BuildMax, BuildMin, BuildVerdict
  <1>3. /\ BracketInv' /\ ProbeInv' /\ Verdicts' = Verdicts /\ minimality' = minimality
        /\ lower' = lower /\ \A s, m : (BuildError(s, m))' = BuildError(s, m)
    BY <1>1, VerdictFrame DEF CertificateInd, ProbeInv, Probing, Decided
  <1>4. VerdictInv'
    BY <1>1, <1>2, <1>3 DEF CertificateInd, VerdictInv, Decided
  <1> QED BY <1>3, <1>4 DEF CertificateInd

\* Emitting and checking change the stage only.
LEMMA EmitInd == CertificateInd /\ (Emit \/ Verify) => CertificateInd'
  <1> SUFFICES ASSUME CertificateInd, Emit \/ Verify PROVE CertificateInd'
    OBVIOUS
  <1>1. /\ stage \in {"sealed", "emitted"} /\ stage' \in {"emitted", "accepted"}
        /\ UNCHANGED <<pvars, report, probes, dropped, trees, safety, voided, error>>
    BY DEF Emit, Verify
  <1>2. /\ BracketInv' /\ ProbeInv' /\ Verdicts' = Verdicts /\ minimality' = minimality
        /\ lower' = lower /\ \A s, m : (BuildError(s, m))' = BuildError(s, m)
    BY <1>1, VerdictFrame DEF CertificateInd, ProbeInv, Probing, Decided
  <1>3. VerdictInv'
    BY <1>1, <1>2 DEF CertificateInd, VerdictInv, Decided
  <1> QED BY <1>2, <1>3 DEF CertificateInd

\* Every step of S10 keeps the invariant.
LEMMA CertificateStep == CertificateInd /\ [CNext]_cvars => CertificateInd'
  <1> SUFFICES ASSUME CertificateInd, [CNext]_cvars PROVE CertificateInd'
    OBVIOUS
  <1>1. CASE UNCHANGED cvars
    <2>1. UNCHANGED <<pvars, stage, report, probes, dropped, trees, safety, voided, error>>
      BY <1>1 DEF cvars, proof
    <2>2. CASE stage = "bracket"
      BY <2>1, <2>2, InBracket DEF proof
    <2>3. CASE stage # "bracket"
      <3>1. /\ BracketInv' /\ ProbeInv' /\ Verdicts' = Verdicts /\ minimality' = minimality
            /\ lower' = lower /\ \A s, m : (BuildError(s, m))' = BuildError(s, m)
        BY <2>1, <2>3, VerdictFrame DEF CertificateInd, ProbeInv, Probing, Decided
      <3>2. VerdictInv'
        BY <2>1, <3>1 DEF CertificateInd, VerdictInv, Decided
      <3> QED BY <3>1, <3>2 DEF CertificateInd
    <2> QED BY <2>2, <2>3
  <1>2. CASE Bracket
    BY <1>2, InBracket DEF Bracket
  <1> QED BY <1>1, <1>2, BracketDoneInd, ProbeCallInd, ProbeStepInd, ProbeDoneInd, DecideInd,
             BuildInd, EmitInd DEF CNext

\* The invariant of S10 holds in every reachable state.
LEMMA CertificateInductive == CSpec => []CertificateInd
  BY CertificateStarts, CertificateStep, PTL DEF CSpec

-----------------------------------------------------------------------------
(* What the invariant says. *)

\* The certificate is about the search over P_max, which has finished.
LEMMA AboutUpper ==
    ASSUME CertificateInd, Probing
    PROVE  /\ pair \in Pairs /\ pair[2] \in Programs /\ side = "end"
           /\ Finished(pair[1], lower) /\ Finished(pair[2], Result)
           /\ Result.levels = levels /\ Result.clauses = clauses /\ Result.severs = severs
           /\ Result.minimality = minimality /\ Result.complete = complete
           /\ Result.capHit = capHit /\ Result.exhausted = exhausted
           /\ levels \in LevelVectors
  <1>1. /\ pair \in Pairs /\ side = "end" /\ Finished(pair[1], lower) /\ Finished(pair[2], Result)
    BY DEF CertificateInd, ProbeInv, BracketInv
  <1>2. /\ Result.levels = levels /\ Result.clauses = clauses /\ Result.severs = severs
        /\ Result.minimality = minimality /\ Result.complete = complete
        /\ Result.capHit = capHit /\ Result.exhausted = exhausted
    BY DEF Result
  <1>3. levels \in LevelVectors
    BY <1>1, <1>2, FinishedCut
  <1> QED BY <1>1, <1>2, <1>3, PairsAssumption

\* ROBUST is decided only where P_max derives nothing.
LEMMA RobustMeans == CertificateInd => RobustInEveryWorld
  <1> SUFFICES ASSUME CertificateInd, stage \in {"sealed", "emitted", "accepted"},
                      safety.max = "ROBUST", NEW unseen \in SUBSET (pair[2].insts \ pair[1].insts)
               PROVE  ~R!Derivable([pair[2] EXCEPT !.insts = pair[1].insts \cup unseen], Mask(levels))
    BY DEF RobustInEveryWorld
  <1>1. SafetyAt(levels) = "ROBUST"
    BY DEF CertificateInd, VerdictInv, Decided, Verdicts
  <1>2. ~R!Derivable(pair[2], Mask(levels))
    BY <1>1 DEF SafetyAt, DecideSafety
  <1>3. pair \in Pairs /\ pair[2] \in R!ProgramRecord
    BY AboutUpper, SearchedProgramsAssumption DEF Probing
  <1> DEFINE world == [pair[2] EXCEPT !.insts = pair[1].insts \cup unseen]
  <1>4. /\ world.insts \subseteq pair[2].insts /\ world.axioms = pair[2].axioms
        /\ world.goals = pair[2].goals
    BY <1>3, PairsAssumption DEF R!ProgramRecord
  <1> HIDE DEF world
  <1>5. ~R!Derivable(world, Mask(levels))
    BY <1>2, <1>4, DerivableInPart
  <1> QED BY <1>5 DEF world

\* Every raised control has its witness.
LEMMA AllWitnessed == CertificateInd => EveryControlIsWitnessed
  <1> SUFFICES ASSUME CertificateInd, stage \in {"sealed", "emitted", "accepted"}
               PROVE  {t.control : t \in trees} = Raised(levels)
    BY DEF EveryControlIsWitnessed
  <1>1. /\ probes = {} /\ dropped = 0
        /\ \A t \in trees : t.control \in Raised(levels)
        /\ \A c \in Raised(levels) : \/ c = 0
                                     \/ ~R!Derivable(pair[2], Mask(Without(levels, c)))
                                     \/ \E t \in trees : t.control = c
    BY DEF CertificateInd, ProbeInv, Probing, Decided
  <1>2. \A c \in Raised(levels) : c # 0 /\ R!Derivable(pair[2], Mask(Without(levels, c)))
    BY AboutUpper, DroppedDerives DEF Probing, Raised, Control
  <1> QED BY <1>1, <1>2

\* A refusal is one of the two kinds.
LEMMA RefusalIs == CertificateInd => RefusesOnlyUnsafeAndOneSidedCap
  <1> SUFFICES ASSUME CertificateInd, stage = "aborted" PROVE RefusesOnlyUnsafeAndOneSidedCap
    BY DEF CertificateInd, VerdictInv, RefusesOnlyUnsafeAndOneSidedCap
  <1>1. /\ Finished(pair[1], lower) /\ Finished(pair[2], Result)
        /\ Result.minimality = minimality /\ Result.capHit = capHit
    BY AboutUpper DEF Probing
  <1>2. /\ {lower.capHit, capHit} \subseteq BOOLEAN
        /\ minimality = "EXACT_PSI_RELATIVE" => ~capHit
        /\ lower.minimality = "EXACT_PSI_RELATIVE" => ~lower.capHit
    BY <1>1 DEF Finished
  <1>3. /\ safety.max = SafetyAt(levels) /\ safety.min = SafetyAt(lower.levels)
        /\ error \in {BuildError(safety.max, minimality), BuildError(safety.min, lower.minimality)}
    BY DEF CertificateInd, VerdictInv, Decided, Verdicts
  <1>4. \A lv : SafetyAt(lv) = "ROBUST" => ~(Suspected # {} \/ Flags \cap SoundnessFlags # {})
    BY DEF SafetyAt, DecideSafety
  <1>5. Flags \cap MinimalityCapFlags # {} => lower.capHit \/ capHit
    BY DEF Flags, MinimalityCapFlags
  <1>6. ASSUME NEW s, NEW m, s = "ROBUST" => ~(Suspected # {} \/ Flags \cap SoundnessFlags # {})
        PROVE  /\ BuildError(s, m) \in {"NONE", "VRD-002", "VRD-004"}
               /\ BuildError(s, m) = "VRD-002" => s = "UNSAFE"
               /\ BuildError(s, m) = "VRD-004" =>
                     m = "EXACT_PSI_RELATIVE" /\ (lower.capHit \/ capHit)
    BY <1>5, <1>6 DEF BuildError
  <1>7. ASSUME NEW s \in {safety.max, safety.min}, NEW m \in {minimality, lower.minimality},
               error = BuildError(s, m)
        PROVE  RefusesOnlyUnsafeAndOneSidedCap
    <2>1. s = "ROBUST" => ~(Suspected # {} \/ Flags \cap SoundnessFlags # {})
      BY <1>3, <1>4
    <2>2. /\ error \in {"NONE", "VRD-002", "VRD-004"}
          /\ error = "VRD-002" => s = "UNSAFE"
          /\ error = "VRD-004" => m = "EXACT_PSI_RELATIVE" /\ (lower.capHit \/ capHit)
      BY <1>6, <1>7, <2>1
    <2>3. error = "VRD-004" => lower.capHit # capHit
      BY <1>2, <2>2
    <2> QED BY <2>2, <2>3 DEF RefusesOnlyUnsafeAndOneSidedCap
  <1> QED BY <1>3, <1>7

-----------------------------------------------------------------------------
(* The body passes the checks of build_body. *)

\* What the sealed verdict and the published premium say of the flags.
LEMMA SealedFlags ==
    ASSUME CertificateInd, stage \in {"sealed", "emitted"}
    PROVE  /\ safety.max \in {"ROBUST", "OPTIMISTIC_ONLY", "INDETERMINATE"}
           /\ safety.max = "ROBUST" => Suspected = {} /\ Flags \cap SoundnessFlags = {}
           /\ minimality \in {"EXACT_PSI_RELATIVE", "SUBSET", "UNVERIFIED"}
           /\ minimality = "EXACT_PSI_RELATIVE" => Flags \cap MinimalityCapFlags = {}
           /\ outcome.published =>
                 /\ outcome.reason = "NONE" /\ outcome.b = outcome.nec \ outcome.occ
                 /\ complete /\ lower.complete /\ ~(lower.exhausted \/ exhausted)
                 /\ Flags \cap {"grounding_capped", "corridor_cap"} = {}
           /\ outcome.published \in BOOLEAN
           /\ ~outcome.published => outcome.reason # "NONE"
  <1>1. /\ safety.max = SafetyAt(levels) /\ BuildError(safety.max, minimality) = "NONE"
    BY DEF CertificateInd, VerdictInv, Decided, Verdicts
  <1>2. SafetyAt(levels) \in {"ROBUST", "UNSAFE", "OPTIMISTIC_ONLY", "INDETERMINATE"}
    BY DEF SafetyAt, DecideSafety
  <1>3. /\ safety.max # "UNSAFE"
        /\ safety.max = "ROBUST" => Suspected = {} /\ Flags \cap SoundnessFlags = {}
        /\ minimality = "EXACT_PSI_RELATIVE" => Flags \cap MinimalityCapFlags = {}
    BY <1>1 DEF BuildError
  <1>4. minimality \in {"EXACT_PSI_RELATIVE", "SUBSET", "UNVERIFIED"}
    BY AboutUpper DEF Probing, Finished
  <1>5. BracketInv /\ side = "end"
    BY AboutUpper DEF CertificateInd, Probing
  <1>6. /\ outcome.published \in BOOLEAN
        /\ ~outcome.published => outcome.reason # "NONE"
    <2>1. CASE outcome.reason # "NONE" /\ outcome = Suppressed(outcome.reason)
      <3>1. Suppressed(outcome.reason).published = FALSE
        BY DEF Suppressed
      <3>2. outcome.published = FALSE
        BY <2>1, <3>1
      <3> QED BY <2>1, <3>2
    <2>2. CASE outcome = [published |-> TRUE, reason |-> "NONE",
                          nec |-> Necessary(clauses), occ |-> Occurring(lower.clauses),
                          b |-> Necessary(clauses) \ Occurring(lower.clauses)]
      <3>1. outcome.published = TRUE
        BY <2>2
      <3> QED BY <3>1
    <2> QED BY <1>5, <2>1, <2>2 DEF BracketInv
  <1>7. ASSUME outcome.published
        PROVE  /\ outcome.reason = "NONE" /\ outcome.b = outcome.nec \ outcome.occ
               /\ complete /\ lower.complete /\ ~(lower.exhausted \/ exhausted)
               /\ Flags \cap {"grounding_capped", "corridor_cap"} = {}
    <2>1. /\ ~upstream.groundingCapped /\ complete /\ lower.complete
          /\ outcome.reason = "NONE" /\ outcome.b = outcome.nec \ outcome.occ
      BY <1>5, <1>7, PublishedIs
    <2>2. ~lower.capHit /\ ~lower.exhausted /\ ~capHit /\ ~exhausted
      BY <1>5, <1>7, NotCutShort DEF NoPremiumFromACutShortSearch
    <2>3. "grounding_capped" \notin Flags /\ "corridor_cap" \notin Flags
      BY <2>1, <2>2 DEF Flags
    <2> QED BY <2>1, <2>2, <2>3
  <1> QED BY <1>1, <1>2, <1>3, <1>4, <1>6, <1>7

\* The trees of the certificate.
LEMMA CertifiedTrees ==
    ASSUME CertificateInd, Probing, NEW t \in trees
    PROVE  /\ t.control \in Raised(levels)
           /\ R!Derivable(pair[2], Mask(Without(levels, t.control)))
           /\ IsTree(pair[2], t.insts)
  BY DEF CertificateInd, ProbeInv

\* build_body refuses nothing S10 hands it.
LEMMA SealedBuilds ==
    ASSUME CertificateInd, stage \in {"sealed", "emitted"}
    PROVE  BodyAccepts(Body)
  <1> DEFINE derived == pair[2].goals \cap UpperClosure
             b == Body
  <1>1. /\ b.insts = pair[2].insts /\ b.trees = trees /\ b.derivable = derived
        /\ b.severed = pair[2].goals \ derived /\ b.hasU = (derived = {}) /\ b.u = UpperClosure
        /\ b.clauses = clauses /\ b.cut = Mask(levels) /\ b.premium = outcome
        /\ b.complete = complete /\ b.exhausted = (lower.exhausted \/ exhausted)
        /\ b.flags = Flags
    BY DEF Body
  <1> HIDE DEF b
  <1>2. Probing
    BY DEF Probing
  <1>3. \A t \in trees : IsTree(pair[2], t.insts)
    BY <1>2, CertifiedTrees
  <1>4. \A k \in clauses : k \cap Mask(levels) # {}
    <2>1. ~Misses(clauses, levels)
      BY <1>2, AboutUpper, FinishedCut
    <2> QED BY <2>1 DEF Misses
  <1>5. /\ outcome.published # (outcome.reason # "NONE")
        /\ outcome.published =>
              /\ complete /\ lower.complete /\ ~(lower.exhausted \/ exhausted)
              /\ Flags \cap {"grounding_capped", "corridor_cap"} = {}
    BY SealedFlags
  <1>6. \A t \in b.trees :
          /\ t.insts \subseteq b.insts
          /\ \A S \in SUBSET t.insts :
                S # {} => \E i \in S : \A j \in S : j.head \notin R!BodySet(i)
    BY <1>1, <1>3 DEF IsTree
  <1>7. (b.hasU <=> b.derivable = {}) /\ (b.hasU => b.severed \cap b.u = {})
    BY <1>1
  <1>8. BodyAccepts(b)
    BY <1>1, <1>4, <1>5, <1>6, <1>7 DEF BodyAccepts
  <1> QED BY <1>8 DEF b

-----------------------------------------------------------------------------
(* The checker accepts it. *)

\* The checker's own notions are those of the search and of the programs.
LEMMA SameNotions ==
    /\ O!Control = Control /\ O!Literal = Literal
    /\ O!SoundnessFlags = SoundnessFlags /\ O!MinimalityCapFlags = MinimalityCapFlags
    /\ \A i : O!G!BodySet(i) = R!BodySet(i)
    /\ \A i, c, S : O!G!Enabled(i, c, S) <=> R!Enabled(i, c, S)
    /\ \A S : O!Cardinality(S) = Cardinality(S)
  <1>1. \A i : O!G!BodySet(i) = R!BodySet(i)
    BY DEF O!G!BodySet, R!BodySet, O!G!Elems, R!Elems
  <1>2. \A i, c, S : O!G!Enabled(i, c, S) <=> R!Enabled(i, c, S)
    BY <1>1 DEF O!G!Enabled, R!Enabled, O!G!Blocked, R!Blocked
  <1>3. \A S : O!Cardinality(S) = Cardinality(S)
    BY DEF O!Cardinality, Cardinality, O!IsFiniteSet, IsFiniteSet
  <1> QED BY <1>1, <1>2, <1>3
       DEF O!Control, Control, O!Literal, Literal, O!SoundnessFlags, SoundnessFlags,
           O!MinimalityCapFlags, MinimalityCapFlags

\* The axioms the checker reads off the instances are axioms.
LEMMA CheckerAxioms ==
    ASSUME NEW pr \in Pairs
    PROVE  O!AxiomsOf(pr[2].insts) \subseteq R!Elems(pr[2].axioms)
  <1> DEFINE insts == pr[2].insts
             axioms == R!Elems(pr[2].axioms)
  <1>1. \A i \in insts : R!BodySet(i) \subseteq axioms \cup {j.head : j \in insts}
    BY GroundedAssumption
  <1>2. O!AxiomsOf(insts) = (UNION {R!BodySet(i) : i \in insts}) \ {i.head : i \in insts}
    BY SameNotions DEF O!AxiomsOf
  <1> QED BY <1>1, <1>2

\* What S10 finds derivable the checker finds derivable, though it starts from
\* fewer axioms: an axiom that heads an instance is derived by it.
LEMMA CheckerReaches ==
    ASSUME NEW pr \in Pairs, NEW c, R!Derivable(pr[2], c)
    PROVE  O!Reaches(pr[2].insts, c, pr[2].goals)
  <1> DEFINE insts == pr[2].insts
             axioms == R!Elems(pr[2].axioms)
             heads == {i.head : i \in insts}
  <1>0. pr[2] \in R!ProgramRecord
    BY PairsAssumption, SearchedProgramsAssumption
  <1> SUFFICES ASSUME NEW S \in SUBSET (Fact \ pr[2].goals), O!ClosedSet(insts, c, S) PROVE FALSE
    BY DEF O!Reaches
  <1>1. /\ \A i \in insts : R!BodySet(i) \subseteq axioms \cup heads
        /\ \A i \in insts : i.head \in axioms => i.body = <<>> /\ i.blockers = {}
        /\ pr[2].goals \cap axioms \subseteq heads
    BY GroundedAssumption
  <1>2. \A f : f \in O!AxiomsOf(insts) <=> (\E i \in insts : f \in R!BodySet(i)) /\ f \notin heads
    <2> DEFINE bodies == UNION {O!G!BodySet(i) : i \in insts}
    <2>1. O!AxiomsOf(insts) = bodies \ heads
      BY DEF O!AxiomsOf
    <2>2. \A f : f \in bodies <=> \E i \in insts : f \in R!BodySet(i)
      BY SameNotions
    <2> HIDE DEF bodies, heads
    <2> QED BY <2>1, <2>2
  <1>3. /\ O!AxiomsOf(insts) \subseteq S
        /\ \A i \in insts : R!Enabled(i, c, S) => i.head \in S
    BY SameNotions DEF O!ClosedSet
  <1>4. \A i \in insts : i.head \in axioms => i.head \in S
    <2> SUFFICES ASSUME NEW i \in insts, i.head \in axioms PROVE i.head \in S
      OBVIOUS
    <2>1. i.body = <<>> /\ i.blockers = {}
      BY <1>1
    <2>2. R!Enabled(i, c, S)
      BY <2>1 DEF R!Enabled, R!Blocked, R!BodySet, R!Elems
    <2> QED BY <1>3, <2>2
  <1> DEFINE T == S \cup (axioms \cap Fact)
  <1>5. axioms \subseteq Fact
    BY <1>0 DEF R!ProgramRecord, R!Elems
  <1>6. T \in SUBSET (Fact \ pr[2].goals)
    <2> SUFFICES ASSUME NEW g \in pr[2].goals, g \in axioms PROVE g \in S
      OBVIOUS
    <2>1. PICK i \in insts : i.head = g
      BY <1>1
    <2> QED BY <1>4, <2>1
  <1>7. ASSUME NEW i \in insts, R!Enabled(i, c, T) PROVE R!Enabled(i, c, S)
    <2>1. ~R!Blocked(i, c) /\ R!BodySet(i) \subseteq T
      BY <1>7 DEF R!Enabled
    <2>2. ASSUME NEW f \in R!BodySet(i), f \in axioms PROVE f \in S
      <3>1. CASE f \in heads
        BY <1>4, <2>2, <3>1
      <3>2. CASE f \notin heads
        BY <1>2, <1>3, <3>2
      <3> QED BY <3>1, <3>2
    <2>3. R!BodySet(i) \subseteq S
      BY <2>1, <2>2
    <2> QED BY <2>1, <2>3 DEF R!Enabled
  <1>8. R!Closed(pr[2], c, T)
    BY <1>3, <1>5, <1>7 DEF R!Closed
  <1> QED BY <1>6, <1>8 DEF R!Derivable

\* A cut is closed downwards, its controls are the raised ones, and its top
\* literal of a control above level one is missed by a clause when taken out.
LEMMA CutObligations ==
    ASSUME NEW lv \in LevelVectors
    PROVE  /\ \A a \in Mask(lv) : \A l \in 1..a[2] : <<a[1], l>> \in Mask(lv)
           /\ O!Controls(Mask(lv)) = Raised(lv)
           /\ \A a \in Mask(lv) :
                 <<a[1], a[2] + 1>> \notin Mask(lv) =>
                     a[1] \in Raised(lv) /\ Mask(lv) \ {a} = Mask(OneDown(lv, a[1]))
  <1>1. /\ lv \in [Control -> Nat] /\ \A d \in Control : lv[d] <= MaxLevel[d]
        /\ \A d \in Control : MaxLevel[d] \in Nat \ {0}
    BY LevelVectorIs, CatalogAssumption
  <1>2. \A a \in Mask(lv) : \E c \in Control : \E l \in 1..lv[c] : a = <<c, l>>
    <2> SUFFICES ASSUME NEW a \in Mask(lv) PROVE \E c \in Control : \E l \in 1..lv[c] : a = <<c, l>>
      OBVIOUS
    <2>1. PICK c, l : c \in Control /\ l \in 1..MaxLevel[c] /\ a = <<c, l>>
      BY LiteralIs DEF Mask
    <2>2. l <= lv[c] /\ l \in 1..lv[c]
      BY <1>1, <2>1, MaskIs
    <2> QED BY <2>1, <2>2
  <1>3. ASSUME NEW c \in Control, NEW l \in 1..lv[c]
        PROVE  <<c, l>> \in Mask(lv) /\ l \in 1..MaxLevel[c] /\ l \in Nat /\ lv[c] \in Nat
    BY <1>1, MaskIs
  <1>4. ASSUME NEW a \in Mask(lv), NEW l \in 1..a[2] PROVE <<a[1], l>> \in Mask(lv)
    <2>1. PICK c, m : c \in Control /\ m \in 1..lv[c] /\ a = <<c, m>>
      BY <1>2
    <2>2. l \in 1..lv[c] /\ a[1] = c
      BY <1>1, <2>1
    <2> QED BY <1>3, <2>1, <2>2
  <1>5. ASSUME NEW c PROVE c \in O!Controls(Mask(lv)) <=> c \in Raised(lv)
    <2>1. ASSUME c \in O!Controls(Mask(lv)) PROVE c \in Raised(lv)
      <3>1. PICK a \in Mask(lv) : c = a[1]
        BY <2>1 DEF O!Controls
      <3>2. PICK d, m : d \in Control /\ m \in 1..lv[d] /\ a = <<d, m>>
        BY <1>2
      <3> QED BY <1>1, <3>1, <3>2 DEF Raised
    <2>2. ASSUME c \in Raised(lv) PROVE c \in O!Controls(Mask(lv))
      <3>1. c \in Control /\ 1 \in 1..lv[c]
        BY <1>1, <2>2 DEF Raised
      <3>2. <<c, 1>> \in Mask(lv) /\ <<c, 1>>[1] = c
        BY <1>3, <3>1
      <3> QED BY <3>2 DEF O!Controls
    <2> QED BY <2>1, <2>2
  <1>6. ASSUME NEW a \in Mask(lv), <<a[1], a[2] + 1>> \notin Mask(lv)
        PROVE  a[1] \in Raised(lv) /\ Mask(lv) \ {a} = Mask(OneDown(lv, a[1]))
    <2>1. PICK c, m : c \in Control /\ m \in 1..lv[c] /\ a = <<c, m>>
      BY <1>2
    <2>2. a[1] = c /\ a[2] = m /\ m \in Nat /\ lv[c] \in Nat /\ c \in Raised(lv)
      BY <1>1, <2>1 DEF Raised
    <2>3. m = lv[c]
      <3> SUFFICES ASSUME m # lv[c] PROVE FALSE
        OBVIOUS
      <3>1. m + 1 \in 1..lv[c]
        BY <2>1, <2>2
      <3> QED BY <1>3, <1>6, <2>1, <2>2, <3>1
    <2> DEFINE low == OneDown(lv, c)
    <2>4. low[c] = lv[c] - 1 /\ \A d \in Control : d # c => low[d] = lv[d]
      BY <1>1, <2>1 DEF OneDown
    <2> HIDE DEF low
    <2>5. ASSUME NEW e PROVE e \in Mask(low) <=> e \in Mask(lv) /\ e # a
      <3> SUFFICES ASSUME e \in Literal PROVE e \in Mask(low) <=> e \in Mask(lv) /\ e # a
        BY DEF Mask
      <3>1. PICK d, l : d \in Control /\ l \in 1..MaxLevel[d] /\ e = <<d, l>>
        BY LiteralIs
      <3>2. (e \in Mask(low) <=> l <= low[d]) /\ (e \in Mask(lv) <=> l <= lv[d])
        BY <3>1, MaskIs
      <3>3. l \in Nat /\ lv[d] \in Nat
        BY <1>1, <3>1
      <3>4. e = a <=> d = c /\ l = lv[c]
        BY <2>1, <2>3, <3>1
      <3> QED BY <2>2, <2>4, <3>1, <3>2, <3>3, <3>4
    <2> QED BY <2>2, <2>5 DEF low
  <1> QED BY <1>4, <1>5, <1>6

\* The sets the checker tries are at most as many as it will try.
CatalogFits ==
    \A n \in 0..NControl : Cardinality({K \in SUBSET Control : Cardinality(K) = n}) <= CutCap

\* A set with fewer controls than the optimum leaves a clause unsatisfied.
LEMMA SmallerMisses ==
    ASSUME NEW cls, cls \subseteq SUBSET Literal, Feasible(cls, Control),
           NEW K \in SUBSET Control, Cardinality(K) < MinCardinality(cls, Control)
    PROVE  ~O!Satisfied(cls, O!Whole(K))
  <1> SUFFICES ASSUME O!Satisfied(cls, O!Whole(K)) PROVE FALSE
    OBVIOUS
  <1>1. ASSUME NEW k \in cls PROVE \E c \in K : \E m \in 1..MaxLevel[c] : <<c, m>> \in k
    <2>1. PICK a \in k : a \in Literal /\ a[1] \in K
      BY SameNotions DEF O!Satisfied, O!Whole
    <2>2. PICK c, l : c \in Control /\ l \in 1..MaxLevel[c] /\ a = <<c, l>>
      BY <2>1, LiteralIs
    <2> QED BY <2>1, <2>2
  <1>2. K \in Covers(cls, Control)
    BY <1>1, HitsAllMeans DEF Covers
  <1>3. MinCardinality(cls, Control) <= Cardinality(K)
    BY <1>2, MinCardinalityIs
  <1>4. MinCardinality(cls, Control) \in Nat /\ Cardinality(K) \in Nat
    BY MinCardinalityIs, ControlFinite, CatalogAssumption
  <1> QED BY <1>3, <1>4

\* Every obligation of the checker holds of a sealed body.
LEMMA SealedVerifies ==
    ASSUME CatalogFits, CertificateInd, stage \in {"sealed", "emitted"}
    PROVE  Verifies(Body)
  <1> DEFINE p == pair[2]
             derived == p.goals \cap UpperClosure
             b == Body
             best == MinCardinality(clauses, Control)
  <1>1. /\ b.insts = p.insts /\ b.trees = trees /\ b.derivable = derived
        /\ b.severed = p.goals \ derived /\ b.hasU = (derived = {}) /\ b.u = UpperClosure
        /\ b.clauses = clauses /\ b.cut = Mask(levels) /\ b.premium = outcome
        /\ b.complete = complete /\ b.exhausted = (lower.exhausted \/ exhausted)
        /\ b.flags = Flags /\ b.safety = safety.max /\ b.minimality = minimality
        /\ b.witnessClass = "NONE" /\ b.suspected = Suspected /\ b.sensitive = FALSE
        /\ b.disputed = Suspected
    BY DEF Body, Suspected
  <1> HIDE DEF b
  <1>2. Probing
    BY DEF Probing
  <1>3. /\ pair \in Pairs /\ p \in Programs /\ levels \in LevelVectors
        /\ Finished(p, Result) /\ Result.levels = levels /\ Result.clauses = clauses
        /\ Result.minimality = minimality
    BY <1>2, AboutUpper
  <1>4. /\ Feasible(clauses, Control)
        /\ ~Misses(clauses, levels)
        /\ \A c \in Raised(levels) : Misses(clauses, OneDown(levels, c))
        /\ minimality # "SUBSET" => Cardinality(Raised(levels)) = best
    BY <1>3, FinishedCut
  <1>5. clauses \subseteq SUBSET Literal
    BY <1>3 DEF Finished
  <1>6. O!O6_Cut(b)
    <2>1. \A a \in Mask(levels) : \A l \in 1..a[2] : <<a[1], l>> \in Mask(levels)
      BY <1>3, CutObligations
    <2>2. b.cut = Mask(levels)
      BY <1>1
    <2> QED BY <2>1, <2>2 DEF O!O6_Cut
  <1>7. O!O6b_Levels(b)
    <2> SUFFICES ASSUME NEW a \in Mask(levels), <<a[1], a[2] + 1>> \notin Mask(levels)
                 PROVE  ~O!Satisfied(clauses, Mask(levels) \ {a})
      BY <1>1 DEF O!O6b_Levels
    <2>1. a[1] \in Raised(levels) /\ Mask(levels) \ {a} = Mask(OneDown(levels, a[1]))
      BY <1>3, CutObligations
    <2>2. PICK k \in clauses : Mask(OneDown(levels, a[1])) \cap k = {}
      BY <1>4, <2>1 DEF Misses
    <2>3. k \cap (Mask(levels) \ {a}) = {}
      BY <2>1, <2>2
    <2> QED BY <2>3 DEF O!Satisfied
  <1>8. UpperClosure \in SUBSET Fact /\ R!Closed(p, Mask(levels), UpperClosure)
    <2>1. /\ RP!LeastModel(p, Mask(levels)) \in SUBSET Fact
          /\ RP!Closed(p, Mask(levels), RP!LeastModel(p, Mask(levels)))
      BY <1>3, ReachAssumptions, RP!LeastModelClosed
    <2>2. UpperClosure = RP!LeastModel(p, Mask(levels))
      BY SameMeaning DEF UpperClosure
    <2>3. \A q, c, S : R!Closed(q, c, S) <=> RP!Closed(q, c, S)
      BY DEF R!Closed, RP!Closed, R!Elems, RP!Elems, R!Enabled, RP!Enabled,
             R!Blocked, RP!Blocked, R!BodySet, RP!BodySet
    <2> QED BY <2>1, <2>2, <2>3
  <1>9. O!AxiomsOf(p.insts) \subseteq UpperClosure
    BY <1>3, <1>8, CheckerAxioms DEF R!Closed
  <1>10. O!O7_Invariant(b)
    BY <1>1, <1>9 DEF O!O7_Invariant
  <1>11. O!O8_Closure(b)
    <2>1. ASSUME NEW i \in p.insts, NEW term \in i.blockers PROVE O!Cardinality(term) = 1
      <3>1. R!BuildAccepts(p)
        BY <1>3, SearchedProgramsAssumption
      <3>2. R!Cardinality(term) = 1
        BY <3>1 DEF R!BuildAccepts
      <3> QED BY <3>2 DEF R!Cardinality, O!Cardinality, R!IsFiniteSet, O!IsFiniteSet
    <2>2. ASSUME NEW i \in p.insts, O!G!Enabled(i, Mask(levels), UpperClosure)
          PROVE  i.head \in UpperClosure
      BY <1>8, <2>2, SameNotions DEF R!Closed
    <2> QED BY <1>1, <2>1, <2>2 DEF O!O8_Closure
  <1>12. O!O9_Goals(b)
    BY <1>1 DEF O!O9_Goals
  <1>13. O!O12_Witnesses(b)
    <2> SUFFICES ASSUME NEW t \in trees
                 PROVE  /\ t.control \in O!Controls(b.cut)
                        /\ O!Reaches(b.insts, b.cut \ O!Whole({t.control}), O!Goals(b))
                        /\ O!WellFounded(b, t)
      BY <1>1 DEF O!O12_Witnesses
    <2>1. /\ t.control \in Raised(levels) /\ t.control \in Control
          /\ R!Derivable(p, Mask(Without(levels, t.control)))
          /\ IsTree(p, t.insts)
      BY <1>2, CertifiedTrees DEF Raised
    <2>2. t.control \in O!Controls(b.cut)
      BY <1>1, <1>3, <2>1, CutObligations
    <2>3. Mask(Without(levels, t.control)) = b.cut \ O!Whole({t.control})
      <3>1. Mask(Without(levels, t.control)) = {a \in Mask(levels) : a[1] # t.control}
        BY <1>3, <2>1, WithoutIs
      <3>2. O!Whole({t.control}) = {a \in Literal : a[1] = t.control}
        BY SameNotions DEF O!Whole
      <3> QED BY <1>1, <3>1, <3>2 DEF Mask
    <2>4. O!Goals(b) = p.goals
      BY <1>1 DEF O!Goals
    <2>5. O!Reaches(b.insts, b.cut \ O!Whole({t.control}), O!Goals(b))
      BY <1>1, <1>3, <2>1, <2>3, <2>4, CheckerReaches
    <2>6. O!WellFounded(b, t)
      BY <1>1, <2>1, SameNotions DEF O!WellFounded, IsTree
    <2> QED BY <2>2, <2>5, <2>6
  <1>14. O!O13_PsiHit(b)
    BY <1>1, <1>4 DEF O!O13_PsiHit, O!Satisfied, Misses
  <1>15. O!O13b_Premium(b)
    BY <1>1, SealedFlags DEF O!O13b_Premium
  <1>16. O!O14_Flags(b)
    <2>1. /\ b.safety \in {"ROBUST", "OPTIMISTIC_ONLY", "INDETERMINATE"}
          /\ b.safety = "ROBUST" => b.flags \cap O!SoundnessFlags = {}
          /\ b.minimality \in {"EXACT_PSI_RELATIVE", "SUBSET", "UNVERIFIED"}
          /\ b.minimality = "EXACT_PSI_RELATIVE" => b.flags \cap O!MinimalityCapFlags = {}
          /\ b.premium.published =>
                /\ {"grounding_capped", "corridor_cap"} \cap b.flags = {}
                /\ b.complete /\ ~b.exhausted
      BY <1>1, SealedFlags, SameNotions
    <2> QED BY <1>1, <2>1 DEF O!O14_Flags
  <1>17. O!O14b_Dispute(b)
    BY <1>1, SealedFlags DEF O!O14b_Dispute
  <1>18. O!O15_Minimality(b)
    <2> SUFFICES ASSUME minimality = "EXACT_PSI_RELATIVE", Mask(levels) # {}
                 PROVE  /\ O!Cardinality(O!Smaller(b)) <= CutCap
                        /\ \A K \in O!Smaller(b) : ~O!Satisfied(clauses, O!Whole(K))
      <3>1. minimality # "EXACT_EXHAUSTIVE"
        BY SealedFlags
      <3> QED BY <1>1, <3>1 DEF O!O15_Minimality
    <2> DEFINE n == Cardinality(Raised(levels))
    <2>1. n \in 0..NControl /\ n = best /\ NControl \in Nat
      BY <1>4, ControlFinite, CatalogAssumption DEF Raised
    <2>2. Raised(levels) # {}
      <3>1. PICK a \in Mask(levels) : TRUE
        OBVIOUS
      <3>2. PICK c, l : c \in Control /\ l \in 1..MaxLevel[c] /\ a = <<c, l>>
        BY LiteralIs DEF Mask
      <3>3. l <= levels[c] /\ levels[c] \in Nat /\ l \in Nat /\ l >= 1
        BY <1>3, <3>1, <3>2, MaskIs, LevelVectorIs, CatalogAssumption
      <3> QED BY <3>2, <3>3 DEF Raised
    <2>3. n # 0
      BY <2>2, ControlFinite, FS_EmptySet DEF Raised
    <2>4. O!Smaller(b) = {K \in SUBSET Control : Cardinality(K) = n - 1}
      <3>1. O!Controls(b.cut) = Raised(levels)
        BY <1>1, <1>3, CutObligations
      <3> QED BY <3>1, SameNotions DEF O!Smaller
    <2> HIDE DEF n
    <2>5. n - 1 \in 0..NControl /\ n - 1 < best
      BY <2>1, <2>3
    <2>6. O!Cardinality(O!Smaller(b)) <= CutCap
      BY <2>4, <2>5, SameNotions DEF CatalogFits
    <2>7. \A K \in O!Smaller(b) : ~O!Satisfied(clauses, O!Whole(K))
      BY <1>4, <1>5, <2>4, <2>5, SmallerMisses
    <2> QED BY <2>6, <2>7
  <1>19. Verifies(b)
    BY <1>6, <1>7, <1>10, <1>11, <1>12, <1>13, <1>14, <1>15, <1>16, <1>17, <1>18 DEF Verifies
  <1> QED BY <1>19 DEF b

-----------------------------------------------------------------------------
(* The theorems. *)

\* The premium is a fact about the two programs: its controls are in every
\* minimum cut of P_max and in none of P_min, NEC and OCC are every and some,
\* and no search that was cut short yields one.
THEOREM PremiumEarned == CSpec => []PremiumIsEarned
  <1>1. CertificateInd => PremiumIsEarned
    BY BracketEarns DEF CertificateInd
  <1> QED BY <1>1, CertificateInductive, PTL

\* ROBUST holds in every world the licences leave open.
THEOREM RobustEverywhere == CSpec => []RobustInEveryWorld
  BY RobustMeans, CertificateInductive, PTL

\* The certificate carries a derivation for every control it raises.
THEOREM ControlsWitnessed == CSpec => []EveryControlIsWitnessed
  BY AllWitnessed, CertificateInductive, PTL

\* S10 ends without a certificate for two reasons only.
THEOREM RefusalsExplained == CSpec => []RefusesOnlyUnsafeAndOneSidedCap
  BY RefusalIs, CertificateInductive, PTL

\* With a catalog the checker is ready to enumerate, whatever S10 seals passes
\* the checks of build_body, and whatever it emits the checker accepts.
THEOREM EmittedAccepted ==
    ASSUME CatalogFits
    PROVE  CSpec => []EmittedIsAccepted
  <1>1. CertificateInd => EmittedIsAccepted
    BY SealedBuilds, SealedVerifies DEF EmittedIsAccepted
  <1> QED BY <1>1, CertificateInductive, PTL
=============================================================================
