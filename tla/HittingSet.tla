----------------------------- MODULE HittingSet -----------------------------
(***************************************************************************)
(* The literal universe and the clause algebra of spectra_vs/cut.py.       *)
(*                                                                         *)
(* Controls are 1..NControl in canonical (byte) order; control c has the   *)
(* threshold literals <<c, 1>> .. <<c, MaxLevel[c]>>.  A cut is a level    *)
(* per control, 0 for a control left alone, and raises every literal up to *)
(* that level.  A clause (a corridor) is a set of literals and is hit when *)
(* the cut raises one of them.  Cardinality counts raised controls.  The   *)
(* database is a set: every decision of the code ranges over it as one.    *)
(***************************************************************************)
EXTENDS Naturals, Sequences, FiniteSets

CONSTANTS
    NControl,   \* number of controls of the catalog
    MaxLevel    \* top level of each control

Control == 1..NControl

ASSUME CatalogAssumption ==
    /\ NControl \in Nat
    /\ MaxLevel \in [Control -> Nat \ {0}]

\* AtomTable.literals.
Literal == UNION {{<<c, l>> : l \in 1..MaxLevel[c]} : c \in Control}

\* _admissible_level_vectors: one level in 0..MaxLevel[c] per control.
LevelVectors ==
    {lv \in [Control -> UNION {0..MaxLevel[c] : c \in Control}] :
        \A c \in Control : lv[c] <= MaxLevel[c]}

\* cut_of_levels, as the mask of the upward-closed cut.
Mask(lv) == {a \in Literal : a[2] <= lv[a[1]]}
Raised(lv) == {c \in Control : lv[c] >= 1}

-----------------------------------------------------------------------------
(* Hitting. *)

\* _control_hits: the clauses control c hits when raised to level l.
HitBy(clauses, c, l) == {k \in clauses : \E m \in 1..l : <<c, m>> \in k}

\* _hits_all over the chosen controls at their levels.
HitsAll(clauses, chosen, lv) ==
    clauses = UNION {HitBy(clauses, c, lv[c]) : c \in chosen}

\* The control sets within `allowed' that hit every clause at top level.
Covers(clauses, allowed) ==
    {K \in SUBSET allowed : HitsAll(clauses, K, MaxLevel)}

\* Mutant of MinCardinality: the bound is kept the wrong way.
LargestCardinality(clauses, allowed) ==
    CHOOSE n \in 0..NControl :
        /\ \E K \in Covers(clauses, allowed) : Cardinality(K) = n
        /\ \A K \in Covers(clauses, allowed) : n >= Cardinality(K)

\* min_cardinality: the optimum over control sets, or INFEASIBLE.
Feasible(clauses, allowed) == Covers(clauses, allowed) # {}
MinCardinality(clauses, allowed) ==
    CHOOSE n \in 0..NControl :
        /\ \E K \in Covers(clauses, allowed) : Cardinality(K) = n
        /\ \A K \in Covers(clauses, allowed) : n <= Cardinality(K)

\* _extendable: at most `cap' controls from index `start' on hit every clause.
Extendable(clauses, start, cap) ==
    \E K \in Covers(clauses, start..NControl) : Cardinality(K) <= cap

\* _level_minimal: no raised control can go one step down alone.
LevelMinimal(clauses, chosen, lv) ==
    \A c \in chosen :
        lv[c] > 1 => ~HitsAll(clauses, chosen, [lv EXCEPT ![c] = lv[c] - 1])

-----------------------------------------------------------------------------
(* canonical_select and _subset_minimal. *)

\* Where the loop `while level > 1 and still hit: lower' leaves control c.
LowestLevel(clauses, chosen, lv, c) ==
    CHOOSE l \in 1..lv[c] :
        /\ \A m \in l..lv[c] : HitsAll(clauses, chosen, [lv EXCEPT ![c] = m])
        /\ l = 1 \/ ~HitsAll(clauses, chosen, [lv EXCEPT ![c] = l - 1])

\* The chosen controls from their top level down, in ascending rank.
Lowered(clauses, chosen) ==
    LET Top == [c \in Control |-> IF c \in chosen THEN MaxLevel[c] ELSE 0]
        Pass[n \in 0..NControl] ==
            IF n = 0 THEN Top
            ELSE IF n \notin chosen THEN Pass[n - 1]
            ELSE [Pass[n - 1] EXCEPT ![n] = LowestLevel(clauses, chosen, Pass[n - 1], n)]
    IN Pass[NControl]

\* Phase one of canonical_select: in canonical order, take each control that
\* leaves the rest coverable within the controls still to spend.
GreedyControls(clauses, cardinality) ==
    LET Left(K) == {k \in clauses : k \notin UNION {HitBy(clauses, c, MaxLevel[c]) : c \in K}}
        Walk[n \in 0..NControl] ==
            IF n = 0 THEN {}
            ELSE LET taken == Walk[n - 1] IN
                 IF /\ Cardinality(taken) < cardinality
                    /\ Extendable(Left(taken \cup {n}), n + 1,
                                  cardinality - Cardinality(taken) - 1)
                 THEN taken \cup {n} ELSE taken
    IN Walk[NControl]

CanonicalSelect(clauses, cardinality) ==
    Lowered(clauses, GreedyControls(clauses, cardinality))

\* The checks canonical_select makes on its own result.
SelectAccepts(clauses, cardinality) ==
    LET K == GreedyControls(clauses, cardinality) IN
    /\ Cardinality(K) = cardinality
    /\ HitsAll(clauses, K, Lowered(clauses, K))
    /\ LevelMinimal(clauses, K, Lowered(clauses, K))

\* Mutant of SubsetControls: nothing is dropped.
AllControls(clauses) == Control

\* _subset_minimal: drop controls from the last to the first while every
\* clause stays hit, then lower what is left.
SubsetControls(clauses) ==
    LET Kept[n \in 1..(NControl + 1)] ==
            IF n = NControl + 1 THEN Control
            ELSE IF HitsAll(clauses, Kept[n + 1] \ {n}, MaxLevel)
                 THEN Kept[n + 1] \ {n} ELSE Kept[n + 1]
    IN Kept[1]

SubsetMinimal(clauses) == Lowered(clauses, SubsetControls(clauses))

-----------------------------------------------------------------------------
(* all_minimum_cuts: the reference the selection is specified against. *)

MinimumCuts(clauses) ==
    LET hitting == {lv \in LevelVectors :
                       /\ HitsAll(clauses, Raised(lv), lv)
                       /\ LevelMinimal(clauses, Raised(lv), lv)}
    IN {lv \in hitting :
           \A other \in hitting : Cardinality(Raised(lv)) <= Cardinality(Raised(other))}
=============================================================================
