---------------------------- MODULE BranchBound ----------------------------
(***************************************************************************)
(* The solver behind CutSearch: `_bb`, `min_cardinality` and `_extendable` *)
(* of spectra_vs/cut.py, with the node budget, checked against the         *)
(* definitions of HittingSet that CutSearch uses in their place.           *)
(* The recursion is the depth-first search of the code, so this module is  *)
(* model-checked and not proved about.                                     *)
(***************************************************************************)
EXTENDS HittingSet, SequencesExt

CONSTANTS
    Databases,  \* the clause databases solved
    Budgets     \* the node budgets tried

VARIABLES
    clauses,    \* the database
    excluded,   \* excluded_controls
    budget,     \* node budget
    answer      \* [status, value, nodes], status "NONE" before the solve

vars == <<clauses, excluded, budget, answer>>

\* `best is None'.
None == NControl + 1

\* Mutant of CeilDiv: one too many when d divides n.
FloorDivPlusOne(n, d) == (n \div d) + 1

CeilDiv(n, d) == (n + d - 1) \div d

\* Depth-first search over controls in canonical order. `acc' threads the
\* best cardinality found and the nodes spent (_NodeBox); a spent budget
\* unwinds the whole search, as the exception does.
RECURSIVE BB(_, _, _, _, _)
BB(unhit, allowed, chosen, acc, limit) ==
    LET now == [acc EXCEPT !.used = @ + 1]
        width(c) == Cardinality(HitBy(unhit, c, MaxLevel[c]))
        widest == Max({0} \cup {width(c) : c \in allowed})
        Branch(a, c) ==
            IF a.used > limit \/ width(c) = 0 THEN a
            ELSE BB(unhit \ HitBy(unhit, c, MaxLevel[c]), {d \in allowed : d > c},
                    chosen + 1, a, limit)
    IN IF now.used > limit THEN now
       ELSE IF unhit = {} THEN [now EXCEPT !.best = IF chosen < @ THEN chosen ELSE @]
       ELSE IF widest = 0 THEN now
       ELSE IF /\ now.best # None
               /\ chosen + CeilDiv(Cardinality(unhit), widest) >= now.best THEN now
       ELSE FoldLeft(Branch, now, SetToSortSeq(allowed, <))

\* min_cardinality.
Solved(db, allowed, limit) ==
    LET end == BB(db, allowed, 0, [best |-> None, used |-> 0], limit) IN
    IF limit = 0 THEN [status |-> "BUDGET_EXHAUSTED", value |-> None, nodes |-> 0]
    ELSE IF end.used > limit
         THEN [status |-> "BUDGET_EXHAUSTED", value |-> None, nodes |-> end.used]
    ELSE IF end.best = None
         THEN [status |-> "INFEASIBLE", value |-> None, nodes |-> end.used]
    ELSE [status |-> "EXACT", value |-> end.best, nodes |-> end.used]

\* _extendable: a solve that starts from the bound cap + 1.
SolverExtends(db, start, cap, limit) ==
    BB(db, start..NControl, 0, [best |-> cap + 1, used |-> 0], limit).best <= cap

Init ==
    /\ clauses \in Databases
    /\ excluded \in SUBSET Control
    /\ budget \in Budgets
    /\ answer = [status |-> "NONE", value |-> None, nodes |-> 0]

Solve ==
    /\ answer.status = "NONE"
    /\ answer' = Solved(clauses, Control \ excluded, budget)
    /\ UNCHANGED <<clauses, excluded, budget>>

Next == Solve

Spec == Init /\ [][Next]_vars

-----------------------------------------------------------------------------
(* Properties. *)

\* An EXACT answer is the optimum whatever the bound pruned, and INFEASIBLE
\* is said only of a database no allowed control set hits.
SolverAgrees ==
    LET allowed == Control \ excluded IN
    /\ answer.status = "EXACT" =>
          /\ Feasible(clauses, allowed)
          /\ answer.value = MinCardinality(clauses, allowed)
    /\ answer.status = "INFEASIBLE" => ~Feasible(clauses, allowed)

\* The node count is a function of the instance alone: the search never
\* spends more than one node past its budget, and an answer found within
\* the budget is the answer any larger budget gives.
BudgetMonotone ==
    answer.status # "NONE" =>
        /\ answer.nodes <= budget + 1
        /\ answer.status # "BUDGET_EXHAUSTED" =>
              \A more \in Budgets :
                  more >= budget => Solved(clauses, Control \ excluded, more) = answer

\* The feasibility test of canonical_select, a search seeded with the bound
\* it must beat, prunes no cover it was asked about: the database is rebuilt
\* from a fresh bound for each start and cap.
ExtensionAgrees ==
    (answer.status = "EXACT" /\ excluded = {}) =>
        \A start \in 1..(NControl + 1), cap \in 0..(NControl - 1) :
            SolverExtends(clauses, start, cap, 1000) <=> Extendable(clauses, start, cap)

\* The solver is its specification, bound, budget and seeded start included.
SolverIsExact == SolverAgrees /\ BudgetMonotone /\ ExtensionAgrees
=============================================================================
