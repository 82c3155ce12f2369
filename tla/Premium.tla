------------------------------ MODULE Premium ------------------------------
(***************************************************************************)
(* The two-sided bracket and the blindness premium of                      *)
(* spectra_vs/premium.py, as stage S10 runs them: the corridor loop over   *)
(* P_min, then over P_max, then NEC over the upper database and OCC over   *)
(* the lower one, unless a precondition suppresses the premium.            *)
(***************************************************************************)
EXTENDS CutSearch

CONSTANTS
    Pairs,      \* <<P_min, P_max>>; grounding makes the first a part of the second
    Upstream    \* the [groundingCapped, erAmbiguous] outcomes of the earlier stages

ASSUME PairsAssumption ==
    \A pr \in Pairs :
        /\ pr[1] \in Programs /\ pr[2] \in Programs
        /\ pr[1].insts \subseteq pr[2].insts
        /\ R!Elems(pr[1].axioms) \subseteq R!Elems(pr[2].axioms)
        /\ pr[1].goals = pr[2].goals

VARIABLES
    pair,       \* the two programs
    upstream,
    side,       \* "lower" | "upper" | "premium" | "end"
    lower,      \* the CutSearch of P_min, once there is one
    outcome     \* the PremiumResult

bracket == <<pair, upstream, side, lower, outcome>>
pvars == <<vars, bracket>>

NoResult ==
    [clauses |-> {}, levels |-> [c \in Control |-> 0], minimality |-> "NONE",
     severs |-> FALSE, complete |-> FALSE, capHit |-> FALSE, exhausted |-> FALSE]

\* The CutSearch record that enumerate_psi returns.
Result ==
    [clauses |-> clauses, levels |-> levels, minimality |-> minimality, severs |-> severs,
     complete |-> complete, capHit |-> capHit, exhausted |-> exhausted]

Suppressed(reason) == [published |-> FALSE, reason |-> reason, nec |-> {}, occ |-> {}, b |-> {}]
Pending == Suppressed("NONE")

PInit ==
    /\ pair \in Pairs
    /\ upstream \in Upstream
    /\ side = "lower"
    /\ lower = NoResult
    /\ outcome = Pending
    /\ Init
    /\ prog = pair[1]

\* One step of the corridor loop of the side that runs.
SearchStep == side \in {"lower", "upper"} /\ Next /\ UNCHANGED bracket

\* The lower search returned; the upper one starts from nothing but its program.
StartUpper ==
    /\ side = "lower"
    /\ phase = "done"
    /\ lower' = Result
    /\ side' = "upper"
    /\ prog' = pair[2]
    /\ cut' = {} /\ pc' = "idle"
    /\ queue' = <<>> /\ seen' = {} /\ order' = <<>> /\ steps' = 0
    /\ remaining' = [i \in pair[2].insts |-> 0] /\ pending' = {}
    /\ phase' = "solve" /\ clauses' = {} /\ levels' = [c \in Control |-> 0]
    /\ minimality' = "NONE" /\ severs' = FALSE
    /\ complete' = TRUE /\ capHit' = FALSE /\ exhausted' = FALSE
    /\ UNCHANGED <<pair, upstream, outcome>>

\* Mutant of Necessary: an optimum that stays the same counts as larger.
NecessaryOrEqual(db) ==
    {c \in Control :
        \/ ~Feasible(db, Control \ {c})
        \/ MinCardinality(db, Control \ {c}) >= MinCardinality(db, Control)}

\* necessary_controls: removing c makes the optimum larger, or there is none.
Necessary(db) ==
    {c \in Control :
        \/ ~Feasible(db, Control \ {c})
        \/ MinCardinality(db, Control \ {c}) > MinCardinality(db, Control)}

\* occurring_controls: some level of c pays for itself in an optimum.
Occurring(db) ==
    {c \in Control : \E l \in 1..MaxLevel[c] :
        LET kept == db \ HitBy(db, c, l) IN
        /\ Feasible(kept, Control \ {c})
        /\ 1 + MinCardinality(kept, Control \ {c}) = MinCardinality(db, Control)}

\* The preconditions with the reason each gives, in the order
\* blindness_premium tests them. A spent budget also clears psi.complete, so
\* it is reported under the first of the two names.
Reasons ==
    << [fails |-> upstream.groundingCapped,           reason |-> "grounding_capped"],
       [fails |-> ~lower.complete \/ ~complete,       reason |-> "corridor_cap"],
       [fails |-> lower.exhausted \/ exhausted,       reason |-> "solver_budget"],
       [fails |-> upstream.erAmbiguous,               reason |-> "er_ambiguous"] >>

Precondition ==
    LET failing == {k \in DOMAIN Reasons : Reasons[k].fails} IN
    IF failing = {} THEN "NONE"
    ELSE Reasons[CHOOSE k \in failing : \A j \in failing : k <= j].reason

Suppress ==
    /\ side = "upper"
    /\ phase = "done"
    /\ Precondition # "NONE"
    /\ outcome' = Suppressed(Precondition)
    /\ side' = "end"
    /\ UNCHANGED <<vars, pair, upstream, lower>>

\* A NEC or OCC solve spends what is left of the node budget.
PremiumBudgetOut ==
    /\ side = "upper"
    /\ phase = "done"
    /\ Precondition = "NONE"
    /\ outcome' = Suppressed("solver_budget")
    /\ side' = "end"
    /\ UNCHANGED <<vars, pair, upstream, lower>>

Publish ==
    /\ side = "upper"
    /\ phase = "done"
    /\ Precondition = "NONE"
    /\ outcome' = [published |-> TRUE, reason |-> "NONE",
                   nec |-> Necessary(clauses), occ |-> Occurring(lower.clauses),
                   b |-> Necessary(clauses) \ Occurring(lower.clauses)]
    /\ side' = "end"
    /\ UNCHANGED <<vars, pair, upstream, lower>>

PNext == SearchStep \/ StartUpper \/ Suppress \/ PremiumBudgetOut \/ Publish

PSpec == PInit /\ [][PNext]_pvars

-----------------------------------------------------------------------------
(* Properties. *)

SeveringOf(p) == {lv \in LevelVectors : ~R!Derivable(p, Mask(lv))}

\* The cuts of fewest controls that sever p, over the whole lattice.
MinimumSevering(p) ==
    LET works == SeveringOf(p) IN
    {lv \in works : \A other \in works : Cardinality(Raised(lv)) <= Cardinality(Raised(other))}

\* The premium means what it says about the programs and not only about the
\* clauses that were learned: a control of B is raised by every minimum cut
\* that severs P_max and by no minimum cut that severs P_min.
PremiumSound ==
    (side = "end" /\ outcome.b # {}) =>
        \A c \in outcome.b :
            /\ \A lv \in MinimumSevering(pair[2]) : c \in Raised(lv)
            /\ \A lv \in MinimumSevering(pair[1]) : c \notin Raised(lv)

\* NEC and OCC, computed from values of optimisation problems, are the
\* controls in every and in some minimum hitting set of their database.
NecOccAreEveryAndSome ==
    outcome.published =>
        LET best(db) == {K \in Covers(db, Control) :
                            Cardinality(K) = MinCardinality(db, Control)}
        IN /\ outcome.nec = {c \in Control : \A K \in best(clauses) : c \in K}
           /\ outcome.occ = UNION best(lower.clauses)

\* The bracket is a bracket: what severs P_max severs P_min, so the lower
\* optimum never exceeds the upper one.
BracketOrdered ==
    side = "end" =>
        /\ severs => levels \in SeveringOf(pair[1])
        /\ (lower.minimality = "EXACT_PSI_RELATIVE" /\ minimality = "EXACT_PSI_RELATIVE") =>
              Cardinality(Raised(lower.levels)) <= Cardinality(Raised(levels))

\* A search that stopped short on either side never yields a premium.
NoPremiumFromACutShortSearch ==
    outcome.published =>
        /\ ~upstream.groundingCapped /\ ~upstream.erAmbiguous
        /\ ~lower.capHit /\ ~lower.exhausted /\ ~capHit /\ ~exhausted

\* A published premium, the sets it is drawn from and the bracket it belongs
\* to are all facts about the two programs.
PremiumIsEarned ==
    PremiumSound /\ NecOccAreEveryAndSome /\ BracketOrdered /\ NoPremiumFromACutShortSearch
=============================================================================
