----------------------------- MODULE CutSearch -----------------------------
(***************************************************************************)
(* `enumerate_psi` of spectra_vs/cut.py: the corridor loop over one        *)
(* program.  Select a minimum cut of the clauses learned so far, run the   *)
(* reachability fixpoint under it (module Reach, step by step), and learn  *)
(* the corridor of the derivation that survives, until nothing survives,   *)
(* a derivation cannot be blocked at all, the corridor cap is reached, or  *)
(* the node budget is spent.                                               *)
(***************************************************************************)
EXTENDS HittingSet

CONSTANTS
    Fact,        \* as in GroundProgram
    Programs,
    CorridorCap  \* CORRIDOR_CAP

ASSUME CapAssumption == CorridorCap \in Nat \ {0}

VARIABLES
    prog, cut, pc, queue, seen, order, remaining, pending, steps, \* of Reach
    phase,      \* "solve" | "loop" | "fallback" | "done"
    clauses,    \* the corridor database
    levels,     \* the cut under test, a level per control
    minimality, \* the claim made about the cut returned
    severs,     \* the goal is underivable under the cut returned
    complete,   \* psi.complete
    capHit,     \* corridor_cap_hit
    exhausted   \* budget_exhausted

R == INSTANCE Reach WITH Cuts <- {Mask(lv) : lv \in LevelVectors}

ASSUME SearchedProgramsAssumption ==
    /\ Fact \subseteq Nat
    /\ \A p \in Programs : p \in R!ProgramRecord /\ R!BuildAccepts(p)

search == <<phase, clauses, levels, minimality, severs, complete, capHit, exhausted>>
work == <<queue, seen, order, remaining, pending, steps>>
vars == <<prog, cut, pc, work, search>>

\* A fresh call of reach(program, mask).
Restart(mask) ==
    /\ cut' = mask
    /\ pc' = "seed"
    /\ queue' = prog.axioms
    /\ seen' = {}
    /\ order' = <<>>
    /\ remaining' = [i \in prog.insts |-> R!BodySize(i)]
    /\ pending' = prog.insts
    /\ steps' = 0

CallReach(lv) == levels' = lv /\ Restart(Mask(lv))

NoCall == UNCHANGED <<levels, cut, pc, work>>

Init ==
    /\ prog \in Programs
    /\ cut = {}
    /\ pc = "idle"
    /\ queue = <<>> /\ seen = {} /\ order = <<>> /\ steps = 0
    /\ remaining = [i \in prog.insts |-> 0] /\ pending = {}
    /\ phase = "solve"
    /\ clauses = {}
    /\ levels = [c \in Control |-> 0]
    /\ minimality = "NONE"
    /\ severs = FALSE
    /\ complete = TRUE
    /\ capHit = FALSE
    /\ exhausted = FALSE

Optimum == MinCardinality(clauses, Control)

\* min_cardinality and canonical_select inside their budget.
Solve ==
    /\ phase = "solve"
    /\ Feasible(clauses, Control)
    /\ SelectAccepts(clauses, Optimum)
    /\ phase' = "loop"
    /\ CallReach(CanonicalSelect(clauses, Optimum))
    /\ UNCHANGED <<prog, clauses, minimality, severs, complete, capHit, exhausted>>

\* The fallback cut, which _subset_minimal refuses to build when a clause
\* cannot be hit.
Fallback(cls) ==
    /\ HitsAll(cls, Control, MaxLevel)
    /\ phase' = "fallback"
    /\ CallReach(SubsetMinimal(cls))

\* The node budget runs out inside either solver call. Any solve may be the
\* one, as the budget is a parameter.
BudgetOut ==
    /\ phase = "solve"
    /\ complete' = FALSE
    /\ exhausted' = TRUE
    /\ Fallback(clauses)
    /\ UNCHANGED <<prog, clauses, minimality, severs, capHit>>

ReachStep ==
    /\ phase \in {"loop", "fallback"}
    /\ R!Next
    /\ UNCHANGED search

Finish(claim, severed) ==
    /\ phase' = "done"
    /\ minimality' = claim
    /\ severs' = severed
    /\ NoCall

Severed ==
    /\ phase = "loop"
    /\ pc = "done"
    /\ ~R!DerivableResult
    /\ Finish("EXACT_PSI_RELATIVE", TRUE)
    /\ UNCHANGED <<prog, clauses, complete, capHit, exhausted>>

\* The surviving derivation uses only instances no control blocks.
Unblockable ==
    /\ phase = "loop"
    /\ pc = "done"
    /\ R!DerivableResult
    /\ R!WitnessMask = {}
    /\ Finish("UNVERIFIED", FALSE)
    /\ UNCHANGED <<prog, clauses, complete, capHit, exhausted>>

\* How the mutants of Learn go on with the database db.
LearnInto(db, guarded) ==
    /\ phase = "loop"
    /\ pc = "done"
    /\ R!DerivableResult
    /\ guarded => R!WitnessMask # {}
    /\ clauses' = db
    /\ phase' = "solve"
    /\ NoCall
    /\ UNCHANGED <<prog, minimality, severs, complete, capHit, exhausted>>

\* Mutant of Learn: the new corridor replaces the database.
LearnReplaces == LearnInto({R!WitnessMask}, TRUE)

\* Mutant of Learn: the corridor is found and not stored.
LearnForgets == LearnInto(clauses, TRUE)

Learn ==
    /\ phase = "loop"
    /\ pc = "done"
    /\ R!DerivableResult
    /\ R!WitnessMask # {}
    /\ R!WitnessMask \notin clauses
    /\ clauses' = clauses \cup {R!WitnessMask}
    /\ IF Cardinality(clauses') >= CorridorCap
       THEN complete' = FALSE /\ capHit' = TRUE /\ Fallback(clauses')
       ELSE phase' = "solve" /\ NoCall /\ UNCHANGED <<complete, capHit>>
    /\ UNCHANGED <<prog, minimality, severs, exhausted>>

FallbackDone ==
    /\ phase = "fallback"
    /\ pc = "done"
    /\ Finish("SUBSET", ~R!DerivableResult)
    /\ UNCHANGED <<prog, clauses, complete, capHit, exhausted>>

Next ==
    \/ Solve \/ BudgetOut
    \/ ReachStep
    \/ Severed \/ Unblockable \/ Learn
    \/ FallbackDone

Spec == Init /\ [][Next]_vars

\* Sequential code: the loop takes its next step until it returns. That it
\* always has one is NoInternalError.
FairSpec == Spec /\ ([]<><<Next>>_vars \/ <>[](phase = "done"))

-----------------------------------------------------------------------------
(* exhaustive_probe: a fixpoint for every cut one control smaller. *)

ProbeFindsSmaller(p, cardinality) ==
    \E lv \in LevelVectors :
        /\ Cardinality(Raised(lv)) = cardinality - 1
        /\ ~R!Derivable(p, Mask(lv))

-----------------------------------------------------------------------------
(* Properties. *)

\* Type correctness of the search state.
TypeOK ==
    /\ phase \in {"solve", "loop", "fallback", "done"}
    /\ clauses \subseteq SUBSET Literal
    /\ levels \in LevelVectors
    /\ cut = Mask(levels)
    /\ minimality \in {"NONE", "EXACT_PSI_RELATIVE", "SUBSET", "UNVERIFIED"}
    /\ {severs, complete, capHit, exhausted} \subseteq BOOLEAN

Severing == {lv \in LevelVectors : ~R!Derivable(prog, Mask(lv))}

\* None of the four errors the code raises where it believes them unreachable
\* can be raised: an infeasible database, a selection that fails its own
\* checks, a corridor learned twice, a fallback over a clause nothing hits.
NoInternalError ==
    /\ phase = "solve" =>
          /\ Feasible(clauses, Control)
          /\ SelectAccepts(clauses, Optimum)
          /\ HitsAll(clauses, Control, MaxLevel)
    /\ (phase = "loop" /\ pc = "done" /\ R!DerivableResult) =>
          R!WitnessMask \notin clauses

\* Every corridor learned is one every severing cut must hit, so no corridor
\* ever excludes a cut that works.
CorridorsNecessary ==
    phase = "solve" =>
        \A lv \in LevelVectors :
            (\E k \in clauses : Mask(lv) \cap k = {}) => lv \notin Severing

\* EXACT_PSI_RELATIVE is earned: the cut severs, no cut with fewer controls
\* severs, and taking any raised control one step down stops it severing; it
\* is a member of the family all_minimum_cuts lists for its corridors.
ExactIsMinimum ==
    (phase = "done" /\ minimality = "EXACT_PSI_RELATIVE") =>
        /\ severs
        /\ levels \in Severing
        /\ levels \in MinimumCuts(clauses)
        /\ \A c \in Raised(levels) : [levels EXCEPT ![c] = @ - 1] \notin Severing
        /\ \A lv \in LevelVectors :
              Cardinality(Raised(lv)) < Cardinality(Raised(levels)) => lv \notin Severing

\* SUBSET is earned, whichever cap stopped the loop: `severs' is the truth
\* about the cut, and no control of it can be lowered or dropped.
SubsetIsIrredundant ==
    (phase = "done" /\ minimality = "SUBSET") =>
        /\ severs <=> levels \in Severing
        /\ \A c \in Raised(levels) : [levels EXCEPT ![c] = @ - 1] \notin Severing
        /\ ~complete /\ (capHit \/ exhausted)

\* UNVERIFIED is reported exactly when no cut of the whole lattice severs:
\* one unblockable derivation is found whenever there is one to find, unless
\* a cap or the budget stopped the loop before.
UnblockableMeansNone ==
    phase = "done" =>
        /\ minimality = "UNVERIFIED" => Severing = {} /\ ~severs
        /\ (Severing = {} /\ ~capHit /\ ~exhausted) => minimality = "UNVERIFIED"

\* The probe that alone may upgrade the claim to EXACT_EXHAUSTIVE tests only
\* the cuts exactly one control smaller; that is enough to find any smaller.
ProbeIsExhaustive ==
    (phase = "done" /\ Raised(levels) # {}) =>
        LET n == Cardinality(Raised(levels)) IN
        (\E lv \in LevelVectors : Cardinality(Raised(lv)) < n /\ lv \in Severing)
            => ProbeFindsSmaller(prog, n)

\* The optimum never goes down and the database never shrinks, so an answer
\* already refuted is never proposed again.
SearchAdvances ==
    [][/\ clauses \subseteq clauses'
       /\ (phase = "solve" /\ phase' = "loop") =>
             Cardinality(Raised(levels)) <= Cardinality(Raised(levels'))
       /\ (phase = "solve" /\ phase' = "loop" /\ clauses # {}) => levels' # levels]_vars

\* The loop returns, although nothing bounds it but the lattice.
Termination == <>(phase = "done")

\* What the proofs of module CertificateProofs are by induction on. First what
\* the search variables say of the program, whatever fixpoint runs: the cut
\* is the one selected for the clauses, and the claims are those it earns.
ResultInv ==
    /\ prog \in Programs
    /\ clauses \subseteq SUBSET Literal /\ {} \notin clauses
    /\ \A lv \in LevelVectors :
          (\E k \in clauses : Mask(lv) \cap k = {}) => R!Derivable(prog, Mask(lv))
    /\ phase = "solve" =>
          /\ Cardinality(Raised(levels)) <= Optimum
          /\ clauses # {} => \E k \in clauses : Mask(levels) \cap k = {}
    /\ phase # "done" => minimality = "NONE"
    /\ phase = "done" => minimality \in {"EXACT_PSI_RELATIVE", "SUBSET", "UNVERIFIED"}
    /\ (phase = "loop" \/ minimality \in {"EXACT_PSI_RELATIVE", "UNVERIFIED"}) =>
          levels = CanonicalSelect(clauses, Optimum)
    /\ (phase = "fallback" \/ minimality = "SUBSET") =>
          /\ levels = SubsetMinimal(clauses)
          /\ ~complete /\ (capHit \/ exhausted)
    /\ ~(phase = "fallback" \/ minimality = "SUBSET") => complete /\ ~capHit /\ ~exhausted
    /\ phase = "done" => severs = ~R!Derivable(prog, Mask(levels))
    /\ minimality = "EXACT_PSI_RELATIVE" => severs
    /\ minimality = "UNVERIFIED" => Severing = {}

\* Then the fixpoint that runs, which is always one under the cut under test.
SearchInd ==
    /\ TypeOK
    /\ ResultInv
    /\ pc = "idle" => phase = "solve"
    /\ pc # "idle" => R!IndInv

\* What holds whenever the loop asks the solver: the state is well-formed, the
\* database excludes no cut that works, and nothing the code asserts can fail.
SearchInv == SearchInd /\ NoInternalError /\ CorridorsNecessary

\* Every claim below EXACT_PSI_RELATIVE, and the probe that may go beyond it,
\* is earned too.
OtherClaimsAreEarned == SubsetIsIrredundant /\ UnblockableMeansNone /\ ProbeIsExhaustive
=============================================================================
