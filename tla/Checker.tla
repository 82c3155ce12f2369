------------------------------ MODULE Checker ------------------------------
(***************************************************************************)
(* `verify' of spectra_vs_verify/checker.py: the obligations of module     *)
(* Obligations are run in order over a certificate from any emitter, and   *)
(* the first that fails ends the run.                                      *)
(***************************************************************************)
EXTENDS Obligations

CONSTANT Bodies     \* the certificates put to the checker

\* O6 matches every literal of the cut with the atom table, and O7 asks that
\* every member of u be a well-formed fact id.
ASSUME BodiesAssumption ==
    \A b \in Bodies : b.cut \subseteq Literal /\ b.u \subseteq Fact

VARIABLES
    body,
    pos,        \* obligations discharged so far
    exit        \* "running" | "ACCEPT" | "REJECT"

kvars == <<body, pos, exit>>

\* OBLIGATIONS, from O6 on.
Obligation(n, b) ==
    CASE n = 1  -> O6_Cut(b)
      [] n = 2  -> O6b_Levels(b)
      [] n = 3  -> O7_Invariant(b)
      [] n = 4  -> O8_Closure(b)
      [] n = 5  -> O9_Goals(b)
      [] n = 6  -> O12_Witnesses(b)
      [] n = 7  -> O13_PsiHit(b)
      [] n = 8  -> O13b_Premium(b)
      [] n = 9  -> O14_Flags(b)
      [] n = 10 -> O14b_Dispute(b)
      [] n = 11 -> O15_Minimality(b)

Count == 11

VerifyInit == body \in Bodies /\ pos = 0 /\ exit = "running"

Discharge ==
    /\ exit = "running"
    /\ pos < Count
    /\ Obligation(pos + 1, body)
    /\ pos' = pos + 1
    /\ UNCHANGED <<body, exit>>

Rejected ==
    /\ exit = "running"
    /\ pos < Count
    /\ ~Obligation(pos + 1, body)
    /\ exit' = "REJECT"
    /\ UNCHANGED <<body, pos>>

Accept ==
    /\ exit = "running"
    /\ pos = Count
    /\ exit' = "ACCEPT"
    /\ UNCHANGED <<body, pos>>

VerifyNext == Discharge \/ Rejected \/ Accept

VerifySpec == VerifyInit /\ [][VerifyNext]_kvars

-----------------------------------------------------------------------------
(* What an ACCEPT means, whoever wrote the certificate. *)

\* The strengthening the proofs of module AcceptProofs are by induction on.
CheckerInv ==
    /\ body \in Bodies
    /\ pos \in 0..Count
    /\ exit = "ACCEPT" => pos = Count
    /\ \A n \in 1..pos : Obligation(n, body)

\* If every goal is claimed severed, no derivation from the published
\* instances reaches one under the published cut: the invariant u, which the
\* checker never computes itself, is enough to show it.
AcceptedSevers ==
    (exit = "ACCEPT" /\ body.derivable = {}) => ~Reaches(body.insts, body.cut, body.severed)

\* An accepted EXACT_PSI_RELATIVE is a minimum over the whole lattice of
\* levels and over every smaller size, though the checker tries only sets one
\* control smaller, raised to the top.
AcceptedExactIsMinimum ==
    (exit = "ACCEPT" /\ body.minimality = "EXACT_PSI_RELATIVE") =>
        \A lv \in LevelVectors :
            Satisfied(body.clauses, Mask(lv)) =>
                Cardinality(Controls(body.cut)) <= Cardinality(Raised(lv))

Severs(mask) == ~Reaches(body.insts, mask, Goals(body))

\* An accepted EXACT_EXHAUSTIVE is a minimum over the program itself: no cut of
\* fewer controls severs the goals, whatever its levels, as long as the
\* published corridors are corridors. That no obligation asks, and the checker
\* gives the fixpoint no set that misses one of them.
AcceptedExhaustiveIsMinimum ==
    (/\ exit = "ACCEPT" /\ body.minimality = "EXACT_EXHAUSTIVE"
     /\ \A lv \in LevelVectors : Severs(Mask(lv)) => Satisfied(body.clauses, Mask(lv))) =>
        \A lv \in LevelVectors :
            Severs(Mask(lv)) => Cardinality(Controls(body.cut)) <= Cardinality(Raised(lv))

\* A control with an accepted witness is needed: no cut within the published
\* one that leaves the control alone severs every goal.
WitnessedControlsAreNeeded ==
    exit = "ACCEPT" =>
        \A tree \in body.trees : \A lv \in LevelVectors :
            (lv[tree.control] = 0 /\ Mask(lv) \subseteq body.cut) =>
                Reaches(body.insts, Mask(lv), Goals(body))
=============================================================================
