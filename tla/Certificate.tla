---------------------------- MODULE Certificate ----------------------------
(***************************************************************************)
(* The rest of stage S10 (`s10_prove' of spectra_vs/pipeline.py) after the *)
(* bracket of module Premium: a witness per control of the upper cut, the  *)
(* verdict at each of the two cuts (spectra_vs/cert.py), the certificate   *)
(* body, and S11, the independent checker that re-derives the claims       *)
(* (spectra_vs_verify/checker.py).  Hashes, ids and text are left out: an  *)
(* instance stands for the record whose id recomputes from it.             *)
(***************************************************************************)
EXTENDS Premium

CONSTANTS
    LicensesOf,  \* instance id -> the licences it cites; none for an OBSERVED one
    CutCap,      \* EXHAUSTIVE_CUT_CAP of the checker
    Reports      \* what the documents of S4 and S7 say of the run: [quarantined,
                 \* accused, disputed], the sources with a disputed event and the
                 \* licences over one

ASSUME LicensesAssumption ==
    \A pr \in Pairs :
        /\ \A i \in pr[2].insts : i.id \in DOMAIN LicensesOf
        /\ \A i \in pr[1].insts : LicensesOf[i.id] = {}
\* What Engine.program publishes (ground.py:711-724): a fact is an axiom unless
\* an instance with a body derives it, and premises no record shows have no
\* blockers (envelope.py:501-502). Goals are facts of a predicate rules head.
ASSUME GroundedAssumption ==
    \A pr \in Pairs :
        LET axioms == R!Elems(pr[2].axioms)
            heads == {i.head : i \in pr[2].insts}
        IN /\ \A i \in pr[2].insts : R!BodySet(i) \subseteq axioms \cup heads
           /\ \A i \in pr[2].insts : i.head \in axioms => i.body = <<>> /\ i.blockers = {}
           /\ pr[2].goals \cap axioms \subseteq heads
ASSUME ReportsAssumption ==
    \A r \in Reports : r.disputed # {} => r.accused # {}

VARIABLES
    stage,      \* "bracket" | "probe" | "decided" | "sealed_max" | "sealed" |
                \* "emitted" | "accepted" | "aborted"
    report,     \* the member of Reports this run has
    probes,     \* controls of the cut not yet probed
    dropped,    \* the control whose probe runs, 0 for none
    trees,      \* the witness entries
    safety,     \* [max, min] |-> the decision at the upper and at the lower cut
    voided,     \* counterfactual_safety
    error       \* the VRD code S10 ended with

proof == <<stage, report, probes, dropped, trees, safety, voided, error>>
cvars == <<pvars, proof>>

CInit ==
    /\ PInit
    /\ stage = "bracket"
    /\ report = [quarantined |-> FALSE, accused |-> {}, disputed |-> {}]
    /\ probes = {} /\ dropped = 0
    /\ trees = {}
    /\ safety = [max |-> "NONE", min |-> "NONE"]
    /\ voided = "NONE"
    /\ error = "NONE"

Bracket == stage = "bracket" /\ PNext /\ UNCHANGED proof

BracketDone ==
    /\ stage = "bracket"
    /\ side = "end"
    /\ report' \in Reports
    /\ probes' = Raised(levels)
    /\ stage' = "probe"
    /\ UNCHANGED <<pvars, dropped, trees, safety, voided, error>>

-----------------------------------------------------------------------------
(* Witnesses: each raised control is dropped whole, the others stay. *)

ProbeCall ==
    /\ stage = "probe"
    /\ dropped = 0
    /\ \E c \in probes :
          /\ \A d \in probes : c <= d
          /\ dropped' = c
          /\ probes' = probes \ {c}
          /\ Restart(Mask([levels EXCEPT ![c] = 0]))
    /\ UNCHANGED <<prog, search, bracket, stage, report, trees, safety, voided, error>>

ProbeStep ==
    /\ stage = "probe"
    /\ dropped # 0
    /\ R!Next
    /\ UNCHANGED <<search, bracket, proof>>

ProbeDone ==
    /\ stage = "probe"
    /\ dropped # 0
    /\ pc = "done"
    /\ trees' = IF R!DerivableResult
                THEN trees \cup {[control |-> dropped, insts |-> R!WitnessInstances]}
                ELSE trees
    /\ dropped' = 0
    /\ UNCHANGED <<pvars, stage, report, probes, safety, voided, error>>

Silent(i) == LicensesOf[i.id] # {}

-----------------------------------------------------------------------------
(* The verdict. *)

\* apply_temporal_dispute marks the sources of the disputed events.
Suspected == report.accused

\* _flags_for. One set for both verdicts: a cap on either side is a cap.
Flags ==
    {f \in {"grounding_capped", "corridor_cap", "er_ambiguous", "quarantined_records"} :
        CASE f = "grounding_capped" -> upstream.groundingCapped
          [] f = "corridor_cap" -> lower.capHit \/ capHit
          [] f = "er_ambiguous" -> upstream.erAmbiguous
          [] OTHER -> report.quarantined}

\* The flags of class S and of class M (cert.FLAGS).
SoundnessFlags ==
    {"grounding_capped", "corridor_cap", "er_ambiguous", "quarantined_records",
     "license_voided_by_suspected_tampering", "profile_missing"}
MinimalityCapFlags == {"atoms_over_budget", "corridor_cap"}

\* Mutant of DecideSafety: the flags are not consulted.
DecideSafetyFlagless(inMax, inMin, tamper) ==
    IF ~inMax /\ ~tamper THEN "ROBUST"
    ELSE IF inMin THEN "UNSAFE" ELSE "OPTIMISTIC_ONLY"

DecideSafety(inMax, inMin, tamper) ==
    LET sound == Flags \cap SoundnessFlags = {} IN
    IF sound /\ ~inMax /\ ~tamper THEN "ROBUST"
    ELSE IF inMin THEN "UNSAFE"
    ELSE IF sound THEN "OPTIMISTIC_ONLY" ELSE "INDETERMINATE"

\* Mutant of SafetyAt: the lower program is asked twice.
SafetyAtLower(lv) ==
    DecideSafety(R!Derivable(pair[1], Mask(lv)), R!Derivable(pair[1], Mask(lv)), Suspected # {})

\* What the two fixpoints say under a cut. Module Reach computes exactly this
\* (theorem ReachIsExact of ReachProofs).
SafetyAt(lv) ==
    DecideSafety(R!Derivable(pair[2], Mask(lv)), R!Derivable(pair[1], Mask(lv)), Suspected # {})

\* The program without the instances that cite one of the licences. Its
\* axioms are those of the whole program.
NotCiting(p, licences) == [p EXCEPT !.insts = {i \in @ : LicensesOf[i.id] \cap licences = {}}]

\* _voiding_counterfactual.
Voided ==
    IF report.disputed = {} THEN "NONE"
    ELSE DecideSafety(R!Derivable(NotCiting(pair[2], report.disputed), Mask(levels)),
                      R!Derivable(pair[1], Mask(levels)), FALSE)

Decide ==
    /\ stage = "probe"
    /\ dropped = 0
    /\ probes = {}
    /\ safety' = [max |-> SafetyAt(levels), min |-> SafetyAt(lower.levels)]
    /\ voided' = Voided
    /\ stage' = "decided"
    /\ UNCHANGED <<pvars, report, probes, dropped, trees, error>>

\* The code Verdict.build raises, or NONE: the token first, then the algebra,
\* then the witness. S10 never tells it that a witness is present, so UNSAFE
\* is refused whatever its class; a refusal ends the stage.
BuildError(s, m) ==
    IF s = "ROBUST" /\ (Suspected # {} \/ Flags \cap SoundnessFlags # {}) THEN "VRD-001"
    ELSE IF m = "EXACT_PSI_RELATIVE" /\ Flags \cap MinimalityCapFlags # {} THEN "VRD-004"
    ELSE IF s = "UNSAFE" THEN "VRD-002" ELSE "NONE"

\* One call of _build_verdict.
BuildVerdict(s, m, from, to) ==
    /\ stage = from
    /\ error' = BuildError(s, m)
    /\ stage' = IF error' = "NONE" THEN to ELSE "aborted"
    /\ UNCHANGED <<pvars, report, probes, dropped, trees, safety, voided>>

BuildMax == BuildVerdict(safety.max, minimality, "decided", "sealed_max")
BuildMin == BuildVerdict(safety.min, lower.minimality, "sealed_max", "sealed")

-----------------------------------------------------------------------------
(* The certificate. *)

\* Mutant of UpperClosure: the closure of the lower program.
LowerClosure == R!LeastModel(pair[1], Mask(levels))

\* reach_max_at_max.
UpperClosure == R!LeastModel(pair[2], Mask(levels))

\* What S10 hands to build_body. Everything is about P_max and the upper cut.
Body ==
    LET derived == pair[2].goals \cap UpperClosure IN
    [insts |-> pair[2].insts, silent |-> {i \in pair[2].insts : Silent(i)},
     cut |-> Mask(levels),
     derivable |-> derived, severed |-> pair[2].goals \ derived,
     hasU |-> derived = {}, u |-> UpperClosure,
     trees |-> trees, clauses |-> clauses, complete |-> complete,
     premium |-> outcome, safety |-> safety.max, minimality |-> minimality,
     witnessClass |-> "NONE", flags |-> Flags,
     suspected |-> Suspected, sensitive |-> FALSE, disputed |-> report.accused,
     exhausted |-> lower.exhausted \/ exhausted,
     exhaustiveRan |-> FALSE, cutsTested |-> 0]

O == INSTANCE Obligations

\* The cross-member checks of build_body.
BodyAccepts(b) ==
    /\ \A t \in b.trees :
          /\ t.insts \subseteq b.insts
          /\ \A S \in SUBSET t.insts :
                S # {} => \E i \in S : \A j \in S : j.head \notin R!BodySet(i)
    /\ b.hasU <=> b.derivable = {}
    /\ b.hasU => b.severed \cap b.u = {}
    /\ \A k \in b.clauses : k \cap b.cut # {}
    /\ b.premium.published # (b.premium.reason # "NONE")
    /\ b.premium.published =>
          /\ b.complete /\ lower.complete /\ ~b.exhausted
          /\ b.flags \cap {"grounding_capped", "corridor_cap"} = {}

Emit ==
    /\ stage = "sealed"
    /\ BodyAccepts(Body)
    /\ stage' = "emitted"
    /\ UNCHANGED <<pvars, report, probes, dropped, trees, safety, voided, error>>

\* Every obligation of the checker holds of the body.
Verifies(b) ==
    /\ O!O6_Cut(b) /\ O!O6b_Levels(b)
    /\ O!O7_Invariant(b) /\ O!O8_Closure(b) /\ O!O9_Goals(b)
    /\ O!O12_Witnesses(b) /\ O!O13_PsiHit(b) /\ O!O13b_Premium(b)
    /\ O!O14_Flags(b) /\ O!O14b_Dispute(b) /\ O!O15_Minimality(b)

Verify ==
    /\ stage = "emitted"
    /\ Verifies(Body)
    /\ stage' = "accepted"
    /\ UNCHANGED <<pvars, report, probes, dropped, trees, safety, voided, error>>

CNext ==
    \/ Bracket \/ BracketDone
    \/ ProbeCall \/ ProbeStep \/ ProbeDone
    \/ Decide \/ BuildMax \/ BuildMin
    \/ Emit \/ Verify

CSpec == CInit /\ [][CNext]_cvars

-----------------------------------------------------------------------------
(* Properties. *)

\* A body that S10 sealed passes its own checks, and the checker, which
\* shares no code with S10, accepts every certificate S10 emits.
EmittedIsAccepted ==
    /\ stage = "sealed" => BodyAccepts(Body)
    /\ stage = "emitted" => Verifies(Body)

\* ROBUST holds in every world the licences leave open: whichever of the
\* unseen steps did happen, the cut severs every goal.
RobustInEveryWorld ==
    (stage \in {"sealed", "emitted", "accepted"} /\ safety.max = "ROBUST") =>
        \A unseen \in SUBSET (pair[2].insts \ pair[1].insts) :
            ~R!Derivable([pair[2] EXCEPT !.insts = pair[1].insts \cup unseen], Mask(levels))

\* Every raised control of a cut that severs is justified: dropping it lets
\* a goal be derived again, and the certificate carries the derivation.
EveryControlIsWitnessed ==
    (stage \in {"sealed", "emitted", "accepted"} /\ severs) =>
        {t.control : t \in trees} = Raised(levels)

\* S10 ends without a certificate only when a verdict is UNSAFE, or when one
\* corridor search hit its cap and the other has an exact claim to publish.
RefusesOnlyUnsafeAndOneSidedCap ==
    /\ error \in {"NONE", "VRD-002", "VRD-004"}
    /\ error = "VRD-002" => "UNSAFE" \in {safety.max, safety.min}
    /\ error = "VRD-004" => lower.capHit # capHit
=============================================================================
