---------------------------- MODULE Obligations ----------------------------
(***************************************************************************)
(* What spectra_vs_verify/checker.py asks of a certificate body, as one    *)
(* predicate per obligation.  A body is a record; the obligations on its   *)
(* bytes, its hashes and its pinned input files (O0 to O5, O11) are left   *)
(* out, and O10, on licences, is module Licences.                          *)
(*                                                                         *)
(* insts      the published instances of P_max                             *)
(* silent     those of them that cite a licence                            *)
(* cut        the literals of the cut                                      *)
(* derivable, severed   the goals, by what is claimed of them              *)
(* hasU, u    the closure invariant, when there is one                     *)
(* trees      [control, insts], a witness per dropped control              *)
(* clauses, complete    psi                                                *)
(* premium    [published, nec, occ, b, ...]                                *)
(* safety, minimality, witnessClass, flags   the verdict                   *)
(* suspected, sensitive, disputed   the pinned liveness document           *)
(* exhausted, exhaustiveRan, cutsTested      the budgets                   *)
(***************************************************************************)
EXTENDS HittingSet

CONSTANTS
    Fact,       \* as in GroundProgram
    CutCap      \* EXHAUSTIVE_CUT_CAP

ASSUME CutCapAssumption == CutCap \in Nat

G == INSTANCE GroundProgram WITH Programs <- {}

Controls(cut) == {a[1] : a \in cut}
Whole(K) == {a \in Literal : a[1] \in K}
Satisfied(clauses, mask) == \A k \in clauses : k \cap mask # {}

Goals(b) == b.derivable \cup b.severed

\* _axioms_of: body facts that head no published instance.
AxiomsOf(insts) == (UNION {G!BodySet(i) : i \in insts}) \ {i.head : i \in insts}

\* S contains the axioms and the head of every instance that fires under the cut.
ClosedSet(insts, cut, S) ==
    /\ AxiomsOf(insts) \subseteq S
    /\ \A i \in insts : G!Enabled(i, cut, S) => i.head \in S

\* _reach derives one of the goals: no closed set avoids them all.
Reaches(insts, cut, goals) == \A S \in SUBSET (Fact \ goals) : ~ClosedSet(insts, cut, S)

-----------------------------------------------------------------------------
(* The obligations, in the order OBLIGATIONS runs them. *)

O6_Cut(b) == \A a \in b.cut : \A l \in 1..a[2] : <<a[1], l>> \in b.cut

\* Only a level above one is asked to be needed.
O6b_Levels(b) ==
    \A a \in b.cut :
        (a[2] > 1 /\ <<a[1], a[2] + 1>> \notin b.cut) => ~Satisfied(b.clauses, b.cut \ {a})

O7_Invariant(b) ==
    /\ b.hasU <=> b.derivable = {}
    /\ b.hasU => AxiomsOf(b.insts) \subseteq b.u

\* Mutant of O8_Closure: an instance is taken to be blocked as soon as it has
\* a blocker.
O8_ClosureAnyBlocker(b) ==
    b.hasU => \A i \in b.insts :
        (G!BodySet(i) \subseteq b.u /\ i.blockers = {}) => i.head \in b.u

O8_Closure(b) ==
    b.hasU => \A i \in b.insts :
        /\ \A term \in i.blockers : Cardinality(term) = 1
        /\ G!Enabled(i, b.cut, b.u) => i.head \in b.u

O9_Goals(b) == b.hasU => b.severed \cap b.u = {}

\* _check_flat_tree and _check_node: the nodes are published instances and
\* form a tree in which each node's body is covered by axioms and by the
\* heads of its children. A set of instances can be laid out so exactly when
\* each of them can be reached from the axioms by the others. Neither the
\* root nor the blockers of a node are looked at.
WellFounded(b, tree) ==
    /\ tree.insts # {} /\ tree.insts \subseteq b.insts
    /\ \A S \in SUBSET Fact :
          (/\ AxiomsOf(b.insts) \subseteq S
           /\ \A i \in tree.insts : G!BodySet(i) \subseteq S => i.head \in S)
          => \A i \in tree.insts : G!BodySet(i) \subseteq S

\* Mutant of O12_Witnesses: the fixpoint is not replayed.
O12_WitnessesNoReplay(b) ==
    \A tree \in b.trees : tree.control \in Controls(b.cut) /\ WellFounded(b, tree)

O12_Witnesses(b) ==
    \A tree \in b.trees :
        /\ tree.control \in Controls(b.cut)
        /\ Reaches(b.insts, b.cut \ Whole({tree.control}), Goals(b))
        /\ WellFounded(b, tree)

O13_PsiHit(b) == Satisfied(b.clauses, b.cut)

O13b_Premium(b) == b.premium.published => b.premium.b = b.premium.nec \ b.premium.occ

SoundnessFlags ==
    {"grounding_capped", "corridor_cap", "er_ambiguous", "quarantined_records",
     "license_voided_by_suspected_tampering", "profile_missing"}
MinimalityCapFlags == {"atoms_over_budget", "corridor_cap"}
TreesHaveSilent(b) == \E tree \in b.trees : tree.insts \cap b.silent # {}

\* The verdict algebra, and what a published premium presupposes.
O14_Flags(b) ==
    /\ b.safety \in {"ROBUST", "OPTIMISTIC_ONLY", "UNSAFE", "INDETERMINATE"}
    /\ b.minimality \in {"EXACT_EXHAUSTIVE", "EXACT_PSI_RELATIVE", "SUBSET", "UNVERIFIED"}
    /\ b.safety = "ROBUST" => b.flags \cap SoundnessFlags = {}
    /\ b.safety = "UNSAFE" =>
          /\ b.witnessClass # "NONE"
          /\ b.trees # {}
          /\ "er_ambiguous" \in b.flags => b.witnessClass = "CONTESTED"
          /\ b.witnessClass = "OBSERVED" => ~TreesHaveSilent(b)
          /\ b.witnessClass = "LICENSED" => TreesHaveSilent(b)
    /\ b.safety # "UNSAFE" => b.witnessClass = "NONE"
    /\ b.minimality \in {"EXACT_EXHAUSTIVE", "EXACT_PSI_RELATIVE"} =>
          b.flags \cap MinimalityCapFlags = {}
    /\ b.premium.published =>
          /\ {"grounding_capped", "corridor_cap"} \cap b.flags = {}
          /\ b.complete /\ ~b.exhausted

\* O14b, on the pinned liveness document: no ROBUST over a suspected source or
\* a tamper-sensitive verdict, and only events of suspected sources disputed.
O14b_Dispute(b) ==
    /\ b.safety = "ROBUST" => b.suspected = {} /\ ~b.sensitive
    /\ b.disputed \subseteq b.suspected

\* The control sets one smaller than the cut's.
Smaller(b) == {K \in SUBSET Control : Cardinality(K) = Cardinality(Controls(b.cut)) - 1}

\* Mutant of O15_Minimality: sets of the cut's own size are tried.
O15_MinimalityOffByOne(b) ==
    b.minimality = "EXACT_PSI_RELATIVE" =>
        \A K \in SUBSET Control :
            Cardinality(K) + 2 = Cardinality(Controls(b.cut)) => ~Satisfied(b.clauses, Whole(K))

\* Mutant of O15_Minimality: the smaller sets are raised to level one only.
O15_MinimalityLevelOne(b) ==
    (b.minimality \in {"EXACT_EXHAUSTIVE", "EXACT_PSI_RELATIVE"} /\ b.cut # {}) =>
        /\ Cardinality(Smaller(b)) <= CutCap
        /\ b.minimality = "EXACT_EXHAUSTIVE" =>
              b.exhaustiveRan /\ b.cutsTested = Cardinality(Smaller(b))
        /\ \A K \in Smaller(b) :
              Satisfied(b.clauses, K \X {1}) =>
                  /\ b.minimality # "EXACT_PSI_RELATIVE"
                  /\ Reaches(b.insts, K \X {1}, Goals(b))

\* A set that misses a published clause is never given to the fixpoint.
O15_Minimality(b) ==
    (b.minimality \in {"EXACT_EXHAUSTIVE", "EXACT_PSI_RELATIVE"} /\ b.cut # {}) =>
        /\ Cardinality(Smaller(b)) <= CutCap
        /\ b.minimality = "EXACT_EXHAUSTIVE" =>
              b.exhaustiveRan /\ b.cutsTested = Cardinality(Smaller(b))
        /\ \A K \in Smaller(b) :
              Satisfied(b.clauses, Whole(K)) =>
                  /\ b.minimality # "EXACT_PSI_RELATIVE"
                  /\ Reaches(b.insts, Whole(K), Goals(b))
=============================================================================
