--------------------------- MODULE GroundProgram ---------------------------
(***************************************************************************)
(* A ground rule program as `ReachProgram` of spectra_vs/reach.py holds    *)
(* it: a set of rule instances, the axioms, the goal library.  Fact keys   *)
(* and instance ids are content hashes that the code only compares for     *)
(* equality and orders bytewise, so both are natural numbers here and `<'  *)
(* is the byte order.  A mask is the set of threshold literals it holds.   *)
(***************************************************************************)
EXTENDS Naturals, Sequences, FiniteSets

CONSTANTS
    Fact,       \* fact keys, ordered bytewise
    Literal,    \* the literals a cut can raise
    Programs    \* the programs handed to ReachProgram.build

Elems(s) == {s[k] : k \in 1..Len(s)}

\* A rule instance. `id' is the content hash: no two instances share one.
Instance ==
    [id : Nat, head : Fact, body : Seq(Fact), blockers : SUBSET (SUBSET Literal)]

ProgramRecord ==
    [insts : SUBSET Instance, axioms : Seq(Fact), goals : SUBSET Fact]

StrictlyAscending(s) == \A j, k \in 1..Len(s) : j < k => s[j] < s[k]

\* What ReachProgram.build accepts: distinct ids, axioms in published order,
\* a non-empty goal library, blocker terms of exactly one literal (C-SLICE-1).
BuildAccepts(p) ==
    /\ IsFiniteSet(p.insts)
    /\ \A i, j \in p.insts : i.id = j.id => i = j
    /\ StrictlyAscending(p.axioms)
    /\ p.goals # {}
    /\ \A i \in p.insts : \A term \in i.blockers :
          IsFiniteSet(term) /\ Cardinality(term) = 1

ASSUME ProgramsAssumption ==
    /\ Fact \subseteq Nat
    /\ \A p \in Programs : p \in ProgramRecord /\ BuildAccepts(p)

\* Mutant of BodySize: a fact the body names twice is waited for twice.
BodySizeWithRepeats(i) == Len(i.body)

\* Distinct body facts: a fact the body names twice is satisfied once.
BodySet(i) == Elems(i.body)
BodySize(i) == Cardinality(BodySet(i))

Dependents(p, f) == {i \in p.insts : f \in BodySet(i)}
Supports(p, f) == {i \in p.insts : i.head = f}

\* instance_blocked: some term of the DNF is wholly raised by the cut.
Blocked(i, c) == \E term \in i.blockers : term \subseteq c

\* Loops over instances run in ascending instance id.
IsLeast(i, S) == i \in S /\ \A j \in S : i.id <= j.id

-----------------------------------------------------------------------------
(* The declarative meaning of a program under a cut. *)

\* i may be applied once the facts in S are derived.
Enabled(i, c, S) == ~Blocked(i, c) /\ BodySet(i) \subseteq S

\* f follows from S in one application: it is an axiom or an enabled head.
Follows(p, c, S, f) ==
    \/ f \in Elems(p.axioms)
    \/ \E i \in p.insts : i.head = f /\ Enabled(i, c, S)

Closed(p, c, S) ==
    /\ Elems(p.axioms) \subseteq S
    /\ \A i \in p.insts : Enabled(i, c, S) => i.head \in S

\* The least set of facts closed under the axioms and the unblocked instances.
LeastModel(p, c) ==
    {f \in Fact : \A S \in SUBSET Fact : Closed(p, c, S) => f \in S}

\* Some goal is in the least model; that is, no closed set avoids the goals
\* (lemma DerivableIsReached of ReachProofs).
Derivable(p, c) == \A S \in SUBSET (Fact \ p.goals) : ~Closed(p, c, S)
=============================================================================
