---------------------------- MODULE Calibration ----------------------------
(***************************************************************************)
(* Stage S6, spectra_vs/calibrate.py: the arrival gaps of a clean run, per *)
(* regime, and the profile that carries their order statistic to S7.       *)
(***************************************************************************)
EXTENDS Intake

CONSTANTS
    Phases,         \* set of [regime, t0, t1], half-open
    QuantileP, QuantileQ,
    Identity        \* the degradation spec that removes nothing

ASSUME QuantileAssumption ==
    QuantileP \in Nat /\ QuantileQ \in Nat /\ QuantileP < QuantileQ

NoRegime == "none"
Regimes == {p.regime : p \in Phases}

\* check_phases: no overlap, and a regime is declared once.
CheckPhases ==
    /\ \A p \in Phases : p.t0 < p.t1
    /\ \A p, q \in Phases : p # q => (p.t1 <= q.t0 \/ q.t1 <= p.t0) /\ p.regime # q.regime

ASSUME PhasesAssumption ==
    CheckPhases /\ IsFiniteSet(Phases) /\ \A p \in Phases : p.t0 \in Int /\ p.t1 \in Int

PhaseOf(t) ==
    IF \E p \in Phases : p.t0 <= t /\ t < p.t1
    THEN (CHOOSE p \in Phases : p.t0 <= t /\ t < p.t1).regime ELSE NoRegime

\* ExcludedInterval.intersects_closed
Meets(x, a, b) == x.t0 <= b /\ a < x.t1

\* gap_vectors: the gaps of one regime, ascending, each with its place. Both
\* ends lie in the regime and the closed span meets no exclusion.
GapVector(records, regime, excluded) ==
    LET ordered == InOrder(records) IN
    Ascending({<<ordered[k + 1].t - ordered[k].t, k>> :
        k \in {i \in 1..(Len(ordered) - 1) :
                  /\ PhaseOf(ordered[i].t) = regime
                  /\ PhaseOf(ordered[i + 1].t) = regime
                  /\ ~\E x \in excluded : Meets(x, ordered[i].t, ordered[i + 1].t)}},
        LAMBDA a, b : a[1] < b[1] \/ (a[1] = b[1] /\ a[2] < b[2]))

\* The rank q_exact reads in a vector of n gaps.
Rank(n) ==
    LET j == (n * QuantileP + (QuantileQ - 1)) \div QuantileQ IN
    IF j < 1 THEN 1 ELSE IF j > n THEN n ELSE j

QExact(gaps) == gaps[Rank(Len(gaps))][1]

\* RegimeProfile: a regime without a gap has no entry.
RegimeProfile(gaps) == [n |-> Len(gaps), q |-> IF gaps = <<>> THEN 0 ELSE QExact(gaps)]

\* build_profile over the kept records of the calibration run, under a
\* scenario [config, family, excluded]. With `collapse' the one entry bears an
\* id no phase has.
BuildProfile(records, spec, scenario, collapse) ==
    [reference |-> records, degspec |-> spec, scenario |-> scenario, collapsed |-> collapse,
     gaps |-> [s \in Sources |-> [g \in Regimes |->
        RegimeProfile(IF collapse THEN <<>> ELSE GapVector(Of(records, s), g, scenario.excluded))]]]

\* write_profile stores the body with its id; load_profile recomputes it.
WriteProfile(profile) == [body |-> profile, id |-> profile]
LoadProfile(file) == file.id = file.body
=============================================================================
