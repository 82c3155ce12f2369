------------------------------ MODULE Liveness ------------------------------
(***************************************************************************)
(* Stage S7, spectra_vs/liveness.py: the verdict on every instant of every *)
(* source, and the questions later stages put to the document. A bundle is *)
(* a function from sources to their sealed events, in order.               *)
(***************************************************************************)
EXTENDS Calibration

CONSTANTS
    SlackNum, SlackDen, KTail, NFloor, MMin,
    T0, T1,             \* the scenario span
    U64Max,             \* the widest threshold
    NominalPeriod,      \* source -> declared period, 0 for none
    CalibrationBand     \* set of seeds a profile may be calibrated under

ASSUME SpanAssumption == T0 \in Nat /\ T1 \in Nat /\ T0 < T1
ASSUME SlackAssumption == SlackNum \in Nat /\ SlackDen \in Nat \ {0} /\ MMin \in Nat \ {0}
ASSUME LimitsAssumption ==
    /\ KTail \in Nat /\ NFloor \in Nat /\ U64Max \in Nat
    /\ \A s \in Sources : NominalPeriod[s] \in Nat

CeilDiv(n, d) == (n + d - 1) \div d

\* LivenessConfig.n_min
NMin ==
    LET tail == CeilDiv(KTail * QuantileQ, QuantileQ - QuantileP)
    IN IF NFloor > tail THEN NFloor ELSE tail

Instants == T0..(T1 - 1)

-----------------------------------------------------------------------------
\* Mutant of FailedGates: B1 is not looked at.
FailedGatesButFirst(profile, records, seed, scenario) ==
    {g \in {"B2", "B3", "B4", "B5", "B6"} :
        \/ g = "B2" /\ profile.degspec # Identity
        \/ g = "B3" /\ seed \in CalibrationBand
        \/ g = "B4" /\ profile.scenario.config # scenario.config
        \/ g = "B5" /\ profile.scenario.family # scenario.family
        \/ g = "B6" /\ profile.scenario.excluded # scenario.excluded}

\* check_binding_gates: the gates that fail.
FailedGates(profile, records, seed, scenario) ==
    {g \in {"B1", "B2", "B3", "B4", "B5", "B6"} :
        \/ g = "B1" /\ profile.reference = records
        \/ g = "B2" /\ profile.degspec # Identity
        \/ g = "B3" /\ seed \in CalibrationBand
        \/ g = "B4" /\ profile.scenario.config # scenario.config
        \/ g = "B5" /\ profile.scenario.family # scenario.family
        \/ g = "B6" /\ profile.scenario.excluded # scenario.excluded}

\* threshold_from_order_statistic
Threshold(mode, q) ==
    LET raw == CeilDiv(q * SlackNum, SlackDen) IN
    [mode |-> mode, known |-> TRUE, ns |-> IF raw > U64Max THEN U64Max ELSE raw,
     saturated |-> raw > U64Max]

NoThreshold(mode) == [mode |-> mode, known |-> FALSE, ns |-> 0, saturated |-> FALSE]

\* Mutant of RegimeThreshold: any number of reference gaps will do.
RegimeThresholdOfAny(profile, s, regime, declared) ==
    LET entry == profile.gaps[s][regime] IN
    IF entry.n > 0 THEN Threshold("F0", entry.q)
    ELSE IF declared /\ NominalPeriod[s] > 0 THEN Threshold("F3", NominalPeriod[s])
    ELSE NoThreshold("F1")

\* _regime_threshold: the profile's, else the declared one where allowed, else none.
RegimeThreshold(profile, s, regime, declared) ==
    LET entry == profile.gaps[s][regime] IN
    IF entry.n > 0 /\ entry.n >= NMin THEN Threshold("F0", entry.q)
    ELSE IF declared /\ NominalPeriod[s] > 0 THEN Threshold("F3", NominalPeriod[s])
    ELSE NoThreshold("F1")

\* CHAIN_LINK_CONTINUITY_ONLY on two neighbours of the bundle.
Linked(prev, cur) == cur.hash # <<>> /\ prev.hash # <<>> /\ cur.prev = prev.hash

\* The bisections of observe_window: the last record at or before a, the
\* first at or after b; 0 and Len + 1 when there is none.
Span(evs, a, b) ==
    [left |-> Cardinality({k \in DOMAIN evs : evs[k].rec.t <= a}),
     right |-> Cardinality({k \in DOMAIN evs : evs[k].rec.t < b}) + 1]

\* _chain_state over the span: the status and the first hole in the numbers.
ChainState(evs, lo, hi, class) ==
    LET pairs == {k \in lo..(hi - 1) : TRUE}
        holes == {k \in pairs : evs[k + 1].rec.seq > evs[k].rec.seq + 1}
    IN IF class = "NONE" THEN [status |-> "ABSENT", missing |-> <<>>]
       ELSE IF \E k \in pairs : ~Linked(evs[k], evs[k + 1])
       THEN [status |-> "UNVERIFIED", missing |-> <<>>]
       ELSE [status |-> "VERIFIED",
             missing |-> IF holes = {} THEN <<>>
                         ELSE <<evs[Min(holes)].rec.seq, evs[Min(holes) + 1].rec.seq>>]

\* observe_window
Observe(evs, a, b, class) ==
    LET span == Span(evs, a, b)
        bracketed == span.left > 0 /\ span.right <= Len(evs)
    IN [regime |-> PhaseOf(a), bracketed |-> bracketed,
        n |-> IF bracketed THEN span.right - span.left + 1 ELSE 0,
        gap |-> IF bracketed
                THEN Max({0} \cup {evs[k + 1].rec.t - evs[k].rec.t : k \in span.left..(span.right - 1)})
                ELSE 0,
        chain |-> IF bracketed THEN ChainState(evs, span.left, span.right, class)
                  ELSE [status |-> IF class = "NONE" THEN "ABSENT" ELSE "VERIFIED", missing |-> <<>>]]

Reasons ==
    {"NO_PROFILE", "REGIME", "INSUFFICIENT", "OVERFLOW", "CHAIN", "UNBRACKETED",
     "UNDERSAMPLED", "GAP", "OK", "CHAINED", "SEQUENCED"}

Outcome(verdict, reason, missing) == [verdict |-> verdict, reason |-> reason, missing |-> missing]

\* Mutant of Ladder: a hole in the numbers is not looked at.
LadderWithoutNumbers(o, thr, class) ==
    << <<thr.mode = "F2",                  Outcome("BLIND", "NO_PROFILE", <<>>)>>,
       <<o.regime = NoRegime,              Outcome("BLIND", "REGIME", <<>>)>>,
       <<~thr.known,                       Outcome("BLIND", "INSUFFICIENT", <<>>)>>,
       <<thr.saturated,                    Outcome("BLIND", "OVERFLOW", <<>>)>>,
       <<o.chain.status = "UNVERIFIED",    Outcome("BLIND", "CHAIN", <<>>)>>,
       <<~o.bracketed,                     Outcome("BLIND", "UNBRACKETED", <<>>)>>,
       <<o.n < MMin,                       Outcome("BLIND", "UNDERSAMPLED", <<>>)>>,
       <<o.gap > thr.ns,                   Outcome("BLIND", "GAP", <<>>)>>,
       <<TRUE,                             Outcome("LIVE", "OK", <<>>)>> >>

\* The rules R1..R11 in their order, each with what it answers.
Ladder(o, thr, class) ==
    << <<thr.mode = "F2",                  Outcome("BLIND", "NO_PROFILE", <<>>)>>,
       <<o.regime = NoRegime,              Outcome("BLIND", "REGIME", <<>>)>>,
       <<~thr.known,                       Outcome("BLIND", "INSUFFICIENT", <<>>)>>,
       <<thr.saturated,                    Outcome("BLIND", "OVERFLOW", <<>>)>>,
       <<o.chain.status = "UNVERIFIED",    Outcome("BLIND", "CHAIN", <<>>)>>,
       <<o.chain.missing # <<>>,           Outcome("SUPPRESSED", class, o.chain.missing)>>,
       <<~o.bracketed,                     Outcome("BLIND", "UNBRACKETED", <<>>)>>,
       <<o.n < MMin,                       Outcome("BLIND", "UNDERSAMPLED", <<>>)>>,
       <<o.gap > thr.ns,                   Outcome("BLIND", "GAP", <<>>)>>,
       <<TRUE,                             Outcome("LIVE", "OK", <<>>)>> >>

\* classify: the first rule that matches.
Classify(o, thr, class) ==
    LET rules == Ladder(o, thr, class) IN rules[Min({k \in DOMAIN rules : rules[k][1]})][2]

-----------------------------------------------------------------------------

\* breakpoints
Grid(evs, extra) ==
    {T0, T1} \cup {x \in {evs[k].rec.t : k \in DOMAIN evs}
                         \cup {p.t0 : p \in Phases} \cup {p.t1 : p \in Phases} \cup extra :
                     T0 <= x /\ x <= T1}

\* _observe_and_mode
ThresholdOf(profile, s, regime, flags) ==
    IF flags.noProfile THEN NoThreshold("F2")
    ELSE IF regime = NoRegime THEN NoThreshold("F1")
    ELSE RegimeThreshold(profile, s, regime, flags.declared)

\* The outcomes of the elementary windows of a source, in order.
Elementary(evs, s, profile, flags, extra) ==
    LET grid == Ascending(Grid(evs, extra), <) IN
    [k \in 1..(Len(grid) - 1) |->
        LET o == Observe(evs, grid[k], grid[k + 1], Class[s]) IN
        [t0 |-> grid[k], t1 |-> grid[k + 1],
         out |-> Classify(o, ThresholdOf(profile, s, o.regime, flags), Class[s])]]

\* _merge: neighbours that say the same become one interval.
Merge(windows) ==
    FoldLeft(LAMBDA acc, w :
                IF acc # <<>> /\ Last(acc).out = w.out /\ Last(acc).t1 = w.t0
                THEN [acc EXCEPT ![Len(acc)].t1 = w.t1]
                ELSE Append(acc, w), <<>>, windows)

\* The time the intervals of one verdict and reason take up.
Volume(intervals, verdict, reasons) ==
    FoldLeft(LAMBDA acc, i : IF i.out.verdict = verdict /\ i.out.reason \in reasons
                             THEN acc + (i.t1 - i.t0) ELSE acc, 0, intervals)

Strength == [F0 |-> 3, F3 |-> 2, F1 |-> 1, F2 |-> 0]
Weakest(modes) ==
    IF modes = {} THEN "F1" ELSE CHOOSE m \in modes : \A n \in modes : Strength[m] <= Strength[n]

\* One source of build_liveness_document.
SourceLiveness(evs, s, profile, flags, extra) ==
    LET intervals == Merge(Elementary(evs, s, profile, flags, extra))
        regimes == {PhaseOf(a) : a \in Grid(evs, extra) \ {T1}} \ {NoRegime}
    IN [intervals |-> intervals,
        mode |-> IF flags.noProfile THEN "F2"
                 ELSE Weakest({ThresholdOf(profile, s, g, flags).mode : g \in regimes}),
        blind |-> [r \in Reasons |-> Volume(intervals, "BLIND", {r})],
        suppressed |-> Volume(intervals, "SUPPRESSED", Reasons),
        published |-> /\ ~flags.noProfile /\ Cardinality(regimes) = 1
                      /\ \A g \in regimes : LET thr == ThresholdOf(profile, s, g, flags)
                                            IN thr.known /\ ~thr.saturated,
        suspected |-> FALSE]

Document(bundle, profile, flags, extra) ==
    LET sources == [s \in Sources |-> SourceLiveness(bundle[s], s, profile, flags, extra)] IN
    [sources |-> sources,
     unauthenticated |-> \E s \in Sources : Class[s] = "SEQUENCED" /\ sources[s].suppressed > 0,
     uncalibrated |-> \E s \in Sources : sources[s].mode \in {"F1", "F3"},
     disputed |-> {}]

\* apply_temporal_dispute: the sources are marked, nothing is removed.
Disputed(doc, events) ==
    [doc EXCEPT !.disputed = events,
                !.sources = [s \in Sources |->
                    [doc.sources[s] EXCEPT !.suspected = \E e \in events : e.src = s]]]

\* licence_disputed
LicenceDisputed(doc, s, t0, t1) == \E e \in doc.disputed : e.src = s /\ t0 <= e.t /\ e.t <= t1

NoTamperToken(doc) == ~\E s \in Sources : doc.sources[s].suspected

-----------------------------------------------------------------------------
\* The questions of S8 and S9 over [t0, t1): the intervals that overlap it.
Overlapping(intervals, t0, t1) == {k \in DOMAIN intervals : intervals[k].t0 < t1 /\ t0 < intervals[k].t1}

\* live
IsLive(doc, s, t0, t1) ==
    LET all == doc.sources[s].intervals
    IN /\ all # <<>> /\ t0 < t1
       /\ all[1].t0 <= t0 /\ t1 <= Last(all).t1
       /\ \A k \in Overlapping(all, t0, t1) : all[k].out.verdict = "LIVE"

\* maximal_non_live_runs
NonLiveRuns(doc, s) ==
    FoldLeft(LAMBDA acc, i :
                IF i.out.verdict = "LIVE" THEN acc
                ELSE IF acc # <<>> /\ Last(acc)[2] = i.t0
                THEN [acc EXCEPT ![Len(acc)][2] = i.t1]
                ELSE Append(acc, <<i.t0, i.t1>>), <<>>, doc.sources[s].intervals)

\* licences_for: the fragments, and whether it returns them instead of raising.
LicencesFor(doc, s, t0, t1) ==
    LET all == doc.sources[s].intervals
        over == Overlapping(all, t0, t1)
    IN [granted |-> /\ t0 < t1 /\ over # {}
                    /\ all[Min(over)].t0 <= t0 /\ t1 <= all[Max(over)].t1
                    /\ \A k \in over : all[k].out.verdict # "LIVE",
        fragments |-> {<<all[k].t0, all[k].t1>> : k \in over}]

\* Mutant of IssueLicences: being not live throughout is enough.
IssueLicencesOfNotLive(doc, producing, t0, t1) ==
    [granted |-> producing # {} /\ \A s \in producing : ~IsLive(doc, s, t0, t1),
     blocked |-> {s \in producing : IsLive(doc, s, t0, t1)}]

\* issue_licences; nothing is ever voided by this code.
IssueLicences(doc, producing, t0, t1) ==
    LET blocked == {s \in producing : IsLive(doc, s, t0, t1) \/ ~LicencesFor(doc, s, t0, t1).granted}
    IN [granted |-> producing # {} /\ blocked = {}, blocked |-> blocked]

\* absence_status
AbsenceStatus(doc, producing, t0, t1) ==
    IF producing = {} THEN "UNDETERMINED"
    ELSE IF \A s \in producing : IsLive(doc, s, t0, t1) THEN "OBSERVED"
    ELSE IF \A s \in producing : ~IsLive(doc, s, t0, t1) THEN "LICENSED"
    ELSE "UNDETERMINED"
=============================================================================
