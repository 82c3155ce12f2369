----------------------------- MODULE Telemetry -----------------------------
(***************************************************************************)
(* The way of a telemetry stream from the generator to the verdict on its  *)
(* sensors: S3 (degrade.py) takes records away or rewrites one, S4         *)
(* (ingest.py) reads the file line by line and seals it, S6 (calibrate.py) *)
(* builds a profile from another run, S7 (liveness.py) says where each     *)
(* source was live and the temporal pass (temporal.py) which records it    *)
(* does not believe. Each stage is a command of its own: between S4 and S7 *)
(* the sealed file may lose a line, and the profile file may be edited.    *)
(***************************************************************************)
EXTENDS Liveness, Temporal

CONSTANTS
    Streams,        \* sets of emitted records the generator may produce
    Levels,         \* completeness levels, <<num, den>>
    Blackouts,      \* set of [sources, lo, hi]
    Shifts,         \* shifts a backdated record may be given
    ForgedCounts,   \* numbers of records a forge adds
    ExternalFiles,  \* sequences of [rec, defects] from elsewhere
    Calibrations,   \* set of [reference, degspec, scenario, collapse]
    Seeds,          \* seeds of the run under analysis
    Scenario,       \* [config, family, excluded] of the run under analysis
    Flags,          \* set of [noProfile, declared]
    RuleSeqs,       \* sets of [left, right, within] a caller may pass to the pass
    ExactCap        \* mcs_exact_cap

\* What the generator emits (gen.py): each source numbers its records from 0
\* in the order of their instants.
Fields == {"src", "seq", "t", "type", "attrs"}
WellFormed(r) == DOMAIN r = Fields /\ r.src \in Sources /\ r.seq \in Nat /\ r.t \in Int
Numbered(records) ==
    /\ IsFiniteSet(records)
    /\ \A r \in records :
          /\ WellFormed(r)
          /\ r.seq = 0 \/ \E q \in Of(records, r.src) : q.seq = r.seq - 1
          /\ \A q \in Of(records, r.src) : (q.seq = r.seq => q = r) /\ (q.seq < r.seq => q.t <= r.t)

ASSUME StreamsAssumption == \A records \in Streams : Numbered(records)

\* A line that fails no check of S4 spells a record of a declared source.
ASSUME FilesAssumption ==
    \A f \in ExternalFiles :
        f \in Seq(Range(f)) /\ \A k \in DOMAIN f : f[k].defects = {} => WellFormed(f[k].rec)

\* What the gates compare of a scenario is the whole of it.
ASSUME ScenarioAssumption ==
    \A sc \in {Scenario} \cup {c.scenario : c \in Calibrations} :
        sc = [config |-> sc.config, family |-> sc.family, excluded |-> sc.excluded]

\* A calibration run that was not degraded is a run of the generator.
ASSUME CalibrationsAssumption == \A c \in Calibrations : c.degspec = Identity => Numbered(c.reference)

ASSUME ChoicesAssumption ==
    Shifts \subseteq Int /\ ForgedCounts \subseteq Nat \ {0}

\* A rule's `within' is a duration (rules.duration_ticks), which is never negative.
ASSUME RuleSeqsAssumption == \A i \in RuleSeqs : i.within \in Nat

VARIABLES
    phase,          \* "emitted", "raw", "sealed", "calibrated", "judged", "done", "passed", "aborted"
    emitted,        \* the records the generator produced
    op,             \* the operator S3 applied, "none", or "external"
    file,           \* raw.jsonl: a sequence of [rec, defects]
    pos,            \* lines read
    cands,          \* lines that passed, [n, rec]
    quarantine,     \* lines that did not, [n, reason]
    bundle,         \* source -> its sealed events
    cut,            \* whether the sealed file lost a line
    profile,        \* the profile file [body, id]
    used,           \* [flags, rules]: what S7 and the pass were given
    doc,            \* the liveness document
    found           \* the result of the temporal pass

vars == <<phase, emitted, op, file, pos, cands, quarantine, bundle, cut, profile, used, doc, found>>

NoProfile == WriteProfile(BuildProfile({}, Identity, Scenario, FALSE))
EmptyBundle == [s \in Sources |-> <<>>]
NoFlags == [noProfile |-> TRUE, declared |-> FALSE]
NoDocument == Document(EmptyBundle, NoProfile.body, NoFlags, {})
NothingFound == [events |-> {}, greedy |-> FALSE, exhausted |-> FALSE]

InFileOrder(a, b) ==
    \/ a.t < b.t
    \/ a.t = b.t /\ (a.src < b.src \/ (a.src = b.src /\ a.seq < b.seq))

\* The file S3 writes: the stream in its order, every line clean.
FileOf(records) ==
    LET all == Ascending(records, InFileOrder)
    IN [k \in DOMAIN all |-> [rec |-> all[k], defects |-> {}]]

Init ==
    /\ emitted \in Streams
    /\ phase = "emitted" /\ op = "none" /\ file = <<>> /\ pos = 0
    /\ cands = {} /\ quarantine = {} /\ bundle = EmptyBundle /\ cut = FALSE
    /\ profile = NoProfile /\ used = [flags |-> NoFlags, rules |-> {}]
    /\ doc = NoDocument /\ found = NothingFound

-----------------------------------------------------------------------------
\* S3. One operator per run; the degraded stream goes to raw.jsonl.
Write(name, records) ==
    /\ phase = "emitted"
    /\ phase' = "raw" /\ op' = name /\ file' = FileOf(records)
    /\ UNCHANGED <<emitted, pos, cands, quarantine, bundle, cut, profile, used, doc, found>>

Degrade ==
    \E c \in Levels, gone \in SUBSET emitted :
        /\ \A s \in Sources : Deletes(Of(gone, s), Of(emitted, s), c)
        /\ Write("delete", emitted \ gone)

Blackout == \E b \in Blackouts : Write("blackout", emitted \ BlackedOut(emitted, b.sources, b.lo, b.hi))

Backdate ==
    \E r \in emitted, d \in Shifts :
        BackdateAccepts(r, d) /\ Write("backdate", Backdated(emitted, r, d))

StripIdentity ==
    \E s \in Sources :
        LET keys == UNION {r.attrs : r \in emitted} IN
        StripAccepts(emitted, s, keys) /\ Write("strip", Stripped(emitted, s, keys))

ChainForge ==
    \E host \in emitted, n \in ForgedCounts :
        ForgeAccepts(emitted, host, n) /\ Write("forge", Forged(emitted, host, n))

\* `ingest --raw': a file this pipeline did not write, nothing having been generated.
Supply ==
    /\ phase = "emitted" /\ emitted = {}
    /\ \E f \in ExternalFiles : file' = f
    /\ phase' = "raw" /\ op' = "external"
    /\ UNCHANGED <<emitted, pos, cands, quarantine, bundle, cut, profile, used, doc, found>>

-----------------------------------------------------------------------------

\* S4. The next line, with its number.
ThisLine == [n |-> pos + 1, rec |-> file[pos + 1].rec, defects |-> file[pos + 1].defects]

ReadLine ==
    /\ phase = "raw" /\ pos < Len(file) /\ ~Contaminated(ThisLine)
    /\ pos' = pos + 1
    /\ IF Clean(ThisLine)
       THEN cands' = cands \cup {[n |-> ThisLine.n, rec |-> ThisLine.rec]} /\ UNCHANGED quarantine
       ELSE quarantine' = quarantine \cup {[n |-> ThisLine.n, reason |-> Reason(ThisLine)]} /\ UNCHANGED cands
    /\ UNCHANGED <<phase, emitted, op, file, bundle, cut, profile, used, doc, found>>

\* A ground-truth label in the file ends the run.
MeetLabel ==
    /\ phase = "raw" /\ pos < Len(file) /\ Contaminated(ThisLine)
    /\ phase' = "aborted"
    /\ UNCHANGED <<emitted, op, file, pos, cands, quarantine, bundle, cut, profile, used, doc, found>>

Seal ==
    /\ phase = "raw" /\ pos = Len(file)
    /\ phase' = "sealed"
    /\ bundle' = [s \in Sources |-> Sealed(Of(Kept(cands), s), Class[s])]
    /\ quarantine' = quarantine \cup CrossDrops(cands)
    /\ UNCHANGED <<emitted, op, file, pos, cands, cut, profile, used, doc, found>>

\* bundle.jsonl loses a line before the next command reads it back;
\* read_bundle checks every line and their order, not the links.
LoseLine ==
    /\ phase = "sealed" /\ ~cut
    /\ \E s \in Sources : \E k \in DOMAIN bundle[s] :
          bundle' = [bundle EXCEPT ![s] = RemoveAt(@, k)]
    /\ cut' = TRUE
    /\ UNCHANGED <<phase, emitted, op, file, pos, cands, quarantine, profile, used, doc, found>>

-----------------------------------------------------------------------------
Records == UNION {{bundle[s][k].rec : k \in DOMAIN bundle[s]} : s \in Sources}

\* S6: a profile from a run of its own, or from the bundle under analysis.
Calibrate ==
    /\ phase = "sealed"
    /\ \/ \E c \in Calibrations :
            profile' = WriteProfile(BuildProfile(c.reference, c.degspec, c.scenario, c.collapse))
       \/ profile' = WriteProfile(BuildProfile(Records, Identity, Scenario, FALSE))
    /\ phase' = "calibrated"
    /\ UNCHANGED <<emitted, op, file, pos, cands, quarantine, bundle, cut, used, doc, found>>

\* The stored profile is edited: every order statistic is raised.
EditProfile ==
    /\ phase = "calibrated" /\ LoadProfile(profile)
    /\ profile' = [profile EXCEPT !.body.gaps =
                      [s \in Sources |-> [g \in Regimes |-> [n |-> NMin, q |-> T1]]]]
    /\ UNCHANGED <<phase, emitted, op, file, pos, cands, quarantine, bundle, cut, used, doc, found>>

\* S7 with a profile that passes the gates, or told to do without one.
Judge ==
    /\ phase = "calibrated"
    /\ \E f \in Flags, seed \in Seeds :
          /\ f.noProfile \/ (LoadProfile(profile) /\ FailedGates(profile.body, Records, seed, Scenario) = {})
          /\ used' = [flags |-> f, rules |-> {}]
          /\ doc' = Document(bundle, profile.body, f, {})
    /\ phase' = "judged"
    /\ UNCHANGED <<emitted, op, file, pos, cands, quarantine, bundle, cut, profile, found>>

\* A profile whose id does not recompute, or that fails a gate, ends the run.
Refuse ==
    /\ phase = "calibrated"
    /\ \E f \in Flags, seed \in Seeds :
          ~f.noProfile /\ (~LoadProfile(profile) \/ FailedGates(profile.body, Records, seed, Scenario) # {})
    /\ phase' = "aborted"
    /\ UNCHANGED <<emitted, op, file, pos, cands, quarantine, bundle, cut, profile, used, doc, found>>

\* The temporal pass of S7, which is given no rule instance.
Dispute ==
    /\ phase = "judged"
    /\ \E kept \in {Records} : found' \in RunPass(kept, {}, ExactCap)
    /\ doc' = Disputed(doc, found'.events)
    /\ phase' = "done"
    /\ UNCHANGED <<emitted, op, file, pos, cands, quarantine, bundle, cut, profile, used>>

\* run_pass over a sealed bundle, for a caller that has rule instances.
PassOverRules ==
    /\ phase = "sealed"
    /\ \E kept \in {Records}, rules \in SUBSET RuleSeqs :
          /\ rules # {} /\ \A i \in rules : {i.left, i.right} \subseteq kept
          /\ found' \in RunPass(kept, rules, ExactCap)
          /\ used' = [used EXCEPT !.rules = rules]
    /\ phase' = "passed"
    /\ UNCHANGED <<emitted, op, file, pos, cands, quarantine, bundle, cut, profile, doc>>

Done == phase \in {"done", "passed", "aborted"} /\ UNCHANGED vars

Next ==
    \/ Degrade \/ Blackout \/ Backdate \/ StripIdentity \/ ChainForge \/ Supply
    \/ ReadLine \/ MeetLabel \/ Seal \/ LoseLine
    \/ Calibrate \/ EditProfile \/ Judge \/ Refuse \/ Dispute \/ PassOverRules
    \/ Done

Spec == Init /\ [][Next]_vars

-----------------------------------------------------------------------------
TypeOK ==
    /\ phase \in {"emitted", "raw", "sealed", "calibrated", "judged", "done", "passed", "aborted"}
    /\ emitted \in Streams /\ pos \in 0..Len(file) /\ cut \in BOOLEAN
    /\ op \in {"none", "delete", "blackout", "backdate", "strip", "forge", "external"}
    /\ \A c \in cands : c.n \in 1..pos
    /\ \A s \in Sources : \A k \in DOMAIN bundle[s] : bundle[s][k].rec.src = s
    /\ used.flags \in Flags \cup {NoFlags}

\* S4 is a function of the lines and not of their order: a raw file and the
\* same file read backwards seal the same bundle (ingest_bytes).
BundleIsOrderFree ==
    LET back(c) == [c EXCEPT !.n = Len(file) + 1 - @] IN
    phase = "sealed" /\ ~cut =>
        \A s \in Sources : bundle[s] = Sealed(Of(Kept({back(c) : c \in cands}), s), Class[s])

\* Every line of the raw file becomes exactly one sealed record or exactly one
\* quarantine entry, and a chain that S4 sealed verifies end to end.
EveryLineAccounted ==
    phase = "sealed" /\ ~cut =>
        /\ \A n \in 1..Len(file) :
              Cardinality({q \in quarantine : q.n = n})
              + Cardinality({c \in cands : c.n = n /\ c.rec \in Records /\
                                \A d \in cands : d.rec = c.rec => c.n <= d.n}) = 1
        /\ Len(file) = Cardinality(Records) + Cardinality(quarantine)
        /\ \A s \in Sources : Class[s] # "NONE" => VerifyChain(bundle[s]) = {}

LiveAt(d, s, t) ==
    \E k \in DOMAIN d.sources[s].intervals :
        LET i == d.sources[s].intervals[k] IN i.t0 <= t /\ t < i.t1 /\ i.out.verdict = "LIVE"

LiveInstants(d, s) == {t \in Instants : LiveAt(d, s, t)}

\* The consecutive arrivals of the calibration run inside one regime.
ReferenceGaps(s, g) ==
    LET ref == Of(profile.body.reference, s) IN
    {p \in ref \X ref :
        /\ p[2].seq = p[1].seq + 1 /\ PhaseOf(p[1].t) = g /\ PhaseOf(p[2].t) = g
        /\ ~\E x \in Scenario.excluded : Meets(x, p[1].t, p[2].t)}

\* The threshold is at most the ceiling of slack times a gap that fewer than
\* the p/q-th share of the reference gaps stay below.
WithinReference(s, g, gap) ==
    LET refs == ReferenceGaps(s, g) IN
    /\ Cardinality(refs) >= NMin
    /\ \E r \in refs :
        LET q == r[2].t - r[1].t
            shorter == {x \in refs : x[2].t - x[1].t < q}
        IN /\ (gap - 1) * SlackDen < q * SlackNum
           /\ shorter = {} \/ Cardinality(shorter) * QuantileQ < Cardinality(refs) * QuantileP
           /\ CeilDiv(q * SlackNum, SlackDen) <= U64Max

\* classify says LIVE only at an instant that lies between two neighbouring
\* records, in a known regime, no further apart than what the calibration run
\* (or the declared period, where allowed) makes normal; on a linked source the
\* two are linked and consecutively numbered.
LiveIsWitnessed ==
    phase = "judged" => \A s \in Sources, t \in Instants : LiveAt(doc, s, t) =>
        /\ ~used.flags.noProfile /\ PhaseOf(t) # NoRegime
        /\ \E k \in 1..(Len(bundle[s]) - 1) :
              LET l == bundle[s][k]
                  r == bundle[s][k + 1]
                  gap == r.rec.t - l.rec.t
              IN /\ l.rec.t <= t /\ t < r.rec.t
                 /\ \/ WithinReference(s, PhaseOf(t), gap)
                    \/ /\ used.flags.declared /\ NominalPeriod[s] > 0
                       /\ (gap - 1) * SlackDen < NominalPeriod[s] * SlackNum
                 /\ Class[s] # "NONE" => r.prev = l.hash /\ r.rec.seq <= l.rec.seq + 1

\* A record that a linked source emitted and that the bundle no longer holds,
\* whether S3 removed it, S4 refused it or the sealed file lost it, leaves no
\* LIVE verdict at its instant, unless another record of the source survives there.
NoHiddenLoss ==
    phase = "judged" /\ op \notin {"backdate", "external"} =>
        \A r \in emitted :
            /\ Class[r.src] # "NONE"
            /\ ~\E k \in DOMAIN bundle[r.src] : bundle[r.src][k].rec.t = r.t
            => ~LiveAt(doc, r.src, r.t)

\* The clean stream as S4 would have sealed it.
CleanBundle == [s \in Sources |-> Sealed(Of(emitted, s), Class[s])]

\* Taking records away never makes an instant LIVE, and never moves the
\* threshold it is judged by: what S7 calls LIVE is LIVE, in the bundle and in
\* the whole stream alike, under a calibration on another, clean run.
SuppressionNeverHides ==
    phase = "judged" /\ op \in {"delete", "blackout", "strip"} =>
        LET clean == {BuildProfile(c.reference, Identity, Scenario, c.collapse) :
                         c \in {x \in Calibrations : x.degspec = Identity /\ x.scenario = Scenario}}
            pairs == {<<Document(bundle, p, used.flags, {}), Document(CleanBundle, p, used.flags, {})>> : p \in clean}
        IN \A s \in Sources, t \in Instants : LiveAt(doc, s, t) =>
              \E d \in pairs : LiveAt(d[1], s, t) /\ LiveAt(d[2], s, t)

\* The verdict and the reason at an instant do not depend on the endpoints the
\* envelope asks for (breakpoints).
QueryIndependent ==
    phase = "judged" => \A x \in Instants, s \in Sources :
        SourceLiveness(bundle[s], s, profile.body, used.flags, {x}).intervals = doc.sources[s].intervals

\* The document satisfies the checks of its constructors: the intervals tile
\* the span, the volumes add up to what is not LIVE, and a source without a
\* calibrated mode publishes no threshold.
DocumentIsAccepted ==
    phase \in {"judged", "done"} => \A s \in Sources :
        LET d == doc.sources[s]
        IN /\ d.intervals[1].t0 = T0 /\ Last(d.intervals).t1 = T1
           /\ \A k \in 1..(Len(d.intervals) - 1) :
                 d.intervals[k].t1 = d.intervals[k + 1].t0 /\ d.intervals[k].out # d.intervals[k + 1].out
           /\ SumFunction(d.blind) + d.suppressed = Cardinality({t \in Instants : ~LiveAt(doc, s, t)})
           /\ d.published => d.mode \in {"F0", "F3"}

\* issue_licences grants exactly the intervals inside the span over which every
\* producing source is nowhere LIVE; `absence' is OBSERVED exactly where every
\* one is LIVE throughout; the maximal runs are the instants that are not LIVE.
AnswersArePointwise ==
    phase = "judged" =>
        /\ \A r, s \in Sources : r <= s => \A here \in {LiveInstants(doc, r)}, there \in {LiveInstants(doc, s)} :
              \A t0, t1 \in T0..(T1 + 1) : t0 < t1 =>
                  LET span == t0..(t1 - 1) IN
                  /\ IssueLicences(doc, {r, s}, t0, t1).granted
                        <=> t1 <= T1 /\ span \cap (here \cup there) = {}
                  /\ (AbsenceStatus(doc, {r, s}, t0, t1) = "OBSERVED") <=> span \subseteq here \cap there
        /\ \A s \in Sources : \A runs \in {NonLiveRuns(doc, s)} :
              /\ UNION {runs[k][1]..(runs[k][2] - 1) : k \in DOMAIN runs} = Instants \ LiveInstants(doc, s)
              /\ \A k \in 1..(Len(runs) - 1) : runs[k][2] < runs[k + 1][1]

\* The pass disputes a smallest set of records whose removal leaves every
\* source's instants in the order of its numbers; a source keeps its token only
\* if it was in order.
CorrectionIsMinimum ==
    LET ordered(rs) == \A a, b \in rs : a.src = b.src /\ a.seq < b.seq => a.t <= b.t IN
    phase = "done" =>
        /\ doc.disputed \subseteq Records /\ ordered(Records \ doc.disputed)
        /\ \A s \in Sources : \A gone \in SUBSET Of(Records, s) :
              ordered(Of(Records, s) \ gone) => Cardinality(Of(doc.disputed, s)) <= Cardinality(gone)
        /\ NoTamperToken(doc) <=> ordered(Records)
        /\ ~found.exhausted

\* The instants that n freed records may be given: no constraint forces two of
\* them further apart than one, so n beyond those on record are enough.
Room(es, n) ==
    LET ts == {0} \cup {es[k].t : k \in DOMAIN es} IN (Min(ts) - n)..(Max(ts) + n)

\* With rule instances: the disputed records cover every contradiction, and the
\* pass says the rest cannot be satisfied exactly when no assignment of the
\* freed instants satisfies it.
FeasibleIsExact ==
    phase = "passed" =>
        LET es == Sequenced(Records)
            cs == Constraints(es, used.rules)
            freed == {k \in DOMAIN es : es[k] \in found.events}
            at(x, k) == IF k = 0 THEN 0 ELSE IF k \in freed THEN x[k] ELSE es[k].t
            kept == {c \in cs : ~(c.kind = "pin" /\ (c.u \in freed \/ c.v \in freed))}
        IN /\ \A v \in Violations(es, cs) : v.kind = "rule" => {v.u, v.v} \cap freed # {}
           /\ freed # {} =>
                 (found.exhausted <=> ~\E x \in [freed -> Room(es, Cardinality(freed))] :
                                          \A c \in kept : at(x, c.v) - at(x, c.u) <= c.w)

\* S4 loses nothing and depends on no order.
IntakeIsExact == TypeOK /\ BundleIsOrderFree /\ EveryLineAccounted

\* The liveness document is well-formed, a function of the bundle, and answers
\* every question of the later stages instant by instant.
DocumentIsExact == QueryIndependent /\ DocumentIsAccepted /\ AnswersArePointwise

\* The temporal pass disputes no more than it must, and says truly whether what
\* it leaves can be satisfied.
DisputeIsExact == CorrectionIsMinimum /\ FeasibleIsExact
=============================================================================
