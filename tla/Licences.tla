------------------------------ MODULE Licences ------------------------------
(***************************************************************************)
(* Stage S9 (spectra_vs/envelope.py): what the sensors could have missed.  *)
(* The liveness document tiles the time of the run, source by source, with *)
(* intervals that are LIVE or not.  A rule may be instantiated silently    *)
(* where every source that would have recorded it was not LIVE, and the    *)
(* instance cites a licence per run of silence it rests on; an obligation  *)
(* nothing satisfies becomes a ghost where it is licensed and a blind spot *)
(* where it is not.  Obligation O10 of the checker reads the same document *)
(* again.  A silent step is imagined once per combination of the entities  *)
(* its rule may draw, up to a ceiling nobody is told of.                   *)
(***************************************************************************)
EXTENDS Integers, FiniteSets, SequencesExt

CONSTANTS
    Source,
    Documents,        \* liveness documents: source -> sequence of intervals, none if absent
    Entities,         \* kind -> its resolved entities, by their rank in byte order
    DetectRules,      \* the silent_possible ones, in table order: [sources, body, head, kinds],
                      \* the last being silent_bind_kinds, a sequence of [name, kind]
    ObligationRules,  \* in table order: [sources, trigger, head, within]
    Observable,       \* facts the bundle may hold
    Derivable,        \* facts saturation may add
    Tick,             \* TICK_NS
    MaxBindings,      \* MAX_SILENT_BINDINGS
    MaxSilent         \* MAX_SILENT_INSTANCES

ASSUME TickAssumption == Tick \in Nat \ {0}
ASSUME CeilingsAssumption == MaxBindings \in Nat \ {0} /\ MaxSilent \in Nat

\* A row of the document: LivenessInterval of S7, which has a witness when it
\* is SUPPRESSED and only then (liveness.py:794).
Row(row) ==
    /\ row = [t0 |-> row.t0, t1 |-> row.t1, verdict |-> row.verdict,
              reason |-> row.reason, witness |-> row.witness]
    /\ row.t0 \in Int /\ row.t1 \in Int /\ row.t0 < row.t1
    /\ row.verdict \in {"LIVE", "BLIND", "SUPPRESSED"}
    /\ row.verdict = "SUPPRESSED" <=> row.witness # {}

\* SourceLiveness of S7: the intervals leave no hole.
ASSUME DocumentsAssumption ==
    \A d \in Documents : \A s \in Source :
        /\ d[s] \in Seq(Range(d[s]))
        /\ \A k \in DOMAIN d[s] : Row(d[s][k])
        /\ \A k \in 1..(Len(d[s]) - 1) : d[s][k].t1 = d[s][k + 1].t0

\* The two tables. A pattern is [pred, vars], a fact <<predicate, arguments,
\* tick>>. No rule derives a fact that a record shows.
ASSUME TablesAssumption ==
    /\ IsFiniteSet(Source)
    /\ DetectRules \in Seq(Range(DetectRules))
    /\ \A r \in Range(DetectRules) : r.sources \subseteq Source
    /\ ObligationRules \in Seq(Range(ObligationRules))
    /\ \A r \in Range(ObligationRules) : r.sources \subseteq Source /\ r.within \in Nat
    /\ \A f \in Observable \cup Derivable : f[3] \in Nat
    /\ Observable \cap Derivable = {}

VARIABLES
    doc,      \* the liveness document
    facts,    \* the engine's fact base
    silent,   \* admitted instances [rule, ghost, head, body, licences, t0, t1]
    minted,   \* licences
    spots,    \* blind spots [rule, trigger]
    capped,   \* record_cap was called
    phase,    \* "detect" | "oblige" | "done" | "accepted" | "rejected"
    rule,     \* index of the rule at hand in the table of the phase
    pending,  \* windows, then triggers, the rule still has to visit
    window,   \* the window at hand
    todo      \* bindings still to try in it

vars == <<doc, facts, silent, minted, spots, capped, phase, rule, pending, window, todo>>

-----------------------------------------------------------------------------
(* LivenessView. *)

NotLive(row) == row.verdict # "LIVE"

\* The cursor scan that `covering_runs' and the checker's `_non_live_over'
\* share: walk the rows that end after the cursor, stop at a hole or at a LIVE
\* row, and report the rows that cover [t0, t1). Runs have no LIVE row.
Scan(rows, t0, t1) ==
    FoldLeft(LAMBDA acc, row :
                 IF acc.stopped \/ row.t1 <= acc.cursor THEN acc
                 ELSE IF row.t0 > acc.cursor \/ ~NotLive(row) THEN [acc EXCEPT !.stopped = TRUE]
                 ELSE [acc EXCEPT !.found = Append(@, row), !.cursor = row.t1,
                                  !.stopped = row.t1 >= t1],
             [cursor |-> t0, stopped |-> FALSE, found |-> <<>>], rows)

\* Neighbours that say the same; their witnesses are joined.
Merged(runs, row) ==
    IF runs # <<>> /\ Last(runs).t1 = row.t0
       /\ Last(runs).verdict = row.verdict /\ Last(runs).reason = row.reason
    THEN [runs EXCEPT ![Len(runs)].t1 = row.t1, ![Len(runs)].witness = @ \cup row.witness]
    ELSE Append(runs, row)

Runs(rows) ==
    FoldLeft(LAMBDA runs, row : IF NotLive(row) THEN Merged(runs, row) ELSE runs, <<>>, rows)

\* Mutant of Covered: the rows need not reach the end of the window.
CoveredInPart(t0, t1, found) == t0 < t1 /\ found # <<>>

Covered(t0, t1, found) == t0 < t1 /\ found # <<>> /\ Last(found).t1 >= t1

CoveringRuns(rows, t0, t1) == Scan(Runs(rows), t0, t1).found

IsCovered(rows, t0, t1) == Covered(t0, t1, CoveringRuns(rows, t0, t1))

\* Boundaries of the intervals of all the sources.
Points(d, sources) ==
    UNION {UNION {{d[s][k].t0, d[s][k].t1} : k \in DOMAIN d[s]} : s \in sources}

\* From one boundary to the next.
Elementary(points) ==
    {w \in points \X points : w[1] < w[2] /\ \A p \in points : p <= w[1] \/ w[2] <= p}

\* Elementary windows that are blind on every source, joined when they touch.
JointBlindWindows(d, sources) ==
    LET points == Points(d, sources)
        Blind(w) == \A s \in sources : IsCovered(d[s], w[1], w[2])
    IN {[t0 |-> ab[1], t1 |-> ab[2]] :
           ab \in {ab \in points \X points :
                /\ ab[1] < ab[2]
                /\ \A w \in Elementary(points) : (ab[1] <= w[1] /\ w[2] <= ab[2]) => Blind(w)
                /\ \A w \in Elementary(points) : (w[2] = ab[1] \/ w[1] = ab[2]) => ~Blind(w)}}

Licence(s, run) ==
    [source |-> s, t0 |-> run.t0, t1 |-> run.t1, basis |-> run.verdict,
     reason |-> run.reason, witness |-> IF run.verdict = "SUPPRESSED" THEN run.witness ELSE {}]

\* _licences_for_window: every source has to be covered.
Licensed(sources, t0, t1) == \A s \in sources : IsCovered(doc[s], t0, t1)
LicencesFor(sources, t0, t1) ==
    UNION {{Licence(s, r) : r \in Range(CoveringRuns(doc[s], t0, t1))} : s \in sources}

-----------------------------------------------------------------------------
(* Bindings. *)

FactAt(p, b, tick) == <<p.pred, [n \in DOMAIN p.vars |-> b[p.vars[n]]], tick>>

Names(r) == {k.name : k \in Range(r.kinds)}

\* An entity for each name. A kind nobody has leaves no combination.
Combinations(r) ==
    {b \in [Names(r) -> UNION Range(Entities)] :
        \A k \in Range(r.kinds) : b[k.name] \in Entities[k.kind]}

\* The order of product().
Before(r, b, c) ==
    \E n \in DOMAIN r.kinds :
        /\ b[r.kinds[n].name] < c[r.kinds[n].name]
        /\ \A m \in 1..(n - 1) : b[r.kinds[m].name] = c[r.kinds[m].name]

Earlier(r, b) == {c \in Combinations(r) : Before(r, c, b)}

\* The first MaxBindings combinations. Nobody is told of the others.
SilentBindings(r) == {b \in Combinations(r) : Cardinality(Earlier(r, b)) < MaxBindings}

\* Does a binding say who every argument is?
Usable(r) == \A p \in r.body \cup {r.head} : Range(p.vars) \subseteq Names(r)

-----------------------------------------------------------------------------
(* The stage. *)

Init ==
    /\ doc \in Documents
    /\ facts \in SUBSET Observable
    /\ silent = {} /\ minted = {} /\ spots = {}
    /\ capped = FALSE
    /\ phase = "detect"
    /\ rule = 1
    /\ pending = IF DetectRules = <<>> THEN {} ELSE JointBlindWindows(doc, DetectRules[1].sources)
    /\ window = [t0 |-> 0, t1 |-> 0] /\ todo = {}

\* The silent instances of a window and a binding: a ghost premise for each
\* body fact the engine lacks, and the step itself, at the window's first tick.
SilentAt(r, w, b) ==
    LET tick == w.t0 \div Tick
        inst == [rule |-> r, ghost |-> FALSE, head |-> FactAt(r.head, b, tick),
                 body |-> {FactAt(p, b, tick) : p \in r.body},
                 licences |-> LicencesFor(r.sources, w.t0, w.t1), t0 |-> w.t0, t1 |-> w.t1]
    IN IF Usable(r)
       THEN {inst} \cup {[inst EXCEPT !.ghost = TRUE, !.head = f, !.body = {}] : f \in inst.body \ facts}
       ELSE {}

\* Mutant of GiveUp: nobody is told.
GiveUpQuietly == Cardinality(silent) >= MaxSilent /\ capped' = capped

\* At the ceiling the cap is recorded and the rule is left.
GiveUp == Cardinality(silent) >= MaxSilent /\ capped' = TRUE

NextDetect ==
    /\ rule' = rule + 1
    /\ pending' = IF rule = Len(DetectRules) THEN {}
                  ELSE JointBlindWindows(doc, DetectRules[rule + 1].sources)
    /\ todo' = {}
    /\ window' = window

\* The next window of _add_silent_detect, in time order. A joint window is
\* always licensed, as SilentIsUnseeable says, and its licences are minted even
\* when no binding is tried in it.
OpenWindow ==
    /\ phase = "detect"
    /\ rule <= Len(DetectRules)
    /\ todo = {}
    /\ \E w \in pending :
          /\ \A v \in pending : w.t0 <= v.t0
          /\ minted' = minted \cup LicencesFor(DetectRules[rule].sources, w.t0, w.t1)
          /\ pending' = pending \ {w}
          /\ window' = w
    /\ todo' = SilentBindings(DetectRules[rule])
    /\ UNCHANGED <<doc, facts, silent, spots, capped, phase, rule>>

\* One binding of the window: the ceiling first, then the instances.
AddSilentDetect ==
    /\ phase = "detect"
    /\ rule <= Len(DetectRules)
    /\ \E b \in todo :
          LET added == SilentAt(DetectRules[rule], window, b)
          IN /\ \A c \in todo \ {b} : Before(DetectRules[rule], b, c)
             /\ \/ /\ GiveUp
                   /\ NextDetect
                   /\ UNCHANGED <<facts, silent>>
                \/ /\ Cardinality(silent) < MaxSilent
                   /\ silent' = silent \cup added
                   /\ facts' = facts \cup {i.head : i \in added}
                   /\ todo' = todo \ {b}
                   /\ UNCHANGED <<capped, rule, pending, window>>
    /\ UNCHANGED <<doc, minted, spots, phase>>

DetectDone ==
    /\ phase = "detect"
    /\ rule <= Len(DetectRules)
    /\ pending = {} /\ todo = {}
    /\ NextDetect
    /\ UNCHANGED <<doc, facts, silent, minted, spots, capped, phase>>

Matches(p, f) == f[1] = p.pred /\ Len(f[2]) = Len(p.vars)

Triggers(k) == {f \in facts' : Matches(ObligationRules[k].trigger, f)}

\* engine.saturate between the two loops: which of the derivable facts the
\* grounded rules yield is left open.
Saturate ==
    /\ phase = "detect"
    /\ rule > Len(DetectRules)
    /\ \E D \in SUBSET Derivable : facts' = facts \cup D
    /\ phase' = "oblige"
    /\ rule' = 1
    /\ pending' = IF ObligationRules = <<>> THEN {} ELSE Triggers(1)
    /\ UNCHANGED <<doc, silent, minted, spots, capped, window, todo>>

NextObligation ==
    /\ rule' = rule + 1
    /\ pending' = IF rule = Len(ObligationRules) THEN {} ELSE Triggers(rule + 1)

\* The half-open lookback the obligation is about.
Lookback(r, f) ==
    [t0 |-> (IF f[3] > r.within THEN f[3] - r.within ELSE 0) * Tick, t1 |-> f[3] * Tick]

\* The trigger's arguments by variable; of a variable it has twice, the last.
Bound(p, f) ==
    [v \in Range(p.vars) |->
        f[2][CHOOSE n \in DOMAIN p.vars : p.vars[n] = v /\ \A m \in DOMAIN p.vars : m > n => p.vars[m] # v]]

\* Does the trigger bind the head?
Binds(r) == Range(r.head.vars) \subseteq Range(r.trigger.vars)

Obligated(r, f) == FactAt(r.head, Bound(r.trigger, f), f[3])

\* One trigger of _add_obligations. A head it does not bind is passed over.
AddObligation ==
    /\ phase = "oblige"
    /\ rule <= Len(ObligationRules)
    /\ \E f \in pending :
          LET r == ObligationRules[rule]
              head == Obligated(r, f)
              w == Lookback(r, f)
              lic == LicencesFor(r.sources, w.t0, w.t1)
              Visited == pending' = pending \ {f} /\ rule' = rule
          IN \/ /\ Binds(r) => head \in facts
                /\ Visited
                /\ UNCHANGED <<facts, silent, minted, spots, capped>>
             \/ /\ Binds(r) /\ head \notin facts
                /\ ~Licensed(r.sources, w.t0, w.t1)
                /\ spots' = spots \cup {[rule |-> rule, trigger |-> f]}
                /\ Visited
                /\ UNCHANGED <<facts, silent, minted, capped>>
             \/ /\ Binds(r) /\ head \notin facts
                /\ Licensed(r.sources, w.t0, w.t1)
                /\ GiveUp
                /\ minted' = minted \cup lic
                /\ facts' = facts
                /\ NextObligation
                /\ UNCHANGED <<silent, spots>>
             \/ /\ Binds(r) /\ head \notin facts
                /\ Licensed(r.sources, w.t0, w.t1)
                /\ Cardinality(silent) < MaxSilent
                /\ minted' = minted \cup lic
                /\ silent' = silent \cup
                      {[rule |-> r, ghost |-> TRUE, head |-> head, body |-> {f},
                        licences |-> lic, t0 |-> w.t0, t1 |-> w.t1]}
                /\ facts' = facts \cup {head}
                /\ Visited
                /\ UNCHANGED <<spots, capped>>
    /\ UNCHANGED <<doc, phase, window, todo>>

ObligationDone ==
    /\ phase = "oblige"
    /\ rule <= Len(ObligationRules)
    /\ pending = {}
    /\ facts' = facts
    /\ NextObligation
    /\ UNCHANGED <<doc, silent, minted, spots, capped, phase, window, todo>>

\* The last engine.saturate derives nothing new unless a ghost was added
\* since the one before.
Finish ==
    /\ phase = "oblige"
    /\ rule > Len(ObligationRules)
    /\ \E D \in SUBSET Derivable :
          /\ D # {} => \E i \in silent : i.ghost /\ i.body # {}
          /\ facts' = facts \cup D
    /\ phase' = "done"
    /\ UNCHANGED <<doc, silent, minted, spots, capped, rule, pending, window, todo>>

-----------------------------------------------------------------------------
(* O10 of the checker. *)

NonLiveOver(rows, t0, t1) == Scan(rows, t0, t1).cursor >= t1

\* A cited licence: all the producing sources of the rule are silent over the
\* whole of it, and its own source says so for the reason it gives.
Implied(i, lic) ==
    /\ lic.t0 < lic.t1
    /\ lic.basis \in {"BLIND", "SUPPRESSED"}
    /\ lic.basis = "BLIND" <=> lic.witness = {}
    /\ \A s \in i.rule.sources : doc[s] # <<>> /\ NonLiveOver(doc[s], lic.t0, lic.t1)
    /\ \E k \in DOMAIN doc[lic.source] :
          LET row == doc[lic.source][k]
          IN row.t0 < lic.t1 /\ lic.t0 < row.t1 /\ row.verdict = lic.basis /\ row.reason = lic.reason

Rejects(i) == \E lic \in i.licences : ~Implied(i, lic)

O10_Licenses ==
    /\ phase = "done"
    /\ phase' = IF \E i \in silent : Rejects(i) THEN "rejected" ELSE "accepted"
    /\ UNCHANGED <<doc, facts, silent, minted, spots, capped, rule, pending, window, todo>>

Next ==
    \/ OpenWindow \/ AddSilentDetect \/ DetectDone \/ Saturate
    \/ AddObligation \/ ObligationDone \/ Finish
    \/ O10_Licenses

Spec == Init /\ [][Next]_vars

-----------------------------------------------------------------------------
(* Properties. *)

\* Instants at which the document says of a source that it was not LIVE.
SilentInstants(s) == UNION {{t \in r.t0..(r.t1 - 1) : NotLive(r)} : r \in Range(doc[s])}

\* joint_blind_windows finds the maximal windows in which nobody was
\* listening, no instant more or less, however the intervals of the sources
\* overlap.
WindowsAreExact ==
    phase = "done" => \A r \in Range(DetectRules) :
        LET blind == {t \in UNION {SilentInstants(s) : s \in r.sources} :
                         \A s \in r.sources : t \in SilentInstants(s)}
        IN JointBlindWindows(doc, r.sources) =
             {[t0 |-> ab[1], t1 |-> ab[2] + 1] :
                 ab \in {ab \in blind \X blind :
                            /\ ab[1]..ab[2] \subseteq blind /\ ab[1] <= ab[2]
                            /\ ab[1] - 1 \notin blind /\ ab[2] + 1 \notin blind}}

\* Nothing that a sensor could have seen is imagined: over the whole window
\* a silent instance rests on, every producing source was silent, and the
\* licences it cites for that source cover the window between them.
SilentIsUnseeable ==
    phase = "done" => \A i \in silent : \A s \in i.rule.sources : \A t \in i.t0..(i.t1 - 1) :
        /\ t \in SilentInstants(s)
        /\ \E lic \in i.licences : lic.source = s /\ t \in lic.t0..(lic.t1 - 1)

\* What the obligations themselves put in, which no earlier one looks at.
Obliged == {i.head : i \in {x \in silent : x.ghost /\ x.body # {}}}

\* An envelope that is not flagged as capped holds, for every window, the steps
\* of the first MaxBindings combinations and no step of a later one: one that
\* is missing beyond that ceiling is missing without a flag. For every trigger
\* that binds the head, its rule saw it satisfied, or a blind spot where some
\* sensor was listening.
CompleteUpToBindings ==
    (phase = "done" /\ ~capped) =>
        /\ \A r \in Range(DetectRules) : \A w \in JointBlindWindows(doc, r.sources) :
              LET made == {i \in silent : i.rule = r /\ ~i.ghost /\ i.t0 = w.t0 /\ i.t1 = w.t1}
                  due == {b \in Combinations(r) : Usable(r) /\ Cardinality(Earlier(r, b)) < MaxBindings}
                  tick == w.t0 \div Tick
              IN {<<i.head, i.body>> : i \in made} =
                 {<<FactAt(r.head, b, tick), {FactAt(p, b, tick) : p \in r.body}>> : b \in due}
        /\ \A k \in DOMAIN ObligationRules : \A f \in (Observable \cap facts) \ Obliged :
              LET r == ObligationRules[k] IN
              (Matches(r.trigger, f) /\ Binds(r)) =>
                  \/ Obligated(r, f) \in facts
                  \/ /\ [rule |-> k, trigger |-> f] \in spots
                     /\ \/ Lookback(r, f).t0 = Lookback(r, f).t1
                        \/ \E s \in r.sources : \E t \in Lookback(r, f).t0..(Lookback(r, f).t1 - 1) :
                              t \notin SilentInstants(s)

\* The checker never refuses a licence of a rule that one source alone
\* produces.
SoleSourceIsAccepted ==
    phase = "done" => \A i \in silent : Cardinality(i.rule.sources) = 1 => ~Rejects(i)

\* A licence says no more than the document: the windows are exact, nothing a
\* sensor could have seen is imagined, and what one source alone produces is
\* accepted by the checker's own reading.
LicencesAreExact == WindowsAreExact /\ SilentIsUnseeable /\ SoleSourceIsAccepted
=============================================================================
