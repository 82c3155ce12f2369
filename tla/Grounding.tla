----------------------------- MODULE Grounding -----------------------------
(***************************************************************************)
(* Stages S8 and S9 around the engine of spectra_vs/ground.py: a fact base *)
(* seeded from the records of the bundle, a semi-naive fixpoint over the   *)
(* detect rules whose rules may be visited in any order, and the envelope  *)
(* that adds what the sensors could have missed and saturates again.  A    *)
(* fact is <<predicate, arguments, tick>>; fact keys and instance ids are  *)
(* content hashes, so a fact and an instance are their own key.  Licences  *)
(* are computed in module Licences: here an unseen step is a constant, and *)
(* a run may admit any set of them.                                        *)
(***************************************************************************)
EXTENDS Integers, FiniteSets, SequencesExt

CONSTANTS
    Bundles,          \* sets of records [id, source, type, roles, t]
    Rules,            \* detect rules, see RuleRecord
    Obligations,      \* in table order: [name, trigger, head, within], of predicates
    UnseenSteps,      \* what silence could license: [rule, bind, lo, hi]
    Tick,             \* TICK_NS
    MaxFacts, MaxInstances, MaxIterations

ASSUME CapsAssumption ==
    /\ Tick \in Nat \ {0}
    /\ MaxFacts \in Nat \ {0} /\ MaxInstances \in Nat \ {0} /\ MaxIterations \in Nat \ {0}

\* A pattern is [pred, vars, tick]; `when' is the set of slot pairs that have
\* to be in tick order; `temporal' is [op |-> "none"], "seq" [left, right,
\* within], "distinct" [of, field, n, within] or "absence" [pattern, before,
\* within]. The loader refuses an empty body, a slot that is none and a head
\* that is not bound (rules.py:1531, :1566). A rule's head is not in its own
\* body: `_apply' may then read the base as it was when the rule's turn came.
\* Where `distinct' or `absence' name a slot that is none, evaluating them
\* raises (ground.py:600, :626).
ASSUME RulesAssumption ==
    IsFiniteSet(Rules) /\ \A r \in Rules :
        /\ r.body \in Seq(Range(r.body)) \ {<<>>}
        /\ \E k \in DOMAIN r.body : r.body[k].tick = r.head.tick
        /\ r.temporal.op = "seq" =>
               /\ r.temporal.left \in DOMAIN r.body /\ r.temporal.right \in DOMAIN r.body
               /\ r.temporal.within \in Int
        /\ \A k \in DOMAIN r.body : r.body[k].pred # r.head.pred
        /\ r.temporal.op = "distinct" => r.temporal.of \in DOMAIN r.body
        /\ r.temporal.op = "absence" =>
               r.temporal.pattern.pred # r.head.pred /\ r.temporal.before \in DOMAIN r.body

\* What S4 and S5 hand over; no rule derives the predicate of a record
\* (EVENT_TYPE_PREDICATE, pipeline.py:131; axiom_predicates, rules.py:1637).
ASSUME RecordsAssumption ==
    \A b \in Bundles :
        /\ IsFiniteSet(b)
        /\ \A e \in b : e.t \in Nat /\ \A r \in Rules : e.type # r.head.pred

\* The rule a step was licensed by.
RuleOf(id) == CHOOSE r \in Rules : r.id = id

\* A licence is of a rule of the table, for a window that is not empty.
ASSUME SilenceAssumption ==
    /\ Obligations \in Seq(Range(Obligations))
    /\ \A u \in UnseenSteps :
           /\ \E r \in Rules : r.id = u.rule
           /\ u.lo \in Int /\ u.hi \in Int /\ u.lo <= u.hi

\* The predicates `distinct' counts and `absence' looks for.
Watched ==
    {r.body[r.temporal.of].pred : r \in {x \in Rules : x.temporal.op = "distinct"}}
    \cup {r.temporal.pattern.pred : r \in {x \in Rules : x.temporal.op = "absence"}}

\* The shape of config/vs/rules.toml: what is watched is recorded, and is
\* neither derived nor obliged nor the premise of a step nobody saw. In a
\* table of another shape the order of the rules matters.
ASSUME StrataAssumption ==
    /\ \A r \in Rules : r.head.pred \notin Watched
    /\ \A o \in Range(Obligations) : o.head \notin Watched
    /\ \A u \in UnseenSteps : \A k \in DOMAIN RuleOf(u.rule).body :
           RuleOf(u.rule).body[k].pred \notin Watched

\* And there, the tick of a slot that the head of an unseen step can fill is
\* that slot's alone: neither another slot nor the rule's own head has it, and
\* no `absence' is anchored on it. In a table of another shape a fact derived
\* from a licensed step has the step's representative tick and no window.
ASSUME PlacesAssumption ==
    \A u \in UnseenSteps, r \in Rules : \A k \in DOMAIN r.body :
        r.body[k].pred = RuleOf(u.rule).head.pred =>
            /\ r.body[k].tick # r.head.tick
            /\ \A j \in DOMAIN r.body \ {k} : r.body[j].tick # r.body[k].tick
            /\ r.temporal.op = "absence" => r.temporal.before # k

VARIABLES
    bundle,      \* the records handed to the engine
    plan,        \* the unseen steps and the obligations silence licenses
    facts,       \* _facts
    instances,   \* _instances
    licensed,    \* _licensed_facts
    ghosts,      \* _ghost_facts
    spans,       \* _licensed_span: fact -> <<lo, hi>>
    snap,        \* [free, spans]: the snapshots a saturation reads
    delta,       \* facts the pass at hand joins
    fresh,       \* _delta: facts the next pass will join
    todo,        \* rules the pass has not visited
    iterations,
    capped,
    phase,       \* "seed" | "lower" | "silent" | "upper" | "oblige" | "last" | "done" | "aborted"
    lower        \* the snapshot published as P_min: [facts, instances, capped]

base == <<facts, instances, licensed, ghosts, spans, fresh, capped>>
pass == <<snap, delta, todo, iterations>>
vars == <<bundle, plan, base, pass, phase, lower>>

-----------------------------------------------------------------------------
(* Seeding. *)

\* Arguments in ascending order of role name, whatever order er.json has.
AxiomFact(e) ==
    LET roles == SetToSortSeq(e.roles, LAMBDA a, b : a.role < b.role)
    IN <<e.type, [k \in DOMAIN roles |-> roles[k].entity], e.t \div Tick>>

AxiomEvents(f) == {e \in bundle : AxiomFact(e) = f}
Seeded == {AxiomFact(e) : e \in bundle}

\* bundle_absence_proxy: every source has a record in [lo, hi).
AbsenceIsObserved(sources, lo, hi) ==
    \A s \in sources : \E e \in bundle : e.source = s /\ lo <= e.t /\ e.t < hi

-----------------------------------------------------------------------------
(* Matching a rule against facts.                                          *)

Pred(f) == f[1]
Args(f) == f[2]
TickOf(f) == f[3]

Fits(p, f) == Pred(f) = p.pred /\ Len(Args(f)) = Len(p.vars)

\* The variables a pattern binds against a fact.
Bindings(p, f) == {<<p.vars[k], Args(f)[k]>> : k \in DOMAIN p.vars}
TickBinding(p, f) == {<<p.tick, TickOf(f)>>}

\* _unify: no variable is bound twice over.
Consistent(bind) == \A a, b \in bind : a[1] = b[1] => a[2] = b[2]

EntityBind(r, chosen) == UNION {Bindings(r.body[k], chosen[k]) : k \in DOMAIN r.body}
TickBind(r, chosen) == UNION {TickBinding(r.body[k], chosen[k]) : k \in DOMAIN r.body}

\* Mutant of Joins: an old pair with a new partner is forgotten.
JoinsOfTheNewOnly(r, known, new) ==
    {c \in [DOMAIN r.body -> new] :
        /\ \A k \in DOMAIN c : Fits(r.body[k], c[k])
        /\ Consistent(EntityBind(r, c)) /\ Consistent(TickBind(r, c))}

\* _enumerate over every pivot: at least one body fact is of the pass.
Joins(r, known, new) ==
    {c \in [DOMAIN r.body -> known] :
        /\ \E k \in DOMAIN c : c[k] \in new
        /\ \A k \in DOMAIN c : Fits(r.body[k], c[k])
        /\ Consistent(EntityBind(r, c)) /\ Consistent(TickBind(r, c))}

Lookup(bind, v) == (CHOOSE b \in bind : b[1] = v)[2]

HeadFact(r, chosen) ==
    <<r.head.pred, [k \in DOMAIN r.head.vars |-> Lookup(EntityBind(r, chosen), r.head.vars[k])],
      Lookup(TickBind(r, chosen), r.head.tick)>>

-----------------------------------------------------------------------------
(* The temporal operators. `s' is the snapshot [free, spans].               *)

Larger(a, b) == IF a < b THEN b ELSE a
Smaller(a, b) == IF a < b THEN a ELSE b

\* Mutant of SeqFeasible: only the earliest placement is tried.
SeqFeasibleAtStart(l, r, within) == l[1] < r[1] /\ r[1] <= l[1] + within

\* Some left and some right instant satisfy left < right <= left + within.
SeqFeasible(l, r, within) ==
    Larger(r[1] - l[2], 1) <= Smaller(r[2] - l[1], within)

\* An observed fact is an instant; a licensed one is its window, or unknown.
RangeKnown(f, s) == f \in s.free => f \in DOMAIN s.spans
TickRange(f, s) == IF f \in s.free THEN s.spans[f] ELSE <<TickOf(f), TickOf(f)>>

SeqHolds(r, chosen, s) ==
    LET l == chosen[r.temporal.left]
        t == chosen[r.temporal.right]
    IN (RangeKnown(l, s) /\ RangeKnown(t, s)) =>
           SeqFeasible(TickRange(l, s), TickRange(t, s), r.temporal.within)

\* _agrees_except: all bound arguments but the counted one.
Agrees(p, f, bind, free) ==
    Fits(p, f) /\ \A k \in DOMAIN p.vars \ {free} : <<p.vars[k], Args(f)[k]>> \in bind

Participants(r, chosen, known) ==
    LET op == r.temporal
        anchor == TickOf(chosen[op.of])
    IN {f \in known : /\ anchor - op.within <= TickOf(f) /\ TickOf(f) <= anchor
                      /\ Agrees(r.body[op.of], f, EntityBind(r, chosen), op.field)}

DistinctHolds(r, chosen, known) ==
    Cardinality({Args(f)[r.temporal.field] : f \in Participants(r, chosen, known)}) >= r.temporal.n

AbsenceHolds(r, chosen, known) ==
    LET op == r.temporal
        anchor == TickOf(chosen[op.before])
        low == anchor - op.within
    IN /\ ~ \E f \in known : /\ low <= TickOf(f) /\ TickOf(f) < anchor
                             /\ Fits(op.pattern, f)
                             /\ Consistent(EntityBind(r, chosen) \cup Bindings(op.pattern, f))
       /\ AbsenceIsObserved(r.sources, low * Tick, anchor * Tick)

TemporalHolds(r, chosen, known, s) ==
    /\ r.temporal.op = "seq" => SeqHolds(r, chosen, s)
    /\ r.temporal.op = "distinct" => DistinctHolds(r, chosen, known)
    /\ r.temporal.op = "absence" => AbsenceHolds(r, chosen, known)

\* The data guard is suspended when some body fact stands for an interval.
GuardHolds(r, chosen, s) ==
    \/ \E k \in DOMAIN chosen : chosen[k] \in s.free
    \/ \A p \in r.when : TickOf(chosen[p[1]]) <= TickOf(chosen[p[2]])

\* Records behind the axiom slots, and behind what `distinct' counted.
Evidence(r, chosen, known) ==
    (UNION {{<<k, e.id>> : e \in AxiomEvents(chosen[k])} : k \in DOMAIN chosen})
    \cup IF r.temporal.op # "distinct" THEN {}
         ELSE UNION {{<<r.temporal.of, e.id>> : e \in AxiomEvents(f)} :
                        f \in Participants(r, chosen, known)}

Instance(r, chosen, evidence) ==
    [rule |-> r.id, head |-> HeadFact(r, chosen), body |-> chosen,
     evidence |-> evidence, licence |-> {}, ghost |-> FALSE]

IsObserved(i) == i.licence = {}

\* _emit over the joins of one rule.
Emitted(r, known, new, s) ==
    {Instance(r, c, Evidence(r, c, known)) :
        c \in {c \in Joins(r, known, new) :
                  /\ GuardHolds(r, c, s)
                  /\ TemporalHolds(r, c, known, s)
                  /\ Evidence(r, c, known) # {}}}

-----------------------------------------------------------------------------
(* add_instance, over a batch whose order is that of content hashes: at a  *)
(* cap any of the batch may be the ones that were in time.                 *)

AddAll(batch) ==
    LET new == {b \in batch : b \notin instances}
        room == Smaller(MaxInstances - Cardinality(instances), Cardinality(new))
    IN \E kept \in SUBSET new :
         LET heads == {b.head : b \in kept} \ facts
             space == Smaller(MaxFacts - Cardinality(facts), Cardinality(heads))
             seen == {b.head : b \in {x \in kept : IsObserved(x)}}
             unseen == {b.head : b \in {x \in kept : ~IsObserved(x)}}
             supported == {i.head : i \in {x \in instances : IsObserved(x)}} \cup seen
         IN /\ Cardinality(kept) = room
            /\ instances' = instances \cup kept
            /\ \E admitted \in SUBSET heads :
                 /\ Cardinality(admitted) = space
                 /\ facts' = facts \cup admitted
                 /\ fresh' = fresh \cup admitted
                 /\ capped' = (capped \/ kept # new \/ admitted # heads)
            /\ licensed' = (licensed \cup (unseen \ supported)) \ seen
            /\ ghosts' = (ghosts \cup {b.head : b \in {x \in kept : x.ghost}}) \ seen

-----------------------------------------------------------------------------
(* The fixpoint. *)

Init ==
    /\ bundle \in Bundles
    /\ plan \in [steps : SUBSET UnseenSteps, obligations : {<<>>, Obligations}]
    /\ facts = {} /\ instances = {} /\ licensed = {} /\ ghosts = {} /\ spans = <<>>
    /\ snap = [free |-> {}, spans |-> <<>>]
    /\ delta = {} /\ fresh = {} /\ todo = {}
    /\ iterations = 0
    /\ capped = FALSE
    /\ phase = "seed"
    /\ lower = [facts |-> {}, instances |-> {}, capped |-> FALSE]

Seed ==
    /\ phase = "seed"
    /\ \E kept \in SUBSET Seeded :
         /\ Cardinality(kept) = Smaller(MaxFacts, Cardinality(Seeded))
         /\ facts' = kept
         /\ fresh' = kept
         /\ capped' = (kept # Seeded)
    /\ phase' = "lower"
    /\ UNCHANGED <<bundle, plan, instances, licensed, ghosts, spans, pass, lower>>

Saturating == phase \in {"lower", "upper", "last"}

\* A pass is over when its rules are visited; the one that starts a
\* saturation has no delta.
PassOver == Saturating /\ todo = {}

\* Mutant of StartPass: the delta is read and not taken.
StartPassAgain ==
    /\ PassOver /\ fresh # {}
    /\ iterations' = iterations /\ delta' = fresh /\ fresh' = fresh
    /\ todo' = Rules
    /\ snap' = IF delta = {} THEN [free |-> licensed, spans |-> spans] ELSE snap
    /\ UNCHANGED <<bundle, plan, facts, instances, licensed, ghosts, spans, capped, phase, lower>>

\* The next pass. The snapshots are taken when the saturation begins.
StartPass ==
    /\ PassOver
    /\ fresh # {}
    /\ iterations < MaxIterations
    /\ iterations' = iterations + 1
    /\ delta' = fresh
    /\ fresh' = {}
    /\ todo' = Rules
    /\ snap' = IF delta = {} THEN [free |-> licensed, spans |-> spans] ELSE snap
    /\ UNCHANGED <<bundle, plan, facts, instances, licensed, ghosts, spans, capped, phase, lower>>

\* One rule of the table, in whatever order the table has.
Visit(r) ==
    /\ Saturating
    /\ r \in todo
    /\ AddAll(Emitted(r, facts, delta, snap))
    /\ todo' = todo \ {r}
    /\ UNCHANGED <<bundle, plan, spans, snap, delta, iterations, phase, lower>>

\* A PROPAGATES instance all of whose body facts are ghosts.
Hypothetical(i) ==
    /\ \E r \in Rules : r.id = i.rule /\ r.propagates
    /\ i.body # <<>>
    /\ \A k \in DOMAIN i.body : i.body[k] \in ghosts

\* Mutant of Leave: nobody is told of the cap.
LeaveQuietly(withCap) ==
    /\ capped' = capped
    /\ delta' = {} /\ fresh' = {} /\ todo' = {}
    /\ phase' = CASE phase = "lower" -> "silent"
                  [] phase = "upper" -> "oblige"
                  [] phase = "last" -> "done"
    /\ lower' = IF phase = "lower"
                THEN [facts |-> facts, instances |-> instances, capped |-> capped']
                ELSE lower
    /\ UNCHANGED <<bundle, plan, facts, instances, licensed, ghosts, spans, snap>>

\* After a saturation: P_min is published, the licensed steps go in, the
\* obligations go in, and the last one closes the envelope.
Leave(withCap) ==
    /\ capped' = (capped \/ withCap)
    /\ delta' = {} /\ fresh' = {} /\ todo' = {}
    /\ phase' = CASE phase = "lower" -> "silent"
                  [] phase = "upper" -> "oblige"
                  [] phase = "last" -> IF \E i \in instances : Hypothetical(i)
                                       THEN "aborted" ELSE "done"
    /\ lower' = IF phase = "lower"
                THEN [facts |-> facts, instances |-> instances, capped |-> capped']
                ELSE lower
    /\ UNCHANGED <<bundle, plan, facts, instances, licensed, ghosts, spans, snap>>

Saturated ==
    /\ PassOver /\ fresh = {}
    /\ Leave(FALSE)
    /\ UNCHANGED iterations

\* MAX_ITERATIONS: the facts of this pass are joined by nobody.
OutOfIterations ==
    /\ PassOver /\ fresh # {}
    /\ iterations >= MaxIterations
    /\ iterations' = iterations + 1
    /\ Leave(TRUE)

-----------------------------------------------------------------------------
(* The envelope: _add_silent_detect and _add_obligations.                   *)

\* The step's instance at the first tick of its window.
StepFact(p, bind, tick) == <<p.pred, [k \in DOMAIN p.vars |-> bind[p.vars[k]]], tick>>
StepHead(u, tick) == StepFact(RuleOf(u.rule).head, u.bind, tick)
StepBody(u) == [k \in DOMAIN RuleOf(u.rule).body |-> StepFact(RuleOf(u.rule).body[k], u.bind, u.lo)]

Silent(name, head, body, lo, hi, ghost) ==
    [rule |-> name, head |-> head, body |-> body, evidence |-> {},
     licence |-> {[rule |-> name, lo |-> lo, hi |-> hi]}, ghost |-> ghost]

StepInstance(u) == Silent(u.rule, StepHead(u, u.lo), StepBody(u), u.lo, u.hi, FALSE)
Premises(u) == {Silent(u.rule, f, <<>>, u.lo, u.hi, TRUE) : f \in Range(StepBody(u)) \ facts}

\* The hull of the windows that licensed a fact.
Widen(sp, fs, lo, hi) ==
    [f \in DOMAIN sp \cup fs |->
        IF f \notin fs THEN sp[f]
        ELSE IF f \in DOMAIN sp THEN <<Smaller(lo, sp[f][1]), Larger(hi, sp[f][2])>>
        ELSE <<lo, hi>>]

\* One licensed window and binding of a silent_possible rule.
AdmitStep(u) ==
    /\ phase = "silent"
    /\ u \in plan.steps
    /\ LET batch == Premises(u) \cup {StepInstance(u)}
       IN /\ AddAll(batch)
          /\ spans' = Widen(spans, {b.head : b \in batch}, u.lo, u.hi)
    /\ plan' = [plan EXCEPT !.steps = @ \ {u}]
    /\ UNCHANGED <<bundle, pass, phase, lower>>

StepsAdmitted ==
    /\ phase = "silent" /\ plan.steps = {}
    /\ phase' = "upper"
    /\ UNCHANGED <<bundle, plan, base, pass, lower>>

\* One obligation rule over the triggers present: where the head is missing
\* and silence licenses it, a ghost with no recorded window.
Oblige ==
    /\ phase = "oblige" /\ plan.obligations # <<>>
    /\ LET o == Head(plan.obligations)
           Obliged(f) == <<o.head, Args(f), TickOf(f)>>
           triggers == {f \in facts : Pred(f) = o.trigger /\ Obliged(f) \notin facts}
       IN AddAll({Silent(o.name, Obliged(f), <<f>>, TickOf(f) - o.within, TickOf(f), TRUE) :
                     f \in triggers})
    /\ plan' = [plan EXCEPT !.obligations = Tail(@)]
    /\ UNCHANGED <<bundle, spans, pass, phase, lower>>

ObligationsMet ==
    /\ phase = "oblige" /\ plan.obligations = <<>>
    /\ phase' = "last"
    /\ UNCHANGED <<bundle, plan, base, pass, lower>>

Next ==
    \/ Seed
    \/ StartPass
    \/ \E r \in Rules : Visit(r)
    \/ Saturated
    \/ OutOfIterations
    \/ \E u \in UnseenSteps : AdmitStep(u)
    \/ StepsAdmitted
    \/ Oblige
    \/ ObligationsMet

Spec == Init /\ [][Next]_vars

\* One process, and every loop of it runs to its end.
FairSpec == Spec /\ WF_vars(Next)

-----------------------------------------------------------------------------
(* Reference definitions. *)

NoSnap == [free |-> {}, spans |-> <<>>]

\* Closed under the rules, all facts being instants.
IsModel(known) ==
    \A r \in Rules : \A i \in Emitted(r, known, known, NoSnap) : i.head \in known

LeastInstances(known) == UNION {Emitted(r, known, known, NoSnap) : r \in Rules}

\* What a world derives, by naive rounds over all the facts and no order at all.
Least(start) ==
    LET Round[n \in 0..(Cardinality(Rules) + 1)] ==
            IF n = 0 THEN start
            ELSE LET known == Round[n - 1]
                 IN known \cup {i.head : i \in LeastInstances(known)}
    IN Round[Cardinality(Rules) + 1]

Admitted == {u \in UnseenSteps : StepInstance(u) \in instances}

\* The worlds in which the steps of `us' really happened, each at some
\* instant of its window.
Worlds(us) ==
    {Seeded \cup {StepHead(u, p[u]) : u \in us} :
        p \in {q \in [us -> UNION {u.lo..u.hi : u \in us}] : \A u \in us : q[u] \in u.lo..u.hi}}

\* What a world derives, the envelope derives at some instant.
Covers(world) ==
    \A f \in Least(world) : \E g \in facts : Pred(g) = Pred(f) /\ Args(g) = Args(f)

-----------------------------------------------------------------------------
(* Properties. *)

\* Shape of the state.
TypeOK ==
    /\ \A i \in instances : IsObserved(i) => i.evidence # {}
    /\ licensed \cap {i.head : i \in {x \in instances : IsObserved(x)}} = {}
    /\ ghosts \subseteq facts \/ capped
    /\ delta \subseteq facts
    /\ Cardinality(facts) <= MaxFacts /\ Cardinality(instances) <= MaxInstances
    /\ phase \in {"seed", "lower", "silent", "upper", "oblige", "last", "done", "aborted"}

\* P_min is the least model of the records, whatever the order in which the
\* rules were visited: `distinct' and `absence' are evaluated when their
\* anchor arrives, `when' and `seq' when their last fact does, and nothing is
\* missed or found in excess (ground.py:444, :457; the docstring's "re-run
\* under shuffled rule orderings").
LowerIsLeastModel ==
    (phase = "silent" /\ ~lower.capped) =>
        /\ Seeded \subseteq lower.facts /\ IsModel(lower.facts)
        /\ \A derived \in SUBSET (lower.facts \ Seeded) :
               IsModel(Seeded \cup derived) => Seeded \cup derived = lower.facts
        /\ lower.instances = LeastInstances(lower.facts)

\* The envelope is closed: with the licensed facts as they are at the end, no
\* rule has an instance left to add, unless a cap was recorded
\* (ground.py:349-357, :438).
ClosedUnlessCapped ==
    (phase \in {"done", "aborted"} /\ ~capped) =>
        \A r \in Rules : Emitted(r, facts, facts, [free |-> licensed, spans |-> spans]) \subseteq instances

\* A fact published as an axiom, which no cut can take away, is a record of
\* the bundle or the ghost premise of a licensed step: a cap never turns a
\* derived fact into an axiom (ground.py:407-416, :711-724).
AxiomsAreRecordsOrPremises ==
    facts \ {i.head : i \in {x \in instances : x.body # <<>>}}
        \subseteq Seeded \cup {i.head : i \in {x \in instances : x.ghost}}

\* P_max derives what any placement of the licensed steps derives, as long as
\* the step's representative instant is not the instant of a fact that was
\* observed (ground.py:240-271, :548-555).
PlacementsCovered ==
    (phase = "done" /\ ~capped) =>
        \A w \in Worlds({u \in Admitted : StepHead(u, u.lo) \in licensed}) : Covers(w)

\* "keeps `P_max` a superset of the union over realizable worlds"
\* (ground.py:551-554).
EveryWorldCovered ==
    (phase = "done" /\ ~capped) => \A w \in Worlds(Admitted) : Covers(w)

\* A ceiling may strike in the middle of a pass: a program that does not say so
\* is closed, and one that does has not gained an axiom by it.
CapsAreDeclared == TypeOK /\ ClosedUnlessCapped /\ AxiomsAreRecordsOrPremises

\* The stage ends (ground.py:438-443), and not in the ghost check: in a table
\* whose silent rules do not propagate, a licensed premise never becomes all
\* there is under a PROPAGATES instance (ground.py:756-771).
Terminates == <>(phase = "done")
=============================================================================
