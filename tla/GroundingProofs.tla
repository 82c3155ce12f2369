-------------------------- MODULE GroundingProofs --------------------------
(***************************************************************************)
(* What grounding publishes, for every table of the shape Grounding        *)
(* assumes, every bundle and every ceiling: P_min is the least model of    *)
(* the records whatever the order of the rules, the envelope is closed     *)
(* unless a ceiling was met and holds what any placement of the licensed   *)
(* steps derives, and no ceiling makes a derived fact an axiom.            *)
(***************************************************************************)
EXTENDS Grounding, Induction

Heads(batch) == {b.head : b \in batch}
SeenOf(batch) == {b \in batch : IsObserved(b)}
UnseenOf(batch) == {b \in batch : ~IsObserved(b)}
GhostsOf(batch) == {b \in batch : b.ghost}
Observed == Heads(SeenOf(instances))

\* The choices of body facts for which a rule has an instance.
Firing(r, known, s) ==
    {c \in [DOMAIN r.body -> known] :
        /\ \A k \in DOMAIN c : Fits(r.body[k], c[k])
        /\ Consistent(EntityBind(r, c)) /\ Consistent(TickBind(r, c))
        /\ GuardHolds(r, c, s)
        /\ TemporalHolds(r, c, known, s)
        /\ Evidence(r, c, known) # {}}

Made(r, c, known) == Instance(r, c, Evidence(r, c, known))

-----------------------------------------------------------------------------
(* Finite sets. *)

\* There are finitely many functions from one finite set to another.
LEMMA FunctionsFinite ==
    ASSUME NEW S, NEW T, IsFiniteSet(S), IsFiniteSet(T)
    PROVE  IsFiniteSet([S -> T])
  <1> DEFINE graph == [f \in [S -> T] |-> {<<x, f[x]>> : x \in S}]
             G == SUBSET (S \X T)
  <1>1. IsFiniteSet(G)
    BY FS_Product, FS_SUBSET
  <1>2. \A f \in [S -> T] : graph[f] \in G
    OBVIOUS
  <1>3. ASSUME NEW f \in [S -> T], NEW g \in [S -> T], graph[f] = graph[g] PROVE f = g
    <2>1. ASSUME NEW x \in S PROVE f[x] = g[x]
      <3>1. <<x, f[x]>> \in {<<y, g[y]>> : y \in S}
        BY <1>3
      <3> QED BY <3>1
    <2> QED BY <2>1
  <1>4. graph \in Injection([S -> T], G)
    BY <1>2, <1>3 DEF Injection, IsInjective
  <1> QED BY <1>1, <1>4, FS_Injection

\* A set of heads is as finite as its instances.
LEMMA HeadsFinite ==
    ASSUME NEW batch, IsFiniteSet(batch)
    PROVE  IsFiniteSet(Heads(batch))
  <1> DEFINE g == [b \in batch |-> b.head]
  <1>1. Heads(batch) = {g[b] : b \in batch}
    BY DEF Heads
  <1> HIDE DEF g
  <1> QED BY <1>1, ImageFinite DEF Imaged

\* A rule has finitely many instances over finitely many facts.
LEMMA EmittedFinite ==
    ASSUME NEW r \in Rules, NEW known, IsFiniteSet(known), NEW new, NEW s
    PROVE  IsFiniteSet(Emitted(r, known, new, s))
  <1> DEFINE D == [DOMAIN r.body -> known]
             g == [c \in D |-> Made(r, c, known)]
  <1>1. DOMAIN r.body = 1..Len(r.body) /\ Len(r.body) \in Nat
    BY RulesAssumption
  <1>2. IsFiniteSet(DOMAIN r.body)
    BY <1>1, FS_Interval
  <1>3. IsFiniteSet(D)
    BY <1>2, FunctionsFinite
  <1>4. Emitted(r, known, new, s) \subseteq {g[c] : c \in D}
    BY DEF Emitted, Joins, Made
  <1> HIDE DEF g
  <1>5. IsFiniteSet({g[c] : c \in D})
    BY <1>3, ImageFinite DEF Imaged
  <1> QED BY <1>4, <1>5, FS_Subset

\* There are no more seeded facts than records.
LEMMA SeededFinite ==
    ASSUME bundle \in Bundles
    PROVE  IsFiniteSet(Seeded)
  <1> DEFINE g == [e \in bundle |-> AxiomFact(e)]
  <1>1. Seeded = {g[e] : e \in bundle}
    BY DEF Seeded
  <1>2. IsFiniteSet(bundle)
    BY RecordsAssumption
  <1> HIDE DEF g
  <1> QED BY <1>1, <1>2, ImageFinite DEF Imaged

\* A record's fact has the record's type and an integer tick.
LEMMA SeededFacts ==
    ASSUME bundle \in Bundles, NEW f \in Seeded
    PROVE  TickOf(f) \in Int /\ \A r \in Rules : Pred(f) # r.head.pred
  <1>1. PICK e \in bundle : f = AxiomFact(e)
    BY DEF Seeded
  <1>2. e.t \in Nat /\ \A r \in Rules : e.type # r.head.pred
    BY RecordsAssumption
  <1>3. Pred(f) = e.type /\ TickOf(f) = e.t \div Tick
    BY <1>1 DEF AxiomFact, Pred, TickOf
  <1>4. e.t \div Tick \in Int
    BY <1>2, CapsAssumption
  <1> QED BY <1>2, <1>3, <1>4

-----------------------------------------------------------------------------
(* When a rule fires. *)

\* The instances emitted are those of the choices that fire and hold a fact
\* of the pass.
LEMMA EmittedFires ==
    ASSUME NEW r, NEW known, NEW new, NEW s
    PROVE  /\ \A c \in Firing(r, known, s) :
                 (\E k \in DOMAIN c : c[k] \in new) => Made(r, c, known) \in Emitted(r, known, new, s)
           /\ \A i \in Emitted(r, known, new, s) : \E c \in Firing(r, known, s) :
                 (\E k \in DOMAIN c : c[k] \in new) /\ i = Made(r, c, known)
  BY DEF Emitted, Firing, Made, Joins

\* Two sets of facts agree on what is counted or looked for.
SameWatched(a, b) == \A f : Pred(f) \in Watched => (f \in a <=> f \in b)

\* `distinct' and `absence' read the watched facts and nothing else.
LEMMA ReadsWatched ==
    ASSUME NEW r \in Rules, NEW c, NEW a, NEW b, SameWatched(a, b), NEW s
    PROVE  /\ TemporalHolds(r, c, a, s) <=> TemporalHolds(r, c, b, s)
           /\ Evidence(r, c, a) = Evidence(r, c, b)
  <1>1. CASE r.temporal.op = "distinct"
    <2>1. r.body[r.temporal.of].pred \in Watched
      BY <1>1 DEF Watched
    <2>2. Participants(r, c, a) = Participants(r, c, b)
      BY <2>1 DEF Participants, Agrees, Fits, SameWatched
    <2> QED BY <1>1, <2>2 DEF TemporalHolds, DistinctHolds, Evidence
  <1>2. CASE r.temporal.op = "absence"
    <2>1. r.temporal.pattern.pred \in Watched
      BY <1>2 DEF Watched
    <2> DEFINE Found(known, f) ==
                  /\ f \in known
                  /\ TickOf(c[r.temporal.before]) - r.temporal.within <= TickOf(f)
                  /\ TickOf(f) < TickOf(c[r.temporal.before])
                  /\ Fits(r.temporal.pattern, f)
                  /\ Consistent(EntityBind(r, c) \cup Bindings(r.temporal.pattern, f))
    <2>2. \A f : Found(a, f) <=> Found(b, f)
      BY <2>1 DEF Fits, SameWatched
    <2>3. \A known : AbsenceHolds(r, c, known) <=>
              /\ ~ \E f : Found(known, f)
              /\ AbsenceIsObserved(r.sources,
                     (TickOf(c[r.temporal.before]) - r.temporal.within) * Tick,
                     TickOf(c[r.temporal.before]) * Tick)
      BY DEF AbsenceHolds
    <2>4. AbsenceHolds(r, c, a) <=> AbsenceHolds(r, c, b)
      BY <2>2, <2>3
    <2> QED BY <1>2, <2>4 DEF TemporalHolds, Evidence
  <1>3. CASE r.temporal.op # "distinct" /\ r.temporal.op # "absence"
    BY <1>3 DEF TemporalHolds, Evidence
  <1> QED BY <1>1, <1>2, <1>3

\* A choice fires over any facts that hold it and agree on what is watched,
\* and makes the same instance.
LEMMA FiresAnywhere ==
    ASSUME NEW r \in Rules, NEW a, NEW b, SameWatched(a, b), NEW s,
           NEW c \in Firing(r, a, s), \A k \in DOMAIN c : c[k] \in b
    PROVE  c \in Firing(r, b, s) /\ Made(r, c, a) = Made(r, c, b)
  <1>1. c \in [DOMAIN r.body -> b]
    BY DEF Firing
  <1>2. TemporalHolds(r, c, b, s) /\ Evidence(r, c, b) = Evidence(r, c, a) /\ Evidence(r, c, a) # {}
    BY ReadsWatched DEF Firing
  <1> QED BY <1>1, <1>2 DEF Firing, Made

Span(l) == l[1] \in Int /\ l[2] \in Int
Wider(l, m) == m[1] <= l[1] /\ l[2] <= m[2]

\* What a choice knows of its facts in `s' is no more than what it knows in
\* `t' allows for.
Looser(c, s, t) ==
    \A k \in DOMAIN c :
        /\ c[k] \in s.free => c[k] \in t.free
        /\ RangeKnown(c[k], t) =>
              /\ RangeKnown(c[k], s)
              /\ Span(TickRange(c[k], s)) /\ Span(TickRange(c[k], t))
              /\ Wider(TickRange(c[k], s), TickRange(c[k], t))

\* A wider window is feasible where a narrower one is.
LEMMA WiderFeasible ==
    ASSUME NEW l, NEW m, NEW l1, NEW m1, NEW within \in Int,
           Span(l), Span(m), Span(l1), Span(m1), Wider(l, l1), Wider(m, m1),
           SeqFeasible(l, m, within)
    PROVE  SeqFeasible(l1, m1, within)
  BY DEF Span, Wider, SeqFeasible, Larger, Smaller

\* A choice that fires when its facts are known to be at an instant fires when
\* they may be anywhere in a window around it.
LEMMA LooserFires ==
    ASSUME NEW r \in Rules, NEW known, NEW s, NEW t,
           NEW c \in Firing(r, known, s), Looser(c, s, t)
    PROVE  c \in Firing(r, known, t)
  <1>0. DOMAIN c = DOMAIN r.body
    BY DEF Firing
  <1>1. GuardHolds(r, c, t)
    BY DEF Firing, GuardHolds, Looser
  <1>2. ASSUME r.temporal.op = "seq" PROVE SeqHolds(r, c, t)
    <2> DEFINE l == c[r.temporal.left]
               m == c[r.temporal.right]
    <2>1. SeqHolds(r, c, s)
      BY <1>2 DEF Firing, TemporalHolds
    <2>2. r.temporal.left \in DOMAIN c /\ r.temporal.right \in DOMAIN c /\ r.temporal.within \in Int
      BY <1>0, <1>2, RulesAssumption
    <2> SUFFICES ASSUME RangeKnown(l, t), RangeKnown(m, t)
                 PROVE  SeqFeasible(TickRange(l, t), TickRange(m, t), r.temporal.within)
      BY DEF SeqHolds
    <2>3. /\ RangeKnown(l, s) /\ RangeKnown(m, s)
          /\ Span(TickRange(l, s)) /\ Span(TickRange(l, t))
          /\ Span(TickRange(m, s)) /\ Span(TickRange(m, t))
          /\ Wider(TickRange(l, s), TickRange(l, t)) /\ Wider(TickRange(m, s), TickRange(m, t))
      BY <2>2 DEF Looser
    <2>4. SeqFeasible(TickRange(l, s), TickRange(m, s), r.temporal.within)
      BY <2>1, <2>3 DEF SeqHolds
    <2> QED BY <2>2, <2>3, <2>4, WiderFeasible
  <1>3. TemporalHolds(r, c, known, t)
    BY <1>2 DEF Firing, TemporalHolds
  <1> QED BY <1>1, <1>3 DEF Firing

\* The head of an instance has the tick of one of its facts.
LEMMA MadeHead ==
    ASSUME NEW r \in Rules, NEW known, NEW s, NEW c \in Firing(r, known, s),
           \A f \in known : TickOf(f) \in Int
    PROVE  /\ TickOf(Made(r, c, known).head) \in Int
           /\ Pred(Made(r, c, known).head) = r.head.pred
           /\ Made(r, c, known).body # <<>>
           /\ IsObserved(Made(r, c, known)) /\ Made(r, c, known).evidence # {}
           /\ ~Made(r, c, known).ghost
  <1>1. /\ r.body \in Seq(Range(r.body)) /\ r.body # <<>>
        /\ \E k \in DOMAIN r.body : r.body[k].tick = r.head.tick
    BY RulesAssumption
  <1>2. PICK k \in DOMAIN r.body : r.body[k].tick = r.head.tick
    BY <1>1
  <1>3. c \in [DOMAIN r.body -> known]
    BY DEF Firing
  <1>4. <<r.head.tick, TickOf(c[k])>> \in TickBind(r, c)
    BY <1>2 DEF TickBind, TickBinding
  <1>5. ASSUME NEW b \in TickBind(r, c) PROVE b[2] \in Int
    <2>1. PICK j \in DOMAIN r.body : b = <<r.body[j].tick, TickOf(c[j])>>
      BY DEF TickBind, TickBinding
    <2> QED BY <1>3, <2>1
  <1>6. Lookup(TickBind(r, c), r.head.tick) \in Int
    BY <1>4, <1>5 DEF Lookup
  <1>7. c # <<>>
    <2>1. DOMAIN c = DOMAIN r.body /\ k \in DOMAIN c
      BY <1>2, <1>3
    <2> QED BY <2>1
  <1>8. Evidence(r, c, known) # {}
    BY DEF Firing
  <1> QED BY <1>6, <1>7, <1>8 DEF Made, Instance, HeadFact, TickOf, Pred, IsObserved
-----------------------------------------------------------------------------
(* The inductive invariant. *)

\* The snapshots a saturation that begins now would read.
Current == [free |-> licensed, spans |-> spans]

Phases == {"seed", "lower", "silent", "upper", "oblige", "last", "done", "aborted"}

\* Types, ceilings, and where a pass stands.
Shape ==
    /\ bundle \in Bundles
    /\ plan \in [steps : SUBSET UnseenSteps, obligations : Seq(Range(Obligations))]
    /\ IsFiniteSet(facts) /\ IsFiniteSet(instances)
    /\ Cardinality(facts) <= MaxFacts /\ Cardinality(instances) <= MaxInstances
    /\ fresh \subseteq facts /\ delta \subseteq facts
    /\ todo \subseteq Rules
    /\ capped \in BOOLEAN
    /\ phase \in Phases
    /\ ~Saturating => delta = {}
    /\ delta = {} => todo = {}
    /\ phase \in {"done", "aborted"} => fresh = {}
    /\ phase = "seed" => facts = {} /\ instances = {} /\ ~capped
    /\ phase \in {"seed", "lower"} => licensed = {} /\ UnseenOf(instances) = {}

\* The snapshot of a saturation gives a fact no narrower window than it has.
Snapped ==
    delta # {} =>
        /\ licensed \subseteq snap.free /\ snap.spans = spans
        /\ phase = "lower" => snap.free = {}

\* Where facts and instances come from, ceilings or not.
Grounds ==
    /\ \A i \in instances : IsObserved(i) => i.evidence # {}
    /\ licensed \cap Observed = {}
    /\ AxiomsAreRecordsOrPremises
    /\ \A f \in facts : TickOf(f) \in Int
    /\ \A f \in DOMAIN spans : Span(spans[f]) /\ TickOf(f) \in Int
                                 /\ Wider(<<TickOf(f), TickOf(f)>>, spans[f])

\* As long as no ceiling was met every fact is there, and is a record, has an
\* observed instance or is licensed; what is watched is recorded.
Complete ==
    /\ ghosts \subseteq facts /\ Heads(instances) \subseteq facts
    /\ phase # "seed" => Seeded \subseteq facts
    /\ facts \subseteq Seeded \cup Observed \cup licensed
    /\ licensed \cap Seeded = {}
    /\ phase = "silent" => licensed \subseteq fresh
    /\ \A f \in facts : Pred(f) \in Watched => f \in Seeded

\* What fires and holds no fact that is still to be joined has been made.
Joined ==
    \A r \in Rules : \A c \in Firing(r, facts, Current) :
        (\A k \in DOMAIN c : c[k] \notin fresh /\ (r \in todo => c[k] \notin delta))
            => Made(r, c, facts) \in instances

\* A model of the records with no other watched facts.
ModelOfRecords(S) ==
    /\ Seeded \subseteq S
    /\ \A f \in S : Pred(f) \in Watched => f \in Seeded
    /\ IsModel(S)

\* P_min on its way: within every model, and of instances that fire.
Founded ==
    phase = "lower" =>
        /\ \A S : ModelOfRecords(S) => facts \subseteq S
        /\ \A i \in instances : \E r \in Rules : \E c \in Firing(r, facts, NoSnap) :
               i = Made(r, c, facts)

GroundingInd ==
    /\ Shape /\ Snapped /\ Grounds
    /\ ~capped => Complete /\ Joined /\ Founded
    /\ LowerIsLeastModel
\* The bundle stays, so what fires over the facts of the next state can be said
\* in this one.
LEMMA NextFiring ==
    ASSUME bundle' = bundle
    PROVE  /\ \A r : Firing(r, facts, Current)' = Firing(r, facts', Current')
           /\ \A r : Firing(r, facts, NoSnap)' = Firing(r, facts', NoSnap)
           /\ \A r, c : Made(r, c, facts)' = Made(r, c, facts')
           /\ \A r, known : Emitted(r, known, known, NoSnap)' = Emitted(r, known, known, NoSnap)
           /\ Seeded' = Seeded
  BY DEF Firing, Made, Emitted, Seeded, TemporalHolds, AbsenceHolds, AbsenceIsObserved,
         Evidence, AxiomEvents, Instance, Joins

\* The models of the records stay the same.
LEMMA NextModels ==
    ASSUME bundle' = bundle
    PROVE  /\ \A S : ModelOfRecords(S)' = ModelOfRecords(S)
           /\ \A S : IsModel(S)' = IsModel(S)
           /\ \A S : LeastInstances(S)' = LeastInstances(S)
  BY NextFiring DEF ModelOfRecords, IsModel, LeastInstances

\* What adding a batch comes to: at a ceiling a part of it is kept, and of the
\* heads of that part some are admitted.
Adds(kept, batch) ==
    /\ kept \subseteq batch
    /\ instances' = instances \cup kept
    /\ facts \subseteq facts' /\ facts' \subseteq facts \cup Heads(kept)
    /\ fresh' = fresh \cup (facts' \ facts)
    /\ licensed' = (licensed \cup (Heads(UnseenOf(kept)) \ (Observed \cup Heads(SeenOf(kept)))))
                       \ Heads(SeenOf(kept))
    /\ ghosts' = (ghosts \cup Heads(GhostsOf(kept))) \ Heads(SeenOf(kept))
    /\ capped' \in BOOLEAN
    /\ capped => capped'
    /\ ~capped' => instances' = instances \cup batch /\ facts' = facts \cup Heads(kept)

\* AddAll is that, and keeps to the ceilings.
LEMMA AddAllAdds ==
    ASSUME Shape, NEW batch, IsFiniteSet(batch), AddAll(batch)
    PROVE  /\ \E kept : Adds(kept, batch)
           /\ IsFiniteSet(facts') /\ IsFiniteSet(instances')
           /\ Cardinality(facts') <= MaxFacts /\ Cardinality(instances') <= MaxInstances
  <1> DEFINE new == {b \in batch : b \notin instances}
             room == Smaller(MaxInstances - Cardinality(instances), Cardinality(new))
             heads(k) == {b.head : b \in k} \ facts
             space(k) == Smaller(MaxFacts - Cardinality(facts), Cardinality(heads(k)))
             seen(k) == {b.head : b \in {x \in k : IsObserved(x)}}
             unseen(k) == {b.head : b \in {x \in k : ~IsObserved(x)}}
             supported(k) == {i.head : i \in {x \in instances : IsObserved(x)}} \cup seen(k)
  <1>1. PICK kept \in SUBSET new :
            /\ Cardinality(kept) = room
            /\ instances' = instances \cup kept
            /\ \E admitted \in SUBSET heads(kept) :
                 /\ Cardinality(admitted) = space(kept)
                 /\ facts' = facts \cup admitted
                 /\ fresh' = fresh \cup admitted
                 /\ capped' = (capped \/ kept # new \/ admitted # heads(kept))
            /\ licensed' = (licensed \cup (unseen(kept) \ supported(kept))) \ seen(kept)
            /\ ghosts' = (ghosts \cup {b.head : b \in {x \in kept : x.ghost}}) \ seen(kept)
    BY DEF AddAll
  <1>2. PICK admitted \in SUBSET heads(kept) :
                 /\ Cardinality(admitted) = space(kept)
                 /\ facts' = facts \cup admitted
                 /\ fresh' = fresh \cup admitted
                 /\ capped' = (capped \/ kept # new \/ admitted # heads(kept))
    BY <1>1
  <1>3. IsFiniteSet(new) /\ IsFiniteSet(kept)
    <2>1. new \subseteq batch /\ kept \subseteq batch
      OBVIOUS
    <2> QED BY <2>1, FS_Subset
  <1>4. IsFiniteSet(heads(kept)) /\ IsFiniteSet(admitted)
    <2>1. heads(kept) \subseteq Heads(kept) /\ admitted \subseteq Heads(kept)
      BY DEF Heads
    <2> QED BY <1>3, <2>1, HeadsFinite, FS_Subset
  <1>5. IsFiniteSet(facts') /\ IsFiniteSet(instances')
    BY <1>1, <1>2, <1>3, <1>4, FS_Union DEF Shape
  <1>6. Cardinality(instances') <= MaxInstances
    <2>1. Cardinality(instances \cup kept) = Cardinality(instances) + Cardinality(kept) - Cardinality(instances \cap kept)
      BY <1>3, FS_Union DEF Shape
    <2>2. instances \cap kept = {}
      OBVIOUS
    <2>3. Cardinality(instances \cap kept) = 0
      BY <2>2, FS_EmptySet
    <2>4. Cardinality(instances) \in Nat /\ Cardinality(kept) \in Nat /\ Cardinality(new) \in Nat
      BY <1>3, FS_CardinalityType DEF Shape
    <2>5. Cardinality(kept) = room
      BY <1>1
    <2> HIDE DEF new
    <2> QED BY <1>1, <2>1, <2>3, <2>4, <2>5, CapsAssumption DEF Smaller
  <1>7. Cardinality(facts') <= MaxFacts
    <2>1. Cardinality(facts \cup admitted) = Cardinality(facts) + Cardinality(admitted) - Cardinality(facts \cap admitted)
      BY <1>4, FS_Union DEF Shape
    <2>2. facts \cap admitted = {}
      OBVIOUS
    <2>3. Cardinality(facts \cap admitted) = 0
      BY <2>2, FS_EmptySet
    <2>4. Cardinality(facts) \in Nat /\ Cardinality(admitted) \in Nat /\ Cardinality(heads(kept)) \in Nat
      BY <1>4, FS_CardinalityType DEF Shape
    <2>5. Cardinality(admitted) = space(kept)
      BY <1>2
    <2>6. facts' = facts \cup admitted
      BY <1>2
    <2> HIDE DEF heads
    <2> QED BY <2>1, <2>3, <2>4, <2>5, <2>6, CapsAssumption DEF Smaller
  <1>8. Adds(kept, batch)
    <2>1. Heads(kept) \ facts = heads(kept) /\ seen(kept) = Heads(SeenOf(kept))
          /\ unseen(kept) = Heads(UnseenOf(kept)) /\ supported(kept) = Observed \cup Heads(SeenOf(kept))
          /\ {b.head : b \in {x \in kept : x.ghost}} = Heads(GhostsOf(kept))
      BY DEF Heads, SeenOf, UnseenOf, GhostsOf, Observed
    <2>2. kept \subseteq batch /\ (kept = new => instances \cup kept = instances \cup batch)
      OBVIOUS
    <2>3. admitted = facts' \ facts
      BY <1>2
    <2>4. capped \in BOOLEAN
      BY DEF Shape
    <2> HIDE DEF new, heads, seen, unseen, supported
    <2>5. facts \subseteq facts' /\ facts' \subseteq facts \cup Heads(kept) /\ fresh' = fresh \cup (facts' \ facts)
      BY <1>2, <2>1, <2>3
    <2>6. capped' \in BOOLEAN /\ (capped => capped')
      BY <1>2, <2>4
    <2>7. ~capped' => instances' = instances \cup batch /\ facts' = facts \cup Heads(kept)
      BY <1>1, <1>2, <2>1, <2>2
    <2> QED BY <1>1, <2>1, <2>2, <2>5, <2>6, <2>7 DEF Adds
  <1> QED BY <1>5, <1>6, <1>7, <1>8
\* A batch that may be added at any time.
Sane(batch) ==
    \A b \in batch :
        /\ IsObserved(b) => b.evidence # {}
        /\ b.body # <<>> \/ b.ghost
        /\ TickOf(b.head) \in Int
        /\ Pred(b.head) \notin Watched
        /\ ~capped => IsObserved(b) \/ b.head \notin Seeded

\* An addition leaves facts and instances well founded.
LEMMA AddedGrounds ==
    ASSUME Shape, Grounds, NEW batch, Sane(batch), NEW kept, Adds(kept, batch), bundle' = bundle,
           \A f \in (DOMAIN spans)' : Span(spans'[f]) /\ TickOf(f) \in Int
                                 /\ Wider(<<TickOf(f), TickOf(f)>>, spans'[f])
    PROVE  Grounds'
  <1>1. instances' = instances \cup kept /\ kept \subseteq batch
    BY DEF Adds
  <1>2. ASSUME NEW i \in instances', IsObserved(i) PROVE i.evidence # {}
    BY <1>1, <1>2 DEF Grounds, Sane
  <1>3. Observed' = Observed \cup Heads(SeenOf(kept))
    BY <1>1 DEF Observed, Heads, SeenOf
  <1>4. (licensed \cap Observed)' = {}
    <2>1. licensed \cap Observed = {}
      BY DEF Grounds
    <2> QED BY <1>3, <2>1 DEF Adds
  <1>5. Seeded' = Seeded
    BY NextFiring
  <1>6. ASSUME NEW f \in facts',
               f \notin {i.head : i \in {x \in instances' : x.body # <<>>}}
        PROVE  f \in Seeded \cup {i.head : i \in {x \in instances' : x.ghost}}
    <2>1. CASE f \in facts
      <3>1. f \notin {i.head : i \in {x \in instances : x.body # <<>>}}
        BY <1>1, <1>6
      <3>2. f \in Seeded \cup {i.head : i \in {x \in instances : x.ghost}}
        BY <2>1, <3>1 DEF Grounds, AxiomsAreRecordsOrPremises
      <3> QED BY <1>1, <3>2
    <2>2. CASE f \in Heads(kept)
      <3>1. PICK b \in kept : f = b.head
        BY <2>2 DEF Heads
      <3>2. b.body # <<>> \/ b.ghost
        BY <1>1 DEF Sane
      <3> QED BY <1>1, <1>6, <3>1, <3>2
    <2>3. f \in facts \/ f \in Heads(kept)
      BY <1>6 DEF Adds
    <2> QED BY <2>1, <2>2, <2>3
  <1>7. AxiomsAreRecordsOrPremises'
    BY <1>5, <1>6 DEF AxiomsAreRecordsOrPremises
  <1>8. ASSUME NEW f \in facts' PROVE TickOf(f) \in Int
    BY <1>1 DEF Adds, Sane, Grounds, Heads
  <1> QED BY <1>2, <1>4, <1>7, <1>8 DEF Grounds

\* As long as there is room, it leaves the base complete.
LEMMA AddedComplete ==
    ASSUME Shape, Grounds, ~capped', Complete, NEW batch, Sane(batch), NEW kept, Adds(kept, batch),
           bundle' = bundle, phase' = phase, phase # "seed"
    PROVE  /\ Complete'
           /\ \A f \in licensed' : f \in licensed \/ f \in fresh'
  <1>0. ~capped
    BY DEF Adds, Shape
  <1>1. instances' = instances \cup kept /\ kept \subseteq batch /\ facts' = facts \cup Heads(kept)
    BY DEF Adds
  <1>2. Observed' = Observed \cup Heads(SeenOf(kept))
    BY <1>1 DEF Observed, Heads, SeenOf
  <1>3. Seeded' = Seeded
    BY NextFiring
  <1>4. Heads(kept) = Heads(SeenOf(kept)) \cup Heads(UnseenOf(kept)) /\ Heads(GhostsOf(kept)) \subseteq Heads(kept)
    BY DEF Heads, SeenOf, UnseenOf, GhostsOf
  <1>5. Heads(UnseenOf(kept)) \cap Seeded = {}
    BY <1>0, <1>1 DEF Sane, Heads, UnseenOf
  <1>6. (ghosts \subseteq facts)'
    BY <1>1, <1>4 DEF Adds, Complete
  <1>7. (Heads(instances) \subseteq facts)'
    BY <1>1 DEF Complete, Heads
  <1>8. (Seeded \subseteq facts)'
    BY <1>1, <1>3 DEF Complete
  <1>9. (facts \subseteq Seeded \cup Observed \cup licensed)'
    BY <1>1, <1>2, <1>3, <1>4 DEF Complete, Adds
  <1>10. (licensed \cap Seeded)' = {}
    BY <1>3, <1>5 DEF Complete, Adds
  <1>11. ASSUME NEW f \in licensed' PROVE f \in licensed \/ f \in fresh'
    <2>1. CASE f \in licensed
      BY <2>1
    <2>2. CASE f \notin licensed
      <3>1. f \in Heads(UnseenOf(kept)) /\ f \notin Observed
        BY <2>2, <1>11 DEF Adds
      <3>2. f \notin Seeded /\ f \in facts'
        BY <1>1, <1>4, <1>5, <3>1
      <3>3. f \notin facts
        BY <2>2, <3>1, <3>2 DEF Complete
      <3> QED BY <3>2, <3>3 DEF Adds
    <2> QED BY <2>1, <2>2
  <1>12. phase' = "silent" => licensed' \subseteq fresh'
    BY <1>11 DEF Complete, Adds
  <1>13. ASSUME NEW f \in facts', Pred(f) \in Watched PROVE f \in Seeded'
    BY <1>1, <1>3, <1>13 DEF Sane, Heads, Complete
  <1> QED BY <1>6, <1>7, <1>8, <1>9, <1>10, <1>11, <1>12, <1>13 DEF Complete

\* Two bases that are complete agree on what is watched.
LEMMA CompleteWatched ==
    ASSUME Complete, Complete', bundle' = bundle, phase # "seed", phase' # "seed"
    PROVE  SameWatched(facts, facts') /\ SameWatched(facts', facts)
  BY NextFiring DEF Complete, SameWatched

\* A choice of old facts that fires after an addition fired before it.
LEMMA FiredBefore ==
    ASSUME Shape, Grounds, ~capped', Complete, NEW batch, Sane(batch), NEW kept, Adds(kept, batch),
           bundle' = bundle, phase' = phase, phase # "seed",
           \A f \in licensed : f \notin fresh =>
               (f \in DOMAIN spans => f \in DOMAIN spans' /\ spans'[f] = spans[f]),
           NEW r \in Rules, NEW c \in Firing(r, facts', Current'),
           \A k \in DOMAIN c : c[k] \notin fresh'
    PROVE  c \in Firing(r, facts, Current) /\ Made(r, c, facts') = Made(r, c, facts)
  <1>1. Complete' /\ \A f \in licensed' : f \in licensed \/ f \in fresh'
    BY AddedComplete
  <1>2. SameWatched(facts', facts)
    BY <1>1, CompleteWatched
  <1>3. c \in [DOMAIN r.body -> facts']
    BY DEF Firing
  <1>4. ASSUME NEW k \in DOMAIN c PROVE c[k] \in facts /\ c[k] \notin fresh
    <2>1. c[k] \in facts' /\ c[k] \notin fresh'
      BY <1>3
    <2> QED BY <2>1 DEF Adds
  <1>5. c \in Firing(r, facts, Current') /\ Made(r, c, facts') = Made(r, c, facts)
    BY <1>2, <1>4, FiresAnywhere
  <1>6. Looser(c, Current', Current)
    <2> SUFFICES ASSUME NEW k \in DOMAIN c
                 PROVE  /\ c[k] \in licensed' => c[k] \in licensed
                        /\ RangeKnown(c[k], Current) =>
                              /\ RangeKnown(c[k], Current')
                              /\ Span(TickRange(c[k], Current')) /\ Span(TickRange(c[k], Current))
                              /\ Wider(TickRange(c[k], Current'), TickRange(c[k], Current))
      BY DEF Looser, Current
    <2>1. c[k] \in licensed' => c[k] \in licensed
      BY <1>1
    <2>2. TickOf(c[k]) \in Int
      BY <1>4 DEF Grounds
    <2>3. CASE c[k] \notin licensed
      BY <2>1, <2>2, <2>3 DEF RangeKnown, TickRange, Current, Span, Wider
    <2>4. CASE c[k] \in licensed /\ c[k] \in DOMAIN spans
      <3>1. Span(spans[c[k]]) /\ Wider(<<TickOf(c[k]), TickOf(c[k])>>, spans[c[k]])
        BY <2>4 DEF Grounds
      <3>2. c[k] \in DOMAIN spans' /\ spans'[c[k]] = spans[c[k]]
        BY <1>4, <2>4
      <3> QED BY <2>1, <2>2, <2>4, <3>1, <3>2 DEF RangeKnown, TickRange, Current, Span, Wider
    <2>5. CASE c[k] \in licensed /\ c[k] \notin DOMAIN spans
      BY <2>1, <2>5 DEF RangeKnown, Current
    <2> QED BY <2>1, <2>3, <2>4, <2>5
  <1>7. c \in Firing(r, facts, Current)
    BY <1>5, <1>6, LooserFires
  <1> QED BY <1>5, <1>7
-----------------------------------------------------------------------------
(* The three batches. *)

\* What a rule emits.
LEMMA EmittedSane ==
    ASSUME Shape, Grounds, NEW r \in Rules, NEW new, NEW s
    PROVE  /\ Sane(Emitted(r, facts, new, s)) /\ IsFiniteSet(Emitted(r, facts, new, s))
           /\ UnseenOf(Emitted(r, facts, new, s)) = {}
  <1>1. \A f \in facts : TickOf(f) \in Int
    BY DEF Grounds
  <1>2. r.head.pred \notin Watched
    BY StrataAssumption
  <1>3. ASSUME NEW b \in Emitted(r, facts, new, s)
        PROVE  /\ IsObserved(b) /\ b.evidence # {} /\ b.body # <<>>
               /\ TickOf(b.head) \in Int /\ Pred(b.head) \notin Watched
    <2>1. PICK c \in Firing(r, facts, s) : b = Made(r, c, facts)
      BY EmittedFires
    <2> QED BY <1>1, <1>2, <2>1, MadeHead
  <1>4. IsFiniteSet(Emitted(r, facts, new, s))
    BY EmittedFinite DEF Shape
  <1> QED BY <1>3, <1>4 DEF Sane, UnseenOf

\* The batch of one licensed step.
StepBatch(u) == Premises(u) \cup {StepInstance(u)}

\* A licensed step and its premises.
LEMMA StepSane ==
    ASSUME Shape, Grounds, ~capped => Complete, phase # "seed", NEW u \in UnseenSteps
    PROVE  /\ Sane(StepBatch(u)) /\ IsFiniteSet(StepBatch(u))
           /\ \A b \in StepBatch(u) : TickOf(b.head) = u.lo
  <1> DEFINE r == RuleOf(u.rule)
  <1>1. r \in Rules
    BY SilenceAssumption DEF RuleOf
  <1>2. u.lo \in Int /\ u.hi \in Int /\ u.lo <= u.hi
    BY SilenceAssumption
  <1>3. r.head.pred \notin Watched /\ \A k \in DOMAIN r.body : r.body[k].pred \notin Watched
    BY <1>1, StrataAssumption
  <1>4. r.body \in Seq(Range(r.body)) /\ r.body # <<>>
    BY <1>1, RulesAssumption
  <1> DEFINE body == StepBody(u)
  <1>5. DOMAIN body = DOMAIN r.body /\ body # <<>> /\ DOMAIN r.body = 1..Len(r.body) /\ Len(r.body) \in Nat
    <2>1. DOMAIN body = DOMAIN r.body
      BY DEF StepBody
    <2> DEFINE q == r.body
    <2>2. q \in Seq(Range(q)) /\ q # <<>>
      BY <1>4
    <2> HIDE DEF q
    <2>3. DOMAIN q = 1..Len(q) /\ Len(q) \in Nat /\ Len(q) # 0
      BY <2>2
    <2>4. 1 \in DOMAIN q
      BY <2>3
    <2>5. body # <<>>
      BY <2>1, <2>4 DEF q
    <2> QED BY <2>1, <2>3, <2>5 DEF q
  <1>6. \A f \in Range(body) : Pred(f) \notin Watched /\ TickOf(f) = u.lo
    <2>1. ASSUME NEW k \in DOMAIN body PROVE Pred(body[k]) \notin Watched /\ TickOf(body[k]) = u.lo
      <3>1. body[k] = StepFact(r.body[k], u.bind, u.lo)
        BY <1>5 DEF StepBody
      <3>2. Pred(body[k]) = r.body[k].pred /\ TickOf(body[k]) = u.lo
        BY <3>1 DEF StepFact, Pred, TickOf
      <3> QED BY <1>3, <1>5, <3>2
    <2> QED BY <2>1 DEF Range
  <1>7. IsFiniteSet(Range(body))
    <2>1. Range(body) = Imaged(body, DOMAIN body)
      BY DEF Range, Imaged
    <2>2. IsFiniteSet(DOMAIN body)
      BY <1>5, FS_Interval
    <2> QED BY <2>1, <2>2, ImageFinite
  <1>8. Pred(StepHead(u, u.lo)) = r.head.pred /\ TickOf(StepHead(u, u.lo)) = u.lo
    BY DEF StepHead, StepFact, Pred, TickOf
  <1> DEFINE missing == Range(body) \ facts
             g == [f \in missing |-> Silent(u.rule, f, <<>>, u.lo, u.hi, TRUE)]
  <1>9. Premises(u) = Imaged(g, missing)
    BY DEF Premises, Imaged
  <1>10. IsFiniteSet(StepBatch(u))
    <2>1. IsFiniteSet(missing)
      BY <1>7, FS_Subset
    <2> HIDE DEF g, missing
    <2>2. IsFiniteSet(Premises(u))
      BY <1>9, <2>1, ImageFinite
    <2> QED BY <2>2, FS_AddElement DEF StepBatch
  <1>11. ASSUME NEW b \in Premises(u)
         PROVE  /\ ~IsObserved(b) /\ b.ghost /\ TickOf(b.head) = u.lo /\ Pred(b.head) \notin Watched
                /\ b.head \notin facts
    <2>1. PICK f \in missing : b = Silent(u.rule, f, <<>>, u.lo, u.hi, TRUE)
      BY DEF Premises
    <2> QED BY <1>6, <2>1 DEF Silent, IsObserved
  <1>12. /\ ~IsObserved(StepInstance(u)) /\ StepInstance(u).body # <<>>
         /\ StepInstance(u).head = StepHead(u, u.lo)
    BY <1>5 DEF StepInstance, Silent, IsObserved
  <1>13. StepHead(u, u.lo) \notin Seeded
    BY <1>1, <1>8, SeededFacts DEF Shape
  <1>14. ~capped => Seeded \subseteq facts
    BY DEF Complete
  <1>15. ASSUME NEW b \in StepBatch(u)
         PROVE  /\ IsObserved(b) => b.evidence # {}
                /\ b.body # <<>> \/ b.ghost
                /\ TickOf(b.head) = u.lo
                /\ Pred(b.head) \notin Watched
                /\ ~capped => IsObserved(b) \/ b.head \notin Seeded
    <2>1. CASE b \in Premises(u)
      BY <1>11, <1>14, <2>1
    <2>2. CASE b = StepInstance(u)
      BY <1>3, <1>8, <1>12, <1>13, <2>2
    <2> QED BY <2>1, <2>2 DEF StepBatch
  <1> HIDE DEF body, missing, g, r
  <1> QED BY <1>2, <1>10, <1>15 DEF Sane

\* The batch of one obligation.
Obliging(o) == {f \in facts : Pred(f) = o.trigger /\ <<o.head, Args(f), TickOf(f)>> \notin facts}
Duty(o, f) ==
    Silent(o.name, <<o.head, Args(f), TickOf(f)>>, <<f>>, TickOf(f) - o.within, TickOf(f), TRUE)
DutyBatch(o) == {Duty(o, f) : f \in Obliging(o)}

\* An obligation over the triggers present.
LEMMA DutySane ==
    ASSUME Shape, Grounds, ~capped => Complete, phase # "seed", NEW o \in Range(Obligations)
    PROVE  Sane(DutyBatch(o)) /\ IsFiniteSet(DutyBatch(o))
  <1> DEFINE g == [f \in Obliging(o) |-> Duty(o, f)]
  <1>1. DutyBatch(o) = Imaged(g, Obliging(o))
    BY DEF DutyBatch, Imaged
  <1>2. IsFiniteSet(Obliging(o))
    BY FS_Subset DEF Obliging, Shape
  <1> HIDE DEF g
  <1>3. IsFiniteSet(DutyBatch(o))
    BY <1>1, <1>2, ImageFinite
  <1>4. o.head \notin Watched
    BY StrataAssumption
  <1>5. ~capped => Seeded \subseteq facts
    BY DEF Complete
  <1>6. ASSUME NEW b \in DutyBatch(o)
        PROVE  /\ ~IsObserved(b) /\ b.ghost /\ TickOf(b.head) \in Int /\ Pred(b.head) \notin Watched
               /\ b.head \notin facts
    <2>1. PICK f \in Obliging(o) : b = Duty(o, f)
      BY DEF DutyBatch
    <2>2. TickOf(f) \in Int /\ <<o.head, Args(f), TickOf(f)>> \notin facts
      BY DEF Obliging, Grounds
    <2>3. b.head = <<o.head, Args(f), TickOf(f)>> /\ b.ghost /\ ~IsObserved(b)
      BY <2>1 DEF Duty, Silent, IsObserved
    <2>4. TickOf(b.head) = TickOf(f) /\ Pred(b.head) = o.head
      BY <2>3 DEF TickOf, Pred
    <2> QED BY <1>4, <2>2, <2>3, <2>4
  <1> QED BY <1>3, <1>5, <1>6 DEF Sane
-----------------------------------------------------------------------------
(* The steps. *)

\* P_min as published stays what it was.
LEMMA LowerStays ==
    ASSUME LowerIsLeastModel, bundle' = bundle, lower' = lower, phase' = "silent" => phase = "silent"
    PROVE  LowerIsLeastModel'
  BY NextFiring, NextModels DEF LowerIsLeastModel

\* The start.
LEMMA InitInd == Init => GroundingInd
  <1> SUFFICES ASSUME Init PROVE GroundingInd
    OBVIOUS
  <1>1. IsFiniteSet({}) /\ Cardinality({}) = 0
    BY FS_EmptySet
  <1>2. plan \in [steps : SUBSET UnseenSteps, obligations : Seq(Range(Obligations))]
    <2>1. <<>> \in Seq(Range(Obligations)) /\ Obligations \in Seq(Range(Obligations))
      BY SilenceAssumption
    <2> QED BY <2>1 DEF Init
  <1>3. Shape
    <2>1. Cardinality(facts) <= MaxFacts /\ Cardinality(instances) <= MaxInstances
      BY <1>1, CapsAssumption DEF Init
    <2>2. phase = "seed" /\ UnseenOf(instances) = {}
      BY DEF Init, UnseenOf
    <2>3. capped \in BOOLEAN /\ ~capped
      BY DEF Init
    <2> QED BY <1>1, <1>2, <2>1, <2>2, <2>3 DEF Init, Shape, Phases, Saturating
  <1>4. Snapped
    BY DEF Init, Snapped
  <1>5. Grounds
    BY DEF Init, Grounds, AxiomsAreRecordsOrPremises
  <1>6. Complete
    BY DEF Init, Complete, Heads
  <1>7. Joined
    <2> SUFFICES ASSUME NEW r \in Rules, NEW c \in Firing(r, facts, Current) PROVE FALSE
      BY DEF Joined
    <2>1. c \in [DOMAIN r.body -> {}]
      BY DEF Firing, Init
    <2>2. \E k \in DOMAIN r.body : r.body[k].tick = r.head.tick
      BY RulesAssumption
    <2> QED BY <2>1, <2>2
  <1>8. Founded
    BY DEF Init, Founded
  <1>9. LowerIsLeastModel
    BY DEF Init, LowerIsLeastModel
  <1> QED BY <1>3, <1>4, <1>5, <1>6, <1>7, <1>8, <1>9 DEF GroundingInd

\* Seeding: all the records, or a part of them and a cap.
LEMMA SeedKeeps ==
    ASSUME GroundingInd, Seed
    PROVE  GroundingInd'
  <1>1. PICK kept \in SUBSET Seeded :
         /\ Cardinality(kept) = Smaller(MaxFacts, Cardinality(Seeded))
         /\ facts' = kept
         /\ fresh' = kept
         /\ capped' = (kept # Seeded)
    BY DEF Seed
  <1>2. /\ phase = "seed" /\ phase' = "lower" /\ instances' = instances /\ licensed' = licensed
        /\ bundle' = bundle /\ plan' = plan /\ ghosts' = ghosts /\ spans' = spans /\ lower' = lower
        /\ snap' = snap /\ delta' = delta /\ todo' = todo
    BY DEF Seed, pass
  <1>3. Shape /\ facts = {} /\ instances = {} /\ licensed = {} /\ delta = {} /\ todo = {}
    BY <1>2 DEF GroundingInd, Shape, Saturating
  <1>4. Seeded' = Seeded /\ IsFiniteSet(Seeded) /\ Cardinality(Seeded) \in Nat
    BY <1>2, <1>3, NextFiring, SeededFinite, FS_CardinalityType DEF Shape
  <1>5. IsFiniteSet(kept)
    BY <1>4, FS_Subset
  <1>6. Cardinality(kept) <= MaxFacts
    BY <1>1, <1>4, CapsAssumption DEF Smaller
  <1>7. Shape'
    BY <1>1, <1>2, <1>3, <1>5, <1>6, Zenon DEF Shape, Phases, Saturating, UnseenOf
  <1>8. Snapped'
    BY <1>2, <1>3 DEF Snapped
  <1>9. ghosts = {}
    BY <1>2, <1>3 DEF GroundingInd, Complete, Shape
  <1>10. Grounds'
    <2>1. \A f \in facts' : TickOf(f) \in Int
      BY <1>1, <1>3, SeededFacts DEF Shape
    <2>2. AxiomsAreRecordsOrPremises'
      BY <1>1, <1>4 DEF AxiomsAreRecordsOrPremises
    <2>3. \A f \in DOMAIN spans' : Span(spans'[f]) /\ TickOf(f) \in Int
                                 /\ Wider(<<TickOf(f), TickOf(f)>>, spans'[f])
      BY <1>2 DEF GroundingInd, Grounds
    <2>4. (licensed \cap Observed)' = {}
      BY <1>2, <1>3
    <2>5. \A i \in instances' : IsObserved(i) => i.evidence # {}
      BY <1>2, <1>3
    <2> QED BY <2>1, <2>2, <2>3, <2>4, <2>5 DEF Grounds
  <1>11. ASSUME ~capped' PROVE Complete' /\ Joined' /\ Founded'
    <2>1. facts' = Seeded /\ fresh' = Seeded
      BY <1>1, <1>11
    <2>3. Joined'
      <3> SUFFICES ASSUME NEW r \in Rules, NEW c \in Firing(r, facts, Current)',
                          \A k \in DOMAIN c : c[k] \notin fresh'
                   PROVE FALSE
        BY DEF Joined
      <3>1. c \in [DOMAIN r.body -> facts']
        BY DEF Firing
      <3>2. \E k \in DOMAIN r.body : r.body[k].tick = r.head.tick
        BY RulesAssumption
      <3> QED BY <2>1, <3>1, <3>2
    <2>4. Founded'
      <3>1. \A S : ModelOfRecords(S) => Seeded \subseteq S
        BY DEF ModelOfRecords
      <3>2. \A S : ModelOfRecords(S)' => facts' \subseteq S
        BY <1>2, <2>1, <3>1, NextModels
      <3> QED BY <1>2, <1>3, <3>2 DEF Founded
    <2>5. ghosts' \subseteq facts'
      BY <1>2, <1>9
    <2>6. Complete'
      BY <1>2, <1>3, <1>4, <2>1, <2>5 DEF Complete, Heads, Observed, SeenOf
    <2> QED BY <2>3, <2>4, <2>6
  <1>12. LowerIsLeastModel'
    BY <1>2, LowerStays DEF GroundingInd
  <1> QED BY <1>7, <1>8, <1>10, <1>11, <1>12 DEF GroundingInd
\* What holds of the base goes on holding when a step leaves the base alone.
LEMMA BaseStays ==
    ASSUME GroundingInd, bundle' = bundle, facts' = facts, instances' = instances,
           licensed' = licensed, ghosts' = ghosts, spans' = spans, capped' = capped
    PROVE  /\ Grounds'
           /\ Seeded' = Seeded /\ Observed' = Observed
           /\ \A r : Firing(r, facts, Current)' = Firing(r, facts, Current)
           /\ \A r, c : Made(r, c, facts)' = Made(r, c, facts)
  <1>1. Current' = Current
    BY DEF Current
  <1>2. Observed' = Observed
    BY DEF Observed, Heads, SeenOf
  <1>3. Seeded' = Seeded
    BY NextFiring
  <1>4. AxiomsAreRecordsOrPremises'
    BY <1>3 DEF AxiomsAreRecordsOrPremises, GroundingInd, Grounds
  <1>5. Grounds'
    BY <1>2, <1>4 DEF GroundingInd, Grounds
  <1>6. \A r : Firing(r, facts, Current)' = Firing(r, facts, Current)
    BY <1>1, NextFiring
  <1>7. \A r, c : Made(r, c, facts)' = Made(r, c, facts)
    BY NextFiring
  <1> QED BY <1>2, <1>3, <1>5, <1>6, <1>7

\* A pass begins: what was fresh is to be joined by every rule.
LEMMA StartPassKeeps ==
    ASSUME GroundingInd, StartPass
    PROVE  GroundingInd'
  <1>1. /\ Saturating /\ todo = {} /\ fresh # {} /\ delta' = fresh /\ fresh' = {} /\ todo' = Rules
        /\ snap' = IF delta = {} THEN Current ELSE snap
        /\ bundle' = bundle /\ plan' = plan /\ facts' = facts /\ instances' = instances
        /\ licensed' = licensed /\ ghosts' = ghosts /\ spans' = spans /\ capped' = capped
        /\ phase' = phase /\ lower' = lower
    BY DEF StartPass, PassOver, Current
  <1>2. /\ Grounds'
        /\ Seeded' = Seeded /\ Observed' = Observed
        /\ \A r : Firing(r, facts, Current)' = Firing(r, facts, Current)
        /\ \A r, c : Made(r, c, facts)' = Made(r, c, facts)
    BY <1>1, BaseStays
  <1>3. Shape /\ Snapped
    BY DEF GroundingInd
  <1>4. Shape'
    BY <1>1, <1>3, Zenon DEF Shape, Saturating, UnseenOf
  <1>5. Snapped'
    <2>1. CASE delta = {}
      BY <1>1, <1>3, <2>1 DEF Snapped, Current, Shape
    <2>2. CASE delta # {}
      BY <1>1, <1>3, <2>2 DEF Snapped
    <2> QED BY <2>1, <2>2
  <1>6. ASSUME ~capped' PROVE Complete' /\ Joined' /\ Founded'
    <2>1. Complete /\ Joined /\ Founded
      BY <1>1, <1>6 DEF GroundingInd
    <2>2. Complete'
      BY <1>1, <1>2, <2>1 DEF Complete, Heads, Saturating
    <2>3. Joined'
      BY <1>1, <1>2, <2>1 DEF Joined
    <2>4. Founded'
      BY <1>1, <2>1, NextFiring, NextModels DEF Founded
    <2> QED BY <2>2, <2>3, <2>4
  <1>7. LowerIsLeastModel'
    BY <1>1, LowerStays DEF GroundingInd
  <1> QED BY <1>2, <1>4, <1>5, <1>6, <1>7 DEF GroundingInd

\* The snapshot allows for all a choice of present facts fires under.
LEMMA CurrentLooser ==
    ASSUME Grounds, Snapped, delta # {}, NEW r, NEW c \in Firing(r, facts, Current)
    PROVE  Looser(c, Current, snap)
  <1> SUFFICES ASSUME NEW k \in DOMAIN c
               PROVE  /\ c[k] \in licensed => c[k] \in snap.free
                      /\ RangeKnown(c[k], snap) =>
                            /\ RangeKnown(c[k], Current)
                            /\ Span(TickRange(c[k], Current)) /\ Span(TickRange(c[k], snap))
                            /\ Wider(TickRange(c[k], Current), TickRange(c[k], snap))
    BY DEF Looser, Current
  <1>1. licensed \subseteq snap.free /\ snap.spans = spans
    BY DEF Snapped
  <1>2. c[k] \in facts
    BY DEF Firing
  <1>3. TickOf(c[k]) \in Int
    BY <1>2 DEF Grounds
  <1>4. c[k] \in DOMAIN spans =>
            Span(spans[c[k]]) /\ Wider(<<TickOf(c[k]), TickOf(c[k])>>, spans[c[k]])
    BY DEF Grounds
  <1>5. c[k] \in snap.free /\ RangeKnown(c[k], snap) => c[k] \in DOMAIN spans
    BY <1>1 DEF RangeKnown
  <1> QED BY <1>1, <1>3, <1>4, <1>5 DEF RangeKnown, TickRange, Current, Span, Wider

\* Without licensed facts every snapshot is the same.
LEMMA NothingFree ==
    ASSUME NEW r \in Rules, NEW known, \A f \in known : TickOf(f) \in Int,
           NEW s, NEW t, s.free = {}, t.free = {}, NEW c \in Firing(r, known, s)
    PROVE  c \in Firing(r, known, t)
  <1>1. Looser(c, s, t)
    <2> SUFFICES ASSUME NEW k \in DOMAIN c
                 PROVE  /\ c[k] \in s.free => c[k] \in t.free
                        /\ RangeKnown(c[k], t) =>
                              /\ RangeKnown(c[k], s)
                              /\ Span(TickRange(c[k], s)) /\ Span(TickRange(c[k], t))
                              /\ Wider(TickRange(c[k], s), TickRange(c[k], t))
      BY DEF Looser
    <2>1. c[k] \in known
      BY DEF Firing
    <2>2. TickOf(c[k]) \in Int
      BY <2>1
    <2> QED BY <2>2 DEF RangeKnown, TickRange, Span, Wider
  <1> QED BY <1>1, LooserFires
\* A rule is visited: what it emits is all that fires with a fact of the pass.
LEMMA VisitKeeps ==
    ASSUME GroundingInd, NEW v \in Rules, Visit(v)
    PROVE  GroundingInd'
  <1> DEFINE batch == Emitted(v, facts, delta, snap)
  <1>1. /\ Saturating /\ v \in todo /\ AddAll(batch) /\ todo' = todo \ {v}
        /\ bundle' = bundle /\ plan' = plan /\ spans' = spans /\ snap' = snap /\ delta' = delta
        /\ phase' = phase /\ lower' = lower
    BY DEF Visit
  <1>2. Shape /\ Snapped /\ Grounds
    BY DEF GroundingInd
  <1>3. delta # {} /\ phase # "seed" /\ phase # "silent"
    BY <1>1, <1>2 DEF Shape, Saturating
  <1>4. Sane(batch) /\ IsFiniteSet(batch) /\ UnseenOf(batch) = {}
    BY <1>2, EmittedSane
  <1> HIDE DEF batch
  <1>5. PICK kept : Adds(kept, batch)
    BY <1>1, <1>2, <1>4, AddAllAdds
  <1>6. /\ IsFiniteSet(facts') /\ IsFiniteSet(instances')
        /\ Cardinality(facts') <= MaxFacts /\ Cardinality(instances') <= MaxInstances
    BY <1>1, <1>2, <1>4, AddAllAdds
  <1>7. kept \subseteq batch /\ UnseenOf(kept) = {} /\ Heads(UnseenOf(kept)) = {}
    BY <1>4, <1>5 DEF Adds, UnseenOf, Heads
  <1>8. licensed' \subseteq licensed
    BY <1>5, <1>7 DEF Adds
  <1>9. Shape'
    <2>1. fresh' \subseteq facts' /\ delta' \subseteq facts' /\ todo' \subseteq Rules /\ capped' \in BOOLEAN
      BY <1>1, <1>2, <1>5 DEF Adds, Shape
    <2>2. UnseenOf(instances') = UnseenOf(instances)
      BY <1>5, <1>7 DEF Adds, UnseenOf
    <2>3. phase \in {"seed", "lower"} => licensed' = {} /\ UnseenOf(instances') = {}
      BY <1>2, <1>8, <2>2 DEF Shape
    <2>4. ~Saturating' => delta' = {}
      BY <1>1 DEF Saturating
    <2>5. phase \notin {"done", "aborted"}
      BY <1>1 DEF Saturating
    <2>6. UnseenOf(instances)' = UnseenOf(instances')
      BY DEF UnseenOf
    <2> QED BY <1>1, <1>2, <1>3, <1>6, <2>1, <2>3, <2>4, <2>5, <2>6 DEF Shape
  <1>10. Snapped'
    BY <1>1, <1>2, <1>8 DEF Snapped
  <1>11. Grounds'
    <2>1. \A f \in DOMAIN spans' : Span(spans'[f]) /\ TickOf(f) \in Int
                                 /\ Wider(<<TickOf(f), TickOf(f)>>, spans'[f])
      BY <1>1, <1>2 DEF Grounds
    <2> QED BY <1>1, <1>2, <1>4, <1>5, <2>1, AddedGrounds
  <1>12. ASSUME ~capped' PROVE Complete' /\ Joined' /\ Founded'
    <2>1. ~capped
      BY <1>2, <1>5, <1>12 DEF Adds, Shape
    <2>2. Complete /\ Joined /\ Founded
      BY <2>1 DEF GroundingInd
    <2>3. Complete'
      BY <1>1, <1>2, <1>3, <1>4, <1>5, <1>12, <2>2, AddedComplete
    <2>4. instances' = instances \cup batch /\ facts' = facts \cup Heads(kept)
      BY <1>5, <1>12 DEF Adds
    <2>5. Joined'
      <3> SUFFICES ASSUME NEW r \in Rules, NEW c \in Firing(r, facts, Current)',
                          \A k \in DOMAIN c : c[k] \notin fresh' /\ (r \in todo' => c[k] \notin delta')
                   PROVE  Made(r, c, facts)' \in instances'
        BY DEF Joined
      <3>1. c \in Firing(r, facts', Current') /\ Made(r, c, facts)' = Made(r, c, facts')
        BY <1>1, NextFiring
      <3>2. c \in Firing(r, facts, Current) /\ Made(r, c, facts') = Made(r, c, facts)
        BY <1>1, <1>2, <1>3, <1>4, <1>5, <1>12, <2>2, <3>1, FiredBefore
      <3>3. \A k \in DOMAIN c : c[k] \notin fresh
        BY <1>5 DEF Adds
      <3>4. CASE r \in todo => \A k \in DOMAIN c : c[k] \notin delta
        BY <2>2, <2>4, <3>1, <3>2, <3>3, <3>4 DEF Joined
      <3>5. CASE r \in todo /\ \E k \in DOMAIN c : c[k] \in delta
        <4>1. r = v
          BY <1>1, <3>5
        <4>2. c \in Firing(r, facts, snap)
          BY <1>2, <1>3, <3>2, CurrentLooser, LooserFires
        <4>3. Made(r, c, facts) \in batch
          BY <3>5, <4>1, <4>2, EmittedFires DEF batch
        <4> QED BY <2>4, <3>1, <3>2, <4>3
      <3> QED BY <3>4, <3>5
    <2>6. ASSUME phase = "lower"
          PROVE  /\ \A S : ModelOfRecords(S)' => facts' \subseteq S
                 /\ \A i \in instances' : \E r \in Rules : \E c \in Firing(r, facts, NoSnap)' :
                       i = Made(r, c, facts)'
      <3>1. snap.free = {} /\ NoSnap.free = {}
        BY <1>2, <1>3, <2>6 DEF Snapped, NoSnap
      <3>2. \A f \in facts : TickOf(f) \in Int
        BY <1>2 DEF Grounds
      <3>3. ASSUME NEW b \in batch
            PROVE  \E c \in Firing(v, facts, NoSnap) : b = Made(v, c, facts)
        <4>1. PICK c \in Firing(v, facts, snap) : b = Made(v, c, facts)
          BY EmittedFires DEF batch
        <4>2. c \in Firing(v, facts, NoSnap)
          BY <3>1, <3>2, NothingFree
        <4> QED BY <4>1, <4>2
      <3>4. ASSUME NEW S, ModelOfRecords(S)' PROVE facts' \subseteq S
        <4>1. ModelOfRecords(S)
          BY <1>1, <3>4, NextModels
        <4>2. facts \subseteq S
          BY <2>2, <2>6, <4>1 DEF Founded
        <4>3. SameWatched(facts, S)
          BY <1>3, <2>2, <4>1 DEF SameWatched, Complete, ModelOfRecords
        <4>4. ASSUME NEW b \in batch PROVE b.head \in S
          <5>1. PICK c \in Firing(v, facts, NoSnap) : b = Made(v, c, facts)
            BY <3>3
          <5>2. c \in [DOMAIN v.body -> facts] /\ \A k \in DOMAIN c : c[k] \in S
            BY <4>2 DEF Firing
          <5>3. c \in Firing(v, S, NoSnap) /\ b = Made(v, c, S)
            BY <4>3, <5>1, <5>2, FiresAnywhere
          <5>4. \E k \in DOMAIN c : c[k] \in S
            BY <5>2, RulesAssumption
          <5>5. b \in Emitted(v, S, S, NoSnap)
            BY <5>3, <5>4, EmittedFires
          <5> QED BY <4>1, <5>5 DEF ModelOfRecords, IsModel
        <4> QED BY <1>7, <2>4, <4>2, <4>4 DEF Heads
      <3>5. SameWatched(facts, facts')
        BY <1>1, <1>3, <2>2, <2>3, CompleteWatched
      <3>6. ASSUME NEW i \in instances'
            PROVE  \E r \in Rules : \E c \in Firing(r, facts, NoSnap)' : i = Made(r, c, facts)'
        <4>1. PICK r \in Rules : \E c \in Firing(r, facts, NoSnap) : i = Made(r, c, facts)
          BY <2>2, <2>4, <2>6, <3>3 DEF Founded
        <4>2. PICK c \in Firing(r, facts, NoSnap) : i = Made(r, c, facts)
          BY <4>1
        <4>3. \A k \in DOMAIN c : c[k] \in facts'
          BY <2>4 DEF Firing
        <4>4. c \in Firing(r, facts', NoSnap) /\ i = Made(r, c, facts')
          BY <3>5, <4>2, <4>3, FiresAnywhere
        <4> QED BY <1>1, <4>4, NextFiring
      <3> QED BY <3>4, <3>6
    <2>7. Founded'
      BY <1>1, <2>6 DEF Founded
    <2> QED BY <2>3, <2>5, <2>7
  <1>13. LowerIsLeastModel'
    BY <1>1, LowerStays DEF GroundingInd
  <1> QED BY <1>9, <1>10, <1>11, <1>12, <1>13 DEF GroundingInd
\* A fixpoint over the records is their least model.
LEMMA LowerIsReached ==
    ASSUME GroundingInd, phase = "lower", todo = {}, fresh = {}, ~capped
    PROVE  /\ Seeded \subseteq facts /\ IsModel(facts)
           /\ \A derived \in SUBSET (facts \ Seeded) :
                  IsModel(Seeded \cup derived) => Seeded \cup derived = facts
           /\ instances = LeastInstances(facts)
  <1>1. Shape /\ Grounds /\ Complete /\ Joined /\ Founded
    BY DEF GroundingInd
  <1>2. licensed = {} /\ Current.free = {} /\ NoSnap.free = {}
    BY <1>1 DEF Shape, Current, NoSnap
  <1>3. \A f \in facts : TickOf(f) \in Int
    BY <1>1 DEF Grounds
  <1>4. ASSUME NEW r \in Rules, NEW i \in Emitted(r, facts, facts, NoSnap) PROVE i \in instances
    <2>1. PICK c \in Firing(r, facts, NoSnap) : i = Made(r, c, facts)
      BY EmittedFires
    <2>2. c \in Firing(r, facts, Current)
      BY <1>2, <1>3, NothingFree
    <2> QED BY <1>1, <2>1, <2>2 DEF Joined
  <1>5. ASSUME NEW i \in instances PROVE \E r \in Rules : i \in Emitted(r, facts, facts, NoSnap)
    <2>1. PICK r \in Rules : \E c \in Firing(r, facts, NoSnap) : i = Made(r, c, facts)
      BY <1>1 DEF Founded
    <2>2. PICK c \in Firing(r, facts, NoSnap) : i = Made(r, c, facts)
      BY <2>1
    <2>3. c \in [DOMAIN r.body -> facts]
      BY DEF Firing
    <2>4. \E k \in DOMAIN c : c[k] \in facts
      BY <2>3, RulesAssumption
    <2> QED BY <2>2, <2>4, EmittedFires
  <1>6. Seeded \subseteq facts
    BY <1>1 DEF Complete
  <1>7. IsModel(facts)
    BY <1>1, <1>4 DEF IsModel, Complete, Heads
  <1>8. ASSUME NEW derived \in SUBSET (facts \ Seeded), IsModel(Seeded \cup derived)
        PROVE  Seeded \cup derived = facts
    <2>1. ModelOfRecords(Seeded \cup derived)
      BY <1>1, <1>8 DEF ModelOfRecords, Complete
    <2>2. facts \subseteq Seeded \cup derived
      BY <1>1, <2>1 DEF Founded
    <2> QED BY <1>6, <2>2
  <1> QED BY <1>4, <1>5, <1>6, <1>7, <1>8 DEF LeastInstances

\* A saturation ends, at its fixpoint or with a cap.
LEMMA LeaveKeeps ==
    ASSUME GroundingInd, PassOver, NEW withCap \in BOOLEAN, Leave(withCap), ~withCap => fresh = {}
    PROVE  GroundingInd'
  <1>1. /\ Saturating /\ todo = {} /\ capped' = (capped \/ withCap)
        /\ delta' = {} /\ fresh' = {} /\ todo' = {}
        /\ phase' \in {"silent", "oblige", "aborted", "done"}
        /\ phase' = "silent" => phase = "lower"
        /\ lower' = IF phase = "lower"
                    THEN [facts |-> facts, instances |-> instances, capped |-> capped']
                    ELSE lower
        /\ bundle' = bundle /\ plan' = plan /\ facts' = facts /\ instances' = instances
        /\ licensed' = licensed /\ ghosts' = ghosts /\ spans' = spans /\ snap' = snap
    <2>1. phase \in {"lower", "upper", "last"}
      BY DEF PassOver, Saturating
    <2>2. phase' = CASE phase = "lower" -> "silent"
                  [] phase = "upper" -> "oblige"
                  [] phase = "last" -> IF \E i \in instances : Hypothetical(i)
                                       THEN "aborted" ELSE "done"
      BY DEF Leave
    <2>3. phase' \in {"silent", "oblige", "aborted", "done"} /\ (phase' = "silent" => phase = "lower")
      BY <2>1, <2>2
    <2> QED BY <2>3 DEF Leave, PassOver
  <1>2. Shape /\ Grounds
    BY DEF GroundingInd
  <1>3. Seeded' = Seeded /\ Observed' = Observed
    BY <1>1, NextFiring DEF Observed, Heads, SeenOf
  <1>4. Shape'
    <2>1. capped' \in BOOLEAN
      BY <1>1, <1>2 DEF Shape
    <2>2. phase' \in Phases /\ phase' \notin {"seed", "lower"}
      BY <1>1 DEF Phases
    <2> QED BY <1>1, <1>2, <2>1, <2>2 DEF Shape
  <1>5. Snapped'
    BY <1>1 DEF Snapped
  <1>6. Grounds'
    <2>1. AxiomsAreRecordsOrPremises'
      BY <1>1, <1>2, <1>3 DEF Grounds, AxiomsAreRecordsOrPremises
    <2> QED BY <1>1, <1>2, <1>3, <2>1 DEF Grounds
  <1>7. ASSUME ~capped' PROVE Complete' /\ Joined' /\ Founded'
    <2>1. ~capped /\ fresh = {}
      BY <1>1, <1>7
    <2>2. Complete /\ Joined /\ Founded
      BY <2>1 DEF GroundingInd
    <2>3. phase' = "silent" => licensed' = {}
      BY <1>1, <1>2 DEF Shape
    <2>4. Complete'
      BY <1>1, <1>3, <2>2, <2>3 DEF Complete, Heads, Saturating
    <2>5. Joined'
      <3>1. Current' = Current
        BY <1>1 DEF Current
      <3> QED BY <1>1, <2>1, <2>2, <3>1, NextFiring DEF Joined
    <2>6. Founded'
      BY <1>1 DEF Founded
    <2> QED BY <2>4, <2>5, <2>6
  <1>8. LowerIsLeastModel'
    <2> SUFFICES ASSUME phase' = "silent", ~lower'.capped
                 PROVE  (/\ Seeded \subseteq lower.facts /\ IsModel(lower.facts)
                         /\ \A derived \in SUBSET (lower.facts \ Seeded) :
                               IsModel(Seeded \cup derived) => Seeded \cup derived = lower.facts
                         /\ lower.instances = LeastInstances(lower.facts))'
      BY DEF LowerIsLeastModel
    <2>1. phase = "lower" /\ lower'.facts = facts /\ lower'.instances = instances /\ ~capped'
      BY <1>1
    <2>2. ~capped /\ fresh = {}
      BY <1>1, <2>1
    <2>3. /\ Seeded \subseteq facts /\ IsModel(facts)
          /\ \A derived \in SUBSET (facts \ Seeded) :
                  IsModel(Seeded \cup derived) => Seeded \cup derived = facts
          /\ instances = LeastInstances(facts)
      BY <1>1, <2>1, <2>2, LowerIsReached
    <2>4. /\ IsModel(lower.facts)' = IsModel(facts)
          /\ LeastInstances(lower.facts)' = LeastInstances(facts)
      BY <1>1, <2>1, NextFiring DEF IsModel, LeastInstances, Emitted, TemporalHolds, AbsenceHolds,
                         AbsenceIsObserved, Evidence, AxiomEvents, Instance, Joins
    <2>5. \A derived : IsModel(Seeded \cup derived)' = IsModel(Seeded \cup derived)
      BY <1>1, <1>3, NextFiring DEF IsModel, Emitted, TemporalHolds, AbsenceHolds,
                         AbsenceIsObserved, Evidence, AxiomEvents, Instance, Joins
    <2> QED BY <1>3, <2>1, <2>3, <2>4, <2>5
  <1> QED BY <1>4, <1>5, <1>6, <1>7, <1>8 DEF GroundingInd
\* What a batch of silence does, given what becomes of the spans.
LEMMA SilenceKeeps ==
    ASSUME GroundingInd, NEW batch, Sane(batch), IsFiniteSet(batch), AddAll(batch),
           phase \in {"silent", "oblige"}, phase' = phase, bundle' = bundle,
           plan' \in [steps : SUBSET UnseenSteps, obligations : Seq(Range(Obligations))],
           snap' = snap, delta' = delta, todo' = todo, lower' = lower,
           \A f \in (DOMAIN spans)' : Span(spans'[f]) /\ TickOf(f) \in Int
                                 /\ Wider(<<TickOf(f), TickOf(f)>>, spans'[f]),
           phase = "silent" \/ spans' = spans
    PROVE  GroundingInd'
  <1>1. Shape /\ Grounds
    BY DEF GroundingInd
  <1>2. delta = {} /\ todo = {} /\ phase \notin {"seed", "lower", "done", "aborted"}
    BY <1>1 DEF Shape, Saturating
  <1>3. PICK kept : Adds(kept, batch)
    BY <1>1, AddAllAdds
  <1>4. /\ IsFiniteSet(facts') /\ IsFiniteSet(instances')
        /\ Cardinality(facts') <= MaxFacts /\ Cardinality(instances') <= MaxInstances
    BY <1>1, AddAllAdds
  <1>5. Shape'
    <2>1. fresh' \subseteq facts' /\ capped' \in BOOLEAN
      BY <1>1, <1>3 DEF Adds, Shape
    <2> QED BY <1>1, <1>2, <1>4, <2>1 DEF Shape
  <1>6. Snapped'
    BY <1>2 DEF Snapped
  <1>7. Grounds'
    BY <1>1, <1>3, AddedGrounds
  <1>8. ASSUME ~capped' PROVE Complete' /\ Joined' /\ Founded'
    <2>1. ~capped
      BY <1>1, <1>3, <1>8 DEF Adds, Shape
    <2>2. Complete /\ Joined
      BY <2>1 DEF GroundingInd
    <2>3. Complete'
      BY <1>1, <1>2, <1>3, <1>8, <2>2, AddedComplete
    <2>4. \A f \in licensed : f \notin fresh =>
               (f \in DOMAIN spans => f \in DOMAIN spans' /\ spans'[f] = spans[f])
      BY <2>2 DEF Complete
    <2>5. Joined'
      <3> SUFFICES ASSUME NEW r \in Rules, NEW c \in Firing(r, facts, Current)',
                          \A k \in DOMAIN c : c[k] \notin fresh'
                   PROVE  Made(r, c, facts)' \in instances'
        BY <1>2 DEF Joined
      <3>1. c \in Firing(r, facts', Current') /\ Made(r, c, facts)' = Made(r, c, facts')
        BY NextFiring
      <3>2. c \in Firing(r, facts, Current) /\ Made(r, c, facts') = Made(r, c, facts)
        BY <1>1, <1>2, <1>3, <1>8, <2>2, <2>4, <3>1, FiredBefore
      <3>3. \A k \in DOMAIN c : c[k] \notin fresh
        BY <1>3 DEF Adds
      <3>4. Made(r, c, facts) \in instances
        BY <1>2, <2>2, <3>2, <3>3 DEF Joined
      <3> QED BY <1>3, <3>1, <3>2, <3>4 DEF Adds
    <2>6. Founded'
      BY <1>2 DEF Founded
    <2> QED BY <2>3, <2>5, <2>6
  <1>9. LowerIsLeastModel'
    BY LowerStays DEF GroundingInd
  <1> QED BY <1>5, <1>6, <1>7, <1>8, <1>9 DEF GroundingInd

\* A licensed step goes in.
LEMMA AdmitStepKeeps ==
    ASSUME GroundingInd, NEW u \in UnseenSteps, AdmitStep(u)
    PROVE  GroundingInd'
  <1>1. /\ phase = "silent" /\ phase' = phase /\ bundle' = bundle /\ snap' = snap
        /\ delta' = delta /\ todo' = todo /\ lower' = lower
        /\ AddAll(StepBatch(u)) /\ spans' = Widen(spans, Heads(StepBatch(u)), u.lo, u.hi)
        /\ plan' = [plan EXCEPT !.steps = @ \ {u}]
    BY DEF AdmitStep, pass, StepBatch, Heads
  <1>2. Shape /\ Grounds /\ (~capped => Complete)
    BY DEF GroundingInd
  <1>3. /\ Sane(StepBatch(u)) /\ IsFiniteSet(StepBatch(u))
        /\ \A b \in StepBatch(u) : TickOf(b.head) = u.lo
    BY <1>1, <1>2, StepSane
  <1>4. plan' \in [steps : SUBSET UnseenSteps, obligations : Seq(Range(Obligations))]
    BY <1>1, <1>2 DEF Shape
  <1>5. u.lo \in Int /\ u.hi \in Int /\ u.lo <= u.hi
    BY SilenceAssumption
  <1> DEFINE hs == Heads(StepBatch(u))
  <1>6. \A f \in hs : TickOf(f) = u.lo
    BY <1>3 DEF Heads
  <1> HIDE DEF hs
  <1>7. ASSUME NEW f \in DOMAIN spans'
        PROVE  Span(spans'[f]) /\ TickOf(f) \in Int /\ Wider(<<TickOf(f), TickOf(f)>>, spans'[f])
    <2>1. DOMAIN spans' = DOMAIN spans \cup hs
      BY <1>1 DEF Widen, hs
    <2>2. f \in DOMAIN spans => Span(spans[f]) /\ TickOf(f) \in Int /\ Wider(<<TickOf(f), TickOf(f)>>, spans[f])
      BY <1>2 DEF Grounds
    <2>3. CASE f \notin hs
      <3>1. spans'[f] = spans[f] /\ f \in DOMAIN spans
        BY <1>1, <2>1, <2>3 DEF Widen, hs
      <3> QED BY <2>2, <3>1
    <2>4. CASE f \in hs /\ f \in DOMAIN spans
      <3>1. spans'[f] = <<Smaller(u.lo, spans[f][1]), Larger(u.hi, spans[f][2])>>
        BY <1>1, <2>4 DEF Widen, hs
      <3> QED BY <1>5, <1>6, <2>2, <2>4, <3>1 DEF Smaller, Larger, Span, Wider
    <2>5. CASE f \in hs /\ f \notin DOMAIN spans
      <3>1. spans'[f] = <<u.lo, u.hi>>
        BY <1>1, <2>5 DEF Widen, hs
      <3> QED BY <1>5, <1>6, <2>5, <3>1 DEF Span, Wider
    <2> QED BY <2>1, <2>3, <2>4, <2>5
  <1> QED BY <1>1, <1>3, <1>4, <1>7, SilenceKeeps

\* An obligation is met over the triggers present.
LEMMA ObligeKeeps ==
    ASSUME GroundingInd, Oblige
    PROVE  GroundingInd'
  <1> DEFINE o == Head(plan.obligations)
  <1>1. /\ phase = "oblige" /\ phase' = phase /\ bundle' = bundle /\ snap' = snap
        /\ delta' = delta /\ todo' = todo /\ lower' = lower /\ spans' = spans
        /\ plan.obligations # <<>>
        /\ plan' = [plan EXCEPT !.obligations = Tail(@)]
    BY DEF Oblige, pass
  <1>2. AddAll(DutyBatch(o))
    BY DEF Oblige, DutyBatch, Obliging, Duty
  <1>3. Shape /\ Grounds /\ (~capped => Complete)
    BY DEF GroundingInd
  <1>4. plan.obligations \in Seq(Range(Obligations))
    BY <1>3 DEF Shape
  <1>5. o \in Range(Obligations) /\ Tail(plan.obligations) \in Seq(Range(Obligations))
    BY <1>1, <1>4
  <1>6. plan' \in [steps : SUBSET UnseenSteps, obligations : Seq(Range(Obligations))]
    BY <1>1, <1>3, <1>5 DEF Shape
  <1>7. Sane(DutyBatch(o)) /\ IsFiniteSet(DutyBatch(o))
    BY <1>1, <1>3, <1>5, DutySane
  <1>8. \A f \in DOMAIN spans' : Span(spans'[f]) /\ TickOf(f) \in Int
                                 /\ Wider(<<TickOf(f), TickOf(f)>>, spans'[f])
    BY <1>1, <1>3 DEF Grounds
  <1> HIDE DEF o
  <1> QED BY <1>1, <1>2, <1>6, <1>7, <1>8, SilenceKeeps

\* The next saturation begins, over the base as it is.
LEMMA TurnKeeps ==
    ASSUME GroundingInd, StepsAdmitted \/ ObligationsMet
    PROVE  GroundingInd'
  <1>1. /\ phase \in {"silent", "oblige"} /\ phase' \in {"upper", "last"}
        /\ bundle' = bundle /\ plan' = plan /\ facts' = facts /\ instances' = instances
        /\ licensed' = licensed /\ ghosts' = ghosts /\ spans' = spans /\ capped' = capped
        /\ fresh' = fresh /\ snap' = snap /\ delta' = delta /\ todo' = todo /\ lower' = lower
    BY DEF StepsAdmitted, ObligationsMet, base, pass
  <1>2. /\ Grounds'
        /\ Seeded' = Seeded /\ Observed' = Observed
        /\ \A r : Firing(r, facts, Current)' = Firing(r, facts, Current)
        /\ \A r, c : Made(r, c, facts)' = Made(r, c, facts)
    BY <1>1, BaseStays
  <1>3. Shape
    BY DEF GroundingInd
  <1>4. delta = {} /\ phase' \notin {"seed", "lower", "silent", "done", "aborted"} /\ phase' \in Phases /\ phase # "seed"
    BY <1>1, <1>3 DEF Shape, Saturating, Phases
  <1>5. Shape'
    BY <1>1, <1>3, <1>4 DEF Shape
  <1>6. Snapped'
    BY <1>1, <1>4 DEF Snapped
  <1>7. ASSUME ~capped' PROVE Complete' /\ Joined' /\ Founded'
    <2>1. Complete /\ Joined
      BY <1>1, <1>7 DEF GroundingInd
    <2>2. Complete'
      BY <1>1, <1>2, <1>4, <2>1 DEF Complete, Heads
    <2>3. Joined'
      BY <1>1, <1>2, <2>1 DEF Joined
    <2>4. Founded'
      BY <1>4 DEF Founded
    <2> QED BY <2>2, <2>3, <2>4
  <1>8. LowerIsLeastModel'
    BY <1>1, <1>4, LowerStays DEF GroundingInd
  <1> QED BY <1>2, <1>5, <1>6, <1>7, <1>8 DEF GroundingInd

\* Nothing happens.
LEMMA StutterKeeps ==
    ASSUME GroundingInd, UNCHANGED vars
    PROVE  GroundingInd'
  <1>1. /\ bundle' = bundle /\ plan' = plan /\ facts' = facts /\ instances' = instances
        /\ licensed' = licensed /\ ghosts' = ghosts /\ spans' = spans /\ capped' = capped
        /\ fresh' = fresh /\ snap' = snap /\ delta' = delta /\ todo' = todo /\ lower' = lower
        /\ phase' = phase
    BY DEF vars, base, pass
  <1>2. /\ Grounds'
        /\ Seeded' = Seeded /\ Observed' = Observed
        /\ \A r : Firing(r, facts, Current)' = Firing(r, facts, Current)
        /\ \A r, c : Made(r, c, facts)' = Made(r, c, facts)
    BY <1>1, BaseStays
  <1>3. Shape' /\ Snapped'
    BY <1>1, Zenon DEF GroundingInd, Shape, Snapped, Saturating, UnseenOf
  <1>4. ASSUME ~capped' PROVE Complete' /\ Joined' /\ Founded'
    <2>1. Complete /\ Joined /\ Founded
      BY <1>1, <1>4 DEF GroundingInd
    <2>2. Complete'
      BY <1>1, <1>2, <2>1 DEF Complete, Heads
    <2>3. Joined'
      BY <1>1, <1>2, <2>1 DEF Joined
    <2>4. Founded'
      BY <1>1, <2>1, NextFiring, NextModels DEF Founded
    <2> QED BY <2>2, <2>3, <2>4
  <1>5. LowerIsLeastModel'
    BY <1>1, LowerStays DEF GroundingInd
  <1> QED BY <1>2, <1>3, <1>4, <1>5 DEF GroundingInd

-----------------------------------------------------------------------------
(* Where a licensed step may have happened. *)

\* Every step that went in has a window recorded around its own.
Spread ==
    \A u \in UnseenSteps : StepInstance(u) \in instances =>
        /\ StepHead(u, u.lo) \in DOMAIN spans
        /\ Wider(<<u.lo, u.hi>>, spans[StepHead(u, u.lo)])

\* A window is only ever widened, and to hold the window added.
LEMMA WidenHolds ==
    ASSUME NEW sp, NEW fs, NEW lo \in Int, NEW hi \in Int, NEW f \in DOMAIN Widen(sp, fs, lo, hi),
           f \in DOMAIN sp => Span(sp[f])
    PROVE  /\ f \in DOMAIN sp => Wider(sp[f], Widen(sp, fs, lo, hi)[f])
           /\ f \in fs => Wider(<<lo, hi>>, Widen(sp, fs, lo, hi)[f])
  <1>1. DOMAIN Widen(sp, fs, lo, hi) = DOMAIN sp \cup fs
    BY DEF Widen
  <1>2. CASE f \notin fs
    <2>1. Widen(sp, fs, lo, hi)[f] = sp[f] /\ f \in DOMAIN sp
      BY <1>1, <1>2 DEF Widen
    <2> QED BY <1>2, <2>1 DEF Span, Wider
  <1>3. CASE f \in fs /\ f \in DOMAIN sp
    <2>1. Widen(sp, fs, lo, hi)[f] = <<Smaller(lo, sp[f][1]), Larger(hi, sp[f][2])>>
      BY <1>1, <1>3 DEF Widen
    <2> QED BY <1>3, <2>1 DEF Smaller, Larger, Span, Wider
  <1>4. CASE f \in fs /\ f \notin DOMAIN sp
    <2>1. Widen(sp, fs, lo, hi)[f] = <<lo, hi>>
      BY <1>1, <1>4 DEF Widen
    <2> QED BY <1>4, <2>1 DEF Wider
  <1> QED BY <1>2, <1>3, <1>4

\* Nothing but the admission of a step makes the instance of one.
LEMMA SpreadStays ==
    ASSUME Spread, spans' = spans,
           \A i \in instances' \ instances : i.licence = {} \/ i.ghost
    PROVE  Spread'
  <1> SUFFICES ASSUME NEW u \in UnseenSteps, StepInstance(u) \in instances'
               PROVE  /\ StepHead(u, u.lo) \in DOMAIN spans'
                      /\ Wider(<<u.lo, u.hi>>, spans'[StepHead(u, u.lo)])
    BY DEF Spread, StepInstance, StepHead, StepBody, Silent
  <1>1. StepInstance(u).licence # {} /\ ~StepInstance(u).ghost
    BY DEF StepInstance, Silent
  <1>2. StepInstance(u) \in instances
    BY <1>1
  <1> QED BY <1>2 DEF Spread

\* What is added is of the batch.
LEMMA AddedFromBatch ==
    ASSUME NEW batch, AddAll(batch)
    PROVE  \A i \in instances' \ instances : i \in batch
  BY DEF AddAll

LEMMA SpreadKeeps ==
    ASSUME GroundingInd, Spread, [Next]_vars
    PROVE  Spread'
  <1>1. CASE UNCHANGED <<instances, spans>>
    BY <1>1, SpreadStays
  <1>2. ASSUME NEW r \in Rules, Visit(r) PROVE Spread'
    <2>1. AddAll(Emitted(r, facts, delta, snap)) /\ spans' = spans
      BY <1>2 DEF Visit
    <2>2. \A i \in Emitted(r, facts, delta, snap) : i.licence = {}
      BY DEF Emitted, Instance
    <2> QED BY <2>1, <2>2, AddedFromBatch, SpreadStays
  <1>3. CASE Oblige
    <2>1. AddAll(DutyBatch(Head(plan.obligations))) /\ spans' = spans
      BY <1>3 DEF Oblige, DutyBatch, Obliging, Duty
    <2>2. \A i \in DutyBatch(Head(plan.obligations)) : i.ghost
      BY DEF DutyBatch, Duty, Silent
    <2> QED BY <2>1, <2>2, AddedFromBatch, SpreadStays
  <1>4. ASSUME NEW v \in UnseenSteps, AdmitStep(v) PROVE Spread'
    <2> DEFINE hs == Heads(StepBatch(v))
    <2>1. AddAll(StepBatch(v)) /\ spans' = Widen(spans, hs, v.lo, v.hi)
      BY <1>4 DEF AdmitStep, StepBatch, Heads
    <2>2. v.lo \in Int /\ v.hi \in Int
      BY SilenceAssumption
    <2>3. \A f \in DOMAIN spans : Span(spans[f])
      BY DEF GroundingInd, Grounds
    <2>4. DOMAIN spans' = DOMAIN spans \cup hs
      BY <2>1 DEF Widen
    <2> SUFFICES ASSUME NEW u \in UnseenSteps, StepInstance(u) \in instances'
                 PROVE  /\ StepHead(u, u.lo) \in DOMAIN spans'
                        /\ Wider(<<u.lo, u.hi>>, spans'[StepHead(u, u.lo)])
      BY DEF Spread, StepInstance, StepHead, StepBody, Silent
    <2>0. PICK h : h = StepHead(u, u.lo)
      OBVIOUS
    <2> SUFFICES h \in DOMAIN spans' /\ Wider(<<u.lo, u.hi>>, spans'[h])
      BY <2>0
    <2>5. u.lo \in Int /\ u.hi \in Int
      BY SilenceAssumption
    <2>6. CASE StepInstance(u) \in instances
      <3>1. h \in DOMAIN spans /\ Wider(<<u.lo, u.hi>>, spans[h]) /\ Span(spans[h])
        BY <2>0, <2>3, <2>6 DEF Spread
      <3>2. h \in DOMAIN spans' /\ Wider(spans[h], spans'[h])
        BY <2>1, <2>2, <2>4, <3>1, WidenHolds
      <3>3. Span(spans'[h])
        <4>1. GroundingInd'
          BY <1>4, AdmitStepKeeps
        <4> QED BY <3>2, <4>1 DEF GroundingInd, Grounds
      <3> QED BY <2>5, <3>1, <3>2, <3>3 DEF Wider, Span
    <2>7. CASE StepInstance(u) \notin instances
      <3>1. StepInstance(u) \in StepBatch(v)
        BY <2>1, <2>7, AddedFromBatch
      <3>2. StepInstance(u) = StepInstance(v)
        <4>1. \A b \in Premises(v) : b.ghost
          BY DEF Premises, Silent
        <4>2. ~StepInstance(u).ghost
          BY DEF StepInstance, Silent
        <4> QED BY <3>1, <4>1, <4>2 DEF StepBatch
      <3>3. u.lo = v.lo /\ u.hi = v.hi
        <4>1. {[rule |-> u.rule, lo |-> u.lo, hi |-> u.hi]} = {[rule |-> v.rule, lo |-> v.lo, hi |-> v.hi]}
          BY <3>2 DEF StepInstance, Silent
        <4>2. [rule |-> u.rule, lo |-> u.lo, hi |-> u.hi] = [rule |-> v.rule, lo |-> v.lo, hi |-> v.hi]
          BY <4>1
        <4> QED BY <4>2
      <3>4. h \in hs
        <4>1. StepInstance(u).head = h
          BY <2>0 DEF StepInstance, Silent
        <4> QED BY <3>1, <4>1 DEF Heads
      <3>5. h \in DOMAIN spans'
        BY <2>4, <3>4
      <3> HIDE DEF hs
      <3> QED BY <2>1, <2>2, <2>3, <3>3, <3>4, <3>5, WidenHolds
    <2> QED BY <2>6, <2>7
  <1>5. CASE Seed \/ StartPass \/ Saturated \/ OutOfIterations \/ StepsAdmitted \/ ObligationsMet
    BY <1>1, <1>5 DEF Seed, StartPass, Saturated, OutOfIterations, StepsAdmitted, ObligationsMet, Leave, base
  <1>6. CASE UNCHANGED vars
    BY <1>1, <1>6 DEF vars, base
  <1> QED BY <1>2, <1>3, <1>4, <1>5, <1>6 DEF Next

\* A fact of the envelope stands for one of a world: it is the same, or the
\* world's is not there and this is the representative of a licensed step whose
\* window holds its tick.
StandsFor(g, f) ==
    /\ g \in facts /\ Pred(g) = Pred(f) /\ Args(g) = Args(f)
    /\ g # f =>
          /\ f \notin facts /\ TickOf(f) \in Int
          /\ g \in licensed /\ g \in DOMAIN spans /\ Wider(<<TickOf(f), TickOf(f)>>, spans[g])
          /\ \E u \in UnseenSteps : Pred(f) = RuleOf(u.rule).head.pred

\* What fires over the instants of a world fires over the facts that stand for
\* them, and has the same head.
LEMMA StandInsFire ==
    ASSUME Grounds, Complete, phase # "seed",
           NEW known, Seeded \subseteq known, \A f \in known : Pred(f) \in Watched => f \in Seeded,
           NEW r \in Rules, NEW c \in Firing(r, known, NoSnap),
           NEW d \in [DOMAIN r.body -> facts], \A k \in DOMAIN r.body : StandsFor(d[k], c[k])
    PROVE  d \in Firing(r, facts, Current) /\ HeadFact(r, d) = HeadFact(r, c)
  <1>1. c \in [DOMAIN r.body -> known] /\ DOMAIN c = DOMAIN r.body /\ DOMAIN d = DOMAIN r.body
    BY DEF Firing
  <1>2. ASSUME NEW k \in DOMAIN r.body, d[k] # c[k]
        PROVE  /\ r.body[k].tick # r.head.tick
               /\ \A j \in DOMAIN r.body \ {k} : r.body[j].tick # r.body[k].tick
               /\ r.temporal.op = "absence" => r.temporal.before # k
    <2>1. PICK u \in UnseenSteps : Pred(c[k]) = RuleOf(u.rule).head.pred
      BY <1>2 DEF StandsFor
    <2>2. Pred(c[k]) = r.body[k].pred
      BY <1>1 DEF Firing, Fits
    <2> QED BY <2>1, <2>2, PlacesAssumption
  <1>3. ASSUME NEW k \in DOMAIN r.body PROVE c[k] \in Seeded => d[k] = c[k]
    BY DEF StandsFor, Complete
  <1>4. \A k \in DOMAIN d : Fits(r.body[k], d[k])
    BY <1>1 DEF Firing, Fits, StandsFor
  <1>5. EntityBind(r, d) = EntityBind(r, c)
    <2>1. \A k \in DOMAIN r.body : Bindings(r.body[k], d[k]) = Bindings(r.body[k], c[k])
      BY DEF Bindings, StandsFor
    <2> QED BY <2>1 DEF EntityBind
  <1>6. Consistent(TickBind(r, c)) /\ Consistent(EntityBind(r, c))
    BY DEF Firing
  <1>7. ASSUME NEW e, NEW b
        PROVE  b \in TickBind(r, e) <=> \E k \in DOMAIN r.body : b = <<r.body[k].tick, TickOf(e[k])>>
    BY DEF TickBind, TickBinding
  <1>8. Consistent(TickBind(r, d))
    <2> SUFFICES ASSUME NEW a \in TickBind(r, d), NEW b \in TickBind(r, d), a[1] = b[1]
                 PROVE  a[2] = b[2]
      BY DEF Consistent
    <2>1. PICK i \in DOMAIN r.body : a = <<r.body[i].tick, TickOf(d[i])>>
      BY <1>7
    <2>2. PICK j \in DOMAIN r.body : b = <<r.body[j].tick, TickOf(d[j])>>
      BY <1>7
    <2>3. r.body[i].tick = r.body[j].tick
      BY <2>1, <2>2
    <2>4. CASE i = j
      BY <2>1, <2>2, <2>4
    <2>5. CASE i # j
      <3>1. d[i] = c[i] /\ d[j] = c[j]
        BY <1>2, <2>3, <2>5
      <3>2. a \in TickBind(r, c) /\ b \in TickBind(r, c)
        BY <1>7, <2>1, <2>2, <3>1
      <3> QED BY <1>6, <3>2 DEF Consistent
    <2> QED BY <2>4, <2>5
  <1>9. HeadFact(r, d) = HeadFact(r, c)
    <2>1. PICK j \in DOMAIN r.body : r.body[j].tick = r.head.tick
      BY RulesAssumption
    <2>2. d[j] = c[j]
      BY <1>2, <2>1
    <2>3. ASSUME NEW e, Consistent(TickBind(r, e)), e[j] = c[j]
          PROVE  Lookup(TickBind(r, e), r.head.tick) = TickOf(c[j])
      <3> DEFINE here == <<r.body[j].tick, TickOf(e[j])>>
      <3>1. here \in TickBind(r, e) /\ here[1] = r.head.tick /\ here[2] = TickOf(c[j])
        BY <1>7, <2>1, <2>3
      <3> DEFINE b == CHOOSE x \in TickBind(r, e) : x[1] = r.head.tick
      <3>2. b \in TickBind(r, e) /\ b[1] = r.head.tick
        BY <3>1
      <3> HIDE DEF here
      <3>3. b[2] = here[2]
        BY <2>3, <3>1, <3>2 DEF Consistent
      <3> QED BY <3>1, <3>3 DEF Lookup
    <2>4. Lookup(TickBind(r, d), r.head.tick) = Lookup(TickBind(r, c), r.head.tick)
      BY <1>6, <1>8, <2>2, <2>3
    <2> QED BY <1>5, <2>4 DEF HeadFact
  <1>10. GuardHolds(r, d, Current)
    <2>1. CASE \E k \in DOMAIN r.body : d[k] # c[k]
      BY <1>1, <2>1 DEF GuardHolds, Current, StandsFor
    <2>2. CASE \A k \in DOMAIN r.body : d[k] = c[k]
      <3>1. d = c
        BY <1>1, <2>2
      <3>2. GuardHolds(r, c, NoSnap)
        BY DEF Firing
      <3> QED BY <3>1, <3>2 DEF GuardHolds, NoSnap
    <2> QED BY <2>1, <2>2
  <1>11. SameWatched(known, facts)
    BY DEF SameWatched, Complete
  <1>12. TemporalHolds(r, c, facts, NoSnap) /\ Evidence(r, c, facts) # {}
    BY <1>11, ReadsWatched DEF Firing
  <1>13. ASSUME r.temporal.op = "distinct"
         PROVE  Participants(r, d, facts) = Participants(r, c, facts)
    <2>1. r.temporal.of \in DOMAIN r.body /\ r.body[r.temporal.of].pred \in Watched
      BY <1>13, RulesAssumption DEF Watched
    <2>2. c[r.temporal.of] \in Seeded
      BY <1>1, <2>1 DEF Firing, Fits
    <2>3. d[r.temporal.of] = c[r.temporal.of]
      BY <1>3, <2>1, <2>2
    <2> QED BY <1>5, <2>3 DEF Participants
  <1>14. ASSUME r.temporal.op = "absence" PROVE AbsenceHolds(r, d, facts)
    <2>1. d[r.temporal.before] = c[r.temporal.before]
      BY <1>2, <1>14, RulesAssumption
    <2>2. AbsenceHolds(r, c, facts)
      BY <1>12, <1>14 DEF TemporalHolds
    <2> QED BY <1>5, <2>1, <2>2 DEF AbsenceHolds
  <1>15. ASSUME NEW k \in DOMAIN r.body, RangeKnown(d[k], Current)
         PROVE  /\ Span(TickRange(c[k], NoSnap)) /\ Span(TickRange(d[k], Current))
                /\ Wider(TickRange(c[k], NoSnap), TickRange(d[k], Current))
    <2>1. d[k] \in facts
      BY <1>1
    <2>2. TickRange(c[k], NoSnap) = <<TickOf(c[k]), TickOf(c[k])>> /\ TickOf(c[k]) \in Int
      <3>1. d[k] = c[k] => TickOf(c[k]) \in Int
        BY <2>1 DEF Grounds
      <3>2. d[k] # c[k] => TickOf(c[k]) \in Int
        BY DEF StandsFor
      <3> QED BY <3>1, <3>2 DEF TickRange, NoSnap
    <2>3. d[k] \in DOMAIN spans => Span(spans[d[k]]) /\ Wider(<<TickOf(d[k]), TickOf(d[k])>>, spans[d[k]])
      BY DEF Grounds
    <2>4. CASE d[k] \notin licensed
      <3>1. d[k] = c[k]
        BY <2>4 DEF StandsFor
      <3> QED BY <2>2, <2>4, <3>1 DEF TickRange, Current, Span, Wider
    <2>5. CASE d[k] \in licensed
      <3>1. d[k] \in DOMAIN spans /\ TickRange(d[k], Current) = spans[d[k]]
        BY <1>15, <2>5 DEF RangeKnown, TickRange, Current
      <3>2. Wider(<<TickOf(c[k]), TickOf(c[k])>>, spans[d[k]])
        BY <2>3, <3>1 DEF StandsFor
      <3> QED BY <2>2, <2>3, <3>1, <3>2 DEF Span
    <2> QED BY <2>4, <2>5
  <1>16. ASSUME r.temporal.op = "seq" PROVE SeqHolds(r, d, Current)
    <2>1. /\ r.temporal.left \in DOMAIN r.body /\ r.temporal.right \in DOMAIN r.body
          /\ r.temporal.within \in Int
      BY <1>16, RulesAssumption
    <2> DEFINE l == r.temporal.left
               m == r.temporal.right
    <2> SUFFICES ASSUME RangeKnown(d[l], Current), RangeKnown(d[m], Current)
                 PROVE  SeqFeasible(TickRange(d[l], Current), TickRange(d[m], Current), r.temporal.within)
      BY DEF SeqHolds
    <2>2. SeqHolds(r, c, NoSnap)
      BY <1>12, <1>16 DEF TemporalHolds
    <2>3. SeqFeasible(TickRange(c[l], NoSnap), TickRange(c[m], NoSnap), r.temporal.within)
      BY <2>2 DEF SeqHolds, RangeKnown, NoSnap
    <2>4. /\ Span(TickRange(c[l], NoSnap)) /\ Span(TickRange(d[l], Current))
          /\ Wider(TickRange(c[l], NoSnap), TickRange(d[l], Current))
          /\ Span(TickRange(c[m], NoSnap)) /\ Span(TickRange(d[m], Current))
          /\ Wider(TickRange(c[m], NoSnap), TickRange(d[m], Current))
      BY <1>15, <2>1
    <2> QED BY <2>1, <2>3, <2>4, WiderFeasible
  <1>17. TemporalHolds(r, d, facts, Current)
    <2>1. r.temporal.op = "distinct" => DistinctHolds(r, d, facts)
      BY <1>12, <1>13 DEF TemporalHolds, DistinctHolds
    <2> QED BY <1>14, <1>16, <2>1 DEF TemporalHolds
  <1>18. Evidence(r, d, facts) # {}
    <2>1. PICK x : x \in Evidence(r, c, facts)
      BY <1>12
    <2>2. CASE \E k \in DOMAIN c : \E e \in AxiomEvents(c[k]) : x = <<k, e.id>>
      <3>1. PICK k \in DOMAIN c : \E e \in AxiomEvents(c[k]) : x = <<k, e.id>>
        BY <2>2
      <3>2. PICK e \in AxiomEvents(c[k]) : x = <<k, e.id>>
        BY <3>1
      <3>3. c[k] \in Seeded
        BY DEF AxiomEvents, Seeded
      <3>4. k \in DOMAIN d /\ d[k] = c[k]
        BY <1>1, <1>3, <3>3
      <3>5. x \in {<<k, y.id>> : y \in AxiomEvents(d[k])}
        BY <3>2, <3>4
      <3>6. x \in UNION {{<<j, y.id>> : y \in AxiomEvents(d[j])} : j \in DOMAIN d}
        BY <3>4, <3>5
      <3>7. x \in Evidence(r, d, facts)
        BY <3>6, Zenon DEF Evidence
      <3> QED BY <3>7
    <2>3. CASE ~ \E k \in DOMAIN c : \E e \in AxiomEvents(c[k]) : x = <<k, e.id>>
      <3>1. r.temporal.op = "distinct"
        BY <2>1, <2>3 DEF Evidence
      <3>2. x \in UNION {{<<r.temporal.of, e.id>> : e \in AxiomEvents(f)} : f \in Participants(r, c, facts)}
        BY <2>1, <2>3, <3>1 DEF Evidence
      <3> QED BY <1>13, <3>1, <3>2 DEF Evidence
    <2> QED BY <2>2, <2>3
  <1> QED BY <1>1, <1>4, <1>5, <1>6, <1>8, <1>9, <1>10, <1>17, <1>18 DEF Firing

\* The steps that a world may have placed anywhere in their windows.
Placeable == {u \in Admitted : StepHead(u, u.lo) \in licensed}
StepsAt(us, p) == {StepHead(u, p[u]) : u \in us}

\* A world puts each of them at an instant of its window.
LEMMA WorldsPlace ==
    ASSUME NEW w \in Worlds(Placeable)
    PROVE  \E p : /\ \A u \in Placeable : p[u] \in u.lo..u.hi
                  /\ w = Seeded \cup StepsAt(Placeable, p)
  <1> DEFINE P == {q \in [Placeable -> UNION {u.lo..u.hi : u \in Placeable}] :
                      \A u \in Placeable : q[u] \in u.lo..u.hi}
  <1>1. Worlds(Placeable) = {Seeded \cup StepsAt(Placeable, p) : p \in P}
    BY Zenon DEF Worlds, StepsAt
  <1>2. PICK p \in P : w = Seeded \cup StepsAt(Placeable, p)
    BY <1>1, Zenon
  <1> QED BY <1>2, Zenon

\* Each fact of a world, and of what it derives, has one that stands for it.
LEMMA StandInFound ==
    ASSUME GroundingInd, Spread, phase = "done", ~capped,
           NEW p, \A u \in Placeable : p[u] \in u.lo..u.hi,
           NEW f \in facts \cup StepsAt(Placeable, p)
    PROVE  /\ \E g : StandsFor(g, f)
           /\ Pred(f) \in Watched => f \in Seeded
  <1>1. Grounds /\ Complete
    BY DEF GroundingInd
  <1>2. CASE f \in facts
    <2>1. StandsFor(f, f)
      BY <1>2 DEF StandsFor
    <2> QED BY <1>1, <1>2, <2>1 DEF Complete
  <1>3. CASE f \notin facts
    <2>1. PICK u \in Placeable : f = StepHead(u, p[u])
      BY <1>3 DEF StepsAt
    <2>2. u \in UnseenSteps /\ StepInstance(u) \in instances /\ StepHead(u, u.lo) \in licensed
      BY DEF Placeable, Admitted
    <2>3. RuleOf(u.rule) \in Rules
      BY <2>2, SilenceAssumption DEF RuleOf
    <2>4. Pred(f) = RuleOf(u.rule).head.pred /\ TickOf(f) = p[u]
      BY <2>1 DEF StepHead, StepFact, Pred, TickOf
    <2> DEFINE g == StepHead(u, u.lo)
    <2>5. Pred(g) = Pred(f) /\ Args(g) = Args(f)
      BY <2>1 DEF StepHead, StepFact, Pred, Args
    <2>6. g \in facts
      <3>1. StepInstance(u).head = g
        BY DEF StepInstance, Silent
      <3> QED BY <1>1, <2>2, <3>1 DEF Complete, Heads
    <2>7. g \in DOMAIN spans /\ Wider(<<u.lo, u.hi>>, spans[g]) /\ Span(spans[g])
      BY <1>1, <2>2 DEF Spread, Grounds
    <2>8. u.lo \in Int /\ u.hi \in Int /\ p[u] \in u.lo..u.hi
      BY <2>2, SilenceAssumption
    <2>9. Wider(<<p[u], p[u]>>, spans[g])
      BY <2>7, <2>8 DEF Wider, Span
    <2>10. StandsFor(g, f)
      BY <1>3, <2>2, <2>4, <2>5, <2>6, <2>7, <2>8, <2>9 DEF StandsFor
    <2>11. Pred(f) \notin Watched
      BY <2>3, <2>4, StrataAssumption
    <2> QED BY <2>10, <2>11
  <1> QED BY <1>2, <1>3

\* Whatever a world derives is in the envelope.
LEMMA WorldsDerive ==
    ASSUME GroundingInd, Spread, phase = "done", ~capped,
           NEW p, \A u \in Placeable : p[u] \in u.lo..u.hi,
           NEW known, Seeded \subseteq known, known \subseteq facts \cup StepsAt(Placeable, p),
           NEW i \in LeastInstances(known)
    PROVE  i.head \in facts
  <1>1. Shape /\ Grounds /\ Complete /\ Joined
    BY DEF GroundingInd
  <1>2. PICK r \in Rules : i \in Emitted(r, known, known, NoSnap)
    BY DEF LeastInstances
  <1>3. PICK c \in Firing(r, known, NoSnap) : i = Made(r, c, known)
    BY <1>2, EmittedFires
  <1>4. c \in [DOMAIN r.body -> known] /\ DOMAIN c = DOMAIN r.body
    BY DEF Firing
  <1> DEFINE d == [k \in DOMAIN r.body |-> CHOOSE g : StandsFor(g, c[k])]
  <1>5. ASSUME NEW k \in DOMAIN r.body PROVE StandsFor(d[k], c[k])
    <2>1. c[k] \in facts \cup StepsAt(Placeable, p)
      BY <1>4
    <2>2. \E g : StandsFor(g, c[k])
      BY <2>1, StandInFound
    <2> QED BY <2>2
  <1>6. d \in [DOMAIN r.body -> facts]
    BY <1>5 DEF StandsFor
  <1>7. \A f \in known : Pred(f) \in Watched => f \in Seeded
    BY StandInFound
  <1> HIDE DEF d
  <1>8. d \in Firing(r, facts, Current) /\ HeadFact(r, d) = HeadFact(r, c)
    BY <1>1, <1>5, <1>6, <1>7, StandInsFire
  <1>9. fresh = {} /\ todo = {}
    BY <1>1 DEF Shape, Saturating
  <1>10. Made(r, d, facts) \in instances
    BY <1>1, <1>8, <1>9 DEF Joined
  <1>11. Made(r, d, facts).head = i.head
    BY <1>3, <1>8 DEF Made, Instance
  <1> QED BY <1>1, <1>10, <1>11 DEF Complete, Heads

\* A round of the reference definition.
RoundStep(f, start, n) ==
    IF n = 0 THEN start
    ELSE LET known == f[n - 1] IN known \cup {i.head : i \in LeastInstances(known)}

\* The rounds can be gone through.
LEMMA RoundsExist ==
    ASSUME NEW N \in Nat, NEW start
    PROVE  \E f : f = [n \in 0..N |-> RoundStep(f, start, n)]
  <1> DEFINE U == {m \in 0..N : \E f : f = [n \in 0..m |-> RoundStep(f, start, n)]}
  <1>1. 0 \in U
    <2> DEFINE f == [n \in 0..0 |-> start]
    <2>1. \A n \in 0..0 : f[n] = RoundStep(f, start, n)
      BY DEF RoundStep
    <2>2. f = [n \in 0..0 |-> RoundStep(f, start, n)]
      BY <2>1
    <2> QED BY <2>2
  <1>2. ASSUME NEW m \in 1..N, m - 1 \in U PROVE m \in U
    <2>1. PICK f : f = [n \in 0..(m - 1) |-> RoundStep(f, start, n)]
      BY <1>2
    <2> DEFINE g == [n \in 0..m |-> RoundStep(f, start, n)]
    <2>2. ASSUME NEW n \in 0..(m - 1) PROVE g[n] = f[n]
      <3>1. n \in 0..m /\ g[n] = RoundStep(f, start, n)
        OBVIOUS
      <3> DEFINE h == [k \in 0..(m - 1) |-> RoundStep(f, start, k)]
      <3>2. h[n] = RoundStep(f, start, n) /\ f = h
        BY <2>1
      <3> HIDE DEF g, h
      <3> QED BY <3>1, <3>2
    <2>3. ASSUME NEW n \in 0..m PROVE g[n] = RoundStep(g, start, n)
      <3>1. g[n] = RoundStep(f, start, n)
        OBVIOUS
      <3>2. n # 0 => g[n - 1] = f[n - 1]
        <4>1. n # 0 => n - 1 \in 0..(m - 1)
          OBVIOUS
        <4> HIDE DEF g
        <4> QED BY <2>2, <4>1
      <3> HIDE DEF g
      <3> QED BY <3>1, <3>2 DEF RoundStep
    <2>4. g = [n \in 0..m |-> g[n]]
      OBVIOUS
    <2> HIDE DEF g
    <2>5. g = [n \in 0..m |-> RoundStep(g, start, n)]
      BY <2>3, <2>4, Zenon
    <2> QED BY <2>5
  <1> HIDE DEF U
  <1>3. N \in U
    BY <1>1, <1>2, BoundedInduction
  <1> QED BY <1>3 DEF U

\* What a world derives is in the envelope or was in the world.
LEMMA LeastWithin ==
    ASSUME GroundingInd, Spread, phase = "done", ~capped,
           NEW p, \A u \in Placeable : p[u] \in u.lo..u.hi
    PROVE  Least(Seeded \cup StepsAt(Placeable, p)) \subseteq facts \cup StepsAt(Placeable, p)
  <1> DEFINE start == Seeded \cup StepsAt(Placeable, p)
             all == facts \cup StepsAt(Placeable, p)
             N == Cardinality(Rules) + 1
             round == CHOOSE f : f = [n \in 0..N |-> RoundStep(f, start, n)]
  <1>1. N \in Nat
    BY RulesAssumption, FS_CardinalityType
  <1>2. Least(start) = round[N]
    BY Zenon DEF Least, RoundStep
  <1>3. start \subseteq all
    BY DEF GroundingInd, Complete
  <1> HIDE DEF N, start
  <1>4. round = [n \in 0..N |-> RoundStep(round, start, n)]
    BY <1>1, RoundsExist, Zenon
  <1> HIDE DEF round
  <1>5. ASSUME NEW n \in 0..N PROVE round[n] = RoundStep(round, start, n)
    <2> DEFINE g == [k \in 0..N |-> RoundStep(round, start, k)]
    <2>1. g[n] = RoundStep(round, start, n) /\ round = g
      BY <1>4
    <2> HIDE DEF g
    <2> QED BY <2>1
  <1> DEFINE U == {n \in 0..N : Seeded \subseteq round[n] /\ round[n] \subseteq all}
  <1>6. 0 \in U
    <2>1. 0 \in 0..N
      BY <1>1
    <2>2. round[0] = start
      BY <1>5, <2>1 DEF RoundStep
    <2> QED BY <1>3, <2>1, <2>2 DEF start
  <1>7. ASSUME NEW n \in 1..N, n - 1 \in U PROVE n \in U
    <2>1. n \in 0..N /\ n # 0
      BY <1>1
    <2>2. round[n] = round[n - 1] \cup {i.head : i \in LeastInstances(round[n - 1])}
      BY <1>5, <2>1 DEF RoundStep
    <2>3. Seeded \subseteq round[n - 1] /\ round[n - 1] \subseteq all
      BY <1>7
    <2>4. \A i \in LeastInstances(round[n - 1]) : i.head \in facts
      BY <2>3, WorldsDerive
    <2> QED BY <2>1, <2>2, <2>3, <2>4
  <1> HIDE DEF U
  <1>8. N \in U
    BY <1>1, <1>6, <1>7, BoundedInduction
  <1> QED BY <1>2, <1>8 DEF U, start

-----------------------------------------------------------------------------
(* The theorems. *)

\* GroundingInd is inductive, and holds whatever the ceilings and the order in
\* which the rules are visited.
THEOREM GroundingInvariant == Spec => []GroundingInd
  <1>1. ASSUME GroundingInd, [Next]_vars PROVE GroundingInd'
    <2>1. CASE Seed
      BY <1>1, <2>1, SeedKeeps
    <2>2. CASE StartPass
      BY <1>1, <2>2, StartPassKeeps
    <2>3. CASE \E r \in Rules : Visit(r)
      BY <1>1, <2>3, VisitKeeps
    <2>4. CASE Saturated
      BY <1>1, <2>4, LeaveKeeps DEF Saturated
    <2>5. CASE OutOfIterations
      BY <1>1, <2>5, LeaveKeeps DEF OutOfIterations
    <2>6. CASE \E u \in UnseenSteps : AdmitStep(u)
      BY <1>1, <2>6, AdmitStepKeeps
    <2>7. CASE StepsAdmitted \/ ObligationsMet
      BY <1>1, <2>7, TurnKeeps
    <2>8. CASE Oblige
      BY <1>1, <2>8, ObligeKeeps
    <2>9. CASE UNCHANGED vars
      BY <1>1, <2>9, StutterKeeps
    <2> QED BY <1>1, <2>1, <2>2, <2>3, <2>4, <2>5, <2>6, <2>7, <2>8, <2>9 DEF Next
  <1> QED BY <1>1, InitInd, PTL DEF Spec

\* P_min is the least model of the records, in whatever order the rules of the
\* table are visited (ground.py:438-457).
THEOREM LowerLeast == Spec => []LowerIsLeastModel
  <1>1. GroundingInd => LowerIsLeastModel
    BY DEF GroundingInd
  <1> QED BY <1>1, GroundingInvariant, PTL

\* A program that declares no cap is closed under the rules, and one that does
\* has gained no axiom by it (ground.py:349-357, :407-416, :711-724).
THEOREM CapsDeclared == Spec => []CapsAreDeclared
  <1>1. ASSUME GroundingInd PROVE CapsAreDeclared
    <2>1. Shape /\ Grounds /\ (~capped => Complete /\ Joined)
      BY <1>1 DEF GroundingInd
    <2>2. TypeOK
      <3>1. licensed \cap {i.head : i \in {x \in instances : IsObserved(x)}} = {}
        BY <2>1 DEF Grounds, Observed, Heads, SeenOf
      <3>2. ghosts \subseteq facts \/ capped
        BY <2>1 DEF Complete
      <3> QED BY <2>1, <3>1, <3>2 DEF TypeOK, Shape, Grounds, Phases
    <2>3. ClosedUnlessCapped
      <3> SUFFICES ASSUME phase \in {"done", "aborted"}, ~capped, NEW r \in Rules,
                          NEW i \in Emitted(r, facts, facts, Current)
                   PROVE  i \in instances
        BY DEF ClosedUnlessCapped, Current
      <3>1. fresh = {} /\ todo = {}
        BY <2>1 DEF Shape, Saturating
      <3>2. PICK c \in Firing(r, facts, Current) : i = Made(r, c, facts)
        BY EmittedFires
      <3> QED BY <2>1, <3>1, <3>2 DEF Joined
    <2>4. AxiomsAreRecordsOrPremises
      BY <2>1 DEF Grounds
    <2> QED BY <2>2, <2>3, <2>4 DEF CapsAreDeclared
  <1> QED BY <1>1, GroundingInvariant, PTL

\* The steps admitted keep their windows, whatever is licensed or derived later
\* (ground.py:240-271).
THEOREM WindowsKept == Spec => [](GroundingInd /\ Spread)
  <1>1. Init => Spread
    BY DEF Init, Spread
  <1> QED BY <1>1, GroundingInvariant, SpreadKeeps, PTL DEF Spec

\* Wherever in their windows the licensed steps happened, what was recorded and
\* what they make derivable is, at some instant, in the envelope
\* (ground.py:240-271, :548-555).
THEOREM PlacementsHeld == Spec => []PlacementsCovered
  <1>1. ASSUME GroundingInd, Spread PROVE PlacementsCovered
    <2> SUFFICES ASSUME phase = "done", ~capped, NEW w \in Worlds(Placeable) PROVE Covers(w)
      BY DEF PlacementsCovered, Placeable
    <2>1. PICK p : /\ \A u \in Placeable : p[u] \in u.lo..u.hi
                   /\ w = Seeded \cup StepsAt(Placeable, p)
      BY WorldsPlace
    <2>2. Least(w) \subseteq facts \cup StepsAt(Placeable, p)
      BY <1>1, <2>1, LeastWithin
    <2>3. ASSUME NEW f \in Least(w) PROVE \E g \in facts : Pred(g) = Pred(f) /\ Args(g) = Args(f)
      <3>1. PICK g : StandsFor(g, f)
        BY <1>1, <2>1, <2>2, StandInFound
      <3> QED BY <3>1 DEF StandsFor
    <2> QED BY <2>3 DEF Covers
  <1> QED BY <1>1, WindowsKept, PTL

\* The envelope and the steps where they happened are closed under the rules,
\* all facts being instants (ground.py:551-554).
EnvelopeHoldsWorlds ==
    (phase = "done" /\ ~capped) => \A w \in Worlds(Placeable) : IsModel(facts \cup w)

\* However many rounds it takes, all that a world derives is in the envelope, or
\* was in that world: an uncapped P_max is a superset of the union over the
\* worlds that place the licensed steps (ground.py:551-554).
THEOREM WorldsHeld == Spec => []EnvelopeHoldsWorlds
  <1>1. ASSUME GroundingInd, Spread PROVE EnvelopeHoldsWorlds
    <2> SUFFICES ASSUME phase = "done", ~capped, NEW w \in Worlds(Placeable) PROVE IsModel(facts \cup w)
      BY DEF EnvelopeHoldsWorlds
    <2>1. PICK p : /\ \A u \in Placeable : p[u] \in u.lo..u.hi
                   /\ w = Seeded \cup StepsAt(Placeable, p)
      BY WorldsPlace
    <2>2. Seeded \subseteq facts
      BY <1>1 DEF GroundingInd, Complete
    <2>3. ASSUME NEW i \in LeastInstances(facts \cup w) PROVE i.head \in facts
      BY <1>1, <2>1, <2>2, <2>3, WorldsDerive
    <2> QED BY <2>3 DEF IsModel, LeastInstances
  <1> QED BY <1>1, WindowsKept, PTL
=============================================================================
