------------------------------ MODULE Records ------------------------------
(***************************************************************************)
(* What is made of a sealed bundle: S5 resolves its records one by one and *)
(* hands them to the grounder as facts; afterwards any number of processes *)
(* index bundle files into one database (EventStore of spectra_vs/store.py *)
(* over SQLite), and may die or be refused while they do.                  *)
(***************************************************************************)
EXTENDS Resolution, EventIndex

CONSTANTS
    Bundles,        \* sequences of records
    RuleTables,     \* sets of join rules
    Files,          \* name -> a sequence of lines: [bad] or [row]
    Loaders,        \* processes that index
    MaxLoads        \* bound on the loads that are started

IndexRows == [id : Int, src : Int, seq : Int, t : Int]
Lines == [bad : BOOLEAN, row : IndexRows]

ASSUME IndexAssumption ==
    /\ \A f \in DOMAIN Files : Files[f] \in Seq(Lines)
    /\ "none" \notin Loaders /\ MaxLoads \in Nat
\* S4 quarantines a second record with one id.
ASSUME BundlesAssumption ==
    \A b \in Bundles : Len(b) \in Nat /\ DOMAIN b = 1..Len(b) /\ \A j, k \in DOMAIN b : b[j].id = b[k].id => j = k
ASSUME RulesAssumption ==
    \A s \in RuleTables : IsFiniteSet(s) /\ \A x \in s :
        x.id \in Int /\ x.role \in Int /\ \A v \in DOMAIN x.table : IsFiniteSet(x.table[v])
ASSUME RolesAssumption ==
    \A p \in DOMAIN AxiomRoles :
        /\ AxiomRoles[p] \in Seq(Int)
        /\ \A j, k \in DOMAIN AxiomRoles[p] : j < k => AxiomRoles[p][j] < AxiomRoles[p][k]

VARIABLES
    phase,          \* "resolving", "resolved", "projected", "refused"
    bundle, rules,
    pos, er,        \* records resolved, and what is known of them
    facts,          \* record -> [predicate, args]
    table,          \* the committed rows of proj_event
    load,           \* loader -> [pc, file, left, rows]
    writer,         \* the loader that holds the write lock, or "none"
    returned,       \* history: files whose load returned
    loads

vars == <<phase, bundle, rules, pos, er, facts, table, load, writer, returned, loads>>
resolution == <<phase, bundle, rules, pos, er, facts>>
index == <<table, load, writer, returned, loads>>

Idle == [pc |-> "idle", file |-> "none", left |-> <<>>, rows |-> {}]

Init ==
    /\ bundle \in Bundles /\ rules \in RuleTables
    /\ phase = "resolving" /\ pos = 0 /\ er = Empty /\ facts = <<>>
    /\ table = {} /\ load = [p \in Loaders |-> Idle] /\ writer = "none" /\ returned = {} /\ loads = 0

-----------------------------------------------------------------------------
\* resolve
RefuseRules ==
    /\ phase = "resolving" /\ ~RulesAccepted(rules)
    /\ phase' = "refused"
    /\ UNCHANGED <<bundle, rules, pos, er, facts, index>>

ResolveRecord ==
    /\ phase = "resolving" /\ RulesAccepted(rules) /\ pos < Len(bundle)
    /\ pos' = pos + 1
    /\ er' = Resolved(er, rules, bundle[pos + 1])
    /\ UNCHANGED <<phase, bundle, rules, facts, index>>

Finish ==
    /\ phase = "resolving" /\ RulesAccepted(rules) /\ pos = Len(bundle)
    /\ phase' = "resolved"
    /\ UNCHANGED <<bundle, rules, pos, er, facts, index>>

\* project_bindings, and the seeding of the grounder.
Project ==
    /\ phase = "resolved"
    /\ phase' = "projected"
    /\ facts' = [k \in DOMAIN bundle |->
                    [predicate |-> PredicateOf(bundle[k].type), args |-> ArgsOf(Projected(er.bindings, bundle[k]))]]
    /\ UNCHANGED <<bundle, rules, pos, er, index>>

-----------------------------------------------------------------------------
\* A load that ends without its transaction; SQLite undoes what it inserted.
Undone(p) ==
    /\ load' = [load EXCEPT ![p] = Idle]
    /\ writer' = IF writer = p THEN "none" ELSE writer
    /\ UNCHANGED <<resolution, table, returned, loads>>

\* EventStore.load parses every line before it inserts the first.
Open(p) ==
    /\ phase \in {"projected", "refused"} /\ load[p].pc = "idle" /\ loads < MaxLoads
    /\ loads' = loads + 1
    /\ \E f \in DOMAIN Files :
          load' = [load EXCEPT ![p] =
              IF \E k \in DOMAIN Files[f] : Files[f][k].bad THEN Idle
              ELSE [pc |-> "begin", file |-> f, left |-> [k \in DOMAIN Files[f] |-> Files[f][k].row], rows |-> {}]]
    /\ UNCHANGED <<resolution, table, writer, returned>>

\* The first insert takes the write lock.
Begin(p) ==
    /\ load[p].pc = "begin" /\ load[p].left # <<>> /\ writer = "none"
    /\ writer' = p
    /\ load' = [load EXCEPT ![p].pc = "insert"]
    /\ UNCHANGED <<resolution, table, returned, loads>>

\* The wait for the lock times out.
Locked(p) == load[p].pc = "begin" /\ load[p].left # <<>> /\ writer # "none" /\ Undone(p)

Held(p) == table \cup load[p].rows
Fits(p) == \A r \in Held(p) : r.id # Head(load[p].left).id

\* Mutant of Insert: every row is committed on its own.
InsertAutocommit(p) ==
    /\ load[p].pc = "insert" /\ load[p].left # <<>> /\ Fits(p)
    /\ load' = [load EXCEPT ![p].left = Tail(@)]
    /\ table' = table \cup {Head(load[p].left)}
    /\ UNCHANGED <<resolution, writer, returned, loads>>

Insert(p) ==
    /\ load[p].pc = "insert" /\ load[p].left # <<>> /\ Fits(p)
    /\ load' = [load EXCEPT ![p].left = Tail(@), ![p].rows = @ \cup {Head(load[p].left)}]
    /\ UNCHANGED <<resolution, table, writer, returned, loads>>

\* Mutant of Refused: the load starts over.
RefusedRetries(p) ==
    /\ load[p].pc = "insert" /\ load[p].left # <<>> /\ ~Fits(p)
    /\ load' = [load EXCEPT ![p].pc = "begin", ![p].rows = {},
                           ![p].left = [k \in DOMAIN Files[load[p].file] |-> Files[load[p].file][k].row]]
    /\ writer' = "none"
    /\ UNCHANGED <<resolution, table, returned, loads>>

\* A second row with one id; the transaction is undone.
Refused(p) == load[p].pc = "insert" /\ load[p].left # <<>> /\ ~Fits(p) /\ Undone(p)

\* The last row is in, or there was none: the transaction is committed.
Commit(p) ==
    /\ load[p].pc \in {"begin", "insert"} /\ load[p].left = <<>>
    /\ table' = Held(p)
    /\ returned' = returned \cup {load[p].file}
    /\ load' = [load EXCEPT ![p] = Idle]
    /\ writer' = IF writer = p THEN "none" ELSE writer
    /\ UNCHANGED <<resolution, loads>>

\* The process dies, or a reader holds off its commit for too long.
Crash(p) == load[p].pc \in {"begin", "insert"} /\ Undone(p)

Resolve == RefuseRules \/ ResolveRecord \/ Finish \/ Project
Load(p) == Begin(p) \/ Locked(p) \/ Insert(p) \/ Refused(p) \/ Commit(p)

Rest ==
    /\ phase \in {"projected", "refused"} /\ loads = MaxLoads /\ \A p \in Loaders : load[p] = Idle
    /\ UNCHANGED vars

Next == Resolve \/ (\E p \in Loaders : Open(p) \/ Load(p) \/ Crash(p)) \/ Rest

\* The processes run; a wait for the lock ends with it or with the timeout.
Spec == Init /\ [][Next]_vars /\ WF_vars(Resolve) /\ \A p \in Loaders : WF_vars(Load(p))

-----------------------------------------------------------------------------
TypeOK ==
    /\ phase \in {"resolving", "resolved", "projected", "refused"}
    /\ pos \in 0..Len(bundle) /\ loads \in 0..MaxLoads /\ returned \subseteq DOMAIN Files
    /\ writer \in Loaders \cup {"none"}
    /\ \A p \in Loaders : (load[p].pc = "insert") = (writer = p)

Rows(f) == {Files[f][k].row : k \in DOMAIN Files[f]}
Recs == {bundle[k] : k \in DOMAIN bundle}
Asked == UNION {{rec} \X RolesPresent(rules, rec) : rec \in Recs}

\* What S5 says of a bundle does not depend on the order of its records, nor
\* on what else is in it: a role is bound exactly when all exact joins agree on
\* one entity, and an entity is filed under the least rule of all records.
ResolutionIsOrderFree ==
    phase = "resolved" =>
        /\ \A a \in Asked, e \in DOMAIN er.minted :
              [event |-> a[1].id, role |-> a[2], entity |-> e] \in er.bindings
                  <=> Candidates(rules, a[1], a[2]) = {e}
        /\ \A e \in DOMAIN er.minted :
              er.minted[e] = Min({x.id : x \in {y \in rules :
                  \E rec \in Recs : y.attr \in DOMAIN rec.attrs /\ e \in NamedBy(y, rec)}})

\* Every role a record has a value for is bound, ambiguous or unresolved, and
\* only one of these; every entity cited is defined, and has the records that
\* were bound to it.
EveryRoleAccounted ==
    phase = "resolved" =>
        LET of(rows, a) == {b \in rows : b.event = a[1].id /\ b.role = a[2]}
            total == MapThenSumSet(LAMBDA r : er.counts[r][1] + er.counts[r][2] + er.counts[r][3], DOMAIN er.counts)
        IN /\ \A a \in Asked :
                 Cardinality(of(er.bindings, a)) + Cardinality(of(er.ambiguous, a))
                 + Cardinality(of(er.unresolved, a)) = 1
           /\ total = Cardinality(Asked)
           /\ DOMAIN er.minted = {b.entity : b \in er.bindings} \cup UNION {x.candidates : x \in er.ambiguous}
           /\ er.from = {<<b.entity, b.event>> : b \in er.bindings}

\* The grounder reads arguments by position. A fact with as many arguments as
\* its pattern has, argument by argument, the one entity the record names in
\* that role; a record with a role missing or ambiguous gives a shorter fact.
ArgsBindByRole ==
    phase = "projected" =>
        \A k \in DOMAIN bundle :
            LET roles == IF facts[k].predicate \in DOMAIN AxiomRoles THEN AxiomRoles[facts[k].predicate] ELSE <<>>
            IN roles # <<>> =>
                /\ Len(facts[k].args) <= Len(roles)
                /\ Len(facts[k].args) = Len(roles) =>
                      \A n \in DOMAIN roles : Candidates(rules, bundle[k], roles[n]) = {facts[k].args[n]}

\* One transaction per load: whatever died or was refused, the index holds the
\* bundles whose load returned, each whole and each once.
IndexIsWholeBundles ==
    /\ table = UNION {Rows(f) : f \in returned}
    /\ \A f, g \in returned : f # g => Rows(f) \cap Rows(g) = {}
    /\ \A q, r \in table : q.id = r.id => q = r

Srcs == {r.src : r \in table}
Times == 0..(Max({r.t : r \in table} \cup {0}) + 1)

\* Neighbouring windows tile: no record falls into both or into none.
WindowsTile ==
    \A s \in Srcs : \A a, b, c \in Times : a < b /\ b < c =>
        Window(table, s, a, c) = Window(table, s, a, b) \o Window(table, s, b, c)

\* The deltas of a source lead from the instant of its first number to that of
\* its last, and one is negative exactly where the instants contradict the
\* numbers; the extremes of SourceStats span them all.
GapsFollowTheNumbers ==
    \A s \in Srcs :
        LET g == Gaps(table, s)
            q == OrderedBy(Of(table, s), BySeq)
            sum == MapThenSumSet(LAMBDA k : g[k].delta, DOMAIN g)
        IN /\ sum = q[Len(q)].t - q[1].t
           /\ (\E k \in DOMAIN g : g[k].delta < 0)
                 <=> \E a, b \in Of(table, s) : BySeq(a, b) /\ b.t < a.t
           /\ \A k \in DOMAIN g : g[k].delta <= SourceStats(table)[s].last - SourceStats(table)[s].first

\* No load waits for ever, whoever holds the lock.
EveryLoadEnds == \A p \in Loaders : load[p].pc # "idle" ~> load[p].pc = "idle"

\* What S5 says of a record is a function of it, and says everything once.
ResolutionIsExact == ResolutionIsOrderFree /\ EveryRoleAccounted

\* The index holds whole bundles, and its queries read them without overlap,
\* omission or reordering.
IndexIsExact == TypeOK /\ IndexIsWholeBundles /\ WindowsTile /\ GapsFollowTheNumbers
=============================================================================
