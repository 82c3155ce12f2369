-------------------------------- MODULE Rules --------------------------------
(***************************************************************************)
(* Stages S0 and S1: the control catalog, the append-only lock that gives  *)
(* every (control, level) its bit, and the rule table compiled against     *)
(* them (spectra_vs/rules.py, pipeline.py). Catalog and lock are files     *)
(* that people edit between two commands (an edit while one runs commutes  *)
(* with it: S1 reads neither file again); the lock is created by the first *)
(* command that does not find it. What the parsed guard of a rule says is  *)
(* a parameter: Guards gives it.                                           *)
(***************************************************************************)
EXTENDS Integers, FiniteSets, SequencesExt

CONSTANTS
    NoGuard,            \* the guard of a rule that has none
    CtlTerms(_),        \* _ctl_terms: a control guard as a set of terms
    CtlTooWide(_),      \* ... whether it raises instead
    WhenAccepted(_),    \* compile_when returns
    MaxDnfTerms,        \* MAX_DNF_TERMS
    MaskWidth,          \* MASK_WIDTH
    MaxBody,            \* len(SLOT_NAMES)
    Catalogs,           \* catalogs the file may hold: control -> level names
    RuleFiles           \* rule tables the file may hold: sets of raw rules

ASSUME RulesAssumption ==
    MaxDnfTerms \in Nat \ {0} /\ MaskWidth \in Nat \ {0} /\ MaxBody \in Nat \ {0}

\* Controls are numbers in byte order; the levels of one are a sequence.
ASSUME CatalogsAssumption ==
    \A cat \in Catalogs :
        /\ IsFiniteSet(DOMAIN cat) /\ DOMAIN cat \subseteq Int
        /\ \A c \in DOMAIN cat : cat[c] \in Seq(Range(cat[c]))

\* A guard is a finite tree; variables are numbers in byte order.
ASSUME RuleFilesAssumption ==
    \A file \in RuleFiles : \A r \in file :
        /\ r.blocked # NoGuard =>
              IsFiniteSet(CtlTerms(r.blocked)) /\ \A t \in CtlTerms(r.blocked) : IsFiniteSet(t)
        /\ \A k \in DOMAIN r.body : r.body[k].vars \in Seq(Int)

VARIABLES
    catalog,    \* controls.toml
    lock,       \* catalog-bits.lock: [exists, torn, entries]
    pc,         \* where the command is: "idle", "locked", "compiled", "refused"
    mem,        \* [catalog, bits]: what S0 loaded
    table,      \* [rules, file]: what S1 compiled, and from what
    archive     \* the bits of every mask ever written, with their meaning

rulesVars == <<catalog, lock, pc, mem, table, archive>>

Temporals == {"seq", "absence", "distinct", "obligation"}

-----------------------------------------------------------------------------
\* Catalog.literals: control, then level.
Literals(cat) == UNION {{<<c, l>> : l \in 1..(Len(cat[c]) - 1)} : c \in DOMAIN cat}
LiteralBefore(x, y) == x[1] < y[1] \/ (x[1] = y[1] /\ x[2] < y[2])

\* sorted(): each element at the place that what is before it gives it.
Ascending(S, before(_, _)) ==
    [k \in 1..Cardinality(S) |-> CHOOSE x \in S : Cardinality({y \in S : before(y, x)}) = k - 1]
InLiteralOrder(lits) == Ascending(lits, LiteralBefore)

Entry(lit, state) == [control |-> lit[1], level |-> lit[2], state |-> state]

\* BitTable.derive; the position of an entry is its place, from 0.
Derive(cat) ==
    LET lits == InLiteralOrder(Literals(cat))
    IN [k \in DOMAIN lits |-> Entry(lits[k], "live")]

LiveSet(bits) == {<<bits[k].control, bits[k].level>> : k \in {i \in DOMAIN bits : bits[i].state = "live"}}

\* BitTable.live and literals: rank is the place in canonical order.
Ranked(bits) == InLiteralOrder(LiveSet(bits))

BitOf(bits, lit) == (CHOOSE k \in DOMAIN bits : bits[k] = Entry(lit, "live")) - 1

\* check_covers
Covers(bits, cat) == LiveSet(bits) = Literals(cat)

-----------------------------------------------------------------------------
\* Catalog.get and level_ordinal: a catalog maps a control to its level names.
Known(cat, control, level) ==
    control \in DOMAIN cat /\ \E k \in DOMAIN cat[control] : cat[control][k] = level
Ordinal(cat, control, level) == (CHOOSE k \in DOMAIN cat[control] : cat[control][k] = level) - 1

\* The thresholds a guard names must be known and above the weakest level.
Resolves(node, cat) ==
    \A term \in CtlTerms(node) : \A lit \in term :
        Known(cat, lit[1], lit[2]) /\ Ordinal(cat, lit[1], lit[2]) >= 1

\* Within a term only the highest level of a control is kept.
Strongest(term, cat) ==
    LET pairs == {<<lit[1], Ordinal(cat, lit[1], lit[2])>> : lit \in term}
    IN {p \in pairs : \A q \in pairs : q[1] = p[1] => q[2] <= p[2]}

\* What satisfies `stronger' satisfies `weaker'.
Implies(weaker, stronger) == \A p \in weaker : \E q \in stronger : q[1] = p[1] /\ q[2] >= p[2]

\* Mutant of CanonicalTerms: of two terms the weaker is dropped.
CanonicalTermsStrongest(node, cat) ==
    LET all == {Strongest(term, cat) : term \in CtlTerms(node)}
    IN {x \in all : ~\E y \in all : y # x /\ Implies(x, y)}

\* _canonical_terms: a term that another one implies is dropped.
CanonicalTerms(node, cat) ==
    LET all == {Strongest(term, cat) : term \in CtlTerms(node)}
    IN {x \in all : ~\E y \in all : y # x /\ Implies(y, x)}

\* compile_blocked_when answers, instead of raising.
BlockedCompiles(node, cat) ==
    /\ ~CtlTooWide(node) /\ Resolves(node, cat)
    /\ Cardinality(CanonicalTerms(node, cat)) <= MaxDnfTerms

-----------------------------------------------------------------------------
\* A pattern: [pred, vars, tick]; a raw rule: [id, head, body, detect, silent,
\* sources, free, when, blocked, temporal, persistence, deletes].
Vars(p) == {p.vars[k] : k \in DOMAIN p.vars} \cup {p.tick}
WellFormed(p) == Cardinality(Vars(p)) = Len(p.vars) + 1

\* The pattern an `absence' names, if it names one.
OfPattern(r) == IF r.temporal.op = "absence" THEN {r.temporal.of} ELSE {}
BodyPatterns(r) == {r.body[k] : k \in DOMAIN r.body}

\* _parse_temporal: only `seq' has its slots checked.
TemporalParses(r) ==
    \/ r.temporal.op = "none"
    \/ r.temporal.op \in Temporals /\ (r.temporal.op = "seq" => r.temporal.slots \subseteq DOMAIN r.body)

\* _terms_to_masks: one literal to a term; a mask is a set of bit positions.
Single(terms) == \A t \in terms : Cardinality(t) = 1
Masks(terms, bits) == {{BitOf(bits, p) : p \in t} : t \in terms}

Terms(r, cat) == IF r.blocked = NoGuard THEN {} ELSE CanonicalTerms(r.blocked, cat)

\* _compile_one returns, instead of raising.
CompileOne(r, cat) ==
    /\ ~r.deletes /\ r.persistence = "instant"
    /\ WellFormed(r.head) /\ \A p \in BodyPatterns(r) \cup OfPattern(r) : WellFormed(p)
    /\ Len(r.body) \in 1..MaxBody
    /\ TemporalParses(r)
    /\ r.when # NoGuard => WhenAccepted(r.when)
    /\ r.blocked # NoGuard => BlockedCompiles(r.blocked, cat) /\ Single(Terms(r, cat))
    /\ Vars(r.head) \subseteq (UNION {Vars(p) : p \in BodyPatterns(r)}) \cup r.free
    /\ r.silent /\ r.detect => r.sources # {}

\* The axiom predicates of compile_rules: in a body, and headed by no rule.
AxiomPredicates(file) ==
    (UNION {{p.pred : p \in BodyPatterns(r)} : r \in file}) \ {r.head.pred : r \in file}

\* _check_arities
AritiesAgree(file) ==
    LET all == UNION {BodyPatterns(r) \cup {r.head} : r \in file}
        absent == UNION {OfPattern(r) : r \in file}
    IN \A p \in all, q \in all \cup absent : p.pred = q.pred => Len(p.vars) = Len(q.vars)

InByteOrder(names) == \A k \in 1..(Len(names) - 1) : names[k] < names[k + 1]

\* _check_axiom_order
AxiomOrder(file) ==
    \A r \in file : \A p \in BodyPatterns(r) \cup OfPattern(r) :
        p.pred \in AxiomPredicates(file) => InByteOrder(p.vars)

\* compile_rules returns, instead of raising.
Compiles(file, cat, bits) ==
    /\ Covers(bits, cat) /\ file # {}
    /\ \A r \in file : CompileOne(r, cat)
    /\ \A r, q \in file : r # q => r.id # q.id
    /\ AritiesAgree(file) /\ AxiomOrder(file)
    /\ \A r \in file : r.detect => \E p \in BodyPatterns(r) : p.pred \in AxiomPredicates(file)

\* axiom_roles_of: the patterns whose variables are read as roles, and whether
\* each predicate has one vector of them.
RolePatterns(file) ==
    {p \in UNION {BodyPatterns(r) \cup OfPattern(r) : r \in file} : ~\E r \in file : r.head.pred = p.pred}
RolesAgree(file) == \A p, q \in RolePatterns(file) : p.pred = q.pred => p.vars = q.vars

\* axiom_fact_for: the roles in byte order.
RolesOf(file, pred) == (CHOOSE p \in RolePatterns(file) : p.pred = pred).vars
Seeded(file, pred) ==
    LET vs == RolesOf(file, pred) IN Ascending({vs[k] : k \in DOMAIN vs}, <)

-----------------------------------------------------------------------------
NoMemory == [catalog |-> <<>>, bits |-> <<>>]
NoTable == [rules |-> {}, file |-> {}]

RulesInit ==
    /\ catalog \in Catalogs
    /\ lock = [exists |-> FALSE, torn |-> FALSE, entries |-> <<>>]
    /\ pc = "idle" /\ mem = NoMemory /\ table = NoTable /\ archive = {}

\* Somebody edits the catalog.
EditCatalog ==
    /\ pc = "idle"
    /\ catalog' \in Catalogs \ {catalog}
    /\ UNCHANGED <<lock, pc, mem, table, archive>>

\* ... and brings the lock up to date as its header says: a new literal is
\* appended, one that is gone is marked, one that returns is live again.
Locked == [k \in DOMAIN lock.entries |-> <<lock.entries[k].control, lock.entries[k].level>>]

AppendBit ==
    /\ pc = "idle" /\ lock.exists /\ ~lock.torn /\ Len(lock.entries) < MaskWidth
    /\ \E lit \in Literals(catalog) :
          /\ \A k \in DOMAIN lock.entries : Locked[k] # lit
          /\ lock' = [lock EXCEPT !.entries = Append(@, Entry(lit, "live"))]
    /\ UNCHANGED <<catalog, pc, mem, table, archive>>

MarkBit ==
    /\ pc = "idle" /\ lock.exists /\ ~lock.torn
    /\ \E k \in DOMAIN lock.entries :
          LET state == IF Locked[k] \in Literals(catalog) THEN "live" ELSE "tombstone"
          IN /\ lock.entries[k].state # state
             /\ lock' = [lock EXCEPT !.entries[k].state = state]
    /\ UNCHANGED <<catalog, pc, mem, table, archive>>

\* A lock nobody can read is removed.
DiscardTorn ==
    /\ pc = "idle" /\ lock.torn
    /\ lock' = [exists |-> FALSE, torn |-> FALSE, entries |-> <<>>]
    /\ UNCHANGED <<catalog, pc, mem, table, archive>>

\* Mutant of BitsLock: the lock is derived again every time.
BitsLockDerived ==
    /\ pc = "idle" /\ ~lock.torn
    /\ Cardinality(Literals(catalog)) <= MaskWidth
    /\ lock' = [exists |-> TRUE, torn |-> FALSE, entries |-> Derive(catalog)]
    /\ mem' = [catalog |-> catalog, bits |-> lock'.entries]
    /\ pc' = "locked"
    /\ UNCHANGED <<catalog, table, archive>>

\* s0_bits_lock: the lock is loaded, or derived and written, once.
BitsLock ==
    /\ pc = "idle" /\ ~lock.torn
    /\ \/ lock.exists /\ UNCHANGED lock
       \/ /\ ~lock.exists /\ Cardinality(Literals(catalog)) <= MaskWidth
          /\ lock' = [exists |-> TRUE, torn |-> FALSE, entries |-> Derive(catalog)]
    /\ Covers(lock'.entries, catalog)
    /\ mem' = [catalog |-> catalog, bits |-> lock'.entries]
    /\ pc' = "locked"
    /\ UNCHANGED <<catalog, table, archive>>

\* A lock that does not cover the catalog, or cannot be read, and a catalog
\* wider than a mask end the command; nothing is written.
BitsLockRefuses ==
    /\ pc = "idle"
    /\ \/ lock.torn \/ (lock.exists /\ ~Covers(lock.entries, catalog))
       \/ ~lock.exists /\ Cardinality(Literals(catalog)) > MaskWidth
    /\ pc' = "refused"
    /\ UNCHANGED <<catalog, lock, mem, table, archive>>

\* The command dies while it writes the lock, between two entries or inside one.
CrashInWrite ==
    /\ pc = "idle" /\ ~lock.exists /\ Cardinality(Literals(catalog)) <= MaskWidth
    /\ \E n \in 0..Cardinality(Literals(catalog)), torn \in BOOLEAN :
          lock' = [exists |-> TRUE, torn |-> torn, entries |-> SubSeq(Derive(catalog), 1, n)]
    /\ UNCHANGED <<catalog, pc, mem, table, archive>>

\* What s1_rules and axiom_roles_of ask of the table, before anything is written.
Accepted(file) == Compiles(file, mem.catalog, mem.bits) /\ RolesAgree(file)

\* s1_rules, with the catalog and the bits S0 loaded.
CompileRules ==
    /\ pc = "locked"
    /\ \E file \in RuleFiles : \E ok \in {Accepted(file)} :
          /\ table' = [file |-> file,
                       rules |-> IF ok THEN {[id |-> r.id, masks |-> Masks(Terms(r, mem.catalog), mem.bits)] : r \in file}
                                 ELSE {}]
          /\ pc' = IF ok THEN "compiled" ELSE "refused"
    /\ archive' = archive \cup
          {[pos |-> b, literal |-> <<mem.bits[b + 1].control, mem.bits[b + 1].level>>] :
              b \in UNION {UNION r.masks : r \in table'.rules}}
    /\ UNCHANGED <<catalog, lock, mem>>

\* The command ends; what it held is gone.
Exit ==
    /\ pc \in {"compiled", "refused"}
    /\ pc' = "idle" /\ mem' = NoMemory /\ table' = NoTable
    /\ UNCHANGED <<catalog, lock, archive>>

RulesNext ==
    \/ EditCatalog \/ AppendBit \/ MarkBit \/ DiscardTorn
    \/ BitsLock \/ BitsLockRefuses \/ CrashInWrite
    \/ CompileRules \/ Exit

RulesSpec == RulesInit /\ [][RulesNext]_rulesVars

-----------------------------------------------------------------------------
TypeOK ==
    /\ catalog \in Catalogs /\ pc \in {"idle", "locked", "compiled", "refused"}
    /\ lock.exists \in BOOLEAN /\ lock.torn \in BOOLEAN
    /\ Len(lock.entries) <= MaskWidth
    /\ \A k \in DOMAIN lock.entries : lock.entries[k].level >= 1 /\ lock.entries[k].state \in {"live", "tombstone"}
    /\ \A j, k \in DOMAIN lock.entries : Locked[j] = Locked[k] => j = k
    /\ table.file \in RuleFiles \cup {{}}
    /\ \A r \in table.rules : \A m \in r.masks : m \subseteq 0..(MaskWidth - 1) /\ Cardinality(m) = 1

\* A bit in a mask ever written keeps its (control, level) in the lock through
\* every edit of the catalog, crash and later command (s0_bits_lock: "a renumber
\* invalidates every archived certificate").
MasksKeepMeaning ==
    \A a \in archive :
        /\ lock.exists /\ ~lock.torn /\ a.pos < Len(lock.entries)
        /\ Locked[a.pos + 1] = a.literal

\* The ranks every ordering uses are those of the catalog alone: whatever the
\* lock has been through, two runs over one catalog order literals alike.
RanksAreHistoryFree ==
    pc \in {"locked", "compiled"} =>
        /\ Ranked(mem.bits) = InLiteralOrder(Literals(mem.catalog))
        /\ \A lit \in Literals(mem.catalog) : BitOf(mem.bits, lit) \in 0..(MaskWidth - 1)

Settings(cat) ==
    LET levels(c) == 0..(Len(cat[c]) - 1)
    IN {s \in [DOMAIN cat -> UNION {levels(c) : c \in DOMAIN cat}] : \A c \in DOMAIN cat : s[c] \in levels(c)}

\* The setting meets every threshold of some term the guard distributes to.
TermsSay(terms, cat, s) == \E t \in terms : \A lit \in t : s[lit[1]] >= Ordinal(cat, lit[1], lit[2])

\* The canonical terms of a `blocked_when' hold under exactly the settings the
\* distributed ones do, none of them implies another, and the masks of an
\* accepted table, read through the lock, say the same.
MasksSayTerms ==
    pc \in {"compiled", "refused"} => \A r \in table.file :
        LET cat == mem.catalog
            terms == Terms(r, cat)
            meets(s, t) == \A p \in t : s[p[1]] >= p[2]
            deployed(s) == {BitOf(mem.bits, lit) : lit \in {x \in Literals(cat) : s[x[1]] >= x[2]}}
        IN r.blocked # NoGuard /\ BlockedCompiles(r.blocked, cat) =>
             /\ \A s \in Settings(cat) : TermsSay(CtlTerms(r.blocked), cat, s) <=> \E t \in terms : meets(s, t)
             /\ \A t, u \in terms : Implies(t, u) => t = u
             /\ pc = "compiled" => \A s \in Settings(cat) :
                   TermsSay(CtlTerms(r.blocked), cat, s) <=>
                       \E q \in table.rules : q.id = r.id /\ \E m \in q.masks : m \subseteq deployed(s)

\* In an accepted table a body pattern over records binds each of its
\* variables to the role of that name: the fact S8 seeds lists its arguments
\* by role, the pattern reads them by place.
BodyBindsByRole ==
    pc = "compiled" => \A r \in table.file : \A p \in BodyPatterns(r) :
        p.pred \in AxiomPredicates(table.file) => Seeded(table.file, p.pred) = p.vars

\* The lock keeps what bits mean, and only that, through edits and crashes.
LockKeepsMeaning == TypeOK /\ MasksKeepMeaning /\ RanksAreHistoryFree

\* What S1 writes says what the rule file says: masks of guards, and the order
\* of arguments.
TableIsExact == MasksSayTerms /\ BodyBindsByRole
=============================================================================
