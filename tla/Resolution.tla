----------------------------- MODULE Resolution -----------------------------
(***************************************************************************)
(* Stage S5 (spectra_vs/resolve.py): which entity a record names in which  *)
(* role, by exact joins against the scenario's tables; and the projection  *)
(* of its bindings onto the roles the compiled rules read (seam 2 of       *)
(* spectra_vs/pipeline.py). Ids, roles, keys and names are numbers in byte *)
(* order.                                                                  *)
(***************************************************************************)
EXTENDS Integers, Sequences, FiniteSets, FiniteSetsExt

CONSTANTS
    Predicate,      \* event type -> axiom predicate, where bound (EVENT_TYPE_PREDICATE)
    AxiomRoles      \* predicate -> its roles, ascending (axiom_roles_of)

\* A join rule is [id, role, attr, kind, table]; its table maps a value to the
\* names it denotes. A record is [id, type, attrs].
Lookup(rule, value) == IF value \in DOMAIN rule.table THEN rule.table[value] ELSE {}

\* _check_rules: no two rules with one (id, role, attr).
RulesAccepted(rules) ==
    /\ \A x, y \in rules : x.id = y.id /\ x.role = y.role /\ x.attr = y.attr => x = y
    /\ \A x \in rules : \A v \in DOMAIN x.table : x.table[v] # {}

\* join_rules_for: one rule per row of the authored table of joins whose
\* attribute the scenario declares names for, each joining to itself.
JoinRulesFor(specs, names) ==
    {[id |-> j.id, role |-> j.role, attr |-> j.attr, kind |-> j.kind,
      table |-> [v \in names[j.attr] |-> {v}]] : j \in {k \in specs : names[k.attr] # {}}}

Asking(rules, rec, role) == {x \in rules : x.role = role /\ x.attr \in DOMAIN rec.attrs}
RolesPresent(rules, rec) == {x.role : x \in {y \in rules : y.attr \in DOMAIN rec.attrs}}

\* An entity is its kind and its name, whatever records named it (_entity_id).
NamedBy(x, rec) == {[kind |-> x.kind, name |-> n] : n \in Lookup(x, rec.attrs[x.attr])}
Candidates(rules, rec, role) == UNION {NamedBy(x, rec) : x \in Asking(rules, rec, role)}

\* The rule a candidate is filed under: the first in sort order that names it.
FiledUnder(rules, rec, role, e) ==
    Min({x.id : x \in {y \in Asking(rules, rec, role) : e \in NamedBy(y, rec)}})

\* The key an unresolved role is reported with: that of the first rule asking.
FirstAsked(rules, rec, role) ==
    LET asking == Asking(rules, rec, role)
        least == {x \in asking : \A y \in asking : x.id < y.id \/ (x.id = y.id /\ x.attr <= y.attr)}
    IN (CHOOSE x \in least : TRUE).attr

Empty == [minted |-> <<>>, from |-> {}, bindings |-> {}, ambiguous |-> {}, unresolved |-> {}, counts |-> <<>>]

\* Mutant of Remembered: the rule that came first is kept.
RememberedFirst(minted, found) ==
    [e \in DOMAIN minted \cup {f.e : f \in found} |->
        IF e \in DOMAIN minted THEN minted[e] ELSE Min({f.rule : f \in {g \in found : g.e = e}})]

\* _remember: an entity keeps the least rule that produced it.
Remembered(minted, found) ==
    [e \in DOMAIN minted \cup {f.e : f \in found} |->
        Min({f.rule : f \in {g \in found : g.e = e}} \cup (IF e \in DOMAIN minted THEN {minted[e]} ELSE {}))]

\* One entity, and the role is bound; more than one, and it is not.
Bound(rules, rec) ==
    {[event |-> rec.id, role |-> role, entity |-> CHOOSE e \in Candidates(rules, rec, role) : TRUE] :
        role \in {r \in RolesPresent(rules, rec) : Cardinality(Candidates(rules, rec, r)) = 1}}

Ambiguous(rules, rec) ==
    {[event |-> rec.id, role |-> role, candidates |-> Candidates(rules, rec, role)] :
        role \in {r \in RolesPresent(rules, rec) : Cardinality(Candidates(rules, rec, r)) > 1}}

Unresolved(rules, rec) ==
    {[event |-> rec.id, role |-> role, attr |-> FirstAsked(rules, rec, role),
      value |-> rec.attrs[FirstAsked(rules, rec, role)]] :
        role \in {r \in RolesPresent(rules, rec) : Candidates(rules, rec, r) = {}}}

\* by_role: role -> <<resolved, ambiguous, unresolved>>.
Counted(counts, rules, rec) ==
    LET add(role) ==
            LET n == Cardinality(Candidates(rules, rec, role)) IN
            IF n = 1 THEN <<1, 0, 0>> ELSE IF n > 1 THEN <<0, 1, 0>> ELSE <<0, 0, 1>>
        was(role) == IF role \in DOMAIN counts THEN counts[role] ELSE <<0, 0, 0>>
    IN [role \in DOMAIN counts \cup RolesPresent(rules, rec) |->
           IF role \in RolesPresent(rules, rec)
           THEN [k \in 1..3 |-> was(role)[k] + add(role)[k]] ELSE was(role)]

\* One turn of the loop of resolve.
Resolved(er, rules, rec) ==
    LET found == {[e |-> p[2], rule |-> FiledUnder(rules, rec, p[1], p[2])] :
                     p \in UNION {{r} \X Candidates(rules, rec, r) : r \in RolesPresent(rules, rec)}}
        bound == Bound(rules, rec)
    IN [minted |-> Remembered(er.minted, found),
        from |-> er.from \cup {<<b.entity, b.event>> : b \in bound},
        bindings |-> er.bindings \cup bound,
        ambiguous |-> er.ambiguous \cup Ambiguous(rules, rec),
        unresolved |-> er.unresolved \cup Unresolved(rules, rec),
        counts |-> Counted(er.counts, rules, rec)]

-----------------------------------------------------------------------------
PredicateOf(type) == IF type \in DOMAIN Predicate THEN Predicate[type] ELSE type

\* Mutant of Projected: every role that resolved is handed on.
ProjectedAll(bindings, rec) == {b \in bindings : b.event = rec.id}

\* project_bindings: of a record's bindings, those its predicate's patterns
\* read; all of them where no rule reads the predicate.
Projected(bindings, rec) ==
    LET p == PredicateOf(rec.type) IN
    {b \in bindings :
        b.event = rec.id /\ (p \in DOMAIN AxiomRoles => \E k \in DOMAIN AxiomRoles[p] : AxiomRoles[p][k] = b.role)}

\* axiom_fact_for: the arguments in the order of their roles.
ArgsOf(projected) ==
    [k \in 1..Cardinality(projected) |->
        (CHOOSE b \in projected : Cardinality({c \in projected : c.role < b.role}) = k - 1).entity]
=============================================================================
