------------------------------- MODULE Guards -------------------------------
(***************************************************************************)
(* The two guards of a rule, spectra_vs/rules.py. A guard is the tree the  *)
(* parser returns, with its sugar already gone; a control guard compiles   *)
(* to the terms of a disjunctive normal form, a data guard to a canonical  *)
(* tree. Names (fields, controls, predicates) are numbers in byte order.   *)
(* Distributed, TooWide and WhenCompiles are what Rules is parameterised   *)
(* by: CtlTerms, CtlTooWide and WhenAccepted.                              *)
(***************************************************************************)
EXTENDS Rules

CONSTANTS
    I64Max          \* the widest integer a guard computes with

ASSUME GuardAssumption == I64Max \in Nat

\* Node: kind, children, a name (0 for none) and a value.
Node(kind, kids, name, val) == [kind |-> kind, kids |-> kids, name |-> name, val |-> val]

Saturate(v) == IF v < -(I64Max + 1) THEN -(I64Max + 1) ELSE IF v > I64Max THEN I64Max ELSE v

-----------------------------------------------------------------------------
(* The control sort: Threshold(control, level name), And, Or.              *)

Conj(terms, more) == {l \cup r : l \in terms, r \in more}

\* _ctl_terms: each term a set of <<control, level name>>.
RECURSIVE Distributed(_)
Distributed(node) ==
    IF node.kind = "Threshold" THEN {{<<node.name, node.val>>}}
    ELSE IF node.kind = "Or" THEN UNION {Distributed(node.kids[k]) : k \in DOMAIN node.kids}
    ELSE FoldLeft(LAMBDA acc, kid : Conj(acc, Distributed(kid)), {{}}, node.kids)

\* The number of terms _ctl_terms lists, repetitions counted, and whether an
\* `and' inside the guard lists more than it may.
RECURSIVE Listed(_)
Listed(node) ==
    IF node.kind = "Threshold" THEN 1
    ELSE IF node.kind = "Or" THEN FoldLeft(LAMBDA acc, kid : acc + Listed(kid), 0, node.kids)
    ELSE FoldLeft(LAMBDA acc, kid : acc * Listed(kid), 1, node.kids)

RECURSIVE TooWide(_)
TooWide(node) ==
    \/ \E k \in DOMAIN node.kids : TooWide(node.kids[k])
    \/ node.kind = "And" /\ Listed(node) > MaxDnfTerms * MaxDnfTerms

-----------------------------------------------------------------------------
(* The data sort.                                                          *)

Numeric == {"Int", "Tick", "Dur"}
NoType == "none"

\* _type_of; NoType where it raises. The field with value 1 is a tick.
RECURSIVE TypeOf(_)
TypeOf(n) ==
    LET of == <<>> \o [k \in DOMAIN n.kids |-> TypeOf(n.kids[k])]
        both(ok, type) == IF ok THEN type ELSE NoType
    IN CASE n.kind = "ConstBool" -> "Bool"
         [] n.kind = "ConstInt" -> "Int"
         [] n.kind = "ConstDur" -> "Dur"
         [] n.kind = "ConstSym" -> "Sym"
         [] n.kind = "Field" -> IF n.val = 1 THEN "Tick" ELSE "Ent"
         [] n.kind \in {"Not", "And", "Or"} -> both(\A k \in DOMAIN n.kids : of[k] = "Bool", "Bool")
         [] n.kind = "Eq" -> both(of[1] = of[2] /\ of[1] # NoType, "Bool")
         [] n.kind = "Lt" -> both(of[1] = of[2] /\ of[1] \in Numeric, "Bool")
         [] n.kind = "Sub" -> IF of[1] = "Tick" /\ of[2] = "Tick" THEN "Dur"
                              ELSE both(of[1] = of[2] /\ of[1] \in Numeric, of[1])
         [] n.kind = "Add" -> IF of[1] = "Tick" /\ of[2] = "Dur" THEN "Tick"
                              ELSE both(of[1] = of[2] /\ of[1] \in Numeric, of[1])
         [] n.kind = "Abs" -> both(of[1] \in Numeric, of[1])
         [] OTHER -> both(of[1] = of[2] /\ of[1] \in Numeric, of[1])

\* The order of the tags in the canonical encoding.
KindTag ==
    [ConstBool |-> 0, ConstInt |-> 1, ConstDur |-> 2, ConstSym |-> 3, Field |-> 4, Not |-> 5,
     Abs |-> 6, And |-> 7, Or |-> 8, Eq |-> 9, Lt |-> 10, Add |-> 11, Sub |-> 12, Min |-> 14, Max |-> 15]

\* Node.canonical_bytes, as a word of numbers.
RECURSIVE Bytes(_)
Bytes(n) ==
    <<KindTag[n.kind], n.name, n.val, Len(n.kids)>> \o FlattenSeq([k \in DOMAIN n.kids |-> Bytes(n.kids[k])])

Lower(v, w) ==
    \E k \in 1..(IF Len(v) < Len(w) THEN Len(v) ELSE Len(w)) :
        v[k] < w[k] /\ \A i \in 1..(k - 1) : v[i] = w[i]

Bool(b) == Node("ConstBool", <<>>, 0, IF b THEN 1 ELSE 0)

Computed(kind, l, r) ==
    CASE kind = "Add" -> Saturate(l + r)
      [] kind = "Sub" -> Saturate(l - r)
      [] kind = "Min" -> IF l < r THEN l ELSE r
      [] kind = "Max" -> IF l > r THEN l ELSE r

Magnitude(v) == Saturate(IF v < 0 THEN -v ELSE v)

\* Mutant of Joined: a constant decides, whichever it is.
JoinedConstant(kind, kids) ==
    IF \E k \in DOMAIN kids : kids[k].kind = "ConstBool" THEN Bool(kind = "Or") ELSE Node(kind, kids, 0, 0)

\* The connectives of _canonicalise_data over canonical children: flattened,
\* absorbed, without repetitions, sorted.
Joined(kind, kids) ==
    LET flat == FlattenSeq([k \in DOMAIN kids |->
                    IF kids[k].kind = kind THEN kids[k].kids ELSE <<kids[k]>>])
        absorbed == \E k \in DOMAIN flat : flat[k] = Bool(kind = "Or")
        kept == {flat[k] : k \in DOMAIN flat} \ {Bool(kind = "And")}
    IN IF absorbed THEN Bool(kind = "Or")
       ELSE IF kept = {} THEN Bool(kind = "And")
       ELSE IF Cardinality(kept) = 1 THEN CHOOSE x \in kept : TRUE
       ELSE Node(kind, SetToSortSeq(kept, LAMBDA x, y : Lower(Bytes(x), Bytes(y))), 0, 0)

\* _canonicalise_data
RECURSIVE Canonical(_)
Canonical(node) ==
    LET kids == <<>> \o [k \in DOMAIN node.kids |-> Canonical(node.kids[k])]
        constant(k) == kids[k].kind \in {"ConstInt", "ConstDur"}
    IN CASE node.kind = "Not" /\ kids[1].kind = "Not" -> kids[1].kids[1]
         [] node.kind = "Not" /\ kids[1].kind \in {"And", "Or"} ->
              Canonical(Node(IF kids[1].kind = "And" THEN "Or" ELSE "And",
                             <<>> \o [k \in DOMAIN kids[1].kids |-> Node("Not", <<kids[1].kids[k]>>, 0, 0)], 0, 0))
         [] node.kind = "Not" /\ kids[1].kind = "ConstBool" -> Bool(kids[1].val = 0)
         [] node.kind \in {"And", "Or"} -> Joined(node.kind, kids)
         [] node.kind \in {"Add", "Sub", "Min", "Max"} /\ constant(1) /\ constant(2) ->
              Node(IF \E k \in 1..2 : kids[k].kind = "ConstDur" THEN "ConstDur" ELSE "ConstInt",
                   <<>>, 0, Computed(node.kind, kids[1].val, kids[2].val))
         [] node.kind = "Abs" /\ constant(1) -> Node(kids[1].kind, <<>>, 0, Magnitude(kids[1].val))
         [] OTHER -> Node(node.kind, kids, node.name, node.val)

\* compile_when answers, instead of raising.
WhenCompiles(node) ==
    TypeOf(node) = "Bool" /\ Canonical(Canonical(node)) = Canonical(node)

\* A value: an integer, a name or a Boolean; Missing is none of them.
Value(sort, v) == [sort |-> sort, v |-> v]
Missing == Value("missing", 0)
Truth(b) == Value("bool", IF b THEN 1 ELSE 0)
Truthy(x) == IF x.sort \in {"int", "bool"} THEN x.v # 0 ELSE TRUE
IsInt(x) == x.sort \in {"int", "bool"}

\* _eval, under an environment from field names to values.
RECURSIVE Eval(_, _)
Eval(n, env) ==
    LET of == <<>> \o [k \in DOMAIN n.kids |-> Eval(n.kids[k], env)] IN
    CASE n.kind = "ConstBool" -> Truth(n.val = 1)
      [] n.kind \in {"ConstInt", "ConstDur"} -> Value("int", n.val)
      [] n.kind = "ConstSym" -> Value("name", n.name)
      [] n.kind = "Field" -> IF n.name \in DOMAIN env THEN env[n.name] ELSE Missing
      [] n.kind = "Not" -> Truth(~Truthy(of[1]))
      [] n.kind = "And" -> Truth(\A k \in DOMAIN n.kids : Truthy(of[k]))
      [] n.kind = "Or" -> Truth(\E k \in DOMAIN n.kids : Truthy(of[k]))
      [] n.kind = "Eq" -> Truth(of[1] # Missing /\ of[2] # Missing /\ of[1] = of[2])
      [] n.kind = "Lt" -> Truth(IsInt(of[1]) /\ IsInt(of[2]) /\ of[1].v < of[2].v)
      [] n.kind = "Abs" -> Value("int", IF IsInt(of[1]) THEN Magnitude(of[1].v) ELSE 0)
      [] OTHER -> Value("int", IF IsInt(of[1]) /\ IsInt(of[2])
                               THEN Computed(n.kind, of[1].v, of[2].v) ELSE 0)

-----------------------------------------------------------------------------
\* What a control guard says under a setting of every control.
RECURSIVE CtlHolds(_, _, _)
CtlHolds(node, cat, setting) ==
    IF node.kind = "Threshold" THEN setting[node.name] >= Ordinal(cat, node.name, node.val)
    ELSE IF node.kind = "And" THEN \A k \in DOMAIN node.kids : CtlHolds(node.kids[k], cat, setting)
    ELSE \E k \in DOMAIN node.kids : CtlHolds(node.kids[k], cat, setting)

\* The terms a `blocked_when' distributes to hold under exactly the settings
\* the guard does.
TermsSayGuard ==
    pc \in {"compiled", "refused"} => \A r \in table.file :
        r.blocked # NoGuard /\ BlockedCompiles(r.blocked, mem.catalog) =>
            \A s \in Settings(mem.catalog) :
                TermsSay(CtlTerms(r.blocked), mem.catalog, s) <=> CtlHolds(r.blocked, mem.catalog, s)

\* The environments of _guard_env: a field may be missing.
FieldsOf(n) ==
    LET RECURSIVE fields(_)
        fields(x) == (IF x.kind = "Field" THEN {<<x.name, x.val>>} ELSE {})
                     \cup UNION {fields(x.kids[k]) : k \in DOMAIN x.kids}
    IN fields(n)

ValuesOf(field) == IF field[2] = 1 THEN {Value("int", v) : v \in {0, 1, I64Max}} ELSE {Value("name", v) : v \in {1, 2}}

Environments(n) ==
    LET fs == FieldsOf(n)
        values == UNION {ValuesOf(f) : f \in fs}
    IN UNION {{e \in [bound -> values] : \A f \in fs : f[1] \in bound => e[f[1]] \in ValuesOf(f)} :
                 bound \in SUBSET {f[1] : f \in fs}}

\* Canonicalisation keeps what a `when' says in every environment, those that
\* leave a field out and those that saturate included; the value of a guard
\* that types is a truth value; and none that types is refused afterwards.
WhenKeepsMeaning ==
    pc \in {"compiled", "refused"} => \A r \in table.file :
        r.when # NoGuard /\ TypeOf(r.when) = "Bool" =>
            /\ WhenCompiles(r.when) /\ TypeOf(Canonical(r.when)) = "Bool"
            /\ \A env \in Environments(r.when) :
                  /\ Eval(r.when, env).sort = "bool"
                  /\ Eval(Canonical(r.when), env) = Eval(r.when, env)

\* Compilation keeps what both sorts of guard say.
GuardsKeepMeaning == TermsSayGuard /\ WhenKeepsMeaning
=============================================================================
