------------------------------ MODULE MCRules ------------------------------
(***************************************************************************)
(* Two controls of up to three settings, a mask of three bits, and rule     *)
(* tables that reach every check of the loader.                            *)
(***************************************************************************)
EXTENDS Guards, TLC

\* Controls 1 and 2; 10 is the weakest setting. A setting is put between two
\* others, a control goes and comes back, and one catalog is too wide.
MCCatalogs ==
    {1 :> <<10, 11, 12>> @@ 2 :> <<10, 11>>, 2 :> <<10, 11>>,
     1 :> <<10, 13, 11>> @@ 2 :> <<10, 11>>, 1 :> <<10, 11>> @@ 2 :> <<10, 11, 12, 13>>}

Th(c, l) == Node("Threshold", <<>>, c, l)
And2(x, y) == Node("And", <<x, y>>, 0, 0)
Or2(x, y) == Node("Or", <<x, y>>, 0, 0)
Neg(x) == Node("Not", <<x>>, 0, 0)
Bin(kind, x, y) == Node(kind, <<x, y>>, 0, 0)
Const(kind, v) == Node(kind, <<>>, 0, v)

\* Field 10 * slot is the slot's tick, 10 * slot + v its variable v.
Tick(slot) == Node("Field", <<>>, 10 * slot, 1)
Ent(slot, v) == Node("Field", <<>>, 10 * slot + v, 0)

Gap == Bin("Sub", Tick(2), Tick(1))
Atoms ==
    {Bin("Lt", Tick(1), Tick(2)), Bin("Eq", Ent(1, 1), Ent(2, 2)), Bool(TRUE), Bool(FALSE),
     Neg(Bin("Lt", Const("ConstDur", 1), Node("Abs", <<Gap>>, 0, 0)))}
Sums ==
    {Bin("Lt", Gap, Bin(k, Const("ConstDur", a), Const("ConstDur", 1))) : k \in {"Add", "Sub", "Min", "Max"}, a \in {0, I64Max}}
    \cup {Bin("Eq", Bin("Add", Tick(1), Const("ConstDur", I64Max)), Tick(2)),
          Bin("Lt", Bin("Add", Const("ConstInt", 0), Const("ConstInt", 1)),
                    Node("Abs", <<Bin("Sub", Const("ConstInt", 0), Const("ConstInt", 1))>>, 0, 0))}
WhenGuards ==
    Atoms \cup Sums \cup {Neg(Neg(x)) : x \in Atoms}
    \cup {And2(x, Or2(y, x)) : x, y \in Atoms} \cup {Neg(Or2(And2(x, y), y)) : x, y \in Atoms}
    \cup {Neg(Or2(Bin("Lt", Tick(1), Tick(2)), y)) : y \in Sums}
Mistyped ==
    {Bin("Eq", Tick(1), Ent(1, 1)), Bin("Lt", Tick(1), Const("ConstDur", 1)), And2(Tick(1), Bool(TRUE)),
     Bin("Lt", Bin("Add", Gap, Tick(1)), Tick(1)), Gap}

Thresholds == {Th(1, 11), Th(1, 12), Th(2, 11)}
BlockedGuards == {Or2(x, And2(x, y)) : x, y \in Thresholds} \cup {Or2(Or2(x, y), x) : x, y \in Thresholds}
ConjGuards ==
    {And2(x, y) : x, y \in Thresholds} \cup {And2(Or2(x, y), Or2(y, z)) : x, y, z \in Thresholds}
    \cup {Or2(And2(x, y), z) : x, y, z \in Thresholds}
WideGuard == Node("And", <<Or2(Th(1, 11), Th(2, 11)), Or2(Th(1, 12), Th(2, 11)), Or2(Th(1, 11), Th(2, 11))>>, 0, 0)

P(pred, vs) == [pred |-> pred, vars |-> vs, tick |-> 9]
NoTemporal == [op |-> "none", slots |-> {}, of |-> P(0, <<>>)]
Absent(p) == [op |-> "absence", slots |-> {1}, of |-> p]
RECURSIVE CtlName(_)
CtlName(g) ==
    IF g.kind = "Threshold" THEN <<g.name, g.val>>
    ELSE <<IF g.kind = "And" THEN 1 ELSE 2>> \o FlattenSeq([k \in DOMAIN g.kids |-> CtlName(g.kids[k])])

Base ==
    [id |-> <<1>>, head |-> P(3, <<1>>), body |-> <<P(1, <<1, 2>>)>>, detect |-> TRUE, silent |-> FALSE,
     sources |-> {1}, free |-> {}, when |-> NoGuard, blocked |-> NoGuard, temporal |-> NoTemporal,
     persistence |-> "instant", deletes |-> FALSE]
Second == [Base EXCEPT !.id = <<2>>, !.head = P(4, <<2>>), !.body = <<P(1, <<1, 2>>), P(3, <<1>>)>>]

\* One rule per guard, named after it.
PutWhen(guards) == {[Base EXCEPT !.id = Bytes(g), !.when = g] : g \in guards}
PutBlocked(guards) == {[Base EXCEPT !.id = CtlName(g), !.blocked = g] : g \in guards}

Swapped == P(1, <<2, 1>>)
MCRuleFiles ==
    {PutBlocked(BlockedGuards), PutBlocked(ConjGuards), PutWhen(WhenGuards), {Base, Second},
     {[Base EXCEPT !.blocked = Th(2, 11)]}, {}}
    \cup {{[Base EXCEPT !.when = g]} : g \in Mistyped}
    \cup {{[Base EXCEPT !.blocked = g]} : g \in {Th(1, 10), Th(3, 11), WideGuard}}
    \cup {{Base, [Second EXCEPT !.body = <<Swapped, P(3, <<1>>)>>]},
          {Base, [Second EXCEPT !.body = <<P(3, <<1>>), Swapped>>]},
          {[Base EXCEPT !.body = <<P(2, <<1>>), Swapped>>]},
          {Base, [Second EXCEPT !.temporal = Absent(Swapped)]},
          {Base, [Second EXCEPT !.temporal = Absent(P(1, <<1, 2, 3>>))]},
          {Base, [Second EXCEPT !.temporal = Absent(P(5, <<1, 2>>))]},
          {Base, [Second EXCEPT !.body = <<P(3, <<1>>)>>, !.head = P(4, <<1>>)]},
          {[Base EXCEPT !.head = P(3, <<7>>)]}, {[Base EXCEPT !.head = P(3, <<7>>), !.free = {7}]},
          {[Base EXCEPT !.silent = TRUE, !.sources = {}]}, {[Base EXCEPT !.deletes = TRUE]},
          {Base, [Base EXCEPT !.sources = {}]}}
=============================================================================
