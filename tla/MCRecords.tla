----------------------------- MODULE MCRecords -----------------------------
(***************************************************************************)
(* Bundles of up to three of five records, under the authored table of     *)
(* joins, one with collisions and one that is refused; two processes that  *)
(* index five files.                                                       *)
(***************************************************************************)
EXTENDS Records, TLC

\* The roles credential, device, principal; the attribute keys 1 to 3.
MCPredicate == ("logon" :> "auth.logon") @@ ("read" :> "data.read")
MCAxiomRoles == ("auth.logon" :> <<1, 2>>) @@ ("data.read" :> <<3>>)

Rec(id, type, attrs) == [id |-> id, type |-> type, attrs |-> attrs]
Pool ==
    {Rec(1, "logon", (1 :> 7) @@ (2 :> 8) @@ (3 :> 9)),
     Rec(2, "logon", (2 :> 8) @@ (3 :> 9)),
     Rec(3, "logon", (1 :> 8) @@ (2 :> 7)),
     Rec(4, "read", (3 :> 8) @@ (1 :> 7)),
     Rec(5, "beacon", (1 :> 6) @@ (2 :> 6))}
MCBundles ==
    {<<>>} \cup {<<a>> : a \in Pool}
    \cup {q \in [1..3 -> Pool] : \A i, j \in 1..3 : i # j => q[i].id # q[j].id}

Join(id, role, attr, kind, names) == [id |-> id, role |-> role, attr |-> attr, kind |-> kind, table |-> names]

\* As in _JOIN_SPECS, one attribute supplies two roles and one id two rules.
Authored ==
    JoinRulesFor({[id |-> 1, role |-> 1, attr |-> 1, kind |-> 1], [id |-> 2, role |-> 2, attr |-> 2, kind |-> 2],
                  [id |-> 3, role |-> 3, attr |-> 1, kind |-> 3], [id |-> 2, role |-> 3, attr |-> 4, kind |-> 3]},
                 <<{7, 8}, {8}, {}, {}>>)

\* A value with two names; two keys that join to one role, from one table and
\* from another.
Colliding ==
    {Join(1, 1, 1, 1, (7 :> {7, 8}) @@ (8 :> {8})), Join(2, 2, 2, 1, (8 :> {8}) @@ (7 :> {7})),
     Join(3, 2, 3, 1, (9 :> {8}) @@ (8 :> {7})), Join(1, 3, 3, 3, (8 :> {8}) @@ (9 :> {9}))}

MCRuleTables == {Authored, Colliding, {Join(1, 1, 1, 1, 7 :> {7}), Join(1, 1, 1, 2, 7 :> {7})}}

Row(id, s, q, t) == [bad |-> FALSE, row |-> [id |-> id, src |-> s, seq |-> q, t |-> t]]
Bad == [bad |-> TRUE, row |-> [id |-> 0, src |-> 0, seq |-> 0, t |-> 0]]

\* A record before its time and two at one instant; a file that repeats a
\* record of the first, after one that is new; one with a bad line; none.
MCFiles ==
    [a |-> <<Row(1, 1, 0, 2), Row(2, 1, 1, 1), Row(3, 1, 2, 2)>>,
     b |-> <<Row(4, 2, 0, 0), Row(2, 1, 1, 1)>>,
     c |-> <<Row(5, 1, 1, 3), Bad>>,
     d |-> <<>>,
     e |-> <<Row(6, 1, 1, 0), Row(7, 2, 1, 1)>>]
=============================================================================
