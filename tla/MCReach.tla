------------------------------ MODULE MCReach ------------------------------
(* Reach over every program that can be built from a pool of instances. *)
EXTENDS Reach

Inst(id, head, body, blockers) ==
    [id |-> id, head |-> head, body |-> body, blockers |-> blockers]

\* A chain, a join, a diamond, a two-cycle, a self-loop, a body that names a
\* fact twice and an instance with no body; some blocked by a literal.
MCPool ==
    { Inst(1, 3, <<1>>,    {{"a"}}),
      Inst(2, 3, <<2, 2>>, {{"b"}}),
      Inst(3, 4, <<1, 3>>, {}),
      Inst(4, 2, <<4>>,    {{"a"}, {"b"}}),
      Inst(5, 4, <<2>>,    {{"b"}}),
      Inst(6, 5, <<5>>,    {}),
      Inst(7, 5, <<4, 2>>, {{"a"}}),
      Inst(8, 2, <<>>,     {{"b"}}) }

MCFact == 1..5
MCLiteral == {"a", "b"}
MCCuts == SUBSET MCLiteral
MCPrograms ==
    [insts : SUBSET MCPool, axioms : {<<1>>, <<1, 2>>}, goals : {{4, 5}}]
=============================================================================
