---------------------------- MODULE MCCutSearch ----------------------------
(* CutSearch over every program that can be built from a pool of instances. *)
EXTENDS CutSearch

Inst(id, head, body, blockers) ==
    [id |-> id, head |-> head, body |-> body, blockers |-> blockers]

\* Routes to goals 4 and 5 through 2 and 3; levels of the three controls block
\* most instances, 7 is the step nothing blocks and 8 makes 2 and 3 a cycle.
MCPool ==
    { Inst(1, 2, <<1>>,    {{<<1, 1>>}}),
      Inst(2, 4, <<2>>,    {{<<2, 1>>}}),
      Inst(3, 3, <<1>>,    {{<<1, 2>>}, {<<3, 1>>}}),
      Inst(4, 5, <<1>>,    {{<<2, 1>>}, {<<3, 2>>}}),
      Inst(5, 5, <<2, 3>>, {{<<3, 2>>}}),
      Inst(6, 4, <<1>>,    {{<<1, 1>>}, {<<3, 2>>}}),
      Inst(7, 4, <<3>>,    {}),
      Inst(8, 2, <<3>>,    {}),
      Inst(9, 3, <<2>>,    {{<<1, 1>>}}),
      Inst(10, 3, <<1>>,   {}) }

MCFact == 1..5
MCMaxLevel == <<2, 1, 2>>
MCPrograms == [insts : SUBSET MCPool, axioms : {<<1>>}, goals : {{4, 5}}]
=============================================================================
