--------------------------- MODULE MCCertificate ---------------------------
(* Stage S10 and the checker over programs that grounding could have built. *)
EXTENDS Certificate

Inst(id, head, body, blockers) ==
    [id |-> id, head |-> head, body |-> body, blockers |-> blockers]

\* 1 is a record; 5 is the premise of a step that licence L1 lets nobody have
\* seen. Instances 6 and 7 rest on records and on what was not seen.
MCPool ==
    { Inst(1, 2, <<1>>,    {{<<1, 1>>}}),
      Inst(2, 4, <<2>>,    {{<<2, 1>>}, {<<3, 2>>}}),
      Inst(3, 4, <<1>>,    {}),
      Inst(4, 5, <<>>,     {}),
      Inst(5, 3, <<5>>,    {{<<3, 1>>}}),
      Inst(6, 4, <<1, 3>>, {{<<3, 2>>}}),
      Inst(7, 4, <<1, 5>>, {{<<2, 1>>}, {<<3, 2>>}}),
      Inst(8, 4, <<1>>,    {{<<1, 1>>}, {<<3, 2>>}}) }
MCLicensesOf == <<{}, {}, {}, {"L1"}, {"L1"}, {}, {}, {"L2"}>>

MCFact == 1..5
MCMaxLevel == <<1, 1, 2>>

Axioms(I) == IF \E i \in I : i.id = 4 THEN <<1, 5>> ELSE <<1>>

BodyOf(i) == {i.body[k] : k \in DOMAIN i.body}

\* What saturation keeps of S once the licences L are granted: the instances
\* whose body is derived when nothing is raised.
Ground(S, L) ==
    LET I == {i \in S : LicensesOf[i.id] \subseteq L}
        axioms == Axioms(I)
        closed == {F \in SUBSET MCFact :
                      /\ {axioms[k] : k \in DOMAIN axioms} \subseteq F
                      /\ \A i \in I : BodyOf(i) \subseteq F => i.head \in F}
    IN [insts |-> {i \in I : \A F \in closed : BodyOf(i) \subseteq F},
        axioms |-> axioms, goals |-> {4}]

\* A silent instance is added together with its premise.
MCPools == {S \in SUBSET MCPool : (\E i \in S : i.id = 4) <=> (\E i \in S : i.id = 5)}
MCPairs == {<<Ground(S, {}), Ground(S, L)>> : S \in MCPools, L \in SUBSET {"L1", "L2"}}
MCPrograms == UNION {{pr[1], pr[2]} : pr \in MCPairs}

MCUpstream == {[groundingCapped |-> FALSE, erAmbiguous |-> e] : e \in BOOLEAN}
Report(q, a, d) == [quarantined |-> q, accused |-> a, disputed |-> d]
MCReports ==
    { Report(FALSE, {}, {}), Report(TRUE, {}, {}), Report(FALSE, {"src"}, {}),
      Report(FALSE, {"src"}, {"L1"}), Report(FALSE, {"src"}, {"L2"}) }
=============================================================================
