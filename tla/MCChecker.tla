----------------------------- MODULE MCChecker -----------------------------
(* Certificates right and wrong: every part varied against the others. *)
EXTENDS Checker

Inst(id, head, body_, blockers) ==
    [id |-> id, head |-> head, body |-> body_, blockers |-> blockers]

MCFact == 1..4
MCMaxLevel == <<2, 1, 1>>

\* Two routes from 1 to the goal 4, and one that uses both; or one step that
\* only the second level of control 1 blocks.
MCPool ==
    { Inst(1, 2, <<1>>,    {{<<1, 1>>}}),
      Inst(2, 4, <<2>>,    {{<<2, 1>>}}),
      Inst(3, 3, <<1>>,    {{<<1, 2>>}, {<<3, 1>>}}),
      Inst(4, 4, <<2, 3>>, {{<<3, 1>>}}),
      Inst(5, 4, <<1>>,    {{<<1, 2>>}}) }
Of(ids) == {i \in MCPool : i.id \in ids}

NoPremium == [published |-> FALSE, nec |-> {}, occ |-> {}, b |-> {}]
MCPremiums == {NoPremium} \cup {[published |-> TRUE, nec |-> {1, 2}, occ |-> {2}, b |-> d] : d \in {{1}, {1, 2}}}

MCClauses ==
    { {}, {{<<1, 1>>, <<2, 1>>}}, {{<<1, 2>>, <<3, 1>>}},
      {{<<1, 1>>, <<2, 1>>}, {<<1, 2>>, <<3, 1>>}}, {{<<1, 1>>}, {<<2, 1>>}} }

Trees(I) == {{}} \cup {{[control |-> c, insts |-> J]} : c \in Control, J \in SUBSET I}

\* The number of control sets one smaller than the cut's, as a true emitter
\* counts them.
Tested(cut) == Cardinality({K \in SUBSET Control : Cardinality(K) + 1 = Cardinality(Controls(cut))})

Body(I, cut, goalDerivable, U, trees, clauses, premium, v, minimality) ==
    [insts |-> I, silent |-> {i \in I : i.id = 3}, cut |-> cut,
     derivable |-> IF goalDerivable THEN {4} ELSE {},
     severed |-> IF goalDerivable THEN {} ELSE {4},
     hasU |-> ~goalDerivable, u |-> IF goalDerivable THEN {} ELSE U,
     trees |-> trees, clauses |-> clauses, complete |-> "corridor_cap" \notin v.flags,
     premium |-> premium, safety |-> v.safety, witnessClass |-> v.class,
     flags |-> v.flags, suspected |-> v.suspected, sensitive |-> v.sensitive,
     disputed |-> v.disputed, minimality |-> minimality,
     exhausted |-> FALSE, exhaustiveRan |-> TRUE, cutsTested |-> Tested(cut)]

MCVerdicts ==
    [safety : {"ROBUST", "OPTIMISTIC_ONLY"}, class : {"NONE"},
     flags : {{}, {"corridor_cap"}, {"er_ambiguous"}},
     suspected : {{}, {"src"}}, disputed : {{}, {"src"}}, sensitive : BOOLEAN]
    \cup [safety : {"UNSAFE"}, class : {"OBSERVED", "LICENSED", "CONTESTED"},
          flags : {{}, {"er_ambiguous"}}, suspected : {{}}, disputed : {{}}, sensitive : {FALSE}]

Plain == [safety |-> "OPTIMISTIC_ONLY", class |-> "NONE", flags |-> {}, suspected |-> {},
          disputed |-> {}, sensitive |-> FALSE]
Minimalities == {"EXACT_EXHAUSTIVE", "EXACT_PSI_RELATIVE", "SUBSET"}

\* Cut, invariant, corridors and claim against one another.
Published ==
    ({Of({1, 2}), Of({1, 2, 3}), Of(1..4)} \X MCClauses) \cup {<<Of({5}), {{<<1, 2>>}}>>}

Invariants == {<<TRUE, {}>>} \cup {<<FALSE, U>> : U \in SUBSET MCFact}

ClaimBodies ==
    {Body(k[1], cut, d[1], d[2], {}, k[2], NoPremium, Plain, m) :
        k \in Published, cut \in SUBSET Literal, d \in Invariants, m \in Minimalities}

\* Witness trees against cuts.
WitnessBodies ==
    {Body(Of(1..4), cut, TRUE, {}, t, {}, NoPremium, Plain, "UNVERIFIED") :
        cut \in SUBSET {<<1, 1>>, <<2, 1>>, <<3, 1>>}, t \in Trees(Of(1..4))}

\* Verdicts against flags, premiums and trees.
VerdictBodies ==
    {Body(Of({1, 2, 3}), {<<1, 1>>}, TRUE, {}, t, {{<<1, 1>>, <<2, 1>>}}, pr, v, m) :
        t \in {{}, {[control |-> 1, insts |-> Of({1, 2})]}, {[control |-> 1, insts |-> Of({1, 2, 3})]}},
        pr \in MCPremiums, v \in MCVerdicts, m \in Minimalities}

MCBodies == ClaimBodies \cup WitnessBodies \cup VerdictBodies
=============================================================================
