---------------------------- MODULE MCTelemetry ----------------------------
(***************************************************************************)
(* Three sources, one of each integrity class; a span of eight instants in *)
(* two regimes and a last instant in none.                                 *)
(***************************************************************************)
EXTENDS Telemetry

MCClass == <<"CHAINED", "NONE", "SEQUENCED">>
MCNominal == <<0, 2, 4>>
MCPhases == {[regime |-> "work", t0 |-> 0, t1 |-> 4], [regime |-> "rest", t0 |-> 4, t1 |-> 7]}

\* The records of one source at the given instants.
At(s, times) ==
    {[src |-> s, seq |-> k - 1, t |-> times[k], type |-> "auth",
      attrs |-> IF s = 2 /\ k = 1 THEN {"user"} ELSE {}] : k \in DOMAIN times}

Stream(a, b, c) == At(1, a) \cup At(2, b) \cup At(3, c)

MCStreams ==
    {Stream(<<0, 1, 2, 3, 4>>, <<0>>, <<>>),
     Stream(<<0, 2, 2, 6>>, <<1>>, <<1, 2>>),
     Stream(<<1>>, <<0, 0, 2, 3>>, <<0, 4>>),
     {}}

MCLevels == {<<2, 3>>}
MCBlackouts == {[sources |-> {1}, lo |-> 2, hi |-> 4], [sources |-> {1, 3}, lo |-> 1, hi |-> 5]}
MCShifts == {-3, 2}

Rec(s, q, t) == [src |-> s, seq |-> q, t |-> t, type |-> "auth", attrs |-> {}]
Good(r) == [rec |-> r, defects |-> {}]
Bad(r, ds) == [rec |-> r, defects |-> ds]

\* A repeated line, two records with one number, refused lines, a label.
Noise == {Good(Rec(1, 1, 2)), Good(Rec(1, 1, 3)), Bad(Rec(1, 2, 4), {"float", "label"})}
MCExternalFiles ==
    {<<Good(Rec(1, 0, 1)), a, b, c>> : a, b, c \in Noise}
    \cup {<<Good(Rec(1, 0, 1)), Bad(Rec(1, 1, 1), ds)>> :
            ds \in {{"label", "members"}, {"too_long", "label"}, {"undeclared"}, {"t_width", "attrs"}}}

MCScenario == [config |-> "c", family |-> "f", excluded |-> {[t0 |-> 5, t1 |-> 6]}]
MCReference == Stream(<<0, 1, 3, 4, 5, 5>>, <<0, 1, 2>>, <<0, 1, 2, 4, 5, 6>>)
Clean1 == [reference |-> MCReference, degspec |-> "id", scenario |-> MCScenario, collapse |-> FALSE]
MCCalibrations ==
    {Clean1,
     [Clean1 EXCEPT !.reference = Stream(<<0, 0, 3>>, <<2, 3, 5>>, <<4, 5, 6>>)],
     [Clean1 EXCEPT !.degspec = "cut"],
     [Clean1 EXCEPT !.collapse = TRUE],
     [Clean1 EXCEPT !.scenario = [config |-> "d", family |-> "f", excluded |-> {}]]}

MCFlags == {[noProfile |-> TRUE, declared |-> FALSE], [noProfile |-> FALSE, declared |-> FALSE],
            [noProfile |-> FALSE, declared |-> TRUE]}

MCRuleSeqs ==
    {[left |-> Rec(1, 2, 2), right |-> Rec(1, 1, 2), within |-> 1],
     [left |-> Rec(1, 0, 0), right |-> Rec(1, 3, 6), within |-> 3],
     [left |-> Rec(3, 1, 2), right |-> Rec(1, 0, 0), within |-> 4]}
=============================================================================
