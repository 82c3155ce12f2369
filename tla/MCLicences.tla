----------------------------- MODULE MCLicences -----------------------------
(***************************************************************************)
(* Two sources, and every document over three cells of one to three        *)
(* instants, two instants to the tick: blind runs that start in the middle *)
(* of a tick, overlap in part, follow one another for two reasons, or are  *)
(* cut by a witness that changes.                                          *)
(***************************************************************************)
EXTENDS Licences

Grid == <<0, 2, 3, 6>>
Live == [verdict |-> "LIVE", reason |-> "ok", witness |-> {}]
Gap == [verdict |-> "BLIND", reason |-> "gap", witness |-> {}]
Seq1 == [verdict |-> "SUPPRESSED", reason |-> "seq", witness |-> {1}]
Seq2 == [verdict |-> "SUPPRESSED", reason |-> "seq", witness |-> {2}]

\* One interval per stretch of equal cells, as S7 merges them.
Timeline(cells) ==
    LET starts == SetToSortSeq({k \in 1..3 : k = 1 \/ cells[k] # cells[k - 1]}, <)
    IN [n \in DOMAIN starts |->
          [t0 |-> Grid[starts[n]],
           t1 |-> Grid[IF n = Len(starts) THEN 4 ELSE starts[n + 1]],
           verdict |-> cells[starts[n]].verdict, reason |-> cells[starts[n]].reason,
           witness |-> cells[starts[n]].witness]]

MCTimelines == {Timeline(c) : c \in [1..3 -> {Live, Gap, Seq1, Seq2}]} \cup {<<>>}
MCSource == {"iam", "edr"}
MCDocuments == [MCSource -> MCTimelines]

P(pred, vars_) == [pred |-> pred, vars |-> vars_]
K(name, kind) == [name |-> name, kind |-> kind]

MCEntities == [principal |-> {1, 2}, role |-> {3, 4}, host |-> {}]

\* A rule of two sources with one combination more than the ceiling, a rule of
\* one source with nothing to draw, and two that never yield an instance: a
\* kind nobody has, and a body that no binding fills.
MCDetectRules ==
    <<[sources |-> {"iam", "edr"}, body |-> {P("assumed", <<"p">>)}, head |-> P("escalated", <<"p", "r">>),
       kinds |-> <<K("p", "principal"), K("r", "role")>>],
      [sources |-> {"iam"}, body |-> {}, head |-> P("issued", <<>>), kinds |-> <<>>],
      [sources |-> {"edr"}, body |-> {}, head |-> P("moved", <<"h">>), kinds |-> <<K("h", "host")>>],
      [sources |-> {"edr"}, body |-> {P("seen", <<"x">>)}, head |-> P("used", <<"p">>),
       kinds |-> <<K("p", "principal")>>]>>
\* The second obligation's ghost is the first one's trigger; the trigger of the
\* third does not say whose head is due.
MCObligationRules ==
    <<[sources |-> {"edr"}, trigger |-> P("held", <<"p">>), head |-> P("acquired", <<"p">>), within |-> 1],
      [sources |-> {"edr"}, trigger |-> P("replayed", <<"p", "r">>), head |-> P("held", <<"p">>), within |-> 2],
      [sources |-> {"iam"}, trigger |-> P("held", <<"p">>), head |-> P("granted", <<"p", "q">>), within |-> 1]>>
MCObservable == {<<"replayed", <<1, 3>>, 2>>, <<"held", <<2>>, 1>>}
MCDerivable == {<<"held", <<2>>, 3>>}
=============================================================================
