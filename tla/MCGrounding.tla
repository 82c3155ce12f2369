---------------------------- MODULE MCGrounding ----------------------------
(***************************************************************************)
(* The shape of config/vs/rules.toml with one principal: a refresh gives a *)
(* session, a session and a request give access within two ticks, access   *)
(* and two different reads within a tick give the bulk read; a role taken  *)
(* with no approval in the two ticks before gives the escalation, and an   *)
(* export within two ticks of it gives the bulk read as well; a held       *)
(* credential, only ever obliged, is replayed.  Three families of bundles  *)
(* exercise them in all their subsets.                                     *)
(***************************************************************************)
EXTENDS Grounding

P(pred, vs, t) == [pred |-> pred, vars |-> vs, tick |-> t]
Plain == [op |-> "none"]
Seq2(w) == [op |-> "seq", left |-> 1, right |-> 2, within |-> w]
R(id, head, body, when, temporal, sources, propagates) ==
    [id |-> id, head |-> head, body |-> body, when |-> when, temporal |-> temporal,
     sources |-> sources, propagates |-> propagates]

MCRules ==
    {R("r1", P("session", <<"u">>, "t"), <<P("refresh", <<"u">>, "t")>>, {}, Plain, {"idp"}, FALSE),
     R("r2", P("access", <<"u">>, "t1"), <<P("session", <<"u">>, "t0"), P("gw", <<"u">>, "t1")>>,
       {<<1, 2>>}, Seq2(2), {"gw"}, TRUE),
     R("r3", P("bulk", <<"u">>, "t1"), <<P("access", <<"u">>, "t0"), P("read", <<"u", "x">>, "t1")>>,
       {<<1, 2>>}, [op |-> "distinct", of |-> 2, field |-> 2, n |-> 2, within |-> 1], {"res"}, TRUE),
     R("r4", P("escalated", <<"u">>, "t"), <<P("assumed", <<"u">>, "t")>>, {},
       [op |-> "absence", pattern |-> P("approval", <<"u">>, "ta"), before |-> 1, within |-> 2],
       {"iam"}, FALSE),
     R("r5", P("bulk", <<"u">>, "t1"), <<P("escalated", <<"u">>, "t0"), P("export", <<"u">>, "t1")>>,
       {<<1, 2>>}, Seq2(2), {"res"}, TRUE),
     R("r6", P("replayed", <<"u">>, "t1"), <<P("held", <<"u">>, "t0"), P("gw", <<"u">>, "t1")>>,
       {<<1, 2>>}, Seq2(2), {"gw"}, FALSE)}

MCObligations == <<[name |-> "o7", trigger |-> "refresh", head |-> "held", within |-> 1]>>

E(id, source, type, args, t) ==
    [id |-> id, source |-> source, type |-> type, t |-> t,
     roles |-> {[role |-> k, entity |-> args[k]] : k \in DOMAIN args}]

MCTick == 2

Reads ==
    {E(1, "idp", "refresh", <<"p">>, 0), E(2, "gw", "gw", <<"p">>, 2), E(3, "res", "read", <<"p", "x">>, 4),
     E(4, "res", "read", <<"p", "y">>, 7), E(5, "res", "read", <<"p", "x">>, 8)}
Exports ==
    {E(6, "iam", "assumed", <<"p">>, 4), E(7, "iam", "approval", <<"p">>, 1),
     E(8, "iam", "approval", <<"q">>, 3), E(9, "res", "export", <<"p">>, 12)}
Mixed ==
    {E(1, "idp", "refresh", <<"p">>, 0), E(2, "gw", "gw", <<"p">>, 2), E(9, "res", "export", <<"p">>, 12)}
MCBundles == SUBSET Reads \cup SUBSET Exports \cup SUBSET Mixed

\* An escalation nobody saw, early or late in the run.
MCUnseenSteps ==
    {[rule |-> "r4", bind |-> [u |-> "p"], lo |-> 2, hi |-> 5],
     [rule |-> "r4", bind |-> [u |-> "p"], lo |-> 0, hi |-> 3]}
=============================================================================
