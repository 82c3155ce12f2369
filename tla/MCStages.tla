------------------------------ MODULE MCStages ------------------------------
(***************************************************************************)
(* Two slots, two cells that share a directory, two calibration seeds.     *)
(***************************************************************************)
EXTENDS Stages, TLC

One == [dir |-> "d", deg |-> "x"]
Other == [dir |-> "d", deg |-> "y"]
Apart == [dir |-> "e", deg |-> "x"]
Third == [dir |-> "f", deg |-> "x"]

RunOf(cal, cell) == [kind |-> "run", cal |-> cal, cells |-> <<cell>>]
DemoOf(cal, cells) == [kind |-> "demo", cal |-> cal, cells |-> cells]
CheckOf(cell) == [kind |-> "check", cal |-> "j", cells |-> <<cell>>]

Asked(first, second, wrong) == [jobs |-> ("p" :> first) @@ ("q" :> second), faults |-> wrong]

\* Two runs at once in one directory, either of which may die; a demo, which
\* calibrates once for cells in directories of their own, beside a run that
\* calibrates anew; runs one after the other over what the last one left,
\* beside checks, while the rules or the lock are edited.
MCSessions ==
    {Asked(<<RunOf("j", One)>>, <<RunOf("k", Other)>>, {"crash"}),
     Asked(<<DemoOf("j", <<Apart, One>>)>>, <<RunOf("k", Third)>>, {}),
     Asked(<<DemoOf("j", <<Apart, One>>), RunOf("k", Other)>>, <<CheckOf(One)>>, {"crash", "text"}),
     Asked(<<RunOf("j", One), RunOf("j", One)>>, <<CheckOf(One), CheckOf(One)>>, {"lock"}),
     Asked(<<RunOf("j", One)>>, <<CheckOf(One)>>, {"crash", "text", "lock"})}

MCTextEdits == {[rules |-> 1, text |-> 2]}
MCLockEdits == {[rows |-> 1, dead |-> 0], [rows |-> 2, dead |-> 0]}
=============================================================================
