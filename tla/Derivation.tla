----------------------------- MODULE Derivation -----------------------------
(***************************************************************************)
(* What a reachability engine promises: facts are derived one at a time,   *)
(* each from facts derived before it, and the answer is given only when    *)
(* nothing more follows.  The order is left open; the worklist of reach.py *)
(* (module Reach) is one implementation.                                   *)
(***************************************************************************)
EXTENDS GroundProgram

CONSTANT Cuts    \* the cuts the engine may be asked about

VARIABLES
    prog, cut,   \* the question
    derived,     \* the facts derived so far
    answered     \* the result has been returned

dvars == <<prog, cut, derived, answered>>

Init ==
    /\ prog \in Programs
    /\ cut \in Cuts
    /\ derived = {}
    /\ answered = FALSE

Derive ==
    /\ ~answered
    /\ \E f \in Fact \ derived :
          /\ Follows(prog, cut, derived, f)
          /\ derived' = derived \cup {f}
    /\ UNCHANGED <<prog, cut, answered>>

Answer ==
    /\ ~answered
    /\ Closed(prog, cut, derived)
    /\ answered' = TRUE
    /\ UNCHANGED <<prog, cut, derived>>

Next == Derive \/ Answer

Spec == Init /\ [][Next]_dvars
=============================================================================
