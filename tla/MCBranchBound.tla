--------------------------- MODULE MCBranchBound ---------------------------
(* Every database of at most three clauses over four controls. *)
EXTENDS BranchBound

MCMaxLevel == <<1, 2, 1, 1>>

\* Clauses of up to two literals: larger ones are easier to hit.
MCClauses == {k \in SUBSET Literal : Cardinality(k) \in 1..2}
MCDatabases == {{}} \cup {{a, b, c} : a, b, c \in MCClauses}
=============================================================================
