------------------------------- MODULE Reach -------------------------------
(***************************************************************************)
(* `reach` of spectra_vs/reach.py: the least fixpoint of a ground program  *)
(* under a cut by unit propagation.  One counter per instance holds the    *)
(* body facts still missing; expanding a fact touches the instances whose  *)
(* body names it, in instance-id order, and an instance whose counter      *)
(* reaches zero puts its head on the queue.                                *)
(***************************************************************************)
EXTENDS GroundProgram

CONSTANT Cuts    \* the cut masks `reach` is called with, as literal sets

ASSUME CutsAssumption == Cuts \subseteq SUBSET Literal

VARIABLES
    prog,       \* the ReachProgram
    cut,        \* cut_mask
    pc,         \* "seed" | "pop" | "touch" | "done"
    queue,      \* facts to expand, oldest first
    seen,       \* facts expanded
    order,      \* the same facts in the order they were expanded
    remaining,  \* unsatisfied body facts of each instance
    pending,    \* instances the running `for` loop has still to visit
    steps       \* edges touched plus facts expanded

question == <<prog, cut>>
work == <<pc, queue, seen, order, remaining, pending, steps>>
vars == <<prog, cut, pc, queue, seen, order, remaining, pending, steps>>

Init ==
    /\ prog \in Programs
    /\ cut \in Cuts
    /\ pc = "seed"
    /\ queue = prog.axioms
    /\ seen = {}
    /\ order = <<>>
    /\ remaining = [i \in prog.insts |-> BodySize(i)]
    /\ pending = prog.insts
    /\ steps = 0

\* An instance with an empty body is in no adjacency list: its head is
\* queued up front when the cut leaves it enabled.
SeedInstance ==
    /\ pc = "seed"
    /\ \E i \in pending :
          /\ IsLeast(i, pending)
          /\ pending' = pending \ {i}
          /\ queue' = IF remaining[i] = 0 /\ ~Blocked(i, cut)
                      THEN Append(queue, i.head) ELSE queue
    /\ UNCHANGED <<question, pc, seen, order, remaining, steps>>

SeedDone ==
    /\ pc = "seed"
    /\ pending = {}
    /\ pc' = "pop"
    /\ UNCHANGED <<question, queue, seen, order, remaining, pending, steps>>

\* A fact queued more than once is expanded the first time only.
PopSeen ==
    /\ pc = "pop"
    /\ queue # <<>>
    /\ Head(queue) \in seen
    /\ queue' = Tail(queue)
    /\ UNCHANGED <<question, pc, seen, order, remaining, pending, steps>>

\* Mutant of PopNew: a fact queued twice is expanded twice.
PopNewUnchecked ==
    /\ pc = "pop"
    /\ queue # <<>>
    /\ queue' = Tail(queue)
    /\ seen' = seen \cup {Head(queue)}
    /\ order' = Append(order, Head(queue))
    /\ pending' = Dependents(prog, Head(queue))
    /\ pc' = "touch"
    /\ UNCHANGED <<question, remaining, steps>>

PopNew ==
    /\ pc = "pop"
    /\ queue # <<>>
    /\ Head(queue) \notin seen
    /\ queue' = Tail(queue)
    /\ seen' = seen \cup {Head(queue)}
    /\ order' = Append(order, Head(queue))
    /\ pending' = Dependents(prog, Head(queue))
    /\ pc' = "touch"
    /\ UNCHANGED <<question, remaining, steps>>

TouchBlocked ==
    /\ pc = "touch"
    /\ \E i \in pending :
          /\ IsLeast(i, pending)
          /\ Blocked(i, cut)
          /\ pending' = pending \ {i}
    /\ UNCHANGED <<question, pc, queue, seen, order, remaining, steps>>

\* Mutant of Touch: the head is queued one body fact too early.
TouchEarly ==
    /\ pc = "touch"
    /\ \E i \in pending :
          /\ IsLeast(i, pending)
          /\ ~Blocked(i, cut)
          /\ pending' = pending \ {i}
          /\ remaining' = [remaining EXCEPT ![i] = @ - 1]
          /\ queue' = IF remaining[i] <= 2 THEN Append(queue, i.head) ELSE queue
    /\ steps' = steps + 1
    /\ UNCHANGED <<question, pc, seen, order>>

Touch ==
    /\ pc = "touch"
    /\ \E i \in pending :
          /\ IsLeast(i, pending)
          /\ ~Blocked(i, cut)
          /\ pending' = pending \ {i}
          /\ remaining' = [remaining EXCEPT ![i] = @ - 1]
          /\ queue' = IF remaining[i] = 1 THEN Append(queue, i.head) ELSE queue
    /\ steps' = steps + 1
    /\ UNCHANGED <<question, pc, seen, order>>

TouchDone ==
    /\ pc = "touch"
    /\ pending = {}
    /\ steps' = steps + 1
    /\ pc' = "pop"
    /\ UNCHANGED <<question, queue, seen, order, remaining, pending>>

Finish ==
    /\ pc = "pop"
    /\ queue = <<>>
    /\ pc' = "done"
    /\ UNCHANGED <<question, queue, seen, order, remaining, pending, steps>>

Next ==
    \/ SeedInstance \/ SeedDone
    \/ PopSeen \/ PopNew
    \/ TouchBlocked \/ Touch \/ TouchDone
    \/ Finish

Spec == Init /\ [][Next]_vars

\* ReachResult.derivable: any member of the goal library was reached.
DerivableResult == prog.goals \cap seen # {}

-----------------------------------------------------------------------------
(* witness_tree and witness_mask, over the finished closure. *)

Position(f) == CHOOSE k \in 1..Len(order) : order[k] = f

\* The elements of s before its k-th.
Before(s, k) == {s[j] : j \in 1..(k - 1)}

Earlier(k) == Before(order, k)

\* The enabled instances that derive f from facts expanded strictly before it.
Candidates(f) ==
    {i \in Supports(prog, f) : Enabled(i, cut, Earlier(Position(f)))}

\* The goal the tree is rooted at: the first derived member of the library.
WitnessGoal ==
    CHOOSE g \in prog.goals \cap seen : \A h \in prog.goals \cap seen : g <= h

\* The instances of the tree below each position. A fact with no candidate
\* is an AXIOM leaf and contributes none.
WitnessInstances ==
    LET Below[k \in 1..Len(order)] ==
            IF Candidates(order[k]) = {} THEN {}
            ELSE LET i == CHOOSE i \in Candidates(order[k]) : IsLeast(i, Candidates(order[k]))
                 IN {i} \cup UNION {Below[Position(b)] : b \in BodySet(i)}
    IN Below[Position(WitnessGoal)]

\* Mutant of WitnessMask: only the last step of the derivation is collected.
WitnessMaskLastStep ==
    UNION UNION {i.blockers : i \in {j \in WitnessInstances : j.head = WitnessGoal}}

WitnessMask == UNION UNION {i.blockers : i \in WitnessInstances}

-----------------------------------------------------------------------------
(* Properties. *)

\* Type correctness of the worklist state.
TypeOK ==
    /\ prog \in Programs
    /\ cut \in Cuts
    /\ pc \in {"seed", "pop", "touch", "done"}
    /\ queue \in Seq(Fact)
    /\ seen \in SUBSET Fact
    /\ order \in Seq(Fact)
    /\ remaining \in [prog.insts -> Nat]
    /\ pending \in SUBSET prog.insts
    /\ steps \in Nat

\* The body facts of i whose arrival i's counter already reflects: all the
\* expanded ones, but for the one being expanded while i awaits its visit.
Arrived(i) ==
    IF pc = "touch" /\ i \in pending THEN BodySet(i) \cap Earlier(Len(order))
                                      ELSE BodySet(i) \cap seen

\* The counter of an enabled instance is always exactly the number of
\* distinct body facts it still waits for: no edge is ever decremented
\* twice or missed, whatever the order of the queue.
CountersExact ==
    \A i \in prog.insts :
        remaining[i] = IF Blocked(i, cut) THEN BodySize(i)
                       ELSE Cardinality(BodySet(i) \ Arrived(i))

\* Nothing is derived, or queued to be, that the program and the cut do not
\* entail: every such fact is in every closed set.
ReachSound == seen \cup Elems(queue) \subseteq LeastModel(prog, cut)

\* When the loop ends the closure is exactly the least model, so a goal not
\* reached is a goal no derivation reaches (under-derivation would be a
\* false claim that the cut severs).
ReachExact == pc = "done" => seen = LeastModel(prog, cut)

\* Every expanded fact is an axiom or the head of an enabled instance whose
\* body was expanded strictly before it. witness_tree labels a fact without
\* such an instance AXIOM, so this is what makes that label true.
LeavesAreAxioms ==
    \A k \in 1..Len(order) : Follows(prog, cut, Earlier(k), order[k])

\* Raising more literals never derives more: the closure of any larger cut
\* lies inside the closure just computed.
AntitoneInCut ==
    pc = "done" => \A c \in Cuts : cut \subseteq c => LeastModel(prog, c) \subseteq seen

\* The strengthening the proofs of module ReachProofs are by induction on.
OrderInv ==
    /\ seen = Elems(order)
    /\ \A j, k \in 1..Len(order) : order[j] = order[k] => j = k

PhaseInv ==
    /\ pc = "seed" => order = <<>>
    /\ pc \in {"pop", "done"} => pending = {}
    /\ pc = "done" => queue = <<>>
    /\ pc = "touch" =>
          order # <<>> /\ pending \subseteq Dependents(prog, order[Len(order)])

QueueInv ==
    /\ Elems(prog.axioms) \subseteq seen \cup Elems(queue)
    /\ \A i \in prog.insts :
          /\ ~Blocked(i, cut)
          /\ remaining[i] = 0
          /\ ~(pc = "seed" /\ i \in pending)
          => i.head \in seen \cup Elems(queue)
    /\ \A f \in Elems(queue) : Follows(prog, cut, seen, f)

\* Nothing is lost and nothing is invented between two iterations: each
\* fact that follows is expanded or queued, and each queued fact follows.
IndInv ==
    /\ TypeOK
    /\ OrderInv
    /\ PhaseInv
    /\ CountersExact
    /\ QueueInv
    /\ LeavesAreAxioms
    /\ ReachSound

\* The worklist implements the abstract derivation: every expansion follows
\* from the facts expanded before it, and the answer is a closed set.
D == INSTANCE Derivation WITH derived <- seen, answered <- (pc = "done")
RefinesDerivation == D!Spec
=============================================================================
