---------------------------- MODULE ReachProofs ----------------------------
(***************************************************************************)
(* Proofs about the worklist of module Reach, for every program, cut and   *)
(* set of facts.  IndInv is inductive; exactness of the closure and the    *)
(* refinement of Derivation follow from it.                                *)
(***************************************************************************)
EXTENDS Reach, Induction

-----------------------------------------------------------------------------
(* Sequences as the code uses them: append at the end, take from the front. *)

\* Appending adds one element.
LEMMA ElemsAppend ==
    ASSUME NEW T, NEW s \in Seq(T), NEW x \in T
    PROVE  Elems(Append(s, x)) = Elems(s) \cup {x}
  BY DEF Elems

\* The elements of a non-empty sequence are its head and those of its tail.
LEMMA ElemsTail ==
    ASSUME NEW T, NEW s \in Seq(T), s # <<>>
    PROVE  Elems(s) = {Head(s)} \cup Elems(Tail(s))
  <1>1. Len(s) \in Nat /\ Len(s) > 0 /\ Head(s) = s[1]
    OBVIOUS
  <1>2. Len(Tail(s)) = Len(s) - 1 /\ \A k \in 1..Len(Tail(s)) : Tail(s)[k] = s[k + 1]
    OBVIOUS
  <1>3. ASSUME NEW k \in 1..Len(s) PROVE s[k] \in {Head(s)} \cup Elems(Tail(s))
    <2>1. CASE k = 1
      BY <1>1, <2>1
    <2>2. CASE k # 1
      <3>1. k - 1 \in 1..Len(Tail(s)) /\ Tail(s)[k - 1] = s[k]
        BY <1>1, <1>2, <2>2
      <3>2. QED BY <3>1 DEF Elems
    <2>3. QED BY <2>1, <2>2
  <1>4. ASSUME NEW k \in 1..Len(Tail(s)) PROVE Tail(s)[k] \in Elems(s)
    <2>1. k + 1 \in 1..Len(s) /\ Tail(s)[k] = s[k + 1]
      BY <1>1, <1>2
    <2>2. QED BY <2>1 DEF Elems
  <1>5. Head(s) \in Elems(s)
    BY <1>1 DEF Elems
  <1>6. QED BY <1>3, <1>4, <1>5 DEF Elems

\* Elements are of the sequence's type, and there are finitely many.
LEMMA ElemsFinite ==
    ASSUME NEW T, NEW s \in Seq(T)
    PROVE  /\ Elems(s) \subseteq T
           /\ IsFiniteSet(Elems(s))
  <1>1. Elems(s) \subseteq T
    BY DEF Elems
  <1>2. s \in Surjection(1..Len(s), Elems(s))
    BY DEF Surjection, Elems
  <1>3. IsFiniteSet(1..Len(s))
    BY FS_Interval
  <1>4. QED BY <1>1, <1>2, <1>3, FS_Surjection

\* Appending leaves the proper prefixes as they were and completes one more.
LEMMA BeforeAppend ==
    ASSUME NEW T, NEW s \in Seq(T), NEW x \in T
    PROVE  /\ \A k \in 1..Len(s) : Before(Append(s, x), k) = Before(s, k)
           /\ Before(Append(s, x), Len(s) + 1) = Elems(s)
  BY DEF Before, Elems

\* The prefix before the last element of a sequence without repetitions is
\* everything but that element.
LEMMA BeforeLast ==
    ASSUME NEW T, NEW s \in Seq(T), s # <<>>,
           \A j, k \in 1..Len(s) : s[j] = s[k] => j = k
    PROVE  /\ s[Len(s)] \in Elems(s)
           /\ Before(s, Len(s)) = Elems(s) \ {s[Len(s)]}
  <1>1. Len(s) \in Nat \ {0}
    OBVIOUS
  <1>2. QED BY <1>1 DEF Before, Elems

-----------------------------------------------------------------------------
(* The program. *)

\* A body is a finite set of facts, and its size is a number.
LEMMA BodyFacts ==
    ASSUME NEW p \in Programs, NEW i \in p.insts
    PROVE  /\ i.head \in Fact
           /\ BodySet(i) \subseteq Fact
           /\ IsFiniteSet(BodySet(i))
           /\ BodySize(i) \in Nat
  <1>1. i \in Instance
    BY ProgramsAssumption DEF ProgramRecord
  <1>2. i.body \in Seq(Fact) /\ i.head \in Fact
    BY <1>1 DEF Instance
  <1>3. BodySet(i) \subseteq Fact /\ IsFiniteSet(BodySet(i))
    BY <1>2, ElemsFinite DEF BodySet
  <1>4. QED BY <1>2, <1>3, FS_CardinalityType DEF BodySize

\* What follows from a set follows from every larger one.
LEMMA FollowsMonotone ==
    ASSUME NEW p, NEW c, NEW S, NEW U, S \subseteq U, NEW f, Follows(p, c, S, f)
    PROVE  Follows(p, c, U, f)
  BY DEF Follows, Enabled

\* A closed set that contains S contains what follows from S.
LEMMA ClosedFollows ==
    ASSUME NEW p, NEW c, NEW S, NEW U, S \subseteq U, Closed(p, c, U),
           NEW f, Follows(p, c, S, f)
    PROVE  f \in U
  BY DEF Follows, Closed, Enabled

\* What follows from entailed facts is entailed.
LEMMA LeastModelFollows ==
    ASSUME NEW p, NEW c, NEW S, S \subseteq LeastModel(p, c),
           NEW f \in Fact, Follows(p, c, S, f)
    PROVE  f \in LeastModel(p, c)
  <1>1. ASSUME NEW U \in SUBSET Fact, Closed(p, c, U) PROVE f \in U
    <2>1. S \subseteq U
      BY <1>1 DEF LeastModel
    <2>2. QED BY <1>1, <2>1, ClosedFollows
  <1>2. QED BY <1>1 DEF LeastModel

\* Raising more literals can only block more instances, so it never derives
\* more: the least model is antitone in the cut.
THEOREM LeastModelAntitone ==
    ASSUME NEW p, NEW c, NEW d, c \subseteq d
    PROVE  LeastModel(p, d) \subseteq LeastModel(p, c)
  <1>1. ASSUME NEW i, Blocked(i, c) PROVE Blocked(i, d)
    BY <1>1 DEF Blocked
  <1>2. ASSUME NEW S, Closed(p, c, S) PROVE Closed(p, d, S)
    BY <1>1, <1>2 DEF Closed, Enabled
  <1>3. QED BY <1>2 DEF LeastModel

\* The least model is itself closed.
LEMMA LeastModelClosed ==
    ASSUME NEW p \in Programs, NEW c
    PROVE  LeastModel(p, c) \in SUBSET Fact /\ Closed(p, c, LeastModel(p, c))
  <1>1. LeastModel(p, c) \in SUBSET Fact
    BY DEF LeastModel
  <1>2. Elems(p.axioms) \subseteq Fact
    BY ProgramsAssumption, ElemsFinite DEF ProgramRecord
  <1>3. Elems(p.axioms) \subseteq LeastModel(p, c)
    BY <1>2 DEF LeastModel, Closed
  <1>4. ASSUME NEW i \in p.insts, Enabled(i, c, LeastModel(p, c))
        PROVE  i.head \in LeastModel(p, c)
    <2>1. Follows(p, c, LeastModel(p, c), i.head) /\ i.head \in Fact
      BY <1>4, BodyFacts DEF Follows
    <2>2. QED BY <2>1, LeastModelFollows
  <1>5. QED BY <1>1, <1>3, <1>4 DEF Closed

\* The two readings of derivability agree: no closed set avoids the goals
\* exactly when the least model holds one.
LEMMA DerivableIsReached ==
    ASSUME NEW p \in Programs, NEW c
    PROVE  Derivable(p, c) <=> p.goals \cap LeastModel(p, c) # {}
  <1>1. ASSUME Derivable(p, c), p.goals \cap LeastModel(p, c) = {}
        PROVE  FALSE
    <2>1. LeastModel(p, c) \in SUBSET (Fact \ p.goals)
      BY <1>1, LeastModelClosed
    <2>2. QED BY <1>1, <2>1, LeastModelClosed DEF Derivable
  <1>2. ASSUME NEW g \in p.goals, g \in LeastModel(p, c),
               NEW S \in SUBSET (Fact \ p.goals), Closed(p, c, S)
        PROVE  FALSE
    BY <1>2 DEF LeastModel
  <1>3. QED BY <1>1, <1>2 DEF Derivable

-----------------------------------------------------------------------------
(* The inductive invariant. *)

\* The start of a search satisfies the invariant.
LEMMA InitInd == Init => IndInv
  <1> SUFFICES ASSUME Init PROVE IndInv
    OBVIOUS
  <1> USE DEF Init
  <1>1. prog \in ProgramRecord
    BY ProgramsAssumption
  <1>2. prog.axioms \in Seq(Fact)
    BY <1>1 DEF ProgramRecord
  <1>3. TypeOK
    BY <1>2, BodyFacts DEF TypeOK
  <1>4. OrderInv
    BY DEF OrderInv, Elems
  <1>5. PhaseInv
    BY DEF PhaseInv
  <1>6. CountersExact
    <2> SUFFICES ASSUME NEW i \in prog.insts
                 PROVE  Cardinality(BodySet(i) \ Arrived(i)) = BodySize(i)
      BY DEF CountersExact
    <2>1. BodySet(i) \ Arrived(i) = BodySet(i)
      BY DEF Arrived
    <2>2. QED BY <2>1 DEF BodySize
  <1>7. QueueInv
    BY DEF QueueInv, Follows
  <1>8. LeavesAreAxioms
    BY DEF LeavesAreAxioms
  <1>9. ReachSound
    <2>1. Elems(prog.axioms) \subseteq Fact
      BY <1>2, ElemsFinite
    <2>2. QED BY <2>1 DEF ReachSound, LeastModel, Closed
  <1>10. QED BY <1>3, <1>4, <1>5, <1>6, <1>7, <1>8, <1>9 DEF IndInv

\* Visiting an instance in the seeding loop queues its head exactly when it
\* has no body and the cut leaves it enabled.
LEMMA SeedInstanceInd == IndInv /\ SeedInstance => IndInv'
  <1> SUFFICES ASSUME IndInv, SeedInstance PROVE IndInv'
    OBVIOUS
  <1> USE DEF IndInv, question
  <1>1. PICK i \in pending :
          /\ pending' = pending \ {i}
          /\ queue' = IF remaining[i] = 0 /\ ~Blocked(i, cut)
                      THEN Append(queue, i.head) ELSE queue
    BY DEF SeedInstance
  <1>2. UNCHANGED <<prog, cut, pc, seen, order, remaining, steps>> /\ pc = "seed"
    BY DEF SeedInstance
  <1>3. i \in prog.insts /\ i.head \in Fact /\ IsFiniteSet(BodySet(i))
    BY BodyFacts DEF TypeOK
  <1>4. order = <<>> /\ seen = {}
    BY <1>2 DEF PhaseInv, OrderInv, Elems
  <1>5. queue' \in Seq(Fact) /\ Elems(queue) \subseteq Elems(queue')
    BY <1>1, <1>3, ElemsAppend DEF TypeOK
  <1>6. ASSUME remaining[i] = 0, ~Blocked(i, cut)
        PROVE  Elems(queue') = Elems(queue) \cup {i.head} /\ BodySet(i) = {}
    <2>1. Elems(queue') = Elems(queue) \cup {i.head}
      BY <1>1, <1>3, <1>6, ElemsAppend DEF TypeOK
    <2>2. Cardinality(BodySet(i) \ Arrived(i)) = 0 /\ Arrived(i) = {}
      BY <1>2, <1>3, <1>4, <1>6 DEF CountersExact, Arrived
    <2>3. BodySet(i) \ Arrived(i) = BodySet(i)
      BY <2>2
    <2>4. QED BY <1>3, <2>1, <2>2, <2>3, FS_EmptySet
  <1>7. ASSUME NEW f \in Elems(queue') PROVE Follows(prog, cut, seen, f)
    <2>1. CASE remaining[i] = 0 /\ ~Blocked(i, cut)
      <3>1. CASE f = i.head
        BY <1>3, <1>6, <2>1, <3>1 DEF Follows, Enabled
      <3>2. CASE f \in Elems(queue)
        BY <3>2 DEF QueueInv
      <3>3. QED BY <1>6, <1>7, <2>1, <3>1, <3>2
    <2>2. CASE ~(remaining[i] = 0 /\ ~Blocked(i, cut))
      BY <1>1, <1>7, <2>2 DEF QueueInv
    <2>3. QED BY <2>1, <2>2
  <1>8. TypeOK'
    BY <1>1, <1>2, <1>5 DEF TypeOK
  <1>9. OrderInv' /\ PhaseInv'
    BY <1>2, <1>1 DEF OrderInv, PhaseInv
  <1>10. CountersExact'
    BY <1>2 DEF CountersExact, Arrived
  <1>11. QueueInv'
    <2>1. ASSUME NEW j \in prog.insts, ~Blocked(j, cut), remaining[j] = 0, j \notin pending'
          PROVE  j.head \in seen \cup Elems(queue')
      <3>1. CASE j = i
        BY <1>6, <2>1, <3>1
      <3>2. CASE j # i
        BY <1>1, <1>5, <2>1, <3>2 DEF QueueInv
      <3>3. QED BY <3>1, <3>2
    <2>2. QED BY <1>2, <1>5, <1>7, <2>1 DEF QueueInv
  <1>12. LeavesAreAxioms'
    BY <1>2 DEF LeavesAreAxioms, Earlier
  <1>13. ReachSound'
    <2>1. Elems(queue') \subseteq Fact
      BY <1>5, ElemsFinite
    <2>2. QED BY <1>2, <1>7, <2>1, LeastModelFollows DEF ReachSound
  <1>14. QED BY <1>8, <1>9, <1>10, <1>11, <1>12, <1>13 DEF IndInv

\* The ends of the two loops and of the search only move the phase.
LEMMA PhaseEndsInd == IndInv /\ (SeedDone \/ TouchDone \/ Finish) => IndInv'
  <1> SUFFICES ASSUME IndInv, SeedDone \/ TouchDone \/ Finish PROVE IndInv'
    OBVIOUS
  <1> USE DEF IndInv, question
  <1>1. /\ UNCHANGED <<prog, cut, queue, seen, order, remaining, pending>>
        /\ pending = {}
        /\ pc' \in {"pop", "done"}
        /\ pc' = "done" => queue = <<>>
        /\ steps' \in Nat
    BY DEF SeedDone, TouchDone, Finish, PhaseInv, TypeOK
  <1>2. TypeOK' /\ OrderInv' /\ PhaseInv'
    BY <1>1 DEF TypeOK, OrderInv, PhaseInv
  <1>3. CountersExact'
    BY <1>1 DEF CountersExact, Arrived
  <1>4. QueueInv'
    BY <1>1 DEF QueueInv
  <1>5. LeavesAreAxioms' /\ ReachSound'
    BY <1>1 DEF LeavesAreAxioms, Earlier, ReachSound
  <1>6. QED BY <1>2, <1>3, <1>4, <1>5 DEF IndInv

\* Dropping a fact that was expanded before loses nothing.
LEMMA PopSeenInd == IndInv /\ PopSeen => IndInv'
  <1> SUFFICES ASSUME IndInv, PopSeen PROVE IndInv'
    OBVIOUS
  <1> USE DEF IndInv, question
  <1>1. /\ UNCHANGED <<prog, cut, pc, seen, order, remaining, pending, steps>>
        /\ pc = "pop" /\ queue # <<>> /\ Head(queue) \in seen /\ queue' = Tail(queue)
    BY DEF PopSeen
  <1>2. queue' \in Seq(Fact) /\ Elems(queue) = {Head(queue)} \cup Elems(queue')
    BY <1>1, ElemsTail DEF TypeOK
  <1>3. seen \cup Elems(queue') = seen \cup Elems(queue)
    BY <1>1, <1>2
  <1>4. TypeOK' /\ OrderInv' /\ PhaseInv'
    BY <1>1, <1>2 DEF TypeOK, OrderInv, PhaseInv
  <1>5. CountersExact'
    BY <1>1 DEF CountersExact, Arrived
  <1>6. QueueInv'
    BY <1>1, <1>2, <1>3 DEF QueueInv
  <1>7. LeavesAreAxioms' /\ ReachSound'
    BY <1>1, <1>3 DEF LeavesAreAxioms, Earlier, ReachSound
  <1>8. QED BY <1>4, <1>5, <1>6, <1>7 DEF IndInv

\* A fact expanded for the first time follows from the ones before it, and
\* the counters of its dependents are still to be told.
LEMMA PopNewInd == IndInv /\ PopNew => IndInv'
  <1> SUFFICES ASSUME IndInv, PopNew PROVE IndInv'
    OBVIOUS
  <1> USE DEF IndInv, question
  <1> DEFINE f == Head(queue)
  <1>1. /\ UNCHANGED <<prog, cut, remaining, steps>>
        /\ pc = "pop" /\ queue # <<>> /\ f \notin seen
        /\ queue' = Tail(queue)
        /\ seen' = seen \cup {f}
        /\ order' = Append(order, f)
        /\ pending' = Dependents(prog, f)
        /\ pc' = "touch"
    BY DEF PopNew
  <1>2. /\ queue' \in Seq(Fact) /\ f \in Fact
        /\ Elems(queue) = {f} \cup Elems(queue')
    BY <1>1, ElemsTail DEF TypeOK
  <1>3. Follows(prog, cut, seen, f) /\ f \in LeastModel(prog, cut)
    BY <1>2 DEF QueueInv, ReachSound
  <1>4. /\ order' \in Seq(Fact)
        /\ Len(order') = Len(order) + 1
        /\ Len(order) \in Nat
        /\ \A k \in 1..Len(order) : order'[k] = order[k]
        /\ order'[Len(order')] = f
        /\ order' # <<>>
    BY <1>1, <1>2 DEF TypeOK
  <1>5. /\ Elems(order') = seen'
        /\ \A k \in 1..Len(order) : Before(order', k) = Before(order, k)
        /\ Before(order', Len(order')) = seen
    BY <1>1, <1>2, <1>4, ElemsAppend, BeforeAppend DEF TypeOK, OrderInv
  <1>6. TypeOK'
    BY <1>1, <1>2, <1>4 DEF TypeOK, Dependents
  <1>7. OrderInv'
    <2>1. ASSUME NEW j \in 1..Len(order'), NEW k \in 1..Len(order'),
                 order'[j] = order'[k]
          PROVE  j = k
      <3>1. \A m \in 1..Len(order) : order[m] # f
        BY <1>1 DEF OrderInv, Elems
      <3>2. QED BY <1>4, <2>1, <3>1 DEF OrderInv
    <2>2. QED BY <1>5, <2>1 DEF OrderInv
  <1>8. PhaseInv'
    BY <1>1, <1>4 DEF PhaseInv
  <1>9. CountersExact'
    <2> SUFFICES ASSUME NEW i \in prog.insts
                 PROVE  BodySet(i) \ Arrived(i)' = BodySet(i) \ Arrived(i)
      BY <1>1 DEF CountersExact
    <2>1. Arrived(i) = BodySet(i) \cap seen
      BY <1>1 DEF Arrived
    <2>2. CASE f \in BodySet(i)
      <3>1. i \in pending'
        BY <1>1, <2>2 DEF Dependents
      <3>2. Arrived(i)' = BodySet(i) \cap seen
        BY <1>1, <1>5, <3>1 DEF Arrived, Earlier
      <3>3. QED BY <2>1, <3>2
    <2>3. CASE f \notin BodySet(i)
      <3>1. i \notin pending'
        BY <1>1, <2>3 DEF Dependents
      <3>2. Arrived(i)' = BodySet(i) \cap seen'
        BY <3>1 DEF Arrived
      <3>3. QED BY <1>1, <2>1, <2>3, <3>2
    <2>4. QED BY <2>2, <2>3
  <1>10. QueueInv'
    <2>1. seen' \cup Elems(queue') = seen \cup Elems(queue)
      BY <1>1, <1>2
    <2>2. ASSUME NEW g \in Elems(queue') PROVE Follows(prog, cut, seen', g)
      BY <1>1, <1>2, <2>2, FollowsMonotone DEF QueueInv
    <2>3. PhaseInv /\ pc # "seed" /\ pc' # "seed"
      BY <1>1
    <2>4. QED BY <1>1, <2>1, <2>2, <2>3 DEF QueueInv
  <1>11. LeavesAreAxioms'
    <2> SUFFICES ASSUME NEW k \in 1..Len(order')
                 PROVE  Follows(prog, cut, Before(order', k), order'[k])
      BY <1>1 DEF LeavesAreAxioms, Earlier
    <2>1. CASE k \in 1..Len(order)
      BY <1>4, <1>5, <2>1 DEF LeavesAreAxioms, Earlier
    <2>2. CASE k = Len(order')
      BY <1>3, <1>4, <1>5, <2>2
    <2>3. QED BY <1>4, <2>1, <2>2
  <1>12. ReachSound'
    BY <1>1, <1>2, <1>3 DEF ReachSound
  <1>13. QED BY <1>6, <1>7, <1>8, <1>9, <1>10, <1>11, <1>12 DEF IndInv

\* Skipping a blocked instance leaves its counter at the full body.
LEMMA TouchBlockedInd == IndInv /\ TouchBlocked => IndInv'
  <1> SUFFICES ASSUME IndInv, TouchBlocked PROVE IndInv'
    OBVIOUS
  <1> USE DEF IndInv, question
  <1>1. PICK i \in pending : Blocked(i, cut) /\ pending' = pending \ {i}
    BY DEF TouchBlocked
  <1>2. UNCHANGED <<prog, cut, pc, queue, seen, order, remaining, steps>> /\ pc = "touch"
    BY DEF TouchBlocked
  <1>3. TypeOK' /\ OrderInv' /\ PhaseInv'
    BY <1>1, <1>2 DEF TypeOK, OrderInv, PhaseInv
  <1>4. CountersExact'
    <2> SUFFICES ASSUME NEW j \in prog.insts, ~Blocked(j, cut)
                 PROVE  Arrived(j)' = Arrived(j)
      BY <1>2 DEF CountersExact
    <2>1. j # i
      BY <1>1
    <2>2. QED BY <1>1, <1>2, <2>1 DEF Arrived, Earlier
  <1>5. QueueInv' /\ LeavesAreAxioms' /\ ReachSound'
    BY <1>2 DEF QueueInv, LeavesAreAxioms, Earlier, ReachSound
  <1>6. QED BY <1>3, <1>4, <1>5 DEF IndInv

\* Touching an enabled instance takes the expanded fact off its counter, once,
\* and queues the head when the last body fact has arrived.
LEMMA TouchInd == IndInv /\ Touch => IndInv'
  <1> SUFFICES ASSUME IndInv, Touch PROVE IndInv'
    OBVIOUS
  <1> USE DEF IndInv, question
  <1>1. PICK i \in pending :
          /\ ~Blocked(i, cut)
          /\ pending' = pending \ {i}
          /\ remaining' = [remaining EXCEPT ![i] = @ - 1]
          /\ queue' = IF remaining[i] = 1 THEN Append(queue, i.head) ELSE queue
    BY DEF Touch
  <1>2. UNCHANGED <<prog, cut, pc, seen, order>> /\ pc = "touch" /\ steps' = steps + 1
    BY DEF Touch
  <1>3. i \in prog.insts /\ i.head \in Fact /\ IsFiniteSet(BodySet(i))
    BY BodyFacts DEF TypeOK
  <1> DEFINE f == order[Len(order)]
             B == BodySet(i) \ Arrived(i)
  <1>4. order # <<>> /\ f \in BodySet(i)
    BY <1>1, <1>2 DEF PhaseInv, Dependents
  <1>5. f \in seen /\ Before(order, Len(order)) = seen \ {f}
    BY <1>4, BeforeLast DEF OrderInv, TypeOK
  <1>6. f \in B /\ BodySet(i) \ (BodySet(i) \cap seen) = B \ {f}
    BY <1>2, <1>4, <1>5 DEF Arrived, Earlier
  <1>7. IsFiniteSet(B)
    BY <1>3, FS_Subset
  <1>8. remaining[i] = Cardinality(B) /\ Cardinality(B \ {f}) = Cardinality(B) - 1
    BY <1>1, <1>3, <1>6, <1>7, FS_RemoveElement DEF CountersExact
  <1>9. Cardinality(B) \in Nat /\ Cardinality(B) # 0
    BY <1>6, <1>7, FS_CardinalityType, FS_EmptySet
  <1>10. /\ remaining' \in [prog.insts -> Nat]
         /\ remaining'[i] = Cardinality(BodySet(i) \ (BodySet(i) \cap seen))
         /\ \A j \in prog.insts \ {i} : remaining'[j] = remaining[j]
    <2>1. remaining[i] - 1 \in Nat
      BY <1>8, <1>9
    <2>2. remaining[i] - 1 = Cardinality(BodySet(i) \ (BodySet(i) \cap seen))
      BY <1>6, <1>8
    <2>3. remaining \in [prog.insts -> Nat]
      BY DEF TypeOK
    <2>4. QED BY <1>1, <1>3, <2>1, <2>2, <2>3
  <1>11. queue' \in Seq(Fact) /\ Elems(queue) \subseteq Elems(queue')
    BY <1>1, <1>3, ElemsAppend DEF TypeOK
  <1>12. ASSUME remaining[i] = 1
         PROVE  Elems(queue') = Elems(queue) \cup {i.head} /\ BodySet(i) \subseteq seen
    <2>1. Elems(queue') = Elems(queue) \cup {i.head}
      BY <1>1, <1>3, <1>12, ElemsAppend DEF TypeOK
    <2>2. IsFiniteSet(B \ {f})
      BY <1>7, FS_RemoveElement
    <2>3. Cardinality(B \ {f}) = 0
      BY <1>8, <1>12
    <2>4. B \ {f} = {}
      BY <2>2, <2>3, FS_EmptySet
    <2>5. QED BY <1>6, <2>1, <2>4
  <1>13. ASSUME NEW g \in Elems(queue') PROVE Follows(prog, cut, seen, g)
    <2>1. CASE remaining[i] = 1
      <3>1. CASE g = i.head
        BY <1>1, <1>3, <1>12, <2>1, <3>1 DEF Follows, Enabled
      <3>2. CASE g \in Elems(queue)
        BY <3>2 DEF QueueInv
      <3>3. QED BY <1>12, <1>13, <2>1, <3>1, <3>2
    <2>2. CASE remaining[i] # 1
      BY <1>1, <1>13, <2>2 DEF QueueInv
    <2>3. QED BY <2>1, <2>2
  <1>14. TypeOK'
    BY <1>1, <1>2, <1>10, <1>11 DEF TypeOK
  <1>15. OrderInv' /\ PhaseInv'
    BY <1>1, <1>2 DEF OrderInv, PhaseInv
  <1>16. CountersExact'
    <2>1. ASSUME NEW j \in prog.insts
          PROVE  remaining'[j] = IF Blocked(j, cut) THEN BodySize(j)
                                 ELSE Cardinality(BodySet(j) \ Arrived(j)')
      <3>1. CASE j = i
        <4>1. Arrived(i)' = BodySet(i) \cap seen
          BY <1>1, <1>2 DEF Arrived
        <4>2. QED BY <1>1, <1>10, <3>1, <4>1
      <3>2. CASE j # i
        <4>1. Arrived(j)' = Arrived(j)
          BY <1>1, <1>2, <3>2 DEF Arrived, Earlier
        <4>2. QED BY <1>10, <3>2, <4>1 DEF CountersExact
      <3>3. QED BY <3>1, <3>2
    <2>2. QED BY <1>2, <2>1 DEF CountersExact
  <1>17. QueueInv'
    <2>1. ASSUME NEW j \in prog.insts, ~Blocked(j, cut), remaining'[j] = 0
          PROVE  j.head \in seen \cup Elems(queue')
      <3>1. CASE j = i
        <4>1. remaining[i] = 1
          BY <1>1, <1>3, <1>8, <1>9, <2>1, <3>1 DEF TypeOK
        <4>2. QED BY <1>12, <3>1, <4>1
      <3>2. CASE j # i
        BY <1>2, <1>10, <1>11, <2>1, <3>2 DEF QueueInv
      <3>3. QED BY <3>1, <3>2
    <2>2. QED BY <1>2, <1>11, <1>13, <2>1 DEF QueueInv
  <1>18. LeavesAreAxioms'
    BY <1>2 DEF LeavesAreAxioms, Earlier
  <1>19. ReachSound'
    <2>1. Elems(queue') \subseteq Fact
      BY <1>11, ElemsFinite
    <2>2. seen \subseteq LeastModel(prog, cut)
      BY DEF ReachSound
    <2>3. QED BY <1>2, <1>13, <2>1, <2>2, LeastModelFollows DEF ReachSound
  <1>20. QED BY <1>14, <1>15, <1>16, <1>17, <1>18, <1>19 DEF IndInv

\* Every step keeps the invariant: one lemma per action.
LEMMA StepInd == IndInv /\ [Next]_vars => IndInv'
  <1>1. IndInv /\ UNCHANGED vars => IndInv'
    <2> SUFFICES ASSUME IndInv, UNCHANGED vars PROVE IndInv'
      OBVIOUS
    <2>1. TypeOK' /\ OrderInv' /\ PhaseInv' /\ QueueInv'
      BY DEF IndInv, vars, TypeOK, OrderInv, PhaseInv, QueueInv
    <2>2. CountersExact' /\ LeavesAreAxioms' /\ ReachSound'
      BY DEF IndInv, vars, CountersExact, Arrived, LeavesAreAxioms, Earlier, ReachSound
    <2>3. QED BY <2>1, <2>2 DEF IndInv
  <1>2. QED BY <1>1, SeedInstanceInd, PhaseEndsInd, PopSeenInd, PopNewInd, TouchBlockedInd,
       TouchInd DEF Next

\* IndInv holds in every reachable state.
THEOREM InductiveInvariant == Spec => []IndInv
  BY InitInd, StepInd, PTL DEF Spec

\* The worklist state is well typed; in particular no counter goes below zero.
THEOREM TypeCorrect == Spec => []TypeOK
  <1>1. IndInv => TypeOK
    BY DEF IndInv
  <1>2. QED BY <1>1, InductiveInvariant, PTL

\* Counters are exact: no edge is decremented twice or missed.
THEOREM CountersAreExact == Spec => []CountersExact
  <1>1. IndInv => CountersExact
    BY DEF IndInv
  <1>2. QED BY <1>1, InductiveInvariant, PTL

\* An AXIOM leaf of a witness tree is an axiom, and the support of every
\* other fact was expanded strictly before it.
THEOREM LeavesAxioms == Spec => []LeavesAreAxioms
  <1>1. IndInv => LeavesAreAxioms
    BY DEF IndInv
  <1>2. QED BY <1>1, InductiveInvariant, PTL

\* When nothing is queued and no instance awaits a visit, the expanded facts
\* are closed: this is where exact counters are needed.
LEMMA ExhaustedIsClosed ==
    ASSUME IndInv, pc \in {"pop", "done"}, queue = <<>>
    PROVE  Closed(prog, cut, seen)
  <1> USE DEF IndInv
  <1>1. Elems(queue) = {}
    BY DEF Elems
  <1>2. ASSUME NEW i \in prog.insts, Enabled(i, cut, seen)
        PROVE  i.head \in seen
    <2>1. Arrived(i) = BodySet(i) \cap seen
      BY DEF Arrived
    <2>2. BodySet(i) \ Arrived(i) = {}
      BY <1>2, <2>1 DEF Enabled
    <2>3. remaining[i] = 0
      BY <1>2, <2>2, FS_EmptySet DEF CountersExact, Enabled
    <2>4. QED BY <1>1, <1>2, <2>3 DEF QueueInv, Enabled
  <1>3. QED BY <1>1, <1>2 DEF Closed, QueueInv

\* What the invariant says of a finished run.
LEMMA AnswerIs ==
    ASSUME IndInv, pc = "done"
    PROVE  /\ seen = LeastModel(prog, cut)
           /\ DerivableResult <=> Derivable(prog, cut)
  <1>1. queue = <<>> /\ seen \in SUBSET Fact /\ prog \in Programs
    BY DEF IndInv, PhaseInv, TypeOK
  <1>2. Closed(prog, cut, seen)
    BY <1>1, ExhaustedIsClosed
  <1>3. seen \subseteq LeastModel(prog, cut)
    BY DEF IndInv, ReachSound
  <1>4. seen = LeastModel(prog, cut)
    BY <1>1, <1>2, <1>3 DEF LeastModel
  <1>5. QED BY <1>1, <1>4, DerivableIsReached DEF DerivableResult

\* The closure returned by `reach' is the least model of the program under
\* the cut: a goal it does not contain has no derivation at all.
THEOREM ReachIsExact == Spec => []ReachExact
  <1>1. IndInv => ReachExact
    BY AnswerIs DEF ReachExact
  <1>2. QED BY <1>1, InductiveInvariant, PTL

\* The closure under any larger cut lies inside the closure computed, so a
\* cut that severs still severs when more is raised.
THEOREM AntitoneClosure == Spec => []AntitoneInCut
  <1>1. ReachExact => AntitoneInCut
    BY LeastModelAntitone DEF ReachExact, AntitoneInCut
  <1>2. QED BY <1>1, ReachIsExact, PTL

\* The worklist implements the abstract derivation of module Derivation.
THEOREM ReachRefines == Spec => RefinesDerivation
  <1>1. Init => D!Init
    BY DEF Init, D!Init
  <1>2. IndInv /\ [Next]_vars => [D!Next]_D!dvars
    <2> SUFFICES ASSUME IndInv, [Next]_vars PROVE [D!Next]_D!dvars
      OBVIOUS
    <2> USE DEF D!dvars, question
    <2>1. CASE PopNew
      <3>1. Elems(queue) = {Head(queue)} \cup Elems(Tail(queue))
        BY <2>1, ElemsTail DEF PopNew, IndInv, TypeOK
      <3>2. Head(queue) \in Fact \ seen
        BY <2>1 DEF PopNew, IndInv, TypeOK
      <3>3. Follows(prog, cut, seen, Head(queue))
        BY <3>1 DEF IndInv, QueueInv
      <3>4. D!Follows(prog, cut, seen, Head(queue))
        BY <3>3 DEF Follows, D!Follows, Enabled, D!Enabled, Blocked, D!Blocked,
                    BodySet, D!BodySet, Elems, D!Elems
      <3>5. D!Derive
        BY <2>1, <3>2, <3>4 DEF PopNew, D!Derive
      <3>6. QED BY <3>5 DEF D!Next
    <2>2. CASE Finish
      <3>1. Closed(prog, cut, seen)
        BY <2>2, ExhaustedIsClosed DEF Finish
      <3>2. D!Closed(prog, cut, seen)
        BY <3>1 DEF Closed, D!Closed, Enabled, D!Enabled, Blocked, D!Blocked,
                    BodySet, D!BodySet, Elems, D!Elems
      <3>3. D!Answer
        BY <2>2, <3>2 DEF Finish, D!Answer
      <3>4. QED BY <3>3 DEF D!Next
    <2>3. CASE SeedInstance \/ SeedDone \/ PopSeen \/ TouchBlocked \/ Touch \/ TouchDone
      BY <2>3 DEF SeedInstance, SeedDone, PopSeen, TouchBlocked, Touch, TouchDone
    <2>4. CASE UNCHANGED vars
      BY <2>4 DEF vars
    <2>5. QED BY <2>1, <2>2, <2>3, <2>4 DEF Next
  <1>3. QED BY <1>1, <1>2, InductiveInvariant, PTL DEF Spec, RefinesDerivation, D!Spec

-----------------------------------------------------------------------------
(* The witness. *)

\* Each expanded fact has exactly one position.
LEMMA PositionIs ==
    ASSUME IndInv
    PROVE  /\ \A f \in seen : Position(f) \in 1..Len(order) /\ order[Position(f)] = f
           /\ \A k \in 1..Len(order) : order[k] \in seen /\ Position(order[k]) = k
           /\ \A k \in 1..Len(order) : \A f \in Earlier(k) : f \in seen /\ Position(f) \in 1..(k - 1)
  <1>1. order \in Seq(Fact) /\ seen = Elems(order) /\ Len(order) \in Nat
        /\ \A j, k \in 1..Len(order) : order[j] = order[k] => j = k
    BY DEF IndInv, TypeOK, OrderInv
  <1>2. ASSUME NEW f \in seen PROVE Position(f) \in 1..Len(order) /\ order[Position(f)] = f
    <2>1. \E k \in 1..Len(order) : order[k] = f
      BY <1>1 DEF Elems
    <2>2. QED BY <2>1 DEF Position
  <1>3. ASSUME NEW k \in 1..Len(order) PROVE order[k] \in seen /\ Position(order[k]) = k
    <2>1. order[k] \in seen
      BY <1>1 DEF Elems
    <2>2. QED BY <1>1, <1>2, <2>1
  <1>4. ASSUME NEW k \in 1..Len(order), NEW f \in Earlier(k)
        PROVE  f \in seen /\ Position(f) \in 1..(k - 1)
    <2>1. PICK j \in 1..(k - 1) : f = order[j]
      BY DEF Earlier, Before
    <2>2. j \in 1..Len(order)
      BY <1>1
    <2>3. QED BY <1>3, <2>1, <2>2
  <1>5. QED BY <1>2, <1>3, <1>4

\* The candidate taken for the fact at position k: the least, as ids are
\* natural numbers.
Chosen(k) == CHOOSE i \in Candidates(order[k]) : IsLeast(i, Candidates(order[k]))

\* The instance witness_tree picks for a fact is a candidate for it.
LEMMA ChosenIs ==
    ASSUME IndInv, NEW k \in 1..Len(order), Candidates(order[k]) # {}
    PROVE  /\ Chosen(k) \in Candidates(order[k])
           /\ Chosen(k) \in prog.insts /\ Chosen(k).head = order[k]
           /\ ~Blocked(Chosen(k), cut) /\ BodySet(Chosen(k)) \subseteq Earlier(k)
  <1> DEFINE C == Candidates(order[k])
             Ids == {i.id : i \in C}
  <1>1. C \subseteq prog.insts
    BY DEF Candidates, Supports
  <1>2. prog \in ProgramRecord
    BY ProgramsAssumption DEF IndInv, TypeOK
  <1>3. \A i \in C : i.id \in Nat
    BY <1>1, <1>2 DEF ProgramRecord, Instance
  <1> HIDE DEF C
  <1>4. Ids \in SUBSET Nat /\ Ids # {}
    BY <1>3 DEF C
  <1>5. PICK n \in Ids : \A m \in Ids : n <= m
    BY <1>4, LeastNat
  <1>6. PICK i \in C : i.id = n
    OBVIOUS
  <1>7. IsLeast(i, C)
    BY <1>5, <1>6 DEF IsLeast
  <1>8. Chosen(k) \in C
    BY <1>7 DEF Chosen, C
  <1>9. Position(order[k]) = k
    BY PositionIs
  <1>10. QED BY <1>8, <1>9 DEF C, Candidates, Supports, Enabled

\* A set of instances is a derivation of f from the axioms under the cut:
\* its members are enabled, each from facts expanded strictly before its head,
\* and f and every body fact is a leaf or the head of a member.
Leaf(b) == b \in Elems(prog.axioms) /\ Candidates(b) = {}

Derives(D0, f) ==
    /\ \A i \in D0 :
          /\ i \in prog.insts /\ i.head \in seen
          /\ ~Blocked(i, cut)
          /\ BodySet(i) \subseteq Earlier(Position(i.head))
    /\ \A i \in D0 : \A b \in BodySet(i) :
          Leaf(b) \/ \E j \in D0 : j.head = b
    /\ Leaf(f) \/ \E j \in D0 : j.head = f

\* witness_tree returns a derivation of the goal it is rooted at.
LEMMA WitnessDerives ==
    ASSUME IndInv, DerivableResult
    PROVE  /\ WitnessGoal \in prog.goals \cap seen
           /\ Derives(WitnessInstances, WitnessGoal)
  <1> DEFINE N == Len(order)
             Step(g, k) == IF Candidates(order[k]) = {} THEN {}
                           ELSE {Chosen(k)} \cup UNION {g[Position(b)] : b \in BodySet(Chosen(k))}
             Upto(n) == \E g : g = [k \in 1..n |-> Step(g, k)]
             Below == CHOOSE g : g = [k \in 1..N |-> Step(g, k)]
  <1>0. N \in Nat
    BY DEF IndInv, TypeOK
  <1>1. WitnessInstances = Below[Position(WitnessGoal)]
    BY DEF WitnessInstances, Chosen
  <1>2. WitnessGoal \in prog.goals \cap seen
    <2> DEFINE T == prog.goals \cap seen
    <2>1. T \in SUBSET Nat /\ T # {}
      BY ProgramsAssumption DEF DerivableResult, IndInv, TypeOK
    <2>2. \E g \in T : \A h \in T : g <= h
      BY <2>1, LeastNat
    <2>3. QED BY <2>2 DEF WitnessGoal
  <1>3. ASSUME NEW k \in 1..N, Candidates(order[k]) # {}, NEW b \in BodySet(Chosen(k))
        PROVE  b \in seen /\ Position(b) \in 1..(k - 1) /\ order[Position(b)] = b
    BY <1>3, ChosenIs, PositionIs
  <1>4. Upto(N)
    <2> DEFINE S == {n \in 0..N : Upto(n)}
    <2>1. 0 \in S
      <3> DEFINE h == [k \in 1..0 |-> {}]
      <3>1. h = [k \in 1..0 |-> Step(h, k)]
        OBVIOUS
      <3> HIDE DEF h, Step
      <3>2. Upto(0)
        BY <3>1
      <3>3. 0 \in 0..N
        BY <1>0
      <3> HIDE DEF Upto
      <3>4. QED BY <3>2, <3>3
    <2>2. ASSUME NEW n \in 1..N, n - 1 \in S PROVE n \in S
      <3>1. PICK g : g = [k \in 1..(n - 1) |-> Step(g, k)]
        BY <2>2
      <3> DEFINE h == [k \in 1..n |-> IF k = n THEN Step(g, n) ELSE g[k]]
      <3>2. ASSUME NEW k \in 1..n PROVE h[k] = Step(h, k)
        <4>1. h[k] = Step(g, k)
          <5>1. CASE k = n
            BY <5>1
          <5>2. CASE k # n
            <6>1. k \in 1..(n - 1) /\ h[k] = g[k]
              BY <1>0, <5>2
            <6> HIDE DEF Step, h
            <6>2. g[k] = Step(g, k)
              BY <3>1, <6>1
            <6>3. QED BY <6>1, <6>2
          <5>3. QED BY <5>1, <5>2
        <4>2. ASSUME Candidates(order[k]) # {}, NEW b \in BodySet(Chosen(k))
              PROVE  h[Position(b)] = g[Position(b)]
          <5>1. k \in 1..N
            BY <1>0
          <5>2. Position(b) \in 1..(k - 1)
            BY <1>3, <4>2, <5>1
          <5>3. Position(b) \in 1..n /\ Position(b) # n
            BY <1>0, <5>2
          <5>4. QED BY <5>3
        <4> HIDE DEF h
        <4>3. QED BY <4>1, <4>2
      <3>3. h = [k \in 1..n |-> Step(h, k)]
        BY <3>2
      <3> HIDE DEF h, Step
      <3>4. QED BY <1>0, <3>3
    <2> HIDE DEF S
    <2>3. 0..N \subseteq S
      BY <1>0, <2>1, <2>2, BoundedInduction
    <2>4. N \in S
      BY <1>0, <2>3
    <2>5. QED BY <2>4 DEF S
  <1>5. Below = [k \in 1..N |-> Step(Below, k)]
    BY <1>4
  <1> HIDE DEF Below
  <1>6. ASSUME NEW k \in 1..N, \A j \in 1..(k - 1) : Derives(Below[j], order[j])
        PROVE  Derives(Below[k], order[k])
    <2>1. Below[k] = Step(Below, k)
      BY <1>5
    <2>2. CASE Candidates(order[k]) = {}
      <3>1. Below[k] = {}
        BY <2>1, <2>2
      <3>2. order[k] \in Elems(prog.axioms)
        <4>1. Follows(prog, cut, Earlier(k), order[k])
          BY DEF IndInv, LeavesAreAxioms
        <4>2. Position(order[k]) = k
          BY PositionIs
        <4>3. QED BY <2>2, <4>1, <4>2 DEF Follows, Candidates, Supports
      <3>3. QED BY <2>2, <3>1, <3>2 DEF Derives, Leaf
    <2>3. CASE Candidates(order[k]) # {}
      <3> DEFINE i == Chosen(k)
                 Under == UNION {Below[Position(b)] : b \in BodySet(i)}
      <3>1. Below[k] = {i} \cup Under
        BY <2>1, <2>3
      <3>2. /\ i \in prog.insts /\ i.head = order[k]
            /\ ~Blocked(i, cut) /\ BodySet(i) \subseteq Earlier(k)
        BY <2>3, ChosenIs
      <3>3. order[k] \in seen /\ Position(order[k]) = k
        BY PositionIs
      <3>4. \A b \in BodySet(i) : Derives(Below[Position(b)], b)
        BY <1>3, <1>6, <2>3
      <3> HIDE DEF i
      <3>5. \A j \in Under : \E b \in BodySet(i) : j \in Below[Position(b)]
        OBVIOUS
      <3>6. \A b \in BodySet(i) : Below[Position(b)] \subseteq Under
        OBVIOUS
      <3> HIDE DEF Under
      <3>7. ASSUME NEW j \in {i} \cup Under
            PROVE  /\ j \in prog.insts /\ j.head \in seen /\ ~Blocked(j, cut)
                   /\ BodySet(j) \subseteq Earlier(Position(j.head))
        <4>1. CASE j = i
          BY <3>2, <3>3, <4>1
        <4>2. CASE j \in Under
          BY <3>4, <3>5, <4>2 DEF Derives
        <4>3. QED BY <4>1, <4>2
      <3>8. ASSUME NEW j \in {i} \cup Under, NEW b \in BodySet(j)
            PROVE  Leaf(b) \/ \E m \in {i} \cup Under : m.head = b
        <4>1. CASE j = i
          BY <3>4, <3>6, <3>8, <4>1 DEF Derives
        <4>2. CASE j \in Under
          <5>1. PICK d \in BodySet(i) : j \in Below[Position(d)]
            BY <3>5, <4>2
          <5>2. Leaf(b) \/ \E m \in Below[Position(d)] : m.head = b
            BY <3>4, <5>1 DEF Derives
          <5>3. QED BY <3>6, <5>2
        <4>3. QED BY <4>1, <4>2
      <3>9. QED BY <3>1, <3>2, <3>7, <3>8 DEF Derives
    <2>4. QED BY <2>2, <2>3
  <1>7. \A k \in 1..N : Derives(Below[k], order[k])
    <2> DEFINE S == {n \in 0..N : \A k \in 1..n : Derives(Below[k], order[k])}
    <2>1. 0 \in S
      BY <1>0
    <2>2. ASSUME NEW n \in 1..N, n - 1 \in S PROVE n \in S
      <3>1. \A k \in 1..(n - 1) : Derives(Below[k], order[k])
        BY <2>2
      <3>2. Derives(Below[n], order[n])
        BY <1>6, <3>1
      <3>3. \A k \in 1..n : k = n \/ k \in 1..(n - 1)
        BY <1>0
      <3>4. \A k \in 1..n : Derives(Below[k], order[k])
        BY <3>1, <3>2, <3>3
      <3>5. QED BY <1>0, <3>4
    <2> HIDE DEF S
    <2>3. 0..N \subseteq S
      BY <1>0, <2>1, <2>2, BoundedInduction
    <2>4. N \in S
      BY <1>0, <2>3
    <2>5. QED BY <2>4 DEF S
  <1>8. Position(WitnessGoal) \in 1..N /\ order[Position(WitnessGoal)] = WitnessGoal
    BY <1>2, PositionIs
  <1> HIDE DEF N
  <1>9. Derives(Below[Position(WitnessGoal)], order[Position(WitnessGoal)])
    BY <1>7, <1>8
  <1>10. QED BY <1>1, <1>2, <1>8, <1>9

\* A derivation can be replayed: a set with its leaves that is closed under
\* its members contains everything it uses.
LEMMA DerivationReplays ==
    ASSUME IndInv, NEW D0, NEW f, Derives(D0, f), NEW S,
           \A b \in Elems(prog.axioms) : Leaf(b) => b \in S,
           \A i \in D0 : BodySet(i) \subseteq S => i.head \in S
    PROVE  f \in S /\ \A i \in D0 : BodySet(i) \subseteq S /\ i.head \in S
  <1> DEFINE T == {Position(i.head) : i \in {j \in D0 : j.head \notin S}}
  <1>1. \A i \in D0 : i.head \in seen /\ Position(i.head) \in Nat
    BY PositionIs DEF Derives
  <1>2. ASSUME NEW i \in D0, i.head \notin S PROVE FALSE
    <2>1. T \in SUBSET Nat /\ T # {}
      BY <1>1, <1>2
    <2>2. PICK n \in T : \A m \in T : n <= m
      BY <2>1, LeastNat
    <2>3. PICK j \in D0 : j.head \notin S /\ n = Position(j.head)
      OBVIOUS
    <2>4. PICK b \in BodySet(j) : b \notin S
      BY <2>3
    <2>5. PICK m \in D0 : m.head = b
      BY <2>4 DEF Derives, Leaf
    <2>6. Position(b) \in T
      BY <2>4, <2>5
    <2>7. b \in Earlier(Position(j.head)) /\ Position(j.head) \in 1..Len(order)
      BY PositionIs DEF Derives
    <2>8. Position(b) \in 1..(n - 1) /\ n \in Nat
      BY <2>1, <2>3, <2>7, PositionIs
    <2>9. QED BY <2>2, <2>6, <2>8
  <1>3. ASSUME NEW i \in D0, NEW b \in BodySet(i) PROVE b \in S
    BY <1>2 DEF Derives, Leaf
  <1>4. QED BY <1>2, <1>3 DEF Derives, Leaf

\* Its instances can be listed with every support before what it supports.
LEMMA DerivationIsAcyclic ==
    ASSUME IndInv, NEW D0, NEW f, Derives(D0, f), NEW S \in SUBSET D0, S # {}
    PROVE  \E i \in S : \A j \in S : j.head \notin BodySet(i)
  <1> DEFINE T == {Position(i.head) : i \in S}
  <1>1. \A i \in S : i.head \in seen /\ Position(i.head) \in Nat
                     /\ Position(i.head) \in 1..Len(order)
    BY PositionIs DEF Derives
  <1>2. T \in SUBSET Nat /\ T # {}
    BY <1>1
  <1>3. PICK n \in T : \A m \in T : n <= m
    BY <1>2, LeastNat
  <1>4. PICK i \in S : n = Position(i.head)
    OBVIOUS
  <1>5. ASSUME NEW j \in S, j.head \in BodySet(i) PROVE FALSE
    <2>1. j.head \in Earlier(n)
      BY <1>4, <1>5 DEF Derives
    <2>2. Position(j.head) \in 1..(n - 1)
      BY <1>1, <1>4, <2>1, PositionIs
    <2>3. n <= Position(j.head) /\ n \in Nat
      BY <1>1, <1>3, <1>4
    <2>4. QED BY <2>2, <2>3
  <1>6. QED BY <1>5

\* The corridor of a witness is disjoint from the cut the witness survives,
\* and whatever cut is disjoint from the corridor leaves a goal derivable.
LEMMA WitnessIs ==
    ASSUME IndInv, DerivableResult
    PROVE  /\ WitnessInstances \subseteq prog.insts
           /\ WitnessMask \in SUBSET Literal
           /\ cut \cap WitnessMask = {}
           /\ \A c : c \cap WitnessMask = {} => Derivable(prog, c)
  <1>1. WitnessGoal \in prog.goals \cap seen /\ Derives(WitnessInstances, WitnessGoal)
    BY WitnessDerives
  <1>2. prog \in ProgramRecord /\ BuildAccepts(prog)
    BY ProgramsAssumption DEF IndInv, TypeOK
  <1> DEFINE W == WitnessInstances
  <1>3. W \subseteq prog.insts
    BY <1>1 DEF Derives
  <1>4. \A i \in W : i.blockers \in SUBSET (SUBSET Literal)
    BY <1>2, <1>3 DEF ProgramRecord, Instance
  <1>5. \A a : a \in WitnessMask <=> \E i \in W : \E term \in i.blockers : a \in term
    BY DEF WitnessMask
  <1> HIDE DEF W
  <1>6. ASSUME NEW i \in W, NEW term \in i.blockers PROVE \E a \in WitnessMask : term = {a}
    <2>1. IsFiniteSet(term) /\ Cardinality(term) = 1
      BY <1>2, <1>3 DEF BuildAccepts
    <2>2. PICK a : term = {a}
      BY <2>1, FS_Singleton
    <2>3. QED BY <1>5, <2>2
  <1>7. WitnessMask \in SUBSET Literal
    BY <1>4, <1>5
  <1>8. ASSUME NEW a \in cut \cap WitnessMask PROVE FALSE
    <2>1. PICK i \in W : \E term \in i.blockers : a \in term
      BY <1>5
    <2>2. PICK term \in i.blockers : a \in term
      BY <2>1
    <2>3. term = {a}
      BY <1>6, <2>2
    <2>4. Blocked(i, cut)
      BY <2>2, <2>3 DEF Blocked
    <2>5. QED BY <1>1, <2>4 DEF Derives, W
  <1>9. ASSUME NEW c, c \cap WitnessMask = {} PROVE Derivable(prog, c)
    <2>1. ASSUME NEW i \in W PROVE ~Blocked(i, c)
      BY <1>6, <1>9 DEF Blocked
    <2>2. ASSUME NEW S \in SUBSET (Fact \ prog.goals), Closed(prog, c, S) PROVE FALSE
      <3>1. Elems(prog.axioms) \subseteq S
        BY <2>2 DEF Closed
      <3>2. \A i \in W : BodySet(i) \subseteq S => i.head \in S
        BY <1>3, <2>1, <2>2 DEF Closed, Enabled
      <3>3. WitnessGoal \in S
        BY <1>1, <3>1, <3>2, DerivationReplays DEF W
      <3>4. QED BY <1>1, <3>3
    <2>3. QED BY <2>2 DEF Derivable
  <1>10. QED BY <1>3, <1>7, <1>8, <1>9 DEF W

\* f is an axiom that no instance derives unconditionally.
BareAxiom(f) ==
    /\ f \in Elems(prog.axioms)
    /\ ~\E i \in prog.insts : i.head = f /\ BodySet(i) = {} /\ i.blockers = {}

\* Read without the blockers, the witness still is a derivation: its instances
\* can be put in an order, and they follow one another from bare axioms.
LEMMA WitnessIsTree ==
    ASSUME IndInv, DerivableResult
    PROVE  /\ WitnessInstances \subseteq prog.insts
           /\ \A S \in SUBSET WitnessInstances :
                 S # {} => \E i \in S : \A j \in S : j.head \notin BodySet(i)
           /\ \A S : (/\ \A f \in UNION {BodySet(i) : i \in prog.insts} : BareAxiom(f) => f \in S
                     /\ \A i \in WitnessInstances : BodySet(i) \subseteq S => i.head \in S)
                    => \A i \in WitnessInstances : BodySet(i) \subseteq S
           /\ (\A g \in prog.goals : ~BareAxiom(g)) => WitnessInstances # {}
  <1> DEFINE W == WitnessInstances
  <1>1. WitnessGoal \in prog.goals \cap seen /\ Derives(W, WitnessGoal)
    BY WitnessDerives
  <1>2. ASSUME NEW f, Leaf(f) PROVE BareAxiom(f)
    BY <1>2 DEF Leaf, BareAxiom, Candidates, Supports, Enabled, Blocked
  <1> HIDE DEF W
  <1>3. W \subseteq prog.insts
    BY <1>1 DEF Derives
  <1>4. \A S \in SUBSET W : S # {} => \E i \in S : \A j \in S : j.head \notin BodySet(i)
    BY <1>1, DerivationIsAcyclic
  <1>5. ASSUME NEW S, \A f \in UNION {BodySet(i) : i \in prog.insts} : BareAxiom(f) => f \in S,
               \A i \in W : BodySet(i) \subseteq S => i.head \in S
        PROVE  \A i \in W : BodySet(i) \subseteq S
    <2> DEFINE T == S \cup {f \in Elems(prog.axioms) : Leaf(f)}
    <2>1. \A i \in W : \A b \in BodySet(i) : Leaf(b) => b \in S
      BY <1>2, <1>3, <1>5
    <2>2. \A i \in W : BodySet(i) \subseteq T => BodySet(i) \subseteq S
      BY <2>1
    <2>3. \A i \in W : BodySet(i) \subseteq T => i.head \in T
      BY <1>5, <2>2
    <2>4. \A b \in Elems(prog.axioms) : Leaf(b) => b \in T
      OBVIOUS
    <2> HIDE DEF T
    <2>5. \A i \in W : BodySet(i) \subseteq T
      BY <1>1, <2>3, <2>4, DerivationReplays
    <2>6. QED BY <2>2, <2>5
  <1>6. ASSUME \A g \in prog.goals : ~BareAxiom(g) PROVE W # {}
    BY <1>1, <1>2, <1>6 DEF Derives
  <1>7. QED BY <1>3, <1>4, <1>5, <1>6 DEF W
=============================================================================
