------------------------------ MODULE Temporal ------------------------------
(***************************************************************************)
(* The temporal-consistency pass, spectra_vs/temporal.py: which records'   *)
(* timestamps contradict their source's numbering, or the order a rule's   *)
(* evidence needs. Event ids are digests, so where the code breaks a tie   *)
(* by id every choice is possible.                                         *)
(***************************************************************************)
EXTENDS Intake

\* The records of one source in the order of their numbers.
BySeq(records) == Ascending(records, LAMBDA a, b : a.seq < b.seq)

\* All records, in some fixed order.
Sequenced(records) ==
    Ascending(records, LAMBDA a, b : a.src < b.src \/ (a.src = b.src /\ a.seq < b.seq))

\* Mutant of Position: a tie ends a run.
PositionStrict(values, tails, k) == Cardinality({j \in DOMAIN tails : values[tails[j]] < values[k]})

\* bisect_right over the tails, which ascend.
Position(values, tails, k) == Cardinality({j \in DOMAIN tails : values[tails[j]] <= values[k]})

\* The patience pass: the tails, and for each index the one before it in its run.
Patience(values) ==
    FoldLeft(LAMBDA acc, k :
                LET pos == Position(values, acc.tails, k) IN
                [tails |-> IF pos = Len(acc.tails) THEN Append(acc.tails, k)
                           ELSE [acc.tails EXCEPT ![pos + 1] = k],
                 parent |-> Append(acc.parent, IF pos > 0 THEN acc.tails[pos] ELSE 0)],
             [tails |-> <<>>, parent |-> <<>>], [k \in DOMAIN values |-> k])

\* longest_non_decreasing: the indices of the run the last tail ends.
LongestNonDecreasing(values) ==
    LET p == Patience(values)
        run[k \in 0..Len(values)] == IF k = 0 THEN {} ELSE {k} \cup run[p.parent[k]]
    IN IF values = <<>> THEN {} ELSE run[Last(p.tails)]

\* monotonic_corrections
Corrections(records) ==
    UNION {LET es == BySeq({r \in records : r.src = s})
               keep == LongestNonDecreasing([k \in DOMAIN es |-> es[k].t])
           IN {es[k] : k \in DOMAIN es \ keep} : s \in {r.src : r \in records}}

-----------------------------------------------------------------------------
\* build_constraints: t[v] - t[u] <= w over the indices of `es', 0 for the
\* origin. `instances' are the bound pairs of a rule's `seq', [left, right, within].
Constraints(es, instances) ==
    LET at(r) == CHOOSE k \in DOMAIN es : es[k] = r
        next(a, b) == /\ es[a].src = es[b].src /\ es[a].seq < es[b].seq
                      /\ ~\E c \in DOMAIN es : /\ es[c].src = es[a].src
                                               /\ es[a].seq < es[c].seq /\ es[c].seq < es[b].seq
    IN (UNION {{[kind |-> "pin", u |-> 0, v |-> k, w |-> es[k].t],
                [kind |-> "pin", u |-> k, v |-> 0, w |-> -es[k].t]} : k \in DOMAIN es})
       \cup {[kind |-> "seq", u |-> p[2], v |-> p[1], w |-> 0] :
               p \in {q \in (DOMAIN es) \X (DOMAIN es) : next(q[1], q[2])}}
       \cup UNION {{[kind |-> "rule", u |-> at(i.left), v |-> at(i.right), w |-> i.within],
                    [kind |-> "rule", u |-> at(i.right), v |-> at(i.left), w |-> -1]} : i \in instances}

\* find_violations: the structural constraints the recorded instants fail.
Violations(es, constraints) ==
    {c \in constraints : c.kind # "pin" /\ es[c.v].t - es[c.u].t > c.w}

Covers(chosen, pairs) == \A p \in pairs : p \cap chosen # {}

\* The greedy covers: an event in the most pairs left, again and again.
Greedy(pairs) ==
    LET events == UNION pairs
        step(sofar) ==
            LET left == {p \in pairs : p \cap sofar = {}}
                count(e) == Cardinality({p \in left : e \in p})
            IN IF left = {} THEN {sofar}
               ELSE {sofar \cup {e} : e \in {x \in events : \A y \in events : count(y) <= count(x)}}
        grown[k \in 0..Cardinality(events)] ==
            IF k = 0 THEN {{}} ELSE UNION {step(c) : c \in grown[k - 1]}
    IN grown[Cardinality(events)]

\* correction_set: the covers it may return for the pairs `already' leaves, and
\* whether they are greedy ones.
CorrectionSets(pairs, cap, already) ==
    LET left == {p \in pairs : p \cap already = {}}
        events == UNION left
        covers == {c \in SUBSET events : Covers(c, left)}
    IN IF Cardinality(events) <= cap
       THEN {[events |-> c, greedy |-> FALSE] :
               c \in {x \in covers : \A y \in covers : Cardinality(x) <= Cardinality(y)}}
       ELSE {[events |-> c, greedy |-> TRUE] : c \in Greedy(left)}

-----------------------------------------------------------------------------
\* One round of relaxation. The code relaxes edge by edge and so may be a step
\* ahead within a round; as many rounds as nodes bring both to the same verdict.
Round(dist, edges) ==
    <<>> \o [n \in DOMAIN dist |-> Min({dist[n]} \cup {dist[e.u + 1] + e.w : e \in {x \in edges : x.v + 1 = n}})]

\* feasible: Bellman-Ford from a virtual source, one round per node, over what
\* is left when the pins of `removed' are gone.
Feasible(es, constraints, removed) ==
    LET kept == {c \in constraints : ~(c.kind = "pin" /\ (c.u \in removed \/ c.v \in removed))}
        n == Len(es) + 1
        dist[k \in 0..n] == IF k = 0 THEN [m \in 1..n |-> 0] ELSE CHOOSE d \in {Round(prev, kept) : prev \in {dist[k - 1]}} : TRUE
        final == dist[n]
    IN \A c \in kept : final[c.u + 1] + c.w >= final[c.v + 1]

\* run_pass: the results it may return.
RunPass(records, instances, cap) ==
    LET es == Sequenced(records)
        cs == Constraints(es, instances)
        monotonic == {k \in DOMAIN es : es[k] \in Corrections(records)}
        pairs == {{c.u, c.v} : c \in {v \in Violations(es, cs) : v.kind = "rule"}}
    IN {LET chosen == monotonic \cup x.events IN
        [events |-> {es[k] : k \in chosen}, greedy |-> x.greedy,
         exhausted |-> chosen # {} /\ ~Feasible(es, cs, chosen)] :
          x \in CorrectionSets(pairs, cap, monotonic)}
=============================================================================
