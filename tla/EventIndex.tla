----------------------------- MODULE EventIndex -----------------------------
(***************************************************************************)
(* The queries of spectra_vs/store.py over the rows of proj_event, a row   *)
(* being [id, src, seq, t].                                                *)
(***************************************************************************)
EXTENDS Integers, Sequences, FiniteSets, FiniteSetsExt

Of(rows, s) == {r \in rows : r.src = s}

\* The rows in the order of a query, `before' being its ORDER BY.
OrderedBy(rows, before(_, _)) ==
    [k \in 1..Cardinality(rows) |-> CHOOSE r \in rows : Cardinality({q \in rows : before(q, r)}) = k - 1]

BySeq(a, b) == a.seq < b.seq \/ (a.seq = b.seq /\ a.id < b.id)
ByTime(a, b) == a.t < b.t \/ (a.t = b.t /\ BySeq(a, b))

\* SOURCE_STATS_SQL: the sources with a record, and the extremes of recorded time.
SourceStats(rows) ==
    [s \in {r.src : r \in rows} |->
        [records |-> Cardinality(Of(rows, s)),
         first |-> Min({r.t : r \in Of(rows, s)}), last |-> Max({r.t : r \in Of(rows, s)})]]

\* GAPS_SQL: neighbours in the order of their numbers; a delta may be negative.
Gaps(rows, s) ==
    LET q == OrderedBy(Of(rows, s), BySeq) IN
    [k \in 1..(Len(q) - 1) |-> [prev |-> q[k].seq, next |-> q[k + 1].seq, delta |-> q[k + 1].t - q[k].t]]

\* WINDOW_SQL, for t0 < t1.
Window(rows, s, t0, t1) == OrderedBy({r \in Of(rows, s) : t0 <= r.t /\ r.t < t1}, ByTime)
=============================================================================
