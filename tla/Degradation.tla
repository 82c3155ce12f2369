---------------------------- MODULE Degradation ----------------------------
(***************************************************************************)
(* The operators of spectra_vs/degrade.py on a raw stream: a set of        *)
(* records [src, seq, t, type, attrs], where attrs is the set of           *)
(* attribute keys carried. Digests, manifests and file names are left out. *)
(***************************************************************************)
EXTENDS Integers, Sequences, FiniteSets, FiniteSetsExt

CONSTANTS
    OutageBlock     \* OUTAGE_BLOCK_SPAN_NS

ASSUME OutageBlockAssumption == OutageBlock \in Nat \ {0}

\* A finite set as a sequence ascending in a strict total order.
Ascending(S, before(_, _)) ==
    <<>> \o [k \in 1..Cardinality(S) |-> CHOOSE x \in S : Cardinality({y \in S : before(y, x)}) = k - 1]

Of(raw, s) == {r \in raw : r.src = s}

\* Completeness.keep: the floor, so the target is never exceeded.
Keep(c, n) == (n * c[1]) \div c[2]

Block(r) == r.t \div OutageBlock

\* What `degrade' may delete of one source. The order is by a digest of the
\* seed, so any order of whole outage blocks and any order inside a block: at
\* most one block is left in part.
Deletes(gone, records, c) ==
    /\ Cardinality(gone) = Cardinality(records) - Keep(c, Cardinality(records))
    /\ Cardinality({Block(r) : r \in gone} \cap {Block(r) : r \in records \ gone}) <= 1

BlackedOut(raw, sources, lo, hi) == {r \in raw : r.src \in sources /\ lo <= r.t /\ r.t < hi}

\* backdate: one record moves and keeps its number.
Backdated(raw, r, shift) == (raw \ {r}) \cup {[r EXCEPT !.t = @ + shift]}
BackdateAccepts(r, shift) == shift # 0 /\ r.t + shift >= 0

\* strip_identity: every record of the source loses the named keys.
Stripped(raw, s, keys) ==
    {IF r.src = s THEN [r EXCEPT !.attrs = @ \ keys] ELSE r : r \in raw}
StripAccepts(raw, s, keys) == \E r \in Of(raw, s) : r.attrs \cap keys # {}

\* chain_forge: the records after `host' make room for `count' made-up ones,
\* spread over the gap to its successor.
ForgeAccepts(raw, host, count) ==
    \E next \in Of(raw, host.src) :
        /\ next.seq > host.seq
        /\ \A r \in Of(raw, host.src) : r.seq > host.seq => next.seq <= r.seq
        /\ next.t - host.t >= count + 1
Forged(raw, host, count) ==
    LET later == {r \in Of(raw, host.src) : r.seq > host.seq}
        next == CHOOSE r \in later : \A q \in later : r.seq <= q.seq
        step == (next.t - host.t) \div (count + 1)
    IN (raw \ later)
       \cup {[r EXCEPT !.seq = @ + count] : r \in later}
       \cup {[src |-> host.src, seq |-> host.seq + k, t |-> host.t + step * k,
              type |-> host.type, attrs |-> {}] : k \in 1..count}
=============================================================================
