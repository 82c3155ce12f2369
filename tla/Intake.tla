------------------------------- MODULE Intake -------------------------------
(***************************************************************************)
(* Stage S4, spectra_vs/ingest.py: the checks on one raw line, the cross-  *)
(* record checks and the per-source seal. A line is [n, rec, defects]: the *)
(* record it spells and the set of checks it fails. A hash is the sequence *)
(* of records hashed, so two hashes are equal when their preimages are.    *)
(***************************************************************************)
EXTENDS Degradation, SequencesExt

CONSTANTS
    Class           \* source -> "NONE" | "SEQUENCED" | "CHAINED", for the declared ones

Sources == DOMAIN Class

ASSUME SourcesAssumption == Sources \subseteq Int
ASSUME ClassesAssumption == \A s \in Sources : Class[s] \in {"NONE", "SEQUENCED", "CHAINED"}

\* The checks of _ingest_one in the order they are made, with the reason each
\* gives. "label" ends the run instead.
Checks ==
    << [fails |-> "no_newline",       reason |-> "NONCANONICAL"],
       [fails |-> "empty",            reason |-> "UNPARSEABLE"],
       [fails |-> "too_long",         reason |-> "UNPARSEABLE"],
       [fails |-> "utf8",             reason |-> "UNPARSEABLE"],
       [fails |-> "float",            reason |-> "FLOAT_PRESENT"],
       [fails |-> "duplicate_key",    reason |-> "NONCANONICAL"],
       [fails |-> "not_json",         reason |-> "UNPARSEABLE"],
       [fails |-> "label",            reason |-> "LABEL"],
       [fails |-> "members",          reason |-> "UNPARSEABLE"],
       [fails |-> "undeclared",       reason |-> "UNKNOWN_SOURCE"],
       [fails |-> "event_type",       reason |-> "UNKNOWN_EVENT_TYPE"],
       [fails |-> "seq_width",        reason |-> "UNPARSEABLE"],
       [fails |-> "t_width",          reason |-> "ARITH_SATURATION"],
       [fails |-> "attrs",            reason |-> "UNPARSEABLE"],
       [fails |-> "reserialises",     reason |-> "NONCANONICAL"] >>

Clean(line) == line.defects = {}

\* The first check that fails decides.
FirstFailing(line) ==
    Checks[CHOOSE k \in DOMAIN Checks :
              /\ Checks[k].fails \in line.defects
              /\ \A j \in 1..(k - 1) : Checks[j].fails \notin line.defects]

\* A label ends the run when a parsed line carries it, and when a line too
\* long to be parsed carries its bytes.
Contaminated(line) ==
    ~Clean(line) /\ "label" \in line.defects
    /\ FirstFailing(line).fails \in {"label", "too_long"}

Reason(line) == FirstFailing(line).reason

-----------------------------------------------------------------------------
\* Two different records with one number on one source.
Collides(r, records) == \E q \in records : q # r /\ q.src = r.src /\ q.seq = r.seq

\* Mutant of Kept: the record read first keeps the number.
KeptFirst(cands) ==
    LET first(c) == \A d \in cands : (d.rec.src = c.rec.src /\ d.rec.seq = c.rec.seq) => c.n <= d.n
    IN {c.rec : c \in {d \in cands : first(d)}}

\* _drop_cross_record_collisions: identical lines are one record; of
\* different records with one number none is kept.
Kept(cands) ==
    LET unique == {c.rec : c \in cands} IN
    {r \in unique : ~Collides(r, unique)}

\* The reasons the cross-record checks give, per line.
CrossDrops(cands) ==
    LET unique == {c.rec : c \in cands} IN
    {[n |-> c.n, reason |-> "DUPLICATE_RECORD"] :
        c \in {x \in cands : \E y \in cands : y.rec = x.rec /\ y.n < x.n}}
    \cup {[n |-> c.n, reason |-> "SEQ_REGRESSION"] :
        c \in {x \in cands : /\ Collides(x.rec, unique)
                             /\ ~\E y \in cands : y.rec = x.rec /\ y.n < x.n}}

-----------------------------------------------------------------------------
\* The order of the bundle, and of everything that reads it.
Before(a, b) == a.t < b.t \/ (a.t = b.t /\ a.seq < b.seq)
InOrder(records) == Ascending(records, Before)

\* _seal: each record of a linked source carries the hash of its predecessor
\* and its own; the records of an unlinked one carry none.
Sealed(records, class) ==
    LET ordered == InOrder(records) IN
    [k \in DOMAIN ordered |->
        [rec |-> ordered[k],
         prev |-> IF class = "NONE" THEN <<>> ELSE SubSeq(ordered, 1, k - 1),
         hash |-> IF class = "NONE" THEN <<>> ELSE SubSeq(ordered, 1, k)]]

\* verify_chain over the records of one source, genesis included.
VerifyChain(events) ==
    {k \in DOMAIN events :
        LET expected == IF k = 1 THEN <<>> ELSE events[k - 1].hash IN
        events[k].prev # expected \/ events[k].hash # Append(events[k].prev, events[k].rec)}
=============================================================================
