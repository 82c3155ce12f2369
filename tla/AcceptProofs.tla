---------------------------- MODULE AcceptProofs ----------------------------
(***************************************************************************)
(* What an ACCEPT is worth, in two parts that share no state. Of the       *)
(* certificate (Checker): whatever spectra_vs_verify/checker.py accepts    *)
(* severs what it says it severs, needs the controls it has witnesses for, *)
(* and is minimal, over its corridors or over its program, where it says   *)
(* so, for every certificate and every size of catalog and program. Of the *)
(* run (Stages): what an accepted certificate pins was used, the accept a  *)
(* command reports is about its own run, and a run nobody disturbs is      *)
(* accepted, for any number of commands, jobs, cells, directories and      *)
(* seeds. There the inductive invariant is a conjunction over the commands *)
(* of what each knows of the files, written as an operator on the disk,    *)
(* the command's step and its memory, so that a step of one command needs  *)
(* one argument for itself and one for all the others.                     *)
(***************************************************************************)
EXTENDS Checker, Stages, FiniteSetTheorems, SequenceTheorems, TLAPS

-----------------------------------------------------------------------------
\* The certificate that is accepted

\* Whatever is accepted has discharged every obligation: verify() has no way
\* around one of them.
THEOREM CheckerInvariant == VerifySpec => []CheckerInv
<1>1. VerifyInit => CheckerInv
  BY DEF VerifyInit, CheckerInv, Count
<1>2. CheckerInv /\ [VerifyNext]_kvars => CheckerInv'
  <2> SUFFICES ASSUME CheckerInv, [VerifyNext]_kvars PROVE CheckerInv'
    OBVIOUS
  <2>1. CASE Discharge
    <3>1. pos' = pos + 1 /\ body' = body /\ exit' = exit /\ exit = "running"
      BY <2>1 DEF Discharge
    <3>2. pos' \in 0..Count
      BY <2>1 DEF Discharge, CheckerInv, Count
    <3>3. ASSUME NEW n \in 1..pos' PROVE Obligation(n, body)
      <4>1. n \in 1..pos \/ n = pos + 1
        BY <3>1, <3>3 DEF CheckerInv, Count
      <4> QED
        BY <2>1, <4>1 DEF Discharge, CheckerInv
    <3> QED
      BY <3>1, <3>2, <3>3 DEF CheckerInv
  <2>2. CASE Rejected
    BY <2>2 DEF Rejected, CheckerInv
  <2>3. CASE Accept
    BY <2>3 DEF Accept, CheckerInv
  <2>4. CASE UNCHANGED kvars
    BY <2>4 DEF kvars, CheckerInv
  <2> QED
    BY <2>1, <2>2, <2>3, <2>4 DEF VerifyNext
<1> QED
  BY <1>1, <1>2, PTL DEF VerifySpec

\* The obligations an accepted body meets, by name.
LEMMA AcceptedObligations ==
  ASSUME CheckerInv, exit = "ACCEPT"
  PROVE  /\ body \in Bodies
         /\ O7_Invariant(body) /\ O8_Closure(body) /\ O9_Goals(body)
         /\ O12_Witnesses(body)
         /\ O15_Minimality(body)
<1>1. \A n \in 1..11 : Obligation(n, body)
  BY DEF CheckerInv, Count
<1>2. Obligation(3, body) /\ Obligation(4, body) /\ Obligation(5, body) /\ Obligation(6, body)
  BY <1>1
<1>3. Obligation(11, body)
  BY <1>1
<1> QED
  BY <1>2, <1>3 DEF Obligation, CheckerInv

\* A closed set that avoids the goals shows that they are out of reach.
LEMMA ClosedSetSevers ==
  ASSUME NEW insts, NEW cut, NEW goals, NEW U \in SUBSET Fact,
         ClosedSet(insts, cut, U), goals \cap U = {}
  PROVE  ~Reaches(insts, cut, goals)
<1>1. U \in SUBSET (Fact \ goals)
  OBVIOUS
<1> QED
  BY <1>1 DEF Reaches

\* Raising less reaches no less.
LEMMA ReachesAntitone ==
  ASSUME NEW insts, NEW c, NEW d, NEW goals, d \subseteq c, Reaches(insts, c, goals)
  PROVE  Reaches(insts, d, goals)
<1> SUFFICES ASSUME NEW S \in SUBSET (Fact \ goals), ClosedSet(insts, d, S) PROVE FALSE
  BY DEF Reaches
<1>1. ASSUME NEW i \in insts, G!Enabled(i, c, S) PROVE G!Enabled(i, d, S)
  BY <1>1 DEF G!Enabled, G!Blocked
<1>2. ClosedSet(insts, c, S)
  BY <1>1 DEF ClosedSet
<1> QED
  BY <1>2 DEF Reaches

\* ACCEPT and every goal claimed severed: the published instances derive none
\* of them under the published cut (O7, O8 and O9 against the invariant u).
THEOREM AcceptSevers == VerifySpec => []AcceptedSevers
<1>1. CheckerInv => AcceptedSevers
  <2> SUFFICES ASSUME CheckerInv, exit = "ACCEPT", body.derivable = {}
               PROVE  ~Reaches(body.insts, body.cut, body.severed)
    BY DEF AcceptedSevers
  <2>1. O7_Invariant(body) /\ O8_Closure(body) /\ O9_Goals(body) /\ body \in Bodies
    BY AcceptedObligations
  <2>2. body.hasU
    BY <2>1 DEF O7_Invariant
  <2>3. ClosedSet(body.insts, body.cut, body.u)
    BY <2>1, <2>2 DEF O7_Invariant, O8_Closure, ClosedSet
  <2>4. body.severed \cap body.u = {}
    BY <2>1, <2>2 DEF O9_Goals
  <2>5. body.u \in SUBSET Fact
    BY <2>1, BodiesAssumption
  <2> QED
    BY <2>3, <2>4, <2>5, ClosedSetSevers
<1> QED
  BY <1>1, CheckerInvariant, PTL

\* A control left alone raises none of its literals.
LEMMA LeftAlone ==
  ASSUME NEW lv, NEW c, lv[c] = 0, CatalogAssumption
  PROVE  Mask(lv) \cap Whole({c}) = {}
<1> SUFFICES ASSUME NEW a \in Mask(lv), a \in Whole({c}) PROVE FALSE
  OBVIOUS
<1>1. a \in Literal /\ a[2] <= lv[a[1]] /\ a[1] = c
  BY DEF Mask, Whole
<1>2. PICK d \in Control : a \in {<<d, l>> : l \in 1..MaxLevel[d]}
  BY <1>1 DEF Literal
<1>3. PICK l \in 1..MaxLevel[d] : a = <<d, l>>
  BY <1>2
<1>4. a[2] = l /\ l >= 1 /\ l \in Nat
  BY <1>3 DEF CatalogAssumption
<1> QED
  BY <1>1, <1>4

\* ACCEPT and a witness for a control: no cut within the published one that
\* leaves the control alone severs every goal (O12).
THEOREM AcceptedWitnesses == VerifySpec => []WitnessedControlsAreNeeded
<1>1. CheckerInv => WitnessedControlsAreNeeded
  <2> SUFFICES ASSUME CheckerInv, exit = "ACCEPT",
                      NEW tree \in body.trees, NEW lv \in LevelVectors,
                      lv[tree.control] = 0, Mask(lv) \subseteq body.cut
               PROVE  Reaches(body.insts, Mask(lv), Goals(body))
    BY DEF WitnessedControlsAreNeeded
  <2>1. O12_Witnesses(body)
    BY AcceptedObligations
  <2>2. Reaches(body.insts, body.cut \ Whole({tree.control}), Goals(body))
    BY <2>1 DEF O12_Witnesses
  <2>3. Mask(lv) \subseteq body.cut \ Whole({tree.control})
    BY LeftAlone, CatalogAssumption
  <2> QED
    BY <2>2, <2>3, ReachesAntitone
<1> QED
  BY <1>1, CheckerInvariant, PTL

-----------------------------------------------------------------------------
(* The minimality claim. *)

\* A finite set can be grown inside a larger one to any size between.
LEMMA Padded ==
  ASSUME NEW T, IsFiniteSet(T), NEW S \in SUBSET T, NEW m \in Nat,
         Cardinality(S) <= m, m <= Cardinality(T)
  PROVE  \E K \in SUBSET T : S \subseteq K /\ Cardinality(K) = m
<1> DEFINE rest == T \ S
           need == m - Cardinality(S)
<1>1. IsFiniteSet(S) /\ IsFiniteSet(rest)
  BY FS_Subset
<1>2. Cardinality(S) \in Nat /\ Cardinality(rest) \in Nat /\ Cardinality(T) \in Nat
  BY <1>1, FS_CardinalityType
<1>3. Cardinality(T) = Cardinality(S) + Cardinality(rest)
  <2>1. T = S \cup rest /\ S \cap rest = {}
    OBVIOUS
  <2>2. Cardinality(S \cap rest) = 0
    BY <2>1, FS_EmptySet
  <2>3. Cardinality(S \cup rest) = Cardinality(S) + Cardinality(rest) - Cardinality(S \cap rest)
    BY <1>1, FS_Union
  <2>4. Cardinality(T) = Cardinality(S \cup rest)
    BY <2>1
  <2> HIDE DEF rest
  <2> QED
    BY <1>2, <2>2, <2>3, <2>4
<1>4. need \in 0..Cardinality(rest)
  BY <1>2, <1>3
<1>5. PICK f : f \in Bijection(1..Cardinality(rest), rest)
  BY <1>1, FS_CardinalityType DEF ExistsBijection
<1> DEFINE more == {f[j] : j \in 1..need}
           g == [j \in 1..need |-> f[j]]
<1>a. /\ f \in [1..Cardinality(rest) -> rest]
      /\ \A j, k \in 1..Cardinality(rest) : f[j] = f[k] => j = k
  BY <1>5 DEF Bijection, Injection, IsInjective
<1>b. \A j \in 1..need : j \in 1..Cardinality(rest)
  BY <1>2, <1>4
<1> HIDE DEF need, rest
<1>6. more \subseteq rest
  BY <1>a, <1>b
<1>7. g \in Bijection(1..need, more)
  <2>1. g \in [1..need -> more] /\ \A j \in 1..need : g[j] = f[j]
    OBVIOUS
  <2>2. \A j, k \in 1..need : g[j] = g[k] => j = k
    BY <1>a, <1>b, <2>1
  <2>3. \A t \in more : \E j \in 1..need : g[j] = t
    BY <2>1
  <2> HIDE DEF g, more
  <2> QED
    BY <2>1, <2>2, <2>3 DEF Bijection, Injection, Surjection, IsInjective
<1>8. IsFiniteSet(1..need) /\ Cardinality(1..need) = need
  <2>1. need \in Nat
    BY <1>4, <1>2
  <2> QED
    BY <2>1, FS_Interval
<1> HIDE DEF more
<1>9. IsFiniteSet(more) /\ Cardinality(more) = need
  <2>1. ExistsBijection(1..need, more)
    BY <1>7 DEF ExistsBijection
  <2> QED
    BY <1>8, <2>1, FS_Bijection
<1>10. Cardinality(S \cup more) = m
  <2>1. S \cap more = {}
    BY <1>6 DEF rest
  <2>2. Cardinality(S \cap more) = 0
    BY <2>1, FS_EmptySet
  <2>3. Cardinality(S \cup more) = Cardinality(S) + Cardinality(more) - Cardinality(S \cap more)
    BY <1>1, <1>9, FS_Union
  <2> QED
    BY <1>2, <1>9, <2>2, <2>3 DEF need
<1> QED
  BY <1>6, <1>10 DEF rest

\* A cut raises literals of raised controls only.
LEMMA MaskWithinRaised ==
  ASSUME CatalogAssumption, NEW lv \in LevelVectors, NEW K \in SUBSET Control,
         Raised(lv) \subseteq K
  PROVE  Mask(lv) \subseteq Whole(K)
<1> SUFFICES ASSUME NEW a \in Mask(lv) PROVE a[1] \in K
  BY DEF Mask, Whole
<1>1. a \in Literal /\ a[2] <= lv[a[1]]
  BY DEF Mask
<1>2. PICK d \in Control : a \in {<<d, l>> : l \in 1..MaxLevel[d]}
  BY <1>1 DEF Literal
<1>3. PICK l \in 1..MaxLevel[d] : a = <<d, l>>
  BY <1>2
<1>4. a[1] = d /\ a[2] = l /\ l >= 1 /\ l \in Nat
  BY <1>3 DEF CatalogAssumption
<1>5. lv[d] \in Nat
  BY CatalogAssumption DEF LevelVectors, CatalogAssumption
<1>6. lv[d] >= 1
  BY <1>1, <1>4, <1>5
<1> QED
  BY <1>4, <1>6 DEF Raised

\* A cut of fewer controls than the accepted one lies within a set O15 tries.
LEMMA TriedAbove ==
  ASSUME CheckerInv, exit = "ACCEPT", NEW lv \in LevelVectors,
         ~(Cardinality(Controls(body.cut)) <= Cardinality(Raised(lv)))
  PROVE  /\ body.cut # {}
         /\ \E K \in Smaller(body) : Mask(lv) \subseteq Whole(K)
<1> DEFINE n == Cardinality(Controls(body.cut))
<1>1. body \in Bodies
  BY DEF CheckerInv
<1>2. IsFiniteSet(Control) /\ Cardinality(Control) = NControl
  BY CatalogAssumption, FS_Interval DEF Control
<1>3. Controls(body.cut) \subseteq Control /\ Raised(lv) \subseteq Control
  BY <1>1, BodiesAssumption DEF Controls, Literal, Raised
<1>4. /\ IsFiniteSet(Controls(body.cut)) /\ IsFiniteSet(Raised(lv))
      /\ n \in Nat /\ Cardinality(Raised(lv)) \in Nat
      /\ n <= Cardinality(Control)
  BY <1>2, <1>3, FS_Subset, FS_CardinalityType
<1>5. /\ n - 1 \in Nat /\ Cardinality(Raised(lv)) <= n - 1
      /\ n - 1 <= Cardinality(Control)
  BY <1>2, <1>4, CatalogAssumption
<1>6. PICK K \in SUBSET Control : Raised(lv) \subseteq K /\ Cardinality(K) = n - 1
  <2> HIDE DEF n
  <2> QED
    BY <1>2, <1>3, <1>5, Padded
<1>7. body.cut # {}
  <2>1. body.cut = {} => n = 0
    BY FS_EmptySet DEF Controls
  <2> HIDE DEF n
  <2> QED
    BY <2>1, <1>5
<1>8. K \in Smaller(body)
  BY <1>6 DEF Smaller
<1>9. Mask(lv) \subseteq Whole(K)
  BY <1>6, MaskWithinRaised, CatalogAssumption
<1> QED
  BY <1>7, <1>8, <1>9

\* ACCEPT of EXACT_PSI_RELATIVE: no cut at all, of any levels and any smaller
\* number of controls, satisfies the published corridors, although O15 tries
\* only the control sets one smaller, raised to the top.
THEOREM AcceptedExact == VerifySpec => []AcceptedExactIsMinimum
<1>1. CheckerInv => AcceptedExactIsMinimum
  <2> SUFFICES ASSUME CheckerInv, exit = "ACCEPT", body.minimality = "EXACT_PSI_RELATIVE",
                      NEW lv \in LevelVectors, Satisfied(body.clauses, Mask(lv)),
                      ~(Cardinality(Controls(body.cut)) <= Cardinality(Raised(lv)))
               PROVE  FALSE
    BY DEF AcceptedExactIsMinimum
  <2>1. O15_Minimality(body)
    BY AcceptedObligations
  <2>2. PICK K \in Smaller(body) : Mask(lv) \subseteq Whole(K)
    BY TriedAbove
  <2>3. Satisfied(body.clauses, Whole(K))
    BY <2>2 DEF Satisfied
  <2> QED
    BY <2>1, <2>2, <2>3, TriedAbove DEF O15_Minimality
<1> QED
  BY <1>1, CheckerInvariant, PTL

\* ACCEPT of EXACT_EXHAUSTIVE over true corridors: no cut of fewer controls,
\* of any levels, severs the published program. The set one smaller that
\* O15 raised above it meets every corridor, so the fixpoint was replayed
\* under it and derived a goal, and under less it derives no less.
THEOREM AcceptedExhaustive == VerifySpec => []AcceptedExhaustiveIsMinimum
<1>1. CheckerInv => AcceptedExhaustiveIsMinimum
  <2> SUFFICES ASSUME CheckerInv, exit = "ACCEPT", body.minimality = "EXACT_EXHAUSTIVE",
                      \A lv \in LevelVectors : Severs(Mask(lv)) => Satisfied(body.clauses, Mask(lv)),
                      NEW lv \in LevelVectors, Severs(Mask(lv)),
                      ~(Cardinality(Controls(body.cut)) <= Cardinality(Raised(lv)))
               PROVE  FALSE
    BY DEF AcceptedExhaustiveIsMinimum
  <2>1. O15_Minimality(body)
    BY AcceptedObligations
  <2>2. PICK K \in Smaller(body) : Mask(lv) \subseteq Whole(K)
    BY TriedAbove
  <2>3. Satisfied(body.clauses, Whole(K))
    BY <2>2 DEF Satisfied
  <2>4. Reaches(body.insts, Whole(K), Goals(body))
    BY <2>1, <2>2, <2>3, TriedAbove DEF O15_Minimality
  <2>5. Reaches(body.insts, Mask(lv), Goals(body))
    BY <2>2, <2>4, ReachesAntitone
  <2> QED
    BY <2>5 DEF Severs
<1> QED
  BY <1>1, CheckerInvariant, PTL

-----------------------------------------------------------------------------
\* The run it was read from

Toml == <<"toml", Shared>>
Lock == <<"lock", Shared>>
Profile == <<"profile", Shared>>

Here(m, name) == <<name, Head(m.job.cells).dir>>
Doc(m) == [bundle |-> m.bundle, profile |-> m.profile]

\* Awaited, of a step and a memory.
Due(s, m) ==
    CASE s \in {"profile", "hash"} -> Profile
      [] s \in {"degrade", "bundle"} -> Here(m, "raw")
      [] s = "judged" -> Here(m, "liveness")
      [] s \in {"manifest", "check"} -> Here(m, "cert")
      [] OTHER -> <<"none", Shared>>

\* What a command's memory becomes when another writes f.
Heard(s, m, f) == IF s = "idle" THEN m ELSE [m EXCEPT !.met = @ \/ Due(s, m) = f, !.alone = FALSE]

Fields ==
    {"job", "open", "rows", "profile", "pinned", "rules", "bundle", "judged", "cert", "own", "met", "raced", "alone",
     "relocked"}

Shape(s, m) ==
    /\ m = [k \in Fields |-> m[k]]
    /\ m.open \in BOOLEAN /\ m.met \in BOOLEAN /\ m.alone \in BOOLEAN /\ m.own \in BOOLEAN /\ m.relocked \in BOOLEAN
    /\ IF s = "idle" THEN m = Fresh(NoJob) ELSE m.job \in Jobs
    /\ m.open => s \in {"profile", "degrade"}
    /\ s = "profile" => m.profile # Torn

Checking == {"inputs", "atoms", "replay"}
Made == {"manifest", "check"} \cup Checking
Making == {"rules", "gen", "degrade", "bundle", "er", "liveness", "judged", "cert"}

\* A certificate pins what it was computed from, or says what was raced.
CertOK(c) ==
    /\ c.pins.profile = c.document.profile \/ "profile" \in c.raced
    /\ c.pins.liveness = c.document \/ "liveness" \in c.raced
    /\ c.pins.bundle.raw = c.cell \/ "raw" \in c.raced

\* What the process holds is what it wrote, what it read back, or raced.
Held(d, s, m) ==
    /\ s = "hash" => d[Profile] = m.profile \/ m.met
    /\ s \notin {"profile", "hash"} => m.pinned = m.profile \/ "profile" \in m.raced
    /\ s = "bundle" => d[Here(m, "raw")] = Head(m.job.cells) \/ m.met
    /\ s \in {"er", "liveness", "judged", "cert"} => m.bundle.raw = Head(m.job.cells) \/ "raw" \in m.raced
    /\ s = "judged" => d[Here(m, "liveness")] = Doc(m) \/ m.met
    /\ s = "cert" => m.judged = Doc(m) \/ "liveness" \in m.raced
    /\ s \in {"manifest", "check"} => m.cert = Absent \/ d[Here(m, "cert")] = m.cert \/ m.met
    /\ s \in Checking => (m.own \/ m.met) /\ CertOK(m.cert)
    /\ s = "atoms" => m.cert.pins.lock = d[Lock] \/ m.relocked
    /\ s = "replay" => m.cert.rows = m.cert.pins.lock.rows \/ m.relocked

\* Once the certificate is made: the files are those it pins.
Standing(d, m) ==
    /\ m.cert \notin {Absent, Torn} /\ d[Here(m, "cert")] = m.cert
    /\ m.cert.pins.lock = d[Lock] /\ m.cert.rows = d[Lock].rows
    /\ m.cert.pins.profile = d[Profile] /\ d[Profile] # Torn
    /\ m.cert.pins.rules = d[Here(m, "rules")] /\ m.cert.pins.bundle = d[Here(m, "bundle")]
    /\ m.cert.pins.er = d[Here(m, "er")]
    /\ m.cert.pins.liveness = d[Here(m, "liveness")] /\ m.cert.document = d[Here(m, "liveness")]

\* What a run nobody has disturbed so far finds on the disk.
Alone(d, s, m) ==
    /\ m.met = FALSE /\ m.raced = {}
    /\ m.profile # Torn
    /\ (m.profile # Absent /\ s # "profile") => d[Profile] = m.profile
    /\ s \in {"calraw", "calingest"} => m.profile = Absent
    /\ s \in {"profile", "hash"} \cup Making \cup Made => m.profile # Absent
    /\ s \in Making \/ (s \in {"calraw", "calingest", "profile", "hash"} /\ m.job.kind # "demo") => m.rows = d[Lock].rows
    /\ s \in Making \ {"rules"} => d[Here(m, "rules")] = [rules |-> m.rules]
    /\ s \in {"er", "liveness", "judged", "cert"} => d[Here(m, "bundle")] = m.bundle
    /\ s \in {"liveness", "judged", "cert"} => d[Here(m, "er")] = [er |-> m.bundle]
    /\ s \in {"judged", "cert"} => d[Here(m, "liveness")] = Doc(m)
    /\ s = "cert" => m.judged = Doc(m)
    /\ s \in Made => Standing(d, m)
    /\ s \in {"check"} \cup Checking => d[Here(m, "manifest")] \notin {Absent, Torn}
    /\ s \in Checking => m.own

Private(d, s, m) ==
    /\ Shape(s, m)
    /\ Held(d, s, m)
    /\ (s # "idle" /\ m.alone /\ m.job.kind # "check") => Alone(d, s, m)

CertFiles(d) ==
    \A x \in Directories : d[<<"cert", x>>] \in {Absent, Torn} \/ CertOK(d[<<"cert", x>>])

\* A torn file is being written, or there was a fault.
TornFiles(d, fl, s, m) ==
    \A f \in Files : d[f] = Torn => "died" \in fl \/ \E p \in Commands : m[p].open /\ Due(s[p], m[p]) = f

SaidOK ==
    /\ said.verdict \in {"none", "accepted", "refused"}
    /\ PinsAreWhatWasUsed /\ AcceptIsAboutOwnRun /\ UndisturbedIsAccepted

\* The invariant.
StagesInd ==
    /\ pc \in [Commands -> Steps] /\ mem = [p \in Commands |-> mem[p]]
    /\ disk = [f \in Files |-> disk[f]]
    /\ todo \in [Commands -> Seq(Jobs)] /\ faults \subseteq {"crash", "text", "lock", "died"}
    /\ \A p \in Commands : Private(disk, pc[p], mem[p])
    /\ CertFiles(disk)
    /\ TornFiles(disk, faults, pc, mem)
    /\ SaidOK

-----------------------------------------------------------------------------
\* A whole file is neither absent nor torn.
LEMMA NotTorn ==
    /\ Absent # Torn
    /\ \A x : [cal |-> x] # Torn /\ [rules |-> x] # Torn /\ [raw |-> x] # Torn /\ [er |-> x] # Torn
    /\ \A x : [scenario |-> x] \notin {Absent, Torn}
    /\ \A x, y : [cal |-> x, reference |-> y] \notin {Absent, Torn}
    /\ \A x, y : [bundle |-> x, profile |-> y] \notin {Absent, Torn}
    /\ \A x, y : [dir |-> x, deg |-> y] # Torn
    /\ \A v, w, x, y, z : [pins |-> v, rows |-> w, document |-> x, cell |-> y, raced |-> z] \notin {Absent, Torn}
    /\ \A c \in Cells : c # Torn
  BY DEF Absent, Torn, Cells

\* A running command's cell names a directory, and its files are files.
LEMMA HereIsFile ==
    ASSUME NEW m, m.job \in Jobs
    PROVE  /\ Head(m.job.cells) \in Cells /\ Head(m.job.cells).dir \in Directories
           /\ \A name \in InDir : Here(m, name) \in Files
           /\ <<"calraw", m.job.cal>> \in Files
  <1>1. m.job.cells \in Seq(Cells) /\ m.job.cells # <<>> /\ m.job.cal \in Calibrated
    BY DEF Jobs
  <1>2. Head(m.job.cells) \in Cells
    BY <1>1
  <1>3. Head(m.job.cells).dir \in Directories
    BY <1>2 DEF Cells
  <1>. QED  BY <1>1, <1>2, <1>3 DEF Here, Files

\* The files every session shares are among the files.
LEMMA SharedFiles == Toml \in Files /\ Lock \in Files /\ Profile \in Files
  BY DEF Files, Toml, Lock, Profile

\* A file of a run directory is none of the shared ones, and files with
\* different names differ.
LEMMA Apart ==
    ASSUME NEW m
    PROVE  /\ \A name \in InDir : Here(m, name) \notin {Toml, Lock, Profile}
           /\ \A a, b \in InDir : a # b => Here(m, a) # Here(m, b)
           /\ \A x : <<"calraw", x>> \notin {Toml, Lock, Profile}
           /\ \A x : \A name \in InDir : <<"calraw", x>> # Here(m, name)
           /\ Profile # Lock /\ Profile # Toml /\ Toml # Lock
  BY DEF Here, InDir, Toml, Lock, Profile

\* Awaited is Due, of the command's step and memory.
LEMMA AwaitedIs == ASSUME NEW q PROVE Awaited(q) = Due(pc[q], mem[q])
  BY DEF Awaited, Due, In, Cell, Here, Profile

\* A write of one command and what the other commands know: nothing in what
\* they hold is undone, for a file they wait to read back is then `met'.
LEMMA OthersKeep ==
    ASSUME NEW d, NEW s, NEW m, NEW f \in Files, NEW d1,
           f \notin {Toml, Lock}, \A g \in Files : g # f => d1[g] = d[g],
           Private(d, s, m)
    PROVE  Private(d1, s, Heard(s, m, f))
  <1>. DEFINE n == Heard(s, m, f)
  <1>1. CASE s = "idle"
    BY <1>1 DEF Private, Shape, Fields, Held, Heard, Fresh, Making, Checking
  <1>2. CASE s # "idle"
    <2>1. /\ n = [m EXCEPT !.met = m.met \/ Due(s, m) = f, !.alone = FALSE]
          /\ m.job \in Jobs /\ n.job = m.job /\ n.met = (m.met \/ Due(s, m) = f) /\ n.alone = FALSE
          /\ n.open = m.open /\ n.rows = m.rows /\ n.profile = m.profile /\ n.pinned = m.pinned
          /\ n.bundle = m.bundle /\ n.judged = m.judged /\ n.cert = m.cert /\ n.own = m.own /\ n.raced = m.raced
          /\ n.rules = m.rules /\ n.relocked = m.relocked
      BY <1>2 DEF Heard, Private, Shape
    <2>2. Shape(s, n)
      BY <1>2, <2>1 DEF Private, Shape, Fields
    <2>3. \A g \in Files : g # f => d1[g] = d[g]
      OBVIOUS
    <2>4. d1[Lock] = d[Lock]
      BY <2>3, SharedFiles
    <2>6. \A name : Here(n, name) = Here(m, name)
      BY <2>1 DEF Here
    <2>7. Doc(n) = Doc(m)
      BY <2>1 DEF Doc
    <2>9. Here(m, "raw") \in Files /\ Here(m, "liveness") \in Files /\ Here(m, "cert") \in Files
      BY <2>1, HereIsFile DEF InDir
    <2>8. Held(d1, s, n)
      <3>0. Held(d, s, m)
        BY DEF Private
      <3>1. s = "hash" => d1[Profile] = n.profile \/ n.met
        BY <3>0, <2>1, <2>3, SharedFiles DEF Held, Due
      <3>2. s = "bundle" => d1[Here(n, "raw")] = Head(n.job.cells) \/ n.met
        BY <3>0, <2>1, <2>3, <2>6, <2>9 DEF Held, Due
      <3>3. s = "judged" => d1[Here(n, "liveness")] = Doc(n) \/ n.met
        BY <3>0, <2>1, <2>3, <2>6, <2>7, <2>9 DEF Held, Due
      <3>4. s \in {"manifest", "check"} => n.cert = Absent \/ d1[Here(n, "cert")] = n.cert \/ n.met
        BY <3>0, <2>1, <2>3, <2>6, <2>9 DEF Held, Due
      <3>5. s \in Checking => (n.own \/ n.met) /\ CertOK(n.cert)
        BY <3>0, <2>1 DEF Held
      <3>6. s = "atoms" => n.cert.pins.lock = d1[Lock] \/ n.relocked
        BY <3>0, <2>1, <2>4 DEF Held
      <3>7. s = "cert" => n.judged = Doc(n) \/ "liveness" \in n.raced
        BY <3>0, <2>1, <2>7 DEF Held
      <3>8. s \in {"er", "liveness", "judged", "cert"} => n.bundle.raw = Head(n.job.cells) \/ "raw" \in n.raced
        BY <3>0, <2>1 DEF Held
      <3>9. s \notin {"profile", "hash"} => n.pinned = n.profile \/ "profile" \in n.raced
        BY <3>0, <2>1 DEF Held
      <3>10. s = "replay" => n.cert.rows = n.cert.pins.lock.rows \/ n.relocked
        BY <3>0, <2>1 DEF Held
      <3>. HIDE DEF n
      <3>. QED  BY <3>1, <3>2, <3>3, <3>4, <3>5, <3>6, <3>7, <3>8, <3>9, <3>10 DEF Held
    <2>. QED  BY <2>1, <2>2, <2>8 DEF Private
  <1>. QED  BY <1>1, <1>2

\* A step that ends no check says nothing.
LEMMA NothingSaid == ASSUME said' = Nothing PROVE SaidOK'
  BY DEF SaidOK, Nothing, PinsAreWhatWasUsed, AcceptIsAboutOwnRun, UndisturbedIsAccepted, Accepted

\* A step of p that writes x to f; p holds m at step s then.
Wrote(p, f, x, m, s) ==
    /\ disk' = [disk EXCEPT ![f] = x] /\ pc' = [pc EXCEPT ![p] = s]
    /\ mem' = Seen(p, f, [mem EXCEPT ![p] = m])

\* A command p writes x to f and holds m at step s: the invariant is kept when
\* it is by p itself, the file is whole unless p holds it open, and a
\* certificate written is a good one.
LEMMA WriteStep ==
    ASSUME StagesInd, NEW p \in Commands, NEW f \in Files, NEW x, NEW m, NEW s \in Steps,
           f \notin {Toml, Lock}, faults \subseteq faults', faults' \subseteq faults \cup {"died"}, todo' = todo,
           Wrote(p, f, x, m, s), Private(disk', s, m), SaidOK',
           f[1] = "cert" => x \in {Absent, Torn} \/ CertOK(x),
           "died" \in faults' \/ x # Torn \/ (m.open /\ Due(s, m) = f),
           "died" \in faults' \/ ~mem[p].open \/ Due(pc[p], mem[p]) = f
    PROVE  StagesInd'
  <1>1. /\ pc' \in [Commands -> Steps] /\ disk' = [g \in Files |-> disk'[g]]
        /\ todo' \in [Commands -> Seq(Jobs)] /\ faults' \subseteq {"crash", "text", "lock", "died"}
    BY DEF StagesInd, Wrote
  <1>2. /\ mem' = [q \in Commands |-> mem'[q]]
        /\ mem'[p] = m /\ pc'[p] = s
        /\ \A q \in Commands : q # p => mem'[q] = Heard(pc[q], mem[q], f) /\ pc'[q] = pc[q]
    BY AwaitedIs DEF StagesInd, Seen, Heard, Wrote
  <1>3. \A q \in Commands : Private(disk', pc'[q], mem'[q])
    <2>1. ASSUME NEW q \in Commands, q # p
          PROVE  Private(disk', pc[q], Heard(pc[q], mem[q], f))
      <3>1. Private(disk, pc[q], mem[q]) /\ \A g \in Files : g # f => disk'[g] = disk[g]
        BY DEF StagesInd, Wrote
      <3>. QED  BY <3>1, OthersKeep
    <2>. QED  BY <2>1, <1>2
  <1>4. \A g \in Files : disk'[g] = IF g = f THEN x ELSE disk[g]
    BY DEF StagesInd, Wrote
  <1>5. CertFiles(disk')
    <2>2. SUFFICES ASSUME NEW y \in Directories
                   PROVE  disk'[<<"cert", y>>] \in {Absent, Torn} \/ CertOK(disk'[<<"cert", y>>])
      BY DEF CertFiles
    <2>3. <<"cert", y>> \in Files
      BY DEF Files, InDir
    <2>4. CASE <<"cert", y>> = f
      BY <2>4, <2>3, <1>4
    <2>5. CASE <<"cert", y>> # f
      <3>1. disk'[<<"cert", y>>] = disk[<<"cert", y>>]
        BY <2>5, <2>3, <1>4
      <3>2. disk[<<"cert", y>>] \in {Absent, Torn} \/ CertOK(disk[<<"cert", y>>])
        BY DEF StagesInd, CertFiles
      <3>. QED  BY <3>1, <3>2
    <2>. QED  BY <2>4, <2>5
  <1>6. TornFiles(disk', faults', pc', mem')
    <2>1. SUFFICES ASSUME NEW g \in Files, disk'[g] = Torn, "died" \notin faults'
                   PROVE  \E q \in Commands : mem'[q].open /\ Due(pc'[q], mem'[q]) = g
      BY DEF TornFiles
    <2>2. CASE g = f
      BY <2>1, <2>2, <1>4, <1>2
    <2>3. CASE g # f
      <3>1. disk[g] = Torn /\ "died" \notin faults
        BY <2>1, <2>3, <1>4
      <3>2. PICK q \in Commands : mem[q].open /\ Due(pc[q], mem[q]) = g
        BY <3>1 DEF StagesInd, TornFiles
      <3>3. q # p
        BY <3>2, <2>3, <2>1
      <3>4. Private(disk, pc[q], mem[q])
        BY DEF StagesInd
      <3>5. pc[q] # "idle"
        BY <3>2, <3>4 DEF Private, Shape, Fields
      <3>6. mem'[q] = [mem[q] EXCEPT !.met = mem[q].met \/ Due(pc[q], mem[q]) = f, !.alone = FALSE]
        BY <3>3, <3>5, <1>2 DEF Heard
      <3>7. mem'[q].open = mem[q].open /\ mem'[q].job = mem[q].job
        BY <3>6, <3>4 DEF Private, Shape, Fields
      <3>8. Due(pc'[q], mem'[q]) = Due(pc[q], mem[q])
        BY <3>7, <3>3, <1>2 DEF Due, Here
      <3>. QED  BY <3>2, <3>7, <3>8
    <2>. QED  BY <2>2, <2>3
  <1>. QED  BY <1>1, <1>2, <1>3, <1>5, <1>6 DEF StagesInd

\* A command p changes its memory to m and goes to step s, and the disk stays.
LEMMA HoldStep ==
    ASSUME StagesInd, NEW p \in Commands, NEW m, NEW s \in Steps,
           faults \subseteq faults', faults' \subseteq faults \cup {"died"}, todo' \in [Commands -> Seq(Jobs)],
           disk' = disk, pc' = [pc EXCEPT ![p] = s], mem' = [mem EXCEPT ![p] = m],
           Private(disk, s, m), SaidOK', "died" \in faults' \/ ~mem[p].open
    PROVE  StagesInd'
  <1>1. /\ pc' \in [Commands -> Steps] /\ mem' = [q \in Commands |-> mem'[q]] /\ mem'[p] = m /\ pc'[p] = s
        /\ \A q \in Commands : q # p => mem'[q] = mem[q] /\ pc'[q] = pc[q]
        /\ faults' \subseteq {"crash", "text", "lock", "died"}
    BY DEF StagesInd
  <1>3. \A q \in Commands : Private(disk', pc'[q], mem'[q])
    BY <1>1 DEF StagesInd
  <1>4. CertFiles(disk')
    BY DEF StagesInd, CertFiles
  <1>5. TornFiles(disk', faults', pc', mem')
    BY <1>1 DEF StagesInd, TornFiles
  <1>. QED  BY <1>1, <1>3, <1>4, <1>5 DEF StagesInd

-----------------------------------------------------------------------------
\* A running command: its memory, its cell and its files.
LEMMA Running ==
    ASSUME StagesInd, NEW p \in Commands, pc[p] # "idle"
    PROVE  /\ Shape(pc[p], mem[p]) /\ Held(disk, pc[p], mem[p]) /\ mem[p].job \in Jobs
           /\ mem[p].alone /\ mem[p].job.kind # "check" => Alone(disk, pc[p], mem[p])
           /\ Cell(p) = Head(mem[p].job.cells) /\ Cell(p) \in Cells
           /\ \A name : In(p, name) = Here(mem[p], name)
           /\ \A name \in InDir : Here(mem[p], name) \in Files /\ Here(mem[p], name) \notin {Toml, Lock, Profile}
  <1>1. Private(disk, pc[p], mem[p])
    BY DEF StagesInd
  <1>2. mem[p].job \in Jobs
    BY <1>1 DEF Private, Shape, Fields
  <1>3. Cell(p) = Head(mem[p].job.cells) /\ \A name : In(p, name) = Here(mem[p], name)
    BY DEF Cell, In, Here
  <1>4. Cell(p) \in Cells /\ \A name \in InDir : Here(mem[p], name) \in Files
    BY <1>2, <1>3, HereIsFile
  <1>5. \A name \in InDir : Here(mem[p], name) \notin {Toml, Lock, Profile}
    BY Apart
  <1>. QED  BY <1>1, <1>2, <1>3, <1>4, <1>5 DEF Private

\* What is on the disk after a write.
LEMMA After ==
    ASSUME StagesInd, NEW f \in Files, NEW x, disk' = [disk EXCEPT ![f] = x]
    PROVE  disk'[f] = x /\ \A g \in Files : g # f => disk'[g] = disk[g]
  BY DEF StagesInd

\* A step made of one whole write keeps the invariant when what the command
\* knows then is true.
LEMMA ReplaceKeeps ==
    ASSUME StagesInd, NEW p \in Commands, pc[p] \notin {"idle", "profile", "degrade"},
           NEW f \in Files, f \notin {Toml, Lock}, NEW x, x # Torn, NEW n, NEW t \in Steps,
           Replace(p, n, f, x, t), f[1] = "cert" => CertOK(x), Private(disk', t, n)
    PROVE  StagesInd'
  <1>1. Wrote(p, f, x, n, t) /\ said' = Nothing /\ faults' = faults /\ todo' = todo
    BY DEF Replace, Goto, Quiet, Wrote
  <1>2. ~mem[p].open
    BY Running DEF Shape, Fields
  <1>3. SaidOK'
    BY <1>1, NothingSaid
  <1>. QED  BY <1>1, <1>2, <1>3, WriteStep

\* The same for a step that writes nothing.
LEMMA HoldKeeps ==
    ASSUME StagesInd, NEW p \in Commands, pc[p] \notin {"idle", "profile", "degrade"},
           NEW n, NEW t \in Steps, Hold(p, n, t), Private(disk, t, n)
    PROVE  StagesInd'
  <1>1. /\ disk' = disk /\ pc' = [pc EXCEPT ![p] = t] /\ mem' = [mem EXCEPT ![p] = n]
        /\ said' = Nothing /\ faults' = faults /\ todo' = todo
    BY DEF Hold, Goto, Quiet
  <1>2. ~mem[p].open
    BY Running DEF Shape, Fields
  <1>3. SaidOK'
    BY <1>1, NothingSaid
  <1>4. todo' \in [Commands -> Seq(Jobs)]
    BY <1>1 DEF StagesInd
  <1>. QED  BY <1>1, <1>2, <1>3, <1>4, HoldStep

\* S1 keeps the invariant.
LEMMA CompileKeeps == ASSUME StagesInd, NEW p \in Commands, Compile(p) PROVE StagesInd'
  <1>. DEFINE now == disk[Toml].rules  m == mem[p]  n == [m EXCEPT !.rules = now]  f == Here(m, "rules")
  <1>0. pc[p] = "rules" /\ Replace(p, n, f, [rules |-> now], "gen")
    BY DEF Compile, At, In, Cell, Here, Toml
  <1>1. /\ Shape("rules", m) /\ Held(disk, "rules", m)
        /\ m.alone /\ m.job.kind # "check" => Alone(disk, "rules", m)
        /\ f \in Files /\ f \notin {Toml, Lock, Profile} /\ f[1] # "cert"
    BY <1>0, Running DEF InDir, Here
  <1>2. disk'[f] = [rules |-> now] /\ \A g \in Files : g # f => disk'[g] = disk[g]
    BY <1>0, <1>1, After DEF Replace
  <1>3. /\ n.job = m.job /\ n.open = m.open /\ n.rows = m.rows /\ n.profile = m.profile /\ n.pinned = m.pinned
        /\ n.rules = now /\ n.met = m.met /\ n.raced = m.raced /\ n.alone = m.alone /\ Shape("gen", n)
    BY <1>1 DEF Shape, Fields
  <1>4. disk'[Lock] = disk[Lock] /\ disk'[Profile] = disk[Profile] /\ Here(n, "rules") = f
    BY <1>1, <1>2, <1>3, SharedFiles DEF Here
  <1>. HIDE DEF n, f, now, m
  <1>5. Held(disk', "gen", n)
    BY <1>1, <1>3, <1>4 DEF Held, Making, Checking
  <1>6. n.alone /\ n.job.kind # "check" => Alone(disk', "gen", n)
    BY <1>1, <1>2, <1>3, <1>4 DEF Alone, Making, Made, Checking
  <1>7. Private(disk', "gen", n)
    BY <1>3, <1>5, <1>6 DEF Private
  <1>. QED  BY <1>0, <1>1, <1>7, ReplaceKeeps, NotTorn DEF Steps

\* S6: the clean run.
LEMMA CalRawKeeps == ASSUME StagesInd, NEW p \in Commands, CalRaw(p) PROVE StagesInd'
  <1>. DEFINE m == mem[p]  f == <<"calraw", m.job.cal>>
  <1>0. pc[p] = "calraw" /\ Replace(p, m, f, [cal |-> m.job.cal], "calingest")
    BY DEF CalRaw, At
  <1>1. /\ Shape("calraw", m) /\ Held(disk, "calraw", m) /\ m.job \in Jobs
        /\ m.alone /\ m.job.kind # "check" => Alone(disk, "calraw", m)
    BY <1>0, Running
  <1>2. f \in Files /\ f \notin {Toml, Lock, Profile} /\ f[1] # "cert"
    BY <1>1, HereIsFile, Apart
  <1>3. \A g \in Files : g # f => disk'[g] = disk[g]
    BY <1>0, <1>2, After DEF Replace
  <1>4. disk'[Lock] = disk[Lock] /\ disk'[Profile] = disk[Profile]
    BY <1>2, <1>3, SharedFiles
  <1>. HIDE DEF f, m
  <1>5. Held(disk', "calingest", m)
    BY <1>1, <1>4 DEF Held, Making, Checking
  <1>6. m.alone /\ m.job.kind # "check" => Alone(disk', "calingest", m)
    BY <1>1, <1>4 DEF Alone, Making, Made, Checking
  <1>7. Private(disk', "calingest", m)
    BY <1>1, <1>5, <1>6 DEF Private, Shape, Fields
  <1>. QED  BY <1>0, <1>2, <1>7, ReplaceKeeps, NotTorn DEF Steps

\* S2: the stream before degradation.
LEMMA GenKeeps == ASSUME StagesInd, NEW p \in Commands, Gen(p) PROVE StagesInd'
  <1>. DEFINE m == mem[p]  f == Here(m, "raw")  x == [dir |-> Cell(p).dir, deg |-> "clean"]
  <1>0. pc[p] = "gen" /\ Replace(p, m, f, x, "degrade")
    BY DEF Gen, At, In, Cell, Here
  <1>1. /\ Shape("gen", m) /\ Held(disk, "gen", m)
        /\ m.alone /\ m.job.kind # "check" => Alone(disk, "gen", m)
        /\ f \in Files /\ f \notin {Toml, Lock, Profile} /\ f[1] # "cert"
    BY <1>0, Running DEF InDir, Here
  <1>2. \A g \in Files : g # f => disk'[g] = disk[g]
    BY <1>0, <1>1, After DEF Replace
  <1>3. Here(m, "rules") \in Files /\ Here(m, "rules") # f
    BY <1>0, Running, Apart DEF InDir
  <1>4. disk'[Lock] = disk[Lock] /\ disk'[Profile] = disk[Profile] /\ disk'[Here(m, "rules")] = disk[Here(m, "rules")]
    BY <1>1, <1>2, <1>3, SharedFiles
  <1>. HIDE DEF f, m
  <1>5. Held(disk', "degrade", m)
    BY <1>1, <1>4 DEF Held, Making, Checking
  <1>6. m.alone /\ m.job.kind # "check" => Alone(disk', "degrade", m)
    BY <1>1, <1>4 DEF Alone, Making, Made, Checking
  <1>7. Private(disk', "degrade", m)
    BY <1>1, <1>5, <1>6 DEF Private, Shape, Fields
  <1>. QED  BY <1>0, <1>1, <1>7, ReplaceKeeps, NotTorn DEF Steps

\* S4: the stream is read back, and the bundle sealed.
LEMMA IngestKeeps == ASSUME StagesInd, NEW p \in Commands, Ingest(p) PROVE StagesInd'
  <1>. DEFINE m == mem[p]  f == Here(m, "bundle")  x == [raw |-> disk[Here(m, "raw")]]
              n == [m EXCEPT !.bundle = x, !.raced = Raced(p, "raw")]
  <1>0. pc[p] = "bundle" /\ Replace(p, n, f, x, "er")
    BY DEF Ingest, Seal, At, In, Cell, Here
  <1>1. /\ Shape("bundle", m) /\ Held(disk, "bundle", m)
        /\ m.alone /\ m.job.kind # "check" => Alone(disk, "bundle", m)
        /\ f \in Files /\ f \notin {Toml, Lock, Profile} /\ f[1] # "cert"
    BY <1>0, Running DEF InDir, Here
  <1>2. disk'[f] = x /\ \A g \in Files : g # f => disk'[g] = disk[g]
    BY <1>0, <1>1, After DEF Replace
  <1>3. /\ n.job = m.job /\ n.open = m.open /\ n.rows = m.rows /\ n.profile = m.profile /\ n.pinned = m.pinned
        /\ n.rules = m.rules /\ n.bundle = x /\ n.met = m.met /\ n.alone = m.alone
        /\ n.raced = Raced(p, "raw") /\ Shape("er", n)
    BY <1>1 DEF Shape, Fields
  <1>4. m.raced \subseteq n.raced /\ (m.met => "raw" \in n.raced) /\ (~m.met => n.raced = m.raced)
    BY <1>3 DEF Raced
  <1>5. \A name : Here(n, name) = Here(m, name)
    BY <1>3 DEF Here
  <1>6. Here(m, "rules") \in Files /\ Here(m, "rules") # f
    BY <1>0, Running, Apart DEF InDir
  <1>7. /\ disk'[Lock] = disk[Lock] /\ disk'[Profile] = disk[Profile]
        /\ disk'[Here(n, "rules")] = disk[Here(m, "rules")] /\ disk'[Here(n, "bundle")] = n.bundle
    BY <1>1, <1>2, <1>3, <1>5, <1>6, SharedFiles
  <1>8. n.bundle.raw = disk[Here(m, "raw")]
    BY <1>3
  <1>. HIDE DEF n, f, m, x
  <1>9. Held(disk', "er", n)
    BY <1>1, <1>3, <1>4, <1>7, <1>8 DEF Held, Making, Checking
  <1>10. n.alone /\ n.job.kind # "check" => Alone(disk', "er", n)
    BY <1>1, <1>3, <1>4, <1>7 DEF Alone, Making, Made, Checking
  <1>11. Private(disk', "er", n)
    BY <1>3, <1>9, <1>10 DEF Private
  <1>12. x # Torn
    BY NotTorn DEF x
  <1>. QED  BY <1>0, <1>1, <1>11, <1>12, ReplaceKeeps DEF Steps

\* S5 works on what the process holds.
LEMMA ResolveKeeps == ASSUME StagesInd, NEW p \in Commands, Resolve(p) PROVE StagesInd'
  <1>. DEFINE m == mem[p]  f == Here(m, "er")
  <1>0. pc[p] = "er" /\ Replace(p, m, f, [er |-> m.bundle], "liveness")
    BY DEF Resolve, At, In, Cell, Here
  <1>1. /\ Shape("er", m) /\ Held(disk, "er", m)
        /\ m.alone /\ m.job.kind # "check" => Alone(disk, "er", m)
        /\ f \in Files /\ f \notin {Toml, Lock, Profile} /\ f[1] # "cert"
    BY <1>0, Running DEF InDir, Here
  <1>2. disk'[f] = [er |-> m.bundle] /\ \A g \in Files : g # f => disk'[g] = disk[g]
    BY <1>0, <1>1, After DEF Replace
  <1>3. \A name \in {"rules", "bundle"} : Here(m, name) \in Files /\ Here(m, name) # f
    BY <1>0, Running, Apart DEF InDir
  <1>4. /\ disk'[Lock] = disk[Lock] /\ disk'[Profile] = disk[Profile] /\ disk'[Here(m, "er")] = [er |-> m.bundle]
        /\ disk'[Here(m, "rules")] = disk[Here(m, "rules")] /\ disk'[Here(m, "bundle")] = disk[Here(m, "bundle")]
    BY <1>1, <1>2, <1>3, SharedFiles
  <1>. HIDE DEF f, m
  <1>5. Held(disk', "liveness", m)
    BY <1>1, <1>4 DEF Held, Making, Checking
  <1>6. m.alone /\ m.job.kind # "check" => Alone(disk', "liveness", m)
    BY <1>1, <1>4 DEF Alone, Making, Made, Checking
  <1>7. Private(disk', "liveness", m)
    BY <1>1, <1>5, <1>6 DEF Private, Shape, Fields
  <1>. QED  BY <1>0, <1>1, <1>7, ReplaceKeeps, NotTorn DEF Steps

\* S7: the liveness document is written, and awaited.
LEMMA JudgeKeeps == ASSUME StagesInd, NEW p \in Commands, Judge(p) PROVE StagesInd'
  <1>. DEFINE m == mem[p]  f == Here(m, "liveness")  n == [m EXCEPT !.met = FALSE]
  <1>0. pc[p] = "liveness" /\ Replace(p, n, f, Doc(m), "judged")
    BY DEF Judge, At, In, Cell, Here, Document, Doc
  <1>1. /\ Shape("liveness", m) /\ Held(disk, "liveness", m)
        /\ m.alone /\ m.job.kind # "check" => Alone(disk, "liveness", m)
        /\ f \in Files /\ f \notin {Toml, Lock, Profile} /\ f[1] # "cert"
    BY <1>0, Running DEF InDir, Here
  <1>2. disk'[f] = Doc(m) /\ \A g \in Files : g # f => disk'[g] = disk[g]
    BY <1>0, <1>1, After DEF Replace
  <1>3. /\ n.job = m.job /\ n.open = m.open /\ n.rows = m.rows /\ n.profile = m.profile /\ n.pinned = m.pinned
        /\ n.rules = m.rules /\ n.bundle = m.bundle /\ n.met = FALSE /\ n.alone = m.alone /\ n.raced = m.raced
        /\ Shape("judged", n)
    BY <1>1 DEF Shape, Fields
  <1>4. Doc(n) = Doc(m) /\ \A name : Here(n, name) = Here(m, name)
    BY <1>3 DEF Here, Doc
  <1>5. \A name \in {"rules", "bundle", "er"} : Here(m, name) \in Files /\ Here(m, name) # f
    BY <1>0, Running, Apart DEF InDir
  <1>6. /\ disk'[Lock] = disk[Lock] /\ disk'[Profile] = disk[Profile] /\ disk'[Here(n, "liveness")] = Doc(n)
        /\ disk'[Here(n, "rules")] = disk[Here(m, "rules")] /\ disk'[Here(n, "bundle")] = disk[Here(m, "bundle")]
        /\ disk'[Here(n, "er")] = disk[Here(m, "er")]
    BY <1>1, <1>2, <1>4, <1>5, SharedFiles
  <1>. HIDE DEF f, m, n
  <1>7. Held(disk', "judged", n)
    BY <1>1, <1>3, <1>6 DEF Held, Making, Checking
  <1>8. n.alone /\ n.job.kind # "check" => Alone(disk', "judged", n)
    BY <1>1, <1>3, <1>6 DEF Alone, Making, Made, Checking
  <1>9. Private(disk', "judged", n)
    BY <1>3, <1>7, <1>8 DEF Private
  <1>10. Doc(m) # Torn
    BY NotTorn DEF Doc
  <1>. QED  BY <1>0, <1>1, <1>9, <1>10, ReplaceKeeps DEF Steps

\* S10: the certificate made is a good one, and the files are those it pins.
LEMMA ProveKeeps == ASSUME StagesInd, NEW p \in Commands, Prove(p) PROVE StagesInd'
  <1>. DEFINE m == mem[p]  f == Here(m, "cert")
              q == [text |-> disk[Toml], lock |-> disk[Lock], rules |-> [rules |-> m.rules], bundle |-> m.bundle,
                    er |-> [er |-> m.bundle], liveness |-> m.judged, profile |-> m.pinned]
              c == [pins |-> q, rows |-> m.rows, document |-> Doc(m), cell |-> Head(m.job.cells), raced |-> m.raced]
              n == [m EXCEPT !.cert = c, !.bundle = Absent, !.judged = Absent, !.rows = 0, !.rules = 0, !.met = FALSE]
  <1>0. pc[p] = "cert" /\ Replace(p, n, f, c, "manifest")
    BY DEF Prove, Emit, Kept, Certificate, Pins, Document, Doc, At, In, Cell, Here, Toml, Lock
  <1>1. /\ Shape("cert", m) /\ Held(disk, "cert", m)
        /\ m.alone /\ m.job.kind # "check" => Alone(disk, "cert", m)
        /\ f \in Files /\ f \notin {Toml, Lock, Profile}
    BY <1>0, Running DEF InDir, Here
  <1>2. disk'[f] = c /\ \A g \in Files : g # f => disk'[g] = disk[g]
    BY <1>0, <1>1, After DEF Replace
  <1>3. /\ n.job = m.job /\ n.open = m.open /\ n.profile = m.profile /\ n.pinned = m.pinned
        /\ n.cert = c /\ n.met = FALSE /\ n.alone = m.alone /\ n.raced = m.raced
        /\ Shape("manifest", n)
    BY <1>1, ZenonT(40) DEF Shape, Fields
  <1>4. \A name : Here(n, name) = Here(m, name)
    BY <1>3 DEF Here
  <1>5. \A name \in {"rules", "bundle", "er", "liveness"} : Here(m, name) \in Files /\ Here(m, name) # f
    BY <1>0, Running, Apart DEF InDir
  <1>6. /\ disk'[Lock] = disk[Lock] /\ disk'[Profile] = disk[Profile] /\ disk'[Here(n, "cert")] = c
        /\ disk'[Here(n, "rules")] = disk[Here(m, "rules")] /\ disk'[Here(n, "bundle")] = disk[Here(m, "bundle")]
        /\ disk'[Here(n, "er")] = disk[Here(m, "er")] /\ disk'[Here(n, "liveness")] = disk[Here(m, "liveness")]
    BY <1>1, <1>2, <1>4, <1>5, SharedFiles
  <1>7. /\ c.pins.lock = disk[Lock] /\ c.rows = m.rows /\ c.pins.profile = m.pinned /\ c.pins.liveness = m.judged
        /\ c.pins.bundle = m.bundle /\ c.pins.rules = [rules |-> m.rules] /\ c.pins.er = [er |-> m.bundle]
        /\ c.document = Doc(m) /\ c.document.profile = m.profile /\ c.raced = m.raced /\ c.cell = Head(m.job.cells)
        /\ c \notin {Absent, Torn}
    BY NotTorn DEF Doc
  <1>. HIDE DEF f, m, n, c, q
  <1>8. CertOK(c)
    BY <1>1, <1>7 DEF CertOK, Held
  <1>9. Held(disk', "manifest", n)
    BY <1>1, <1>3, <1>6 DEF Held, Making, Checking
  <1>10. n.alone /\ n.job.kind # "check" => Alone(disk', "manifest", n)
    <2>1. SUFFICES ASSUME n.alone, n.job.kind # "check" PROVE Alone(disk', "manifest", n)
      OBVIOUS
    <2>2. Alone(disk, "cert", m)
      BY <2>1, <1>1, <1>3
    <2>3. m.pinned = m.profile /\ m.profile # Absent /\ m.profile # Torn /\ disk[Profile] = m.profile
      BY <2>2, <1>1 DEF Alone, Held, Making, Checking
    <2>4. Standing(disk', n)
      BY <2>2, <2>3, <1>3, <1>6, <1>7 DEF Standing, Alone, Making
    <2>. QED  BY <2>2, <2>3, <2>4, <1>3, <1>6 DEF Alone, Making, Made, Checking
  <1>11. Private(disk', "manifest", n)
    BY <1>3, <1>9, <1>10 DEF Private
  <1>. QED  BY <1>0, <1>1, <1>7, <1>8, <1>11, ReplaceKeeps DEF Steps

\* The manifest is written last.
LEMMA WriteManifestKeeps == ASSUME StagesInd, NEW p \in Commands, WriteManifest(p) PROVE StagesInd'
  <1>. DEFINE m == mem[p]  f == Here(m, "manifest")  x == [scenario |-> 1]
  <1>0. pc[p] = "manifest" /\ Replace(p, m, f, x, "check")
    BY DEF WriteManifest, At, In, Cell, Here
  <1>1. /\ Shape("manifest", m) /\ Held(disk, "manifest", m)
        /\ m.alone /\ m.job.kind # "check" => Alone(disk, "manifest", m)
        /\ f \in Files /\ f \notin {Toml, Lock, Profile} /\ f[1] # "cert"
    BY <1>0, Running DEF InDir, Here
  <1>2. disk'[f] = x /\ \A g \in Files : g # f => disk'[g] = disk[g]
    BY <1>0, <1>1, After DEF Replace
  <1>3. \A name \in {"rules", "bundle", "er", "liveness", "cert"} : Here(m, name) \in Files /\ Here(m, name) # f
    BY <1>0, Running, Apart DEF InDir
  <1>4. /\ disk'[Lock] = disk[Lock] /\ disk'[Profile] = disk[Profile]
        /\ \A name \in {"rules", "bundle", "er", "liveness", "cert"} : disk'[Here(m, name)] = disk[Here(m, name)]
        /\ disk'[Here(m, "manifest")] \notin {Absent, Torn}
    BY <1>1, <1>2, <1>3, SharedFiles, NotTorn
  <1>5. Standing(disk, m) => Standing(disk', m)
    BY <1>4 DEF Standing
  <1>. HIDE DEF f, m, x
  <1>6. Held(disk', "check", m)
    BY <1>1, <1>4 DEF Held, Making, Checking
  <1>7. m.alone /\ m.job.kind # "check" => Alone(disk', "check", m)
    BY <1>1, <1>4, <1>5 DEF Alone, Making, Made, Checking
  <1>8. Private(disk', "check", m)
    BY <1>1, <1>6, <1>7 DEF Private, Shape, Fields
  <1>9. x # Torn
    BY NotTorn DEF x
  <1>. QED  BY <1>0, <1>1, <1>8, <1>9, ReplaceKeeps DEF Steps

\* The memory of a command that opens a file, and that closes it.
Opened(m) == [m EXCEPT !.open = TRUE, !.met = FALSE]
Closed(m) == [m EXCEPT !.open = FALSE]
Put(f, x) == disk' = [disk EXCEPT ![f] = x]

\* A file is truncated and then filled, in two steps; in between it is torn
\* and its writer holds it open.
LEMMA WriteKeeps ==
    ASSUME StagesInd, NEW p \in Commands, pc[p] \in {"profile", "degrade"}, NEW f \in Files, f \notin {Toml, Lock},
           f[1] # "cert", Due(pc[p], mem[p]) = f, NEW x, x # Torn, NEW t \in Steps, Write(p, f, x, t),
           Put(f, Torn) => Private(disk', pc[p], Opened(mem[p])),
           Put(f, x) => Private(disk', t, Closed(mem[p]))
    PROVE  StagesInd'
  <1>. DEFINE a == Opened(mem[p])  b == Closed(mem[p])
  <1>1. /\ Shape(pc[p], mem[p]) /\ mem[p] \in {mem[p]} /\ pc[p] \in Steps
        /\ mem = [q \in Commands |-> mem[q]] /\ pc \in [Commands -> Steps]
    BY Running DEF StagesInd
  <1>2. said' = Nothing /\ faults' = faults /\ todo' = todo
    BY DEF Write, Quiet
  <1>3. SaidOK'
    BY <1>2, NothingSaid
  <1>4. CASE ~mem[p].open /\ disk' = [disk EXCEPT ![f] = Torn]
             /\ mem' = Seen(p, f, [mem EXCEPT ![p].open = TRUE, ![p].met = FALSE]) /\ pc' = pc
    <2>1. [mem EXCEPT ![p].open = TRUE, ![p].met = FALSE] = [mem EXCEPT ![p] = a]
      BY <1>1 DEF Shape, Fields, Opened, Closed
    <2>2. pc' = [pc EXCEPT ![p] = pc[p]]
      BY <1>1, <1>4
    <2>3. Wrote(p, f, Torn, a, pc[p])
      BY <1>4, <2>1, <2>2 DEF Wrote
    <2>4. a.open /\ a.job = mem[p].job
      BY <1>1 DEF Shape, Fields, Opened, Closed
    <2>5. Due(pc[p], a) = f
      BY <2>4 DEF Due, Here
    <2>6. Private(disk', pc[p], a)
      BY <1>2, <1>4 DEF Put
    <2>. HIDE DEF a
    <2>. QED  BY <1>1, <1>2, <1>3, <1>4, <2>3, <2>4, <2>5, <2>6, WriteStep
  <1>5. CASE mem[p].open /\ disk' = [disk EXCEPT ![f] = x]
             /\ mem' = Seen(p, f, [mem EXCEPT ![p].open = FALSE]) /\ pc' = [pc EXCEPT ![p] = t]
    <2>1. [mem EXCEPT ![p].open = FALSE] = [mem EXCEPT ![p] = b]
      BY <1>1 DEF Shape, Fields, Opened, Closed
    <2>2. Wrote(p, f, x, b, t)
      BY <1>5, <2>1 DEF Wrote
    <2>3. Private(disk', t, b)
      BY <1>2, <1>5 DEF Put
    <2>. HIDE DEF b
    <2>. QED  BY <1>2, <1>3, <2>2, <2>3, WriteStep
  <1>. QED  BY <1>4, <1>5 DEF Write, Goto, Quiet

\* S6: the profile.
LEMMA WriteProfileKeeps == ASSUME StagesInd, NEW p \in Commands, WriteProfile(p) PROVE StagesInd'
  <1>. DEFINE m == mem[p]  a == Opened(m)  b == Closed(m)
  <1>0. pc[p] = "profile" /\ Write(p, Profile, m.profile, "hash")
    BY DEF WriteProfile, At, Profile
  <1>1. /\ Shape("profile", m) /\ Held(disk, "profile", m)
        /\ m.alone /\ m.job.kind # "check" => Alone(disk, "profile", m)
        /\ m.profile # Torn
    BY <1>0, Running DEF Shape
  <1>2. Profile \in Files /\ Profile \notin {Toml, Lock} /\ Profile[1] # "cert" /\ Lock \in Files
    BY SharedFiles, Apart DEF Profile
  <1>3. /\ a.job = m.job /\ a.rows = m.rows /\ a.profile = m.profile /\ a.pinned = m.pinned
        /\ a.met = FALSE /\ a.alone = m.alone /\ a.raced = m.raced
        /\ Shape("profile", a)
    BY <1>1 DEF Shape, Fields, Opened
  <1>4. /\ b.job = m.job /\ b.rows = m.rows /\ b.profile = m.profile /\ b.pinned = m.pinned
        /\ b.met = m.met /\ b.alone = m.alone /\ b.raced = m.raced
        /\ Shape("hash", b)
    BY <1>1 DEF Shape, Fields, Closed
  <1>5. Due(pc[p], m) = Profile
    BY <1>0 DEF Due
  <1>. HIDE DEF m, a, b
  <1>6. ASSUME Put(Profile, Torn) PROVE Private(disk', "profile", a)
    <2>1. disk'[Lock] = disk[Lock]
      BY <1>6, <1>2, After DEF Put
    <2>2. Held(disk', "profile", a)
      BY <1>1, <1>3, <2>1 DEF Held, Making, Checking
    <2>3. a.alone /\ a.job.kind # "check" => Alone(disk', "profile", a)
      BY <1>1, <1>3, <2>1 DEF Alone, Making, Made, Checking
    <2>. QED  BY <1>3, <2>2, <2>3 DEF Private
  <1>7. ASSUME Put(Profile, m.profile) PROVE Private(disk', "hash", b)
    <2>1. disk'[Lock] = disk[Lock] /\ disk'[Profile] = b.profile
      BY <1>7, <1>2, <1>4, After DEF Put
    <2>2. Held(disk', "hash", b)
      BY <1>1, <1>4, <2>1 DEF Held, Making, Checking
    <2>3. b.alone /\ b.job.kind # "check" => Alone(disk', "hash", b)
      BY <1>1, <1>4, <2>1 DEF Alone, Making, Made, Checking
    <2>. QED  BY <1>4, <2>2, <2>3 DEF Private
  <1>8. m = mem[p] /\ a = Opened(mem[p]) /\ b = Closed(mem[p])
    BY DEF m, a, b
  <1>9. /\ Put(Profile, Torn) => Private(disk', pc[p], a)
        /\ Put(Profile, m.profile) => Private(disk', "hash", b)
    BY <1>0, <1>6, <1>7
  <1>10. "hash" \in Steps /\ pc[p] \in {"profile", "degrade"}
    BY <1>0 DEF Steps
  <1>. QED  BY <1>0, <1>1, <1>2, <1>5, <1>8, <1>9, <1>10, WriteKeeps

\* S3: the degraded stream.
LEMMA DegradeKeeps == ASSUME StagesInd, NEW p \in Commands, Degrade(p) PROVE StagesInd'
  <1>. DEFINE m == mem[p]  f == Here(m, "raw")  c == Head(m.job.cells)
              a == Opened(m)  b == Closed(m)
  <1>0. pc[p] = "degrade" /\ Write(p, f, c, "bundle")
    BY DEF Degrade, At, In, Cell, Here
  <1>1. /\ Shape("degrade", m) /\ Held(disk, "degrade", m)
        /\ m.alone /\ m.job.kind # "check" => Alone(disk, "degrade", m)
        /\ c \in Cells /\ f \in Files /\ f \notin {Toml, Lock, Profile} /\ f[1] # "cert"
    BY <1>0, Running DEF InDir, Here
  <1>2. /\ Here(m, "rules") \in Files /\ Here(m, "rules") # f /\ Lock \in Files /\ Profile \in Files
        /\ c # Torn
    BY <1>0, <1>1, Running, Apart, SharedFiles, NotTorn DEF InDir
  <1>3. /\ a.job = m.job /\ a.rows = m.rows /\ a.profile = m.profile /\ a.pinned = m.pinned /\ a.rules = m.rules
        /\ a.met = FALSE /\ a.alone = m.alone /\ a.raced = m.raced
        /\ Shape("degrade", a)
    BY <1>1 DEF Shape, Fields, Opened
  <1>4. /\ b.job = m.job /\ b.rows = m.rows /\ b.profile = m.profile /\ b.pinned = m.pinned /\ b.rules = m.rules
        /\ b.met = m.met /\ b.alone = m.alone /\ b.raced = m.raced
        /\ Shape("bundle", b)
    BY <1>1 DEF Shape, Fields, Closed
  <1>5. Due(pc[p], m) = f
    BY <1>0 DEF Due
  <1>6. (\A name : Here(a, name) = Here(m, name)) /\ (\A name : Here(b, name) = Here(m, name))
    BY <1>3, <1>4 DEF Here
  <1>. HIDE DEF m, a, b, f
  <1>7. ASSUME Put(f, Torn) PROVE Private(disk', "degrade", a)
    <2>1. /\ disk'[Lock] = disk[Lock] /\ disk'[Profile] = disk[Profile]
          /\ disk'[Here(a, "rules")] = disk[Here(m, "rules")]
      BY <1>7, <1>1, <1>2, <1>6, After DEF Put
    <2>2. Held(disk', "degrade", a)
      BY <1>1, <1>3, <2>1 DEF Held, Making, Checking
    <2>3. a.alone /\ a.job.kind # "check" => Alone(disk', "degrade", a)
      BY <1>1, <1>3, <2>1 DEF Alone, Making, Made, Checking
    <2>. QED  BY <1>3, <2>2, <2>3 DEF Private
  <1>8. ASSUME Put(f, c) PROVE Private(disk', "bundle", b)
    <2>1. /\ disk'[Lock] = disk[Lock] /\ disk'[Profile] = disk[Profile] /\ disk'[f] = c
          /\ disk'[Here(b, "rules")] = disk[Here(m, "rules")]
      BY <1>8, <1>1, <1>2, <1>6, After, ZenonT(40) DEF Put
    <2>2. disk'[Here(b, "raw")] = Head(b.job.cells)
      BY <2>1, <1>4, <1>6 DEF f
    <2>3. Held(disk', "bundle", b)
      BY <1>1, <1>4, <2>1, <2>2 DEF Held, Making, Checking
    <2>4. b.alone /\ b.job.kind # "check" => Alone(disk', "bundle", b)
      BY <1>1, <1>4, <2>1 DEF Alone, Making, Made, Checking
    <2>. QED  BY <1>4, <2>3, <2>4 DEF Private
  <1>9. m = mem[p] /\ a = Opened(mem[p]) /\ b = Closed(mem[p])
    BY DEF m, a, b
  <1>10. /\ Put(f, Torn) => Private(disk', pc[p], a)
         /\ Put(f, c) => Private(disk', "bundle", b)
    BY <1>0, <1>7, <1>8
  <1>11. "bundle" \in Steps /\ pc[p] \in {"profile", "degrade"}
    BY <1>0 DEF Steps
  <1>. HIDE DEF c
  <1>. QED  BY <1>0, <1>1, <1>2, <1>5, <1>9, <1>10, <1>11, WriteKeeps

-----------------------------------------------------------------------------
\* S0: the rows read are those of the lock.
LEMMA BitsLockKeeps == ASSUME StagesInd, NEW p \in Commands, BitsLock(p) PROVE StagesInd'
  <1>. DEFINE m == mem[p]  n == [m EXCEPT !.rows = disk[Lock].rows]
              t == IF m.pinned = Absent THEN "calraw" ELSE "rules"
  <1>0. pc[p] = "bits" /\ Hold(p, n, t)
    BY DEF BitsLock, At, Lock
  <1>1. /\ Shape("bits", m) /\ Held(disk, "bits", m)
        /\ m.alone /\ m.job.kind # "check" => Alone(disk, "bits", m)
    BY <1>0, Running
  <1>2. /\ n.job = m.job /\ n.rows = disk[Lock].rows /\ n.profile = m.profile /\ n.pinned = m.pinned
        /\ n.met = m.met /\ n.raced = m.raced /\ n.alone = m.alone /\ Shape("calraw", n) /\ Shape("rules", n)
    BY <1>1 DEF Shape, Fields
  <1>3. (t = "calraw" /\ m.pinned = Absent) \/ (t = "rules" /\ m.pinned # Absent)
    OBVIOUS
  <1>. HIDE DEF m, n, t
  <1>4. Held(disk, t, n)
    BY <1>1, <1>2, <1>3 DEF Held, Making, Checking
  <1>5. n.alone /\ n.job.kind # "check" => Alone(disk, t, n)
    BY <1>1, <1>2, <1>3 DEF Alone, Held, Making, Made, Checking
  <1>6. Private(disk, t, n)
    BY <1>2, <1>3, <1>4, <1>5 DEF Private
  <1>7. t \in Steps
    BY <1>3 DEF Steps
  <1>. QED  BY <1>0, <1>6, <1>7, HoldKeeps

\* S6: the profile is computed.
LEMMA CalIngestKeeps == ASSUME StagesInd, NEW p \in Commands, CalIngest(p) PROVE StagesInd'
  <1>. DEFINE m == mem[p]  x == [cal |-> m.job.cal, reference |-> disk[<<"calraw", m.job.cal>>]]
              n == [m EXCEPT !.profile = x]
  <1>0. pc[p] = "calingest" /\ Hold(p, n, "profile")
    BY DEF CalIngest, At
  <1>1. /\ Shape("calingest", m) /\ Held(disk, "calingest", m)
        /\ m.alone /\ m.job.kind # "check" => Alone(disk, "calingest", m)
    BY <1>0, Running
  <1>2. x \notin {Absent, Torn}
    BY NotTorn
  <1>. HIDE DEF x
  <1>3. /\ n.job = m.job /\ n.rows = m.rows /\ n.profile = x /\ n.pinned = m.pinned
        /\ n.met = m.met /\ n.raced = m.raced /\ n.alone = m.alone /\ Shape("profile", n)
    BY <1>1, <1>2 DEF Shape, Fields
  <1>. HIDE DEF m, n
  <1>4. Held(disk, "profile", n)
    BY <1>1, <1>3 DEF Held, Making, Checking
  <1>5. n.alone /\ n.job.kind # "check" => Alone(disk, "profile", n)
    BY <1>1, <1>2, <1>3 DEF Alone, Making, Made, Checking
  <1>6. Private(disk, "profile", n)
    BY <1>3, <1>4, <1>5 DEF Private
  <1>. QED  BY <1>0, <1>6, HoldKeeps DEF Steps

\* S6: the profile is read back; what is pinned is what was computed, or raced.
LEMMA HashProfileKeeps == ASSUME StagesInd, NEW p \in Commands, HashProfile(p) PROVE StagesInd'
  <1>. DEFINE m == mem[p]  n == [m EXCEPT !.pinned = disk[Profile], !.raced = Raced(p, "profile")]
              t == IF m.job.kind = "demo" THEN "bits" ELSE "rules"
  <1>0. pc[p] = "hash" /\ Hold(p, n, t)
    BY DEF HashProfile, At, Profile
  <1>1. /\ Shape("hash", m) /\ Held(disk, "hash", m)
        /\ m.alone /\ m.job.kind # "check" => Alone(disk, "hash", m)
    BY <1>0, Running
  <1>2. /\ n.job = m.job /\ n.rows = m.rows /\ n.profile = m.profile /\ n.pinned = disk[Profile]
        /\ n.met = m.met /\ n.raced = Raced(p, "profile") /\ n.alone = m.alone
        /\ Shape("bits", n) /\ Shape("rules", n)
    BY <1>1 DEF Shape, Fields
  <1>3. m.raced \subseteq n.raced /\ (m.met => "profile" \in n.raced) /\ (~m.met => n.raced = m.raced)
    BY <1>2 DEF Raced
  <1>4. t = "bits" \/ (t = "rules" /\ m.job.kind # "demo")
    OBVIOUS
  <1>. HIDE DEF m, n, t
  <1>5. Held(disk, t, n)
    BY <1>1, <1>2, <1>3, <1>4 DEF Held, Making, Checking
  <1>6. n.alone /\ n.job.kind # "check" => Alone(disk, t, n)
    BY <1>1, <1>2, <1>3, <1>4 DEF Alone, Making, Made, Checking
  <1>7. Private(disk, t, n)
    BY <1>2, <1>4, <1>5, <1>6 DEF Private
  <1>8. t \in Steps
    BY <1>4 DEF Steps
  <1>. QED  BY <1>0, <1>7, <1>8, HoldKeeps

\* S7: the document is read back.
LEMMA HashLivenessKeeps == ASSUME StagesInd, NEW p \in Commands, HashLiveness(p) PROVE StagesInd'
  <1>. DEFINE m == mem[p]  x == disk[Here(m, "liveness")]
              n == [m EXCEPT !.judged = x, !.raced = Raced(p, "liveness")]
  <1>0. pc[p] = "judged" /\ Hold(p, n, "cert")
    BY DEF HashLiveness, At, In, Cell, Here
  <1>1. /\ Shape("judged", m) /\ Held(disk, "judged", m)
        /\ m.alone /\ m.job.kind # "check" => Alone(disk, "judged", m)
    BY <1>0, Running
  <1>2. /\ n.job = m.job /\ n.rows = m.rows /\ n.profile = m.profile /\ n.pinned = m.pinned /\ n.judged = x
        /\ n.rules = m.rules /\ n.bundle = m.bundle
        /\ n.met = m.met /\ n.raced = Raced(p, "liveness") /\ n.alone = m.alone /\ Shape("cert", n)
    BY <1>1 DEF Shape, Fields
  <1>3. m.raced \subseteq n.raced /\ (m.met => "liveness" \in n.raced) /\ (~m.met => n.raced = m.raced)
    BY <1>2 DEF Raced
  <1>4. Doc(n) = Doc(m) /\ (\A name : Here(n, name) = Here(m, name)) /\ x = disk[Here(m, "liveness")]
    BY <1>2 DEF Here, Doc
  <1>. HIDE DEF m, n, x
  <1>5. Held(disk, "cert", n)
    BY <1>1, <1>2, <1>3, <1>4 DEF Held, Making, Checking
  <1>6. n.alone /\ n.job.kind # "check" => Alone(disk, "cert", n)
    BY <1>1, <1>2, <1>3, <1>4 DEF Alone, Making, Made, Checking
  <1>7. Private(disk, "cert", n)
    BY <1>2, <1>5, <1>6 DEF Private
  <1>. QED  BY <1>0, <1>7, HoldKeeps DEF Steps

\* A command takes its next job.
LEMMA StartKeeps == ASSUME StagesInd, NEW p \in Commands, Start(p) PROVE StagesInd'
  <1>. DEFINE j == Head(todo[p])  n == Fresh(j)  t == FirstStep(j)
  <1>1. /\ pc[p] = "idle" /\ disk' = disk /\ pc' = [pc EXCEPT ![p] = t] /\ mem' = [mem EXCEPT ![p] = n]
        /\ said' = Nothing /\ faults' = faults
    BY DEF Start, At, Goto, Quiet
  <1>2. j \in Jobs /\ todo' \in [Commands -> Seq(Jobs)]
    <2>1. todo[p] \in Seq(Jobs) /\ todo[p] # <<>> /\ todo \in [Commands -> Seq(Jobs)]
      BY DEF Start, StagesInd
    <2>2. Head(todo[p]) \in Jobs /\ Tail(todo[p]) \in Seq(Jobs)
      BY <2>1
    <2>. QED  BY <2>1, <2>2 DEF Start
  <1>3. t \in {"bits", "calraw", "check"} /\ (t = "calraw" => j.kind = "demo") /\ (t = "check" => j.kind = "check")
    BY <1>2 DEF FirstStep, Jobs
  <1>. HIDE DEF j, t
  <1>4. Shape(t, n)
    BY <1>2, <1>3 DEF Shape, Fields, Fresh
  <1>5. Held(disk, t, n)
    BY <1>3 DEF Held, Making, Checking, Fresh
  <1>6. n.job.kind # "check" => Alone(disk, t, n)
    BY <1>3, NotTorn DEF Alone, Making, Made, Checking, Fresh
  <1>7. Private(disk, t, n)
    BY <1>1, <1>4, <1>5, <1>6 DEF Private
  <1>8. ~mem[p].open /\ t \in Steps
    BY <1>1, <1>3 DEF StagesInd, Private, Shape, Fresh, Steps
  <1>9. SaidOK'
    BY <1>1, NothingSaid
  <1>. HIDE DEF n
  <1>. QED  BY <1>1, <1>2, <1>7, <1>8, <1>9, HoldStep

-----------------------------------------------------------------------------
\* What follows the first of several cells.
LEMMA Shorter ==
    ASSUME NEW S, NEW c \in Seq(S), Len(c) > 1
    PROVE  Tail(c) \in Seq(S) /\ Tail(c) # <<>>
  <1>1. c # <<>> /\ Len(c) \in Nat
    OBVIOUS
  <1>2. Tail(c) \in Seq(S) /\ Len(Tail(c)) = Len(c) - 1
    BY <1>1, HeadTailProperties
  <1>3. Len(Tail(c)) > 0
    BY <1>1, <1>2
  <1>4. \A t \in Seq(S) : Len(t) > 0 => t # <<>>
    BY EmptySeq
  <1>. QED  BY <1>2, <1>3, <1>4, Zenon

\* A check that ends keeps the invariant when what it says is right: the next
\* cell starts with nothing of the last one but the profile.
LEMMA ConcludeKeeps ==
    ASSUME StagesInd, NEW p \in Commands, pc[p] \in {"check"} \cup Checking, NEW verdict \in {"accepted", "refused"},
           Conclude(p, verdict), verdict = "accepted" => pc[p] = "replay",
           verdict = "refused" => ~(mem[p].alone /\ mem[p].job.kind # "check")
    PROVE  StagesInd'
  <1>. DEFINE m == mem[p]  n == [m EXCEPT !.job.cells = Tail(@), !.cert = Absent, !.relocked = FALSE]
  <1>1. /\ Shape(pc[p], m) /\ Held(disk, pc[p], m) /\ m.job \in Jobs /\ pc[p] # "idle"
        /\ m.alone /\ m.job.kind # "check" => Alone(disk, pc[p], m)
    BY Running DEF Checking
  <1>2. SaidOK'
    <2>1. said' = [kind |-> m.job.kind, verdict |-> verdict, own |-> m.own, met |-> m.met, alone |-> m.alone,
                   relocked |-> m.relocked, cert |-> m.cert]
      BY DEF Conclude
    <2>2. said'.verdict = verdict /\ said'.own = m.own /\ said'.met = m.met /\ said'.alone = m.alone
          /\ said'.cert = m.cert /\ said'.kind = m.job.kind /\ said'.relocked = m.relocked
      BY <2>1
    <2>3. verdict = "accepted" => /\ CertOK(m.cert)
                                  /\ m.cert.rows = m.cert.pins.lock.rows \/ m.relocked
                                  /\ m.own \/ m.met
      BY <1>1 DEF Held, Checking
    <2>4. verdict = "accepted" /\ m.alone /\ m.job.kind # "check" => m.own
      BY <1>1 DEF Alone, Checking
    <2>5. PinsAreWhatWasUsed'
      BY <2>2, <2>3 DEF PinsAreWhatWasUsed, Accepted, CertOK
    <2>6. AcceptIsAboutOwnRun'
      BY <2>2, <2>3 DEF AcceptIsAboutOwnRun, Accepted, CertOK
    <2>7. UndisturbedIsAccepted'
      BY <2>2, <2>4 DEF UndisturbedIsAccepted, Accepted
    <2>. QED  BY <2>2, <2>5, <2>6, <2>7 DEF SaidOK
  <1>3. disk' = disk /\ faults' = faults /\ todo' \in [Commands -> Seq(Jobs)]
    BY DEF Conclude, StagesInd
  <1>4. ~mem[p].open
    BY <1>1 DEF Shape, Checking
  <1>5. CASE Len(m.job.cells) > 1
    <2>1. n = [m EXCEPT !.job = [m.job EXCEPT !.cells = Tail(m.job.cells)], !.cert = Absent, !.relocked = FALSE]
      BY <1>1 DEF Shape, Fields
    <2>2. pc' = [pc EXCEPT ![p] = "bits"] /\ mem' = [mem EXCEPT ![p] = n]
      BY <1>5 DEF Conclude, Goto
    <2>3. n.job \in Jobs /\ n.job.kind = m.job.kind
      <3>1. n.job = [m.job EXCEPT !.cells = Tail(m.job.cells)]
        BY <1>1, <2>1 DEF Shape, Fields
      <3>2. Tail(m.job.cells) \in Seq(Cells) /\ Tail(m.job.cells) # <<>>
        <4>1. m.job.cells \in Seq(Cells)
          BY <1>1 DEF Jobs
        <4>. QED  BY <1>5, <4>1, Shorter
      <3>. QED  BY <1>1, <3>1, <3>2 DEF Jobs
    <2>4. /\ n.rows = m.rows /\ n.profile = m.profile /\ n.pinned = m.pinned /\ n.alone = m.alone
          /\ n.met = m.met /\ n.raced = m.raced /\ n.cert = Absent
      BY <1>1, <2>1 DEF Shape, Fields
    <2>5. Shape("bits", n)
      BY <1>1, <1>4, <2>1, <2>3 DEF Shape, Fields
    <2>6. Held(disk, "bits", n)
      BY <1>1, <2>4 DEF Held, Making, Checking
    <2>7. n.alone /\ n.job.kind # "check" => Alone(disk, "bits", n)
      BY <1>1, <2>3, <2>4 DEF Alone, Making, Made, Checking
    <2>8. Private(disk, "bits", n)
      BY <1>3, <2>5, <2>6, <2>7 DEF Private
    <2>. HIDE DEF n
    <2>. QED  BY <1>2, <1>3, <1>4, <2>2, <2>8, HoldStep DEF Steps
  <1>6. CASE ~(Len(m.job.cells) > 1)
    <2>. DEFINE i == Fresh(NoJob)
    <2>1. pc' = [pc EXCEPT ![p] = "idle"] /\ mem' = [mem EXCEPT ![p] = i]
      BY <1>6 DEF Conclude, Goto
    <2>2. Private(disk, "idle", i)
      BY DEF Private, Shape, Fields, Held, Fresh, Making, Checking
    <2>. HIDE DEF i
    <2>. QED  BY <1>2, <1>3, <1>4, <2>1, <2>2, HoldStep DEF Steps
  <1>. QED  BY <1>5, <1>6

\* O0 to O3: the certificate read is a good one, whoever wrote it.
LEMMA CanonicityKeeps == ASSUME StagesInd, NEW p \in Commands, Canonicity(p) PROVE StagesInd'
  <1>. DEFINE m == mem[p]  c == disk[Here(m, "cert")]  b == (m.cert \in {Absent, c})
              n == [m EXCEPT !.cert = c, !.own = b]
  <1>0. /\ pc[p] = "check"
        /\ (c \in {Absent, Torn} /\ Conclude(p, "refused")) \/ (c \notin {Absent, Torn} /\ Hold(p, n, "inputs"))
    BY DEF Canonicity, At, In, Cell, Here
  <1>1. /\ Shape("check", m) /\ Held(disk, "check", m) /\ m.job \in Jobs
        /\ m.alone /\ m.job.kind # "check" => Alone(disk, "check", m)
    BY <1>0, Running
  <1>2. m.alone /\ m.job.kind # "check" => Standing(disk, m)
    BY <1>1 DEF Alone, Made
  <1>3. CASE c \in {Absent, Torn} /\ Conclude(p, "refused")
    <2>1. ~(m.alone /\ m.job.kind # "check")
      BY <1>2, <1>3 DEF Standing
    <2>. QED  BY <1>0, <1>3, <2>1, ConcludeKeeps
  <1>4. CASE c \notin {Absent, Torn} /\ Hold(p, n, "inputs")
    <2>1. CertOK(c)
      BY <1>1, <1>4, HereIsFile DEF StagesInd, CertFiles, Here
    <2>2. /\ n.job = m.job /\ n.profile = m.profile /\ n.pinned = m.pinned /\ n.alone = m.alone
          /\ n.met = m.met /\ n.raced = m.raced /\ n.cert = c /\ n.own = b
      BY <1>1 DEF Shape, Fields
    <2>3. b \in BOOLEAN
      OBVIOUS
    <2>. HIDE DEF b
    <2>4. Shape("inputs", n)
      BY <1>1, <2>2, <2>3 DEF Shape, Fields
    <2>5. \A name : Here(n, name) = Here(m, name)
      BY <2>2 DEF Here
    <2>6. b \/ m.met
      BY <1>1 DEF Held, b
    <2>7. m.cert = c => b
      BY DEF b
    <2>. HIDE DEF c, n, m
    <2>8. Held(disk, "inputs", n)
      BY <1>1, <2>1, <2>2, <2>6 DEF Held, Making, Checking
    <2>9. n.alone /\ n.job.kind # "check" => Alone(disk, "inputs", n)
      <3>1. SUFFICES ASSUME n.alone, n.job.kind # "check" PROVE Alone(disk, "inputs", n)
        OBVIOUS
      <3>2. Alone(disk, "check", m) /\ Standing(disk, m)
        BY <3>1, <2>2, <1>1, <1>2
      <3>3. m.cert = c
        BY <3>2 DEF Standing, c
      <3>4. Standing(disk, n)
        BY <3>2, <3>3, <2>2, <2>5 DEF Standing
      <3>. QED  BY <3>2, <3>3, <3>4, <2>2, <2>5, <2>7 DEF Alone, Making, Made, Checking
    <2>10. Private(disk, "inputs", n)
      BY <2>4, <2>8, <2>9 DEF Private
    <2>. QED  BY <1>0, <1>4, <2>10, HoldKeeps DEF Steps
  <1>. QED  BY <1>0, <1>3, <1>4

\* O4: the pinned files are those on the disk now.
LEMMA InputsKeeps == ASSUME StagesInd, NEW p \in Commands, Inputs(p) PROVE StagesInd'
  <1>. DEFINE m == mem[p]  same == \A n \in DOMAIN Pinned(p) : disk[Pinned(p)[n]] = m.cert.pins[n]
  <1>0. /\ pc[p] = "inputs"
        /\ (same /\ Hold(p, m, "atoms")) \/ (~same /\ Conclude(p, "refused"))
    BY DEF Inputs, At, Pass
  <1>1. /\ Shape("inputs", m) /\ Held(disk, "inputs", m) /\ m.job \in Jobs
        /\ m.alone /\ m.job.kind # "check" => Alone(disk, "inputs", m)
        /\ \A name : In(p, name) = Here(m, name)
    BY <1>0, Running
  <1>2. CASE same /\ Hold(p, m, "atoms")
    <2>0. m.cert.pins.lock = disk[Lock]
      BY <1>2 DEF Pinned, Lock
    <2>1. m.alone /\ m.job.kind # "check" => Alone(disk, "atoms", m)
      BY <1>1 DEF Alone, Making, Made, Checking
    <2>2. Private(disk, "atoms", m)
      BY <1>1, <2>0, <2>1 DEF Private, Shape, Held, Making, Checking
    <2>. QED  BY <1>0, <1>2, <2>2, HoldKeeps DEF Steps
  <1>3. CASE ~same /\ Conclude(p, "refused")
    <2>1. Standing(disk, m) => same
      BY <1>1 DEF Standing, Pinned, Lock, Profile
    <2>2. ~(m.alone /\ m.job.kind # "check")
      BY <1>1, <1>3, <2>1 DEF Alone, Made, Checking
    <2>. QED  BY <1>0, <1>3, <2>2, ConcludeKeeps DEF Checking
  <1>. QED  BY <1>0, <1>2, <1>3

\* O4b and O5: the rows of the lock are those the certificate used, and then
\* so are those it pins.
LEMMA AtomsKeeps == ASSUME StagesInd, NEW p \in Commands, Atoms(p) PROVE StagesInd'
  <1>. DEFINE m == mem[p]
              passed == ProfileGates(p) /\ disk[Lock].rows = m.cert.rows
  <1>0. /\ pc[p] = "atoms"
        /\ (passed /\ Hold(p, m, "replay")) \/ (~passed /\ Conclude(p, "refused"))
    BY DEF Atoms, At, Pass, Lock
  <1>1. /\ Shape("atoms", m) /\ Held(disk, "atoms", m) /\ m.job \in Jobs
        /\ m.alone /\ m.job.kind # "check" => Alone(disk, "atoms", m)
        /\ \A name : In(p, name) = Here(m, name)
    BY <1>0, Running
  <1>2. CASE passed /\ Hold(p, m, "replay")
    <2>1. m.alone /\ m.job.kind # "check" => Alone(disk, "replay", m)
      BY <1>1 DEF Alone, Making, Made, Checking
    <2>3. m.cert.rows = m.cert.pins.lock.rows \/ m.relocked
      BY <1>1, <1>2 DEF Held
    <2>4. Private(disk, "replay", m)
      BY <1>1, <2>1, <2>3 DEF Private, Shape, Held, Making, Checking
    <2>. QED  BY <1>0, <1>2, <2>4, HoldKeeps DEF Steps
  <1>3. CASE ~passed /\ Conclude(p, "refused")
    <2>1. Alone(disk, "atoms", m) => passed
      BY <1>1 DEF Alone, Standing, Made, Checking, ProfileGates, Profile
    <2>2. ~(m.alone /\ m.job.kind # "check")
      BY <1>1, <1>3, <2>1
    <2>. QED  BY <1>0, <1>3, <2>2, ConcludeKeeps DEF Checking
  <1>. QED  BY <1>0, <1>2, <1>3

\* The remaining obligations accept, or refuse what was disturbed.
LEMMA ReplayKeeps == ASSUME StagesInd, NEW p \in Commands, Replay(p) \/ ReplayRejects(p) PROVE StagesInd'
  <1>. DEFINE m == mem[p]
  <1>0. pc[p] = "replay"
    BY DEF Replay, ReplayRejects, At
  <1>1. CASE Replay(p)
    BY <1>0, <1>1, ConcludeKeeps DEF Replay, Checking
  <1>2. CASE ReplayRejects(p)
    <2>1. /\ m.alone /\ m.job.kind # "check" => Alone(disk, "replay", m)
          /\ \A name : In(p, name) = Here(m, name)
      BY <1>0, Running
    <2>2. Alone(disk, "replay", m) => Standing(disk, m)
      BY DEF Alone, Made, Checking
    <2>3. ~(m.alone /\ m.job.kind # "check")
      BY <1>2, <2>1, <2>2 DEF ReplayRejects, Standing
    <2>. QED  BY <1>0, <1>2, <2>3, ConcludeKeeps DEF ReplayRejects, Checking
  <1>. QED  BY <1>1, <1>2

\* A command that dies leaves at most a torn file behind.
LEMMA CrashKeeps == ASSUME StagesInd, NEW p \in Commands, Crash(p) PROVE StagesInd'
  <1>. DEFINE i == Fresh(NoJob)
  <1>1. pc[p] # "idle" /\ pc' = [pc EXCEPT ![p] = "idle"] /\ said' = Nothing
        /\ faults' = faults \cup {"died"} /\ todo' = todo
    BY DEF Crash, Goto
  <1>2. \A d : Private(d, "idle", i)
    BY DEF Private, Shape, Fields, Held, Fresh, Making, Checking
  <1>3. SaidOK'
    BY <1>1, NothingSaid
  <1>4. CASE UNCHANGED disk /\ mem' = [mem EXCEPT ![p] = i]
    <2>1. todo' \in [Commands -> Seq(Jobs)]
      BY <1>1 DEF StagesInd
    <2>2. Private(disk, "idle", i)
      BY <1>1, <1>2
    <2>. HIDE DEF i
    <2>. QED  BY <1>1, <1>3, <1>4, <2>1, <2>2, HoldStep DEF Steps
  <1>5. ASSUME NEW f \in Files, f \notin {Toml, Lock}, disk' = [disk EXCEPT ![f] = Torn],
               mem' = Seen(p, f, [mem EXCEPT ![p] = i])
        PROVE  StagesInd'
    <2>1. Wrote(p, f, Torn, i, "idle")
      BY <1>1, <1>5 DEF Wrote
    <2>2. Private(disk', "idle", i)
      BY <1>1, <1>2
    <2>. HIDE DEF i
    <2>. QED  BY <1>1, <1>3, <1>5, <2>1, <2>2, WriteStep DEF Steps
  <1>6. \A name \in {"rules", "bundle", "er", "liveness", "cert", "manifest"} :
            In(p, name) \in Files /\ In(p, name) \notin {Toml, Lock}
    BY <1>1, Running DEF InDir
  <1>7. <<"calraw", mem[p].job.cal>> \in Files /\ <<"calraw", mem[p].job.cal>> \notin {Toml, Lock}
    BY <1>1, Running, HereIsFile, Apart
  <1>8. CASE /\ pc[p] \in {"rules", "bundle", "er", "liveness", "cert", "manifest"}
             /\ disk' = [disk EXCEPT ![In(p, pc[p])] = Torn] /\ mem' = Seen(p, In(p, pc[p]), [mem EXCEPT ![p] = i])
    BY <1>5, <1>6, <1>8
  <1>9. CASE /\ disk' = [disk EXCEPT ![<<"calraw", mem[p].job.cal>>] = Torn]
             /\ mem' = Seen(p, <<"calraw", mem[p].job.cal>>, [mem EXCEPT ![p] = i])
    BY <1>5, <1>7, <1>9
  <1>. QED  BY <1>4, <1>8, <1>9 DEF Crash

\* An edit of rules.toml or of the lock: nobody is alone any more, and a
\* checker between its two reads of the lock remembers it.
LEMMA EditKeeps ==
    ASSUME StagesInd, NEW f \in {Toml, Lock}, NEW x, x # Torn, Edit(f, x)
    PROVE  StagesInd'
  <1>1. /\ disk' = [disk EXCEPT ![f] = x] /\ faults' = faults /\ said' = Nothing /\ pc' = pc /\ todo' = todo
        /\ mem' = [p \in Commands |->
                     IF pc[p] = "idle" THEN mem[p]
                     ELSE [mem[p] EXCEPT !.alone = FALSE,
                                         !.relocked = @ \/ (pc[p] = "atoms" /\ f[1] = "lock")]]
    BY DEF Edit, At, Quiet
  <1>2. f \in Files /\ f[1] # "cert" /\ (f = Lock => f[1] = "lock")
    BY SharedFiles DEF Toml, Lock
  <1>3. \A g \in Files : disk'[g] = IF g = f THEN x ELSE disk[g]
    BY <1>1, <1>2 DEF StagesInd
  <1>4. ASSUME NEW p \in Commands
        PROVE  /\ Private(disk', pc[p], mem'[p]) /\ mem'[p].open = mem[p].open
               /\ Due(pc[p], mem'[p]) = Due(pc[p], mem[p])
    <2>. DEFINE m == mem[p]  n == mem'[p]  r == (m.relocked \/ (pc[p] = "atoms" /\ f[1] = "lock"))
    <2>1. Private(disk, pc[p], m)
      BY DEF StagesInd
    <2>2. CASE pc[p] = "idle"
      <3>1. n = m
        BY <1>1, <2>2
      <3>2. Private(disk', "idle", m)
        BY <2>1, <2>2 DEF Private, Shape, Held, Fresh, Making, Checking
      <3>. QED  BY <2>2, <3>1, <3>2
    <2>3. CASE pc[p] # "idle"
      <3>0. r \in BOOLEAN
        BY <2>1 DEF Private, Shape
      <3>1. n = [m EXCEPT !.alone = FALSE, !.relocked = r]
        BY <1>1, <2>3, <2>1 DEF Private, Shape, Fields
      <3>. HIDE DEF r
      <3>2. /\ n.job = m.job /\ n.open = m.open /\ n.rows = m.rows /\ n.profile = m.profile /\ n.pinned = m.pinned
            /\ n.bundle = m.bundle /\ n.judged = m.judged /\ n.cert = m.cert /\ n.own = m.own /\ n.raced = m.raced
            /\ n.met = m.met /\ n.alone = FALSE /\ n.relocked = r /\ Shape(pc[p], n)
        BY <2>1, <2>3, <3>0, <3>1 DEF Private, Shape, Fields
      <3>3. Doc(n) = Doc(m) /\ (\A name : Here(n, name) = Here(m, name)) /\ Due(pc[p], n) = Due(pc[p], m)
        BY <3>2 DEF Doc, Here, Due
      <3>4. m.job \in Jobs
        BY <2>1, <2>3 DEF Private, Shape
      <3>5. /\ disk'[Profile] = disk[Profile]
            /\ \A name \in {"raw", "liveness", "cert"} : disk'[Here(m, name)] = disk[Here(m, name)]
        BY <1>3, <3>4, HereIsFile, Apart, SharedFiles DEF InDir
      <3>6. (m.relocked => r) /\ (pc[p] = "atoms" => r \/ disk'[Lock] = disk[Lock])
        BY <1>2, <1>3, SharedFiles DEF r
      <3>. HIDE DEF n, m
      <3>7. Held(disk', pc[p], n)
        BY <2>1, <3>2, <3>3, <3>5, <3>6 DEF Private, Held
      <3>8. Private(disk', pc[p], n)
        BY <3>2, <3>7 DEF Private
      <3>. QED  BY <3>2, <3>3, <3>8 DEF n, m
    <2>. QED  BY <2>2, <2>3
  <1>5. CertFiles(disk')
    <2>1. \A y \in Directories : <<"cert", y>> \in Files /\ disk'[<<"cert", y>>] = disk[<<"cert", y>>]
      BY <1>2, <1>3 DEF Files, InDir
    <2>. QED  BY <2>1 DEF StagesInd, CertFiles
  <1>6. TornFiles(disk', faults', pc', mem')
    <2>1. SUFFICES ASSUME NEW g \in Files, disk'[g] = Torn, "died" \notin faults'
                   PROVE  \E p \in Commands : mem'[p].open /\ Due(pc'[p], mem'[p]) = g
      BY DEF TornFiles
    <2>2. disk[g] = Torn /\ "died" \notin faults
      BY <2>1, <1>1, <1>3
    <2>3. PICK p \in Commands : mem[p].open /\ Due(pc[p], mem[p]) = g
      BY <2>2 DEF StagesInd, TornFiles
    <2>4. mem'[p].open /\ Due(pc[p], mem'[p]) = g
      BY <2>3, <1>4
    <2>. QED  BY <2>4, <1>1
  <1>7. SaidOK'
    BY <1>1, NothingSaid
  <1>8. /\ disk' = [g \in Files |-> disk'[g]] /\ mem' = [p \in Commands |-> mem'[p]]
        /\ pc' \in [Commands -> Steps] /\ todo' \in [Commands -> Seq(Jobs)]
        /\ faults' \subseteq {"crash", "text", "lock", "died"}
    BY <1>1 DEF StagesInd
  <1>. QED  BY <1>1, <1>4, <1>5, <1>6, <1>7, <1>8 DEF StagesInd

-----------------------------------------------------------------------------
\* The invariant at the start.
LEMMA StagesStart == Init => StagesInd
  <1>. SUFFICES ASSUME Init PROVE StagesInd
    OBVIOUS
  <1>1. pc \in [Commands -> Steps] /\ mem = [p \in Commands |-> mem[p]] /\ disk = [f \in Files |-> disk[f]]
    BY DEF Init, Steps
  <1>2. todo \in [Commands -> Seq(Jobs)] /\ faults \subseteq {"crash", "text", "lock", "died"}
    BY SessionsAssumption DEF Init
  <1>3. \A p \in Commands : pc[p] = "idle" /\ mem[p] = Fresh(NoJob)
    BY DEF Init
  <1>4. Private(disk, "idle", Fresh(NoJob))
    BY DEF Private, Shape, Fields, Held, Fresh, Making, Checking
  <1>5. \A f \in Files : disk[f] # Torn
    BY DEF Init, Torn, Absent
  <1>6. CertFiles(disk)
    <2>1. \A x \in Directories : <<"cert", x>> \in Files
      BY DEF Files, InDir
    <2>. QED  BY <2>1 DEF Init, CertFiles
  <1>7. SaidOK
    BY DEF Init, SaidOK, Nothing, PinsAreWhatWasUsed, AcceptIsAboutOwnRun, UndisturbedIsAccepted, Accepted
  <1>8. TornFiles(disk, faults, pc, mem)
    BY <1>5 DEF TornFiles
  <1>. QED  BY <1>1, <1>2, <1>3, <1>4, <1>6, <1>7, <1>8 DEF StagesInd

\* One step per action.
LEMMA StagesStep == StagesInd /\ [Next]_vars => StagesInd'
  <1>. SUFFICES ASSUME StagesInd, [Next]_vars PROVE StagesInd'
    OBVIOUS
  <1>1. CASE UNCHANGED vars
    BY <1>1 DEF vars, StagesInd, SaidOK, PinsAreWhatWasUsed, AcceptIsAboutOwnRun, UndisturbedIsAccepted, Accepted
  <1>2. ASSUME NEW p \in Commands, Step(p) PROVE StagesInd'
    BY <1>2, BitsLockKeeps, CalRawKeeps, CalIngestKeeps, WriteProfileKeeps, HashProfileKeeps, HashLivenessKeeps,
       CompileKeeps, GenKeeps, DegradeKeeps, IngestKeeps, ResolveKeeps, JudgeKeeps, ProveKeeps, WriteManifestKeeps,
       CanonicityKeeps, InputsKeeps, AtomsKeeps, ReplayKeeps DEF Step
  <1>3. ASSUME NEW p \in Commands, Start(p) \/ Step(p) \/ Crash(p) PROVE StagesInd'
    BY <1>2, <1>3, StartKeeps, CrashKeeps
  <1>4. CASE EditText \/ EditLock
    <2>1. \A x \in TextEdits \cup LockEdits : x # Torn
      BY EditsAssumption DEF Torn
    <2>. QED  BY <1>4, <2>1, EditKeeps DEF EditText, EditLock, Toml, Lock
  <1>. QED  BY <1>1, <1>3, <1>4 DEF Next, Rest

\* The invariant holds in every reachable state, for every set of sessions.
THEOREM StagesInvariant == Spec => []StagesInd
  BY StagesStart, StagesStep, PTL DEF Spec

\* The shared files are whole or being written, and an accepted certificate
\* pins the lock, the profile and the liveness document it was computed from,
\* unless another command wrote the file between the write in S6 or S7 and the
\* digest of it: run_cell, S0, S6, S7, S10 and the checker's O4 and O5, with
\* any number of commands at once.
THEOREM PinsHold == Spec => []PinsInv
  <1>1. StagesInd => PinsInv
    <2>. SUFFICES ASSUME StagesInd PROVE PinsInv
      OBVIOUS
    <2>1. \A p \in Commands : (pc[p] = "idle") = (mem[p] = Fresh(NoJob))
      <3>1. SUFFICES ASSUME NEW p \in Commands PROVE (pc[p] = "idle") <=> (mem[p] = Fresh(NoJob))
        BY Zenon
      <3>2. Private(disk, pc[p], mem[p])
        BY DEF StagesInd
      <3>3. CASE pc[p] = "idle"
        BY <3>2, <3>3 DEF Private, Shape
      <3>4. CASE pc[p] # "idle"
        BY <3>2, <3>4 DEF Private, Shape, Fresh, NoJob, Jobs
      <3>. QED  BY <3>3, <3>4
    <2>2. \A f \in Files : disk[f] = Torn => "died" \in faults \/ \E p \in Commands : mem[p].open
      BY DEF StagesInd, TornFiles
    <2>3. DOMAIN disk = Files
      BY DEF StagesInd
    <2>. QED  BY <2>1, <2>2, <2>3 DEF StagesInd, SaidOK, PinsInv, TypeOK
  <1>. QED  BY <1>1, StagesInvariant, PTL

\* When a command reports an accept, the certificate checked is the one it
\* made, about the stream of its own cell, unless another command wrote that
\* file meanwhile: run_cell, S3, S4, S10 and S11 in a directory that cells
\* share.
THEOREM AcceptOwn == Spec => []AcceptIsAboutOwnRun
  <1>1. StagesInd => AcceptIsAboutOwnRun
    BY DEF StagesInd, SaidOK
  <1>. QED  BY <1>1, StagesInvariant, PTL

\* A run nobody disturbs ends with an accept of its own certificate, whatever
\* dead commands, other cells and other calibrations left behind (run_cell).
THEOREM UndisturbedAccepted == Spec => []UndisturbedIsAccepted
  <1>1. StagesInd => UndisturbedIsAccepted
    BY DEF StagesInd, SaidOK
  <1>. QED  BY <1>1, StagesInvariant, PTL
=============================================================================
