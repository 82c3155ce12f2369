------------------------------- MODULE Stages -------------------------------
(***************************************************************************)
(* The commands of the pipeline over the files they share: `run' and       *)
(* `demo' (run_cell of spectra_vs/pipeline.py) and the stand-alone checker *)
(* (verify of spectra_vs_verify). Commands may overlap and may die; every  *)
(* write truncates its file first; the rules and the lock may be edited at *)
(* any time. A file's content is what it was computed from, so two files   *)
(* are equal, and have equal digests, when their inputs were.              *)
(***************************************************************************)
EXTENDS Integers, Sequences, FiniteSets

CONSTANTS
    Commands,       \* slots in which a command may run
    Sessions,       \* [jobs: slot -> sequence of [kind, cal, cells], faults: what may go wrong]
    Directories,    \* run ids
    Calibrated,     \* calibration seeds
    Degraded,       \* degradation seeds
    TextEdits, LockEdits    \* what an edit may leave in rules.toml and in the lock

\* A cell: the run id does not cover the degradation seed, so two cells may
\* have one directory (run_id_for).
Cells == [dir : Directories, deg : Degraded]
Jobs == [kind : {"run", "demo", "check"}, cal : Calibrated, cells : Seq(Cells) \ {<<>>}]

ASSUME SessionsAssumption ==
    \A s \in Sessions : s.jobs \in [Commands -> Seq(Jobs)] /\ s.faults \subseteq {"crash", "text", "lock"}

ASSUME EditsAssumption == TextEdits \subseteq [rules : Nat, text : Nat] /\ LockEdits \subseteq [rows : Nat, dead : Nat]

VARIABLES
    disk,       \* file -> content
    pc,         \* command -> the step it is at, or "idle"
    mem,        \* command -> what the process holds
    todo,       \* command -> jobs not yet started
    said,       \* [kind, verdict, own, met, alone, relocked, cert] of a check that ended in this step
    faults      \* what may go wrong, and "died" once a command did

vars == <<disk, pc, mem, todo, said, faults>>

Shared == "shared"
InDir == {"rules", "raw", "bundle", "er", "liveness", "judged", "cert", "manifest"}
Files ==
    ({"toml", "lock", "profile"} \X {Shared}) \cup ({"calraw"} \X Calibrated) \cup (InDir \X Directories)

Absent == [absent |-> TRUE]
Torn == [torn |-> TRUE]         \* truncated, or written in part
Exists(f) == disk[f] # Absent

NoJob == [kind |-> "none", cal |-> "none", cells |-> <<>>]
Nothing == [kind |-> "none", verdict |-> "none", own |-> TRUE, met |-> FALSE, alone |-> TRUE,
            relocked |-> FALSE, cert |-> Absent]

\* `met', `raced', `alone' and `relocked' are history, for the properties:
\* whether another command wrote the file this one is to read back since this
\* one wrote it; the files for which that was so when they were read; whether
\* nobody wrote or edited anything meanwhile; whether the lock was edited
\* between the checker's two reads of it.
Fresh(job) ==
    [job |-> job, open |-> FALSE, rows |-> 0, profile |-> Absent, pinned |-> Absent, rules |-> 0,
     bundle |-> Absent, judged |-> Absent, cert |-> Absent, own |-> TRUE, met |-> FALSE, raced |-> {}, alone |-> TRUE, relocked |-> FALSE]

Cell(p) == Head(mem[p].job.cells)
In(p, name) == <<name, Cell(p).dir>>

Init ==
    /\ disk = [f \in Files |-> CASE f[1] = "toml" -> [rules |-> 1, text |-> 1]
                                 [] f[1] = "lock" -> [rows |-> 1, dead |-> 0]
                                 [] OTHER -> Absent]
    /\ pc = [p \in Commands |-> "idle"]
    /\ mem = [p \in Commands |-> Fresh(NoJob)]
    /\ \E s \in Sessions : todo = s.jobs /\ faults = s.faults
    /\ said = Nothing

-----------------------------------------------------------------------------
At(p, step) == pc[p] = step
Goto(p, step) == pc' = [pc EXCEPT ![p] = step]

\* The file a command has written and not yet read back.
Awaited(q) ==
    CASE pc[q] \in {"profile", "hash"} -> <<"profile", Shared>>
      [] pc[q] \in {"degrade", "bundle"} -> In(q, "raw")
      [] pc[q] = "judged" -> In(q, "liveness")
      [] pc[q] \in {"manifest", "check"} -> In(q, "cert")
      [] OTHER -> <<"none", Shared>>

\* What the other commands learn of a write, for the properties.
Seen(p, f, m) ==
    [q \in Commands |-> IF q # p /\ pc[q] # "idle"
                       THEN [m[q] EXCEPT !.met = @ \/ Awaited(q) = f, !.alone = FALSE] ELSE m[q]]

Quiet == said' = Nothing /\ UNCHANGED faults

\* scf.write_bytes: the file is truncated, then its octets arrive.
Write(p, f, content, next) ==
    \/ /\ ~mem[p].open
       /\ disk' = [disk EXCEPT ![f] = Torn]
       /\ mem' = Seen(p, f, [mem EXCEPT ![p].open = TRUE, ![p].met = FALSE])
       /\ Quiet /\ UNCHANGED <<pc, todo>>
    \/ /\ mem[p].open
       /\ disk' = [disk EXCEPT ![f] = content]
       /\ mem' = Seen(p, f, [mem EXCEPT ![p].open = FALSE])
       /\ Goto(p, next)
       /\ Quiet /\ UNCHANGED todo

\* The same where an interrupted write shows no more than a finished one of
\* other octets does: the checker alone parses the file, or S3 truncates it
\* next. It is torn by a crash alone.
Replace(p, m, f, content, next) ==
    /\ disk' = [disk EXCEPT ![f] = content]
    /\ mem' = Seen(p, f, [mem EXCEPT ![p] = m])
    /\ Goto(p, next)
    /\ Quiet /\ UNCHANGED todo

\* A step that changes the process's memory alone.
Hold(p, m, next) ==
    /\ mem' = [mem EXCEPT ![p] = m]
    /\ Goto(p, next)
    /\ Quiet /\ UNCHANGED <<disk, todo>>

\* The file is read back.
Raced(p, name) == IF mem[p].met THEN mem[p].raced \cup {name} ELSE mem[p].raced

FirstStep(job) ==
    CASE job.kind = "run" -> "bits" [] job.kind = "demo" -> "calraw" [] OTHER -> "check"

Start(p) ==
    /\ At(p, "idle") /\ todo[p] # <<>>
    /\ mem' = [mem EXCEPT ![p] = Fresh(Head(todo[p]))]
    /\ Goto(p, FirstStep(Head(todo[p])))
    /\ todo' = [todo EXCEPT ![p] = Tail(@)]
    /\ Quiet /\ UNCHANGED disk

\* S0: the lock is read (its creation is in module Rules).
BitsLock(p) ==
    /\ At(p, "bits")
    /\ Hold(p, [mem[p] EXCEPT !.rows = disk[<<"lock", Shared>>].rows],
            IF mem[p].pinned = Absent THEN "calraw" ELSE "rules")

\* S6: a clean run of its own, read back; the profile, read back for its digest.
CalRaw(p) ==
    /\ At(p, "calraw")
    /\ Replace(p, mem[p], <<"calraw", mem[p].job.cal>>, [cal |-> mem[p].job.cal], "calingest")

CalIngest(p) ==
    LET f == <<"calraw", mem[p].job.cal>> IN
    /\ At(p, "calingest")
    /\ Hold(p, [mem[p] EXCEPT !.profile = [cal |-> mem[p].job.cal, reference |-> disk[f]]], "profile")

WriteProfile(p) == At(p, "profile") /\ Write(p, <<"profile", Shared>>, mem[p].profile, "hash")

HashProfile(p) ==
    LET f == <<"profile", Shared>> IN
    /\ At(p, "hash")
    /\ Hold(p, [mem[p] EXCEPT !.pinned = disk[f], !.raced = Raced(p, "profile")],
            IF mem[p].job.kind = "demo" THEN "bits" ELSE "rules")

\* S1 compiles what rules.toml says now and writes the encodings.
Compile(p) ==
    LET now == disk[<<"toml", Shared>>].rules IN
    /\ At(p, "rules")
    /\ Replace(p, [mem[p] EXCEPT !.rules = now], In(p, "rules"), [rules |-> now], "gen")

\* S2 and S3 write one after the other to one raw.jsonl.
Gen(p) == At(p, "gen") /\ Replace(p, mem[p], In(p, "raw"), [dir |-> Cell(p).dir, deg |-> "clean"], "degrade")
Degrade(p) == At(p, "degrade") /\ Write(p, In(p, "raw"), Cell(p), "bundle")

Seal(p, bundle) ==
    Replace(p, [mem[p] EXCEPT !.bundle = bundle, !.raced = Raced(p, "raw")],
            In(p, "bundle"), bundle, "er")

\* Mutant of Ingest: a bundle that is there is used again.
IngestResumed(p) ==
    /\ At(p, "bundle")
    /\ Seal(p, IF disk[In(p, "bundle")] \in {Absent, Torn} THEN [raw |-> disk[In(p, "raw")]]
               ELSE disk[In(p, "bundle")])

\* S4 reads raw.jsonl back; a file cut short is a shorter stream.
Ingest(p) == At(p, "bundle") /\ Seal(p, [raw |-> disk[In(p, "raw")]])

\* S5 and S7 work on what the process holds.
Resolve(p) == At(p, "er") /\ Replace(p, mem[p], In(p, "er"), [er |-> mem[p].bundle], "liveness")

Document(p) == [bundle |-> mem[p].bundle, profile |-> mem[p].profile]
Judge(p) ==
    /\ At(p, "liveness")
    /\ Replace(p, [mem[p] EXCEPT !.met = FALSE], In(p, "liveness"), Document(p), "judged")

\* S7 reads the document back for its digest.
HashLiveness(p) ==
    /\ At(p, "judged")
    /\ Hold(p, [mem[p] EXCEPT !.judged = disk[In(p, "liveness")], !.raced = Raced(p, "liveness")], "cert")

\* What S10 pins: rules.toml and the lock are read again for their digests; the
\* profile's and the document's are those S6 and S7 took; all else comes from
\* memory.
Pins(p, profile) ==
    [text |-> disk[<<"toml", Shared>>], lock |-> disk[<<"lock", Shared>>],
     rules |-> [rules |-> mem[p].rules], bundle |-> mem[p].bundle,
     er |-> [er |-> mem[p].bundle], liveness |-> mem[p].judged, profile |-> profile]

\* The certificate: its pins, what it was computed from, and (history) `raced'.
Certificate(p, pins) ==
    [pins |-> pins, rows |-> mem[p].rows, document |-> Document(p), cell |-> Cell(p),
     raced |-> mem[p].raced]

\* What the process still needs once it has the certificate.
Kept(p, cert) == [mem[p] EXCEPT !.cert = cert, !.bundle = Absent, !.judged = Absent, !.rows = 0, !.rules = 0, !.met = FALSE]

Emit(p, pins) ==
    Replace(p, Kept(p, Certificate(p, pins)), In(p, "cert"), Certificate(p, pins), "manifest")

\* Mutant of Prove: the profile's digest is taken now.
ProveLate(p) == At(p, "cert") /\ Emit(p, Pins(p, disk[<<"profile", Shared>>]))

\* S10
Prove(p) == At(p, "cert") /\ Emit(p, Pins(p, mem[p].pinned))

\* Mutant of WriteManifest: a manifest that is there is kept.
WriteManifestOnce(p) ==
    /\ At(p, "manifest")
    /\ IF Exists(In(p, "manifest")) THEN Hold(p, mem[p], "check")
       ELSE Replace(p, mem[p], In(p, "manifest"), [scenario |-> 1], "check")

WriteManifest(p) == At(p, "manifest") /\ Replace(p, mem[p], In(p, "manifest"), [scenario |-> 1], "check")

-----------------------------------------------------------------------------
\* S11: the checker, in a process of its own. It accepts or refuses, be it
\* with a rejection or because a file is not there. A cell ends with its
\* verdict, and the command goes on with its next cell.
Conclude(p, verdict) ==
    /\ said' = [kind |-> mem[p].job.kind, verdict |-> verdict, own |-> mem[p].own,
                met |-> mem[p].met, alone |-> mem[p].alone, relocked |-> mem[p].relocked, cert |-> mem[p].cert]
    /\ IF Len(mem[p].job.cells) > 1
       THEN /\ mem' = [mem EXCEPT ![p].job.cells = Tail(@), ![p].cert = Absent, ![p].relocked = FALSE]
            /\ Goto(p, "bits")
       ELSE Goto(p, "idle") /\ mem' = [mem EXCEPT ![p] = Fresh(NoJob)]
    /\ UNCHANGED <<disk, todo, faults>>

Pass(p, next) == Hold(p, mem[p], next)

\* O0 to O3: the certificate is read once; what is not whole is not canonical.
Canonicity(p) ==
    /\ At(p, "check")
    /\ IF disk[In(p, "cert")] \in {Absent, Torn} THEN Conclude(p, "refused")
       ELSE Hold(p, [mem[p] EXCEPT !.cert = disk[In(p, "cert")],
                                   !.own = mem[p].cert \in {Absent, disk[In(p, "cert")]}], "inputs")

\* The file each pinned digest covers; rules.toml is advisory.
Pinned(p) ==
    [lock |-> <<"lock", Shared>>, profile |-> <<"profile", Shared>>, rules |-> In(p, "rules"),
     bundle |-> In(p, "bundle"), er |-> In(p, "er"), liveness |-> In(p, "liveness")]

\* O4: every digest is taken again.
Inputs(p) ==
    /\ At(p, "inputs")
    /\ IF \A n \in DOMAIN Pinned(p) : disk[Pinned(p)[n]] = mem[p].cert.pins[n]
       THEN Pass(p, "atoms") ELSE Conclude(p, "refused")

\* O4b parses the profile and the manifest.
ProfileGates(p) ==
    /\ disk[<<"profile", Shared>>] # Torn
    /\ disk[In(p, "manifest")] \notin {Absent, Torn}

\* O4b, then O5: the atoms are the live rows of the lock.
Atoms(p) ==
    /\ At(p, "atoms")
    /\ IF ProfileGates(p) /\ disk[<<"lock", Shared>>].rows = mem[p].cert.rows
       THEN Pass(p, "replay") ELSE Conclude(p, "refused")

\* The obligations that read the bundle and the document once more. On the
\* files the certificate was made from they hold (module Certificate); on
\* others they may fail.
Replay(p) == At(p, "replay") /\ Conclude(p, "accepted")
ReplayRejects(p) ==
    /\ At(p, "replay")
    /\ \/ disk[In(p, "bundle")] # mem[p].cert.pins.bundle
       \/ disk[In(p, "liveness")] # mem[p].cert.document
    /\ Conclude(p, "refused")

-----------------------------------------------------------------------------
\* A command dies where it is; a file it was writing stays as it was, or torn.
Crash(p) ==
    LET gone == [mem EXCEPT ![p] = Fresh(NoJob)] IN
    /\ pc[p] # "idle" /\ "crash" \in faults
    /\ \/ UNCHANGED disk /\ mem' = gone
       \/ /\ pc[p] \in {"rules", "bundle", "er", "liveness", "cert", "manifest"}
          /\ disk' = [disk EXCEPT ![In(p, pc[p])] = Torn]
          /\ mem' = Seen(p, In(p, pc[p]), gone)
       \/ /\ pc[p] = "calraw"
          /\ disk' = [disk EXCEPT ![<<"calraw", mem[p].job.cal>>] = Torn]
          /\ mem' = Seen(p, <<"calraw", mem[p].job.cal>>, gone)
    /\ Goto(p, "idle")
    /\ said' = Nothing /\ faults' = faults \cup {"died"} /\ UNCHANGED todo

\* Somebody edits rules.toml, or the lock.
Edit(f, x) ==
    /\ disk' = [disk EXCEPT ![f] = x]
    /\ mem' = [p \in Commands |-> IF At(p, "idle") THEN mem[p]
                                 ELSE [mem[p] EXCEPT !.alone = FALSE,
                                                     !.relocked = @ \/ (At(p, "atoms") /\ f[1] = "lock")]]
    /\ Quiet /\ UNCHANGED <<pc, todo>>

EditText == "text" \in faults /\ \E t \in TextEdits : Edit(<<"toml", Shared>>, t)
EditLock == "lock" \in faults /\ \E l \in LockEdits : Edit(<<"lock", Shared>>, l)

\* What a running command does next.
Step(p) ==
    \/ BitsLock(p) \/ CalRaw(p) \/ CalIngest(p) \/ WriteProfile(p) \/ HashProfile(p) \/ HashLiveness(p)
    \/ Compile(p) \/ Gen(p) \/ Degrade(p) \/ Ingest(p) \/ Resolve(p) \/ Judge(p)
    \/ Prove(p) \/ WriteManifest(p)
    \/ Canonicity(p) \/ Inputs(p) \/ Atoms(p)
    \/ Replay(p) \/ ReplayRejects(p)

Rest ==
    /\ \A p \in Commands : At(p, "idle") /\ todo[p] = <<>>
    /\ UNCHANGED vars

Next == (\E p \in Commands : Start(p) \/ Step(p) \/ Crash(p)) \/ EditText \/ EditLock \/ Rest

Spec == Init /\ [][Next]_vars

-----------------------------------------------------------------------------
Steps ==
    {"idle", "bits", "calraw", "calingest", "profile", "hash", "rules", "gen", "degrade", "bundle",
     "er", "liveness", "judged", "cert", "manifest", "check", "inputs", "atoms", "replay"}

\* Types. A file is torn only while a live command is writing it, or where one
\* died or was overtaken.
TypeOK ==
    /\ pc \in [Commands -> Steps] /\ DOMAIN disk = Files /\ faults \subseteq {"crash", "text", "lock", "died"}
    /\ said.verdict \in {"none", "accepted", "refused"}
    /\ \A p \in Commands : (pc[p] = "idle") = (mem[p] = Fresh(NoJob))
    /\ \A f \in Files : disk[f] = Torn => "died" \in faults \/ \E p \in Commands : mem[p].open

Accepted == said.verdict = "accepted"

\* What an accepted certificate pins is what it was computed from. The lock is
\* read by S0, again for its digest by S10 and twice by the checker, and may be
\* edited between any two of them, any number of times: only an edit between
\* the checker's two reads can hide one before; profiles/<family>.json is one file for every
\* calibration seed, and the run directory is shared, so the profile and the
\* liveness document hold unless another command wrote that file between its
\* write in S6 or S7 and the digest of it.
PinsAreWhatWasUsed ==
    LET c == said.cert IN
    Accepted => /\ c.rows # c.pins.lock.rows => said.relocked
                /\ c.pins.profile # c.document.profile => "profile" \in c.raced
                /\ c.pins.liveness # c.document => "liveness" \in c.raced

\* When a command reports an accept, the certificate checked is the one that
\* command made, unless another wrote cert.spcert meanwhile. Two cells that
\* differ in their degradation seed share a directory: whatever earlier and
\* later cells and crashes left in it, the certificate is about its own cell's
\* stream, unless another command wrote raw.jsonl between the write in S3 and
\* the read in S4.
AcceptIsAboutOwnRun ==
    LET c == said.cert IN
    Accepted => /\ ~said.own => said.met
                /\ c.pins.bundle.raw # c.cell => "raw" \in c.raced

\* A run nobody disturbs is accepted, whatever dead commands, other cells and
\* other calibrations left behind: it needs nothing cleaned up (run_cell).
UndisturbedIsAccepted ==
    said.kind \in {"run", "demo"} /\ said.alone => Accepted /\ said.own

\* The shared files are whole or being written, and what is pinned is used.
PinsInv == TypeOK /\ PinsAreWhatWasUsed
=============================================================================
