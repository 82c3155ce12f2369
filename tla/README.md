# SPECTRA: a verification project for the reference pipeline

SPECTRA takes an event log of a simulated attack, works out what an attacker
could have done that the sensors did not see, and publishes a certificate: a
set of controls (a *cut*) that severs every route to the goal, with a claim
about how small the cut is and a verdict about how robust it is. The code is a
Python pipeline of twelve stages (`src/python/spectra_vs`), the records it
exchanges (`src/python/spectra_core`) and an independent checker that re-derives
the certificate's claims (`src/python/spectra_vs_verify`). The other language
directories of the repository are stubs and design documents.

## 1. Inventory

| Part | Stage | State | Operations | What makes it correct |
|---|---|---|---|---|
| `rules.py` | S0, S1 | catalog, bit lock, compiled rule table | lock literals to mask bits, compile rules | a bit once written keeps its meaning; a compiled guard says what its text says |
| `gen.py`, `scenario.py` | S2 | event list | generate from a seed | none beyond determinism |
| `degrade.py` | S3 | raw stream | delete, black out, backdate, strip, forge | what is removed is what was asked, and S7 can tell |
| `ingest.py` | S4 | accepted lines, quarantine, hash chain | check, quarantine, seal | every line is accounted for once; the order of the lines is no matter |
| `resolve.py` | S5 | entities, bindings | bind by exact joins, flag ambiguity | a binding is a function of the record |
| `calibrate.py` | S6 | threshold per source and regime | quantiles of gaps | a threshold comes from a clean run |
| `liveness.py`, `temporal.py` | S7 | intervals per source, disputed records | classify each gap (ladder R1..R11), dispute | LIVE only where the source was demonstrably heard |
| `ground.py` | S8 | facts, instances | semi-naive saturation | P_min is the closure of the observed events |
| `envelope.py` | S9 | licences, ghosts | admit what a blind source could have missed | P_max holds every world the silence allows |
| `reach.py` | S10 | queue, counters, closure | unit propagation, witness tree | the closure is the least model |
| `cut.py` | S10 | corridor database, cut under test | solve, select, test, learn | the minimality claim is earned |
| `premium.py` | S10 | two searches, NEC, OCC | bracket, premium | the premium is a fact about the two programs |
| `cert.py`, `pipeline.py` | S10 | flags, verdict, certificate body | decide, build, emit | the verdict says no more than was shown |
| `checker.py` | S11 | certificate under test | obligations O0..O15 | accepts what the prover emits, rejects the rest |
| `pipeline.py`, `demo.py` | all | the files of a run, the profile, the lock | run a cell, read files back, pin their digests | an accepted certificate is about the inputs it pins |
| `store.py` | - | SQLite index | index a sealed bundle, query it | the index holds whole bundles |

A command is one process and one thread, and its stages hand one another files.
Commands share three things: the run directory (two cells that differ only in
their degradation seed have the same one), the profile of a scenario family, and
the rule and lock files, which people edit. `docs/kernel/slice-spec.md:938` allows
runs in parallel. The index is a database any number of processes may write.

### What is hard here

* **A worklist with counters** (`reach.py:242`). A repeated or an empty body, a
  fact queued twice, a cycle of instances that support one another: each may
  make the closure too small, and a closure that is too small *is* a false
  severance.
* **A search that learns and may be stopped anywhere** (`cut.py:577`). A wrong
  corridor prunes the right answer for good; the cap and the node budget may
  strike at any iteration, and the claim has to shrink with them.
* **Two runs that must stay comparable** (`premium.py:133`). The premium is a
  difference between two databases, each of which is only part of the truth.
* **One set of flags, two verdicts, two cuts** (`pipeline.py:1544`).
* **Two implementations of one rule book** (`cert.py:1328`, `checker.py`). They
  share no code on purpose; what one emits and the other rejects is a defect.
* **Half-open intervals of several sources** (`envelope.py:311`), not aligned to
  one another or to the tick, joined and cut again on both sides.
* **Rules evaluated when their last fact arrives** (`ground.py:444`), `distinct`
  and `absence` among them, over facts that may stand for a whole blind window.
* **A record that is not there** (`liveness.py:727`): removed by S3, refused by
  S4 or lost from the sealed file, it must not leave a LIVE verdict behind,
  and its removal must not make anything else LIVE.
* **Files that people edit** (`rules.py:327`): a bit must keep its meaning through
  edits of the catalog and the lock, and through a command that dies while it
  creates the lock.
* **Guards rewritten into a normal form** (`rules.py:1155`), with saturating
  arithmetic and fields that may be unbound.
* **Files written by one command and read back by another** (`pipeline.py:738`,
  `:874`), half-written, left by a dead command or edited meanwhile.
* **One transaction** (`store.py`) with a bad line, a repeated key, a lock held
  by another process or a crash in it.
* **Ceilings** on facts, instances, corridors, nodes, silent instances, DNF terms
  and control sets.

`PROJECT.json` lists these hazards line by line, with the properties that cover
each.

## 2. Plan

The modules, in the order in which they were written; all exist.

1. `GroundProgram`, `Derivation`, `Reach`: the fixpoint everything rests on.
2. `HittingSet`, `CutSearch`, `BranchBound`: the corridor loop, with `Reach` run
   step by step inside it, and the solver it calls.
3. `Premium`: two corridor loops and the difference between them.
4. `Certificate`: the rest of S10, composed on `Premium`.
5. `Obligations`, `Checker`: S11, over honest and dishonest certificates, and
   composed with S10 in `Certificate`.
6. `Licences`: S9 over every liveness document, with O10 of the checker.
7. `Grounding`: S8, and the saturations of S9.
8. `Degradation`, `Intake`, `Calibration`, `Liveness`, `Temporal`, composed in
   `Telemetry`: S3, S4, S6, S7.
9. `Rules`, `Guards`: S0 and S1 over any guards, then the guards themselves.
10. `Stages`: the commands over the files they share, crashes and edits.
11. `Resolution`, `EventIndex`, composed in `Records`: S5 and the index.

The proofs were written in the order `ReachProofs`, `AcceptProofs`,
`CertificateProofs`, `RecordsProofs`, `GroundingProofs`, `LicencesProofs`,
`TelemetryProofs`; what they share is in `Induction`.

Left to TLC: `BranchBound` and `Guards`, which declare recursive operators, and liveness.
What `Rules` needs of a guard is therefore a parameter, which `Guards` gives, so that the
lock and the compiled table can be proved about.

## 3. Modules and code

| Module | Models | State | Actions |
|---|---|---|---|
| `GroundProgram` | `ReachProgram` (`reach.py:109`) | - | `BuildAccepts`, `BodySize`, `Dependents`, `Supports`, `Blocked` |
| `Derivation` | what `reach` promises | `derived` | a fact is derived in any order |
| `Reach` | `reach`, `witness_tree`, `witness_mask` | `remaining`, queue, `order`, steps, control point | `SeedInstance`, `SeedDone`, `PopSeen`, `PopNew`, `Touch`, `TouchBlocked`, `TouchDone`, `Finish` |
| `HittingSet` | `AtomTable`, `canonical_select`, `_subset_minimal`, `all_minimum_cuts` | - | operators |
| `CutSearch` | `enumerate_psi`, `_finish`, `exhaustive_probe` | clause database, levels under test, the whole of `Reach` | `Solve`, `BudgetOut`, `ReachStep`, `Severed`, `Unblockable`, `Learn`, `FallbackDone` |
| `BranchBound` | `_bb`, `min_cardinality`, `_extendable` | a database and the solver's answer | `Solve` |
| `Premium` | `premium.py` | two searches, NEC, OCC, outcome | `SearchStep`, `StartUpper`, `Suppress`, `PremiumBudgetOut`, `Publish` |
| `Certificate` | `s10_prove`, `Verdict.build`, `build_body`, then `verify` | probes, trees, two verdicts, counterfactual, error | `Bracket`, `BracketDone`, `ProbeCall`, `ProbeStep`, `ProbeDone`, `Decide`, `BuildMax`, `BuildMin`, `Emit`, `Verify` |
| `Obligations` | O6 to O9, O12 to O15 of `checker.py` | - | one predicate per obligation |
| `Checker` | `verify` | body, obligations discharged, exit | `Discharge`, `Rejected`, `Accept` |
| `Licences` | `envelope.py`, O10 | document, facts, silent instances, licences, blind spots, the window at hand and its bindings | `OpenWindow`, `AddSilentDetect`, `DetectDone`, `Saturate`, `AddObligation`, `ObligationDone`, `Finish`, `O10_Licenses` |
| `Grounding` | the engine of `ground.py`; the saturations of `envelope.py` | facts, instances, licensed facts and their spans, deltas, ceilings, phase | `Seed`, `StartPass`, `Visit(r)`, `Saturated`, `OutOfIterations`, `AdmitStep(u)`, `StepsAdmitted`, `Oblige`, `ObligationsMet` |
| `Degradation`, `Intake`, `Calibration`, `Liveness`, `Temporal` | `degrade.py`, `ingest.py`, `calibrate.py`, `liveness.py`, `temporal.py` | - | operators |
| `Telemetry` | S3, S4, S6, S7 one after the other | raw file, lines read, quarantine, bundle, profile, document, disputed records | `Degrade`, `Blackout`, `Backdate`, `StripIdentity`, `ChainForge`, `Supply`, `ReadLine`, `MeetLabel`, `Seal`, `LoseLine`, `Calibrate`, `EditProfile`, `Judge`, `Refuse`, `Dispute`, `PassOverRules` |
| `Rules` | catalog, `s0_bits_lock`, `compile_rules`: canonical terms, masks, body patterns | catalog file, lock file, the command, the compiled table, the bits of every mask written | `EditCatalog`, `AppendBit`, `MarkBit`, `DiscardTorn`, `BitsLock`, `BitsLockRefuses`, `CrashInWrite`, `CompileRules`, `Exit` |
| `Guards` | `blocked_when` and `when` of `rules.py`: the terms a control tree distributes to, the canonical form of a data tree, their evaluation; the parameters of `Rules` | - | operators |
| `Stages` | `run_cell`, `demo`, the stand-alone `verify` | every shared file; per command its step and memory | `Start(p)`, `Step(p)`, `Crash(p)`, `Edit` |
| `Resolution` | `resolve.py`; the projection of bindings (`pipeline.py`) | - | operators |
| `EventIndex` | the queries of `store.py` | - | operators |
| `Records` | `resolve` record by record; `EventStore.load` over SQLite | bindings, facts; committed rows, loaders, write lock | `Resolve`, `Open(p)`, `Load(p)`, `Crash(p)` |
| `ReachProofs`, `CertificateProofs`, `RecordsProofs`, `GroundingProofs`, `LicencesProofs`, `TelemetryProofs` | the theorems of the module each is named after (`CertificateProofs` those of `HittingSet`, `CutSearch` and `Premium` too, `RecordsProofs` those of `Resolution` and `EventIndex`, `LicencesProofs` those of `Rules`) | - | - |
| `AcceptProofs` | the theorems of `Checker` and of `Stages`: what an ACCEPT says of the certificate, and of the run it was read from | - | - |
| `Induction` | lemmas of arithmetic, finite sets, sums, lists and difference constraints that the proofs share | - | - |

Conventions. A fact is a number and byte order is `<`. A control is its rank, a
literal is a pair (control, level), a cut is the set of literals a level vector
raises. A blocker term holds one literal, as the code asserts (`model.py:797`).
Ids, hashes and text are left out: a record stands for its id, a hash for what
was hashed, a file for what it was computed from. A choice the code makes by a
seed or by a digest is any choice. A `UNION` beside `\cup` is in
parentheses: SANY and tlapm give the two different precedences.

`Reach`'s closure appears in `Certificate` twice: step by step for the witness
probes, and as `LeastModel` where S10 merely asks it, which theorem
`ReachIsExact` justifies. Likewise `CutSearch` uses the declarative
`MinCardinality`, and run `branch_bound` shows that the solver computes it.

`Licences` and `Grounding` share the envelope between them: in `Licences` the
tables of rules and the resolved entities are constants, and the
saturation between the two loops may derive any of a set of facts; in `Grounding`
saturation is done in full and what silence licenses is any set of given steps. A
silent step is one instance per combination of the entities its rule may draw, tried
one after the other (`AddSilentDetect`) in the order of `product()`; `SilentBindings`
is what `_silent_bindings` returns, empty for a kind nobody has and cut off at
`MAX_SILENT_BINDINGS`.

In `Stages` a write is two steps, since the file is truncated first; a file's
content is the record of what its writer had read, and a digest is the content.
A command remembers which of its files another one wrote meanwhile (`raced`), and
whether the lock was written between O4, which hashes it, and O5, which reads its
rows (`relocked`), so that a property can say exactly when a certificate may be
about something else.

## 4. Runs

| Run | Question | Result |
|---|---|---|
| `reach` | Does the worklist compute the least model under every cut, in whatever order, by steps the abstract derivation allows? | holds |
| `cut_search` | Is every corridor necessary? Is each minimality claim earned, whatever cap or budget strikes when? Are the errors the code calls unreachable so? Does the loop return? | holds |
| `branch_bound` | Does the solver agree with its specification, budget or not? | holds |
| `certificate` | Is a published premium a fact about the programs? Does the checker accept all that S10 emits? Does ROBUST hold in every world? Is every control witnessed? When does S10 refuse? | holds |
| `checker` | What does an ACCEPT mean, whoever wrote the certificate? | holds |
| `licences` | Is what is licensed exactly what nobody could have seen? Is a short envelope declared? | what is licensed is exact; a short envelope is declared, except for the combinations of entities beyond their ceiling, and those are all it lacks |
| `grounding` | Is P_min the least model in whatever order rules are visited? Is P_max closed, does it hold every placement of a licensed step, and do the ceilings never make a derived fact an axiom? | holds |
| `grounding_worlds` | Is every world the silence allows inside P_max? | no: see below |
| `telemetry` | Is LIVE always witnessed? Can a loss hide, or make an instant LIVE? Is every line accounted for? Are the answers later stages get pointwise right? Is the correction of the clocks a smallest one, and does the pass say truly whether the rest can be satisfied? | holds |
| `rules` | Does a bit keep its meaning through edits and crashes? Do masks and canonical guards say what the guards say? Do patterns read the roles they name? | holds |
| `stages` | Is an accepted certificate about the inputs it pins? Is an undisturbed run accepted, whatever was left behind? | holds |
| `records` | Is resolution a function of the record? Do arguments reach the rules by role? Does the index hold whole bundles, do its queries tile, and does every load end? | holds |

An invariant of a configuration is often a conjunction: `SearchInv`, `CapsAreDeclared`,
`IntakeIsExact`, `DocumentIsExact`, `LockKeepsMeaning`, `TableIsExact`, `IndexIsExact` and the like
name the question, and their conjuncts, each with its own comment in the module, are
the parts of the answer. The type invariant of a module is one of the conjuncts.

`grounding_worlds`: a licensed step has a representative fact at the first
instant of its blind window, and `seq` reads the whole window of a licensed fact.
When a record supports that very fact it leaves the licensed ones (`ground.py:405`)
and `seq` reads its own tick only; a world in which a second, unseen step happened
later in the window is then not covered, although `ground.py:552` says P_max is "a
superset of the union over realizable worlds". `PlacementsCovered` of run
`grounding`, proved for every table of the shipped shape, shows that this is the only
exception.

### Smaller disagreements between text and code

Met while modelling and not given a run of their own.

Cuts and verdicts:

* `cut.py:28` calls the result of `canonical_select` the lexicographic minimum under
  `Cut.compare_key`; lowering in ascending rank (`cut.py:486`) returns levels
  (1, 2) where (2, 1) compares smaller.
* `docs/OVERVIEW.md:192` publishes a premium only at fixpoint; the `mask == 0`
  return (`cut.py:639`) leaves `complete` true without one. `premium.py:273` says
  of *every severing* cut what holds of every *minimum* cut.
* `_build_verdict` never passes `witness_present` (`pipeline.py:1406`), so every
  UNSAFE verdict ends S10 with VRD-002; `slice-spec.md:873` has it published. A
  corridor cap that strikes on one side only ends S10 with VRD-004 where the text
  only lowers the claim. `RefusesOnlyUnsafeAndOneSidedCap` shows that there is no third
  case.
* The counterfactual is computed with the premises of voided ghosts still axioms,
  so it is not always the verdict that voiding would give.
* The clause printed for OPTIMISTIC_ONLY (`cert.py:732`) says the upper program
  derives the goal; after the tamper fallback (`pipeline.py:1299`) it may not.

Checker:

* An accepted EXACT_EXHAUSTIVE need not be a minimum when the prover is not
  honest: a clause that is no corridor hides a smaller cut (`checker.py:1805`), and
  no obligation asks whether the clauses are corridors. `AcceptedExhaustiveIsMinimum`
  says that this is the only way; the claim of EXACT_PSI_RELATIVE needs no such
  condition (`AcceptedExactIsMinimum`).
* No obligation compares the safety claimed with the goals: O14 and O14b hold it
  against flags, witnesses and suspected sources (`checker.py:1602`), O7 the goals
  against the invariant. A certificate whose goal rows say that the upper program
  derives a goal may claim ROBUST and be accepted, although `checker.py:36` says of an
  accept that "the certificate is internally consistent with the hashed inputs" and
  `docs/READING-A-CERTIFICATE.md:190` that "the strongest one requires the goal to be
  underivable in the **upper** program". S10 never emits one (`RobustInEveryWorld`).
* O10 rejects a licence of a rule with two producing sources that are blind at
  overlapping but different times. The shipped rules have one source each.
* O15 applies the bound on control sets to EXACT_PSI_RELATIVE too
  (`checker.py:1776`), `slice-spec.md:773` only to EXACT_EXHAUSTIVE.
* A witness tree is not checked to head a goal or to avoid the cut
  (`checker.py:1418`); `slice-spec.md:762` says it re-derives the goal.

Envelope and grounding:

* `_silent_bindings` stops at `MAX_SILENT_BINDINGS` (`envelope.py:425`) and, unlike the
  ceiling on instances, records no cap: an envelope, a P_max and a certificate
  without `grounding_capped` may then lack steps the silence allows. `envelope.py:412`
  says "Every entity-argument combination" and "Every combination is admitted rather
  than one", `envelope.py:49` "Every such combination is admitted".
  `CompleteUpToBindings` says which steps an unflagged envelope has and that these
  combinations are the only ones it lacks.
* A `silent_possible` rule with a variable that `silent_bind_kinds` does not name is
  accepted and yields nothing (`envelope.py:509`), and so does a kind that no resolved
  entity has (`envelope.py:420`); neither is reported. An obligation whose head
  its trigger does not bind leaves neither ghost nor blind spot (`envelope.py:571`).
* A ghost that is itself the trigger of an earlier obligation is not looked at
  (`envelope.py:561`); `slice-spec.md:358` has no such exception.
* `absence` or `distinct` over a *derived* predicate would depend on the order of
  the rules; the shipped table has none, and neither has the instance.
* A `silent_possible` rule that PROPAGATES always ends in `assert_ghost_support`; the
  rule loader does not refuse one.

Telemetry:

* A record missing between two records of one instant leaves that instant LIVE;
  the order of the ladder (`liveness.py:736`) says a span known to be incomplete is
  not. `NoHiddenLoss` therefore excepts an instant at which another record survives.
* `absence_oracle`'s docstring (`pipeline.py:968`) and `absence_status`
  (`liveness.py:1645`) disagree on when an absence is observed.
* A collapsed profile is filed under a regime no instant has and is not found by
  S7; with `m_min` above 2 every window is BLIND.

Rules and commands:

* `axiom_roles_of` (`pipeline.py:403`) relies on an order `_check_axiom_order`
  (`rules.py:1697`) does not check for the pattern of an `absence` over a predicate
  no body names. `_parse_temporal` checks the slots of `seq` only.
* `eval_when` (`rules.py:1155`) says that a guard over an unbound slot is false;
  under `!=`, `<=` and `not` it is true.
* A level put in the middle of a control keeps its bits and changes the level name
  behind them; only `controls_hash` shows it.
* `prove --no-profile` calibrates all the same; `verify` runs the pipeline again and
  overwrites the certificate before it checks it.
* The profile and `liveness.json` are read back from shared files for their digest
  (`pipeline.py:738`, `:874`) and the run id leaves out the seeds (`pipeline.py:236`),
  so with overlapping commands an accepted certificate may pin a profile its
  thresholds did not come from (`cert.py:39`). `PinsAreWhatWasUsed` and
  `AcceptIsAboutOwnRun` say that this needs another command's write in between. An
  archived certificate is refused once another calibration has rewritten the profile.

### Bounds

* `reach`: five facts and every subset of a pool of eight instances chosen for
  its shapes (chain, join, cycle, repeated body, empty body); the theorems remove
  the bound.
* `cut_search`, `certificate`: three controls of one or two levels, enough for a cut
  that needs two controls, a tie between two cuts and a level that has to be
  raised; the corridor cap is within the number of corridors the pools have.
* `branch_bound`: up to three clauses over four controls, where the lower bound
  prunes.
* `licences`: two sources, every document over three cells of 2, 1 and 3 instants
  with two instants to the tick, so that runs begin within a tick, overlap in part,
  change their reason or their witness. Of the four detect rules one draws from four
  combinations, one more than the ceiling on bindings (3), one draws none and has one
  binding, one needs a kind nobody has, and one has a variable nobody binds; of the
  three obligations one has a head its trigger does not bind. The ceiling on
  instances is 8, which some documents reach, in the middle of a window too, and
  others do not. The two-source rule is one the format allows.
* `grounding`: six rules in the shapes of the shipped table, every subset of three
  families of records, one obligation, two unseen steps whose windows span several
  ticks; ceilings of 11 facts, 6 instances and 4 iterations, each of which some
  bundles meet and others do not (6 iterations in `grounding_worlds`).
* `telemetry`: one source of each integrity class over eight instants in two regimes,
  four streams, every choice of each operator of S3, external files with every kind
  of defective line, five calibrations, some of which fail a gate. `U64Max` is 5 so
  that a threshold can be too wide.
* `rules`: masks of three bits, so that an edit can exhaust them; four catalogs, among
  them one with a level put in the middle and one too wide; guards over all node
  kinds, with integers up to 3 so that sums saturate, and a limit of 2 on DNF terms.
* `stages`: two slots for commands and five sessions: two runs in one directory, either
  of which may die; a demo of two cells beside a run that calibrates anew; a demo and a
  run beside a check, with crashes and edits of the rules; two runs beside two checks,
  with edits of the lock; a run beside a check with all three. Crashes and edits may
  happen anywhere and any number of times. The theorems remove the bound on commands,
  cells and directories.
* `records`: every order of up to three of five records under two accepted join tables
  and a refused one; two loaders, three loads over five files (disjoint, overlapping,
  with a bad line, empty).

### Deadlock and fairness

The configurations that say `CHECK_DEADLOCK FALSE` are those whose last state has
no successor; in the others the end is a step of its own and deadlock is checked.

A command takes its next step until it returns. `Grounding` says so with weak fairness
of its next-state relation; `CutSearch`, which runs `Reach` step by step, says that steps
go on for ever or the loop has returned, and `NoInternalError` shows that before that
there is always a step to take. `Records` has several processes, and the fairness is
that of the operating system, weak fairness per process; a load waits for nothing but
SQLite's write lock, and that wait ends with the lock or with SQLite's timeout.
Crashes and starts are not fair. No other run needs fairness.

## 5. Proofs

Each theorem holds for every value of the constants that the named assumptions
allow, and so for any number of facts, rules, controls, records, commands or files.
43 are listed in `PROJECT.json`. In each module the argument is one inductive
invariant, a conjunction of named parts, with a lemma for each action.

**Induction.** The provers cannot use the library's induction schemes, which take an
operator as a parameter. `Induction` states what is needed over *sets* instead: a
set of naturals that is not empty has a least member (`LeastNat`), and a set that
holds 0 and with each number its successor is all of `Nat` (`NatSetInduction`). With
them the values of recursive functions and folds over finite sets can be reasoned
about: a fold over a sequence goes through it step by step, a sum exists and does not
depend on the order of the summands, sums of
differences telescope, the fibres of a function add up, a finite set has exactly one
list ascending in a strict total order, ascending lists of neighbouring parts join,
and difference constraints that can be met have a greatest solution.

**`ReachProofs`**: `TypeCorrect`, `InductiveInvariant`, `CountersAreExact`,
`ReachIsExact`, `LeavesAxioms`, `AntitoneClosure`, `ReachRefines`, `WitnessIsTree`.
`IndInv`: each counter is the number of distinct body facts not yet counted, a queued
or expanded fact is in the least model, an enabled instance whose counter is zero has
its head queued or expanded, and an expanded fact that is no axiom has a support
expanded strictly before it. Soundness is the second part; exactness follows at the
end of the loop, where the queue is empty and the third part says that what was
expanded is closed. The fourth makes the witness tree acyclic.

**`AcceptProofs`**, the certificate: what ACCEPT means, whoever wrote it. `CheckerInv`
says that every obligation counted is true of the body; at ACCEPT all of them are, and
the four results follow from the obligations: `AcceptSevers` because a set closed under
the instances the cut leaves bounds every derivation, `AcceptedWitnesses` because a
smaller cut derives more, `AcceptedExact` because a smaller hitting set can be padded
to one control fewer than the cut and raised to the top. `AcceptedExhaustive` goes the
same way with one step more: O15 runs the fixpoint only over sets that hit every clause,
and the padded set does, since the clauses are corridors and the smaller cut severs
(`TriedAbove`).

**`CertificateProofs`**, the corridor loop: `SearchInvariant`, `ExactIsEarned`,
`ClaimsAreEarned`, `SearchAdvancing`. First what the selections of `HittingSet` return:
the greedy lowering of `canonical_select` a hitting set of least cardinality of which no
level can go down, the fallback one no control of which can be dropped. Then `IndInv` of
`Reach` is carried through the loop, with the addition that every clause is hit by
every severing cut. That a clause just learned is one needs the witness: it is the set
of blockers of a derivation that the current cut leaves open, so the clause misses the
current cut and every severing cut meets it.

The rest of S10: `PremiumEarned`, `RobustEverywhere`, `ControlsWitnessed`,
`RefusalsExplained`, `EmittedAccepted`. The invariant has a part for each phase:
two searches that satisfy `SearchInd`, the second over a program that contains the
first; the probes done, each with a tree that derives a goal without its control; and
the verdicts as functions of the flags. NEC and OCC are facts about all minimum cuts
because at a fixpoint the minimum covers of the clauses that sever are those cuts.
`EmittedAccepted` goes through the obligations O6 to O15 one by one. Its hypothesis
`CatalogFits` is that no number of equally large control sets exceeds the cap under
which the checker re-enumerates them; the code's cap of 200000 (`checker.py:93`) makes
that true of catalogs of up to 20 controls, and the shipped one has fewer.

**`AcceptProofs`**, the run: `PinsHold`, `AcceptOwn`, `UndisturbedAccepted`, over any
number of commands at once, each with any number of cells, with crashes and edits. The invariant
says of each command, as an operator on the disk, its step and its memory, what it
holds of each file between writing it and reading it back (`Held`), and what of the
disk is still its own while nobody has disturbed it (`Standing`, `Alone`, `Private`);
a step of one command is then one argument for itself and one for all the others.

**`RecordsProofs`**: `IndexExact`, `ResolutionExact`, `ArgsByRole`. For the index, what
the loaders have committed and what the holder of the write lock has inserted are the
rows of exactly the files whose loads got that far; the queries are the only ascending
lists of their sets, whence windows tile. For resolution, every table is shown to be a
function of the *set* of records seen, so that no order matters; that the counters add
up is a sum over fibres.

**`GroundingProofs`**: `LowerLeast`, `CapsDeclared`, `PlacementsHeld`, `WorldsHeld`. What a rule fires on may change
while its turn lasts, and it reads snapshots of what is licensed. The invariant holds
that every fact is seeded, licensed or headed by an instance over facts there, that
instances fired under the snapshot in force when they were made, and, as long as no
ceiling has struck, that all choices over facts of earlier passes have been tried. Two
facts carry it: a choice of facts fires or not whatever else is in the base, as long as
the watched predicates do not change; and a looser snapshot only fires more.

The worlds need one part more: the window recorded for the head of a step that went in
holds the window of the step (`Spread`; it is only ever widened). Each fact of a world then
has one of the envelope that stands for it, itself or the representative of a licensed
step whose window holds its tick. What fires over the instants of a world fires over the
facts that stand for them and has the same head (`StandInsFire`): `seq` because the windows
are wider, the data guard because it is suspended, `distinct` and `absence` because they
read recorded facts only. So the envelope and the steps where they happened are closed
(`WorldsHeld`), and whatever the world derives is among them (`PlacementsHeld`).

**`LicencesProofs`**: `LicencesExact`, `EnvelopeUpToBindings`. The cursor scan is shown,
row by row, to reach the end of a window exactly when every instant of it is silent
(`ScanExact`), and the merged runs to be silent exactly where the rows are, each saying
what some row under it says (`RunsAre`). Between two neighbouring boundaries nothing
changes, so one instant speaks for an elementary window, whence the joint windows are
the maximal blind stretches (`JointWindowsAre`). The invariant `LicencesInd` adds what
the two loops have done: every window of a rule dealt with has the instances of the
combinations below the ceiling on bindings and no other, the window at hand those of the
combinations tried, and every trigger dealt with is answered, as long as the ceiling on
instances has not struck.

Also in `LicencesProofs`, the rules: `LockKept`, `TableExact`. `RulesInd` has three
parts. The entries of the lock are a table of bits, in which no literal has two. What
was ever archived is still in it (`Kept`): a bit in a mask is the place of an entry, and
edits only append entries and mark them. A command that dies leaves a prefix of the
table it was writing, which may lack bits; but it writes the lock only when there is
none, and as long as there is none nothing has been archived. And what a command
has loaded and compiled belongs to its step (`Stage`). The rest is about the operators.
Dropping all but the highest level of each control leaves a term with the same meaning
(`StrongestIs`); of the terms that imply a given one, some minimal one is kept, so the
canonical terms say what the distributed ones do and none implies another
(`CanonicalIs`); two literals have two bits, so a mask, read through the lock, says what
its term says (`MasksSay`). A list that ascends is the list of its members
(`SortedAlready`), so the roles sorted by name meet the variables of a pattern in its
own order, which `_check_axiom_order` asked for (`PatternsBind`). The theorems hold
whatever terms a guard distributes to.

**`TelemetryProofs`**: `IntakeInvariant`, `IntakeExact`, `JudgeInvariant`,
`LiveWitnessed`, `HiddenLoss`, `SuppressionHidesNothing`, `DocumentExact`,
`DisputeExact`. The invariants are two.
`IntakeInd` says that the lines read and refused are a function of the file and of how
far it has been read, that the bundle is what S4 seals of them or that without one
line, and which set of records the file was written from. `JudgeInd` says that the
document is S7's answer for that bundle, under a profile that some run was given, unedited, and
that passed the gates, or under none. The rest is about the operators, from the
sources up:

* A source's sealed events are its kept records in their order, each hash the records so
  far (`SealedIs`), so that two linked neighbours of a bundle that has lost
  lines were neighbours in the seal (`LinkedAdjacent`), and on a numbered stream
  neighbours are consecutive (`NumbersRun`).
* The intervals are the elementary windows joined (`MergeIs`, `Intervals`), and within a
  window neither the regime nor the flanking records change (`PhaseHolds`, `SpanIs`). So
  an instant is LIVE exactly when the regime is known, the threshold is usable and two
  neighbouring records lie around it, joined as the ladder demands (`LiveIff`).
* A threshold that is not the declared one stands for a quantile of the reference gaps
  (`GapsRanked`, `EntryRanks`, `MeasuredIs`).

`HiddenLoss` then follows because neighbours that are linked and consecutive leave no
room for a record between them, for whichever operator wrote the file; and
`SuppressionHidesNothing` because the records around an instant are nearer in the whole
stream than in any part of it (`WholeJoins`), and because the gates make the profile
that of another, clean run. `DocumentExact` rests on one more fact: what is said of a
window is what is said of each instant in it (`SaidOfInstant`), so that the intervals
tell a function of the instants, and there is one way to tell a function (`OneTelling`).
No question can then move an endpoint; the volumes count instants (`VolumeIs`,
`VolumesAddUp`); and `live`, `licences_for` and the maximal runs are read off the
function (`IsLiveIs`, `LicencesForIs`, `RunsAre`).

`DisputeExact` is about three algorithms of the temporal pass:

* The patience pass gives each index a *level*, the length of the longest non-decreasing
  run that ends in it, and keeps in its tails the lowest end of each level
  (`PilesGrow`). The run read back from the last tail is as long as there are levels
  (`FollowedRuns`); no run is longer, because levels rise along a run (`LevelsBound`).
  So what a source loses is the least it can lose (`CorrectedIs`).
* Of the constraints that stay, those that can be met have a greatest solution not above
  the origin (`GreatestExists`). A round of Bellman-Ford never passes it and settles one
  more node until all are settled (`RoundSettles`), so as many rounds as nodes end in it,
  or in no solution at all (`RoundsEnd`, `FeasibleIs`). Without rules the latest instant
  kept so far is a solution (`CorrectedMeets`), so the pass never calls what it leaves
  unsatisfiable.
* The greedy cover takes a node of some uncovered pair at each step and so covers all
  within as many steps as there are nodes (`GreedyCovers`).

The property lets the freed instants range over `Room`, the recorded instants and as far
beyond on either side as there are freed records, so that TLC can enumerate them.
`RoomSuffices` shows that this is no restriction: no constraint asks for a distance of
more than one, so gaps of more than one outside the recorded instants can be closed
(`DrawnInKeeps`).

The assumptions, each checked by TLC on the instances:

* `CatalogAssumption`, `CapAssumption`, `CapsAssumption`: levels and ceilings are
  positive numbers.
* `ProgramsAssumption`, `SearchedProgramsAssumption`: a program is what
  `ReachProgram.build` accepts.
* `BodiesAssumption`: the literals and fact ids of a certificate parse.
* `GroundedAssumption`, `LicensesAssumption`, `ReportsAssumption`: what S8, S9 and S7
  hand S10. A fact is an axiom unless an instance with a body derives it
  (`ground.py:711`).
* `SessionsAssumption`, `EditsAssumption`: a session asks for sequences of jobs over
  cells; an edit leaves a file that can be read.
* `TickAssumption`, `CeilingsAssumption`: the tick and the ceilings of the envelope are
  positive numbers (that on instances may be 0).
* `DocumentsAssumption`, `TablesAssumption`: the rows of a source are not empty, leave no
  hole, and have a witness when SUPPRESSED and only then (`liveness.py:794`); rules name
  known sources, and none derives a fact that a record shows.
* `IndexAssumption`, `BundlesAssumption`, `RolesAssumption`: a file is a sequence of
  lines with positions that are numbers; bundles are finite; roles are named once.
* `RulesAssumption`, `RecordsAssumption`, `SilenceAssumption`: a finite table that
  the rule loader accepts and the engine can evaluate, records of predicates no rule derives, licences for windows that are not
  empty.
* `RuleSeqsAssumption`: the `within` of a rule is a duration, which has no sign
  (`rules.py:170`).
* `ClassesAssumption`: a declared source is chained, sequenced or neither (`model.py:192`).
* `SourcesAssumption`, `StreamsAssumption`, `FilesAssumption`, `CalibrationsAssumption`,
  `ScenarioAssumption`, `PhasesAssumption`, `LimitsAssumption`, `ChoicesAssumption`: each
  source of a generated stream, that of a calibration run included, numbers its records
  from 0 in the order of their instants (`gen.py:333`); a line that fails no check spells
  a record of a declared source; phases are finitely many intervals of time, and
  limits, shifts and counts are numbers.
* `CatalogsAssumption`, `RuleFilesAssumption`: a catalog names finitely many controls,
  each with a sequence of levels; a guard distributes to finitely many finite terms, as
  a tree does. (`RulesAssumption` of `Rules`: the widths are positive.)
* `StrataAssumption`: what `distinct` counts and `absence` looks for is recorded, not
  derived. This is the shape of `config/vs/rules.toml`, which the loader does not
  enforce; in a table of another shape the order of the rules matters and the result
  would be false.
* `PlacesAssumption`: the tick of a slot that a step nobody saw can fill is that slot's
  alone, and no `absence` is anchored on it. So it is in `config/vs/rules.toml`, whose only
  such slot is `privilege.escalated` of `r0005`; the loader does not enforce it. In a table
  of another shape a fact derived from a licensed step carries the step's representative
  tick and no window, a `seq` that reads it can miss a world, and the result would be
  false. `PlacementsHeld` and `WorldsHeld` rest on it, and no other theorem.

Only model-checked:

* Liveness (`Termination`, `Terminates`, `EveryLoadEnds`), which is beyond the prover.
* `SolverIsExact` of `BranchBound` and `GuardsKeepMeaning` of `Guards`, which declare
  recursive operators: what a recursive solver or a rewriting of trees computes is
  induction over data. So that a control guard holds exactly when a term it distributes
  to does, and that a canonical data guard evaluates as the written one, is checked on the
  guards of run `rules`; what becomes of the terms from there on is proved.
* The finding, which is a counterexample.

## 6. Not modelled

* Bytes, hashes and ids: canonical encoding, O11 (counts over the encoded
  sections) and the canonicity checks of the checker. O0 to O5 appear in `Stages` as
  what they read and compare, in their order.
* Text: the TOML, SCF and JSON parsers, the lexer of the guards, command-line
  arguments, reports. A line of a raw file is the set of checks it fails.
* `gen.py` and `scenario.py` (S2): synthetic data from a seed, with no state shared
  with the rest; the streams are inputs of `Telemetry`.
* Side documents nobody reads back (psi, cut, premium, residual, decisive, quarantine,
  quality).
* In `Stages` the raw file of a calibration run (`calraw`) is replaced in one step, where
  the code truncates it first; only a crash leaves it torn. `Rules` does not refuse a pattern variable named `t`
  (`rules.py:1236`): its files have none.
* The web frontend, which shows a published certificate, and the documentation
  linter `tools/claims_check.py`.
* The Rust and Go directories hold no program at this commit.
