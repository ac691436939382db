# Blast Pit 2D Simulator: verification project

TLA+ models of the control logic of this repository, with the TLC runs that
check them and TLAPS proofs of the theorems that hold for every value of the
constants. `PROJECT.json` lists components, runs, mutants, hazards, findings and
theorems, and maps each definition to the source lines it stands for. Source
positions below are file and line in the repository.

Contents: [the system](#1-the-system),
[modules](#2-modules-and-how-they-correspond-to-the-code), [runs and
bounds](#3-runs-bounds-and-what-they-show), [fairness](#4-fairness),
[proofs](#5-what-is-proved),
[disagreements](#6-where-code-and-documents-disagree),
[limits](#7-what-is-not-modelled-and-what-is-only-model-checked),
[plan](#8-plan).

## 1. The system

The program trains predator/prey brains in a 2D world and wraps that computation
in governance: everything a run claims must be backed by sealed, hash-chained
evidence, whatever dies or fails on the way. The wrapping is hard: several
processes that share one directory, durable writes with crashes in between,
other people's processes and containers to get rid of, and timeouts that race
with late answers. The computation is sequential floating point, but for its
bookkeeping: indexes and counters kept up to date by hand, and a state that must
be complete enough to go on from after a crash.

| Component | State it keeps | Operations | Hard behaviour |
|---|---|---|---|
| **Runner publication** (`CodexLightRunner_v3.py`, evidence store) | name-binding ledger, run locks, `runner_ledger.jsonl`, `runner_publication_wal.json`, `latest/<name>_terminal.json`, `latest/<name>_state.json`, sealed run directories | prepare (recover, bind), lock, heartbeat, finalize, publish, roll back, recover, verify | crash between any two writes; second finalization; case-folded names; heartbeats without a lock; Ctrl-C late in a publication |
| **Runner supervision** (same file) | attempt list, root process, process tree, kill switch, verdict | preflight, launch, poll, terminate tree, retry, classify, seal | target that never exits, wait that times out twice, descendants that outlive their root, Ctrl-C inside handlers |
| **Candidate isolation** (`improvement_harness_runtime_v2.py`) | ACL lease record (journalled phases), lease root and its access rules, helper copy, container records, containers of the daemon | start/restore lease, run/remove/list/recover containers, remove trees | death between record and mutation; `docker create` killed by a timeout while the daemon goes on; half-removed directories |
| **Improvement controller** (`CodexImprovementController_v2.py`) | controller lock, journal and `state.json`, sealed run, audit ledger, `latest.json`, two recovery hazard pointers | startup recovery, hazard gate, cycle, quiescence, terminal transition, seal, `publish_run`, `emergency_finalize` | failure handlers that fail, finalizing what is already sealed, verification in the middle of publication |
| **Cycle gates** (same file) | candidate worktree, gates, reviews, findings, checkpoints, private folds, commits, shared deadline | build, train, apply, test, panel, remediation, hidden fold, scoring, final QA, commit, root adjudication, decision | remediation makes earlier evidence stale; budget ends anywhere; cleanup turns an accepted cycle into a failed one |
| **Operator** (`improvement_operator.py`) | none (read only) | `verify_record`, recovery status | refuses a bundle that does not verify, also one just sealed |
| **Evolution v35, v36, v37** (`tmp_2d_simulator_v3[567].py`) | checkpoint, JSONL results, Hall of Fame, status, audit, release intent, manifest, locks | train, resume/continue, audit, release | checkpoint and journal are two writes; continuation after an audit; lock take-over; budgeted training |
| **Lineage** (same files) | population, ids, optimizers, archive, Hall of Fame, worker pool | evaluate, rank, validate, consider, breed or emit, commit, resume | workers that answer in any order or fail; a checkpoint that must hold everything the next process needs |
| **World simulation and rollouts** (same files) | creatures, resource lists, cell grids, counters, trajectories | construct, frame (sense, act, settle), finish | grids updated by hand; creatures that act in turn on what all sensed before; counters a later validation relates to each other |
| **Harness child processes** (`improvement_harness_runtime_v2.py`) | Job Object, pipes, two reader threads, shared counter, credential file | `run_process`, `streamed_toolless_codex` | output limit, time limit, descendants that hold the pipes, a counter without a lock |
| **PPO and Adam, vision and smell** (simulators) | arrays | update, sense | none of control; floating point |
| **Launchers, guards, drivers, canaries, score scripts, v1 controller, benchmark** | none or one result file | one sequential pass each | — |

How they interact. A launcher starts the runner; the runner starts a simulator
version (or the controller) as a child process and publishes what became of it.
The controller runs one process at a time under a kernel lock. It calls the
isolation harness for each cycle, asks tool-less model roles for patches and
reviews, trains and scores in containers, and publishes through the operator's
verification. Every command and role it starts goes through the harness' process
wrappers. The evolution commands share only the files of their experiment
directory; what they write there is computed by the loops of the lineage, which
run trials of the world. Nothing calls back: components meet in files, locks,
exit codes and the Docker daemon.

What makes each one correct:

- *publication*: one hash chain, append-only, every run at most once; a pending
  record can always be replayed; a pointer names the last run of its name
  whenever nothing is pending; one target per case-folded name; every run ends.
- *supervision*: never two live roots; a reported result leaves no root behind;
  SUCCESS is the last attempt's own exit with zero; a kill switch ends the run.
- *isolation and controller*: no ACL change without a record that leads back; a
  new run starts, and a sealed run ends, on a quiet machine; a run makes one
  statement, which stays; `latest.json` verifies, but for a run whose publication
  could not be taken back; every process ends.
- *child processes*: what is accepted was read and examined in full; nothing
  keeps running behind a result; the caller returns.
- *cycle gates*: what is committed, and what asks for human review, was shown
  by evidence about that very diff; folds stay hidden from models; every run
  comes to a decision, and its own verification refuses it only in the cases
  that section 6 reports.
- *evolution*: committed generations only ever grow until release; the journal
  is never ahead of the checkpoint; a release is earned by an audit of the very
  generations released; nothing changes a released experiment.
- *lineage*: an experiment that is interrupted, resumed and spread over workers
  commits what the uninterrupted one commits; Hall of Fame and archive hold the
  best of everything committed; ids tell candidates apart.
- *world*: a grid answers as a search of the list would; every counter agrees
  with what happened; a trial passes its validation; rewards go to the creature
  that earned them.

## 2. Modules and how they correspond to the code

| Module | Part | Extends / instantiates |
|---|---|---|
| `TerminalEvidence` | abstract promise of the evidence store: append-only history; a reader gets a refusal or the last committed run of a name | |
| `RunnerPublication` | the publication protocol, implements `TerminalEvidence` | `INSTANCE TerminalEvidence WITH` (ledger, pointer/WAL) |
| `MCRunnerPublication` | constants of two TLC instances | extends `RunnerPublication` |
| `RunnerPublicationProofs` | inductive invariant, what reported runs leave behind, refinement | extends `RunnerPublication`, `TLAPS` |
| `RunnerSupervisor` | supervision of one run | |
| `RunnerSupervisorProofs` | inductive invariant and safety theorems | extends `RunnerSupervisor`, `TLAPS` |
| `CandidateIsolation` | leases, roots, helper, containers of one controller run, with the daemon as environment | |
| `GovernedRuns` | abstract promise of the artifact directory: one statement per run, append-only ledger, latest | |
| `ImprovementController` | controller processes over `CandidateIsolation`, implements `GovernedRuns` | extends `CandidateIsolation` |
| `ControllerProofs` | inductive invariant, safety theorems, refinement | extends `ImprovementController`, `TLAPS` |
| `ProcessStreams` | one command or role: child, pipes, readers, caller | |
| `MCProcessStreams` | constants of its instances | extends `ProcessStreams` |
| `ProcessStreamsProofs` | inductive invariant and safety theorems | extends `ProcessStreams`, `TLAPS` |
| `CandidateCycles` | decisions of one run: cycles and root adjudication | |
| `CandidateCyclesProofs` | inductive invariant of a cycle and of the decision, safety theorems | extends `CandidateCycles`, `TLAPS` |
| `GenerationHistory` | abstract promise of an experiment | |
| `EvolutionStore` | files of an experiment, processes, commit of a generation, death | |
| `EvolutionV35/V36/V37` | commands of each version over `EvolutionStore` | extend `EvolutionStore` |
| `Evolution` | which commands may run together, properties, implements `GenerationHistory` | extends the three versions |
| `EvolutionProofs` | inductive invariant, safety theorems, refinement | extends `Evolution`, `TLAPS` |
| `Lineage` | what the training loops compute, with worker pool, death and resume | |
| `MCLineage` | constants of its instance | extends `Lineage` |
| `LineageProofs` | inductive invariant and safety theorems | extends `Lineage`, `TLAPS` |
| `TrialWorld` | one trial of the world, frame by frame | |
| `TrialRollout` | the rollouts of v36 and v37, which override one call of it | extends `TrialWorld` |
| `MCTrialWorld` | constants of their instance | extends `TrialRollout` |
| `TrialWorldProofs` | inductive invariant, safety theorems, rollouts are trials | extends `TrialRollout`, `TLAPS` |

Definitions that start with a comment `Defect:` are plausible errors of the
code. They stand before the definition they would replace and are used only to
show that a property notices them.

**RunnerPublication.** One action per durable write of
`prepare_runner_publication`, `run`, `finalize_runner_state`,
`publish_runner_record`, `complete_runner_publication_wal` and
`recover_runner_publication`. `pc[r]` is the position of runner process `r`;
`pass[r]` tells the finalization in the body of `run` from the one in its
except clause. The files are the variables `binding`, `ledger`, `wal`,
`pointer`, `latest`; `ledgerLock` is the kernel file lock, freed by the
operating system on death; `txn` holds the locals of the holder (purpose, and
the snapshots that a failed publication restores). `Fault` raises at a step and
takes the handlers' way out, `Crash` stops the process. A run identity stands
for its record id and hashes; a row keeps its position and predecessor, which is
what the hash chain binds. `Heartbeat` writes the latest state without the lock;
`StragglerWrites` is a surviving descendant that appends to an attempt log after
the manifest was sealed. `LateInterrupts` allows Ctrl-C between the removal of
the WAL and the return (l. 1509).

**RunnerSupervisor.** `phase` follows `run` and `run_target_once`; the poll loop
looks for exit, kill switch, timeout and stall in the code's order; clocks may
expire whenever they are looked at. `root` and `tree` are the target's processes,
which exit and spawn at any time. `Fault` and `Interrupt` take the paths of
`except BaseException` and of Ctrl-C, also while a handler is running.

**CandidateIsolation and ImprovementController.** `lease[c]` is the durable phase
of the lease record of cycle `c`, `acl[c]` the access rules of its root
(original, or changed to a stage), `root[c]` whether the root exists, `helper`
the control copy of the ACL helper that a replay needs; `box[r]`,
`boxRecord[r]`, `creating` are the container, its registry record, and a create
command whose client died. `me` is the one live process: `pc`, plus `mode` for
the caller the shared recovery code returns to (startup, body of a cycle, its
finally clause, root adjudication, emergency, closing). `Raised` is where an
exception goes in each mode. `journal`, `shown`, `sealed`, `ledger`,
`latest`, `hazard`, `boxHazard` are the files; `refused` are the sealed runs that
`verify_record` will not accept, because of what `SealRun` sealed (any decision of
`CandidateCycles` may be one) or because `Emergency` wrote into the sealed
directory. `RollBack` restores `latest.json` after a failed publication;
`RollBackFails` is the removal or replacement that raises there (l. 3068-3075),
and `stranded` remembers those runs. Simplifications: at most one
container of a run at a time; a dry run takes the steps of a cycle; Ctrl-C is a
crash, because `run` catches `Exception` only; `COMPLETE` stands for the three
terminal states that end with success; the event ledgers of recovery are their
latest pointers; what a cycle's gates say is a choice.

**CandidateCycles.** Takes up that choice. `it` is the `CycleOutcome` and the
locals of `execute_cycle`; each action is one gate in the code's order. Trees
are numbered by the patch that left them, a diff is a pair of trees, and
`evidence` records what each retained artifact shows of which diff. Model
answers, test results and scores are any answer that the verifying functions
(`verify_review`, `adjudicate`, `verify_final_qa`, `paired_metric_gate`) let
through. `Reject`, `Overrun` and `CycleFails` are the three except clauses; a
training or test that runs out of time is a rejection, every other step a
timeout (l. 1067, 1150). `EndCycle` is the finally clause with its own
production guard; `CleanupFails` and `RecoveryFails` its failures. The root
adjudication starts from the first baseline, and `Conclude` and `Emergency` write
the decision. `late` means that fewer than two seconds of the budget remain,
`intact` that the protected checkout is as it was. `decision` is the record
`_finish_decision` writes: its status and which artifacts it names. The
operator's `verify_record` comes in three parts here. `Valid` is
`validate_operator_decision`; `Retained` says that the artifacts a decision cites
are there, of its own diff; `Implied` that every directory of the run and of its
cycles is implied by a file some manifest lists, and that every cycle has its
manifest (operator l. 470-487, 563-592). For the last one `unsealed` remembers
whose directory stayed empty or without a manifest (0 is the run itself), and
`disclosed` whether some cycle had a fold to disclose. The rest of
`verify_record` (hashes, journal, ledger, `latest.json`) is the subject of
`ImprovementController`.

**ProcessStreams.** `child` and `descendant` are the processes of the job,
`pipe` what they wrote and nobody read, `reader` the position of each reader
thread, `outputBytes` the counter both add to. `run_process` adds under a lock
in one step; a role's reader loads the counter (`base`) when it has a line and
stores after it encoded it, which is the order of evaluation of l. 822. Stdout of
a role is examined event by event: thread, turn, the credential file that goes
with the first event, and `violated` for what no role may emit. A line of JSON
that is no object raises in the reader thread, which is then `dead`. The caller
sends the prompt, waits, ends the job, joins the readers with a limit and
decides.

**Evolution.** `state` is the checkpoint (the chain of its generations and
whether it is RELEASED), `results` the JSONL with a possibly torn last line, and
`status`, `audit`, `retained`, `intent`, `manifest`, `context`, `lock` the other
files. A generation is named by the one its Hall of Fame comes from; a record is
its position in the chain. Each command is a sequence of steps, one per file
write or check; `Die` stops a process anywhere and leaves its lock. v36's
`os.kill(pid, 0)` has its POSIX meaning. `manifest` is v37's failure analysis
under v37; approval and configuration identity are assumed right; v37's plan is
`MaxGenerations`.

**Lineage.** `EvolutionStore` looks at the files of the training loops,
`Lineage` at their content. `session` is the memory of the process, `checkpoint`
and `results` what it leaves. A policy is a number, a trial a score, and a
seeded generator a fixed function (`Draw`, from the constant operator `Hash`;
`MCHash` in the run) of the parts of its seed, so that two runs with the same
seed can be compared. The archive is a function on its cells, `None` where one
is empty. v35 hands tasks to worker processes (`pool`), which answer in any
order; v36 and v37 evaluate in one step. `ShowArchive` shows one candidate to
the archive, `ValidateHere` judges one nominee. `Consider` is
`QDArchive.consider`, `Emitted` v36's `_emit_population`, `Bred` v35's
`_next_generation`, `Following` what the loop and a resume both go on with.
`Die` ends the process anywhere.

**TrialWorld and TrialRollout.** `resources` are the lists, `index` the grids
beside them; `Query` is the search of the cells around a point. `BeginFrame`
rebuilds the grid of creatures and lets every living creature sense; `decisions` holds
what those that still have to act have sensed, and `Act` lets
the next one move, burn, eat, drink and die; `Settle` removes the dead, breeds,
grows resources and ends the trial. The brain's answer is any move within
`max_speed`. `SampledAct` puts the bookkeeping of `_act` of the two rollouts
around `Act`, and `Finish` is their `finish`, which may come at the end of any
frame because a rollout has a share of the frames.

## 3. Runs, bounds and what they show

| Run | Instance | Properties | About |
|---|---|---|---|
| `runner_publication` | 3 runners; two of one name under different run locks, one of another name without a lock; every crash and fault | `PointerCurrent`, `WalReplayable`, `ReportedIsAnchored`, `LatestSettles`, `OnlyReplayIsSuperseded`, `WalNotReplaced`, `ImplementsEvidence` | the evidence store keeps its promise |
| `runner_naming` | 3 runners; two spellings of one folded name, two targets, one shared run lock, a straggler, late interrupts | `OneTargetPerName`, `StartupRecovers`, `EveryRunEnds` | naming, recovery at start, liveness |
| `runner_supervisor` | 3 attempts | `OneRootAtATime`, `SuccessIsEarned`, `StopEndsRun` | supervision of one run |
| `controller` | 2 runs of up to 2 cycles, 1 container command per cycle, 1 failing operation, 1 crash | `ChangeIsRecorded`, `NewRunIsQuiet`, `SealedIsQuiet`, `LatestVerifies`, `ImplementsGovernedRuns`, `EveryProcessEnds` | recovery, sealing and publication |
| `controller_hidden_mismatch` (violation) | no fault | `MismatchDiscoverable` | finding 1 |
| `process_streams` | 3 rows on stdout, 1 on stderr, limit 3, pipes of 1 | `AcceptedIsExamined`, `NothingIsLeft`, `CallerReturns` | commands and roles |
| `role_output_bound` (violation) | roles only | `RoleIsBounded` | finding 3 |
| `candidate_cycles` | 2 cycles, 1 remediation each, 2 specialists, 1 failing operation, budget and checkout free | `AcceptedIsEarned`, `ReadyIsEarned`, `DecisionVerifies`, `FoldsHeldOut`, `RunConcludes` | what decisions stand on |
| `evolution` | 3 versions, 2 processes, 2 generations, deaths anywhere | `HistoryBehind`, `ReleaseIsEarned`, `ManifestHolds`, `BudgetIsResumable`, `ImplementsHistory` | the life of an experiment |
| `evolution_lock_race` (violation) | v36, live lock may be taken over | `TrainingExclusive` | finding 2 |
| `lineage` | 3 versions, 5 seeds, 4 generations, populations of 3, 2 workers, deaths anywhere | `HofIsBest`, `LineageIsReproducible`, `ArchiveIsElite`, `LineageIsTraceable` | what the experiment contains |
| `trial_world` | 3 points, up to 3 creatures, 3 frames, both profiles, plain or a rollout | `QueriesAreExact`, `TrialValidates`, `Balanced`, `RewardsBelong` | one trial |

The types of the controller, the evolution experiment, the lineage, a trial and
a child process are conjuncts of `SealedIsQuiet`, `HistoryBehind`,
`LineageIsTraceable`, `Balanced` and `NothingIsLeft`; the types of every module
are proved (section 5). `ReleaseIsEarned` includes that an audit is terminal.

Why the bounds are enough to be interesting:

- Three runners are the fewest with a pending run, a run of the same name
  anchored behind it and a run of another name that recovers both. Each runner
  publishes up to twice, so a history of one runner has two finalizations.
- With two runs the second controller process finds what the first left; with
  two cycles a run has a restored lease record beside a new one. One failing
  operation and one crash together reach every handler once, and a crash inside
  a handler. Two faults were explored on one cycle per run (the same invariants
  hold) and are left out because the run takes more than four minutes.
- Two cycles and one remediation give an accepted candidate on top of an
  accepted one and a diff that replaced a reviewed one; two specialists disagree
  in every way, a panel without findings included.
- Two generations are the fewest with a journal that lags, a continuation
  after an audit and a release; two processes give every pair of commands that
  the code lets run together. `LiveTakeover = FALSE` keeps the lock race, which
  is a finding of its own, out of the run whose properties assume the lock.

- Four rows on two streams against a limit of three: the limit is passed by both
  streams together only. A pipe of one row makes the child wait for a reader.
- With populations of three and two nominees somebody is ranked but not
  nominated; two cells and a minimum quality give cells that are contested, left
  empty and taken late; four generations and five seeds give a Hall of Fame that
  changes and one that stays, an empty archive and a first policy in a later
  generation.
- Three points in a row, two of them in one cell, put touch and vision across a
  border of cells. In three frames a lineage breeds up to its cap, starves,
  burns, dies out early or late, and two creatures reach for one piece of food.

`CHECK_DEADLOCK FALSE` stands where a behaviour really ends: all runners ended,
a run has its decision, a caller its result, a trial or an experiment its end.
The controller and the evolution experiment can always
start another process, and deadlock is checked there.

Every property of a passing run has a mutant of the code (PROJECT.json) that
makes TLC report it violated.

## 4. Fairness

- `RunnerPublication!FairSpec`: weak fairness of each started process's own next
  step. A process runs unless it dies; crashes, faults, heartbeats and starts of
  processes are not fair. The kernel lock is polled with a timeout (15 s), so a
  waiting process always has a next step.
- `RunnerSupervisor!FairSpec`: weak fairness of the runner. Clocks and target
  owe nothing: `StopEndsRun` holds for a target that never exits.
- `ImprovementController!FairSpec`: weak fairness of the steps of a live process.
  Nobody has to start one, and the daemon owes nothing.
- `CandidateCycles!FairSpec`: weak fairness of the controller's steps. Each
  asks a role or a command that is killed by its timeout, so each ends. Time may
  stand still, and failures are not fair.
- `ProcessStreams!Spec`: weak fairness of the caller and of each reader thread,
  which the operating system schedules. The child owes nothing but to take its
  prompt or end, because the code writes the prompt before any limit runs.

## 5. What is proved

With TLAPS, for every value of the constants that their named assumptions allow:
any number of runners, runs, cycles, remediations, specialists, rows, creatures,
frames, generations, workers, failures and deaths. Every safety invariant and
action property that a passing run checks is a theorem, and so are the four
refinements: `ImplementsEvidence`, `ImplementsGovernedRuns`, `ImplementsHistory`
and that a rollout is a trial. Four hypotheses stand in front of some of them,
each named and explained below: `~LateInterrupts`, `Serialized`, `LockHolds` and
`HashIsNatural`. All are proved from `Spec` (the rewards from `RolloutSpec`),
and fairness plays no part in them.

`RunnerPublicationProofs` (assumption: `ConfigAssumption`, the types of the
constants). `LedgerChained` alone is not inductive: that a row is appended once
needs the WAL to be replayable, which needs to know who holds the kernel lock and
what the holder believes. The inductive invariant `IInv` is the conjunction of

1. `TypeOK`;
2. `LockInv`: exactly the process inside the critical section holds the lock;
3. `HolderInv`: its locals speak of the pending WAL;
4. `LedgerAgreesWithBindings`: every row has the identity bound to its folded name;
5. `LedgerChained`;
6. `WalReplayable`: the pending row is in the ledger as it is, or extends its tip;
7. `OthersCurrent`: only the pending run's name may have an outdated pointer.

Each has its own preservation lemma, one step per action. From `IInv` follow
`TypeCorrect`, `ChainCorrect`, `ReplayCorrect`, `NamesCorrect`, `PointersCorrect`,
`WalNeverReplaced`, `LedgerOnlyGrows` and `Refinement` (every step is a step of
`TerminalEvidence` or leaves its variables). `PointersCorrect` and `Refinement`
assume `~LateInterrupts`: with such an interrupt the caller rolls back the
pointer of a publication that is complete, and the pointer is wrong until the
second finalization.

The second half is about what reported runs leave behind. `IInv` says who holds
the kernel lock, not what a run has written at each of its steps, nor what the
run locks add. `SInv` does, run by run and for the ledger: `Progressed`, `Fresh`
(a run that has not published has no record), `Locks`, `Replays` (whoever completes another
run's record finds a run of its name unreported), `Serial` (under one run lock a
record follows another only after that run has ended), `Settling`. From it follow
`ReportsAreAnchored`, `SupersededByReplay`, `LatestStatesSettle` and
`StartupsRecover`. The last one has the hypothesis `Serialized`, that runs of one
name share one run lock. Without it the promise is false (section 6, the first
finding about the runner); the run `runner_naming` has it.

`RunnerSupervisorProofs` (assumption: `Retries \in Nat`). `OneRootAtATime` needs
that only the current attempt can be live (`LiveIsCurrent`); `SuccessIsEarned`
needs that the results are numbered like the attempts and each was collected
after its root exited (`Numbered`, `Collected`, `Reported`, `Progress`).

`CandidateCyclesProofs` (assumptions: the types of the constants, and that `None`
is no tree and no execution). Three layers, each inductive over those before it:

1. `Typed`: `TypeOK`, and that a cycle under way has a number left, that an
   accepted outcome names a tree, that the selected cycle exists (`TypeCorrect`).
2. `Held`: where a private fold may lie, position by position. A fold that resists
   its removal survives the cycle, so `FoldsHeldOut` needs to know that the
   outcome then blocks, that a blocking outcome ends the loop, and that a fatal
   execution skips the root (`FoldsHidden`).
3. `Earned`: what a cycle under way has to show at each stage about its present
   diff, that its findings are exactly those of its panels, and that no evidence is
   about a later cycle. A remediation falls back to the stage `apply`, where nothing
   about the diff is claimed (`CommitsAreEarned`).

Five more layers carry the decision: `Sounds` (what one outcome claims about its
own trees), `Chained` (accepted cycles follow one another from tree 0 up to
`selected`), `Rooted` (what the root adjudication has to show at each of its
steps), `Decided` (status and named artifacts of the record) and `Covered` (what
may be unsealed at each step, for which cycles and with which executions). They give
`ReadyDecisionsAreEarned`, where the diff shown to a human is the one from the
first tree to the selected one, and `DecisionsVerify`. That theorem names its
exceptions, which section 6 reports: a changed checkout, a refused root final QA, a
run without a hidden fold, and steps that raised or overran, but never an accepted
cycle's. `RolesAssumption` says that the one role of final QA is no
specialist.

`ControllerProofs` (assumptions: types of the constants). `Typed` says where a
process can be in each of the modes that share the recovery code; without that no
step of it can be told from the same step of another caller. Then three
independent parts: `Recorded` (`Filed`, `Drafted`, `Pointed`: what journal,
sealed record, ledger and `latest.json` say at each step of writing them, and
of rolling back), `Leased` (which lease records lead back from which changed
roots; what a pass over the leases has settled so far) and `Boxed` (which
containers may still be there). The hard step is the recovery at startup: what
is settled already must survive the recovery of the rest, a failure in it, and
a crash. `Presentable` is what `latest.json` may name: a sealed run that
verifies, or one that is `stranded`; it has to hold of the pointer a rollback
restores as well. From them: `ChangesAreRecorded`, `NewRunsAreQuiet`,
`SealedRunsAreQuiet`, `LatestIsVerified`, and `ControllerGovernsRuns`, the
refinement of `GovernedRuns`.

`ProcessStreamsProofs` (assumption: `StreamsAssumption`, the types of the
constants). `Staged` says where caller, readers and child are relative to each
other; `Whole` that what was written is what was kept, the row in hand and what
is left in the pipe, unless somebody passed the limit or a reader died;
`Counted` what the counter says of what was kept, the lost additions included;
`Judged` what a reader that saw no violation has seen. `NothingIsLeftBehind` and
`AcceptedOutputIsExamined` follow.

`EvolutionProofs` (assumptions: the types of the constants, and that `None` and
`Dead` are none of the values they stand beside). `Process35`, `Process36` and
`Process37` say what a command may rely on after each of its steps, `Store35`,
`Store36` and `Store37` what the files keep while nobody works, and `Admitted`
who runs beside whom. The theorems have the hypothesis `LockHolds`: no live
process loses the lock of v36. For v35 and v37 nothing is assumed. The run
`evolution_lock_race` shows that v36 needs it, and `TrainingExcludes` that the
take-over of an empty lock is the only thing in the way of an exclusive lock.
The others are `HistoryIsBehind`, `ReleasesAreEarned`, `ManifestsHold`,
`BudgetsAreResumable`, and `EvolutionKeepsHistory`, the refinement of
`GenerationHistory`.

`TrialWorldProofs` (assumption: `ConfigAssumption`). `Typed` has the exact
content of the resource grid; `Booked` relates births, deaths and meals to the
creatures; `Counted` bounds each counter by what the rest of the frame may still
add to it, without which none of the bounds of `TrialSummary` is inductive;
`Sensed` is about the readings of those that still have to act. From these
`TheBooksBalance`, `FinishedTrialsValidate` and `GridsAnswerExactly`: that the
cells within the span of a query hold everything within its radius is proved for
all points. `RolloutsAreTrials` shows that the rollouts' bookkeeping changes
nothing of the trial (`RolloutSpec => Spec`), so all of it holds for rollouts;
`RewardsAreTheCounters` adds `Rewarded` and `Concluded`, what the trajectories
were paid.

`LineageProofs` (assumptions: `LineageAssumption`, `AbsenceAssumption`, and the
hypothesis `HashIsNatural`: `stable_seed` reads a natural number from a digest).
Layers, each over those before it:

1. `Typed`: types, and that the tasks in the pool are those of the population,
   whatever order the answers come in.
2. `Filed`, and `Steps`, which says once what each action does to a lineage and
   replaces the actions in what follows.
3. `Traced`: under v35 and v36 an id is never given twice, a parent is in the
   history before its child, and so is whatever the archive keeps
   (`LineagesAreTraceable`).
4. `Topped`: nobody who was judged so far beats the Hall of Fame
   (`HallOfFameIsBest`).
5. `Elites`: each cell holds the strongest of everything shown to it
   (`ArchivesAreElite`).
6. `Made` and `Same`: the files are those of the experiment that is never
   interrupted, but for the continuation with an empty archive that section 6
   reports (`LineagesAreReproducible`). That experiment is a recursive
   function of the generation. That such a function exists and unrolls is proved
   from the well-foundedness of the naturals, by a least counterexample, because
   the library's theorems about recursive definitions take an operator as a
   parameter.

## 6. Where code and documents disagree

Each of these is the counterexample of a run.

1. `controller_hidden_mismatch`: the comment at controller l. 3202 wants a
   protected-state mismatch published. `publish_run` verifies before it writes
   `latest.json`, and verification fails every such run.
2. `evolution_lock_race`: docs/V36_SECURITY.md:3 calls the training lock
   exclusive. A lock file is empty between its creation and its first write, and
   an unparsable lock counts as stale.
3. `role_output_bound`: harness l. 824 states that the combined output of a role
   is bounded. Both reader threads add to one counter without a lock, an addition
   is lost, and a role that exceeds the bound is accepted.

Seen while modelling. The models contain those that start with a name in
brackets.

Runner:

- [RunnerPublication] README.md:59 promises that startup recovers an interrupted
  publication. If a run is finalized a second time after another run of its name
  was anchored under a different run lock, its record never verifies again
  (l. 1467, 1732), and every startup raises. `OnlyReplayIsSuperseded` checks that
  this is the only way.
- [RunnerSupervisor] docs/V37_TESTING.md:20 wants no orphan process.
  `terminate_process_tree` returns when the root is gone in its grace period and
  never kills what the root had started (l. 516).

Controller:

- [ImprovementController] docs/OPERATIONS.md:63 gives the order event, then
  workspace. The code removes the workspace first (l. 2581); a failure there
  leaves a hazard without any lease record, which no startup clears.
- [CandidateCycles] docs/CODEX_IMPROVEMENT_OPERATOR_V2.md:103 keeps TIMEOUT
  distinct. A run whose budget ended raises again in the quiescence check and is
  sealed as FAILED by the emergency path, without the candidate it had accepted
  (l. 2932).
- [CandidateCycles] docs/TROUBLESHOOTING.md:21 has a rejected or no-candidate
  result verified for the integrity of its evidence. `hidden_evaluation_disclosure`
  is made for every run (l. 2763) and stays empty when no cycle came to the hidden
  fold, as after "builder found no defensible bounded improvement" (l. 1596);
  manifests list files only (harness l. 388), and `verify_record` refuses a
  directory that no file implies (operator l. 470-487). Without any fault such a
  run is sealed with execution SUCCESS and does not verify, so `latest.json` never
  comes to name it.
- [CandidateCycles] A root final QA that `verify_final_qa` refuses stays in
  `root_final_qa` while `final_qa.json` was not written (l. 2897-2909): the
  decision names an artifact that does not exist, and its own verification
  refuses it.
- [CandidateCycles] Directories are made before the step that fills them: those of
  an attempt and its gates (l. 1620), of tests, answers and panels, and the run's
  own. When that step raises, overruns or is broken off, they stay empty, and a
  cycle that `execute_cycle` raised from (l. 1485, 2003) has no manifest; either
  way the run does not verify. Where an operation raised in the tests of a cycle,
  which is then rejected, even a run that another cycle makes READY is refused.
  `DecisionVerifies` excepts these cases and the two before, and shows
  that in an unchanged checkout the decision has no others.
- [ImprovementController] The rollback of `publish_run` may raise as well
  (l. 3068-3075). `latest.json` then keeps naming the run, and
  `emergency_finalize` writes `emergency_error.json` into its sealed directory
  (l. 3083): the latest run does not verify. It takes two failures;
  `LatestVerifies` excepts this and nothing else.
- A lease whose setup and whose restoration both fail is never assigned, so the
  finally clause removes its root (l. 1966) while the record says
  RECOVERY_REQUIRED; `load_acl_lease` refuses a record without its root, so
  every later start is blocked. It takes two faults.
- `emergency_finalize` of a sealed run writes `emergency_error.json` into the
  sealed directory (l. 3083), so publishing it again cannot verify.

Harness:

- [ProcessStreams] The prompt is written before the readers start and before the
  time limit runs (l. 738): a child that fills its output pipe first, or never
  reads, keeps the caller waiting for ever. A write that raises ends no job.
- [ProcessStreams] A line of JSON that is no object raises in the reader thread
  (l. 789), which ends without a word; what follows it is not examined, and the
  role may be accepted. `AcceptedIsExamined` excepts this case.
- [ProcessStreams] `run_process` keeps what still fits of the chunk that passes
  the limit, and does not count it.

Simulators:

- [Lineage] A v36 continuation with an empty archive breeds from the candidates
  in the order of their ids (l. 717, 835), the uninterrupted loop from the order
  it had them in (l. 895): they part, against README_v36.md:21.
  `LineageIsReproducible` checks that this is the only way.
- [TrialRollout] v36's `finish` lets a creature that is cut off sense with the
  grid of creatures of the beginning of the last frame (l. 335), as every acting
  creature does; v37's marks cut-off trajectories as done.
- v36's release does not reconcile the JSONL (l. 1190), so after a death between
  checkpoint and row the manifest covers a journal without its last row. A
  continuation that dies after it set the audit aside (l. 1002), audited again at
  the same generation, finds the old name taken.
- Two v36 auditors may run beside each other: the slower one overwrites
  `terminal_audit_v36.json` (l. 1109), also after a release stands on it.
- A v37 resume refuses a torn journal line that v36 repairs; a v37 run whose
  budget does not exceed the grace period writes BUDGET_EXHAUSTED without a
  checkpoint.
- A world whose capacity for food or water is zero still gets one under the
  challenge profile; `ConfigAssumption` leaves it out.

## 7. What is not modelled, and what is only model-checked

Only model-checked, because the prover has no fairness or ENABLED: the liveness
properties `EveryRunEnds`, `StopEndsRun`, `EveryProcessEnds`, `RunConcludes` and
`CallerReturns`, and the counterexamples of section 6. Nothing else that a run
checks is without a proof. Conversely `LedgerChained`, `LedgerAppendOnly`,
`ExitMeansGone`, `TypeOK` of the runner, its supervision and the cycles, the
exclusive lock under `LockHolds`, and that rollouts are trials, are
proved, and no run repeats them.

Abstracted everywhere: contents of files beyond what a property tells apart,
hashes (equal exactly when the contents are), JSON syntax, wording and logging.
File replacement is atomic, as `os.replace` is on one volume; appends and
removals are not.

Not modelled:

- floating point: the policy network, PPO, Adam and the robust update, fitness
  and descriptors beyond their order, vision cone, smell and orientation;
- the making of the Job Object, redaction, the environment of a role, and the
  inspection of mounts and digests: each is one outcome;
- v35 and v37 training beside itself, which no lock prevents, and two v36
  auditors: outside the bounds of `Evolution`, listed as hazards. The cycle models
  assume one controller, as the kernel lock guarantees;
- an append that is torn exactly before its newline (`EvolutionStore` leaves a line
  that cannot be read), and the fields of a v36 record that tell which process
  wrote it (v36 l. 833, 864), which differ after a resume;
- a failure to remove the isolation directory of root final QA after its answer
  was written (controller l. 2912), which ends like the refusal above;
- PowerShell launchers and ACL helper, programs that run inside containers,
  canaries, scoring scripts, export and visualisation, the benchmark: one
  sequential pass each, whose result the models choose freely or nobody reads;
- controller v1, which v2 supersedes.

## 8. Plan

Done, in this order: `RunnerPublication` with its abstraction and proofs,
`RunnerSupervisor` with its proofs, `CandidateIsolation` and
`ImprovementController` with its abstraction, the evolution modules with theirs,
`CandidateCycles` with the proofs about one cycle and the operator's check of
every decision, `ProcessStreams`, `Lineage`, `TrialWorld` and `TrialRollout`.

The proofs followed in the order of the plan: decisions of the cycles, child
processes, controller and its refinement, evolution and its refinement, the
runner's settlement, the world, the lineage.

Next, proofs:

1. `PointersCorrect` with late interrupts: which runs may then have an outdated
   pointer, and that a second finalization settles it.
2. `StartupsRecover` for runs that do not share a run lock: the weakest condition
   under which the replayed record verifies.
3. Common lemmas of the proof modules (sequences that grow by one row, sums over
   finite sets) in a module of their own.

Next, models: two auditors of v36 and v35/v37 training beside itself, with the
properties that survive it; the recovered workspace whose removal fails after
its lease record (controller l. 2581).
