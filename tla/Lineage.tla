-------------------------------- MODULE Lineage --------------------------------
(***************************************************************************)
(* What the training loops of tmp_2d_simulator_v35.py, _v36.py and _v37.py   *)
(* compute: candidates are scored, ranked and validated, the best is kept,   *)
(* the next population is bred, and everything a later process needs to go   *)
(* on is in the checkpoint.  EvolutionStore looks at the files of the same   *)
(* loops; this module at their content.                                      *)
(*                                                                           *)
(* The numbers are small, the way they are combined is the code's: a policy  *)
(* is a number in place of its arrays and hash, a trial a score, a seeded    *)
(* generator a fixed function of the parts of its seed (Draw).  A profile    *)
(* has one trial.  v36 and v37 evaluate in one thread, v35 in worker         *)
(* processes.  A resumed process first completes the JSONL from the          *)
(* checkpoint; torn lines and refusals are in EvolutionStore.                *)
(***************************************************************************)
EXTENDS Integers, FiniteSets, FiniteSetsExt, Functions, Sequences

CONSTANTS Versions,      \* the versions the run looks at
          Seeds,         \* master seeds
          Workers,       \* worker processes of v35
          None,          \* no candidate, no checkpoint, no task
          Generations,   \* bound on the generations of an experiment
          Config,        \* SimulationConfig and QDConfig
          Hash(_)        \* the number that a tuple of numbers is hashed to

ASSUME LineageAssumption ==
  /\ Versions \subseteq {"v35", "v36", "v37"} /\ Seeds \subseteq Nat
  /\ Generations \in Nat \ {0} /\ Workers # {}
  /\ \A f \in {"elites", "children", "immigrants", "minimum_quality"} : Config[f] \in Nat
  /\ \A f \in {"genomes", "scores", "bins", "nominees"} : Config[f] \in Nat \ {0}
  /\ Config.elites + Config.children + Config.immigrants >= 2

VARIABLES
  version, seed,  \* fixed
  checkpoint,     \* the evolution state on the disk
  results,        \* the rows of the JSONL
  hofFile,        \* v35: the portable Hall of Fame
  session,        \* the memory of the training process
  pool,           \* v35: the group of tasks that is being evaluated
  pc

vars == <<version, seed, checkpoint, results, hofFile, session, pool, pc>>

Size == Config.elites + Config.children + Config.immigrants
NomineeCount == Min({Config.nominees, Size})

\* stable_seed and the generator it seeds.
Draw(parts, n) == Hash(<<seed>> \o parts) % n
Drawn(parts) == Draw(parts, Config.genomes)

\* A common seed per generation and profile; validation has the same in every one.
Suite == [standard |-> 1, challenge |-> 2, validation |-> 3]
Score(profile, generation, genome) == Draw(<<Suite[profile], generation, genome>>, Config.scores)
Validation(genome) == Score("validation", 1, genome) + Score("validation", 2, genome)

Candidate(id, genome, parent) ==
  [id |-> id, genome |-> genome, parent |-> parent, optimizer |-> 0, trials |-> <<>>]

\* 0.70 and 0.30 of the suites; a score of 0 is an early extinction.
Fitness(c) == 7 * c.trials[1] + 3 * c.trials[2]
ExtinctEarly(c) == \A t \in DOMAIN c.trials : c.trials[t] = 0

\* Tuples are compared element by element.
Above(x, y) == \E i \in DOMAIN x : x[i] > y[i] /\ \A j \in 1 .. i - 1 : x[j] = y[j]

\* A set in the order of Before.
Sorted(S, Before(_, _)) ==
  [i \in 1 .. Cardinality(S) |-> CHOOSE x \in S : Cardinality({y \in S : Before(y, x)}) = i - 1]

\* rank: ties go to the smaller hash, under v37 to the greater, then to the order of ids.
RankKey(c) == <<Fitness(c), IF version = "v37" THEN c.genome ELSE -c.genome, -c.id>>
Outranks(c, d) == Above(RankKey(c), RankKey(d))
Rank(candidates) == Sorted(Range(candidates), Outranks)

\* The Hall of Fame changes for a strictly better nominee only.
HofKey(genome, score) == CASE version = "v35" -> <<score, -genome>>
                           [] version = "v36" -> <<score, genome>>
                           [] version = "v37" -> <<score>>
Better(hof, c, score, generation) ==
  IF hof = None \/ Above(HofKey(c.genome, score), HofKey(hof.genome, hof.score))
  THEN [id |-> c.id, genome |-> c.genome, score |-> score, generation |-> generation]
  ELSE hof

--------------------------------------------------------------------------------
(* QDArchive: one policy per cell. *)

Cell(c) == Draw(<<4>> \o c.trials, Config.bins)
Entry(c, generation) ==
  [id |-> c.id, genome |-> c.genome, quality |-> Fitness(c), generation |-> generation]
Admitted(c) == Fitness(c) >= Config.minimum_quality /\ ~ExtinctEarly(c)
Stronger(e, f) == Above(<<e.quality, e.genome>>, <<f.quality, f.genome>>)

Cells == 0 .. Config.bins - 1
Empty == [cell \in Cells |-> None]
Occupied(archive) == {cell \in Cells : archive[cell] # None}

\* Defect: the newest candidate takes the cell.
ConsiderNewest(archive, c, generation) ==
  IF Admitted(c) THEN [archive EXCEPT ![Cell(c)] = Entry(c, generation)] ELSE archive

Consider(archive, c, generation) ==
  LET incumbent == archive[Cell(c)]
  IN IF Admitted(c) /\ (incumbent # None => Stronger(Entry(c, generation), incumbent))
     THEN [archive EXCEPT ![Cell(c)] = Entry(c, generation)] ELSE archive

--------------------------------------------------------------------------------
(* Populations *)

Founders == [i \in 1 .. Size |-> Candidate(i, Drawn(<<5, i>>), None)]

\* bootstrap_candidates: v37 starts from the policies of a v36 experiment.
Specialists == [i \in 1 .. Size |-> Candidate(i, Drawn(<<6, i % 2>>), None)]

\* _next_generation of v35: elites, children of a tournament's winner, immigrants.
Bred(ranked, nextId, generation) ==
  [i \in 1 .. Size |->
     LET child == i - Config.elites
         parent == IF child <= 0 THEN ranked[i]
                   ELSE ranked[1 + Draw(<<7, generation, child>>, Size)]
     IN CASE child <= 0 -> Candidate(nextId + i - 1, parent.genome, parent.id)
          [] child \in 1 .. Config.children ->
               Candidate(nextId + i - 1, Drawn(<<8, generation, child, parent.genome>>), parent.id)
          [] OTHER -> Candidate(nextId + i - 1, Drawn(<<9, generation, child>>), None)]

\* _emit_population of v36: copies of the archive, then mutations of it.
Parents(archive, candidates) ==
  LET cells == Sorted(Occupied(archive), <)
  IN IF Occupied(archive) = {} THEN candidates ELSE [i \in DOMAIN cells |-> archive[cells[i]]]

Emitted(archive, candidates, nextId, generation) ==
  LET parents == Parents(archive, candidates)
      elites == Max({1, Size \div 2})
  IN [i \in 1 .. Size |->
        LET parent == parents[1 + ((i - 1) % Cardinality(DOMAIN parents))]
        IN Candidate(nextId + i - 1,
                     IF i <= elites THEN parent.genome
                     ELSE Drawn(<<10, generation, i, parent.genome>>), parent.id)]

--------------------------------------------------------------------------------
(* What is held, in memory and on the disk.                                      *)

Tested == Nat \X Nat   \* the trials of the two suites
Candidates(trials) ==
  [id : Nat, genome : Nat, parent : Nat \cup {None}, optimizer : Nat, trials : trials]
Populations(trials) == [1 .. Size -> Candidates(trials)]
Hofs == [id : Nat, genome : Nat, score : Nat, generation : Nat]
Rows == [generation : 0 .. Generations - 1, candidates : Populations(Tested), hof : Hofs]
Entries == [id : Nat, genome : Nat, quality : Nat, generation : Nat]
Maps == [Cells -> Entries \cup {None}]
Checkpoints ==
  [generation : 0 .. Generations - 1, record : Rows, archive : Maps, hof : Hofs,
   population : Populations({<<>>} \cup Tested), nextId : Nat]
Sessions ==
  [generation : 0 .. Generations - 1, population : Populations({<<>>} \cup Tested), nextId : Nat,
   archive : Maps, hof : Hofs \cup {None}, ranked : Populations(Tested) \cup {<<>>},
   considered : 0 .. Size, nominee : 1 .. NomineeCount + 1]
Tasks == [id : Nat, genome : Nat, profile : DOMAIN Suite, environment : Nat]
Answers == [ordinal : Nat, id : Nat, score : Nat]
Pools == [tasks : Seq(Tasks), handed : Nat, busy : [Workers -> Nat \cup {None}],
          arrived : Seq(Answers)]

ASSUME AbsenceAssumption == None \notin Nat \cup Hofs \cup Entries \cup Checkpoints \cup Sessions

--------------------------------------------------------------------------------
(* One generation.  A session holds what the loop carries around.               *)

Session(generation, population, nextId, archive, hof) ==
  [generation |-> generation, population |-> population, nextId |-> nextId,
   archive |-> archive, hof |-> hof, ranked |-> <<>>, considered |-> 0, nominee |-> 1]

Fresh == Session(0, IF version = "v37" THEN Specialists ELSE Founders, Size + 1, Empty, None)

\* train_candidate of v36 and robust_update of v37: the update goes on from the state of
\* the candidate's optimizer.
Trained(c, generation) ==
  [c EXCEPT !.genome = Drawn(<<11, generation, c.id, c.genome, c.optimizer>>),
            !.optimizer = @ + 1]

Tried(c, generation) == [c EXCEPT !.trials = <<Score("standard", generation, c.genome),
                                               Score("challenge", generation, c.genome)>>]

Ranked(s, scored) == [s EXCEPT !.population = scored, !.ranked = Rank(scored)]

\* The next candidate, in the order of their ids, is shown to the archive.
Considered(s) ==
  [s EXCEPT !.archive = Consider(@, s.population[s.considered + 1], s.generation),
            !.considered = @ + 1]

\* One nominee after the other: each may take the Hall of Fame at once.  (v36 takes the
\* best nominee and compares it once, which comes to the same.)
Judged(s, score) ==
  [s EXCEPT !.hof = Better(@, s.ranked[s.nominee], score, s.generation), !.nominee = @ + 1]

\* The generation record.
Record(s) == [generation |-> s.generation, candidates |-> s.ranked, hof |-> s.hof]

\* Defect: next_candidate_id taken before the next population is made.
CheckpointEarlyId(s) ==
  [generation |-> s.generation, record |-> Record(s), archive |-> s.archive, hof |-> s.hof,
   population |-> IF version = "v35" THEN Bred(s.ranked, s.nextId, s.generation + 1)
                  ELSE s.population,
   nextId |-> s.nextId]

\* v35 saves the population to evaluate next, v36 and v37 the one evaluated last.
Checkpoint(s) ==
  [generation |-> s.generation, record |-> Record(s), archive |-> s.archive, hof |-> s.hof,
   population |-> IF version = "v35" THEN Bred(s.ranked, s.nextId, s.generation + 1)
                  ELSE s.population,
   nextId |-> IF version = "v35" THEN s.nextId + Size ELSE s.nextId]

\* The next round of the loop, and of a process that loads the checkpoint.  v36 emits
\* the population again, from the candidates in the order of their ids; v37 lets the
\* same candidates go on.
Following(k, candidates) ==
  Session(k.generation + 1,
          IF version = "v36" THEN Emitted(k.archive, candidates, k.nextId, k.generation)
          ELSE [i \in DOMAIN k.population |-> [k.population[i] EXCEPT !.trials = <<>>]],
          IF version = "v36" THEN k.nextId + Size ELSE k.nextId, k.archive, k.hof)

Continued(k) == Following(k, k.record.candidates)

\* Defect: the moments of the optimizer are not restored.
RestoredColdOptimizer(k) ==
  Following([k EXCEPT !.population = [i \in DOMAIN @ |-> [@[i] EXCEPT !.optimizer = 0]]], k.population)

\* Defect: the Hall of Fame is not restored.
RestoredWithoutHof(k) == Following([k EXCEPT !.hof = None], k.population)

Restored(k) == Following(k, k.population)

--------------------------------------------------------------------------------
(* The process *)

NoPool == [tasks |-> <<>>, handed |-> 0, busy |-> [w \in Workers |-> None], arrived |-> <<>>]

Init == /\ version \in Versions
        /\ seed \in Seeds
        /\ checkpoint = None
        /\ results = <<>>
        /\ hofFile = None
        /\ session = None
        /\ pool = NoPool
        /\ pc = "idle"

LoopHead == IF version = "v35" THEN "select" ELSE "evaluate"

Exit == session' = None /\ pool' = NoPool /\ pc' = "idle"

Train == /\ pc = "idle" /\ checkpoint = None
         /\ session' = Fresh
         /\ pc' = LoopHead
         /\ UNCHANGED <<version, seed, checkpoint, results, hofFile, pool>>

\* resume and continue: the JSONL and the portable Hall of Fame follow the checkpoint.
Resume == /\ pc = "idle" /\ checkpoint # None
          /\ checkpoint.generation + 1 < Generations
          /\ session' = Restored(checkpoint)
          /\ results' = IF Len(results) = checkpoint.generation
                        THEN Append(results, checkpoint.record) ELSE results
          /\ hofFile' = IF version = "v35" THEN checkpoint.hof ELSE hofFile
          /\ pc' = LoopHead
          /\ UNCHANGED <<version, seed, checkpoint, pool>>

(* _run_tasks of v35: tasks go to the workers in order and come back in any. *)

Task(c, profile, environment) ==
  [id |-> c.id, genome |-> c.genome, profile |-> profile, environment |-> environment]

\* Two tasks for each candidate.
SelectionTasks ==
  [n \in 1 .. 2 * Size |->
     Task(session.population[(n + 1) \div 2], IF n % 2 = 1 THEN "standard" ELSE "challenge",
          session.generation)]
ValidationTasks == [n \in 1 .. 2 |-> Task(session.ranked[session.nominee], "validation", n)]

Submit(tasks, after) == /\ pool' = [NoPool EXCEPT !.tasks = tasks]
                        /\ pc' = after
                        /\ UNCHANGED <<version, seed, checkpoint, results, hofFile, session>>

Select == pc = "select" /\ Submit(SelectionTasks, "selecting")
Validate == pc = "validate" /\ version = "v35" /\ Submit(ValidationTasks, "validating")

Working == pc \in {"selecting", "validating"}
Complete == Len(pool.arrived) = Len(pool.tasks)

Take(w) == /\ Working
           /\ pool.busy[w] = None /\ pool.handed < Len(pool.tasks)
           /\ pool' = [pool EXCEPT !.busy[w] = pool.handed + 1, !.handed = @ + 1]
           /\ UNCHANGED <<version, seed, checkpoint, results, hofFile, session, pc>>

Answer(w) ==
  LET ordinal == pool.busy[w]
      task == pool.tasks[ordinal]
      score == Score(task.profile, task.environment, task.genome)
  IN /\ Working /\ ordinal # None
     /\ pool' = [pool EXCEPT !.busy[w] = None,
                             !.arrived = Append(@, [ordinal |-> ordinal, id |-> task.id, score |-> score])]
     /\ UNCHANGED <<version, seed, checkpoint, results, hofFile, session, pc>>

\* A task raises or its process breaks: the run ends, no generation is committed.
WorkerFails(w) == /\ Working /\ pool.busy[w] # None
                  /\ Exit
                  /\ UNCHANGED <<version, seed, checkpoint, results, hofFile>>

\* Defect: the results are used in the order they arrive.
InOrderOfArrival(arrived) == arrived

\* Sorted by their ordinals, which have to be those of the tasks.
InTaskOrder(arrived) ==
  [n \in DOMAIN arrived |-> CHOOSE result \in Range(arrived) : result.ordinal = n]

\* Each result goes to the candidate it names.
ScoresOf(id) == LET ordered == InTaskOrder(pool.arrived)
                    own == Sorted({n \in DOMAIN ordered : ordered[n].id = id}, <)
                IN [t \in DOMAIN own |-> ordered[own[t]].score]

CollectSelection ==
  /\ pc = "selecting" /\ Complete
  /\ session' = Ranked(session, [i \in 1 .. Size |->
                  [session.population[i] EXCEPT !.trials = ScoresOf(session.population[i].id)]])
  /\ pool' = NoPool
  /\ pc' = "validate"
  /\ UNCHANGED <<version, seed, checkpoint, results, hofFile>>

AfterNominee == IF session.nominee < NomineeCount THEN "validate" ELSE "commit"

CollectValidation ==
  /\ pc = "validating" /\ Complete
  /\ LET scores == ScoresOf(session.ranked[session.nominee].id)
     IN session' = Judged(session, scores[1] + scores[2])
  /\ pool' = NoPool
  /\ pc' = AfterNominee
  /\ UNCHANGED <<version, seed, checkpoint, results, hofFile>>

(* The loop body of v36 and v37, one candidate after the other. *)

Evaluate ==
  /\ pc = "evaluate"
  /\ session' = Ranked(session, [i \in 1 .. Size |->
                  Tried(Trained(session.population[i], session.generation), session.generation)])
  /\ pc' = IF version = "v36" THEN "consider" ELSE "validate"
  /\ UNCHANGED <<version, seed, checkpoint, results, hofFile, pool>>

ShowArchive ==
  /\ pc = "consider"
  /\ session' = Considered(session)
  /\ pc' = IF session.considered + 1 < Size THEN "consider" ELSE "validate"
  /\ UNCHANGED <<version, seed, checkpoint, results, hofFile, pool>>

ValidateHere ==
  /\ pc = "validate" /\ version # "v35"
  /\ session' = Judged(session, Validation(session.ranked[session.nominee].genome))
  /\ pc' = AfterNominee
  /\ UNCHANGED <<version, seed, checkpoint, results, hofFile, pool>>

Commit == /\ pc = "commit"
          /\ checkpoint' = Checkpoint(session)
          /\ pc' = "append"
          /\ UNCHANGED <<version, seed, results, hofFile, session, pool>>

AppendRecord == /\ pc = "append"
                /\ results' = Append(results, checkpoint.record)
                /\ pc' = "next"
                /\ UNCHANGED <<version, seed, checkpoint, hofFile, session, pool>>

\* As many generations as were asked for, or as the time allows.
NextGeneration ==
  /\ pc = "next"
  /\ hofFile' = IF version = "v35" THEN checkpoint.hof ELSE hofFile
  /\ \/ Exit
     \/ /\ checkpoint.generation + 1 < Generations
        /\ session' = Continued(checkpoint)
        /\ pc' = LoopHead
        /\ UNCHANGED pool
  /\ UNCHANGED <<version, seed, checkpoint, results>>

\* Ctrl-C, an exception or the end of the process.
Die == pc # "idle" /\ Exit /\ UNCHANGED <<version, seed, checkpoint, results, hofFile>>

Next == \/ Train \/ Resume \/ Select \/ CollectSelection \/ Validate \/ CollectValidation
        \/ Evaluate \/ ShowArchive \/ ValidateHere
        \/ Commit \/ AppendRecord \/ NextGeneration \/ Die
        \/ \E w \in Workers : Take(w) \/ Answer(w) \/ WorkerFails(w)

Spec == Init /\ [][Next]_vars

--------------------------------------------------------------------------------
(* Properties *)

\* The archive and the Hall of Fame after each candidate of a generation.
Archives(s, scored) ==
  LET after[i \in 0 .. Size] ==
        IF i = 0 THEN s.archive ELSE Consider(after[i - 1], scored[i], s.generation)
  IN after
Fames(s, ranked) ==
  LET after[i \in 0 .. NomineeCount] ==
        IF i = 0 THEN s.hof
        ELSE Better(after[i - 1], ranked[i], Validation(ranked[i].genome), s.generation)
  IN after

\* A generation in one go, in one process, and the experiment that is never interrupted.
Evaluated(s) == [i \in 1 .. Size |->
  Tried(IF version = "v35" THEN s.population[i] ELSE Trained(s.population[i], s.generation), s.generation)]
Generation(s) ==
  LET scored == Evaluated(s)
      ranked == Rank(scored)
  IN Checkpoint([s EXCEPT !.population = scored, !.ranked = ranked,
                   !.archive = IF version = "v36" THEN Archives(s, scored)[Size] ELSE @,
                   !.hof = Fames(s, ranked)[NomineeCount]])
Uninterrupted ==
  LET after[n \in 1 .. Generations] ==
        Generation(IF n = 1 THEN Fresh ELSE Continued(after[n - 1]))
  IN after

TypeOK ==
  /\ version \in Versions /\ seed \in Seeds
  /\ checkpoint \in Checkpoints \cup {None}
  /\ results \in Seq(Rows)
  /\ hofFile \in Hofs \cup {None}
  /\ session \in Sessions \cup {None}
  /\ pool \in Pools
  /\ pc \in {"idle", "select", "selecting", "evaluate", "consider", "validate", "validating",
             "commit", "append", "next"}
  /\ (pc = "idle") <=> (session = None)

\* docs/V37_TESTING.md: "resume parity with uninterrupted execution";
\* docs/EXPERIMENT_DESIGN.md: "Worker results are restored to canonical task order".
\* What is committed is what the uninterrupted run commits: in whatever order workers
\* answer, and wherever processes fail, die and are resumed.
Committed == IF checkpoint = None THEN 0 ELSE checkpoint.generation + 1
SameAsUninterrupted ==
  /\ Committed > 0 => checkpoint = Uninterrupted[Committed]
  /\ \A n \in DOMAIN results : results[n] = Uninterrupted[n].record

\* v36 with a policy in its archive at every commit, v35 and v37 always.
LineageIsReproducible ==
  (version = "v36" => \A n \in 1 .. Committed : Occupied(Uninterrupted[n].archive) # {})
    => SameAsUninterrupted

\* The records of the committed generations, the row that is missing included.
History == IF Committed > Len(results) THEN Append(results, checkpoint.record) ELSE results

\* Every nominee of every committed generation was a chance to improve the Hall of Fame,
\* and none that was better is lost, by a crash between the generations or otherwise.
HofIsBest ==
  Committed > 0 =>
    \A n \in DOMAIN History : \A i \in 1 .. NomineeCount :
      LET c == History[n].candidates[i]
      IN ~Above(HofKey(c.genome, Validation(c.genome)),
                HofKey(checkpoint.hof.genome, checkpoint.hof.score))

\* MAP-Elites: each cell holds the best candidate that any committed generation had for
\* it, at the quality its own generation gave it, and no other cell is occupied.
Shown(n) == {c \in Range(History[n].candidates) : Admitted(c)}
ArchiveIsElite ==
  version = "v36" /\ Committed > 0 =>
    /\ Occupied(checkpoint.archive) = UNION {{Cell(c) : c \in Shown(n)} : n \in DOMAIN History}
    /\ \A cell \in Occupied(checkpoint.archive) :
         \E n \in DOMAIN History : \E c \in Shown(n) :
           Cell(c) = cell /\ checkpoint.archive[cell] = Entry(c, n - 1)
    /\ \A n \in DOMAIN History : \A c \in Shown(n) :
         ~Stronger(Entry(c, n - 1), checkpoint.archive[Cell(c)])

\* Ids tell candidates apart across the whole experiment, also after a process died with
\* candidates it never committed; and a parent is a candidate of an earlier generation.
\* (The types of the state go with it.)
LineageIsTraceable ==
  /\ TypeOK
  /\ version # "v37" =>
       \A n \in DOMAIN History : \A i \in DOMAIN History[n].candidates :
         LET c == History[n].candidates[i]
         IN /\ \A m \in 1 .. n : \A j \in DOMAIN History[m].candidates :
                 <<m, j>> # <<n, i>> => History[m].candidates[j].id # c.id
            /\ c.parent # None =>
                 \E k \in 1 .. n - 1 : \E j \in DOMAIN History[k].candidates :
                   History[k].candidates[j].id = c.parent
================================================================================
