---------------------------- MODULE EvolutionStore -----------------------------
(***************************************************************************)
(* The files of one experiment and the processes that work on it: what      *)
(* tmp_2d_simulator_v35.py, _v36.py and _v37.py have in common.             *)
(*                                                                          *)
(* A generation is committed when its checkpoint replaces the one before    *)
(* (os.replace of a verified temporary file).  Its record is then appended  *)
(* to the results, a JSONL file, by a plain append that a dying process may *)
(* leave half written.  Everything computed in between is only the Hall of  *)
(* Fame the generation leaves.                                              *)
(*                                                                          *)
(* A process may die at any step.  Its files stay, and the lock it holds.   *)
(***************************************************************************)
EXTENDS Naturals, Sequences, SequencesExt, FiniteSets

CONSTANTS Procs,           \* processes
          None,            \* no file, no owner
          Dead,            \* the owner of a lock that died
          MaxGenerations   \* bound on the generations of an experiment

ASSUME GenerationsAssumption == MaxGenerations \in Nat \ {0}
ASSUME OwnersAssumption == None \notin Procs /\ Dead \notin Procs /\ None # Dead

VARIABLES
  version,    \* "v35", "v36" or "v37"
  state,      \* the checkpoint: the Hall of Fame of each generation, and RELEASED
  results,    \* the JSONL: its complete rows, and whether a torn line follows
  hofFile,    \* v35: the Hall of Fame in validation_hof_v35.npz
  status,     \* v36 and v37: the status file
  audit,      \* the terminal audit
  retained,   \* v36: generations whose terminal audit was renamed
  intent,     \* v36: the release intent
  manifest,   \* the last file of an audit or a release
  context,    \* other files in the directory of the experiment
  lock,       \* v36: the training lock.  v35: the audit lock
  proc

files == <<state, results, hofFile, status, audit, retained, intent, manifest, context>>
vars == <<version, files, lock, proc>>

\* A Hall of Fame is named by the generation it comes from.
Champions == 0 .. MaxGenerations - 1

\* The content of a checkpoint.  The chain stands for its embedded record, whose
\* previous_record_hash binds every record before it.
States == [chain : Seq(Champions), released : BOOLEAN]
NoState == [chain |-> <<>>, released |-> FALSE]
Committed(s) == s.chain # <<>>
Hof(s) == Last(s.chain)
Generation(s) == Len(s.chain) - 1

\* What an audit, a release intent and a lock file hold.
Audits == [hof : Champions, chain : Seq(Champions)]
          \cup [hof : Champions, source : States, pass : BOOLEAN]
Intents == [source : States, audit : Audits]
Locks == [owner : Procs \cup {Dead}, written : BOOLEAN]

ASSUME AbsenceAssumption == None \notin Champions \cup Audits \cup Intents \cup Locks

NoStatus == [workflow |-> "NONE", generations |-> 0, bound |-> FALSE]
Status(w, n, b) == [workflow |-> w, generations |-> n, bound |-> b]

\* The memory of a process: its command, its next step, the checkpoint it loaded or
\* wrote last, and the checkpoint whose hash an audit took.
Idle == [command |-> "none", pc |-> "idle", seen |-> NoState, source |-> NoState]
Working(command, pc) == [Idle EXCEPT !.command = command, !.pc = pc]

At(p, pc) == proc[p].pc = pc
Does(p, command) == proc[p].command = command
Seen(p) == proc[p].seen
Go(p, pc) == proc' = [proc EXCEPT ![p].pc = pc]
Load(p, pc) == proc' = [proc EXCEPT ![p].pc = pc, ![p].seen = state]
Finish(p, pc) == proc' = [proc EXCEPT ![p] = Working(@.command, pc)]
Exit(p) == proc' = [proc EXCEPT ![p] = Idle]

\* A lock file whose content is written.
Held(p) == [owner |-> p, written |-> TRUE]

Running == {p \in Procs : ~At(p, "idle")}

StoreInit == /\ state = NoState
             /\ results = [rows |-> <<>>, torn |-> FALSE]
             /\ hofFile = None
             /\ status = NoStatus
             /\ audit = None
             /\ retained = {}
             /\ intent = None
             /\ manifest = None
             /\ context = FALSE
             /\ lock = None
             /\ proc = [p \in Procs |-> Idle]

--------------------------------------------------------------------------------
(* Commit: the new checkpoint is what the process has in memory plus one      *)
(* generation, and replaces whatever file is there.                           *)

Evaluated(s) == IF Committed(s) THEN {Hof(s), Len(s.chain)} ELSE {0}

Commit(p) ==
  /\ Len(Seen(p).chain) < MaxGenerations
  /\ \E h \in Evaluated(Seen(p)) :
       LET new == [chain |-> Append(Seen(p).chain, h), released |-> FALSE]
       IN /\ state' = new
          /\ proc' = [proc EXCEPT ![p].pc = "append", ![p].seen = new]
  /\ UNCHANGED <<version, results, hofFile, status, audit, retained, intent, manifest, context, lock>>

\* The record of the last generation, written to the end of the JSONL.
Appended(s) == IF results.torn THEN results
               ELSE [results EXCEPT !.rows = Append(@, Hof(s))]

\* The checkpoint is one generation ahead of the JSONL and extends it.
Ahead(s) == results.rows = Front(s.chain)
Consistent(s) == results.rows = s.chain

--------------------------------------------------------------------------------
(* The end of a process.  What its finally clauses release is the version's    *)
(* affair; a process that dies leaves its lock.                                *)

Abandoned(p) == IF lock # None /\ lock.owner = p THEN [lock EXCEPT !.owner = Dead] ELSE lock

Die(p) == /\ p \in Running
          /\ lock' = Abandoned(p)
          /\ Exit(p)
          /\ UNCHANGED <<version, files>>

\* Dying inside the append leaves part of the line.
DieAppending(p) == /\ lock' = Abandoned(p)
                   /\ results' = [results EXCEPT !.torn = TRUE]
                   /\ Exit(p)
                   /\ UNCHANGED <<version, state, hofFile, status, audit, retained, intent, manifest, context>>
================================================================================
