------------------------------- MODULE Evolution -------------------------------
(***************************************************************************)
(* The life of one experiment under each of the three versions: commands      *)
(* start one after another or together, run step by step, fail or die at any  *)
(* step, and find on the disk what the ones before them left.                 *)
(*                                                                          *)
(* v35 and v37 have no training lock, so at most one process trains at a time *)
(* under them, and v35 neither trains nor audits beside the other.  Under v36 *)
(* any number may start; LiveTakeover tells whether one of them may take the   *)
(* lock of a live one for stale, as _acquire_lock does in a race.              *)
(***************************************************************************)
EXTENDS EvolutionV35, EvolutionV36, EvolutionV37

CONSTANTS Versions,        \* the versions the run looks at
          LiveTakeover     \* may the lock of a live process be taken over

ASSUME VersionsAssumption == Versions \subseteq {"v35", "v36", "v37"}
ASSUME TakeoverAssumption == LiveTakeover \in BOOLEAN

Init == version \in Versions /\ StoreInit

--------------------------------------------------------------------------------
(* The commands, and the step each begins with. *)

Commands == {"train", "continue", "release", "audit"}

Begins(v) == CASE v = "v35" -> [train |-> "train35", continue |-> "resume35", audit |-> "resume35"]
               [] v = "v36" -> [train |-> "probe36", continue |-> "resume36", release |-> "probe36",
                                audit |-> "load36"]
               [] v = "v37" -> [train |-> "train37", continue |-> "resume37", audit |-> "load37"]

Auditors == {p \in Running : Does(p, "audit")}
Writers == Running \ Auditors

MayStart(command) ==
  IF command = "audit" THEN IF version = "v35" THEN Writers = {} ELSE Auditors = {}
  ELSE version # "v36" => Running \subseteq (IF version = "v35" THEN {} ELSE Auditors)

Start(p) == /\ At(p, "idle")
            /\ \E command \in DOMAIN Begins(version) :
                 /\ MayStart(command)
                 /\ proc' = [proc EXCEPT ![p] = Working(command, Begins(version)[command])]
            /\ UNCHANGED <<version, files, lock>>

TakesOverLive(p) == At(p, "steal36") /\ lock # None /\ lock.owner # Dead

V35(p) == version = "v35" /\ Step35(p)
V36(p) == version = "v36" /\ Step36(p) /\ (LiveTakeover \/ ~TakesOverLive(p) \/ lock' # None)
V37(p) == version = "v37" /\ Step37(p)

Next == \E p \in Procs : Start(p) \/ V35(p) \/ V36(p) \/ V37(p) \/ Die(p)

Spec == Init /\ [][Next]_vars

--------------------------------------------------------------------------------
(* Properties *)

TypeOK ==
  /\ version \in Versions
  /\ state \in States /\ Len(state.chain) <= MaxGenerations
  /\ results \in [rows : Seq(Champions), torn : BOOLEAN]
  /\ hofFile \in Champions \cup {None}
  /\ status \in [workflow : {"NONE", "TRAINING", "GENERATION_COMMITTED", "TRAINING_COMMITTED",
                             "TRAINING_COMPLETE", "BUDGET_EXHAUSTED", "RELEASED"},
                 generations : 0 .. MaxGenerations, bound : BOOLEAN]
  /\ retained \subseteq Champions
  /\ context \in BOOLEAN
  /\ audit \in Audits \cup {None} /\ intent \in Intents \cup {None}
  /\ lock \in Locks \cup {None}
  /\ \A p \in Procs : /\ proc[p].command \in Commands \cup {"none"}
                      /\ proc[p].seen \in States /\ proc[p].source \in States
                      /\ (proc[p] = Idle) = At(p, "idle")

\* The committed generations form a history that grows by one generation at a time,
\* is never rewritten, and ends with the release: whatever dies, fails or runs beside
\* what, no generation is lost from the checkpoint and nothing is committed after
\* RELEASED.
History == INSTANCE GenerationHistory WITH history <- state.chain, released <- state.released
ImplementsHistory == History!Spec

\* The JSONL holds every generation of the checkpoint but perhaps the last, and a torn
\* line only in the place of that last one.  It is never ahead and never diverges, so
\* the embedded record always suffices to complete it.  (The types of the state go with it.)
HistoryBehind == /\ TypeOK
                 /\ results.rows = state.chain \/ (Committed(state) /\ Ahead(state))
                 /\ results.torn => results.rows # state.chain

\* v37, which has no release, ends with its audit: only the complete plan is audited,
\* each generation with its line in the journal, and training never goes on after it.
AuditIsTerminal ==
  version = "v37" /\ audit # None =>
    /\ Len(state.chain) = Planned
    /\ Consistent(state) /\ ~results.torn
    /\ audit = Audit37(state)

\* RELEASED is earned: the terminal audit on the disk is the one of the released
\* generations and their Hall of Fame, and under v36 it passed the gate for the very
\* checkpoint the release intent names.  What v37 ends with is earned alike.
ReleaseIsEarned ==
  /\ AuditIsTerminal
  /\ state.released =>
       /\ audit # None /\ audit.hof = Hof(state)
       /\ version = "v35" => audit = Audit35(state)
       /\ version = "v36" => /\ audit.pass /\ intent # None
                             /\ intent.audit = audit /\ intent.source = audit.source
                             /\ audit.source = [state EXCEPT !.released = FALSE]

\* A manifest of v35 or v36 names the files that are there: nothing changes an
\* artifact of a released experiment any more.  Under v35 it also seals a complete
\* history.  (v36 does not reconcile before a release.)  The failure analysis of v37
\* is the one of the audit that is there.
ManifestHolds ==
  manifest # None =>
    IF version = "v37" THEN manifest = audit
    ELSE /\ manifest = [state |-> state, rows |-> results.rows, hof |-> hofFile, audit |-> audit]
         /\ state.released
         /\ version = "v35" => Consistent(state) /\ ~results.torn /\ hofFile = Hof(state)

\* docs/V36_SECURITY.md: "Training uses an exclusive owner-token lock with
\* stale-owner retention."
Locked36 == {p \in Procs : ~Does(p, "audit") /\ proc[p].pc \in Unlocking36}
TrainingExclusive == version = "v36" => Cardinality(Locked36) <= 1

\* BUDGET_EXHAUSTED "means the last complete generation is retained and resumable"
\* (docs/V37_OPERATIONS.md).  Once a session committed a generation, that status names
\* the generation of the checkpoint and train --resume accepts checkpoint and journal.
BudgetIsResumable ==
  status.workflow = "BUDGET_EXHAUSTED" /\ status.generations > 0 =>
    /\ status.generations = Len(state.chain)
    /\ ~results.torn /\ Consistent(state)
================================================================================
