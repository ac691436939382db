----------------------------- MODULE EvolutionV36 ------------------------------
(***************************************************************************)
(* tmp_2d_simulator_v36.py: train, continue, release and the terminal audit. *)
(* All but the audit hold training_v36.lock.  The lock file is created empty *)
(* and then written; a lock whose owner is not running, or that cannot be    *)
(* read, is renamed and taken over.                                          *)
(***************************************************************************)
EXTENDS EvolutionStore

Audit36(s, source, pass) == [hof |-> Hof(s), source |-> source, pass |-> pass]

--------------------------------------------------------------------------------
(* _acquire_lock and _release_lock *)

\* os.kill(pid, 0) fails, or the record cannot be parsed.
Stale36 == lock # None /\ (lock.owner = Dead \/ ~lock.written)

Probe36(p) == /\ At(p, "probe36")
              /\ \/ lock = None /\ Go(p, "create36")
                 \/ Stale36 /\ Go(p, "steal36")
                 \/ lock # None /\ ~Stale36 /\ Exit(p)
              /\ UNCHANGED <<version, files, lock>>

\* os.replace moves whatever file has the name by then.
Steal36(p) == /\ At(p, "steal36")
              /\ \/ lock = None /\ Exit(p) /\ UNCHANGED <<lock, context>>
                 \/ lock # None /\ lock' = None /\ context' = TRUE /\ Go(p, "create36")
              /\ UNCHANGED <<version, state, results, hofFile, status, audit, retained, intent, manifest>>

Create36(p) == /\ At(p, "create36")
               /\ \/ lock # None /\ Exit(p) /\ UNCHANGED lock
                  \/ lock = None /\ lock' = [Held(p) EXCEPT !.written = FALSE] /\ Go(p, "write36")
               /\ UNCHANGED <<version, files>>

\* The record goes to the file this process created, wherever it is now.
Write36(p) == /\ At(p, "write36")
              /\ lock' = IF lock # None /\ lock.owner = p THEN Held(p) ELSE lock
              /\ Go(p, "locked36")
              /\ UNCHANGED <<version, files>>

Unlocked36(p) == IF lock = Held(p) THEN None ELSE lock

Unlock36(p) == /\ At(p, "unlock36")
               /\ lock' = Unlocked36(p)
               /\ Exit(p)
               /\ UNCHANGED <<version, files>>

--------------------------------------------------------------------------------
(* run_experiment: the directory may hold the lock and nothing else. *)

Occupied36 == \/ Committed(state) \/ results.rows # <<>> \/ results.torn
              \/ status # NoStatus \/ audit # None \/ retained # {} \/ intent # None
              \/ manifest # None \/ context

Train36(p) == /\ At(p, "locked36") /\ Does(p, "train")
              /\ IF Occupied36 THEN Finish(p, "unlock36") ELSE Load(p, "evaluate")
              /\ UNCHANGED <<version, files, lock>>

(* continue_experiment: the checkpoint is loaded before the lock and again after. *)
Final36 == state.released \/ manifest # None

Resume36(p) == /\ At(p, "resume36")
               /\ IF Committed(state) /\ ~Final36 THEN Load(p, "probe36") ELSE Exit(p)
               /\ UNCHANGED <<version, files, lock>>

\* Defect: no second look for a release.
Reload36Unchecked(p) == /\ At(p, "locked36") /\ Does(p, "continue")
                        /\ IF Len(state.chain) = Len(Seen(p).chain)
                           THEN Load(p, "reconcile36") ELSE Finish(p, "unlock36")
                        /\ UNCHANGED <<version, files, lock>>

Reload36(p) == /\ At(p, "locked36") /\ Does(p, "continue")
               /\ IF ~Final36 /\ Len(state.chain) = Len(Seen(p).chain)
                  THEN Load(p, "reconcile36") ELSE Finish(p, "unlock36")
               /\ UNCHANGED <<version, files, lock>>

\* reconcile_results with repair: the JSONL is replaced whole; a torn last line is
\* dropped with it.
Reconcile36(p) ==
  LET s == Seen(p)
  IN /\ At(p, "reconcile36")
     /\ \/ /\ Ahead(s)
           /\ results' = [rows |-> s.chain, torn |-> FALSE]
           /\ Go(p, "retain36")
        \/ Consistent(s) /\ ~results.torn /\ Go(p, "retain36") /\ UNCHANGED results
        \/ ~Ahead(s) /\ (~Consistent(s) \/ results.torn) /\ Finish(p, "unlock36") /\ UNCHANGED results
     /\ UNCHANGED <<version, state, hofFile, status, audit, retained, intent, manifest, context, lock>>

\* The audit of the generation continued from is renamed after that generation.
Retained36(s) == Generation(s)

Retain36(p) ==
  LET g == Retained36(Seen(p))
  IN /\ At(p, "retain36")
     /\ \/ audit = None /\ Go(p, "evaluate") /\ UNCHANGED <<audit, retained>>
        \/ audit # None /\ g \in retained /\ Finish(p, "unlock36") /\ UNCHANGED <<audit, retained>>
        \/ /\ audit # None /\ g \notin retained
           /\ audit' = None /\ retained' = retained \cup {g}
           /\ Go(p, "evaluate")
     /\ UNCHANGED <<version, state, results, hofFile, status, intent, manifest, context, lock>>

(* _execute_generations *)
Evaluate36(p) == At(p, "evaluate") /\ Commit(p)

Append36(p) == /\ At(p, "append")
               /\ results' = Appended(Seen(p))
               /\ Go(p, "status36")
               /\ UNCHANGED <<version, state, hofFile, status, audit, retained, intent, manifest, context, lock>>

Tear36(p) == At(p, "append") /\ DieAppending(p)

Status36(p) == /\ At(p, "status36")
               /\ status' = Status("TRAINING_COMMITTED", Len(Seen(p).chain), TRUE)
               /\ Go(p, "evaluate") \/ Finish(p, "unlock36")
               /\ UNCHANGED <<version, state, results, hofFile, audit, retained, intent, manifest, context, lock>>

--------------------------------------------------------------------------------
(* audit_compare: the checkpoint is loaded, hashed later, and scored last.  A  *)
(* terminal audit that exists is only validated.                              *)

LoadAudit36(p) == /\ At(p, "load36")
                  /\ IF Committed(state) THEN Load(p, "evidence36") ELSE Exit(p)
                  /\ UNCHANGED <<version, files, lock>>

Evidence36(p) == /\ At(p, "evidence36")
                 /\ \/ audit # None /\ Exit(p)
                    \/ audit = None /\ proc' = [proc EXCEPT ![p].pc = "score36", ![p].source = state]
                 /\ UNCHANGED <<version, files, lock>>

Score36(p) == /\ At(p, "score36")
              /\ \E pass \in BOOLEAN : audit' = Audit36(Seen(p), proc[p].source, pass)
              /\ Exit(p)
              /\ UNCHANGED <<version, state, results, hofFile, status, retained, intent, manifest, context, lock>>

--------------------------------------------------------------------------------
(* _release_experiment_locked *)

\* The checkpoint the audit must be bound to: what it was before the release.
Audited36 == IF state.released /\ intent # None THEN intent.source ELSE state

\* Defect: not bound to the hash of the audited checkpoint.
Releasable36Unbound == /\ Committed(state)
                       /\ audit # None
                       /\ audit.hof = Hof(state) /\ audit.pass
                       /\ state.released => intent # None /\ intent.audit = audit

Releasable36 == /\ Committed(state)
                /\ audit # None
                /\ audit.hof = Hof(state) /\ audit.source = Audited36 /\ audit.pass
                /\ state.released => intent # None /\ intent.audit = audit

CheckRelease36(p) == /\ At(p, "locked36") /\ Does(p, "release")
                     /\ \/ ~Releasable36 /\ Finish(p, "unlock36")
                        \/ Releasable36 /\ Go(p, IF state.released THEN "manifest36" ELSE "intent36")
                     /\ UNCHANGED <<version, files, lock>>

Intent36(p) == /\ At(p, "intent36")
               /\ intent' = [source |-> state, audit |-> audit]
               /\ Go(p, "released36")
               /\ UNCHANGED <<version, state, results, hofFile, status, audit, retained, manifest, context, lock>>

\* set_checkpoint_workflow rewrites the checkpoint it finds.
Release36(p) == /\ At(p, "released36")
                /\ state' = [state EXCEPT !.released = TRUE]
                /\ Go(p, "manifest36")
                /\ UNCHANGED <<version, results, hofFile, status, audit, retained, intent, manifest, context, lock>>

\* The hashes of the files as they are; a missing JSONL raises.
Manifest36(p) ==
  /\ At(p, "manifest36")
  /\ \/ results.rows = <<>> /\ ~results.torn /\ Finish(p, "unlock36") /\ UNCHANGED manifest
     \/ /\ results.rows # <<>> \/ results.torn
        /\ manifest' = [state |-> state, rows |-> results.rows, hof |-> hofFile, audit |-> audit]
        /\ Go(p, "report36")
  /\ UNCHANGED <<version, state, results, hofFile, status, audit, retained, intent, context, lock>>

\* checkpoint_status reconciles without repair, and raises when it cannot.
Report36(p) == /\ At(p, "report36")
               /\ \/ /\ Ahead(state) \/ Consistent(state)
                     /\ status' = Status("RELEASED", Len(state.chain), TRUE)
                  \/ ~Ahead(state) /\ ~Consistent(state) /\ UNCHANGED status
               /\ Finish(p, "unlock36")
               /\ UNCHANGED <<version, state, results, hofFile, audit, retained, intent, manifest, context, lock>>

\* Any exception or Ctrl-C; past _acquire_lock, the finally clause releases the lock.
Unlocking36 == {"locked36", "reconcile36", "retain36", "evaluate", "append", "status36", "unlock36",
                "intent36", "released36", "manifest36", "report36"}

Fail36(p) == /\ p \in Running
             /\ lock' = IF proc[p].pc \in Unlocking36 THEN Unlocked36(p) ELSE Abandoned(p)
             /\ Exit(p)
             /\ UNCHANGED <<version, files>>

Step36(p) == \/ Probe36(p) \/ Steal36(p) \/ Create36(p) \/ Write36(p) \/ Unlock36(p)
             \/ Train36(p) \/ Resume36(p) \/ Reload36(p) \/ Reconcile36(p) \/ Retain36(p)
             \/ Evaluate36(p) \/ Append36(p) \/ Tear36(p) \/ Status36(p)
             \/ LoadAudit36(p) \/ Evidence36(p) \/ Score36(p)
             \/ CheckRelease36(p) \/ Intent36(p) \/ Release36(p) \/ Manifest36(p) \/ Report36(p)
             \/ Fail36(p)
================================================================================
