----------------------------- MODULE EvolutionV35 ------------------------------
(***************************************************************************)
(* tmp_2d_simulator_v35.py: train, continue and audit.  There is no training *)
(* lock; an audit excludes other audits by a lock file.  The audit consumes  *)
(* the sealed suite once, then releases the experiment.                      *)
(***************************************************************************)
EXTENDS EvolutionStore

\* _write_terminal_audit: what binds an audit to the experiment.
Audit35(s) == [hof |-> Hof(s), chain |-> s.chain]

(* train: refused when any governed artifact exists. *)
Occupied35 == \/ Committed(state)
              \/ hofFile # None
              \/ results.rows # <<>> \/ results.torn
              \/ audit # None

Train35(p) == /\ At(p, "train35")
              /\ \/ Occupied35 /\ Exit(p) /\ UNCHANGED context
                 \/ ~Occupied35 /\ Load(p, "evaluate") /\ context' = TRUE
              /\ UNCHANGED <<version, state, results, hofFile, status, audit, retained, intent, manifest, lock>>

\* Defect: no refusal of a released experiment.
Resume35Released(p) == /\ At(p, "resume35")
                       /\ IF Committed(state) THEN Load(p, "ensure35") ELSE Exit(p)
                       /\ UNCHANGED <<version, files, lock>>

(* continue and audit: load the checkpoint, which only an audit may find RELEASED. *)
Resume35(p) == /\ At(p, "resume35")
               /\ \/ /\ Committed(state)
                     /\ state.released => Does(p, "audit")
                     /\ Load(p, "ensure35")
                  \/ /\ Committed(state) => state.released /\ Does(p, "continue")
                     /\ Exit(p)
               /\ UNCHANGED <<version, files, lock>>

\* _ensure_result: the row of the loaded or committed generation is there, or comes
\* next and is appended.
Present35(s) == ~results.torn /\ Consistent(s)
Next35Row(s) == ~results.torn /\ Len(results.rows) = Len(s.chain) - 1

EnsureResult(p, after) ==
  LET s == Seen(p)
  IN /\ \/ Present35(s) /\ Go(p, after) /\ UNCHANGED results
        \/ Next35Row(s) /\ Go(p, after) /\ results' = Appended(s)
        \/ ~Present35(s) /\ ~Next35Row(s) /\ Exit(p) /\ UNCHANGED results
     /\ UNCHANGED <<version, state, hofFile, status, audit, retained, intent, manifest, context, lock>>

Ensure35(p) == At(p, "ensure35") /\ EnsureResult(p, "restore35")
Append35(p) == At(p, "append") /\ EnsureResult(p, "hof35")
Tear35(p) == /\ At(p, "ensure35") \/ At(p, "append")
             /\ Next35Row(Seen(p))
             /\ DieAppending(p)

\* The portable Hall of Fame follows the checkpoint.
SaveHof35(p) == /\ \/ At(p, "restore35") /\ Go(p, IF Does(p, "audit") THEN "lock35" ELSE "evaluate")
                   \/ At(p, "hof35") /\ Go(p, "more35")
                /\ hofFile' = Hof(Seen(p))
                /\ UNCHANGED <<version, state, results, status, audit, retained, intent, manifest, context, lock>>

(* _run_impl: as many generations as were asked for, at least one. *)
Evaluate35(p) == At(p, "evaluate") /\ Commit(p)
More35(p) == /\ At(p, "more35")
             /\ Exit(p) \/ Go(p, "evaluate")
             /\ UNCHANGED <<version, files, lock>>

(* audit: the lock file is created exclusively, and removed in the finally clause. *)
LockAudit35(p) == /\ At(p, "lock35")
                  /\ \/ lock # None /\ Exit(p) /\ UNCHANGED lock
                     \/ lock = None /\ lock' = Held(p) /\ Go(p, "audit35")
                  /\ UNCHANGED <<version, files>>

\* A sealed audit is validated, never replaced.
WriteAudit35(p) ==
  LET own == Audit35(Seen(p))
  IN /\ At(p, "audit35")
     /\ \/ audit = None /\ audit' = own /\ Go(p, "unlock35")
        \/ audit = own /\ Go(p, "unlock35") /\ UNCHANGED audit
        \/ audit \notin {None, own} /\ Go(p, "refuse35") /\ UNCHANGED audit
     /\ UNCHANGED <<version, state, results, hofFile, status, retained, intent, manifest, context, lock>>

UnlockAudit35(p) == /\ \/ At(p, "unlock35") /\ Go(p, "release35")
                       \/ At(p, "refuse35") /\ Exit(p)
                    /\ lock' = None
                    /\ UNCHANGED <<version, files>>

\* The released checkpoint keeps its content.  An experiment that was RELEASED when
\* the audit started only gets the manifest it may lack.
Release35(p) == /\ At(p, "release35")
                /\ state' = IF Seen(p).released THEN state ELSE [state EXCEPT !.released = TRUE]
                /\ IF Seen(p).released /\ manifest # None THEN Exit(p) ELSE Go(p, "manifest35")
                /\ UNCHANGED <<version, results, hofFile, status, audit, retained, intent, manifest, context, lock>>

\* write_release_manifest: the hashes of the artifacts as they are.
Manifest35(p) == /\ At(p, "manifest35")
                 /\ manifest' = [state |-> state, rows |-> results.rows, hof |-> hofFile, audit |-> audit]
                 /\ Exit(p)
                 /\ UNCHANGED <<version, state, results, hofFile, status, audit, retained, intent, context, lock>>

\* Any exception or Ctrl-C; the audit lock is released on the way out.
Fail35(p) == /\ p \in Running
             /\ lock' = IF proc[p].pc \in {"audit35", "unlock35", "refuse35"} THEN None ELSE lock
             /\ Exit(p)
             /\ UNCHANGED <<version, files>>

Step35(p) == \/ Train35(p) \/ Resume35(p) \/ Ensure35(p) \/ SaveHof35(p) \/ Evaluate35(p)
             \/ Append35(p) \/ Tear35(p) \/ More35(p) \/ LockAudit35(p) \/ WriteAudit35(p)
             \/ UnlockAudit35(p) \/ Release35(p) \/ Manifest35(p) \/ Fail35(p)
================================================================================
