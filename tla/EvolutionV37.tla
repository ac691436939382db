----------------------------- MODULE EvolutionV37 ------------------------------
(***************************************************************************)
(* tmp_2d_simulator_v37.py: train, train --resume and audit.  The number of   *)
(* generations is approved beforehand; a time budget may end a session before *)
(* any generation.  There is no lock.                                         *)
(***************************************************************************)
EXTENDS EvolutionStore

Planned == MaxGenerations

Audit37(s) == [hof |-> Hof(s), chain |-> s.chain]

(* train: refused in a directory that is not empty.  The preserved specialists are *)
(* the first file in it.                                                           *)
Occupied37 == \/ Committed(state) \/ results.rows # <<>> \/ results.torn
              \/ status # NoStatus \/ audit # None \/ manifest # None \/ context

Train37(p) == /\ At(p, "train37")
              /\ \/ Occupied37 /\ Exit(p) /\ UNCHANGED context
                 \/ ~Occupied37 /\ Load(p, "begin37") /\ context' = TRUE
              /\ UNCHANGED <<version, state, results, hofFile, status, audit, retained, intent, manifest, lock>>

(* train --resume: read_generation_journal refuses a line that is not JSON. *)
Resume37(p) == /\ At(p, "resume37")
               /\ IF Committed(state) THEN Load(p, "journal37") ELSE Exit(p)
               /\ UNCHANGED <<version, files, lock>>

\* Defect: a reader that skips a torn line.
Recoverable37Torn(s) == Ahead(s)
Recoverable37(s) == ~results.torn /\ Ahead(s)

Journal37(p) ==
  LET s == Seen(p)
  IN /\ At(p, "journal37")
     /\ \/ Recoverable37(s) /\ results' = Appended(s) /\ Go(p, "begin37")
        \/ ~results.torn /\ Consistent(s) /\ Go(p, "begin37") /\ UNCHANGED results
        \/ ~Recoverable37(s) /\ (results.torn \/ ~Consistent(s)) /\ Exit(p) /\ UNCHANGED results
     /\ UNCHANGED <<version, state, hofFile, status, audit, retained, intent, manifest, context, lock>>

\* Only the final status of a session and that of a generation name its record.
SaveStatus37(p, workflow, bound) ==
  /\ status' = Status(workflow, Len(Seen(p).chain), bound)
  /\ UNCHANGED <<version, state, results, hofFile, audit, retained, intent, manifest, context, lock>>

\* Defect: a resumed session keeps the status of the one before.
Begin37Silent(p) == At(p, "begin37") /\ Go(p, "head37") /\ UNCHANGED <<version, files, lock>>

Begin37(p) == At(p, "begin37") /\ SaveStatus37(p, "TRAINING", FALSE) /\ Go(p, "head37")

\* The head of the loop; runtime_allows_generation may stop it at any round.
Head37(p) == /\ At(p, "head37")
             /\ \/ Len(Seen(p).chain) < Planned /\ Go(p, "evaluate")
                \/ Go(p, "end37")
             /\ UNCHANGED <<version, files, lock>>

Evaluate37(p) == At(p, "evaluate") /\ Commit(p)

Append37(p) == /\ At(p, "append")
               /\ results' = Appended(Seen(p))
               /\ Go(p, "status37")
               /\ UNCHANGED <<version, state, hofFile, status, audit, retained, intent, manifest, context, lock>>

Tear37(p) == /\ \/ At(p, "append")
                \/ At(p, "journal37") /\ Recoverable37(Seen(p))
             /\ DieAppending(p)

Status37(p) == At(p, "status37") /\ SaveStatus37(p, "GENERATION_COMMITTED", TRUE) /\ Go(p, "head37")

End37(p) == /\ At(p, "end37")
            /\ SaveStatus37(p, IF Len(Seen(p).chain) = Planned THEN "TRAINING_COMPLETE"
                               ELSE "BUDGET_EXHAUSTED", TRUE)
            /\ Exit(p)

(* report_status: the status must name the generation of the checkpoint. *)
Reported37(workflow) == status = Status(workflow, Len(state.chain), TRUE)

(* audit *)
Eligible37 == Len(state.chain) = Planned /\ Reported37("TRAINING_COMPLETE")

LoadAudit37(p) == /\ At(p, "load37")
                  /\ IF Eligible37 THEN Load(p, "score37") ELSE Exit(p)
                  /\ UNCHANGED <<version, files, lock>>

Score37(p) == /\ At(p, "score37")
              /\ \/ audit # None /\ Exit(p) /\ UNCHANGED audit
                 \/ audit = None /\ audit' = Audit37(Seen(p)) /\ Go(p, "analysis37")
              /\ UNCHANGED <<version, state, results, hofFile, status, retained, intent, manifest, context, lock>>

\* failure_analysis_v37.json holds the pairs of the audit.
Analysis37(p) == /\ At(p, "analysis37")
                 /\ manifest' = Audit37(Seen(p))
                 /\ Exit(p)
                 /\ UNCHANGED <<version, state, results, hofFile, status, audit, retained, intent, context, lock>>

\* Any exception or Ctrl-C.
Fail37(p) == /\ p \in Running
             /\ Exit(p)
             /\ UNCHANGED <<version, files, lock>>

Step37(p) == \/ Train37(p) \/ Resume37(p) \/ Journal37(p) \/ Begin37(p) \/ Head37(p)
             \/ Evaluate37(p) \/ Append37(p) \/ Tear37(p) \/ Status37(p) \/ End37(p)
             \/ LoadAudit37(p) \/ Score37(p) \/ Analysis37(p) \/ Fail37(p)
================================================================================
