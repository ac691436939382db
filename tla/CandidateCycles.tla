---------------------------- MODULE CandidateCycles ----------------------------
(***************************************************************************)
(* CodexImprovementController_v2.py: how a run decides.  execute_cycle takes *)
(* a candidate from the builder through gates, specialists, remediation,     *)
(* hidden fold and final QA to a commit; _run_unfinalized strings cycles     *)
(* together and adjudicates the cumulative candidate of the last accepted.   *)
(*                                                                         *)
(* A tree is the content of the two candidate files: 0 is the base commit    *)
(* of the run, the others are numbered by the patches that left them.  A     *)
(* diff is the pair of its trees, a checkpoint the tree it was trained from. *)
(* What models, tests and scores answer is any answer.  The budget may end,  *)
(* and the protected checkout change, at any moment.                         *)
(*                                                                         *)
(* Leases, containers, sealing and publication are in ImprovementController, *)
(* for which all of this is one outcome.                                    *)
(***************************************************************************)
EXTENDS Naturals, Sequences, FiniteSets

CONSTANTS MaxCycles,       \* config.cycles
          RemediationCap,  \* config.remediation_cap
          Roles,           \* the specialists
          MaxFaults,       \* operations that raise
          None

ASSUME CyclesAssumption == MaxCycles \in Nat /\ RemediationCap \in Nat /\ MaxFaults \in Nat
\* decision_reviews lists final QA beside the specialists.
ASSUME RolesAssumption == IsFiniteSet(Roles) /\ "final_qa" \notin Roles
ASSUME NoneAssumption == None \notin Nat /\ None \notin {"FAILED", "TIMEOUT"}

VARIABLES
  pc,
  it,         \* execute_cycle's locals and its CycleOutcome
  outcomes,   \* the outcomes of the cycles that ended
  base,       \* tree the next cycle starts from
  selected,   \* number of the last accepted cycle, 0 without one
  original,   \* original_baseline: the tree of that checkpoint
  fatal,      \* fatal_execution
  root,       \* the locals of the root adjudication
  decision,   \* the operator decision of the run
  evidence,   \* what the retained evidence shows of which diff
  folds,      \* private folds on the disk, by cycle, 0 the final one
  disclosed,  \* some outcome has a fold for hidden_evaluation_disclosure
  unsealed,   \* who left behind what no manifest covers, by cycle, 0 the run itself
  late,       \* fewer than two seconds of the budget remain
  intact,     \* the protected checkout is as it was
  faults

world == <<late, intact>>
directories == <<disclosed, unsealed>>
decided == <<base, selected, original, fatal, root, decision>>
vars == <<pc, it, outcomes, decided, evidence, folds, directories, world, faults>>

CoreGates == {"authorization", "sandbox_canary", "filesystem", "security", "compile",
              "focused_tests", "full_tests", "specialist_consensus", "evaluation",
              "external_guard", "production_guard", "final_qa"}
CycleTests == {"sandbox_canary", "compile", "focused_tests", "full_tests"}
Guards == {"external_guard", "production_guard"}

Cycle == Len(outcomes) + 1

\* What the patch of an attempt of this cycle leaves.
Patched(attempt) == Len(outcomes) * (RemediationCap + 1) + attempt + 1
Trees == 0 .. MaxCycles * (RemediationCap + 1)

\* A review fails by findings or by criteria alone.
Reviews == [Roles -> {"PASS", "FINDING", "CRITERION"}]
Findings(reviews) == {r \in Roles : reviews[r] = "FINDING"}
AllPass(reviews) == \A r \in Roles : reviews[r] = "PASS"

\* adjudicate raises on a panel that does not pass and names nothing to remedy.
Adjudicable(reviews) == AllPass(reviews) \/ Findings(reviews) # {}

\* verify_final_qa: exactly one disposition for every finding.
VerifiedQa(found, disposed) == disposed = found

\* The ten items of the rubric together: every role, gate, evaluation and final QA.
TenOutOfTen(agreed, gates, evaluated, qa) ==
  agreed /\ gates = CoreGates /\ evaluated /\ qa = "PASS"

Tests(c, diff) == [cycle |-> c, shows |-> "tests", diff |-> diff]
Panel(c, diff, found) == [cycle |-> c, shows |-> "panel", diff |-> diff, found |-> found]
Paired(c, diff) == [cycle |-> c, shows |-> "paired", diff |-> diff]
Qa(c, diff, disposed) == [cycle |-> c, shows |-> "qa", diff |-> diff, disposed |-> disposed]

NewCycle == [base |-> base, tree |-> base, diff |-> None, attempt |-> 0, agreed |-> FALSE,
             found |-> {}, gates |-> {"authorization"}, baseline |-> None, candidate |-> None,
             commit |-> None, status |-> "RUNNING", execution |-> "RUNNING"]

NewRoot == [gates |-> {"authorization"}, agreed |-> FALSE, found |-> {}, evaluated |-> FALSE,
            qa |-> "NOT_RUN", blocked |-> FALSE]

Init ==
  /\ pc = "cycle"
  /\ outcomes = <<>> /\ base = 0 /\ selected = 0
  /\ it = NewCycle
  /\ original = None /\ fatal = None /\ root = NewRoot /\ decision = None
  /\ evidence = {} /\ folds = {} /\ disclosed = FALSE /\ unsealed = {}
  /\ late = FALSE /\ intact = TRUE /\ faults = 0

-------------------------------------------------------------------------------
(* execute_cycle.  A step that asks for the remaining time of a budget that    *)
(* has ended raises RuntimeTimeout; tests and training make that a rejection.  *)

Step(here, there) == pc = here /\ pc' = there
Pass(gates) == it' = [it EXCEPT !.gates = @ \cup gates]
EndsAs(status, execution) ==
  /\ it' = [it EXCEPT !.status = status, !.execution = execution]
  /\ pc' = "finally"
Rejected == EndsAs("REJECTED", "SUCCESS")

\* A manifest lists files, and only a cycle that is sealed has one: a directory that was
\* made and stays empty is covered by none, nor is a cycle that execute_cycle raised from.
Abandon(c) == unsealed' = unsealed \cup {c} /\ UNCHANGED disclosed
MayAbandon(c, made) == (made /\ Abandon(c)) \/ UNCHANGED directories

\* Lease, container qualification and worktree.
Isolate ==
  /\ Step("isolate", "build") /\ ~late
  /\ Pass({"sandbox_canary"})
  /\ UNCHANGED <<outcomes, decided, evidence, folds, directories>>

\* The builder proposes a patch that verify_build_result accepts.
Build ==
  /\ pc = "build" /\ ~late
  /\ IF intact THEN pc' = "baseline" /\ UNCHANGED it ELSE EndsAs("ERROR", "FAILED")
  /\ UNCHANGED <<outcomes, decided, evidence, folds, directories>>

TrainBaseline ==
  /\ Step("baseline", "apply") /\ ~late
  /\ it' = [it EXCEPT !.baseline = it.base]
  /\ UNCHANGED <<outcomes, decided, evidence, folds, directories>>

\* Defect: only the first patch of a cycle is bound to its diff.
ApplyUnbound ==
  /\ Step("apply", "test") /\ ~late
  /\ LET tree == Patched(it.attempt)
     IN it' = [it EXCEPT !.tree = tree, !.diff = IF it.attempt = 0 THEN <<it.base, tree>> ELSE @]
  /\ UNCHANGED <<outcomes, decided, evidence, folds, directories>>

\* The patch of the builder, or of the remediator, is applied and passes the static gate.
Apply ==
  /\ Step("apply", "test") /\ ~late
  /\ LET tree == Patched(it.attempt)
     IN it' = [it EXCEPT !.tree = tree, !.diff = <<it.base, tree>>]
  /\ UNCHANGED <<outcomes, decided, evidence, folds, directories>>

Validate ==
  /\ Step("test", "panel") /\ ~late
  /\ evidence' = evidence \cup {Tests(Cycle, <<it.base, it.tree>>)}
  /\ UNCHANGED <<it, outcomes, decided, folds, directories>>

\* Seven specialists review the diff; adjudicate asks for a remedy of every finding.
Specialists ==
  /\ pc = "panel" /\ ~late
  /\ \E reviews \in Reviews :
       LET found == Findings(reviews)
           read == [it EXCEPT !.agreed = AllPass(reviews), !.found = @ \cup found]
       IN IF ~Adjudicable(reviews)
          THEN /\ it' = [it EXCEPT !.agreed = FALSE, !.status = "ERROR", !.execution = "FAILED"]
               /\ pc' = "finally" /\ UNCHANGED evidence
          ELSE /\ evidence' = evidence \cup {Panel(Cycle, it.diff, found)}
               /\ IF found # {}
                  THEN pc' = "remediate" /\ it' = read
                  ELSE /\ pc' = "train"
                       /\ it' = [read EXCEPT !.gates = @ \cup CycleTests \cup
                                    {"filesystem", "security", "specialist_consensus"}]
  /\ UNCHANGED <<outcomes, decided, folds, directories>>

\* Defect: attempts are not counted.
RemediateAgain ==
  /\ pc = "remediate"
  /\ IF it.attempt >= RemediationCap
     THEN Rejected
     ELSE ~late /\ pc' = "apply" /\ UNCHANGED it
  /\ UNCHANGED <<outcomes, decided, evidence, folds, directories>>

Remediate ==
  /\ pc = "remediate"
  /\ IF it.attempt >= RemediationCap
     THEN Rejected
     ELSE ~late /\ pc' = "apply" /\ it' = [it EXCEPT !.attempt = @ + 1]
  /\ UNCHANGED <<outcomes, decided, evidence, folds, directories>>

TrainCandidate ==
  /\ Step("train", "fold") /\ ~late
  /\ it' = [it EXCEPT !.candidate = it.tree]
  /\ UNCHANGED <<outcomes, decided, evidence, folds, directories>>

\* outcome.private_fold_record.
HideFold ==
  /\ Step("fold", "score")
  /\ folds' = folds \cup {Cycle} /\ disclosed' = TRUE
  /\ UNCHANGED <<it, outcomes, decided, evidence, unsealed>>

\* Defect: the fold is removed only when the candidate passes.
UnlinkWhenPassed(passed) == IF passed THEN folds \ {Cycle} ELSE folds

\* The finally clause around the two scores.
Unlink(passed) == folds \ {Cycle}

\* Baseline and candidate are scored on the fold; paired_metric_gate compares.
Score ==
  /\ pc = "score" /\ ~late
  /\ \E passed \in BOOLEAN :
       /\ folds' = Unlink(passed)
       /\ IF passed
          THEN /\ pc' = "guard" /\ Pass({"evaluation"})
               /\ evidence' = evidence \cup {Paired(Cycle, <<it.baseline, it.candidate>>)}
          ELSE Rejected /\ UNCHANGED evidence
  /\ UNCHANGED <<outcomes, decided, directories>>

\* external_guard.json.
Guard ==
  /\ pc = "guard"
  /\ IF intact THEN pc' = "qa" /\ Pass(Guards) ELSE EndsAs("ERROR", "FAILED")
  /\ UNCHANGED <<outcomes, decided, evidence, folds, directories>>

\* Final QA, and the rubric that follows a PASS.
FinalQa ==
  /\ pc = "qa" /\ ~late
  /\ \E verdict \in {"PASS", "BLOCK"}, disposed \in SUBSET Roles :
       LET gates == it.gates \cup {"final_qa"}
       IN IF /\ VerifiedQa(it.found, disposed) /\ verdict = "PASS"
             /\ TenOutOfTen(it.agreed, gates, TRUE, verdict)
          THEN /\ pc' = "commit" /\ Pass({"final_qa"})
               /\ evidence' = evidence \cup {Qa(Cycle, it.diff, disposed)}
          ELSE Rejected /\ UNCHANGED evidence
  /\ UNCHANGED <<outcomes, decided, folds, directories>>

Commit ==
  /\ pc = "commit" /\ ~late
  /\ it' = [it EXCEPT !.commit = it.tree, !.status = "ACCEPTED", !.execution = "SUCCESS"]
  /\ pc' = "finally"
  /\ UNCHANGED <<outcomes, decided, evidence, folds, directories>>

\* CandidateRejected: by the builder's or remediator's answer, the static gate, a test, or
\* a training that fails or runs out of time.  The directory of the tests is made first.
Reject ==
  /\ \/ pc \in {"build", "remediate", "apply"} /\ ~late
     \/ pc \in {"baseline", "test", "train"}
  /\ Rejected
  /\ MayAbandon(Cycle, pc = "test" /\ late)
  /\ UNCHANGED <<outcomes, decided, evidence, folds>>

\* The budget ends before a step that is not a test or a training.  That of an attempt, or
\* of its gates, is made before they ask how much is left.
Overrun ==
  /\ late
  /\ \/ pc \in {"isolate", "build", "apply", "panel", "score", "qa", "commit"}
     \/ pc = "remediate" /\ it.attempt < RemediationCap
  /\ EndsAs("TIMEOUT", "TIMEOUT")
  /\ folds' = Unlink(FALSE)
  /\ IF pc = "apply" THEN Abandon(Cycle) ELSE UNCHANGED directories
  /\ UNCHANGED <<outcomes, decided, evidence>>

\* The steps that make a directory of the cycle before they write into it.
Making == {"isolate", "build", "baseline", "apply", "test", "panel", "remediate", "train", "qa"}

\* A step raises, or its command takes longer than it may; a fold may resist its removal.
\* Of a test, that is a rejection.
CycleFails ==
  /\ \/ /\ pc \in {"isolate", "build", "baseline", "apply", "test", "panel", "remediate", "train",
                  "fold", "score", "guard", "qa", "commit"}
        /\ EndsAs("ERROR", "FAILED")
     \/ /\ pc \in {"isolate", "build", "apply", "panel", "remediate", "score", "qa", "commit"}
        /\ EndsAs("TIMEOUT", "TIMEOUT")
     \/ pc = "test" /\ Rejected
  /\ folds' \in {folds, Unlink(FALSE)}
  /\ MayAbandon(Cycle, pc \in Making)
  /\ UNCHANGED <<outcomes, decided, evidence>>

\* execute_cycle raises before its try statement: the cycle is never sealed.
StartFails ==
  /\ Step("isolate", "emergency")
  /\ Abandon(Cycle)
  /\ UNCHANGED <<it, outcomes, decided, evidence, folds>>

-------------------------------------------------------------------------------
(* The finally clause, and the loop of _run_unfinalized.                       *)

Failed(o) == [o EXCEPT !.status = "ERROR", !.execution = "FAILED"]

\* What the cycle's own production guard makes of its outcome.
Guarded(o) == IF intact THEN [o EXCEPT !.gates = @ \cup {"production_guard"}]
              ELSE Failed([o EXCEPT !.gates = @ \ {"production_guard"}])

EndCycle(o) ==
  /\ pc = "finally"
  /\ outcomes' = Append(outcomes, Guarded(o))
  /\ pc' = "take"
  /\ UNCHANGED <<it, decided, evidence, folds, directories>>

\* Cleanup leaves something behind that is quarantined.
CleanupFails == EndCycle(Failed(it))

\* A container or a lease could not be recovered: execute_cycle raises unsealed.
RecoveryFails ==
  /\ Step("finally", "emergency")
  /\ Abandon(Cycle)
  /\ UNCHANGED <<it, outcomes, decided, evidence, folds>>

\* Defect: an outcome with a commit is selected, whatever its status.
SelectableByCommit(o) == o.commit # None

Selectable(o) == o.status = "ACCEPTED"

TakeOutcome ==
  /\ pc = "take"
  /\ LET o == outcomes[Len(outcomes)]
         ends == ~Selectable(o) /\ o.execution \in {"FAILED", "TIMEOUT"}
     IN /\ original' = IF original = None /\ o.base = 0 THEN o.baseline ELSE original
        /\ selected' = IF Selectable(o) THEN Len(outcomes) ELSE selected
        /\ base' = IF Selectable(o) THEN o.commit ELSE base
        /\ fatal' = IF ends THEN o.execution ELSE fatal
        /\ pc' = IF ends THEN "adjudicate" ELSE "cycle"
  /\ UNCHANGED <<it, outcomes, root, decision, evidence, folds, directories>>

NextCycle ==
  /\ Step("cycle", "isolate") /\ Len(outcomes) < MaxCycles
  /\ it' = NewCycle
  /\ UNCHANGED <<outcomes, decided, evidence, folds, directories>>

CyclesEnd ==
  /\ Step("cycle", "adjudicate")
  /\ \/ Len(outcomes) = MaxCycles /\ UNCHANGED fatal
     \/ Len(outcomes) < MaxCycles /\ late /\ fatal' = "TIMEOUT"
  /\ UNCHANGED <<it, outcomes, base, selected, original, root, decision, evidence, folds, directories>>

-------------------------------------------------------------------------------
(* The root adjudication of the cumulative diff.                               *)

Chosen == outcomes[selected]
Cumulative == <<0, Chosen.commit>>
Adjudicates == selected # 0 /\ original # None /\ Chosen.candidate # None /\ fatal = None

\* hidden_evaluation_disclosure is made of every run, and filled with the folds there are.
Adjudicate ==
  /\ pc = "adjudicate"
  /\ unsealed' = IF disclosed THEN unsealed ELSE unsealed \cup {0}
  /\ IF Adjudicates THEN pc' = "rootPanel" /\ UNCHANGED root
     ELSE pc' = "quiesce" /\ root' = [root EXCEPT !.blocked = (fatal = None)]
  /\ UNCHANGED <<it, outcomes, base, selected, original, fatal, decision, evidence, folds, disclosed>>

\* The specialists on the cumulative diff, after its security gate.
RootPanel ==
  /\ pc = "rootPanel" /\ ~late
  /\ \E reviews \in Reviews :
       LET read == [root EXCEPT !.agreed = AllPass(reviews), !.found = Findings(reviews)]
       IN IF ~Adjudicable(reviews)
          THEN /\ root' = [read EXCEPT !.blocked = TRUE] /\ fatal' = "FAILED"
               /\ pc' = "quiesce" /\ UNCHANGED evidence
          ELSE /\ evidence' = evidence \cup {Panel(0, Cumulative, Findings(reviews))}
               /\ pc' = "rootFold" /\ UNCHANGED fatal
               /\ root' = IF AllPass(reviews)
                          THEN [read EXCEPT !.gates = @ \cup {"specialist_consensus"}]
                          ELSE [read EXCEPT !.blocked = TRUE]
  /\ UNCHANGED <<it, outcomes, base, selected, original, decision, folds, directories>>

HideRootFold ==
  /\ Step("rootFold", "rootScore")
  /\ folds' = folds \cup {0}
  /\ UNCHANGED <<it, outcomes, decided, evidence, directories>>

\* The gates that the root takes over once it has scored.
ScoredGates == (Chosen.gates \cap CycleTests) \cup Guards \cup {"filesystem", "security"}

\* Fold C: the first baseline of the run against the chosen candidate.
RootScore ==
  /\ pc = "rootScore" /\ ~late
  /\ folds' = folds \ {0} /\ pc' = "rootQa"
  /\ \E passed \in BOOLEAN :
       IF passed
       THEN /\ root' = [root EXCEPT !.evaluated = TRUE, !.gates = @ \cup {"evaluation"} \cup ScoredGates]
            /\ evidence' = evidence \cup {Paired(0, <<original, Chosen.candidate>>)}
       ELSE /\ root' = [root EXCEPT !.blocked = TRUE, !.gates = @ \cup ScoredGates]
            /\ UNCHANGED evidence
  /\ UNCHANGED <<it, outcomes, base, selected, original, fatal, decision, directories>>

\* Root final QA.  An answer that verify_final_qa refuses stays in root_final_qa.
RootQa ==
  /\ pc = "rootQa" /\ ~late /\ pc' = "quiesce"
  /\ \E verdict \in {"PASS", "BLOCK"}, disposed \in SUBSET Roles :
       LET read == [root EXCEPT !.qa = verdict]
       IN IF ~VerifiedQa(root.found, disposed)
          THEN root' = [read EXCEPT !.blocked = TRUE] /\ fatal' = "FAILED" /\ UNCHANGED evidence
          ELSE /\ evidence' = evidence \cup {Qa(0, Cumulative, disposed)}
               /\ UNCHANGED fatal
               /\ root' = IF verdict = "PASS" THEN [read EXCEPT !.gates = @ \cup {"final_qa"}]
                          ELSE [read EXCEPT !.blocked = TRUE]
  /\ UNCHANGED <<it, outcomes, base, selected, original, decision, folds, directories>>

RootEndsAs(execution, made) ==
  /\ fatal' = execution
  /\ root' = [root EXCEPT !.blocked = TRUE]
  /\ folds' \in {folds, folds \ {0}} /\ pc' = "quiesce"
  /\ MayAbandon(0, made)
  /\ UNCHANGED <<it, outcomes, base, selected, original, decision, evidence>>

\* The panel's sources, the answers and the container cleanup have directories of the run.
RootOverrun ==
  /\ late /\ pc \in {"rootPanel", "rootScore", "rootQa"}
  /\ RootEndsAs("TIMEOUT", pc = "rootPanel")
RootFails ==
  /\ pc \in {"rootPanel", "rootFold", "rootScore", "rootQa"}
  /\ \E execution \in {"FAILED", "TIMEOUT"} : RootEndsAs(execution, pc # "rootFold")

\* validate_operator_decision: asking for human review takes everything there is.  Each
\* decision goes through it when it is made and when the run is verified.
Valid(d) ==
  /\ d.execution \in {"SUCCESS", "FAILED", "TIMEOUT"}
  /\ d.promotion = "HUMAN_REVIEW_PENDING" =>
       /\ d.execution = "SUCCESS" /\ d.review = "PASS" /\ ~d.blocked
       /\ d.commit # None /\ ~d.modified
       /\ d.gates = CoreGates /\ d.passed = Roles \cup {"final_qa"} /\ d.ten

\* decision_reviews: who passed.  Which of the specialists did, when not all of them did,
\* makes no difference.
Reviewed(r) == (IF r.agreed THEN Roles ELSE {}) \cup (IF r.qa = "PASS" THEN {"final_qa"} ELSE {})

Decide(d) ==
  /\ decision' = d
  /\ pc' = "ended"
  /\ UNCHANGED <<it, outcomes, base, selected, original, evidence, directories>>

\* Defect: how the run ended is forgotten.
ReadyAnyEnd(ends, gates, ten, blocked) == selected # 0 /\ ten /\ gates = CoreGates

Ready(ends, gates, ten, blocked) ==
  ends = None /\ intact /\ selected # 0 /\ ten /\ ~blocked /\ gates = CoreGates

\* After the quiescence checks: workspace cleanup, production guard, rubric, decision.
Conclude(cleaned) ==
  /\ pc = "quiesce" /\ ~late
  /\ LET trouble == ~cleaned \/ ~intact
         blocked == root.blocked \/ trouble
         gates == IF intact THEN root.gates \cup Guards ELSE root.gates \ Guards
         ten == TenOutOfTen(root.agreed, gates, root.evaluated, root.qa)
         ends == IF trouble THEN "FAILED" ELSE fatal
         ready == Ready(ends, gates, ten, blocked)
     IN /\ fatal' = ends
        /\ folds' = IF cleaned THEN {} ELSE folds
        /\ root' = [root EXCEPT !.blocked = blocked, !.gates = gates]
        /\ Decide([execution |-> IF ends = None THEN "SUCCESS" ELSE ends,
                   review |-> IF ready THEN "PASS"
                              ELSE IF ends # None \/ selected = 0 THEN "BLOCK" ELSE "CHANGES_REQUIRED",
                   promotion |-> IF ready THEN "HUMAN_REVIEW_PENDING"
                                 ELSE IF selected # 0 THEN "REJECTED" ELSE "NOT_ELIGIBLE",
                   commit |-> IF selected # 0 THEN Chosen.commit ELSE None,
                   gates |-> gates, passed |-> Reviewed(root), ten |-> ten,
                   blocked |-> blocked, modified |-> ~intact])

\* The quiescence checks ask for the remaining time, outside any handler.
QuiesceOverrun ==
  /\ Step("quiesce", "emergency") /\ late
  /\ UNCHANGED <<it, outcomes, decided, evidence, folds, directories>>

QuiesceFails ==
  /\ Step("quiesce", "emergency")
  /\ UNCHANGED <<it, outcomes, decided, evidence, folds, directories>>

\* emergency_finalize.
Emergency ==
  /\ pc = "emergency"
  /\ folds' \in {{}, folds}
  /\ UNCHANGED <<fatal, root>>
  /\ Decide([execution |-> "FAILED", review |-> "BLOCK", promotion |-> "NOT_ELIGIBLE",
             commit |-> None, gates |-> {"authorization"} \cup (IF intact THEN Guards ELSE {}),
             passed |-> {}, ten |-> FALSE, blocked |-> TRUE, modified |-> ~intact])

-------------------------------------------------------------------------------
Steps ==
  \/ NextCycle \/ CyclesEnd \/ Isolate \/ Build \/ TrainBaseline \/ Apply \/ Validate
  \/ Specialists \/ Remediate \/ TrainCandidate \/ HideFold \/ Score \/ Guard \/ FinalQa
  \/ Commit \/ Reject \/ Overrun \/ EndCycle(it) \/ TakeOutcome
  \/ Adjudicate \/ RootPanel \/ HideRootFold \/ RootScore \/ RootQa \/ RootOverrun
  \/ Conclude(TRUE) \/ QuiesceOverrun \/ Emergency

Failures ==
  \/ StartFails \/ CycleFails \/ CleanupFails \/ RecoveryFails \/ RootFails
  \/ Conclude(FALSE) \/ QuiesceFails

\* Time passes, and somebody touches the protected checkout.
Environment ==
  /\ pc # "ended"
  /\ \/ ~late /\ late' = TRUE /\ UNCHANGED intact
     \/ intact /\ intact' = FALSE /\ UNCHANGED late
  /\ UNCHANGED <<pc, it, outcomes, decided, evidence, folds, directories, faults>>

Next ==
  \/ Steps /\ UNCHANGED <<world, faults>>
  \/ Failures /\ faults < MaxFaults /\ faults' = faults + 1 /\ UNCHANGED world
  \/ Environment

Spec == Init /\ [][Next]_vars

\* The controller goes on by itself.
FairSpec == Spec /\ WF_vars(Steps /\ UNCHANGED <<world, faults>>)
-------------------------------------------------------------------------------
(* Properties.                                                                 *)

Executions == {"SUCCESS", "FAILED", "TIMEOUT"}
Outcome == [base : Trees, tree : Trees, diff : (Trees \X Trees) \cup {None},
            attempt : 0 .. RemediationCap, agreed : BOOLEAN, found : SUBSET Roles,
            gates : SUBSET CoreGates, baseline : Trees \cup {None}, candidate : Trees \cup {None},
            commit : Trees \cup {None}, status : {"RUNNING", "ACCEPTED", "REJECTED", "TIMEOUT", "ERROR"},
            execution : Executions \cup {"RUNNING"}]

Adjudication == [gates : SUBSET CoreGates, agreed : BOOLEAN, found : SUBSET Roles,
                 evaluated : BOOLEAN, qa : {"NOT_RUN", "PASS", "BLOCK"}, blocked : BOOLEAN]

\* Types of the state: an outcome speaks the vocabularies of status and execution.
TypeOK ==
  /\ it \in Outcome /\ outcomes \in Seq(Outcome) /\ Len(outcomes) <= MaxCycles
  /\ base \in Trees /\ selected \in 0 .. MaxCycles /\ original \in Trees \cup {None}
  /\ fatal \in {None, "FAILED", "TIMEOUT"}
  /\ root \in Adjudication
  /\ decision # None => decision.execution \in Executions /\ decision.gates \subseteq CoreGates
  /\ folds \subseteq 0 .. MaxCycles
  /\ disclosed \in BOOLEAN /\ unsealed \subseteq 0 .. MaxCycles
  /\ late \in BOOLEAN /\ intact \in BOOLEAN /\ faults \in 0 .. MaxFaults

Accepted == {i \in DOMAIN outcomes : outcomes[i].status = "ACCEPTED"}
FoundIn(i) == UNION {e.found : e \in {x \in evidence : x.shows = "panel" /\ x.cycle = i}}

\* What execute_cycle commits is what was tested, reviewed by a panel without findings,
\* scored and passed by final QA: all of it about the very diff of the commit, however
\* many remediations led to it, and every finding of the cycle has its disposition.
AcceptedIsEarned ==
  \A i \in Accepted :
    LET diff == <<outcomes[i].base, outcomes[i].commit>>
    IN {Tests(i, diff), Panel(i, diff, {}), Paired(i, diff), Qa(i, diff, FoundIn(i))} \subseteq evidence

\* A run that asks for human review has, for the whole change from its own base to the
\* commit it names, a panel without findings, a pairing with the first baseline and final
\* QA; the cycles it builds on were accepted one upon the other, and none failed.
ReadyIsEarned ==
  decision # None /\ decision.promotion = "HUMAN_REVIEW_PENDING" =>
    LET diff == <<0, decision.commit>>
    IN /\ {Panel(0, diff, {}), Paired(0, diff), Qa(0, diff, {})} \subseteq evidence
       /\ \E i \in Accepted : outcomes[i].commit = decision.commit /\ \A j \in Accepted : j <= i
       /\ \A i \in Accepted : outcomes[i].base = 0
                             \/ \E j \in Accepted : j < i /\ outcomes[j].commit = outcomes[i].base
       /\ \A i \in DOMAIN outcomes : outcomes[i].execution = "SUCCESS"

\* verify_record: what passed cites an artifact that is retained, of the diff of the
\* decision.  (Specialists' answers are written before anybody reads their verdict.)
Retained(d) ==
  LET diff == <<0, d.commit>>
  IN /\ "specialist_consensus" \in d.gates => Panel(0, diff, {}) \in evidence
     /\ "evaluation" \in d.gates => Paired(0, diff) \in evidence
     /\ {"focused_tests", "full_tests"} \cap d.gates # {} =>
          Tests(selected, <<outcomes[selected].base, d.commit>>) \in evidence
     /\ "final_qa" \in d.passed => \E disposed \in SUBSET Roles : Qa(0, diff, disposed) \in evidence

\* The root's final QA said PASS, but its answer was refused before it was retained.
QaRefused(d) == "final_qa" \in d.passed \ d.gates /\ d.execution = "FAILED"

\* verify_record: every directory, of the run and of a cycle, is implied by a file its
\* manifest lists, and every cycle has a manifest.
Implied == unsealed = {}

\* What may be left unsealed, and of which runs.
AccountedFor(d) ==
  /\ unsealed \cap Accepted = {}
  /\ d.execution = "SUCCESS" =>
       /\ 0 \in unsealed => d.promotion = "NOT_ELIGIBLE" /\ ~disclosed
       /\ unsealed \ {0} # {} => faults > 0

\* Every decision a run comes to, whatever failed, overran or was refused on the way, is
\* one that the operator's verification accepts, so that the run can become the latest
\* one; but for
\* - a checkout that changed;
\* - an answer of the root's final QA that says PASS and is refused: the decision cites
\*   final_qa.json, which nobody wrote;
\* - a run of which no cycle came to the hidden fold: hidden_evaluation_disclosure is
\*   empty, which no manifest can list;
\* - a run that failed or overran, or some operation of which raised: such a step may
\*   leave an empty directory or a cycle without its manifest, but never of a cycle that
\*   was accepted.
DecisionVerifies ==
  decision # None =>
    /\ Valid(decision)
    /\ Retained(decision) \/ QaRefused(decision) \/ decision.modified
    /\ Implied \/ AccountedFor(decision)

ModelAt == {"build", "panel", "remediate", "qa", "rootPanel", "rootQa"}

\* No model is asked anything while a hidden fold lies on the disk, whatever failed
\* between create_hidden_fold and its removal.
FoldsHeldOut == pc \in ModelAt => folds = {}

\* Every run comes to a decision: remediation, cycles and failures all end.
RunConcludes == <>(decision # None)
================================================================================
