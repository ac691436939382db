------------------------- MODULE CandidateCyclesProofs -------------------------
(***************************************************************************)
(* Proofs about CandidateCycles, for every number of cycles, remediations,   *)
(* specialists and failures.  The inductive invariant is built in three      *)
(* layers: Typed (types and bounds), Held (where private folds are), Earned  *)
(* (what a cycle under way, and every accepted one, has as evidence).  On     *)
(* them rest the five that the decision needs: Sounds (what one outcome       *)
(* claims), Chained (how the outcomes follow one another), Rooted (what the   *)
(* root adjudication has to show), Covered (what no manifest covers, and who  *)
(* left it), Decided (the decision itself).                                   *)
(***************************************************************************)
EXTENDS CandidateCycles, TLAPS, SequenceTheorems

\* Inside execute_cycle.
InCycle == {"isolate", "build", "baseline", "apply", "test", "panel", "remediate", "train",
            "fold", "score", "guard", "qa", "commit", "finally"}

\* The steps of its try block, and those of its except clauses.
TrySteps ==
  \/ Isolate \/ Build \/ TrainBaseline \/ Apply \/ Validate \/ Specialists \/ Remediate
  \/ TrainCandidate \/ HideFold \/ Score \/ Guard \/ FinalQa \/ Commit
ExceptSteps == Reject \/ Overrun \/ CycleFails

RootSteps ==
  \/ Adjudicate \/ RootPanel \/ HideRootFold \/ RootScore \/ RootQa \/ RootOverrun \/ RootFails

EndSteps ==
  \/ Conclude(TRUE) \/ Conclude(FALSE) \/ QuiesceOverrun \/ QuiesceFails \/ Emergency

\* What keeps trees and cycles in their bounds.
Bounded ==
  /\ pc \in InCycle => Len(outcomes) < MaxCycles
  /\ pc = "take" => outcomes # <<>>
  /\ selected \in 0 .. Len(outcomes)
  /\ it.status = "ACCEPTED" => it.commit \in Trees
  /\ \A i \in DOMAIN outcomes : outcomes[i].status = "ACCEPTED" => outcomes[i].commit \in Trees

Typed == TypeOK /\ Bounded

-------------------------------------------------------------------------------
(* Types.                                                                      *)

\* The trees of a cycle are numbered within the bound.
LEMMA PatchedTyped ==
  ASSUME Len(outcomes) \in Nat, Len(outcomes) < MaxCycles, NEW a \in 0 .. RemediationCap
  PROVE  Patched(a) \in Trees
<1>1. PICK k \in Nat : k = RemediationCap + 1
  BY CyclesAssumption
<1>2. PICK n \in Nat : n = Len(outcomes)
  OBVIOUS
<1>3. PICK m \in Nat : m = MaxCycles
  BY CyclesAssumption
<1>4. n * k + k <= m * k
  <2>1. n + 1 <= m
    BY <1>2, <1>3
  <2>2. PICK d \in Nat : m = n + 1 + d
    <3>1. m - (n + 1) \in Nat
      BY <2>1
    <3> QED
      BY <3>1
  <2>3. m * k = n * k + k + d * k
    BY <2>2
  <2>4. d * k >= 0
    BY <1>1
  <2>5. d * k \in Nat /\ n * k \in Nat /\ m * k \in Nat
    BY <1>1, <2>2
  <2> QED
    BY <2>3, <2>4, <2>5
<1>5. a + 1 <= k /\ a + 1 \in Nat
  BY <1>1, CyclesAssumption
<1>6. n * k \in Nat /\ m * k \in Nat
  BY <1>1
<1>7. n * k + a + 1 \in 0 .. m * k
  BY <1>4, <1>5, <1>6
<1> QED
  BY <1>1, <1>2, <1>3, <1>7 DEF Patched, Trees

\* A cycle starts with an outcome of the right type.
LEMMA NewCycleTyped ==
  ASSUME base \in Trees
  PROVE  NewCycle \in Outcome /\ NewCycle.status = "RUNNING"
BY CyclesAssumption DEF NewCycle, Outcome, CoreGates

\* Types hold at the start.
LEMMA InitTyped == Init => Typed
<1> SUFFICES ASSUME Init PROVE Typed
  OBVIOUS
<1>1. base \in Trees
  BY CyclesAssumption DEF Init, Trees
<1>2. it \in Outcome /\ it.status = "RUNNING"
  BY <1>1, NewCycleTyped DEF Init
<1>3. outcomes \in Seq(Outcome) /\ Len(outcomes) = 0 /\ DOMAIN outcomes = {}
  BY DEF Init
<1>4. root \in Adjudication
  BY DEF Init, NewRoot, CoreGates, Adjudication
<1>5. TypeOK
  <2>1. Len(outcomes) <= MaxCycles /\ selected \in 0 .. MaxCycles
    BY <1>3, CyclesAssumption DEF Init
  <2>2. faults \in 0 .. MaxFaults
    BY CyclesAssumption DEF Init
  <2>3. disclosed \in BOOLEAN /\ unsealed \subseteq 0 .. MaxCycles
    BY DEF Init
  <2> QED
    BY <1>1, <1>2, <1>3, <1>4, <2>1, <2>2, <2>3 DEF Init, TypeOK
<1>6. Bounded
  BY <1>2, <1>3 DEF Init, Bounded, InCycle
<1> QED
  BY <1>5, <1>6 DEF Typed

\* A step is one of execute_cycle's try block, of its except clauses, of the root, ...
LEMMA NextSplits ==
  ASSUME [Next]_vars
  PROVE  /\ \/ TrySteps \/ ExceptSteps \/ RootSteps \/ EndSteps
            \/ EndCycle(it) \/ CleanupFails \/ StartFails \/ RecoveryFails \/ TakeOutcome
            \/ NextCycle \/ CyclesEnd \/ Environment \/ UNCHANGED vars
         /\ \/ UNCHANGED world /\ (faults' = faults \/ (faults < MaxFaults /\ faults' = faults + 1))
            \/ Environment \/ UNCHANGED vars
BY DEF Next, Steps, Failures, TrySteps, ExceptSteps, RootSteps, EndSteps, world

\* An outcome stays one under the updates of a cycle.
LEMMA OutcomeUpdates ==
  ASSUME NEW o \in Outcome
  PROVE  /\ \A g \in SUBSET CoreGates : [o EXCEPT !.gates = o.gates \cup g] \in Outcome
         /\ \A x \in {"ACCEPTED", "REJECTED", "TIMEOUT", "ERROR"}, e \in Executions :
              [o EXCEPT !.status = x, !.execution = e] \in Outcome
         /\ Failed(o) \in Outcome /\ Guarded(o) \in Outcome
<1>1. \A g \in SUBSET CoreGates : [o EXCEPT !.gates = o.gates \cup g] \in Outcome
  BY DEF Outcome
<1>2. \A x \in {"ACCEPTED", "REJECTED", "TIMEOUT", "ERROR"}, e \in Executions :
        [o EXCEPT !.status = x, !.execution = e] \in Outcome
  BY DEF Outcome
<1>3. Failed(o) \in Outcome
  BY <1>2 DEF Failed, Executions
<1>4. CASE intact
  <2>1. {"production_guard"} \subseteq CoreGates
    BY DEF CoreGates
  <2>2. Guarded(o) = [o EXCEPT !.gates = o.gates \cup {"production_guard"}]
    BY <1>4 DEF Guarded
  <2> QED
    BY <1>1, <1>2, <1>3, <2>1, <2>2
<1>5. CASE ~intact
  <2>1. [o EXCEPT !.gates = o.gates \ {"production_guard"}] \in Outcome
    BY DEF Outcome
  <2>2. Failed([o EXCEPT !.gates = o.gates \ {"production_guard"}]) \in Outcome
    BY <2>1 DEF Failed, Outcome, Executions
  <2> QED
    BY <1>1, <1>2, <1>3, <1>5, <2>2 DEF Guarded
<1> QED
  BY <1>4, <1>5

\* A cycle that does not commit ends with status and execution of their vocabularies.
LEMMA EndsTyped ==
  ASSUME it \in Outcome, NEW x \in {"REJECTED", "TIMEOUT", "ERROR"}, NEW e \in Executions,
         EndsAs(x, e)
  PROVE  it' \in Outcome /\ it'.status # "ACCEPTED" /\ pc' = "finally"
BY DEF Outcome, Executions, EndsAs

\* What a panel makes of the cycle, and what a panel without findings does besides.
Read(agreed, found) == [it EXCEPT !.agreed = agreed, !.found = it.found \cup found]
Consented(o) == [o EXCEPT !.gates = o.gates \cup CycleTests \cup
                            {"filesystem", "security", "specialist_consensus"}]

\* The try block of execute_cycle keeps the types, and adds no fold but that of its cycle.
LEMMA TryTyped ==
  ASSUME Typed, TrySteps
  PROVE  /\ it' \in Outcome /\ (it'.status = "ACCEPTED" => it'.commit \in Trees)
         /\ pc \in InCycle /\ pc' \in InCycle
         /\ folds' \subseteq folds \cup {Cycle}
         /\ UNCHANGED <<outcomes, decided>>
<1> USE DEF Typed, TypeOK, InCycle
<1>0. /\ it \in Outcome
      /\ it.status = "ACCEPTED" => it.commit \in Trees
      /\ Len(outcomes) \in Nat
  BY DEF Bounded
<1>1. CASE Isolate
  <2>1. {"sandbox_canary"} \subseteq CoreGates
    BY DEF CoreGates
  <2>2. it' = [it EXCEPT !.gates = it.gates \cup {"sandbox_canary"}]
    BY <1>1 DEF Isolate, Pass
  <2>3. it' \in Outcome /\ it'.status = it.status /\ it'.commit = it.commit
    BY <1>0, <2>1, <2>2 DEF Outcome
  <2> QED
    BY <1>0, <1>1, <2>3 DEF Isolate, Step
<1>2. CASE Build
  <2>1. CASE intact
    BY <1>0, <1>2, <2>1 DEF Build
  <2>2. CASE ~intact
    BY <1>0, <1>2, <2>2, EndsTyped DEF Build, Executions
  <2> QED
    BY <2>1, <2>2
<1>3. CASE TrainBaseline
  BY <1>0, <1>3 DEF TrainBaseline, Step, Outcome
<1>4. CASE Apply
  <2>1. pc = "apply" /\ Patched(it.attempt) \in Trees
    BY <1>0, <1>4, PatchedTyped DEF Apply, Step, Outcome, Bounded
  <2> QED
    BY <1>0, <1>4, <2>1 DEF Apply, Step, Outcome
<1>5. CASE Validate
  BY <1>0, <1>5 DEF Validate, Step
<1>6. CASE Specialists
  <2>1. /\ pc = "panel" /\ UNCHANGED <<outcomes, decided, folds>>
        /\ pc' \in {"finally", "remediate", "train"}
    BY <1>6 DEF Specialists
  <2>2. PICK agreed \in BOOLEAN, found \in SUBSET Roles :
          \/ it' = [it EXCEPT !.agreed = FALSE, !.status = "ERROR", !.execution = "FAILED"]
          \/ it' = Read(agreed, found)
          \/ it' = Consented(Read(agreed, found))
    <3>1. PICK reviews \in Reviews :
            \/ it' = [it EXCEPT !.agreed = FALSE, !.status = "ERROR", !.execution = "FAILED"]
            \/ it' = Read(AllPass(reviews), Findings(reviews))
            \/ it' = Consented(Read(AllPass(reviews), Findings(reviews)))
      BY <1>6 DEF Specialists, Read, Consented
    <3>2. AllPass(reviews) \in BOOLEAN /\ Findings(reviews) \in SUBSET Roles
      BY DEF AllPass, Findings
    <3> QED
      BY <3>1, <3>2
  <2>3. \A a \in BOOLEAN, f \in SUBSET Roles :
          LET read == Read(a, f)
          IN read \in Outcome /\ read.status = it.status /\ read.commit = it.commit
    BY <1>0 DEF Read, Outcome
  <2>4. CycleTests \cup {"filesystem", "security", "specialist_consensus"} \subseteq CoreGates
    BY DEF CycleTests, CoreGates
  <2>5. \A o \in Outcome :
          Consented(o) \in Outcome /\ Consented(o).status = o.status /\ Consented(o).commit = o.commit
    <3> TAKE o \in Outcome
    <3>1. o.gates \subseteq CoreGates
      BY DEF Outcome
    <3>2. PICK g \in SUBSET CoreGates : g = o.gates \cup CycleTests \cup
                                          {"filesystem", "security", "specialist_consensus"}
      BY <2>4, <3>1
    <3>3. Consented(o) = [o EXCEPT !.gates = g]
      BY <3>2 DEF Consented
    <3> QED
      BY <3>3 DEF Outcome
  <2>6. it' \in Outcome /\ (it'.status = it.status \/ it'.status = "ERROR") /\ it'.commit = it.commit
    <3>1. [it EXCEPT !.agreed = FALSE, !.status = "ERROR", !.execution = "FAILED"] \in Outcome
      BY <1>0 DEF Outcome, Executions
    <3>2. CASE it' = [it EXCEPT !.agreed = FALSE, !.status = "ERROR", !.execution = "FAILED"]
      BY <1>0, <3>1, <3>2 DEF Outcome
    <3>3. CASE it' = Read(agreed, found)
      BY <2>3, <3>3
    <3>4. CASE it' = Consented(Read(agreed, found))
      BY <2>3, <2>5, <3>4
    <3> QED
      BY <2>2, <3>2, <3>3, <3>4
  <2> QED
    BY <1>0, <2>1, <2>6
<1>7. CASE Remediate
  <2>1. CASE it.attempt >= RemediationCap
    BY <1>0, <1>7, <2>1, EndsTyped DEF Remediate, Rejected, Executions
  <2>2. CASE ~(it.attempt >= RemediationCap)
    <3>1. it.attempt \in 0 .. RemediationCap /\ it.attempt + 1 \in 0 .. RemediationCap
      BY <1>0, <2>2, CyclesAssumption DEF Outcome
    <3>2. /\ it' = [it EXCEPT !.attempt = it.attempt + 1] /\ pc = "remediate" /\ pc' = "apply"
          /\ UNCHANGED <<outcomes, decided, folds>>
      BY <1>7, <2>2 DEF Remediate
    <3>3. it' \in Outcome /\ it'.status = it.status /\ it'.commit = it.commit
      BY <1>0, <3>1, <3>2 DEF Outcome
    <3> QED
      BY <1>0, <3>2, <3>3
  <2> QED
    BY <2>1, <2>2
<1>8. CASE TrainCandidate
  BY <1>0, <1>8 DEF TrainCandidate, Step, Outcome
<1>9. CASE HideFold
  BY <1>0, <1>9 DEF HideFold, Step
<1>10. CASE Score
  <2>1. PICK passed \in BOOLEAN :
          /\ folds' = Unlink(passed)
          /\ IF passed THEN pc' = "guard" /\ Pass({"evaluation"}) ELSE Rejected
    BY <1>10 DEF Score
  <2>2. pc = "score" /\ folds' \subseteq folds /\ UNCHANGED <<outcomes, decided>>
    BY <1>10, <2>1 DEF Score, Unlink
  <2>3. CASE passed
    <3>1. {"evaluation"} \subseteq CoreGates
      BY DEF CoreGates
    <3>2. it' = [it EXCEPT !.gates = it.gates \cup {"evaluation"}] /\ pc' = "guard"
      BY <2>1, <2>3 DEF Pass
    <3>3. it' \in Outcome /\ it'.status = it.status /\ it'.commit = it.commit
      BY <1>0, <3>1, <3>2 DEF Outcome
    <3> QED
      BY <1>0, <2>2, <3>2, <3>3
  <2>4. CASE ~passed
    BY <1>0, <2>1, <2>2, <2>4, EndsTyped DEF Rejected, Executions
  <2> QED
    BY <2>3, <2>4
<1>11. CASE Guard
  <2>1. CASE intact
    BY <1>0, <1>11, <2>1 DEF Guard, Guards, Pass, Outcome, CoreGates
  <2>2. CASE ~intact
    BY <1>0, <1>11, <2>2, EndsTyped DEF Guard, Executions
  <2> QED
    BY <2>1, <2>2
<1>12. CASE FinalQa
  <2>1. /\ pc = "qa" /\ UNCHANGED <<outcomes, decided, folds>>
        /\ (pc' = "commit" /\ Pass({"final_qa"})) \/ Rejected
    BY <1>12 DEF FinalQa
  <2>2. CASE pc' = "commit" /\ Pass({"final_qa"})
    BY <1>0, <2>1, <2>2 DEF Pass, Outcome, CoreGates
  <2>3. CASE Rejected
    BY <1>0, <2>1, <2>3, EndsTyped DEF Rejected, Executions
  <2> QED
    BY <2>1, <2>2, <2>3
<1>13. CASE Commit
  BY <1>0, <1>13 DEF Commit, Outcome, Executions
<1> QED
  BY <1>1, <1>2, <1>3, <1>4, <1>5, <1>6, <1>7, <1>8, <1>9, <1>10, <1>11, <1>12, <1>13 DEF TrySteps

\* So do its except clauses, which add no fold at all.
LEMMA ExceptTyped ==
  ASSUME Typed, ExceptSteps
  PROVE  /\ it' \in Outcome /\ it'.status # "ACCEPTED"
         /\ pc \in InCycle \ {"finally"} /\ pc' = "finally"
         /\ folds' \subseteq folds
         /\ UNCHANGED <<outcomes, decided, evidence>>
<1>1. it \in Outcome
  BY DEF Typed, TypeOK
<1>2. PICK x \in {"REJECTED", "TIMEOUT", "ERROR"}, e \in Executions : EndsAs(x, e)
  BY DEF ExceptSteps, Reject, Rejected, Overrun, CycleFails, Executions
<1>3. it' \in Outcome /\ it'.status # "ACCEPTED" /\ pc' = "finally"
  BY <1>1, <1>2, EndsTyped
<1>4. pc \in InCycle \ {"finally"} /\ folds' \subseteq folds /\ UNCHANGED <<outcomes, decided, evidence>>
  BY DEF ExceptSteps, Reject, Overrun, CycleFails, InCycle, Unlink
<1> QED
  BY <1>3, <1>4

\* The root adjudication changes its own locals and fatal_execution, within their types.
LEMMA RootTyped ==
  ASSUME Typed, RootSteps
  PROVE  /\ root' \in Adjudication /\ fatal' \in {None, "FAILED", "TIMEOUT"}
         /\ pc' \notin InCycle \cup {"take"}
         /\ folds' \subseteq folds \cup {0}
         /\ UNCHANGED <<it, outcomes, base, selected, original, decision>>
<1>1. root \in Adjudication /\ fatal \in {None, "FAILED", "TIMEOUT"}
  BY DEF Typed, TypeOK
<1>2. CycleTests \subseteq CoreGates /\ Guards \subseteq CoreGates
  BY DEF CycleTests, Guards, CoreGates
<1>3. CASE Adjudicate
  BY <1>1, <1>3 DEF Adjudicate, InCycle, Adjudication
<1>4. CASE RootPanel
  <2>1. PICK reviews \in Reviews :
          LET read == [root EXCEPT !.agreed = AllPass(reviews), !.found = Findings(reviews)]
          IN \/ root' = [read EXCEPT !.blocked = TRUE]
             \/ root' = [read EXCEPT !.gates = read.gates \cup {"specialist_consensus"}]
    BY <1>4 DEF RootPanel
  <2>2. [root EXCEPT !.agreed = AllPass(reviews), !.found = Findings(reviews)] \in Adjudication
    <3>1. AllPass(reviews) \in BOOLEAN /\ Findings(reviews) \in SUBSET Roles
      BY DEF AllPass, Findings
    <3> QED
      BY <1>1, <3>1 DEF Adjudication
  <2>3. \A o \in Adjudication : /\ [o EXCEPT !.blocked = TRUE] \in Adjudication
                                /\ [o EXCEPT !.gates = o.gates \cup {"specialist_consensus"}] \in Adjudication
    BY DEF Adjudication, CoreGates
  <2>4. root' \in Adjudication
    BY <2>1, <2>2, <2>3
  <2> QED
    BY <1>1, <1>4, <2>4 DEF RootPanel, InCycle
<1>5. CASE HideRootFold
  BY <1>1, <1>5 DEF HideRootFold, Step, InCycle, decided
<1>6. CASE RootScore
  <2>1. ScoredGates \subseteq CoreGates /\ "evaluation" \in CoreGates
    BY <1>2 DEF ScoredGates, CoreGates
  <2>2. PICK g \in SUBSET CoreGates, h \in SUBSET CoreGates :
          /\ g = root.gates \cup {"evaluation"} \cup ScoredGates
          /\ h = root.gates \cup ScoredGates
    BY <1>1, <2>1 DEF Adjudication
  <2>3. \/ root' = [root EXCEPT !.evaluated = TRUE, !.gates = g]
        \/ root' = [root EXCEPT !.blocked = TRUE, !.gates = h]
    BY <1>6, <2>2 DEF RootScore
  <2>4. root' \in Adjudication
    BY <1>1, <2>3 DEF Adjudication
  <2> QED
    BY <1>1, <1>6, <2>4 DEF RootScore, InCycle
<1>7. CASE RootQa
  <2>1. PICK verdict \in {"PASS", "BLOCK"} :
          LET read == [root EXCEPT !.qa = verdict]
          IN \/ root' = [read EXCEPT !.blocked = TRUE]
             \/ root' = [read EXCEPT !.gates = read.gates \cup {"final_qa"}]
    BY <1>7 DEF RootQa
  <2>2. [root EXCEPT !.qa = verdict] \in Adjudication
    BY <1>1 DEF Adjudication
  <2>3. \A o \in Adjudication : /\ [o EXCEPT !.blocked = TRUE] \in Adjudication
                                /\ [o EXCEPT !.gates = o.gates \cup {"final_qa"}] \in Adjudication
    BY DEF Adjudication, CoreGates
  <2>4. root' \in Adjudication
    BY <2>1, <2>2, <2>3
  <2> QED
    BY <1>1, <1>7, <2>4 DEF RootQa, InCycle
<1>8. CASE RootOverrun \/ RootFails
  BY <1>1, <1>8 DEF RootOverrun, RootFails, RootEndsAs, InCycle, Adjudication
<1> QED
  BY <1>3, <1>4, <1>5, <1>6, <1>7, <1>8 DEF RootSteps

\* Both ways to a decision write one of the right type.
LEMMA ConcludesTyped ==
  ASSUME Typed, EndSteps
  PROVE  /\ root' \in Adjudication /\ fatal' \in {None, "FAILED", "TIMEOUT"}
         /\ decision' # None => decision'.execution \in Executions /\ decision'.gates \subseteq CoreGates
         /\ pc' \notin InCycle \cup {"take"}
         /\ folds' \subseteq folds
         /\ UNCHANGED <<it, outcomes, base, selected, original>>
<1>1. /\ root \in Adjudication /\ fatal \in {None, "FAILED", "TIMEOUT"}
      /\ decision # None => decision.execution \in Executions /\ decision.gates \subseteq CoreGates
  BY DEF Typed, TypeOK
<1>2. Guards \subseteq CoreGates /\ {"authorization"} \subseteq CoreGates
  BY DEF Guards, CoreGates
<1>3. ASSUME NEW cleaned \in BOOLEAN, Conclude(cleaned)
      PROVE  /\ root' \in Adjudication /\ fatal' \in {None, "FAILED", "TIMEOUT"}
             /\ decision'.execution \in Executions /\ decision'.gates \subseteq CoreGates
             /\ pc' = "ended" /\ folds' \subseteq folds
             /\ UNCHANGED <<it, outcomes, base, selected, original>>
  <2>1. PICK g \in SUBSET CoreGates :
          g = IF intact THEN root.gates \cup Guards ELSE root.gates \ Guards
    BY <1>1, <1>2 DEF Adjudication
  <2>2. PICK e \in {None, "FAILED", "TIMEOUT"} :
          e = IF ~cleaned \/ ~intact THEN "FAILED" ELSE fatal
    BY <1>1
  <2>3. PICK b \in BOOLEAN : b = (root.blocked \/ (~cleaned \/ ~intact))
    OBVIOUS
  <2>4. /\ fatal' = e /\ root' = [root EXCEPT !.blocked = b, !.gates = g]
        /\ pc' = "ended" /\ folds' \subseteq folds
        /\ UNCHANGED <<it, outcomes, base, selected, original>>
    BY <1>3, <2>1, <2>2, <2>3 DEF Conclude, Decide
  <2>5. decision'.execution = (IF e = None THEN "SUCCESS" ELSE e) /\ decision'.gates = g
    BY <1>3, <2>1, <2>2 DEF Conclude, Decide
  <2> QED
    BY <1>1, <2>4, <2>5 DEF Adjudication, Executions
<1>4. CASE Conclude(TRUE) \/ Conclude(FALSE)
  BY <1>3, <1>4 DEF InCycle
<1>5. CASE QuiesceOverrun \/ QuiesceFails
  BY <1>1, <1>5 DEF QuiesceOverrun, QuiesceFails, Step, decided, InCycle
<1>6. CASE Emergency
  <2>1. /\ UNCHANGED <<fatal, root, it, outcomes, base, selected, original>>
        /\ pc' = "ended" /\ folds' \subseteq folds
        /\ decision'.execution = "FAILED"
        /\ decision'.gates = {"authorization"} \cup (IF intact THEN Guards ELSE {})
    BY <1>6 DEF Emergency, Decide
  <2> QED
    BY <1>1, <1>2, <2>1 DEF Executions, InCycle
<1> QED
  BY <1>4, <1>5, <1>6 DEF EndSteps

\* The finally clause appends one outcome; if that is accepted, it names a tree.
LEMMA EndCycleTyped ==
  ASSUME Typed, EndCycle(it) \/ CleanupFails
  PROVE  /\ outcomes' \in Seq(Outcome) /\ Len(outcomes') = Len(outcomes) + 1 /\ Len(outcomes') <= MaxCycles
         /\ \A i \in DOMAIN outcomes' : outcomes'[i].status = "ACCEPTED" => outcomes'[i].commit \in Trees
         /\ pc = "finally" /\ pc' = "take"
         /\ UNCHANGED <<it, decided, evidence, folds>>
<1>1. /\ it \in Outcome /\ outcomes \in Seq(Outcome)
      /\ it.status = "ACCEPTED" => it.commit \in Trees
      /\ \A i \in DOMAIN outcomes : outcomes[i].status = "ACCEPTED" => outcomes[i].commit \in Trees
  BY DEF Typed, TypeOK, Bounded
<1>2. PICK o \in {it, Failed(it)} : EndCycle(o)
  BY DEF CleanupFails
<1>3. o \in Outcome /\ (o.status = "ACCEPTED" => o.commit \in Trees)
  <2>1. Failed(it) \in Outcome
    BY <1>1, OutcomeUpdates
  <2>2. Failed(it).status = "ERROR"
    BY <1>1 DEF Failed, Outcome
  <2>3. o = it \/ o = Failed(it)
    BY <1>2
  <2> QED
    BY <1>1, <2>1, <2>2, <2>3
<1>4. PICK g \in Outcome : g = Guarded(o)
  BY <1>3, OutcomeUpdates
<1>5. g.status = "ACCEPTED" => g.commit \in Trees
  BY <1>3, <1>4 DEF Guarded, Failed, Outcome
<1>6. /\ pc = "finally" /\ pc' = "take" /\ outcomes' = Append(outcomes, g)
      /\ UNCHANGED <<it, decided, evidence, folds>>
  BY <1>2, <1>4 DEF EndCycle
<1>7. /\ Append(outcomes, g) \in Seq(Outcome) /\ Len(Append(outcomes, g)) = Len(outcomes) + 1
      /\ DOMAIN Append(outcomes, g) = 1 .. Len(outcomes) + 1 /\ DOMAIN outcomes = 1 .. Len(outcomes)
      /\ \A i \in 1 .. Len(outcomes) : Append(outcomes, g)[i] = outcomes[i]
      /\ Append(outcomes, g)[Len(outcomes) + 1] = g /\ Len(outcomes) \in Nat
  BY <1>1
<1>8. Len(outcomes) + 1 <= MaxCycles
  BY <1>6, <1>7, CyclesAssumption DEF Typed, Bounded, InCycle
<1>9. \A i \in 1 .. Len(outcomes) + 1 :
        Append(outcomes, g)[i].status = "ACCEPTED" => Append(outcomes, g)[i].commit \in Trees
  <2> TAKE i \in 1 .. Len(outcomes) + 1
  <2>1. i \in 1 .. Len(outcomes) \/ i = Len(outcomes) + 1
    BY <1>7
  <2> QED
    BY <1>1, <1>5, <1>7, <2>1
<1> QED
  BY <1>6, <1>7, <1>8, <1>9

\* The loop selects only a cycle that ended and a tree that was committed.
LEMMA TakeTyped ==
  ASSUME Typed, TakeOutcome
  PROVE  /\ selected' \in 0 .. Len(outcomes) /\ base' \in Trees /\ original' \in Trees \cup {None}
         /\ fatal' \in {None, "FAILED", "TIMEOUT"}
         /\ pc' \in {"adjudicate", "cycle"}
         /\ UNCHANGED <<it, outcomes, root, decision, evidence, folds>>
<1>1. /\ outcomes \in Seq(Outcome) /\ outcomes # <<>>
      /\ \A i \in DOMAIN outcomes : outcomes[i].status = "ACCEPTED" => outcomes[i].commit \in Trees
      /\ selected \in 0 .. Len(outcomes) /\ base \in Trees /\ original \in Trees \cup {None}
      /\ fatal \in {None, "FAILED", "TIMEOUT"}
  BY DEF Typed, TypeOK, Bounded, TakeOutcome
<1>2. Len(outcomes) \in 1 .. Len(outcomes) /\ DOMAIN outcomes = 1 .. Len(outcomes)
  BY <1>1
<1>3. PICK o \in Outcome : o = outcomes[Len(outcomes)]
  BY <1>1, <1>2
<1>4. (o.status = "ACCEPTED" => o.commit \in Trees) /\ o.baseline \in Trees \cup {None}
  BY <1>1, <1>2, <1>3 DEF Outcome
<1>5. /\ original' \in {original, o.baseline}
      /\ selected' \in {selected, Len(outcomes)}
      /\ base' = base \/ (base' = o.commit /\ o.status = "ACCEPTED")
      /\ fatal' = fatal \/ fatal' \in {"FAILED", "TIMEOUT"}
      /\ pc' \in {"adjudicate", "cycle"}
      /\ UNCHANGED <<it, outcomes, root, decision, evidence, folds>>
  BY <1>3 DEF TakeOutcome, Selectable
<1> QED
  BY <1>1, <1>2, <1>4, <1>5

\* What is left unsealed: the disclosure fills with the fold of a cycle; a cycle that is broken
\* off may abandon something, when time is short or an operation raises; so may the root.
LEMMA DirectoriesMove ==
  ASSUME [Next]_vars
  PROVE  \/ UNCHANGED directories
         \/ HideFold /\ disclosed' = TRUE /\ unsealed' = unsealed
         \/ /\ ExceptSteps \/ StartFails \/ RecoveryFails
            /\ Abandon(Cycle) /\ (late \/ faults' = faults + 1)
         \/ RootSteps /\ Abandon(0)
<1>1. CASE TrySteps
  BY <1>1 DEF TrySteps, Isolate, Build, TrainBaseline, Apply, Validate, Specialists, Remediate,
              TrainCandidate, HideFold, Score, Guard, FinalQa, Commit, directories
<1>2. ASSUME Reject \/ Overrun
      PROVE  UNCHANGED directories \/ (Abandon(Cycle) /\ late)
  BY <1>2 DEF Reject, Overrun, MayAbandon
<1>3. ASSUME CycleFails \/ StartFails \/ RecoveryFails
      PROVE  UNCHANGED directories \/ Abandon(Cycle)
  BY <1>3 DEF CycleFails, StartFails, RecoveryFails, MayAbandon
<1>4. ASSUME RootSteps
      PROVE  UNCHANGED directories \/ Abandon(0)
  <2>1. CASE Adjudicate
    BY <2>1 DEF Adjudicate, Abandon, directories
  <2>2. CASE RootOverrun \/ RootFails
    BY <2>2 DEF RootOverrun, RootFails, RootEndsAs, MayAbandon
  <2>3. CASE RootPanel \/ HideRootFold \/ RootScore \/ RootQa
    BY <2>3 DEF RootPanel, HideRootFold, RootScore, RootQa
  <2> QED
    BY <1>4, <2>1, <2>2, <2>3 DEF RootSteps
<1>5. ASSUME EndSteps \/ EndCycle(it) \/ CleanupFails \/ TakeOutcome \/ NextCycle \/ CyclesEnd
             \/ Environment \/ UNCHANGED vars
      PROVE  UNCHANGED directories
  BY <1>5 DEF EndSteps, Conclude, Decide, QuiesceOverrun, QuiesceFails, Emergency, EndCycle, CleanupFails,
              TakeOutcome, NextCycle, CyclesEnd, Environment, vars, directories
<1>6. CASE TrySteps \/ RootSteps \/ EndSteps \/ EndCycle(it) \/ CleanupFails \/ TakeOutcome
           \/ NextCycle \/ CyclesEnd \/ Environment \/ UNCHANGED vars
  BY <1>1, <1>4, <1>5, <1>6
<1>7. CASE Reject \/ Overrun
  BY <1>2, <1>7 DEF ExceptSteps
<1>8. CASE (CycleFails \/ StartFails \/ RecoveryFails) /\ faults' = faults + 1
  BY <1>3, <1>8 DEF ExceptSteps
<1>9. \/ TrySteps \/ RootSteps \/ EndSteps \/ EndCycle(it) \/ CleanupFails \/ TakeOutcome
      \/ NextCycle \/ CyclesEnd \/ Environment \/ UNCHANGED vars
      \/ Reject \/ Overrun
      \/ (CycleFails \/ StartFails \/ RecoveryFails) /\ faults' = faults + 1
  BY DEF Next, Steps, Failures, TrySteps, RootSteps, EndSteps
<1> QED
  BY <1>6, <1>7, <1>8, <1>9

\* So cycles that are left unsealed are cycles of the run.
LEMMA DirectoriesTyped ==
  ASSUME Typed, [Next]_vars
  PROVE  disclosed' \in BOOLEAN /\ unsealed' \subseteq 0 .. MaxCycles
<1>1. /\ disclosed \in BOOLEAN /\ unsealed \subseteq 0 .. MaxCycles
      /\ Len(outcomes) \in Nat /\ MaxCycles \in Nat
  BY CyclesAssumption DEF Typed, TypeOK
<1>2. CASE (ExceptSteps \/ StartFails \/ RecoveryFails) /\ Abandon(Cycle)
  <2>1. pc \in InCycle
    BY <1>2, ExceptTyped DEF StartFails, RecoveryFails, Step, InCycle
  <2>2. Cycle \in 0 .. MaxCycles
    BY <1>1, <2>1 DEF Typed, Bounded, Cycle
  <2> QED
    BY <1>1, <1>2, <2>2 DEF Abandon
<1>3. CASE Abandon(0)
  BY <1>1, <1>3 DEF Abandon
<1> QED
  BY <1>1, <1>2, <1>3, DirectoriesMove DEF directories

\* Types are inductive together with their bounds.
LEMMA NextTyped == Typed /\ [Next]_vars => Typed'
<1> SUFFICES ASSUME Typed, [Next]_vars PROVE Typed'
  OBVIOUS
<1> USE DEF Typed
<1>1. /\ late' \in BOOLEAN /\ intact' \in BOOLEAN /\ faults' \in 0 .. MaxFaults
      /\ disclosed' \in BOOLEAN /\ unsealed' \subseteq 0 .. MaxCycles
  <2>1. late \in BOOLEAN /\ intact \in BOOLEAN /\ faults \in 0 .. MaxFaults
    BY DEF TypeOK
  <2>2. faults < MaxFaults => faults + 1 \in 0 .. MaxFaults
    BY <2>1, CyclesAssumption
  <2>3. \/ UNCHANGED world /\ (faults' = faults \/ (faults < MaxFaults /\ faults' = faults + 1))
        \/ Environment \/ UNCHANGED vars
    BY NextSplits DEF world
  <2>4. disclosed' \in BOOLEAN /\ unsealed' \subseteq 0 .. MaxCycles
    BY DirectoriesTyped
  <2>5. CASE Environment
    BY <2>1, <2>4, <2>5 DEF Environment
  <2> QED
    BY <2>1, <2>2, <2>3, <2>4, <2>5 DEF world, vars
<1>2. /\ it \in Outcome /\ outcomes \in Seq(Outcome) /\ Len(outcomes) \in Nat /\ Len(outcomes) <= MaxCycles
      /\ selected \in 0 .. Len(outcomes) /\ folds \subseteq 0 .. MaxCycles /\ base \in Trees
      /\ it.status = "ACCEPTED" => it.commit \in Trees
  BY DEF TypeOK, Bounded
<1>3. CASE TrySteps \/ ExceptSteps
  <2>1. /\ it' \in Outcome /\ (it'.status = "ACCEPTED" => it'.commit \in Trees)
        /\ pc \in InCycle /\ pc' \in InCycle /\ folds' \subseteq folds \cup {Cycle}
        /\ UNCHANGED <<outcomes, decided>>
    BY <1>3, TryTyped, ExceptTyped DEF InCycle
  <2>2. Cycle \in 0 .. MaxCycles
    BY <1>2, <2>1, CyclesAssumption DEF Bounded, Cycle
  <2>3. folds' \subseteq 0 .. MaxCycles
    BY <1>2, <2>1, <2>2
  <2>4. TypeOK'
    BY <1>1, <2>1, <2>3 DEF TypeOK, decided
  <2>5. Bounded'
    BY <2>1 DEF Bounded, InCycle, decided
  <2> QED
    BY <2>4, <2>5
<1>4. CASE RootSteps
  <2>1. folds' \subseteq 0 .. MaxCycles
    <3>1. 0 \in 0 .. MaxCycles
      BY CyclesAssumption
    <3> QED
      BY <1>2, <1>4, <3>1, RootTyped
  <2>2. TypeOK'
    BY <1>1, <1>4, <2>1, RootTyped DEF TypeOK
  <2>3. Bounded'
    BY <1>4, RootTyped DEF Bounded
  <2> QED
    BY <2>2, <2>3
<1>5. CASE EndSteps
  <2>1. TypeOK'
    BY <1>1, <1>2, <1>5, ConcludesTyped DEF TypeOK
  <2>2. Bounded'
    BY <1>5, ConcludesTyped DEF Bounded
  <2> QED
    BY <2>1, <2>2
<1>6. CASE EndCycle(it) \/ CleanupFails
  <2>1. TypeOK'
    BY <1>1, <1>6, EndCycleTyped DEF TypeOK, decided
  <2>2. Bounded'
    <3>1. outcomes' # <<>>
      BY <1>2, <1>6, EndCycleTyped
    <3>2. selected' \in 0 .. Len(outcomes')
      BY <1>2, <1>6, EndCycleTyped DEF decided
    <3>3. pc' \notin InCycle
      BY <1>6, EndCycleTyped DEF InCycle
    <3> QED
      BY <1>2, <1>6, <3>1, <3>2, <3>3, EndCycleTyped DEF Bounded
  <2> QED
    BY <2>1, <2>2
<1>7. CASE StartFails \/ RecoveryFails
  BY <1>1, <1>7 DEF StartFails, RecoveryFails, Step, TypeOK, Bounded, InCycle, decided
<1>8. CASE TakeOutcome
  <2>1. selected' \in 0 .. MaxCycles /\ selected' \in 0 .. Len(outcomes)
    BY <1>2, <1>8, TakeTyped, CyclesAssumption
  <2>2. TypeOK'
    BY <1>1, <1>8, <2>1, TakeTyped DEF TypeOK
  <2>3. Bounded'
    BY <1>8, <2>1, TakeTyped DEF Bounded, InCycle
  <2> QED
    BY <2>2, <2>3
<1>9. CASE NextCycle
  <2>1. it' \in Outcome /\ it'.status = "RUNNING"
    BY <1>2, <1>9, NewCycleTyped DEF NextCycle
  <2>2. TypeOK'
    BY <1>1, <1>9, <2>1 DEF NextCycle, TypeOK, decided
  <2>3. Bounded'
    BY <1>9, <2>1 DEF NextCycle, Step, Bounded, InCycle, decided
  <2> QED
    BY <2>2, <2>3
<1>10. CASE CyclesEnd
  BY <1>1, <1>10 DEF CyclesEnd, Step, TypeOK, Bounded, InCycle
<1>11. CASE Environment \/ UNCHANGED vars
  BY <1>1, <1>11 DEF Environment, vars, decided, TypeOK, Bounded
<1>12. \/ TrySteps \/ ExceptSteps \/ RootSteps \/ EndSteps
       \/ EndCycle(it) \/ CleanupFails \/ StartFails \/ RecoveryFails \/ TakeOutcome
       \/ NextCycle \/ CyclesEnd \/ Environment \/ UNCHANGED vars
  BY NextSplits
<1> QED
  BY <1>3, <1>4, <1>5, <1>6, <1>7, <1>8, <1>9, <1>10, <1>11, <1>12

\* Status, execution, gates and trees keep their vocabularies in every reachable state, for
\* every number of cycles, remediations, specialists and failures.
THEOREM TypeCorrect == Spec => []TypeOK
<1>1. Init => Typed
  BY InitTyped
<1>2. Typed /\ [Next]_vars => Typed'
  BY NextTyped
<1>3. Typed => TypeOK
  BY DEF Typed
<1> QED
  BY <1>1, <1>2, <1>3, PTL DEF Spec

-------------------------------------------------------------------------------
(* Where the hidden folds are.                                                 *)

Blocking(o) == o.status # "ACCEPTED" /\ o.execution \in {"FAILED", "TIMEOUT"}

\* A fold lies on the disk while it is scored.  One that resists its removal leaves an outcome
\* that blocks the run: no cycle follows, and the root is not adjudicated.
Held ==
  /\ pc \in (InCycle \ {"score", "finally"}) \cup {"cycle", "rootPanel", "rootFold", "rootQa"} => folds = {}
  /\ pc = "score" => folds \subseteq {Cycle}
  /\ pc = "rootScore" => folds \subseteq {0}
  /\ pc = "finally" => folds = {} \/ Blocking(it)
  /\ pc = "take" => folds = {} \/ Blocking(outcomes[Len(outcomes)])
  /\ pc = "adjudicate" => folds = {} \/ fatal # None

\* A cycle goes on with no fold, but from its creation to the two scores.
LEMMA TryHeld ==
  ASSUME Typed, Held, TrySteps
  PROVE  /\ pc' \in InCycle
         /\ folds' = {} \/ (pc' = "score" /\ folds' \subseteq {Cycle} /\ UNCHANGED outcomes)
<1>1. pc' \in InCycle
  BY TryTyped
<1>2. CASE HideFold
  <2>1. pc = "fold" /\ pc' = "score" /\ folds' = folds \cup {Cycle} /\ outcomes' = outcomes
    BY <1>2 DEF HideFold, Step
  <2>2. folds = {}
    BY <2>1 DEF Held, InCycle
  <2> QED
    BY <1>1, <2>1, <2>2
<1>3. CASE Score
  <2>1. pc = "score" /\ folds' = folds \ {Cycle}
    BY <1>3 DEF Score, Unlink
  <2>2. folds \subseteq {Cycle}
    BY <2>1 DEF Held
  <2> QED
    BY <1>1, <2>1, <2>2
<1>4. CASE Isolate \/ Build \/ TrainBaseline \/ Apply \/ Validate \/ Guard \/ Commit
  <2>1. pc \in InCycle \ {"score", "finally"} /\ folds' = folds
    BY <1>4 DEF Isolate, Build, TrainBaseline, Apply, Validate, Guard, Commit, Step, InCycle
  <2> QED
    BY <1>1, <2>1 DEF Held
<1>5. CASE Specialists \/ Remediate \/ TrainCandidate \/ FinalQa
  <2>1. pc \in InCycle \ {"score", "finally"} /\ folds' = folds
    BY <1>5 DEF Specialists, Remediate, TrainCandidate, FinalQa, Step, InCycle
  <2> QED
    BY <1>1, <2>1 DEF Held
<1> QED
  BY <1>2, <1>3, <1>4, <1>5 DEF TrySteps

\* An exception leaves no fold, or an outcome that blocks the run.
LEMMA ExceptHeld ==
  ASSUME Typed, Held, ExceptSteps
  PROVE  pc' = "finally" /\ (folds' = {} \/ Blocking(it'))
<1>1. it \in Outcome
  BY DEF Typed, TypeOK
<1>2. CASE Reject
  <2>1. pc \in InCycle \ {"score", "finally"} /\ UNCHANGED folds /\ pc' = "finally"
    BY <1>2 DEF Reject, Rejected, EndsAs, InCycle
  <2> QED
    BY <2>1 DEF Held
<1>3. CASE Overrun \/ CycleFails
  <2>1. \/ EndsAs("TIMEOUT", "TIMEOUT") \/ EndsAs("ERROR", "FAILED")
        \/ pc = "test" /\ Rejected /\ folds' \subseteq folds
    BY <1>3 DEF Overrun, CycleFails, Unlink
  <2>2. CASE pc = "test" /\ Rejected /\ folds' \subseteq folds
    BY <2>2 DEF Rejected, EndsAs, Held, InCycle
  <2> QED
    BY <1>1, <2>1, <2>2 DEF EndsAs, Blocking, Outcome
<1> QED
  BY <1>2, <1>3 DEF ExceptSteps

\* The finally clause hands on an outcome that blocks as one that blocks.
LEMMA EndCycleHeld ==
  ASSUME Typed, Held, EndCycle(it) \/ CleanupFails
  PROVE  pc' = "take" /\ (folds' = {} \/ Blocking(outcomes'[Len(outcomes')]))
<1>1. it \in Outcome /\ outcomes \in Seq(Outcome)
  BY DEF Typed, TypeOK
<1>2. PICK o \in {it, Failed(it)} : EndCycle(o)
  BY DEF CleanupFails
<1>3. pc = "finally" /\ pc' = "take" /\ UNCHANGED folds /\ outcomes' = Append(outcomes, Guarded(o))
  BY <1>2 DEF EndCycle
<1>4. \A x \in Outcome : Blocking(Failed(x))
  BY DEF Failed, Blocking, Outcome
<1>5. o \in Outcome /\ (Blocking(it) => Blocking(o))
  BY <1>1, <1>2, <1>4, OutcomeUpdates
<1>6. Blocking(it) => Blocking(Guarded(o))
  <2>1. CASE intact
    <3>1. Guarded(o).status = o.status /\ Guarded(o).execution = o.execution
      BY <1>5, <2>1 DEF Guarded, Outcome
    <3> QED
      BY <1>5, <3>1 DEF Blocking
  <2>2. CASE ~intact
    <3>1. [o EXCEPT !.gates = o.gates \ {"production_guard"}] \in Outcome
      BY <1>5 DEF Outcome
    <3> QED
      BY <1>4, <2>2, <3>1 DEF Guarded
  <2> QED
    BY <2>1, <2>2
<1>7. outcomes'[Len(outcomes')] = Guarded(o)
  <2>1. PICK g \in Outcome : g = Guarded(o)
    BY <1>5, OutcomeUpdates
  <2>2. Append(outcomes, g)[Len(Append(outcomes, g))] = g
    BY <1>1
  <2> QED
    BY <1>3, <2>1, <2>2
<1> QED
  BY <1>3, <1>6, <1>7 DEF Held

\* Root and end: a fold that stays behind is followed by no further question.
LEMMA RootHeld ==
  ASSUME Typed, Held, RootSteps
  PROVE  /\ pc' \in {"rootPanel", "rootFold", "rootScore", "rootQa", "quiesce"}
         /\ pc' = "rootScore" => folds' \subseteq {0}
         /\ pc' \in {"rootPanel", "rootFold", "rootQa"} => folds' = {}
<1>1. CASE Adjudicate
  BY <1>1 DEF Adjudicate, Adjudicates, Held
<1>2. CASE RootPanel
  BY <1>2 DEF RootPanel, Held
<1>4. CASE HideRootFold
  <2>1. pc = "rootFold" /\ pc' = "rootScore" /\ folds' = folds \cup {0}
    BY <1>4 DEF HideRootFold, Step
  <2>2. folds = {}
    BY <2>1 DEF Held
  <2> QED
    BY <2>1, <2>2
<1>5. CASE RootScore
  <2>1. pc = "rootScore" /\ pc' = "rootQa" /\ folds' = folds \ {0}
    BY <1>5 DEF RootScore
  <2>2. folds \subseteq {0}
    BY <2>1 DEF Held
  <2> QED
    BY <2>1, <2>2
<1>6. CASE RootQa
  BY <1>6 DEF RootQa, Held
<1>3. CASE RootOverrun \/ RootFails
  BY <1>3 DEF RootOverrun, RootFails, RootEndsAs
<1> QED
  BY <1>1, <1>2, <1>3, <1>4, <1>5, <1>6 DEF RootSteps

\* The folds stay where Held says.
LEMMA NextHeld == Typed /\ Held /\ [Next]_vars => Held'
<1> SUFFICES ASSUME Typed, Held, [Next]_vars PROVE Held'
  OBVIOUS
<1>1. CASE TrySteps
  BY <1>1, TryHeld DEF Held, InCycle, Cycle
<1>2. CASE ExceptSteps
  BY <1>2, ExceptHeld DEF Held, InCycle, Blocking
<1>3. CASE RootSteps
  BY <1>3, RootHeld DEF Held, InCycle
<1>4. CASE EndSteps
  BY <1>4 DEF EndSteps, Conclude, Decide, QuiesceOverrun, QuiesceFails, Emergency, Step, Held, InCycle
<1>5. CASE EndCycle(it) \/ CleanupFails
  BY <1>5, EndCycleHeld DEF Held, InCycle, Blocking
<1>6. CASE StartFails \/ RecoveryFails
  BY <1>6 DEF StartFails, RecoveryFails, Step, Held, InCycle
<1>7. CASE TakeOutcome
  <2>1. PICK o : o = outcomes[Len(outcomes)]
    OBVIOUS
  <2>2. /\ pc = "take" /\ UNCHANGED folds
        /\ \/ Blocking(o) /\ pc' = "adjudicate" /\ fatal' \in {"FAILED", "TIMEOUT"}
           \/ ~Blocking(o) /\ pc' = "cycle"
    BY <1>7, <2>1 DEF TakeOutcome, Selectable, Blocking
  <2> QED
    BY <2>1, <2>2, NoneAssumption DEF Held, InCycle
<1>8. CASE NextCycle \/ CyclesEnd
  BY <1>8 DEF NextCycle, CyclesEnd, Step, Held, InCycle
<1>9. CASE Environment \/ UNCHANGED vars
  BY <1>9 DEF Environment, vars, decided, Held, Cycle, Blocking
<1> QED
  BY <1>1, <1>2, <1>3, <1>4, <1>5, <1>6, <1>7, <1>8, <1>9, NextSplits

\* No model is asked anything while a hidden fold lies on the disk: not the specialists, the
\* builder or final QA of any later cycle, nor those of the root, for any number of cycles
\* and whatever failed between create_hidden_fold and its removal.
THEOREM FoldsHidden == Spec => []FoldsHeldOut
<1>1. Init => Typed /\ Held
  BY InitTyped DEF Init, Held
<1>2. (Typed /\ Held) /\ [Next]_vars => (Typed /\ Held)'
  BY NextTyped, NextHeld
<1>3. Typed /\ Held => FoldsHeldOut
  BY DEF Held, FoldsHeldOut, ModelAt, InCycle
<1> QED
  BY <1>1, <1>2, <1>3, PTL DEF Spec

-------------------------------------------------------------------------------
(* What an accepted cycle has been through.                                    *)

\* What the evidence must hold for a commit of a cycle.
Dossier(c, diff, found) == {Tests(c, diff), Panel(c, diff, {}), Paired(c, diff), Qa(c, diff, found)}

\* The stages of a cycle, each with those that follow it.
FromCommit == {"commit"}
FromGuard == {"guard", "qa"} \cup FromCommit
FromFold == {"fold", "score"} \cup FromGuard
FromTrain == {"train"} \cup FromFold
FromPanel == {"panel"} \cup FromTrain
FromTest == {"test"} \cup FromPanel
FromApply == {"apply", "remediate"} \cup FromTest

\* What a cycle under way has to show for itself, stage by stage.
UnderWay ==
  /\ pc \in InCycle => it.found = FoundIn(Cycle) /\ \A e \in evidence : e.cycle \in 0 .. Cycle
  /\ pc \in FromApply => it.baseline = it.base
  /\ pc \in FromTest => it.diff = <<it.base, it.tree>>
  /\ pc \in FromPanel => Tests(Cycle, it.diff) \in evidence
  /\ pc \in FromTrain => Panel(Cycle, it.diff, {}) \in evidence
  /\ pc \in FromFold => it.candidate = it.tree
  /\ pc \in FromGuard => Paired(Cycle, it.diff) \in evidence
  /\ pc \in FromCommit => Qa(Cycle, it.diff, it.found) \in evidence
  /\ pc = "finally" /\ it.status = "ACCEPTED" =>
       Dossier(Cycle, <<it.base, it.commit>>, it.found) \subseteq evidence

\* Between cycles the evidence is about the cycles that ended, or the root's.
Between == pc \in {"cycle", "take"} => \A e \in evidence : e.cycle \in 0 .. Len(outcomes)

Earned == UnderWay /\ Between /\ AcceptedIsEarned

\* What a record of evidence is about.
LEMMA EvidenceFields ==
  ASSUME NEW c, NEW diff, NEW f
  PROVE  /\ Tests(c, diff).cycle = c /\ Tests(c, diff).shows = "tests"
         /\ Panel(c, diff, f).cycle = c /\ Panel(c, diff, f).shows = "panel" /\ Panel(c, diff, f).found = f
         /\ Paired(c, diff).cycle = c /\ Paired(c, diff).shows = "paired"
         /\ Qa(c, diff, f).cycle = c /\ Qa(c, diff, f).shows = "qa"
BY DEF Tests, Panel, Paired, Qa

\* Evidence that is no panel of a cycle adds nothing to its findings.
LEMMA FoundStays ==
  ASSUME NEW i, evidence \subseteq evidence',
         \A e \in evidence' \ evidence : e.cycle # i \/ e.shows # "panel"
  PROVE  UNION {e.found : e \in {x \in evidence' : x.shows = "panel" /\ x.cycle = i}} = FoundIn(i)
<1>1. {x \in evidence' : x.shows = "panel" /\ x.cycle = i} = {x \in evidence : x.shows = "panel" /\ x.cycle = i}
  OBVIOUS
<1> QED
  BY <1>1 DEF FoundIn

\* An accepted cycle keeps its dossier when no evidence about it is added.
LEMMA AcceptedStays ==
  ASSUME AcceptedIsEarned, outcomes \in Seq(Outcome), UNCHANGED outcomes, evidence \subseteq evidence',
         \A e \in evidence' \ evidence : e.cycle \notin 1 .. Len(outcomes)
  PROVE  AcceptedIsEarned'
<1> SUFFICES ASSUME NEW i \in Accepted'
             PROVE  {Tests(i, <<outcomes[i].base, outcomes[i].commit>>),
                     Panel(i, <<outcomes[i].base, outcomes[i].commit>>, {}),
                     Paired(i, <<outcomes[i].base, outcomes[i].commit>>),
                     Qa(i, <<outcomes[i].base, outcomes[i].commit>>, FoundIn(i)')} \subseteq evidence'
  BY DEF AcceptedIsEarned, Tests, Panel, Paired, Qa
<1>1. i \in Accepted /\ i \in 1 .. Len(outcomes)
  BY DEF Accepted
<1>2. FoundIn(i)' = FoundIn(i)
  BY <1>1, FoundStays DEF FoundIn
<1> QED
  BY <1>1, <1>2 DEF AcceptedIsEarned

\* What a step inside execute_cycle leaves of the past: it adds evidence about its own cycle.
LEMMA PastStays ==
  ASSUME Typed, Earned, TrySteps \/ ExceptSteps, evidence \subseteq evidence',
         \A e \in evidence' \ evidence : e.cycle = Cycle
  PROVE  /\ AcceptedIsEarned' /\ Between' /\ Cycle' = Cycle
         /\ \A e \in evidence' : e.cycle \in 0 .. Cycle
         /\ (\A e \in evidence' \ evidence : e.shows # "panel") => FoundIn(Cycle)' = FoundIn(Cycle)
<1>1. /\ pc \in InCycle /\ pc' \in InCycle /\ outcomes' = outcomes
      /\ outcomes \in Seq(Outcome) /\ Len(outcomes) \in Nat
  BY TryTyped, ExceptTyped DEF Typed, TypeOK, InCycle
<1>2. Cycle \notin 1 .. Len(outcomes) /\ Cycle \in 0 .. Cycle /\ Cycle' = Cycle
  BY <1>1 DEF Cycle
<1>3. AcceptedIsEarned'
  BY <1>1, <1>2, AcceptedStays DEF Earned
<1>4. Between'
  BY <1>1 DEF Between, InCycle
<1>5. \A e \in evidence' : e.cycle \in 0 .. Cycle
  BY <1>1, <1>2 DEF Earned, UnderWay
<1>6. ASSUME \A e \in evidence' \ evidence : e.shows # "panel"
      PROVE  FoundIn(Cycle)' = FoundIn(Cycle)
  <2>1. PICK c : c = Cycle
    OBVIOUS
  <2>2. UNION {e.found : e \in {x \in evidence' : x.shows = "panel" /\ x.cycle = c}} = FoundIn(c)
    BY <1>6, FoundStays
  <2> QED
    BY <1>2, <2>1, <2>2 DEF FoundIn
<1> QED
  BY <1>2, <1>3, <1>4, <1>5, <1>6

\* A step that adds no panel and leaves the findings alone keeps them the same.
LEMMA FoundKept ==
  ASSUME Typed, Earned, TrySteps \/ ExceptSteps, evidence \subseteq evidence', it'.found = it.found,
         \A e \in evidence' \ evidence : e.cycle = Cycle /\ e.shows # "panel"
  PROVE  /\ it'.found = FoundIn(Cycle)' /\ \A e \in evidence' : e.cycle \in 0 .. Cycle'
         /\ Between' /\ AcceptedIsEarned' /\ Cycle' = Cycle /\ pc' \in InCycle
<1>1. pc \in InCycle /\ pc' \in InCycle
  BY TryTyped, ExceptTyped DEF InCycle
<1>2. it.found = FoundIn(Cycle)
  BY <1>1 DEF Earned, UnderWay
<1> QED
  BY <1>1, <1>2, PastStays

\* A cycle that ends without a commit.
LEMMA EndsEarned ==
  ASSUME Typed, Earned, TrySteps \/ ExceptSteps, UNCHANGED evidence,
         NEW x \in {"REJECTED", "TIMEOUT", "ERROR"}, NEW e \in Executions, EndsAs(x, e)
  PROVE  Earned'
<1>1. it \in Outcome
  BY DEF Typed, TypeOK
<1>2. pc' = "finally" /\ it'.status # "ACCEPTED" /\ it'.found = it.found
  BY <1>1 DEF EndsAs, Outcome
<1>3. /\ it'.found = FoundIn(Cycle)' /\ \A d \in evidence' : d.cycle \in 0 .. Cycle'
      /\ Between' /\ AcceptedIsEarned'
  BY <1>2, FoundKept
<1>4. UnderWay'
  BY <1>2, <1>3 DEF UnderWay, FromApply, FromTest, FromPanel, FromTrain, FromFold, FromGuard, FromCommit
<1> QED
  BY <1>3, <1>4 DEF Earned

\* A stage that only moves on, or records tree, gates, baseline or checkpoint.
LEMMA MovesEarned ==
  ASSUME Typed, Earned,
         Isolate \/ Build \/ TrainBaseline \/ Apply \/ Remediate \/ TrainCandidate \/ HideFold \/ Guard
  PROVE  Earned'
<1> USE DEF FromApply, FromTest, FromPanel, FromTrain, FromFold, FromGuard, FromCommit
<1>1. it \in Outcome
  BY DEF Typed, TypeOK
<1>2. evidence' = evidence /\ TrySteps
  BY DEF Isolate, Build, TrainBaseline, Apply, Remediate, TrainCandidate, HideFold, Guard, TrySteps
<1>3. ASSUME it'.found = it.found
      PROVE  /\ it'.found = FoundIn(Cycle)' /\ \A e \in evidence' : e.cycle \in 0 .. Cycle'
             /\ Between' /\ AcceptedIsEarned' /\ Cycle' = Cycle /\ pc' \in InCycle
  BY <1>2, <1>3, FoundKept
<1>4. CASE EndsAs("ERROR", "FAILED") \/ EndsAs("REJECTED", "SUCCESS")
  BY <1>2, <1>4, EndsEarned DEF Executions
<1>5. CASE Isolate \/ (Build /\ UNCHANGED it)
  <2>1. it'.found = it.found /\ pc' \in {"build", "baseline", "finally"}
    BY <1>1, <1>5 DEF Isolate, Build, Step, Pass, Outcome, EndsAs
  <2>2. CASE pc' \in {"build", "baseline"}
    BY <1>3, <2>1, <2>2 DEF Earned, UnderWay
  <2>3. CASE pc' = "finally"
    BY <1>4, <1>5, <2>3 DEF Isolate, Build, Step
  <2> QED
    BY <2>1, <2>2, <2>3
<1>6. CASE TrainBaseline
  <2>1. it'.found = it.found /\ pc' = "apply" /\ it'.baseline = it'.base
    BY <1>1, <1>6 DEF TrainBaseline, Step, Outcome
  <2> QED
    BY <1>3, <2>1 DEF Earned, UnderWay
<1>7. CASE Apply
  <2>1. /\ pc = "apply" /\ pc' = "test" /\ it'.found = it.found
        /\ it'.baseline = it.baseline /\ it'.base = it.base /\ it'.diff = <<it'.base, it'.tree>>
    BY <1>1, <1>7 DEF Apply, Step, Outcome
  <2> QED
    BY <1>3, <2>1 DEF Earned, UnderWay
<1>8. CASE Remediate /\ ~EndsAs("REJECTED", "SUCCESS")
  <2>1. /\ pc = "remediate" /\ pc' = "apply" /\ it'.found = it.found
        /\ it'.baseline = it.baseline /\ it'.base = it.base
    BY <1>1, <1>8 DEF Remediate, Rejected, Outcome
  <2> QED
    BY <1>3, <2>1 DEF Earned, UnderWay
<1>9. CASE TrainCandidate
  <2>1. /\ pc = "train" /\ pc' = "fold" /\ it'.found = it.found /\ it'.diff = it.diff /\ it'.tree = it.tree
        /\ it'.baseline = it.baseline /\ it'.base = it.base /\ it'.candidate = it'.tree
    BY <1>1, <1>9 DEF TrainCandidate, Step, Outcome
  <2> QED
    BY <1>2, <1>3, <2>1 DEF Earned, UnderWay
<1>10. CASE HideFold
  <2>1. pc = "fold" /\ pc' = "score" /\ it' = it
    BY <1>10 DEF HideFold, Step
  <2> QED
    BY <1>2, <1>3, <2>1 DEF Earned, UnderWay
<1>11. CASE Guard /\ ~EndsAs("ERROR", "FAILED")
  <2>1. /\ pc = "guard" /\ pc' = "qa" /\ it'.found = it.found /\ it'.diff = it.diff /\ it'.tree = it.tree
        /\ it'.baseline = it.baseline /\ it'.base = it.base /\ it'.candidate = it.candidate
    BY <1>1, <1>11 DEF Guard, Pass, Outcome
  <2> QED
    BY <1>2, <1>3, <2>1 DEF Earned, UnderWay
<1> QED
  BY <1>4, <1>5, <1>6, <1>7, <1>8, <1>9, <1>10, <1>11 DEF Build, Remediate, Guard, Rejected

\* The panel adds its findings to those of the cycle, and is about the diff it was shown.
LEMMA PanelEarned ==
  ASSUME Typed, Earned, Specialists
  PROVE  Earned'
<1> USE DEF FromApply, FromTest, FromPanel, FromTrain, FromFold, FromGuard, FromCommit
<1>1. it \in Outcome /\ pc = "panel" /\ TrySteps /\ outcomes' = outcomes
  BY DEF Typed, TypeOK, Specialists, TrySteps
<1>2. PICK reviews \in Reviews :
        \/ /\ ~Adjudicable(reviews)
           /\ it' = [it EXCEPT !.agreed = FALSE, !.status = "ERROR", !.execution = "FAILED"]
           /\ pc' = "finally" /\ evidence' = evidence
        \/ /\ evidence' = evidence \cup {Panel(Cycle, it.diff, Findings(reviews))}
           /\ \/ /\ Findings(reviews) # {} /\ pc' = "remediate"
                 /\ it' = Read(AllPass(reviews), Findings(reviews))
              \/ /\ Findings(reviews) = {} /\ pc' = "train"
                 /\ it' = Consented(Read(AllPass(reviews), Findings(reviews)))
  BY DEF Specialists, Read, Consented
<1>3. CASE evidence' = evidence /\ pc' = "finally" /\
           it' = [it EXCEPT !.agreed = FALSE, !.status = "ERROR", !.execution = "FAILED"]
  <2>1. it'.found = it.found /\ it'.status # "ACCEPTED"
    BY <1>1, <1>3 DEF Outcome
  <2>2. /\ it'.found = FoundIn(Cycle)' /\ \A e \in evidence' : e.cycle \in 0 .. Cycle'
        /\ Between' /\ AcceptedIsEarned'
    BY <1>1, <1>3, <2>1, FoundKept
  <2> QED
    BY <1>3, <2>1, <2>2 DEF Earned, UnderWay
<1>4. ASSUME evidence' = evidence \cup {Panel(Cycle, it.diff, Findings(reviews))},
             \/ it' = Read(AllPass(reviews), Findings(reviews))
             \/ it' = Consented(Read(AllPass(reviews), Findings(reviews)))
      PROVE  /\ it'.found = FoundIn(Cycle)' /\ \A e \in evidence' : e.cycle \in 0 .. Cycle'
             /\ Between' /\ AcceptedIsEarned' /\ Cycle' = Cycle
             /\ it'.diff = it.diff /\ it'.base = it.base /\ it'.tree = it.tree /\ it'.baseline = it.baseline
  <2>1. PICK f, p, c : f = Findings(reviews) /\ c = Cycle /\ p = Panel(c, it.diff, f)
    OBVIOUS
  <2>2. p.cycle = c /\ p.shows = "panel" /\ p.found = f
    BY <2>1, EvidenceFields
  <2>3. evidence' = evidence \cup {p}
    BY <1>4, <2>1
  <2>4. /\ \A e \in evidence' : e.cycle \in 0 .. Cycle'
        /\ Between' /\ AcceptedIsEarned' /\ Cycle' = Cycle
    BY <1>1, <2>1, <2>2, <2>3, PastStays
  <2>5. /\ it'.found = it.found \cup f
        /\ it'.diff = it.diff /\ it'.base = it.base /\ it'.tree = it.tree /\ it'.baseline = it.baseline
    BY <1>1, <1>4, <2>1 DEF Read, Consented, Outcome
  <2>6. UNION {e.found : e \in {x \in evidence' : x.shows = "panel" /\ x.cycle = c}} = FoundIn(c) \cup f
    <3>1. {x \in evidence' : x.shows = "panel" /\ x.cycle = c}
            = {x \in evidence : x.shows = "panel" /\ x.cycle = c} \cup {p}
      BY <2>2, <2>3
    <3> QED
      BY <2>2, <3>1 DEF FoundIn
  <2>7. it.found = FoundIn(c)
    BY <1>1, <2>1 DEF Earned, UnderWay, InCycle
  <2>8. FoundIn(Cycle)' = FoundIn(c) \cup f
    BY <2>1, <2>4, <2>6 DEF FoundIn
  <2> QED
    BY <2>4, <2>5, <2>7, <2>8
<1>5. CASE pc' = "remediate" /\ evidence' = evidence \cup {Panel(Cycle, it.diff, Findings(reviews))}
           /\ it' = Read(AllPass(reviews), Findings(reviews))
  BY <1>1, <1>4, <1>5 DEF Earned, UnderWay
<1>6. CASE pc' = "train" /\ evidence' = evidence \cup {Panel(Cycle, it.diff, Findings(reviews))}
           /\ Findings(reviews) = {} /\ it' = Consented(Read(AllPass(reviews), Findings(reviews)))
  <2>1. Panel(Cycle, it.diff, {}) \in evidence' /\ Tests(Cycle, it.diff) \in evidence'
    BY <1>1, <1>6 DEF Earned, UnderWay
  <2> QED
    BY <1>1, <1>4, <1>6, <2>1 DEF Earned, UnderWay
<1> QED
  BY <1>2, <1>3, <1>5, <1>6

\* Tests, scores and final QA are evidence about the very diff of the cycle.
LEMMA ShowsEarned ==
  ASSUME Typed, Earned, Validate \/ Score \/ FinalQa \/ Commit
  PROVE  Earned'
<1> USE DEF FromApply, FromTest, FromPanel, FromTrain, FromFold, FromGuard, FromCommit
<1>1. it \in Outcome /\ TrySteps /\ outcomes' = outcomes
  BY DEF Typed, TypeOK, Validate, Score, FinalQa, Commit, TrySteps
<1>2. CASE EndsAs("REJECTED", "SUCCESS") /\ UNCHANGED evidence
  BY <1>1, <1>2, EndsEarned DEF Executions
<1>3. ASSUME NEW e, e.cycle = Cycle, e.shows # "panel", evidence' = evidence \cup {e}, it'.found = it.found
      PROVE  /\ it'.found = FoundIn(Cycle)' /\ \A x \in evidence' : x.cycle \in 0 .. Cycle'
             /\ Between' /\ AcceptedIsEarned' /\ Cycle' = Cycle /\ evidence \subseteq evidence' /\ e \in evidence'
  BY <1>1, <1>3, FoundKept
<1>4. CASE Validate
  <2>1. /\ pc = "test" /\ pc' = "panel" /\ it' = it
        /\ evidence' = evidence \cup {Tests(Cycle, <<it.base, it.tree>>)}
    BY <1>4 DEF Validate, Step
  <2>2. it.diff = <<it.base, it.tree>> /\ it.baseline = it.base
    BY <2>1 DEF Earned, UnderWay
  <2> QED
    BY <1>3, <2>1, <2>2, EvidenceFields DEF Earned, UnderWay
<1>5. CASE Score /\ ~EndsAs("REJECTED", "SUCCESS")
  <2>1. /\ pc = "score" /\ pc' = "guard"
        /\ evidence' = evidence \cup {Paired(Cycle, <<it.baseline, it.candidate>>)}
        /\ it'.found = it.found /\ it'.diff = it.diff /\ it'.base = it.base /\ it'.tree = it.tree
        /\ it'.baseline = it.baseline /\ it'.candidate = it.candidate
    BY <1>1, <1>5 DEF Score, Rejected, Pass, Outcome
  <2>2. /\ it.diff = <<it.base, it.tree>> /\ it.baseline = it.base /\ it.candidate = it.tree
        /\ {Tests(Cycle, it.diff), Panel(Cycle, it.diff, {})} \subseteq evidence
    BY <2>1 DEF Earned, UnderWay
  <2>3. evidence' = evidence \cup {Paired(Cycle, it.diff)}
    BY <2>1, <2>2
  <2> QED
    BY <1>3, <2>1, <2>2, <2>3, EvidenceFields DEF Earned, UnderWay
<1>6. CASE FinalQa /\ ~EndsAs("REJECTED", "SUCCESS")
  <2>1. /\ pc = "qa" /\ pc' = "commit"
        /\ evidence' = evidence \cup {Qa(Cycle, it.diff, it.found)}
        /\ it'.found = it.found /\ it'.diff = it.diff /\ it'.base = it.base /\ it'.tree = it.tree
        /\ it'.baseline = it.baseline /\ it'.candidate = it.candidate
    BY <1>1, <1>6 DEF FinalQa, Rejected, Pass, VerifiedQa, Outcome
  <2>2. /\ it.diff = <<it.base, it.tree>> /\ it.baseline = it.base /\ it.candidate = it.tree
        /\ {Tests(Cycle, it.diff), Panel(Cycle, it.diff, {}), Paired(Cycle, it.diff)} \subseteq evidence
    BY <2>1 DEF Earned, UnderWay
  <2> QED
    BY <1>3, <2>1, <2>2, EvidenceFields DEF Earned, UnderWay
<1>7. CASE Commit
  <2>1. /\ pc = "commit" /\ pc' = "finally" /\ evidence' = evidence
        /\ it'.found = it.found /\ it'.base = it.base /\ it'.commit = it.tree
    BY <1>1, <1>7 DEF Commit, Outcome
  <2>2. Dossier(Cycle, <<it.base, it.tree>>, it.found) \subseteq evidence
    BY <2>1 DEF Earned, UnderWay, Dossier
  <2>3. /\ it'.found = FoundIn(Cycle)' /\ \A x \in evidence' : x.cycle \in 0 .. Cycle'
        /\ Between' /\ AcceptedIsEarned' /\ Cycle' = Cycle
    BY <1>1, <2>1, FoundKept
  <2>4. Dossier(Cycle', <<it'.base, it'.commit>>, it'.found) \subseteq evidence'
    BY <2>1, <2>2, <2>3
  <2>5. UnderWay'
    BY <2>1, <2>3, <2>4 DEF UnderWay, Dossier, Tests, Panel, Paired, Qa
  <2> QED
    BY <2>3, <2>5 DEF Earned
<1>8. (Score \/ FinalQa) /\ EndsAs("REJECTED", "SUCCESS") => UNCHANGED evidence
  <2>1. EndsAs("REJECTED", "SUCCESS") => pc' = "finally"
    BY DEF EndsAs
  <2> QED
    BY <2>1 DEF Score, FinalQa
<1> QED
  BY <1>2, <1>4, <1>5, <1>6, <1>7, <1>8

\* An exception ends the cycle without a commit.
LEMMA ExceptEarned ==
  ASSUME Typed, Earned, ExceptSteps
  PROVE  Earned'
<1>1. UNCHANGED evidence
  BY ExceptTyped
<1>2. PICK x \in {"REJECTED", "TIMEOUT", "ERROR"}, e \in Executions : EndsAs(x, e)
  BY DEF ExceptSteps, Reject, Rejected, Overrun, CycleFails, Executions
<1> QED
  BY <1>1, <1>2, EndsEarned

\* Outside execute_cycle, before the next: only the accepted cycles have to be accounted for.
LEMMA OutsideEarned ==
  ASSUME Typed, Earned, UNCHANGED outcomes, evidence \subseteq evidence',
         \A e \in evidence' \ evidence : e.cycle = 0,
         pc' \in {"cycle", "take"} => pc \in {"cycle", "take"} /\ evidence' = evidence,
         pc' \notin InCycle
  PROVE  Earned'
<1> USE DEF FromApply, FromTest, FromPanel, FromTrain, FromFold, FromGuard, FromCommit
<1>1. outcomes \in Seq(Outcome) /\ Len(outcomes) \in Nat
  BY DEF Typed, TypeOK
<1>2. 0 \notin 1 .. Len(outcomes)
  OBVIOUS
<1>3. AcceptedIsEarned'
  BY <1>1, <1>2, AcceptedStays DEF Earned
<1>4. UnderWay'
  BY DEF UnderWay, InCycle
<1>5. Between'
  BY DEF Earned, Between
<1> QED
  BY <1>3, <1>4, <1>5 DEF Earned

\* The outcome that ends a cycle as accepted has the dossier of its commit.
LEMMA EndCycleEarned ==
  ASSUME Typed, Earned, EndCycle(it) \/ CleanupFails
  PROVE  Earned'
<1> USE DEF FromApply, FromTest, FromPanel, FromTrain, FromFold, FromGuard, FromCommit
<1>1. it \in Outcome /\ outcomes \in Seq(Outcome) /\ Len(outcomes) \in Nat
  BY DEF Typed, TypeOK
<1>2. PICK o \in {it, Failed(it)} : EndCycle(o)
  BY DEF CleanupFails
<1>3. o \in Outcome
  BY <1>1, <1>2, OutcomeUpdates
<1>4. PICK g \in Outcome : g = Guarded(o)
  BY <1>3, OutcomeUpdates
<1>5. g.status = "ACCEPTED" => it.status = "ACCEPTED" /\ g.base = it.base /\ g.commit = it.commit
  <2>1. g.status = "ACCEPTED" => o.status = "ACCEPTED" /\ g.base = o.base /\ g.commit = o.commit
    BY <1>3, <1>4 DEF Guarded, Failed, Outcome
  <2>2. Failed(it).status = "ERROR"
    BY <1>1 DEF Failed, Outcome
  <2> QED
    BY <1>2, <2>1, <2>2
<1>6. pc = "finally" /\ pc' = "take" /\ outcomes' = Append(outcomes, g) /\ evidence' = evidence
  BY <1>2, <1>4 DEF EndCycle
<1>7. /\ Len(outcomes') = Cycle /\ DOMAIN outcomes' = 1 .. Cycle /\ DOMAIN outcomes = 1 .. Len(outcomes)
      /\ \A i \in 1 .. Len(outcomes) : outcomes'[i] = outcomes[i]
      /\ outcomes'[Cycle] = g /\ Cycle = Len(outcomes) + 1
  BY <1>1, <1>6 DEF Cycle
<1>8. Between' /\ UnderWay'
  BY <1>6, <1>7 DEF Earned, UnderWay, Between, InCycle
<1>9. ASSUME NEW i \in 1 .. Cycle, outcomes'[i].status = "ACCEPTED"
      PROVE  Dossier(i, <<outcomes'[i].base, outcomes'[i].commit>>, FoundIn(i)) \subseteq evidence
  <2>1. CASE i \in 1 .. Len(outcomes)
    <3>1. i \in Accepted /\ outcomes'[i] = outcomes[i]
      BY <1>7, <1>9, <2>1 DEF Accepted
    <3> QED
      BY <3>1 DEF Earned, AcceptedIsEarned, Dossier
  <2>2. CASE i = Cycle
    BY <1>5, <1>6, <1>7, <1>9, <2>2 DEF Earned, UnderWay, InCycle
  <2>3. i \in 1 .. Len(outcomes) \/ i = Cycle
    <3>1. PICK n \in Nat : n = Len(outcomes) /\ Cycle = n + 1
      BY <1>1, <1>7
    <3> QED
      BY <3>1
  <2> QED
    BY <2>1, <2>2, <2>3
<1>10. AcceptedIsEarned'
  <2> SUFFICES ASSUME NEW i \in Accepted'
               PROVE  Dossier(i, <<outcomes'[i].base, outcomes'[i].commit>>, FoundIn(i)') \subseteq evidence'
    BY DEF AcceptedIsEarned, Dossier, Tests, Panel, Paired, Qa
  <2>1. i \in 1 .. Cycle /\ outcomes'[i].status = "ACCEPTED"
    BY <1>7 DEF Accepted
  <2>2. FoundIn(i)' = FoundIn(i)
    BY <1>6 DEF FoundIn
  <2> QED
    BY <1>6, <1>9, <2>1, <2>2
<1> QED
  BY <1>8, <1>10 DEF Earned

\* A new cycle starts with no finding, and no evidence is about it.
LEMMA NextCycleEarned ==
  ASSUME Typed, Earned, NextCycle
  PROVE  Earned'
<1> USE DEF FromApply, FromTest, FromPanel, FromTrain, FromFold, FromGuard, FromCommit
<1>1. outcomes \in Seq(Outcome) /\ Len(outcomes) \in Nat
  BY DEF Typed, TypeOK
<1>2. /\ pc = "cycle" /\ pc' = "isolate" /\ it'.found = {} /\ evidence' = evidence /\ outcomes' = outcomes
  BY DEF NextCycle, Step, NewCycle
<1>3. \A e \in evidence : e.cycle \in 0 .. Len(outcomes)
  BY <1>2 DEF Earned, Between
<1>4. /\ \A e \in evidence : e.cycle \in 0 .. Cycle /\ e.cycle # Cycle
      /\ Cycle' = Cycle
  BY <1>1, <1>2, <1>3 DEF Cycle
<1>5. FoundIn(Cycle)' = {}
  BY <1>2, <1>4 DEF FoundIn
<1>6. UnderWay' /\ Between'
  BY <1>2, <1>4, <1>5 DEF UnderWay, Between, InCycle
<1>7. AcceptedIsEarned'
  BY <1>1, <1>2, AcceptedStays DEF Earned
<1> QED
  BY <1>6, <1>7 DEF Earned

\* The dossiers are kept by every step.
LEMMA NextEarned == Typed /\ Held /\ Earned /\ [Next]_vars => Earned'
<1> SUFFICES ASSUME Typed, Held, Earned, [Next]_vars PROVE Earned'
  OBVIOUS
<1>1. CASE TrySteps
  BY <1>1, MovesEarned, PanelEarned, ShowsEarned DEF TrySteps
<1>2. CASE ExceptSteps
  BY <1>2, ExceptEarned
<1>3. CASE RootSteps
  <2>1. pc' \notin InCycle \cup {"cycle", "take"}
    BY <1>3, RootHeld DEF InCycle
  <2>2. UNCHANGED outcomes
    BY <1>3, RootTyped
  <2>3. evidence' = evidence \/ \E e : e.cycle = 0 /\ evidence' = evidence \cup {e}
    <3>1. CASE RootPanel
      <4>1. evidence' = evidence \/ \E f : evidence' = evidence \cup {Panel(0, Cumulative, f)}
        BY <3>1 DEF RootPanel
      <4> QED
        BY <4>1, EvidenceFields
    <3>2. CASE RootScore
      <4>1. evidence' = evidence \/ evidence' = evidence \cup {Paired(0, <<original, Chosen.candidate>>)}
        BY <3>2 DEF RootScore
      <4> QED
        BY <4>1, EvidenceFields
    <3>3. CASE RootQa
      <4>1. evidence' = evidence \/ \E f : evidence' = evidence \cup {Qa(0, Cumulative, f)}
        BY <3>3 DEF RootQa
      <4> QED
        BY <4>1, EvidenceFields
    <3>4. CASE Adjudicate \/ HideRootFold \/ RootOverrun \/ RootFails
      BY <3>4 DEF Adjudicate, HideRootFold, RootOverrun, RootFails, RootEndsAs
    <3> QED
      BY <1>3, <3>1, <3>2, <3>3, <3>4 DEF RootSteps
  <2>4. evidence \subseteq evidence' /\ \A e \in evidence' \ evidence : e.cycle = 0
    BY <2>3
  <2> QED
    BY <2>1, <2>2, <2>4, OutsideEarned
<1>4. CASE EndSteps \/ StartFails \/ RecoveryFails \/ CyclesEnd
  <2>1. /\ UNCHANGED <<outcomes, evidence>> /\ pc' \in {"ended", "emergency", "adjudicate"}
    BY <1>4 DEF EndSteps, Conclude, Decide, QuiesceOverrun, QuiesceFails, Emergency, Step,
                StartFails, RecoveryFails, CyclesEnd
  <2> QED
    BY <2>1, OutsideEarned DEF InCycle
<1>5. CASE TakeOutcome
  <2>1. UNCHANGED <<outcomes, evidence>> /\ pc = "take" /\ pc' \in {"adjudicate", "cycle"}
    BY <1>5 DEF TakeOutcome
  <2> QED
    BY <2>1, OutsideEarned DEF InCycle
<1>6. CASE EndCycle(it) \/ CleanupFails
  BY <1>6, EndCycleEarned
<1>7. CASE NextCycle
  BY <1>7, NextCycleEarned
<1>8. CASE Environment \/ UNCHANGED vars
  <2>1. UNCHANGED <<pc, it, outcomes, evidence>>
    BY <1>8 DEF Environment, vars
  <2> QED
    BY <2>1 DEF Earned, UnderWay, Between, AcceptedIsEarned, Accepted, FoundIn, Cycle
<1> QED
  BY <1>1, <1>2, <1>3, <1>4, <1>5, <1>6, <1>7, <1>8, NextSplits

\* Every commit that execute_cycle makes was tested, reviewed without findings, scored and passed
\* by final QA as the very diff that is committed, with a disposition for every finding that any
\* panel of its cycle raised: for every number of cycles, remediations, specialists and failures.
THEOREM CommitsAreEarned == Spec => []AcceptedIsEarned
<1>1. Init => Typed /\ Held /\ Earned
  <2>1. Init => Earned
    BY DEF Init, Earned, UnderWay, Between, AcceptedIsEarned, Accepted, InCycle,
           FromApply, FromTest, FromPanel, FromTrain, FromFold, FromGuard, FromCommit
  <2>2. Init => Held
    BY DEF Init, Held
  <2> QED
    BY <2>1, <2>2, InitTyped
<1>2. (Typed /\ Held /\ Earned) /\ [Next]_vars => (Typed /\ Held /\ Earned)'
  BY NextTyped, NextHeld, NextEarned
<1>3. Typed /\ Held /\ Earned => AcceptedIsEarned
  BY DEF Earned
<1> QED
  BY <1>1, <1>2, <1>3, PTL DEF Spec

--------------------------------------------------------------------------------
(* The decisions: a run asks for human review only when all of it was earned, and   *)
(* every decision it comes to is one that the operator's verification accepts.      *)

\* Where the root adjudication is under way.
RootAt == {"rootPanel", "rootFold", "rootScore", "rootQa"}

\* What one outcome claims: a baseline trained from its base, and, when it is accepted, the
\* checkpoint of the very tree it commits.
Sound(o) ==
  /\ o.baseline \in {None, o.base} /\ o.execution \in Executions
  /\ o.status = "ACCEPTED" => o.execution = "SUCCESS" /\ o.candidate = o.commit

Sounds ==
  /\ \A i \in DOMAIN outcomes : Sound(outcomes[i])
  /\ pc \in InCycle => it.baseline \in {None, it.base}
  /\ pc = "finally" => Sound(it)

\* The outcome that the loop has not looked at yet.
Pending(i) == pc = "take" /\ i = Len(outcomes)

\* Each cycle starts from the commit of the last accepted one; only success lets the run go on.
Chained ==
  /\ original \in {None, 0}
  /\ pc \in InCycle => it.base = base
  /\ pc = "take" => outcomes[Len(outcomes)].base = base
  /\ IF selected = 0 THEN base = 0 ELSE selected \in Accepted /\ base = outcomes[selected].commit
  /\ \A i \in Accepted : Pending(i) \/ i <= selected
  /\ \A i \in Accepted : outcomes[i].base = 0 \/ \E j \in Accepted : j < i /\ outcomes[j].commit = outcomes[i].base
  /\ fatal = None => \A i \in DOMAIN outcomes : Pending(i) \/ outcomes[i].execution = "SUCCESS"

\* What the root has agreed to, scored and passed is in the evidence, about the cumulative diff.
Shown ==
  /\ root.agreed => root.found = {}
  /\ root.agreed \/ "specialist_consensus" \in root.gates => Panel(0, Cumulative, {}) \in evidence
  /\ root.evaluated \/ "evaluation" \in root.gates => Paired(0, Cumulative) \in evidence
  /\ "final_qa" \in root.gates => Qa(0, Cumulative, root.found) \in evidence
  /\ root.qa = "PASS" /\ "final_qa" \notin root.gates => fatal = "FAILED"
  /\ root.gates # {"authorization"} => selected # 0

Rooted ==
  /\ pc \in InCycle \cup {"cycle", "take", "adjudicate"} => root = NewRoot
  /\ pc \in RootAt =>
       selected # 0 /\ original # None /\ root.qa = "NOT_RUN" /\ "final_qa" \notin root.gates
  /\ pc \in RootAt \cup {"quiesce"} => Shown

\* What no manifest covers is left by a cycle that is not accepted, when time was short or an
\* operation raised, and by the run itself when it has no fold to disclose or has failed.
Covered ==
  /\ unsealed \subseteq 0 .. Cycle
  /\ Cycle \in unsealed => pc \in {"emergency", "ended"} \/ (pc = "finally" /\ it.status # "ACCEPTED")
  /\ unsealed \cap Accepted = {}
  /\ pc \in {"score"} \cup FromGuard => disclosed
  /\ pc = "finally" /\ it.status = "ACCEPTED" => disclosed
  /\ Accepted # {} => disclosed
  /\ 0 \in unsealed => pc \in {"quiesce", "emergency", "ended"}
  /\ 0 \in unsealed /\ pc = "quiesce" => fatal # None \/ (selected = 0 /\ ~disclosed)
  /\ unsealed \ {0} # {} => late \/ faults > 0

\* A decision is the end of the run.
Decided == decision = None \/ (pc = "ended" /\ ReadyIsEarned /\ DecisionVerifies)

Whole == Typed /\ Held /\ Earned /\ Sounds /\ Chained /\ Rooted /\ Covered /\ Decided

-------------------------------------------------------------------------------
(* One outcome.                                                                *)

\* Inside execute_cycle the base stays; a cycle ends accepted only by its commit.
LEMMA TryKeepsBase ==
  ASSUME Typed, TrySteps
  PROVE  /\ it'.base = it.base /\ it'.baseline \in {it.baseline, it.base}
         /\ pc' = "finally" => Commit \/ (it'.status # "ACCEPTED" /\ it'.execution \in Executions)
<1>1. it \in Outcome
  BY DEF Typed, TypeOK
<1>2. ASSUME NEW x \in {"REJECTED", "ERROR"}, NEW e \in Executions, EndsAs(x, e)
      PROVE  /\ it'.base = it.base /\ it'.baseline = it.baseline
             /\ it'.status # "ACCEPTED" /\ it'.execution \in Executions
  BY <1>1, <1>2 DEF EndsAs, Outcome
<1>3. CASE Isolate \/ TrainBaseline \/ Apply \/ Validate \/ TrainCandidate \/ HideFold
  BY <1>1, <1>3 DEF Isolate, TrainBaseline, Apply, Validate, TrainCandidate, HideFold, Step, Pass, Outcome
<1>4. CASE Build \/ Guard
  <2>1. \/ it' = it /\ pc' = "baseline"
        \/ Pass(Guards) /\ pc' = "qa"
        \/ EndsAs("ERROR", "FAILED")
    BY <1>4 DEF Build, Guard
  <2>2. CASE Pass(Guards) /\ pc' = "qa"
    BY <1>1, <2>2 DEF Pass, Outcome
  <2> QED
    BY <1>2, <2>1, <2>2 DEF Executions
<1>5. CASE Specialists
  <2>1. PICK reviews \in Reviews :
          \/ it' = [it EXCEPT !.agreed = FALSE, !.status = "ERROR", !.execution = "FAILED"]
          \/ it' = Read(AllPass(reviews), Findings(reviews)) /\ pc' = "remediate"
          \/ it' = Consented(Read(AllPass(reviews), Findings(reviews))) /\ pc' = "train"
    BY <1>5 DEF Specialists, Read, Consented
  <2>2. \A a, f : Read(a, f).base = it.base /\ Read(a, f).baseline = it.baseline
    BY <1>1 DEF Read, Outcome
  <2>3. \A a, f : Consented(Read(a, f)).base = it.base /\ Consented(Read(a, f)).baseline = it.baseline
    BY <1>1 DEF Read, Consented, Outcome
  <2>4. CASE it' = [it EXCEPT !.agreed = FALSE, !.status = "ERROR", !.execution = "FAILED"]
    BY <1>1, <2>4 DEF Outcome, Executions
  <2> QED
    BY <2>1, <2>2, <2>3, <2>4
<1>6. CASE Remediate
  <2>1. EndsAs("REJECTED", "SUCCESS") \/ (pc' = "apply" /\ it' = [it EXCEPT !.attempt = it.attempt + 1])
    BY <1>6 DEF Remediate, Rejected
  <2> QED
    BY <1>1, <1>2, <2>1 DEF Executions, Outcome
<1>7. CASE Score \/ FinalQa
  <2>1. \/ EndsAs("REJECTED", "SUCCESS")
        \/ Pass({"evaluation"}) /\ pc' = "guard"
        \/ Pass({"final_qa"}) /\ pc' = "commit"
    BY <1>7 DEF Score, FinalQa, Rejected
  <2>2. ASSUME NEW g, Pass(g)
        PROVE  it'.base = it.base /\ it'.baseline = it.baseline
    BY <1>1, <2>2 DEF Pass, Outcome
  <2> QED
    BY <1>2, <2>1, <2>2 DEF Executions
<1>8. CASE Commit
  BY <1>1, <1>8 DEF Commit, Outcome
<1> QED
  BY <1>3, <1>4, <1>5, <1>6, <1>7, <1>8 DEF TrySteps

\* What a guard of the checkout makes of an outcome claims no more than the outcome did.
LEMMA GuardedSound ==
  ASSUME NEW o \in Outcome, Sound(o)
  PROVE  /\ Sound(Failed(o)) /\ Failed(o).base = o.base
         /\ Sound(Guarded(o)) /\ Guarded(o).base = o.base
<1>1. Sound(Failed(o)) /\ Failed(o).base = o.base
  BY DEF Sound, Failed, Outcome, Executions
<1>2. CASE intact
  BY <1>1, <1>2 DEF Sound, Guarded, Outcome
<1>3. CASE ~intact
  BY <1>1, <1>3 DEF Sound, Guarded, Failed, Outcome, Executions
<1> QED
  BY <1>1, <1>2, <1>3

\* The outcome that the finally clause appends.
LEMMA EndCycleAppends ==
  ASSUME Typed, Sounds, EndCycle(it) \/ CleanupFails
  PROVE  \E g \in Outcome :
           /\ outcomes' = Append(outcomes, g) /\ Sound(g) /\ g.base = it.base
           /\ Len(outcomes') = Len(outcomes) + 1 /\ DOMAIN outcomes' = 1 .. Len(outcomes) + 1
           /\ \A i \in DOMAIN outcomes : outcomes'[i] = outcomes[i]
           /\ outcomes'[Len(outcomes) + 1] = g
<1>1. it \in Outcome /\ outcomes \in Seq(Outcome) /\ Len(outcomes) \in Nat
  BY DEF Typed, TypeOK
<1>2. PICK o \in {it, Failed(it)} : EndCycle(o)
  BY DEF CleanupFails
<1>3. o \in Outcome /\ Sound(o) /\ o.base = it.base
  <2>1. Sound(it)
    BY <1>2 DEF Sounds, EndCycle
  <2> QED
    BY <1>1, <2>1, GuardedSound, OutcomeUpdates
<1>4. PICK g \in Outcome : g = Guarded(o)
  BY <1>3, OutcomeUpdates
<1>5. Sound(g) /\ g.base = it.base
  BY <1>3, <1>4, GuardedSound
<1>6. outcomes' = Append(outcomes, g)
  BY <1>2, <1>4 DEF EndCycle
<1>7. /\ Len(Append(outcomes, g)) = Len(outcomes) + 1
      /\ DOMAIN Append(outcomes, g) = 1 .. Len(outcomes) + 1
      /\ \A i \in DOMAIN outcomes : Append(outcomes, g)[i] = outcomes[i]
      /\ Append(outcomes, g)[Len(outcomes) + 1] = g
  BY <1>1
<1> QED
  BY <1>5, <1>6, <1>7

\* Every outcome claims only what is so.
LEMMA NextSounds == Typed /\ Earned /\ Sounds /\ [Next]_vars => Sounds'
<1> SUFFICES ASSUME Typed, Earned, Sounds, [Next]_vars PROVE Sounds'
  OBVIOUS
<1>1. it \in Outcome /\ outcomes \in Seq(Outcome) /\ Len(outcomes) \in Nat
  BY DEF Typed, TypeOK
<1>2. CASE TrySteps
  <2>1. UNCHANGED outcomes /\ pc \in InCycle /\ pc' \in InCycle /\ it'.baseline \in {None, it'.base}
    BY <1>2, TryTyped, TryKeepsBase DEF Sounds
  <2>2. pc' = "finally" => Sound(it')
    <3>1. CASE Commit
      <4>1. pc = "commit" /\ it.candidate = it.tree
        BY <3>1 DEF Commit, Earned, UnderWay, FromFold, FromGuard, FromCommit
      <4>2. it'.status = "ACCEPTED" /\ it'.execution = "SUCCESS" /\ it'.candidate = it'.commit
        BY <1>1, <3>1, <4>1 DEF Commit, Outcome
      <4> QED
        BY <2>1, <4>2 DEF Sound, Executions
    <3>2. CASE it'.status # "ACCEPTED" /\ it'.execution \in Executions
      BY <2>1, <3>2 DEF Sound
    <3> QED
      BY <1>2, <3>1, <3>2, TryKeepsBase
  <2> QED
    BY <2>1, <2>2 DEF Sounds, Sound
<1>3. CASE ExceptSteps
  <2>1. PICK x \in {"REJECTED", "TIMEOUT", "ERROR"}, e \in Executions : EndsAs(x, e)
    BY <1>3 DEF ExceptSteps, Reject, Rejected, Overrun, CycleFails, Executions
  <2>2. /\ it'.base = it.base /\ it'.baseline = it.baseline
        /\ it'.status # "ACCEPTED" /\ it'.execution \in Executions
    BY <1>1, <2>1 DEF EndsAs, Outcome
  <2>3. UNCHANGED outcomes /\ pc \in InCycle
    BY <1>3, ExceptTyped
  <2> QED
    BY <2>2, <2>3 DEF Sounds, Sound
<1>4. CASE EndCycle(it) \/ CleanupFails
  <2>1. PICK g \in Outcome :
           /\ outcomes' = Append(outcomes, g) /\ Sound(g)
           /\ DOMAIN outcomes' = 1 .. Len(outcomes) + 1
           /\ \A i \in DOMAIN outcomes : outcomes'[i] = outcomes[i]
           /\ outcomes'[Len(outcomes) + 1] = g
    BY <1>4, EndCycleAppends
  <2>2. \A i \in DOMAIN outcomes' : Sound(outcomes'[i])
    <3> TAKE i \in DOMAIN outcomes'
    <3>1. i \in DOMAIN outcomes \/ i = Len(outcomes) + 1
      BY <1>1, <2>1
    <3> QED
      BY <2>1, <3>1 DEF Sounds
  <2>3. pc' = "take"
    BY <1>4, EndCycleTyped
  <2> QED
    BY <2>2, <2>3 DEF Sounds, Sound, InCycle
<1>5. CASE NextCycle
  <2>1. UNCHANGED outcomes /\ pc' = "isolate" /\ it'.baseline = None
    BY <1>5 DEF NextCycle, Step, NewCycle
  <2> QED
    BY <2>1 DEF Sounds, Sound
<1>6. CASE RootSteps \/ EndSteps \/ StartFails \/ RecoveryFails \/ TakeOutcome \/ CyclesEnd
  <2>1. UNCHANGED outcomes /\ pc' \notin InCycle
    <3>1. CASE StartFails \/ RecoveryFails \/ CyclesEnd
      BY <3>1 DEF StartFails, RecoveryFails, CyclesEnd, Step, InCycle
    <3> QED
      BY <1>6, <3>1, RootTyped, ConcludesTyped, TakeTyped DEF InCycle
  <2> QED
    BY <2>1 DEF Sounds, Sound, InCycle
<1>7. CASE Environment \/ UNCHANGED vars
  <2>1. UNCHANGED <<pc, it, outcomes>>
    BY <1>7 DEF Environment, vars
  <2> QED
    BY <2>1 DEF Sounds, Sound
<1> QED
  BY <1>2, <1>3, <1>4, <1>5, <1>6, <1>7, NextSplits

-------------------------------------------------------------------------------
(* The chain of the cycles.                                                    *)

\* The chain holds while outcomes and selection stay, unless the run forgot a failure.
LEMMA ChainKept ==
  ASSUME Chained, UNCHANGED <<outcomes, base, selected, original>>, pc # "take", pc' # "take",
         pc' \in InCycle => it'.base = base,
         fatal' = None => fatal = None
  PROVE  Chained'
BY DEF Chained, Accepted, Pending

\* fatal_execution is never reset.
LEMMA FatalStays ==
  ASSUME Typed, RootSteps \/ EndSteps \/ CyclesEnd, fatal' = None
  PROVE  fatal = None
<1>1. CASE RootSteps
  <2>1. fatal' = fatal \/ fatal' \in {"FAILED", "TIMEOUT"}
    BY <1>1 DEF RootSteps, Adjudicate, RootPanel, HideRootFold, Step, RootScore, RootQa, RootOverrun,
                RootFails, RootEndsAs, decided
  <2> QED
    BY <2>1, NoneAssumption
<1>2. CASE EndSteps
  <2>1. fatal' = fatal \/ fatal' = "FAILED"
    BY <1>2 DEF EndSteps, Conclude, QuiesceOverrun, QuiesceFails, Emergency, Step, decided
  <2> QED
    BY <2>1, NoneAssumption
<1>3. CASE CyclesEnd
  BY <1>3, NoneAssumption DEF CyclesEnd
<1> QED
  BY <1>1, <1>2, <1>3

\* A cycle that ends is the next in the chain: it started from the last accepted commit.
LEMMA EndCycleChained ==
  ASSUME Typed, Sounds, Chained, EndCycle(it) \/ CleanupFails
  PROVE  Chained'
<1>1. PICK n \in Nat : n = Len(outcomes)
  BY DEF Typed, TypeOK
<1>2. PICK g \in Outcome :
        /\ g.base = it.base
        /\ Len(outcomes') = n + 1 /\ DOMAIN outcomes' = 1 .. n + 1
        /\ \A i \in DOMAIN outcomes : outcomes'[i] = outcomes[i]
        /\ outcomes'[n + 1] = g
  BY <1>1, EndCycleAppends
<1>3. pc = "finally" /\ pc' = "take" /\ UNCHANGED <<base, selected, original, fatal>>
  BY EndCycleTyped DEF decided
<1>4. it.base = base /\ DOMAIN outcomes = 1 .. n
  BY <1>1, <1>3 DEF Chained, InCycle, Typed, TypeOK
<1>5. Accepted \subseteq Accepted' /\ Accepted' \subseteq Accepted \cup {n + 1} /\ n + 1 \notin Accepted
  BY <1>2, <1>4 DEF Accepted
<1>6. \A i \in Accepted : i \in 1 .. n /\ outcomes'[i] = outcomes[i]
  BY <1>2, <1>4 DEF Accepted
<1>7. IF selected = 0 THEN base = 0 ELSE selected \in Accepted' /\ base = outcomes'[selected].commit
  BY <1>5, <1>6 DEF Chained
<1>8. \A i \in Accepted : i <= selected
  BY <1>3 DEF Chained, Pending
<1>9. \A i \in Accepted' : outcomes'[i].base = 0
                            \/ \E j \in Accepted' : j < i /\ outcomes'[j].commit = outcomes'[i].base
  <2> TAKE i \in Accepted'
  <2>1. CASE i \in Accepted
    BY <1>5, <1>6, <2>1 DEF Chained
  <2>2. CASE i = n + 1
    <3>1. outcomes'[i].base = base
      BY <1>2, <1>4, <2>2
    <3>2. CASE selected = 0
      BY <3>1, <3>2 DEF Chained
    <3>3. CASE selected # 0
      <4>1. selected \in Accepted
        BY <3>3 DEF Chained
      <4> QED
        BY <1>5, <1>6, <1>7, <2>2, <3>1, <3>3, <4>1
    <3> QED
      BY <3>2, <3>3
  <2> QED
    BY <1>5, <2>1, <2>2
<1>10. fatal = None => \A i \in 1 .. n : outcomes'[i].execution = "SUCCESS"
  BY <1>2, <1>3, <1>4 DEF Chained, Pending
<1>11. \A i \in 1 .. n + 1 : i = n + 1 \/ i \in 1 .. n
  OBVIOUS
<1> QED
  BY <1>2, <1>3, <1>4, <1>5, <1>7, <1>8, <1>9, <1>10, <1>11 DEF Chained, Pending, InCycle

\* The loop takes the outcome over into base, selection and end of the run.
LEMMA TakeChained ==
  ASSUME Typed, Sounds, Chained, TakeOutcome
  PROVE  Chained'
<1>1. PICK n \in Nat : n = Len(outcomes)
  BY DEF Typed, TypeOK
<1>2. n \in DOMAIN outcomes /\ DOMAIN outcomes = 1 .. n /\ selected \in 0 .. n
  BY <1>1 DEF TakeOutcome, Typed, TypeOK, Bounded
<1>3. PICK o : o = outcomes[n]
  OBVIOUS
<1>4. Sound(o) /\ o.base = base
  BY <1>1, <1>2, <1>3 DEF TakeOutcome, Sounds, Chained
<1>5. /\ original' = IF original = None /\ o.base = 0 THEN o.baseline ELSE original
      /\ selected' = IF o.status = "ACCEPTED" THEN n ELSE selected
      /\ base' = IF o.status = "ACCEPTED" THEN o.commit ELSE base
      /\ fatal' = IF o.status # "ACCEPTED" /\ o.execution \in {"FAILED", "TIMEOUT"} THEN o.execution ELSE fatal
      /\ pc = "take" /\ pc' \in {"adjudicate", "cycle"} /\ UNCHANGED outcomes
  BY <1>1, <1>3 DEF TakeOutcome, Selectable
<1>6. original' \in {None, 0}
  BY <1>4, <1>5 DEF Chained, Sound
<1>7. Accepted' = Accepted /\ (n \in Accepted <=> o.status = "ACCEPTED")
  BY <1>2, <1>3, <1>5 DEF Accepted
<1>8. IF selected' = 0 THEN base' = 0 ELSE selected' \in Accepted' /\ base' = outcomes'[selected'].commit
  BY <1>2, <1>3, <1>5, <1>7 DEF Chained
<1>9. \A i \in Accepted : i <= selected'
  <2> TAKE i \in Accepted
  <2>1. i \in 1 .. n
    BY <1>2 DEF Accepted
  <2>2. CASE i = n
    BY <1>5, <1>7, <2>2
  <2>3. CASE i # n
    BY <1>1, <1>2, <1>5, <2>1, <2>3 DEF Chained, Pending
  <2> QED
    BY <2>2, <2>3
<1>10. fatal' = None => \A i \in DOMAIN outcomes : outcomes[i].execution = "SUCCESS"
  <2> SUFFICES ASSUME fatal' = None, NEW i \in DOMAIN outcomes PROVE outcomes[i].execution = "SUCCESS"
    OBVIOUS
  <2>1. fatal = None /\ (o.status = "ACCEPTED" \/ o.execution \notin {"FAILED", "TIMEOUT"})
    BY <1>5, NoneAssumption
  <2>2. o.execution = "SUCCESS"
    BY <1>4, <2>1 DEF Sound, Executions
  <2> QED
    BY <1>1, <1>3, <2>1, <2>2 DEF Chained, Pending
<1> QED
  BY <1>5, <1>6, <1>7, <1>8, <1>9, <1>10 DEF Chained, Pending, InCycle

\* The chain is kept by every step.
LEMMA NextChained == Typed /\ Sounds /\ Chained /\ [Next]_vars => Chained'
<1> SUFFICES ASSUME Typed, Sounds, Chained, [Next]_vars PROVE Chained'
  OBVIOUS
<1>1. CASE TrySteps \/ ExceptSteps
  <2>1. it \in Outcome
    BY DEF Typed, TypeOK
  <2>2. it'.base = it.base
    <3>1. CASE ExceptSteps
      <4>1. PICK x, e : EndsAs(x, e)
        BY <3>1 DEF ExceptSteps, Reject, Rejected, Overrun, CycleFails
      <4> QED
        BY <2>1, <4>1 DEF EndsAs, Outcome
    <3> QED
      BY <1>1, <3>1, TryKeepsBase
  <2>3. pc \in InCycle /\ pc' \in InCycle /\ UNCHANGED <<outcomes, decided>>
    BY <1>1, TryTyped, ExceptTyped DEF InCycle
  <2>4. it.base = base
    BY <2>3 DEF Chained
  <2> QED
    BY <2>2, <2>3, <2>4, ChainKept DEF decided, InCycle
<1>2. CASE RootSteps \/ EndSteps \/ CyclesEnd \/ StartFails \/ RecoveryFails
  <2>1. pc # "take" /\ pc' \notin InCycle \cup {"take"} /\ UNCHANGED <<outcomes, base, selected, original>>
    <3>1. CASE CyclesEnd \/ StartFails \/ RecoveryFails
      BY <3>1 DEF CyclesEnd, StartFails, RecoveryFails, Step, InCycle, decided
    <3>2. CASE RootSteps
      BY <3>2, RootTyped DEF RootSteps, Adjudicate, RootPanel, HideRootFold, RootScore, RootQa,
                             RootOverrun, RootFails, Step
    <3>3. CASE EndSteps
      BY <3>3, ConcludesTyped DEF EndSteps, Conclude, QuiesceOverrun, QuiesceFails, Emergency, Step
    <3> QED
      BY <1>2, <3>1, <3>2, <3>3
  <2>2. fatal' = None => fatal = None
    BY <1>2, FatalStays DEF StartFails, RecoveryFails, decided
  <2> QED
    BY <2>1, <2>2, ChainKept
<1>3. CASE EndCycle(it) \/ CleanupFails
  BY <1>3, EndCycleChained
<1>4. CASE TakeOutcome
  BY <1>4, TakeChained
<1>5. CASE NextCycle
  <2>1. it'.base = base /\ pc = "cycle" /\ pc' = "isolate" /\ UNCHANGED <<outcomes, decided>>
    BY <1>5 DEF NextCycle, NewCycle, Step
  <2> QED
    BY <2>1, ChainKept DEF decided
<1>6. CASE Environment \/ UNCHANGED vars
  <2>1. UNCHANGED <<pc, it, outcomes, base, selected, original, fatal>>
    BY <1>6 DEF Environment, vars, decided
  <2> QED
    BY <2>1 DEF Chained, Accepted, Pending
<1> QED
  BY <1>1, <1>2, <1>3, <1>4, <1>5, <1>6, NextSplits

-------------------------------------------------------------------------------
(* The root adjudication.                                                      *)

\* The checkpoint of the chosen cycle, and the baseline it is scored against, are those of
\* the cumulative diff.
LEMMA ChosenSound ==
  ASSUME Typed, Sounds, Chained, selected # 0
  PROVE  Chosen.candidate = Chosen.commit /\ Chosen.commit \in Trees
<1>1. selected \in DOMAIN outcomes /\ Chosen.status = "ACCEPTED"
  BY DEF Chained, Accepted, Chosen
<1> QED
  BY <1>1 DEF Sounds, Sound, Chosen, Typed, Bounded

\* The root begins with nothing to show.
LEMMA AdjudicateRooted ==
  ASSUME Typed, Rooted, Adjudicate
  PROVE  Rooted'
<1>1. root = NewRoot /\ pc = "adjudicate"
  BY DEF Adjudicate, Rooted
<1>2. UNCHANGED <<outcomes, selected, evidence, original>>
  BY DEF Adjudicate
<1>3. /\ root'.agreed = FALSE /\ root'.evaluated = FALSE /\ root'.qa = "NOT_RUN"
      /\ root'.gates = {"authorization"}
  BY <1>1 DEF Adjudicate, NewRoot
<1>4. Shown'
  BY <1>3 DEF Shown
<1>5. pc' = "quiesce" \/ (pc' = "rootPanel" /\ selected # 0 /\ original # None)
  BY DEF Adjudicate, Adjudicates
<1> QED
  BY <1>2, <1>3, <1>4, <1>5 DEF Rooted, RootAt, InCycle

\* A panel of the root agrees only without findings, and then about the cumulative diff.
LEMMA RootPanelRooted ==
  ASSUME Typed, Rooted, RootPanel
  PROVE  Rooted'
<1>1. /\ root \in Adjudication /\ pc = "rootPanel" /\ Shown
      /\ selected # 0 /\ original # None /\ root.qa = "NOT_RUN" /\ "final_qa" \notin root.gates
  BY DEF RootPanel, Typed, TypeOK, Rooted, RootAt
<1>2. UNCHANGED <<outcomes, selected, original>> /\ Cumulative' = Cumulative
  BY DEF RootPanel, Cumulative, Chosen
<1>10. \E reviews \in Reviews : \E a, f :
        /\ a = AllPass(reviews) /\ f = Findings(reviews)
        /\ \/ /\ ~Adjudicable(reviews) /\ evidence' = evidence /\ fatal' = "FAILED" /\ pc' = "quiesce"
              /\ root' = [[root EXCEPT !.agreed = a, !.found = f] EXCEPT !.blocked = TRUE]
           \/ /\ evidence' = evidence \cup {Panel(0, Cumulative, f)} /\ pc' = "rootFold" /\ fatal' = fatal
              /\ \/ a /\ root' = [[root EXCEPT !.agreed = a, !.found = f] EXCEPT
                                    !.gates = root.gates \cup {"specialist_consensus"}]
                 \/ ~a /\ root' = [[root EXCEPT !.agreed = a, !.found = f] EXCEPT !.blocked = TRUE]
  <2>1. \A a, f : [root EXCEPT !.agreed = a, !.found = f].gates = root.gates
    BY <1>1 DEF Adjudication
  <2> QED
    BY <2>1 DEF RootPanel
<1>3. PICK reviews, a, f :
        /\ reviews \in Reviews /\ a = AllPass(reviews) /\ f = Findings(reviews)
        /\ \/ /\ ~Adjudicable(reviews) /\ evidence' = evidence /\ fatal' = "FAILED" /\ pc' = "quiesce"
              /\ root' = [[root EXCEPT !.agreed = a, !.found = f] EXCEPT !.blocked = TRUE]
           \/ /\ evidence' = evidence \cup {Panel(0, Cumulative, f)} /\ pc' = "rootFold" /\ fatal' = fatal
              /\ \/ a /\ root' = [[root EXCEPT !.agreed = a, !.found = f] EXCEPT
                                    !.gates = root.gates \cup {"specialist_consensus"}]
                 \/ ~a /\ root' = [[root EXCEPT !.agreed = a, !.found = f] EXCEPT !.blocked = TRUE]
  BY <1>10, Zenon
<1>4. a => f = {} /\ Adjudicable(reviews)
  <2>1. AllPass(reviews) => Findings(reviews) = {} /\ Adjudicable(reviews)
    BY DEF AllPass, Findings, Adjudicable
  <2> QED
    BY <1>3, <2>1
<1>5. a \in BOOLEAN
  BY <1>3 DEF AllPass
<1>6. /\ root'.agreed = a /\ root'.found = f /\ root'.evaluated = root.evaluated /\ root'.qa = root.qa
      /\ root'.gates = root.gates \/ (a /\ root'.gates = root.gates \cup {"specialist_consensus"})
  BY <1>1, <1>3 DEF Adjudication
<1>7. evidence \subseteq evidence' /\ (a => Panel(0, Cumulative, {}) \in evidence')
  BY <1>3, <1>4, <1>5
<1>8. Shown'
  BY <1>1, <1>2, <1>4, <1>6, <1>7 DEF Shown, Panel, Paired, Qa
<1>9. pc' \in {"quiesce", "rootFold"} /\ "final_qa" \notin root'.gates
  BY <1>1, <1>3, <1>6
<1> QED
  BY <1>1, <1>2, <1>6, <1>8, <1>9 DEF Rooted, RootAt, InCycle

\* What the root scores is the first baseline of the run against the commit it has chosen.
LEMMA RootScoreRooted ==
  ASSUME Typed, Sounds, Chained, Rooted, RootScore
  PROVE  Rooted'
<1>1. /\ root \in Adjudication /\ pc = "rootScore" /\ pc' = "rootQa" /\ Shown
      /\ selected # 0 /\ original # None /\ root.qa = "NOT_RUN" /\ "final_qa" \notin root.gates
  BY DEF RootScore, Typed, TypeOK, Rooted, RootAt
<1>2. UNCHANGED <<outcomes, selected, original, fatal>> /\ Cumulative' = Cumulative
  BY DEF RootScore, Cumulative, Chosen
<1>3. <<original, Chosen.candidate>> = Cumulative
  BY <1>1, ChosenSound DEF Chained, Cumulative
<1>4. PICK g : g = ScoredGates
  OBVIOUS
<1>5. {"evaluation", "specialist_consensus", "final_qa"} \cap g = {}
  BY <1>4 DEF ScoredGates, CycleTests, Guards
<1>6. \/ /\ evidence' = evidence \cup {Paired(0, Cumulative)}
         /\ root' = [root EXCEPT !.evaluated = TRUE, !.gates = root.gates \cup {"evaluation"} \cup g]
      \/ evidence' = evidence /\ root' = [root EXCEPT !.blocked = TRUE, !.gates = root.gates \cup g]
  BY <1>3, <1>4 DEF RootScore
<1>7. /\ root'.agreed = root.agreed /\ root'.found = root.found /\ root'.qa = root.qa
      /\ \/ /\ root'.evaluated = root.evaluated /\ root'.gates = root.gates \cup g
            /\ evidence' = evidence
         \/ /\ root'.gates = root.gates \cup {"evaluation"} \cup g
            /\ evidence' = evidence \cup {Paired(0, Cumulative)}
  BY <1>1, <1>6 DEF Adjudication
<1>8. Shown'
  BY <1>1, <1>2, <1>5, <1>7 DEF Shown, Panel, Paired, Qa
<1> QED
  BY <1>1, <1>2, <1>5, <1>7, <1>8 DEF Rooted, RootAt, InCycle

\* Final QA of the root is retained with its dispositions, or refused.
LEMMA RootQaRooted ==
  ASSUME Typed, Rooted, RootQa
  PROVE  Rooted'
<1>1. root \in Adjudication /\ pc = "rootQa" /\ pc' = "quiesce" /\ Shown /\ selected # 0
  BY DEF RootQa, Typed, TypeOK, Rooted, RootAt
<1>2. UNCHANGED <<outcomes, selected, original>> /\ Cumulative' = Cumulative
  BY DEF RootQa, Cumulative, Chosen
<1>3. PICK verdict \in {"PASS", "BLOCK"}, disposed \in SUBSET Roles :
        \/ /\ fatal' = "FAILED" /\ evidence' = evidence
           /\ root' = [[root EXCEPT !.qa = verdict] EXCEPT !.blocked = TRUE]
        \/ /\ disposed = root.found /\ evidence' = evidence \cup {Qa(0, Cumulative, disposed)}
           /\ \/ root' = [[root EXCEPT !.qa = verdict] EXCEPT !.gates = root.gates \cup {"final_qa"}]
              \/ verdict # "PASS" /\ root' = [[root EXCEPT !.qa = verdict] EXCEPT !.blocked = TRUE]
  <2>1. \A v : [root EXCEPT !.qa = v].gates = root.gates
    BY <1>1 DEF Adjudication
  <2> QED
    BY <2>1 DEF RootQa, VerifiedQa
<1>4. /\ root'.agreed = root.agreed /\ root'.found = root.found /\ root'.evaluated = root.evaluated
      /\ \/ root'.gates = root.gates /\ (root'.qa # "PASS" \/ fatal' = "FAILED")
         \/ root'.gates = root.gates \cup {"final_qa"} /\ Qa(0, Cumulative, root.found) \in evidence'
      /\ evidence \subseteq evidence'
  BY <1>1, <1>3 DEF Adjudication
<1>5. Shown'
  BY <1>1, <1>2, <1>4 DEF Shown, Panel, Paired, Qa
<1> QED
  BY <1>1, <1>5 DEF Rooted, RootAt, InCycle

\* A step of the root that fails, or hides the fold, leaves what it has shown.
LEMMA RootRestRooted ==
  ASSUME Typed, Rooted, HideRootFold \/ RootOverrun \/ RootFails
  PROVE  Rooted'
<1>1. /\ root \in Adjudication /\ Shown
      /\ selected # 0 /\ original # None /\ root.qa = "NOT_RUN" /\ "final_qa" \notin root.gates
  BY DEF HideRootFold, RootOverrun, RootFails, Step, Typed, TypeOK, Rooted, RootAt
<1>2. /\ UNCHANGED <<outcomes, selected, original, evidence>> /\ Cumulative' = Cumulative
      /\ root' \in {root, [root EXCEPT !.blocked = TRUE]} /\ pc' \in {"rootScore", "quiesce"}
  BY DEF HideRootFold, RootOverrun, RootFails, RootEndsAs, Step, decided, Cumulative, Chosen
<1>3. /\ root'.agreed = root.agreed /\ root'.found = root.found /\ root'.evaluated = root.evaluated
      /\ root'.qa = root.qa /\ root'.gates = root.gates
  BY <1>1, <1>2 DEF Adjudication
<1>4. Shown'
  BY <1>1, <1>2, <1>3 DEF Shown, Panel, Paired, Qa
<1> QED
  BY <1>1, <1>2, <1>3, <1>4 DEF Rooted, RootAt, InCycle

\* What the root claims, it can show, at every step.
LEMMA NextRooted == Typed /\ Sounds /\ Chained /\ Rooted /\ [Next]_vars => Rooted'
<1> SUFFICES ASSUME Typed, Sounds, Chained, Rooted, [Next]_vars PROVE Rooted'
  OBVIOUS
<1>1. CASE TrySteps \/ ExceptSteps
  <2>1. pc \in InCycle /\ pc' \in InCycle /\ root' = root
    BY <1>1, TryTyped, ExceptTyped DEF InCycle, decided
  <2> QED
    BY <2>1 DEF Rooted, RootAt, InCycle, NewRoot
<1>2. CASE \/ EndCycle(it) \/ CleanupFails \/ TakeOutcome \/ NextCycle \/ CyclesEnd
           \/ StartFails \/ RecoveryFails
  <2>1. /\ pc \in {"isolate", "finally", "take", "cycle"} /\ root' = root
        /\ pc' \in {"take", "adjudicate", "cycle", "isolate", "emergency"}
    BY <1>2 DEF EndCycle, CleanupFails, TakeOutcome, NextCycle, CyclesEnd, StartFails, RecoveryFails,
                Step, decided
  <2> QED
    BY <2>1 DEF Rooted, RootAt, InCycle, NewRoot
<1>3. CASE RootSteps
  BY <1>3, AdjudicateRooted, RootPanelRooted, RootScoreRooted, RootQaRooted, RootRestRooted DEF RootSteps
<1>4. CASE EndSteps
  <2>1. pc' \in {"ended", "emergency"}
    BY <1>4 DEF EndSteps, Conclude, Decide, QuiesceOverrun, QuiesceFails, Emergency, Step
  <2> QED
    BY <2>1 DEF Rooted, RootAt, InCycle
<1>5. CASE Environment \/ UNCHANGED vars
  <2>1. UNCHANGED <<pc, outcomes, selected, original, fatal, root, evidence>>
    BY <1>5 DEF Environment, vars, decided
  <2> QED
    BY <2>1 DEF Rooted, Shown, NewRoot, Cumulative, Chosen, Panel, Paired, Qa
<1> QED
  BY <1>1, <1>2, <1>3, <1>4, <1>5, NextSplits

-------------------------------------------------------------------------------
(* What is left unsealed.                                                      *)

\* Time that is short stays short, failures are not forgotten, and folds stay disclosed.
LEMMA NothingForgotten ==
  ASSUME Typed, [Next]_vars
  PROVE  (late => late') /\ (faults > 0 => faults' > 0) /\ (disclosed => disclosed')
<1>1. faults \in Nat /\ disclosed \in BOOLEAN
  BY DEF Typed, TypeOK
<1>2. \/ UNCHANGED world /\ (faults' = faults \/ faults' = faults + 1)
      \/ Environment \/ UNCHANGED vars
  BY NextSplits
<1>3. (late => late') /\ (faults' = faults \/ faults' = faults + 1)
  BY <1>2 DEF Environment, world, vars
<1>4. disclosed => disclosed'
  BY <1>1, DirectoriesMove DEF Abandon, directories
<1> QED
  BY <1>1, <1>3, <1>4

\* Of a cycle that is not broken off nothing is left, and one that comes to its score has a
\* fold to disclose.
LEMMA TryCovered ==
  ASSUME Typed, Covered, [Next]_vars, TrySteps
  PROVE  Covered'
<1> USE DEF FromGuard, FromCommit
<1>1. /\ UNCHANGED outcomes /\ Accepted' = Accepted /\ Cycle' = Cycle
      /\ pc \in InCycle /\ pc' \in InCycle
  BY TryTyped DEF Accepted, Cycle
<1>2. pc # "finally" /\ unsealed' = unsealed /\ (HideFold => disclosed')
  BY DEF TrySteps, Isolate, Build, TrainBaseline, Apply, Validate, Specialists, Remediate,
         TrainCandidate, HideFold, Score, Guard, FinalQa, Commit, Step, directories
<1>3. pc' \in {"score"} \cup FromGuard => HideFold \/ pc \in {"score"} \cup FromGuard
  <2>1. CASE HideFold \/ Score \/ Guard \/ FinalQa \/ Commit
    BY <2>1 DEF Score, Guard, FinalQa, Commit
  <2>2. CASE Isolate \/ TrainBaseline \/ Apply \/ Validate \/ TrainCandidate
    BY <2>2 DEF Isolate, TrainBaseline, Apply, Validate, TrainCandidate, Step
  <2>3. CASE Build \/ Specialists \/ Remediate
    BY <2>3 DEF Build, Specialists, Remediate, Rejected, EndsAs
  <2> QED
    BY <2>1, <2>2, <2>3 DEF TrySteps
<1>4. pc' = "finally" /\ it'.status = "ACCEPTED" => pc = "commit"
  BY TryKeepsBase DEF Commit
<1>5. Cycle \notin unsealed /\ 0 \notin unsealed
  BY <1>1, <1>2 DEF Covered, InCycle
<1> QED
  BY <1>1, <1>2, <1>3, <1>4, <1>5, NothingForgotten DEF Covered

\* What is left of one that is broken off is not an accepted cycle's.
LEMMA BrokenCovered ==
  ASSUME Typed, Covered, [Next]_vars, ExceptSteps \/ StartFails \/ RecoveryFails
  PROVE  Covered'
<1> USE DEF FromGuard, FromCommit
<1>1. Len(outcomes) \in Nat /\ faults \in Nat /\ DOMAIN outcomes = 1 .. Len(outcomes)
  BY DEF Typed, TypeOK
<1>2. /\ UNCHANGED outcomes /\ pc \in InCycle
      /\ (pc' = "emergency" \/ (pc' = "finally" /\ it'.status # "ACCEPTED"))
  BY ExceptTyped DEF StartFails, RecoveryFails, Step, InCycle
<1>3. Accepted' = Accepted /\ Cycle' = Cycle
  BY <1>2 DEF Accepted, Cycle
<1>4. Cycle \in Nat \ {0} /\ Cycle \notin Accepted
  BY <1>1 DEF Cycle, Accepted
<1>5. 0 \notin unsealed
  BY <1>2 DEF Covered, InCycle
<1>6. ~RootSteps /\ ~HideFold
  BY <1>2 DEF RootSteps, Adjudicate, RootPanel, HideRootFold, RootScore, RootQa, RootOverrun, RootFails,
              HideFold, Step, InCycle
<1>7. CASE UNCHANGED directories
  BY <1>2, <1>3, <1>5, <1>7, NothingForgotten DEF Covered, directories
<1>8. CASE Abandon(Cycle) /\ (late \/ faults' = faults + 1)
  <2>1. unsealed' = unsealed \cup {Cycle} /\ disclosed' = disclosed
    BY <1>8 DEF Abandon
  <2>2. late' \/ faults' > 0
    BY <1>1, <1>8, NothingForgotten
  <2> QED
    BY <1>2, <1>3, <1>4, <1>5, <2>1, <2>2 DEF Covered
<1> QED
  BY <1>6, <1>7, <1>8, DirectoriesMove

\* The outcome that is appended left nothing if it is accepted.
LEMMA EndCycleCovered ==
  ASSUME Typed, Sounds, Covered, [Next]_vars, EndCycle(it) \/ CleanupFails
  PROVE  Covered'
<1> USE DEF FromGuard, FromCommit
<1>1. PICK n \in Nat : n = Len(outcomes)
  BY DEF Typed, TypeOK
<1>2. it \in Outcome /\ DOMAIN outcomes = 1 .. n /\ Cycle = n + 1
  BY <1>1 DEF Typed, TypeOK, Cycle
<1>3. PICK o \in {it, Failed(it)} : EndCycle(o)
  BY DEF CleanupFails
<1>4. PICK g \in Outcome : g = Guarded(o) /\ (g.status = "ACCEPTED" => it.status = "ACCEPTED")
  <2>1. o \in Outcome
    BY <1>2, <1>3, OutcomeUpdates
  <2>2. Guarded(o) \in Outcome
    BY <2>1, OutcomeUpdates
  <2>3. Guarded(o).status = "ACCEPTED" => o.status = "ACCEPTED"
    BY <2>1 DEF Guarded, Failed, Outcome
  <2>4. Failed(it).status = "ERROR"
    BY <1>2 DEF Failed, Outcome
  <2> QED
    BY <1>3, <2>2, <2>3, <2>4
<1>5. /\ pc = "finally" /\ pc' = "take" /\ outcomes' = Append(outcomes, g)
      /\ unsealed' = unsealed /\ disclosed' = disclosed
  BY <1>3, <1>4 DEF EndCycle, directories
<1>6. /\ Len(outcomes') = n + 1 /\ DOMAIN outcomes' = 1 .. n + 1 /\ outcomes'[n + 1] = g
      /\ \A i \in 1 .. n : outcomes'[i] = outcomes[i]
  BY <1>1, <1>2, <1>4, <1>5 DEF Typed, TypeOK
<1>7. \A i \in 1 .. n + 1 : i \in 1 .. n \/ i = n + 1
  OBVIOUS
<1>8. \A i \in Accepted' : i \in Accepted \/ (i = Cycle /\ it.status = "ACCEPTED")
  BY <1>2, <1>4, <1>6, <1>7 DEF Accepted
<1>9. Cycle' = n + 2
  BY <1>6 DEF Cycle
<1>10. 0 \notin unsealed /\ unsealed \subseteq 0 .. n + 1 /\ (Cycle \in unsealed => it.status # "ACCEPTED")
  BY <1>2, <1>5 DEF Covered
<1>11. unsealed' \cap Accepted' = {} /\ (Accepted' # {} => disclosed')
  BY <1>5, <1>8, <1>10 DEF Covered
<1>12. unsealed' \subseteq 0 .. n + 2 /\ n + 2 \notin unsealed'
  BY <1>5, <1>10
<1> QED
  BY <1>5, <1>9, <1>10, <1>11, <1>12, NothingForgotten DEF Covered

\* The disclosure is left empty only by a run that has nothing selected.
LEMMA RootCovered ==
  ASSUME Typed, Chained, Rooted, Covered, [Next]_vars, RootSteps
  PROVE  Covered'
<1> USE DEF FromGuard, FromCommit
<1>1. /\ UNCHANGED <<outcomes, selected>> /\ Accepted' = Accepted /\ Cycle' = Cycle
      /\ pc' \notin InCycle \cup {"take"}
  BY RootTyped DEF Accepted, Cycle
<1>2. pc \in RootAt \cup {"adjudicate"}
  BY DEF RootSteps, Adjudicate, RootPanel, HideRootFold, RootScore, RootQa, RootOverrun, RootFails,
         Step, RootAt
<1>3. 0 \notin unsealed /\ Cycle \notin unsealed /\ 0 \notin Accepted /\ Cycle # 0
  BY <1>2 DEF Covered, RootAt, Accepted, Cycle, Typed, TypeOK
<1>4. selected # 0 => disclosed
  BY DEF Chained, Covered
<1>5. CASE Adjudicate
  <2>1. CASE disclosed
    BY <1>1, <1>3, <1>5, <2>1, NothingForgotten DEF Adjudicate, Covered, InCycle
  <2>2. CASE ~disclosed
    <3>1. /\ unsealed' = unsealed \cup {0} /\ disclosed' = disclosed /\ selected = 0
          /\ pc' = "quiesce"
      BY <1>4, <1>5, <2>2 DEF Adjudicate, Adjudicates
    <3>2. unsealed' \ {0} = unsealed \ {0} /\ 0 \in 0 .. Cycle
      BY <3>1 DEF Typed, TypeOK, Cycle
    <3> QED
      BY <1>1, <1>3, <2>2, <3>1, <3>2, NothingForgotten DEF Covered
  <2> QED
    BY <2>1, <2>2
<1>6. CASE RootPanel \/ HideRootFold \/ RootScore \/ RootQa
  <2>1. unsealed' = unsealed /\ disclosed' = disclosed
    BY <1>6 DEF RootPanel, HideRootFold, RootScore, RootQa, directories
  <2> QED
    BY <1>1, <1>3, <2>1, NothingForgotten DEF Covered, InCycle
<1>7. CASE RootOverrun \/ RootFails
  <2>1. /\ pc' = "quiesce" /\ fatal' \in {"FAILED", "TIMEOUT"} /\ disclosed' = disclosed
        /\ unsealed' \in {unsealed, unsealed \cup {0}}
    BY <1>7 DEF RootOverrun, RootFails, RootEndsAs, MayAbandon, Abandon, directories
  <2>2. unsealed' \ {0} = unsealed \ {0} /\ 0 \in 0 .. Cycle
    BY <2>1 DEF Typed, TypeOK, Cycle
  <2> QED
    BY <1>1, <1>3, <2>1, <2>2, NothingForgotten, NoneAssumption DEF Covered
<1> QED
  BY <1>5, <1>6, <1>7 DEF RootSteps

\* At every step, what is left unsealed is accounted for.
LEMMA NextCovered == Typed /\ Sounds /\ Chained /\ Rooted /\ Covered /\ [Next]_vars => Covered'
<1> SUFFICES ASSUME Typed, Sounds, Chained, Rooted, Covered, [Next]_vars PROVE Covered'
  OBVIOUS
<1> USE DEF FromGuard, FromCommit
<1>1. CASE EndSteps
  <2>1. /\ UNCHANGED outcomes /\ unsealed' = unsealed /\ disclosed' = disclosed
        /\ pc' \in {"ended", "emergency"}
    BY <1>1 DEF EndSteps, Conclude, Decide, QuiesceOverrun, QuiesceFails, Emergency, Step, directories
  <2>2. Accepted' = Accepted /\ Cycle' = Cycle
    BY <2>1 DEF Accepted, Cycle
  <2> QED
    BY <2>1, <2>2, NothingForgotten DEF Covered
<1>2. CASE TakeOutcome \/ NextCycle \/ CyclesEnd
  <2>1. /\ UNCHANGED outcomes /\ unsealed' = unsealed /\ disclosed' = disclosed
        /\ pc \in {"take", "cycle"} /\ pc' \in {"cycle", "adjudicate", "isolate"}
    BY <1>2 DEF TakeOutcome, NextCycle, CyclesEnd, Step, directories
  <2>2. Accepted' = Accepted /\ Cycle' = Cycle
    BY <2>1 DEF Accepted, Cycle
  <2> QED
    BY <2>1, <2>2, NothingForgotten DEF Covered
<1>3. CASE Environment \/ UNCHANGED vars
  <2>1. UNCHANGED <<pc, it, outcomes, selected, fatal, unsealed, disclosed>>
    BY <1>3 DEF Environment, vars, decided, directories
  <2> QED
    BY <2>1, NothingForgotten DEF Covered, Accepted, Cycle
<1> QED
  BY <1>1, <1>2, <1>3, TryCovered, BrokenCovered, EndCycleCovered, RootCovered, NextSplits

-------------------------------------------------------------------------------
(* The decision.                                                               *)

\* A decision that asks for human review is earned, and every decision that Conclude comes to
\* verifies.
LEMMA ConcludeDecides ==
  ASSUME Typed, Earned, Sounds, Chained, Rooted, Covered, [Next]_vars,
         NEW cleaned \in BOOLEAN, Conclude(cleaned)
  PROVE  ReadyIsEarned' /\ DecisionVerifies'
<1>1. /\ root \in Adjudication /\ fatal \in {None, "FAILED", "TIMEOUT"} /\ pc = "quiesce" /\ Shown
      /\ root.agreed \in BOOLEAN /\ root.gates \subseteq CoreGates /\ root.found \subseteq Roles
      /\ root.qa \in {"NOT_RUN", "PASS", "BLOCK"} /\ intact \in BOOLEAN
  BY DEF Conclude, Typed, TypeOK, Rooted, RootAt, Adjudication
<1> DEFINE g == IF intact THEN root.gates \cup Guards ELSE root.gates \ Guards
           b == root.blocked \/ (~cleaned \/ ~intact)
           t == TenOutOfTen(root.agreed, g, root.evaluated, root.qa)
           ends == IF ~cleaned \/ ~intact THEN "FAILED" ELSE fatal
           ready == Ready(ends, g, t, b)
           d == [execution |-> IF ends = None THEN "SUCCESS" ELSE ends,
                 review |-> IF ready THEN "PASS"
                            ELSE IF ends # None \/ selected = 0 THEN "BLOCK" ELSE "CHANGES_REQUIRED",
                 promotion |-> IF ready THEN "HUMAN_REVIEW_PENDING"
                               ELSE IF selected # 0 THEN "REJECTED" ELSE "NOT_ELIGIBLE",
                 commit |-> IF selected # 0 THEN Chosen.commit ELSE None,
                 gates |-> g, passed |-> Reviewed(root), ten |-> t,
                 blocked |-> b, modified |-> ~intact]
<1>3. decision' = d /\ UNCHANGED <<outcomes, selected, evidence>>
  BY DEF Conclude, Decide
<1>4. /\ d.execution = (IF ends = None THEN "SUCCESS" ELSE ends)
      /\ d.promotion = "HUMAN_REVIEW_PENDING" => ready
      /\ ready => d.review = "PASS"
      /\ selected # 0 => d.commit = Chosen.commit
      /\ selected = 0 /\ ~ready => d.promotion = "NOT_ELIGIBLE"
      /\ d.gates = g /\ d.passed = Reviewed(root)
      /\ t => d.ten
      /\ ~b => ~d.blocked
      /\ d.modified <=> ~intact
  <2> HIDE DEF g, b, t, ends, ready
  <2> QED
    BY Zenon
<1>5. ends \in {None, "FAILED", "TIMEOUT"} /\ (ends = None => fatal = None)
  BY <1>1, NoneAssumption
<1>7. ready => /\ ends = None /\ intact /\ selected # 0 /\ ~b /\ g = CoreGates /\ t
               /\ root.agreed /\ root.evaluated /\ root.qa = "PASS" /\ "final_qa" \in root.gates
  BY DEF Ready, TenOutOfTen, CoreGates, Guards
<1>a. (intact => g = root.gates \cup Guards) /\ (fatal = "FAILED" => ends = "FAILED")
  OBVIOUS
<1> HIDE DEF g, b, t, ends, ready, d
<1>6. selected # 0 =>
        /\ selected \in Accepted /\ d.commit = Chosen.commit /\ d.commit \in Trees
        /\ Cumulative = <<0, d.commit>>
        /\ Tests(selected, <<outcomes[selected].base, d.commit>>) \in evidence
  BY <1>4, ChosenSound DEF Chained, Cumulative, Earned, AcceptedIsEarned, Chosen
<1>8. None \notin Trees
  BY NoneAssumption, CyclesAssumption DEF Trees
<1>9. ReadyIsEarned'
  <2> SUFFICES ASSUME ready
               PROVE  /\ {Panel(0, <<0, d.commit>>, {}), Paired(0, <<0, d.commit>>), Qa(0, <<0, d.commit>>, {})} \subseteq evidence
                      /\ \E i \in Accepted : outcomes[i].commit = d.commit /\ \A j \in Accepted : j <= i
                      /\ \A i \in Accepted : outcomes[i].base = 0
                                             \/ \E j \in Accepted : j < i /\ outcomes[j].commit = outcomes[i].base
                      /\ \A i \in DOMAIN outcomes : outcomes[i].execution = "SUCCESS"
    BY <1>3, <1>4 DEF ReadyIsEarned, Accepted, Panel, Paired, Qa
  <2>1. {Panel(0, <<0, d.commit>>, {}), Paired(0, <<0, d.commit>>), Qa(0, <<0, d.commit>>, {})} \subseteq evidence
    BY <1>1, <1>6, <1>7 DEF Shown
  <2>2. \A j \in Accepted : j <= selected
    BY <1>1 DEF Chained, Pending
  <2>3. fatal = None
    BY <1>5, <1>7
  <2> QED
    BY <1>1, <1>6, <1>7, <2>1, <2>2, <2>3 DEF Chained, Pending, Chosen
<1>10. Valid(d)
  <2>1. d.execution \in {"SUCCESS", "FAILED", "TIMEOUT"}
    BY <1>4, <1>5
  <2>2. ready => d.passed = Roles \cup {"final_qa"} /\ d.commit # None
    BY <1>4, <1>6, <1>7, <1>8 DEF Reviewed
  <2>3. ready => d.execution = "SUCCESS" /\ ~d.blocked /\ ~d.modified /\ d.gates = CoreGates /\ d.ten
    BY <1>4, <1>7
  <2> QED
    BY <1>4, <2>1, <2>2, <2>3 DEF Valid
<1>b. Valid(decision)'
  BY <1>3, <1>10 DEF Valid
<1>c. AccountedFor(decision)'
  <2>1. /\ UNCHANGED <<outcomes, unsealed, disclosed>> /\ Accepted' = Accepted /\ ~late
    BY DEF Conclude, Decide, directories, Accepted
  <2>2. d.execution = "SUCCESS" => fatal = None
    BY <1>4, <1>5
  <2>3. fatal = None /\ 0 \in unsealed => selected = 0 /\ ~disclosed
    BY <1>1 DEF Covered
  <2>4. selected = 0 => d.promotion = "NOT_ELIGIBLE"
    BY <1>4, <1>7
  <2>5. unsealed \ {0} # {} => faults' > 0
    BY <2>1, NothingForgotten DEF Covered
  <2> QED
    BY <1>3, <2>1, <2>2, <2>3, <2>4, <2>5 DEF AccountedFor, Covered
<1>11. CASE intact
  <2>1. g = root.gates \cup Guards
    BY <1>a, <1>11
  <2>2. g \cap {"specialist_consensus", "evaluation", "focused_tests", "full_tests", "final_qa"}
          \subseteq root.gates \ {"authorization"}
    BY <2>1 DEF Guards
  <2>3. /\ "specialist_consensus" \in g => Panel(0, <<0, d.commit>>, {}) \in evidence
        /\ "evaluation" \in g => Paired(0, <<0, d.commit>>) \in evidence
        /\ {"focused_tests", "full_tests"} \cap g # {} =>
             Tests(selected, <<outcomes[selected].base, d.commit>>) \in evidence
        /\ "final_qa" \in g => Qa(0, <<0, d.commit>>, root.found) \in evidence
    BY <1>1, <1>6, <2>2 DEF Shown
  <2>4. CASE "final_qa" \in g \/ "final_qa" \notin d.passed
    <3>1. "final_qa" \in d.passed => \E disposed \in SUBSET Roles : Qa(0, <<0, d.commit>>, disposed) \in evidence
      BY <1>1, <2>3, <2>4
    <3>2. Retained(d)
      BY <1>4, <2>3, <3>1 DEF Retained
    <3>3. Retained(decision)'
      BY <1>3, <3>2 DEF Retained, Panel, Paired, Tests, Qa
    <3>4. DecisionVerifies'
      BY <1>b, <1>c, <3>3 DEF DecisionVerifies
    <3> QED
      BY <1>9, <3>4
  <2>5. CASE "final_qa" \in d.passed /\ "final_qa" \notin g
    <3>1. root.qa = "PASS" /\ "final_qa" \notin root.gates
      BY <1>4, <2>1, <2>5, RolesAssumption DEF Reviewed
    <3>2. d.execution = "FAILED"
      BY <1>1, <1>4, <1>a, <3>1, NoneAssumption DEF Shown
    <3>3. QaRefused(decision)'
      BY <1>3, <1>4, <2>5, <3>2 DEF QaRefused
    <3>4. DecisionVerifies'
      BY <1>b, <1>c, <3>3 DEF DecisionVerifies
    <3> QED
      BY <1>9, <3>4
  <2> QED
    BY <2>4, <2>5
<1>12. CASE ~intact
  <2>1. decision'.modified
    BY <1>3, <1>4, <1>12
  <2>2. DecisionVerifies'
    BY <1>b, <1>c, <2>1 DEF DecisionVerifies
  <2> QED
    BY <1>9, <2>2
<1> QED
  BY <1>11, <1>12

\* What emergency_finalize writes asks for nothing and claims nothing.
LEMMA EmergencyDecides ==
  ASSUME Covered, Emergency
  PROVE  ReadyIsEarned' /\ DecisionVerifies'
<1>1. /\ decision'.execution = "FAILED" /\ decision'.promotion = "NOT_ELIGIBLE" /\ decision'.passed = {}
      /\ decision'.gates = {"authorization"} \cup (IF intact THEN Guards ELSE {})
  BY DEF Emergency, Decide
<1>2. decision'.gates \cap {"specialist_consensus", "evaluation", "focused_tests", "full_tests"} = {}
  BY <1>1 DEF Guards
<1>3. Retained(decision)'
  BY <1>1, <1>2 DEF Retained
<1>4. Valid(decision)'
  BY <1>1 DEF Valid
<1>5. ReadyIsEarned'
  BY <1>1 DEF ReadyIsEarned
<1>6. AccountedFor(decision)'
  <2>1. UNCHANGED <<outcomes, unsealed>>
    BY DEF Emergency, Decide, directories
  <2> QED
    BY <1>1, <2>1 DEF AccountedFor, Covered, Accepted
<1> QED
  BY <1>3, <1>4, <1>5, <1>6 DEF DecisionVerifies

\* Nothing follows a decision.
LEMMA EndedStays ==
  ASSUME pc = "ended", [Next]_vars
  PROVE  UNCHANGED vars
<1>1. ~TrySteps /\ ~ExceptSteps
  BY DEF TrySteps, Isolate, Build, TrainBaseline, Apply, Validate, Specialists, Remediate, TrainCandidate,
         HideFold, Score, Guard, FinalQa, Commit, Step, ExceptSteps, Reject, Overrun, CycleFails
<1>2. ~RootSteps /\ ~EndSteps
  BY DEF RootSteps, Adjudicate, RootPanel, HideRootFold, RootScore, RootQa, RootOverrun, RootFails, Step,
         EndSteps, Conclude, QuiesceOverrun, QuiesceFails, Emergency
<1>3. /\ ~EndCycle(it) /\ ~CleanupFails /\ ~StartFails /\ ~RecoveryFails
      /\ ~TakeOutcome /\ ~NextCycle /\ ~CyclesEnd /\ ~Environment
  BY DEF EndCycle, CleanupFails, StartFails, RecoveryFails, TakeOutcome, NextCycle, CyclesEnd, Environment, Step
<1> QED
  BY <1>1, <1>2, <1>3, NextSplits

\* Every step keeps the decision, or comes to one that verifies.
LEMMA NextDecided ==
  ASSUME Typed, Earned, Sounds, Chained, Rooted, Covered, Decided, [Next]_vars
  PROVE  Decided'
<1>1. CASE pc = "ended" \/ UNCHANGED vars
  <2>1. UNCHANGED vars
    BY <1>1, EndedStays
  <2>2. UNCHANGED <<pc, outcomes, decision, evidence, selected, unsealed, disclosed, faults>>
    BY <2>1 DEF vars, decided, directories
  <2>3. ReadyIsEarned => ReadyIsEarned'
    BY <2>2 DEF ReadyIsEarned, Accepted, Panel, Paired, Qa
  <2>4. Valid(decision) => Valid(decision)'
    BY <2>2 DEF Valid
  <2>5. Retained(decision) => Retained(decision)'
    BY <2>2 DEF Retained, Panel, Paired, Tests, Qa
  <2>6. QaRefused(decision) => QaRefused(decision)'
    BY <2>2 DEF QaRefused
  <2>8. (Implied => Implied') /\ (AccountedFor(decision) => AccountedFor(decision)')
    BY <2>2 DEF Implied, AccountedFor, Accepted
  <2>7. DecisionVerifies => DecisionVerifies'
    BY <2>2, <2>4, <2>5, <2>6, <2>8 DEF DecisionVerifies
  <2> QED
    BY <2>2, <2>3, <2>7 DEF Decided
<1>2. CASE pc # "ended" /\ ~UNCHANGED vars
  <2>1. decision = None
    BY <1>2 DEF Decided
  <2>2. CASE Conclude(TRUE) \/ Conclude(FALSE)
    <3>1. pc' = "ended"
      BY <2>2 DEF Conclude, Decide
    <3> QED
      BY <2>2, <3>1, ConcludeDecides DEF Decided
  <2>3. CASE Emergency
    BY <2>3, EmergencyDecides DEF Decided, Emergency, Decide
  <2>4. ASSUME ~(Conclude(TRUE) \/ Conclude(FALSE) \/ Emergency)
        PROVE  decision' = decision
    <3>1. ASSUME QuiesceOverrun \/ QuiesceFails \/ StartFails \/ RecoveryFails
                 \/ NextCycle \/ CyclesEnd \/ Environment
          PROVE  decision' = decision
      BY <3>1 DEF QuiesceOverrun, QuiesceFails, StartFails, RecoveryFails, NextCycle, CyclesEnd,
                  Environment, decided
    <3>2. TrySteps \/ ExceptSteps => decision' = decision
      BY TryTyped, ExceptTyped DEF decided
    <3>3. RootSteps \/ TakeOutcome => decision' = decision
      BY RootTyped, TakeTyped
    <3>4. EndCycle(it) \/ CleanupFails => decision' = decision
      BY EndCycleTyped DEF decided
    <3> QED
      BY <1>2, <2>4, <3>1, <3>2, <3>3, <3>4, NextSplits DEF EndSteps
  <2> QED
    BY <2>1, <2>2, <2>3, <2>4 DEF Decided
<1> QED
  BY <1>1, <1>2

\* The layers hold together in every reachable state.
LEMMA WholeHolds == Spec => []Whole
<1>1. Init => Whole
  <2> SUFFICES ASSUME Init PROVE Whole
    OBVIOUS
  <2>1. Earned
    BY DEF Init, Earned, UnderWay, Between, AcceptedIsEarned, Accepted, InCycle,
           FromApply, FromTest, FromPanel, FromTrain, FromFold, FromGuard, FromCommit
  <2>2. outcomes = <<>> /\ DOMAIN outcomes = {} /\ pc = "cycle"
    BY DEF Init
  <2>3. Sounds
    BY <2>2 DEF Sounds, InCycle
  <2>4. Chained
    BY <2>2 DEF Init, Chained, Accepted, InCycle
  <2>5. Rooted /\ Decided
    BY DEF Init, Rooted, RootAt, Decided
  <2>6. Covered
    BY <2>2 DEF Init, Covered, Accepted, FromGuard, FromCommit
  <2> QED
    BY <2>1, <2>3, <2>4, <2>5, <2>6, InitTyped DEF Whole, Init, Held
<1>2. Whole /\ [Next]_vars => Whole'
  BY NextTyped, NextHeld, NextEarned, NextSounds, NextChained, NextRooted, NextCovered, NextDecided
  DEF Whole
<1> QED
  BY <1>1, <1>2, PTL DEF Spec

\* A run that asks for human review has, for the whole change from its own base to the commit
\* it names, a panel without findings, a pairing with the first baseline and final QA; it
\* names the last accepted cycle, each accepted cycle starts from the run's base or from the
\* commit of an earlier accepted one, and no cycle failed: for every number of cycles,
\* remediations, specialists and failures.
THEOREM ReadyDecisionsAreEarned == Spec => []ReadyIsEarned
<1>1. Whole => ReadyIsEarned
  BY DEF Whole, Decided, ReadyIsEarned
<1> QED
  BY <1>1, WholeHolds, PTL

\* Whatever fails, overruns or is refused on the way, the decision that a run comes to is one
\* that validate_operator_decision accepts, and the artifacts it cites are retained, but where
\* the checkout changed or the answer of the root's final QA was refused.  A directory that
\* no manifest covers, for which verify_record refuses the run, is never an accepted cycle's;
\* when the execution is SUCCESS, it is the disclosure of a run of which no cycle came to the
\* hidden fold, or it is in a run in which an operation raised.
THEOREM DecisionsVerify == Spec => []DecisionVerifies
<1>1. Whole => DecisionVerifies
  BY DEF Whole, Decided, DecisionVerifies
<1> QED
  BY <1>1, WholeHolds, PTL
================================================================================
