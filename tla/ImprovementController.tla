------------------------- MODULE ImprovementController -------------------------
(***************************************************************************)
(* CodexImprovementController_v2.py: one controller process after another   *)
(* under the controller lock.  A process recovers what its predecessors     *)
(* left (recover_persisted_candidate_containers, recover_persisted_acl_leases,*)
(* the hazard gate), runs the candidate cycles, seals and publishes the run, *)
(* and finalizes it by emergency_finalize when anything raised on the way.  *)
(*                                                                          *)
(* A process may die between any two steps; the disk and the containers     *)
(* stay.  An operation may raise: in moderation, MaxFaults per behaviour.   *)
(* What a candidate is worth (roles, validations, scores, rubric) is only   *)
(* whether a cycle goes on, and whether the run has a fatal error.          *)
(***************************************************************************)
EXTENDS CandidateIsolation, Sequences, SequencesExt

CONSTANTS MaxCommands,   \* container commands of a cycle, and of the adjudication
          MaxFaults,     \* operations that raise
          MaxCrashes     \* processes that die

ASSUME BoundsAssumption == {MaxCommands, MaxFaults, MaxCrashes} \subseteq Nat

VARIABLES
  me,          \* the process
  run,         \* the latest run allocated
  journal,     \* per run: state in the last row of transitions.jsonl
  shown,       \* per run: status in state.json
  intact,      \* per run: production_guard.json says pass
  sealed,      \* per run: status in evidence_manifest.json, None without one
  refused,     \* sealed runs whose directory or decision verify_record refuses
  ledger,      \* run_id of each row of audit_ledger.jsonl
  latest,      \* run_id in latest.json, 0 without one
  stranded,    \* history: runs whose latest.json could not be rolled back
  hazard,      \* status in acl_recovery_latest.json
  boxHazard,   \* status in container_recovery_latest.json
  faults, crashes

record == <<journal, shown, intact, sealed, refused, ledger, latest, stranded>>
hazards == <<hazard, boxHazard>>
vars == <<iso, boxes, me, run, record, hazards, faults, crashes>>

Terminal == {"COMPLETE", "TIMEOUT", "COMPLETE_WITH_ERRORS"}
Fatal    == {"FAILED", "TIMEOUT"}
Modes    == {"startup", "body", "finally", "root", "emergency", "closing"}

\* The memory of the process: what it does next, in which caller's name, for which
\* cycle; the containers or leases it listed; whether the cycle holds its lease;
\* context.acl_leases; fatal_execution; lease_restore_error; the event to seal; the
\* commands it ran; the latest.json to roll back to.
Down == [pc |-> "down", mode |-> "startup", cycle |-> 0, todo |-> {}, held |-> FALSE,
         registry |-> {}, fatal |-> None, failed |-> FALSE, verdict |-> None, commands |-> 0,
         previous |-> 0]

At(pc) == me.pc = pc
In(modes) == me.mode \in modes
Go(pc) == [me EXCEPT !.pc = pc]
Call(mode, pc) == [me EXCEPT !.mode = mode, !.pc = pc]

Least(S) == CHOOSE x \in S : \A y \in S : x <= y

\* The lease an operation is about, and the runs whose containers it is about.
Target == IF In({"body", "finally"}) THEN me.cycle ELSE Least(me.todo)
Scope  == IF In({"startup"}) THEN Runs ELSE {run}

Init ==
  /\ IsolationInit
  /\ me = Down
  /\ run = 0
  /\ journal = [r \in Runs |-> None]
  /\ shown = [r \in Runs |-> None]
  /\ intact = [r \in Runs |-> TRUE]
  /\ sealed = [r \in Runs |-> None]
  /\ refused = {}
  /\ ledger = <<>>
  /\ latest = 0
  /\ stranded = {}
  /\ hazard = None
  /\ boxHazard = None
  /\ faults = 0
  /\ crashes = 0

\* Where an exception leads.  The body of a cycle ends in its finally clause, which
\* notes its own failures and goes on to its end; the rest of a run ends in
\* emergency_finalize; startup and the finalizer itself end the process.
Finally(kind) == [me EXCEPT !.mode = "finally", !.pc = "boxes", !.fatal = kind]
Raised(kind) ==
  CASE In({"body"})    -> Finally(kind)
    [] In({"finally"}) -> [me EXCEPT !.failed = TRUE, !.fatal = "FAILED", !.pc = "cycleEnd"]
    [] In({"root"})    -> Go("emergency")
    [] OTHER           -> Down

-----------------------------------------------------------------------------
\* run: a process has the controller lock, and recovers containers first.
StartProcess ==
  /\ At("down")
  /\ me' = Go("boxes")
  /\ UNCHANGED <<iso, boxes, run, record, hazards>>

ListBoxes ==
  /\ At("boxes")
  /\ me' = [me EXCEPT !.todo = Listed(Scope), !.pc = "unbox"]
  /\ UNCHANGED <<iso, boxes, run, record, hazards>>

RemoveListedBox ==
  /\ At("unbox")
  /\ \E r \in me.todo :
       /\ boxRecord[r] # None
       /\ RecoverBox(r)
       /\ me' = [me EXCEPT !.todo = @ \ {r}]
  /\ UNCHANGED <<iso, run, record, hazards>>

\* The second listing shows none.  Startup and the finalizer seal the event; a cycle
\* goes on to its lease, or to the root its lease was to have; the root adjudication
\* (root_fold_scores) has ended.
BoxesRecovered ==
  /\ At("unbox")
  /\ me.todo = {} /\ Listed(Scope) = {}
  /\ CloseRecords(Scope)
  /\ me' = Go(IF In({"root"}) THEN "quiesce"
              ELSE IF ~In({"finally"}) THEN "leases"
              ELSE IF me.held THEN "restore"
              ELSE IF root[me.cycle] THEN "unroot" ELSE "cycleEnd")
  /\ boxHazard' = IF In({"finally", "root"}) THEN boxHazard ELSE "QUIESCENT"
  /\ UNCHANGED <<iso, run, record, hazard>>

BoxesRaise ==
  /\ me' = IF In({"root"}) THEN [me EXCEPT !.fatal = "FAILED", !.pc = "quiesce"] ELSE Raised("FAILED")
  /\ boxHazard' = IF In({"finally", "root"}) THEN boxHazard ELSE "RECOVERY_REQUIRED"
  /\ UNCHANGED <<iso, boxes, run, record, hazard>>

\* A container without a record, or one that appeared since the first listing.
BoxesStuck ==
  /\ At("unbox")
  /\ \/ \E r \in me.todo : boxRecord[r] = None
     \/ me.todo = {} /\ Listed(Scope) # {}
  /\ BoxesRaise

BoxesFail == (At("boxes") \/ At("unbox")) /\ BoxesRaise

-----------------------------------------------------------------------------
\* recover_persisted_acl_leases, at startup and in the finalizer.

AfterLeases == Go(IF In({"startup"}) THEN "gate" ELSE "assert")

\* Defect: leases are looked for only when the last event asks for it.
FindLeasesIfAsked ==
  /\ At("leases")
  /\ me' = IF LeasePaths = {} \/ hazard # "RECOVERY_REQUIRED" THEN AfterLeases
           ELSE [me EXCEPT !.todo = LeasePaths, !.pc = "recover"]
  /\ UNCHANGED <<iso, boxes, run, record, hazards>>

\* Without a record nothing is recovered and no event is written.
FindLeases ==
  /\ At("leases")
  /\ me' = IF LeasePaths = {} THEN AfterLeases
           ELSE [me EXCEPT !.todo = LeasePaths, !.pc = "recover"]
  /\ UNCHANGED <<iso, boxes, run, record, hazards>>

SealEvent(verdict) == [me EXCEPT !.verdict = verdict, !.pc = "event"]

\* Defect: the recovered lease stays on the list.
LeaseDoneAgain == [me EXCEPT !.registry = @ \ {Target}, !.pc = "recover"]

LeaseDone == [me EXCEPT !.todo = @ \ {Target}, !.registry = @ \ {Target}, !.pc = "recover"]

RecoverLease ==
  /\ At("recover")
  /\ me' = IF me.todo = {} THEN Go("unlink")
           ELSE IF ~Loadable(Target) THEN SealEvent("RECOVERY_REQUIRED")
           ELSE IF root[Target] THEN Go("restore")
           ELSE LeaseDone
  /\ UNCHANGED <<iso, boxes, run, record, hazards>>

RecoverFails ==
  /\ At("recover")
  /\ me' = SealEvent("RECOVERY_REQUIRED")
  /\ UNCHANGED <<iso, boxes, run, record, hazards>>

\* seal_acl_recovery_event, and what its caller does then.
Event ==
  /\ At("event")
  /\ hazard' = me.verdict
  /\ me' = IF me.verdict = "RECOVERED" THEN AfterLeases ELSE Down
  /\ UNCHANGED <<iso, boxes, run, record, boxHazard>>

\* restore_candidate_acl_lease, for all its callers.
BeginRestore ==
  /\ At("restore")
  /\ WriteLease(Target, "RESTORING")
  /\ me' = Go("restoring")
  /\ UNCHANGED <<boxes, run, record, hazards>>

Restoring ==
  /\ At("restoring")
  /\ RestoreAcl(Target)
  /\ me' = Go("restored")
  /\ UNCHANGED <<boxes, run, record, hazards>>

EndRestore ==
  /\ At("restored")
  /\ WriteLease(Target, IF In({"finally"}) THEN "RESTORED" ELSE "RESTORED_RECOVERY")
  /\ me' = CASE In({"body"})    -> [Finally(me.fatal) EXCEPT !.registry = @ \ {Target}]
             [] In({"finally"}) -> [Go("unroot") EXCEPT !.registry = @ \ {Target}]
             [] OTHER           -> Go("unroot")
  /\ UNCHANGED <<boxes, run, record, hazards>>

RestoreFails ==
  /\ At("restore") \/ At("restoring") \/ At("restored")
  /\ IF At("restore") /\ ~In({"body"}) THEN UNCHANGED iso
     ELSE WriteLease(Target, "RECOVERY_REQUIRED")
  /\ me' = IF In({"body", "finally"}) THEN Raised("FAILED") ELSE SealEvent("RECOVERY_REQUIRED")
  /\ UNCHANGED <<boxes, run, record, hazards>>

Unroot ==
  /\ At("unroot")
  /\ RemoveRoot(Target)
  /\ me' = IF In({"finally"}) THEN Go("cycleEnd") ELSE LeaseDone
  /\ UNCHANGED <<boxes, run, record, hazards>>

UnrootFails ==
  /\ At("unroot")
  /\ me' = IF In({"finally"}) THEN Raised("FAILED") ELSE SealEvent("RECOVERY_REQUIRED")
  /\ UNCHANGED <<iso, boxes, run, record, hazards>>

-----------------------------------------------------------------------------
\* The removal of the workspace: after a recovery, at the end of a run, and in the
\* finalizer.

UnlinkOne ==
  /\ At("unlink")
  /\ Unlink(run)
  /\ UNCHANGED <<me, run, record, hazards>>

UnlinkDone ==
  /\ At("unlink")
  /\ Unlinked(run)
  /\ RemoveDirectories
  /\ me' = IF In({"startup", "emergency"}) THEN SealEvent("RECOVERED") ELSE Go("guard")
  /\ UNCHANGED <<boxes, run, record, hazards>>

\* A file that cannot be removed.  At the end of a run only RuntimeFailure is caught.
UnlinkFails ==
  /\ At("unlink")
  /\ me' \in CASE In({"root"})    -> {[Go("guard") EXCEPT !.fatal = "FAILED"], Go("emergency")}
               [] In({"closing"}) -> {Go("guard")}
               [] OTHER           -> {SealEvent("RECOVERY_REQUIRED")}
  /\ UNCHANGED <<iso, boxes, run, record, hazards>>

-----------------------------------------------------------------------------
\* _run_unfinalized: the start of a run, and its cycles.

\* An unresolved hazard blocks startup; recover_only ends here too.
Gate ==
  /\ At("gate")
  /\ \/ me' = Down
     \/ "RECOVERY_REQUIRED" \notin {hazard, boxHazard} /\ me' = Go("authorize")
  /\ UNCHANGED <<iso, boxes, run, record, hazards>>

\* The checkout or the authorization may be refused; then a run is allocated.
Refuse ==
  /\ At("authorize")
  /\ me' = Down
  /\ UNCHANGED <<iso, boxes, run, record, hazards>>

Authorize ==
  /\ At("authorize")
  /\ run + 1 \in Runs
  /\ run' = run + 1
  /\ NewWorkspace
  /\ journal' = [journal EXCEPT ![run + 1] = "RUNNING"]
  /\ shown' = [shown EXCEPT ![run + 1] = "RUNNING"]
  /\ me' = Call("root", "cycle")
  /\ UNCHANGED <<boxes, intact, sealed, refused, ledger, latest, stranded, hazards>>

\* The loop over the cycles; the deadline may have passed.
NextCycle ==
  /\ At("cycle")
  /\ me.cycle + 1 \in Cycles
  /\ me' = [me EXCEPT !.mode = "body", !.pc = "root", !.cycle = @ + 1, !.held = FALSE,
                      !.commands = 0]
  /\ UNCHANGED <<iso, boxes, run, record, hazards>>

CyclesEnd ==
  /\ At("cycle")
  /\ \/ me' = [me EXCEPT !.fatal = "TIMEOUT", !.pc = "quiesce"]
     \/ /\ me.cycle + 1 \notin Cycles
        /\ me' = [me EXCEPT !.commands = 0, !.pc = "work"]
  /\ UNCHANGED <<iso, boxes, run, record, hazards>>

\* execute_cycle: the lease root, then start_candidate_acl_lease.
LeaseRoot ==
  /\ At("root")
  /\ MakeRoot(me.cycle)
  /\ me' = Go("snapshot")
  /\ UNCHANGED <<boxes, run, record, hazards>>

Snapshot ==
  /\ At("snapshot")
  /\ WriteLease(me.cycle, "SNAPSHOT_FSYNCED")
  /\ me' = [me EXCEPT !.registry = @ \cup {me.cycle}, !.pc = "setup"]
  /\ UNCHANGED <<boxes, run, record, hazards>>

SnapshotFails ==
  /\ At("root") \/ At("snapshot")
  /\ me' \in {Finally(kind) : kind \in Fatal}
  /\ UNCHANGED <<iso, boxes, run, record, hazards>>

SetupMutates ==
  /\ At("setup")
  /\ \/ lease[me.cycle] = "SNAPSHOT_FSYNCED" /\ acl[me.cycle] = "original"
     \/ lease[me.cycle] = "APPLYING" /\ acl[me.cycle] = "materialized"
  /\ ChangeAcl(me.cycle)
  /\ UNCHANGED <<boxes, me, run, record, hazards>>

SetupAdvances ==
  LET next == NextLeaseState(lease[me.cycle], acl[me.cycle]) IN
  /\ At("setup")
  /\ next # None
  /\ WriteLease(me.cycle, next)
  /\ me' = IF next = "CANARY_PASS" THEN [me EXCEPT !.held = TRUE, !.pc = "work"] ELSE me
  /\ UNCHANGED <<boxes, run, record, hazards>>

\* The except clause restores at once, in the name of the body.
SetupFails ==
  /\ At("setup")
  /\ me' \in {[me EXCEPT !.fatal = kind, !.pc = "restore"] : kind \in Fatal}
  /\ UNCHANGED <<iso, boxes, run, record, hazards>>

-----------------------------------------------------------------------------
\* What a cycle, or the root adjudication after the cycles, does with its candidate:
\* run_candidate_container, several times.

\* A rejected candidate and an accepted one both end the work.  The root adjudication
\* recovers the containers it used; without any it may not even have taken place.
AfterWork(kind) ==
  IF In({"body"}) THEN Finally(kind)
  ELSE [me EXCEPT !.fatal = kind, !.pc = IF me.commands = 0 THEN "quiesce" ELSE "boxes"]

WorkEnds ==
  /\ At("work")
  /\ me' = AfterWork(None)
  /\ UNCHANGED <<iso, boxes, run, record, hazards>>

WorkFails ==
  /\ At("work")
  /\ me' \in {AfterWork(kind) : kind \in Fatal}
  /\ UNCHANGED <<iso, boxes, run, record, hazards>>

Intent ==
  /\ At("work")
  /\ me.commands < MaxCommands
  /\ WriteBoxRecord(run, "INTENT_FSYNCED")
  /\ me' = [me EXCEPT !.commands = @ + 1, !.pc = "create"]
  /\ UNCHANGED <<iso, run, record, hazards>>

CreateBox ==
  /\ At("create")
  /\ SetBox(run, "created")
  /\ me' = Go("start")
  /\ UNCHANGED <<iso, run, record, hazards>>

CreateFails ==
  /\ At("create")
  /\ CreateLost(run)
  /\ me' \in {AfterWork(kind) : kind \in Fatal}
  /\ UNCHANGED <<iso, run, record, hazards>>

\* CREATED, INSPECTED_QUALIFIED and RUNNING are written before the start.
StartBox ==
  /\ At("start")
  /\ WriteBoxRecord(run, "RUNNING")
  /\ me' = Go("attach")
  /\ UNCHANGED <<iso, run, record, hazards>>

AttachBox ==
  /\ At("attach")
  /\ SetBox(run, "running")
  /\ me' = Go("attached")
  /\ UNCHANGED <<iso, run, record, hazards>>

BoxEnded ==
  /\ At("attached")
  /\ box[run] = "exited"
  /\ WriteBoxRecord(run, "EXITED")
  /\ me' = Go("remove")
  /\ UNCHANGED <<iso, run, record, hazards>>

\* The timeout of the attached command kills the client, not the container.
BoxTimeout ==
  /\ At("attached")
  /\ me' = [me EXCEPT !.fatal = "TIMEOUT", !.pc = "remove"]
  /\ UNCHANGED <<iso, boxes, run, record, hazards>>

BoxFails ==
  /\ At("start") \/ At("attach") \/ At("attached")
  /\ me' \in {[me EXCEPT !.fatal = kind, !.pc = "remove"] : kind \in Fatal}
  /\ UNCHANGED <<iso, boxes, run, record, hazards>>

RemoveBox ==
  /\ At("remove")
  /\ SetBox(run, None)
  /\ me' = Go("removed")
  /\ UNCHANGED <<iso, run, record, hazards>>

CloseBox ==
  /\ At("removed")
  /\ WriteBoxRecord(run, "REMOVED")
  /\ me' = IF me.fatal = None THEN Go("work") ELSE AfterWork(me.fatal)
  /\ UNCHANGED <<iso, run, record, hazards>>

RemoveBoxFails ==
  /\ At("remove") \/ At("removed")
  /\ WriteBoxRecord(run, "RECOVERY_REQUIRED")
  /\ me' = AfterWork("FAILED")
  /\ UNCHANGED <<iso, run, record, hazards>>

\* The end of the finally clause.  The production guard of the cycle may fail it; a
\* cycle that could not restore raises; the others are journaled and sealed.
CycleEnd ==
  /\ At("cycleEnd")
  /\ \E kind \in {me.fatal, "FAILED"} :
       me' = [me EXCEPT !.fatal = kind, !.mode = "root",
                        !.pc = IF me.failed THEN "emergency"
                               ELSE IF kind = None THEN "cycle" ELSE "quiesce"]
  /\ UNCHANGED <<iso, boxes, run, record, hazards>>

-----------------------------------------------------------------------------
\* The end of a run: quiescence, the workspace, the production guard, the terminal
\* transition, the seal, and publish_run.

AclQuiescent == me.registry = {} /\ \A c \in LeasePaths : lease[c] \in Restored

Quiesce ==
  /\ At("quiesce")
  /\ me' = Go(IF BoxesQuiescent(run) /\ AclQuiescent THEN "unlink" ELSE "emergency")
  /\ UNCHANGED <<iso, boxes, run, record, hazards>>

\* The checkout may have changed meanwhile.
Guard ==
  /\ At("guard")
  /\ \E pass \in BOOLEAN :
       /\ intact' = [intact EXCEPT ![run] = pass]
       /\ me' = [me EXCEPT !.fatal = IF pass THEN @ ELSE "FAILED", !.pc = "terminal"]
  /\ UNCHANGED <<iso, boxes, run, journal, shown, sealed, refused, ledger, latest, stranded, hazards>>

Outcome ==
  IF In({"closing"}) \/ me.fatal = "FAILED" THEN "COMPLETE_WITH_ERRORS"
  ELSE IF me.fatal = "TIMEOUT" THEN "TIMEOUT" ELSE "COMPLETE"

\* Journal.add: the row, then its projection.
AddTerminal ==
  /\ At("terminal")
  /\ journal' = [journal EXCEPT ![run] = Outcome]
  /\ me' = Go("project")
  /\ UNCHANGED <<iso, boxes, run, shown, intact, sealed, refused, ledger, latest, stranded, hazards>>

ProjectState ==
  /\ At("project")
  /\ shown' = [shown EXCEPT ![run] = journal[run]]
  /\ me' = Go("seal")
  /\ UNCHANGED <<iso, boxes, run, journal, intact, sealed, refused, ledger, latest, stranded, hazards>>

\* What is sealed may be something that verify_record refuses: a directory without a file,
\* which no manifest lists, or a reference to what was not retained.  (CandidateCycles says
\* when; here it is any run.)
SealRun ==
  /\ At("seal")
  /\ sealed' = [sealed EXCEPT ![run] = Outcome]
  /\ refused' \in {refused, refused \cup {run}}
  /\ me' = Go("append")
  /\ UNCHANGED <<iso, boxes, run, journal, shown, intact, ledger, latest, stranded, hazards>>

\* A row of its own from an earlier attempt is used again.
AppendLedger ==
  /\ At("append")
  /\ ledger' = IF run \in ToSet(ledger) THEN ledger ELSE Append(ledger, run)
  /\ me' = Go("verify")
  /\ UNCHANGED <<iso, boxes, run, journal, shown, intact, sealed, refused, latest, stranded, hazards>>

\* improvement_operator.verify_record
Verifies(r) ==
  /\ sealed[r] # None
  /\ r \notin refused
  /\ intact[r]
  /\ journal[r] = sealed[r] /\ shown[r] = sealed[r]
  /\ r \in ToSet(ledger)

\* Defect: the bundle is verified after it is published only.
VerifyRunLater ==
  /\ At("verify")
  /\ me' = Go("point")
  /\ UNCHANGED <<iso, boxes, run, record, hazards>>

VerifyRun ==
  /\ At("verify")
  /\ me' = IF Verifies(run) THEN Go("point") ELSE Raised("FAILED")
  /\ UNCHANGED <<iso, boxes, run, record, hazards>>

PointLatest ==
  /\ At("point")
  /\ latest' = run
  /\ me' = [me EXCEPT !.previous = latest, !.pc = "reverify"]
  /\ UNCHANGED <<iso, boxes, run, journal, shown, intact, sealed, refused, ledger, stranded, hazards>>

Published ==
  /\ At("reverify")
  /\ Verifies(run)
  /\ me' = Down
  /\ UNCHANGED <<iso, boxes, run, record, hazards>>

\* The previous latest.json comes back.
RollBack ==
  /\ At("reverify")
  /\ latest' = me.previous
  /\ me' = Raised("FAILED")
  /\ UNCHANGED <<iso, boxes, run, journal, shown, intact, sealed, refused, ledger, stranded, hazards>>

\* What keeps the run from being verified, a sharing violation for one, keeps latest.json
\* from being replaced or removed as well: it stays on the run.
RollBackFails ==
  /\ At("reverify")
  /\ stranded' = stranded \cup {run}
  /\ me' = Raised("FAILED")
  /\ UNCHANGED <<iso, boxes, run, journal, shown, intact, sealed, refused, ledger, latest, hazards>>

\* A step of _run_unfinalized, of the finalizer or of publish_run that raises without
\* having changed anything.
StepFails ==
  /\ me.pc \in {"cycle", "cycleEnd", "quiesce", "guard", "terminal", "project", "seal",
               "append", "verify", "point", "assert"}
  /\ me' = Raised("FAILED")
  /\ UNCHANGED <<iso, boxes, run, record, hazards>>

-----------------------------------------------------------------------------
\* emergency_finalize.

\* emergency_error.json is written first, whether or not the run is sealed.
Emergency ==
  /\ At("emergency")
  /\ refused' = IF sealed[run] # None THEN refused \cup {run} ELSE refused
  /\ me' = Call("emergency", "boxes")
  /\ UNCHANGED <<iso, boxes, run, journal, shown, intact, sealed, ledger, latest, stranded, hazards>>

\* Defect: the finalizer closes every run, sealed or not.
AssertAndClose ==
  /\ At("assert")
  /\ me' = IF ~AclQuiescent THEN Down ELSE Call("closing", "unlink")
  /\ UNCHANGED <<iso, boxes, run, record, hazards>>

\* A sealed run is published again; another is closed, sealed and published.
AssertQuiescent ==
  /\ At("assert")
  /\ me' = IF ~AclQuiescent THEN Down
           ELSE Call("closing", IF sealed[run] # None THEN "append" ELSE "unlink")
  /\ UNCHANGED <<iso, boxes, run, record, hazards>>

-----------------------------------------------------------------------------
Steps ==
  \/ StartProcess \/ ListBoxes \/ RemoveListedBox \/ BoxesRecovered \/ BoxesStuck
  \/ FindLeases \/ RecoverLease \/ Event
  \/ BeginRestore \/ Restoring \/ EndRestore \/ Unroot \/ UnlinkOne \/ UnlinkDone
  \/ Gate \/ Refuse \/ Authorize \/ NextCycle \/ CyclesEnd
  \/ LeaseRoot \/ Snapshot \/ SetupMutates \/ SetupAdvances
  \/ WorkEnds \/ Intent \/ CreateBox \/ StartBox \/ AttachBox \/ BoxEnded \/ BoxTimeout
  \/ RemoveBox \/ CloseBox \/ CycleEnd
  \/ Quiesce \/ Guard \/ AddTerminal \/ ProjectState \/ SealRun
  \/ AppendLedger \/ VerifyRun \/ PointLatest \/ Published
  \/ Emergency \/ AssertQuiescent

Failures ==
  \/ BoxesFail \/ RecoverFails \/ RestoreFails \/ UnrootFails \/ UnlinkFails
  \/ SnapshotFails \/ SetupFails \/ WorkFails \/ CreateFails \/ BoxFails \/ RemoveBoxFails
  \/ RollBack \/ RollBackFails \/ StepFails

\* The process is killed, or interrupted where nothing catches a KeyboardInterrupt.
Crash ==
  /\ ~At("down")
  /\ me' = Down
  /\ UNCHANGED <<iso, boxes, run, record, hazards>>

Environment ==
  /\ BoxAppears \/ BoxExits
  /\ UNCHANGED <<iso, me, run, record, hazards>>

Next ==
  \/ Steps /\ UNCHANGED <<faults, crashes>>
  \/ Environment /\ UNCHANGED <<faults, crashes>>
  \/ Failures /\ faults < MaxFaults /\ faults' = faults + 1 /\ UNCHANGED crashes
  \/ Crash /\ crashes < MaxCrashes /\ crashes' = crashes + 1 /\ UNCHANGED faults

Spec == Init /\ [][Next]_vars

\* A process that can take a step takes it; nobody need start another.
FairSpec == Spec /\ WF_vars(Steps /\ ~At("down") /\ UNCHANGED <<faults, crashes>>)

-----------------------------------------------------------------------------
TypeOK ==
  /\ IsolationTypeOK
  /\ me.mode \in Modes /\ me.cycle \in Cycles \cup {0}
  /\ me.registry \subseteq Cycles /\ me.fatal \in Fatal \cup {None}
  /\ run \in Runs \cup {0}
  /\ journal \in [Runs -> Terminal \cup {None, "RUNNING"}]
  /\ shown \in [Runs -> Terminal \cup {None, "RUNNING"}]
  /\ intact \in [Runs -> BOOLEAN]
  /\ sealed \in [Runs -> Terminal \cup {None}]
  /\ refused \subseteq Runs
  /\ ledger \in Seq(Runs)
  /\ latest \in Runs \cup {0}
  /\ stranded \subseteq Runs
  /\ hazard \in {None, "RECOVERED", "RECOVERY_REQUIRED"}
  /\ boxHazard \in {None, "QUIESCENT", "RECOVERY_REQUIRED"}

\* A process that may start a run has found the machine as the first one did: no
\* container of any run has run and is still there, and no root differs from its snapshot.
NewRunIsQuiet ==
  At("authorize") =>
    /\ \A r \in Runs : box[r] \notin {"running", "exited"}
    /\ \A c \in Cycles : ~(root[c] /\ acl[c] # "original")

\* "The exact original SDDL must be restored and verified before the ... evidence seal, or
\* publication": of a sealed run, no root differs from its snapshot and no container that
\* ever started is left, whatever failed and however the run came to its seal.  (The types
\* of the state go with it.)
SealedIsQuiet ==
  /\ TypeOK
  /\ \A r \in Runs : sealed[r] # None =>
       /\ box[r] \notin {"running", "exited"}
       /\ boxRecord[r] \in Removed \cup {None}
       /\ r = run => \A c \in Cycles : ~(root[c] /\ acl[c] # "original")

\* What latest.json points to passes verify_record at every moment, also while a publication
\* is taken back and while emergency_finalize adds to the directory of a sealed run; but for
\* a run whose publication could not be taken back, which latest.json goes on naming.
LatestVerifies == latest # 0 => Verifies(latest) \/ latest \in stranded

\* "partial runs are immutable": whatever fails, dies, and is finalized in an emergency, a
\* run is sealed at most once, while it is the open one, with a statement whose journal,
\* projection and manifest agree; neither that nor a row of the ledger changes any more;
\* and latest.json moves only from anchored run to anchored run.  (GovernedRuns.)
Statement(r) == [status |-> sealed[r], journal |-> journal[r], shown |-> shown[r], intact |-> intact[r]]

Governed == INSTANCE GovernedRuns WITH
              opened <- run,
              statements <- [r \in {r \in Runs : sealed[r] # None} |-> Statement(r)]

ImplementsGovernedRuns == Governed!Spec

\* "A protected-state mismatch is the highest-risk failure and must remain discoverable
\* ...: publish its ledger/latest pointer regardless of the guard outcome."
MismatchDiscoverable ==
  \A r \in Runs : At("down") /\ r = run /\ sealed[r] # None /\ ~intact[r] => latest = r

\* Every process ends, and with it the controller lock it holds.
EveryProcessEnds == ~At("down") ~> At("down")
=============================================================================
