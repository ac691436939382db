-------------------------- MODULE CandidateIsolation --------------------------
(***************************************************************************)
(* improvement_harness_runtime_v2.py: what a candidate's isolation leaves   *)
(* outside the controller process, and the operations that change it.       *)
(*                                                                          *)
(* On disk, in the workspace of the latest run: one lease root per cycle,   *)
(* with its access control list, the durable record of its ACL lease, and   *)
(* the archived helper without which no record can be replayed.  In the     *)
(* Docker daemon: at most one container per run, whose lifecycle record is  *)
(* in the run's workspace too.  None of this ends with the process.         *)
(*                                                                          *)
(* ImprovementController composes these operations into a run.              *)
(***************************************************************************)
EXTENDS Naturals, FiniteSets

CONSTANTS Runs,     \* the runs the controller starts, numbered in order
          Cycles    \* the candidate cycles of a run, numbered in order

ASSUME RunsAssumption == Runs \subseteq Nat /\ 0 \notin Runs
ASSUME CyclesAssumption == Cycles \subseteq Nat

VARIABLES
  lease,      \* per cycle: state in acl_lease_cycle_<n>.json, None without a file
  acl,        \* per cycle: the lease root's SDDL against its snapshot
  root,       \* per cycle: the lease root exists
  helper,     \* .acl-recovery-helper-<sha>.ps1 exists in the workspace
  box,        \* per run: its governed container in the daemon
  boxRecord,  \* per run: state in container-<token>.json, None without a file
  creating    \* runs whose create command was given up but reaches the daemon

iso == <<lease, acl, root, helper>>
boxes == <<box, boxRecord, creating>>

None == "none"

Restored == {"RESTORED", "RESTORED_RECOVERY"}
LeaseStates ==
  {"SNAPSHOT_FSYNCED", "MATERIALIZED", "SID_DISCOVERED", "APPLYING", "ACTIVE",
   "CANARY_PASS", "RESTORING", "RECOVERY_REQUIRED"} \cup Restored

Removed == {"REMOVED", "REMOVED_RECOVERY", "REMOVED_RECOVERY_ABSENT"}
BoxStates == {"INTENT_FSYNCED", "RUNNING", "EXITED", "RECOVERY_REQUIRED"} \cup Removed

IsolationTypeOK ==
  /\ lease \in [Cycles -> LeaseStates \cup {None}]
  /\ acl \in [Cycles -> {"original", "materialized", "upgraded"}]
  /\ root \in [Cycles -> BOOLEAN]
  /\ helper \in BOOLEAN
  /\ box \in [Runs -> {None, "created", "running", "exited"}]
  /\ boxRecord \in [Runs -> BoxStates \cup {None}]
  /\ creating \subseteq Runs

IsolationInit ==
  /\ lease = [c \in Cycles |-> None]
  /\ acl = [c \in Cycles |-> "original"]
  /\ root = [c \in Cycles |-> FALSE]
  /\ helper = FALSE
  /\ box = [r \in Runs |-> None]
  /\ boxRecord = [r \in Runs |-> None]
  /\ creating = {}

\* A run gets a workspace of its own; what an earlier one left without a lease record
\* is never looked at again.
NewWorkspace ==
  /\ root' = [c \in Cycles |-> FALSE]
  /\ helper' = FALSE
  /\ UNCHANGED <<lease, acl>>

-----------------------------------------------------------------------------
\* The ACL lease of cycle c.

\* The empty root, and the archived helper.
MakeRoot(c) ==
  /\ root' = [root EXCEPT ![c] = TRUE]
  /\ acl' = [acl EXCEPT ![c] = "original"]
  /\ helper' = TRUE
  /\ UNCHANGED lease

\* _write_acl_lease
WriteLease(c, s) ==
  /\ lease' = [lease EXCEPT ![c] = s]
  /\ UNCHANGED <<acl, root, helper>>

\* The sandboxed no-op materializes the sandbox's rules; upgrade adds the DELETE rule.
ChangeAcl(c) ==
  /\ acl' = [acl EXCEPT ![c] = IF lease[c] = "APPLYING" THEN "upgraded" ELSE "materialized"]
  /\ UNCHANGED <<lease, root, helper>>

\* The state start_candidate_acl_lease writes next: what each one needs from the root.
NextLeaseState(s, a) ==
  CASE s = "SNAPSHOT_FSYNCED" /\ a = "materialized" -> "MATERIALIZED"
    [] s = "MATERIALIZED" -> "SID_DISCOVERED"
    [] s = "SID_DISCOVERED" -> "APPLYING"
    [] s = "APPLYING" /\ a = "upgraded" -> "ACTIVE"
    [] s = "ACTIVE" -> "CANARY_PASS"
    [] OTHER -> None

\* Defect: the helper reports success without having changed the root.
RestoreAclSkipped(c) == c \in Cycles /\ UNCHANGED iso

\* The helper's restore and verify operations: the root has its snapshot's SDDL again.
RestoreAcl(c) ==
  /\ acl' = [acl EXCEPT ![c] = "original"]
  /\ UNCHANGED <<lease, root, helper>>

\* safe_remove_tree of a lease root.
RemoveRoot(c) ==
  /\ root' = [root EXCEPT ![c] = FALSE]
  /\ UNCHANGED <<lease, acl, helper>>

\* load_acl_lease: what a record needs to be replayed.
Loadable(c) == helper /\ (root[c] \/ lease[c] \in Restored)

\* discover_acl_lease_paths
LeasePaths == {c \in Cycles : lease[c] # None}

-----------------------------------------------------------------------------
\* The container of run r.

WriteBoxRecord(r, s) ==
  /\ boxRecord' = [boxRecord EXCEPT ![r] = s]
  /\ UNCHANGED <<box, creating>>

SetBox(r, b) ==
  /\ box' = [box EXCEPT ![r] = b]
  /\ UNCHANGED <<boxRecord, creating>>

\* A listed container is removed, and its record says so.
RecoverBox(r) ==
  /\ box' = [box EXCEPT ![r] = None]
  /\ boxRecord' = [boxRecord EXCEPT ![r] = "REMOVED_RECOVERY"]
  /\ UNCHANGED creating

\* The create command fails or times out: the daemon did nothing, created the
\* container, or will.  Its identifier is unknown, so nothing is cleaned up.
CreateLost(r) ==
  /\ \/ box' = [box EXCEPT ![r] = "created"] /\ UNCHANGED creating
     \/ creating' = creating \cup {r} /\ UNCHANGED box
     \/ UNCHANGED <<box, creating>>
  /\ UNCHANGED boxRecord

\* The daemon, at any time.
BoxAppears ==
  \E r \in creating :
    /\ box[r] = None
    /\ box' = [box EXCEPT ![r] = "created"]
    /\ creating' = creating \ {r}
    /\ UNCHANGED boxRecord

BoxExits ==
  \E r \in Runs :
    /\ box[r] = "running"
    /\ box' = [box EXCEPT ![r] = "exited"]
    /\ UNCHANGED <<boxRecord, creating>>

\* Defect: containers that have exited are not listed.
ListedRunning(scope) == {r \in scope : box[r] = "running"}

\* list_governed_containers, restricted to the runs of the scope.
Listed(scope) == {r \in scope : box[r] # None}

\* recover_governed_containers after the removals: a record whose container is gone
\* without having been removed is closed as absent.
CloseRecords(scope) ==
  /\ boxRecord' = [r \in Runs |->
       IF r \in scope /\ boxRecord[r] \notin Removed \cup {None}
         THEN "REMOVED_RECOVERY_ABSENT" ELSE boxRecord[r]]
  /\ UNCHANGED <<box, creating>>

\* assert_governed_containers_quiescent
BoxesQuiescent(r) == box[r] = None /\ boxRecord[r] \in Removed \cup {None}

-----------------------------------------------------------------------------
\* safe_remove_tree of the workspace of run r, one file at a time, in whatever order
\* the directory lists them.
Unlink(r) ==
  \/ helper /\ helper' = FALSE /\ UNCHANGED <<lease, acl, root, boxes>>
  \/ \E c \in LeasePaths : WriteLease(c, None) /\ UNCHANGED boxes
  \/ boxRecord[r] # None /\ WriteBoxRecord(r, None) /\ UNCHANGED iso

Unlinked(r) == ~helper /\ LeasePaths = {} /\ boxRecord[r] = None

\* Its directories last.
RemoveDirectories == root' = [c \in Cycles |-> FALSE] /\ UNCHANGED <<lease, acl, helper>>

-----------------------------------------------------------------------------
\* "writes APPLYING before mutation": a root whose ACL differs from its snapshot has an
\* unrestored durable record, which says so before the upgrade, and the helper to replay
\* it: no crash loses the way back.
ChangeIsRecorded ==
  \A c \in Cycles :
    root[c] /\ acl[c] # "original" =>
      /\ helper
      /\ lease[c] \notin Restored \cup {None}
      /\ acl[c] = "upgraded" => lease[c] \notin {"SNAPSHOT_FSYNCED", "MATERIALIZED", "SID_DISCOVERED"}
=============================================================================
