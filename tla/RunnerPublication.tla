------------------------- MODULE RunnerPublication -------------------------
(***************************************************************************)
(* CodexLightRunner_v3.py: the terminal evidence of supervised runs.       *)
(*                                                                         *)
(* Runner processes share one artifacts directory.  Each one binds its     *)
(* name, takes its run lock, supervises a target, seals a run directory    *)
(* and publishes it: a write-ahead record, one row of a hash-chained       *)
(* ledger, the pointer latest/<name>_terminal.json, a final verification,  *)
(* and the removal of the write-ahead record.  Publication and recovery    *)
(* run under one kernel lock, which the operating system releases when the *)
(* process dies.  Every durable write is a step of its own; between any    *)
(* two steps the process may die (Crash) or the operation may raise        *)
(* (Fault), and the code's handlers do the rest.                           *)
(*                                                                         *)
(* Abstractions.  A run identity stands for its record_id, manifest and    *)
(* state hashes.  A ledger row keeps its position and the run of the row   *)
(* before it, which is what the hash chain binds.  The contents of the     *)
(* supervised run are left to RunnerSupervisor.                            *)
(***************************************************************************)
EXTENDS Naturals, Sequences

CONSTANTS Runs,      \* runner processes, one run_id each
          Names,     \* --name values
          Targets,   \* resolved target paths
          Folds,     \* casefolded names
          RunLocks,  \* lock files of acquire_lock
          NameOf,    \* Runs -> Names
          TargetOf,  \* Runs -> Targets
          FoldOf,    \* Names -> Folds
          LockOf,    \* Runs -> RunLocks, or None under --allow-parallel
          Stragglers,\* runs whose target leaves a process holding its output pipe
          LateInterrupts, \* may Ctrl-C arrive between the WAL's removal and the return?
          None,      \* nothing there
          Refused    \* what a reader is told while a WAL exists

ASSUME ConfigAssumption ==
  /\ NameOf \in [Runs -> Names]
  /\ TargetOf \in [Runs -> Targets]
  /\ FoldOf \in [Names -> Folds]
  /\ LockOf \in [Runs -> RunLocks \cup {None}]
  /\ Stragglers \subseteq Runs
  /\ LateInterrupts \in BOOLEAN
  /\ None \notin Runs
  /\ None \notin RunLocks
  /\ Refused \notin Runs \cup {None}

VARIABLES
  pc,         \* where each process is
  pass,       \* 1: finalize_runner_state in run's body, 2: in its except clause
  runLock,    \* holder of each run lock
  ledgerLock, \* holder of runner_ledger.lock
  txn,        \* the holder's locals: why it completes a WAL, and what to restore
  binding,    \* the name-binding ledger, by casefolded name
  ledger,     \* runner_ledger.jsonl
  wal,        \* runner_publication_wal.json
  pointer,    \* latest/<name>_terminal.json
  latest,     \* latest/<name>_state.json
  drifted     \* did the run's tree change after it was sealed?

disk == <<binding, ledger, wal, pointer, latest, drifted>>
vars == <<pc, pass, runLock, ledgerLock, txn, disk>>

-----------------------------------------------------------------------------
\* Control points.  A run that raised or died is gone; done returned an exit status.
Completing == {"anchor", "mark", "point", "copy", "remark", "verify"}
Undoing    == {"undoPointer", "undoLatest"}
Locked     == Completing \cup Undoing \cup {"bind", "intend", "retired"}
Ended      == {"done", "gone"}
Control    == Locked \cup Ended \cup
              {"new", "lock", "execute", "publish", "published"}

Row      == [run : Runs, seq : Nat, prev : Runs \cup {None}]
Phases   == {"INTENT_FSYNCED", "LEDGER_ANCHORED", "POINTER_PUBLISHED"}
Wal      == [row : Row, phase : Phases]
Live     == [run : Runs, terminal : BOOLEAN]
Purposes == {"prepare", "repair", "publish"}
Txn      == [purpose : Purposes, name : Names,
             pointer : Runs \cup {None}, latest : Live \cup {None}]
Binding  == [name : Names, target : Targets]

Tip == IF ledger = <<>> THEN None ELSE ledger[Len(ledger)].run

NextRow(r) == [run |-> r, seq |-> Len(ledger) + 1, prev |-> Tip]

PositionsOf(r) == {i \in DOMAIN ledger : ledger[i].run = r}

Anchored(r) == PositionsOf(r) # {}

\* Defect: target_rows is not filtered by name and target.
IsTip(r) == Anchored(r) /\ Tip = r

\* target_rows[-1] of verify_runner_record is the row of r.
IsLatest(r) ==
  \E i \in PositionsOf(r) : \A j \in DOMAIN ledger :
     /\ NameOf[ledger[j].run] = NameOf[r]
     /\ TargetOf[ledger[j].run] = TargetOf[r]
     => j =< i

Identity(r) == [name |-> NameOf[r], target |-> TargetOf[r]]

Bound(r) == binding[FoldOf[NameOf[r]]] = Identity(r)

LedgerAgreesWithBindings == \A i \in DOMAIN ledger : Bound(ledger[i].run)

\* The record a WAL carries still extends, or already is, one ledger row.
Extends(row) == row.seq = Len(ledger) + 1 /\ row.prev = Tip

AnchoredAs(row) == \E i \in DOMAIN ledger : PositionsOf(row.run) = {i} /\ ledger[i] = row

\* Defect: the latest-row check of require_latest is left out.
VerifyPassesAnyRow(r) ==
  /\ ~drifted[r]
  /\ \E i \in DOMAIN ledger : PositionsOf(r) = {i}
  /\ Bound(r)
  /\ pointer[NameOf[r]] = r

\* verify_runner_record(require_latest) of the run the WAL carries.
VerifyPasses(r) ==
  /\ ~drifted[r]
  /\ \E i \in DOMAIN ledger : PositionsOf(r) = {i}
  /\ Bound(r)
  /\ pointer[NameOf[r]] = r
  /\ IsLatest(r)

\* Nothing is not a record: TLC checks it, the proofs use it.
ASSUME NoneIsNoRecord == None \notin Wal /\ None \notin Txn /\ None \notin Binding

-----------------------------------------------------------------------------
Init ==
  /\ pc = [r \in Runs |-> "new"]
  /\ pass = [r \in Runs |-> 1]
  /\ runLock = [k \in RunLocks |-> None]
  /\ ledgerLock = None
  /\ txn = None
  /\ binding = [f \in Folds |-> None]
  /\ ledger = <<>>
  /\ wal = None
  /\ pointer = [n \in Names |-> None]
  /\ latest = [n \in Names |-> None]
  /\ drifted = [r \in Runs |-> FALSE]

Goto(r, label) == pc' = [pc EXCEPT ![r] = label]

\* Run's finally clause: the run lock is released whatever happened.
ReleaseRunLock(r) ==
  runLock' = [k \in RunLocks |-> IF runLock[k] = r THEN None ELSE runLock[k]]

\* The files complete_runner_publication_wal may overwrite, as they are now.
Snapshot(purpose, n) ==
  [purpose |-> purpose, name |-> n, pointer |-> pointer[n], latest |-> latest[n]]

\* recover_runner_publication with the lock held: nothing to do, or complete.
Recover(r, purpose, otherwise) ==
  IF wal = None
    THEN Goto(r, otherwise) /\ UNCHANGED txn
    ELSE Goto(r, "anchor") /\ txn' = Snapshot(purpose, NameOf[wal.row.run])

\* prepare_runner_publication: startup recovers before anything is allocated.
Prepare(r) ==
  /\ pc[r] = "new"
  /\ ledgerLock = None
  /\ ledgerLock' = r
  /\ Recover(r, "prepare", "bind")
  /\ UNCHANGED <<pass, runLock, disk>>

\* Defect: an existing binding of the casefolded name is overwritten.
BindAnew(r) ==
  /\ pc[r] = "bind"
  /\ Goto(r, IF LedgerAgreesWithBindings THEN "lock" ELSE "gone")
  /\ binding' = IF LedgerAgreesWithBindings
                  THEN [binding EXCEPT ![FoldOf[NameOf[r]]] = Identity(r)] ELSE binding
  /\ ledgerLock' = None
  /\ txn' = None
  /\ UNCHANGED <<pass, runLock, ledger, wal, pointer, latest, drifted>>

\* The rest of prepare_runner_publication: check, append a new binding, unlock.
Bind(r) ==
  LET fold == FoldOf[NameOf[r]]
      ok   == LedgerAgreesWithBindings /\ binding[fold] \in {None, Identity(r)}
  IN  /\ pc[r] = "bind"
      /\ Goto(r, IF ok THEN "lock" ELSE "gone")
      /\ binding' = IF ok THEN [binding EXCEPT ![fold] = Identity(r)] ELSE binding
      /\ ledgerLock' = None
      /\ txn' = None
      /\ UNCHANGED <<pass, runLock, ledger, wal, pointer, latest, drifted>>

\* acquire_lock does not wait: a busy run lock ends the run before it exists, and
\* so does a stale kill switch.
Refuse(r) ==
  /\ pc[r] = "lock"
  /\ Goto(r, "gone")
  /\ UNCHANGED <<pass, runLock, ledgerLock, txn, disk>>

\* Defect: the run lock is not looked at.
LaunchUnlocked(r) ==
  /\ pc[r] = "lock"
  /\ Goto(r, "execute")
  /\ latest' = [latest EXCEPT ![NameOf[r]] = [run |-> r, terminal |-> FALSE]]
  /\ UNCHANGED <<pass, runLock, ledgerLock, txn, binding, ledger, wal, pointer, drifted>>

\* Otherwise the run directory is created and its live state copied to latest/.
Launch(r) ==
  LET k == LockOf[r] IN
  /\ pc[r] = "lock"
  /\ k # None => runLock[k] = None
  /\ Goto(r, "execute")
  /\ runLock' = IF k = None THEN runLock ELSE [runLock EXCEPT ![k] = r]
  /\ latest' = [latest EXCEPT ![NameOf[r]] = [run |-> r, terminal |-> FALSE]]
  /\ UNCHANGED <<pass, ledgerLock, txn, binding, ledger, wal, pointer, drifted>>

\* The heartbeat of run_target_once: it takes no lock.
Heartbeat(r) ==
  /\ pc[r] = "execute"
  /\ latest' = [latest EXCEPT ![NameOf[r]] = [run |-> r, terminal |-> FALSE]]
  /\ UNCHANGED <<pc, pass, runLock, ledgerLock, txn, binding, ledger, wal, pointer, drifted>>

\* The target ended and finalize_runner_state seals the run directory (state.json,
\* then the manifest of the whole tree; a second pass finds them and keeps them).
\* After an exception or Ctrl-C under supervision it is run's except clause that
\* finalizes, once.
Finish(r) ==
  /\ pc[r] = "execute"
  /\ Goto(r, "publish")
  /\ \E p \in 1..2 : pass' = [pass EXCEPT ![r] = p]
  /\ UNCHANGED <<runLock, ledgerLock, txn, disk>>

\* The log readers are daemon threads joined for two seconds: while the runner
\* lives, a process that kept the target's pipe still appends to the sealed logs.
StragglerWrites(r) ==
  /\ r \in Stragglers
  /\ pc[r] \notin Ended
  /\ pc[r] = "publish" \/ (wal # None /\ wal.row.run = r)
  /\ drifted' = [drifted EXCEPT ![r] = TRUE]
  /\ UNCHANGED <<pc, pass, runLock, ledgerLock, txn, binding, ledger, wal, pointer, latest>>

\* Defect: a publisher does not finish the pending publication first.
BeginPublishUnrepaired(r) ==
  /\ pc[r] = "publish"
  /\ ledgerLock = None
  /\ ledgerLock' = r
  /\ Goto(r, "intend")
  /\ UNCHANGED <<pass, runLock, txn, disk>>

\* publish_runner_record: lock, then finish what an earlier publisher left.
BeginPublish(r) ==
  /\ pc[r] = "publish"
  /\ ledgerLock = None
  /\ ledgerLock' = r
  /\ Recover(r, "repair", "intend")
  /\ UNCHANGED <<pass, runLock, disk>>

\* Defect: an exception path that finalizes again for ever.
RaiseAgain(r) ==
  /\ Goto(r, "publish")
  /\ UNCHANGED <<pass, runLock>>
  /\ ledgerLock' = IF ledgerLock = r THEN None ELSE ledgerLock
  /\ txn' = IF ledgerLock = r THEN None ELSE txn

\* An exception leaves a locked section: unlock, and enter the except clause.
Raise(r) ==
  LET last == pc[r] \in {"new", "bind"} \/ pass[r] = 2
                \/ (txn # None /\ txn.purpose = "prepare")
  IN  /\ Goto(r, IF last THEN "gone" ELSE "publish")
      /\ pass' = IF last THEN pass ELSE [pass EXCEPT ![r] = 2]
      /\ IF last THEN ReleaseRunLock(r) ELSE UNCHANGED runLock
      /\ ledgerLock' = IF ledgerLock = r THEN None ELSE ledgerLock
      /\ txn' = IF ledgerLock = r THEN None ELSE txn

\* The ledger lock is polled for fifteen seconds, then the wait raises.
LockTimeout(r) ==
  /\ pc[r] \in {"new", "publish"}
  /\ ledgerLock # None
  /\ Raise(r)
  /\ UNCHANGED disk

\* Defect: a second pass plans a new row instead of reusing its own.
IntendAnew(r) ==
  /\ pc[r] = "intend"
  /\ IF ~Bound(r)
       THEN Raise(r) /\ UNCHANGED disk
       ELSE /\ wal' = [row |-> NextRow(r), phase |-> "INTENT_FSYNCED"]
            /\ txn' = Snapshot("publish", NameOf[r])
            /\ Goto(r, "anchor")
            /\ UNCHANGED <<pass, runLock, ledgerLock, binding, ledger, pointer, latest, drifted>>

\* The checks of publish_runner_record, then the intent.  A second pass finds its
\* own row in the ledger and reuses it.
Intend(r) ==
  LET conflicting == \E i \in DOMAIN ledger :
                        /\ NameOf[ledger[i].run] = NameOf[r]
                        /\ TargetOf[ledger[i].run] # TargetOf[r]
      row == IF Anchored(r) THEN ledger[CHOOSE i \in PositionsOf(r) : TRUE] ELSE NextRow(r)
  IN  /\ pc[r] = "intend"
      /\ IF conflicting \/ ~Bound(r)
           THEN Raise(r) /\ UNCHANGED disk
           ELSE /\ wal' = [row |-> row, phase |-> "INTENT_FSYNCED"]
                /\ txn' = Snapshot("publish", NameOf[r])
                /\ Goto(r, "anchor")
                /\ UNCHANGED <<pass, runLock, ledgerLock, binding, ledger, pointer,
                               latest, drifted>>

-----------------------------------------------------------------------------
\* complete_runner_publication_wal, one durable write at a time.

\* Append the record unless the ledger holds it; it must extend the exact tip.
AnchorRow(r) ==
  LET row == wal.row IN
  /\ pc[r] = "anchor"
  /\ IF Bound(row.run) /\ (AnchoredAs(row) \/ (~Anchored(row.run) /\ Extends(row)))
       THEN /\ ledger' = IF Anchored(row.run) THEN ledger ELSE Append(ledger, row)
            /\ Goto(r, "mark")
       ELSE Goto(r, "undoPointer") /\ UNCHANGED ledger
  /\ UNCHANGED <<pass, runLock, ledgerLock, txn, binding, wal, pointer, latest, drifted>>

MarkAnchored(r) ==
  /\ pc[r] = "mark"
  /\ Goto(r, "point")
  /\ wal' = IF wal.phase = "INTENT_FSYNCED"
              THEN [wal EXCEPT !.phase = "LEDGER_ANCHORED"] ELSE wal
  /\ UNCHANGED <<pass, runLock, ledgerLock, txn, binding, ledger, pointer, latest, drifted>>

WritePointer(r) ==
  /\ pc[r] = "point"
  /\ Goto(r, "copy")
  /\ pointer' = [pointer EXCEPT ![NameOf[wal.row.run]] = wal.row.run]
  /\ UNCHANGED <<pass, runLock, ledgerLock, txn, binding, ledger, wal, latest, drifted>>

\* Defect: the terminal state is not copied over the last heartbeat.
CopyLatestSkipped(r) ==
  /\ pc[r] = "copy"
  /\ Goto(r, "remark")
  /\ UNCHANGED <<pass, runLock, ledgerLock, txn, disk>>

CopyLatest(r) ==
  /\ pc[r] = "copy"
  /\ Goto(r, "remark")
  /\ latest' = [latest EXCEPT ![NameOf[wal.row.run]] = [run |-> wal.row.run, terminal |-> TRUE]]
  /\ UNCHANGED <<pass, runLock, ledgerLock, txn, binding, ledger, wal, pointer, drifted>>

MarkPublished(r) ==
  /\ pc[r] = "remark"
  /\ Goto(r, "verify")
  /\ wal' = [wal EXCEPT !.phase = "POINTER_PUBLISHED"]
  /\ UNCHANGED <<pass, runLock, ledgerLock, txn, binding, ledger, pointer, latest, drifted>>

\* Defect: the WAL is removed without the final verification.
RetireUnverified(r) ==
  /\ pc[r] = "verify"
  /\ Goto(r, "retired")
  /\ wal' = None
  /\ UNCHANGED <<pass, runLock, ledgerLock, txn, binding, ledger, pointer, latest, drifted>>

\* Verify the whole record; only then may the WAL go.
VerifyAndRetire(r) ==
  /\ pc[r] = "verify"
  /\ IF VerifyPasses(wal.row.run)
       THEN Goto(r, "retired") /\ wal' = None
       ELSE Goto(r, "undoPointer") /\ UNCHANGED wal
  /\ UNCHANGED <<pass, runLock, ledgerLock, txn, binding, ledger, pointer, latest, drifted>>

\* The return to recover's or publish's caller; publish_runner_record unlocks.
Return(r) ==
  /\ pc[r] = "retired"
  /\ txn' = None
  /\ Goto(r, CASE txn.purpose = "prepare" -> "bind"
               [] txn.purpose = "repair"  -> "intend"
               [] txn.purpose = "publish" -> "published")
  /\ ledgerLock' = IF txn.purpose = "publish" THEN None ELSE ledgerLock
  /\ UNCHANGED <<pass, runLock, disk>>

\* The except clauses: put back the pointer and the latest state as they were.
UndoPointer(r) ==
  /\ pc[r] = "undoPointer"
  /\ Goto(r, "undoLatest")
  /\ pointer' = [pointer EXCEPT ![txn.name] = txn.pointer]
  /\ UNCHANGED <<pass, runLock, ledgerLock, txn, binding, ledger, wal, latest, drifted>>

\* Defect: a failed publication is reported like a successful one.
UndoLatestSwallowed(r) ==
  /\ pc[r] = "undoLatest"
  /\ latest' = [latest EXCEPT ![txn.name] = txn.latest]
  /\ Goto(r, "published")
  /\ ledgerLock' = None
  /\ txn' = None
  /\ UNCHANGED <<pass, runLock, binding, ledger, wal, pointer, drifted>>

UndoLatest(r) ==
  /\ pc[r] = "undoLatest"
  /\ latest' = [latest EXCEPT ![txn.name] = txn.latest]
  /\ Raise(r)
  /\ UNCHANGED <<binding, ledger, wal, pointer, drifted>>

-----------------------------------------------------------------------------
\* The run reports its outcome, unless Ctrl-C arrives before terminalized is set.
Report(r) ==
  /\ pc[r] = "published"
  /\ Goto(r, IF pass[r] = 1 THEN "done" ELSE "gone")
  /\ ReleaseRunLock(r)
  /\ UNCHANGED <<pass, ledgerLock, txn, disk>>

\* An operation raises.  Inside complete_runner_publication_wal the except
\* clauses restore the pointers first; elsewhere the exception just leaves.
Fault(r) ==
  \/ /\ pc[r] \in Completing \/ (pc[r] = "retired" /\ LateInterrupts)
     /\ Goto(r, "undoPointer")
     /\ UNCHANGED <<pass, runLock, ledgerLock, txn, disk>>
  \/ /\ pc[r] \in {"bind", "publish", "intend", "published"} \cup Undoing
     /\ Raise(r)
     /\ UNCHANGED disk

\* The process dies; the operating system releases its kernel locks.
Crash(r) ==
  /\ pc[r] \notin Ended \cup {"new"}
  /\ Goto(r, "gone")
  /\ ReleaseRunLock(r)
  /\ ledgerLock' = IF ledgerLock = r THEN None ELSE ledgerLock
  /\ txn' = IF ledgerLock = r THEN None ELSE txn
  /\ UNCHANGED <<pass, disk>>

\* What a live process does next by itself.
Progress(r) ==
  \/ Bind(r) \/ Refuse(r) \/ Launch(r) \/ Finish(r)
  \/ BeginPublish(r) \/ (pc[r] = "publish" /\ LockTimeout(r)) \/ Intend(r)
  \/ AnchorRow(r) \/ MarkAnchored(r) \/ WritePointer(r) \/ CopyLatest(r)
  \/ MarkPublished(r) \/ VerifyAndRetire(r) \/ Return(r)
  \/ UndoPointer(r) \/ UndoLatest(r) \/ Report(r)

Next ==
  \E r \in Runs : \/ Prepare(r) \/ Progress(r) \/ LockTimeout(r)
                  \/ Heartbeat(r) \/ StragglerWrites(r) \/ Fault(r) \/ Crash(r)

Spec == Init /\ [][Next]_vars

\* A started process keeps running unless it crashes; nothing else is promised.
FairSpec == Spec /\ \A r \in Runs : WF_vars(Progress(r))

-----------------------------------------------------------------------------
\* The values each variable takes.
TypeOK ==
  /\ pc \in [Runs -> Control]
  /\ pass \in [Runs -> 1..2]
  /\ runLock \in [RunLocks -> Runs \cup {None}]
  /\ ledgerLock \in Runs \cup {None}
  /\ txn \in Txn \cup {None}
  /\ binding \in [Folds -> Binding \cup {None}]
  /\ ledger \in Seq(Row)
  /\ wal \in Wal \cup {None}
  /\ pointer \in [Names -> Runs \cup {None}]
  /\ latest \in [Names -> Live \cup {None}]
  /\ drifted \in [Runs -> BOOLEAN]

\* The abstract store: the ledger's runs are the history; readers are refused
\* while a WAL exists and read the pointer otherwise.
Committed == [i \in DOMAIN ledger |-> ledger[i].run]

Evidence == INSTANCE TerminalEvidence WITH
  committed <- Committed,
  answer    <- [n \in Names |-> IF wal = None THEN pointer[n] ELSE Refused]

\* The pointer of name n names the last ledger row of that name.
Current(n) == Evidence!EndsWith(Committed, n, pointer[n])

\* Without a pending WAL every authoritative terminal pointer names the last
\* ledger row of its runner name: what verify_runner_record(require_latest)
\* checks before the WAL is unlinked must still hold whenever it is absent.
PointerCurrent == wal = None => \A n \in Names : Current(n)

\* A pending WAL always replays: its row is in the ledger already, exactly once
\* and unchanged, or it still extends the ledger's tip.  Otherwise every later
\* startup would raise "no longer extends the exact ledger tip".
WalReplayable == wal # None => AnchoredAs(wal.row) \/ (~Anchored(wal.row.run) /\ Extends(wal.row))

\* The ledger is one hash chain: row i has sequence i and the run before it,
\* and no run is anchored twice, whatever crashed, raised or was replayed.
LedgerChained ==
  \A i \in DOMAIN ledger :
    /\ ledger[i].seq = i
    /\ ledger[i].prev = IF i = 1 THEN None ELSE ledger[i - 1].run
    /\ PositionsOf(ledger[i].run) = {i}

\* Names that casefold to one key never carry evidence of two targets or spellings.
OneTargetPerName ==
  \A i, j \in DOMAIN ledger :
    LET a == ledger[i].run
        b == ledger[j].run
    IN  FoldOf[NameOf[a]] = FoldOf[NameOf[b]] => Identity(a) = Identity(b)

\* A runner that returns an exit status has its row in the ledger.
ReportedIsAnchored == \A r \in Runs : pc[r] = "done" => Anchored(r)

\* Once every run of a name has returned, its advisory latest state is the terminal
\* state the pointer names: no heartbeat and no rollback of another run is left in it.
LatestSettles ==
  wal = None =>
    \A n \in {NameOf[r] : r \in Runs} : (\A r \in Runs : NameOf[r] = n => pc[r] = "done") =>
      latest[n] = [run |-> pointer[n], terminal |-> TRUE]

\* The only way a pending WAL becomes unrecoverable: its run is finalized a second
\* time, by run's except clause, after a run of the same name that another run
\* lock (or --allow-parallel) let through has been anchored behind it.
OnlyReplayIsSuperseded ==
  wal # None /\ Anchored(wal.row.run) /\ ~IsLatest(wal.row.run) =>
    /\ pass[wal.row.run] = 2
    /\ \E s \in Runs \ {wal.row.run} :
         /\ NameOf[s] = NameOf[wal.row.run]
         /\ LockOf[s] = None \/ LockOf[s] # LockOf[wal.row.run]

\* "Startup recovers valid interrupted publication before run allocation" (README.md):
\* a startup that replays the WAL of a run whose sealed tree is intact gets it verified.
StartupRecovers ==
  \A r \in Runs :
    pc[r] = "verify" /\ txn.purpose = "prepare" /\ ~drifted[wal.row.run]
      => VerifyPasses(wal.row.run)

\* A pending publication is never replaced by another one: the WAL of one run is
\* only ever advanced or removed.
WalNotReplaced == [][wal # None /\ wal' # None => wal'.row = wal.row]_vars

\* Evidence is append-only, and only the holder of the kernel lock appends it.
LedgerAppendOnly ==
  [][\/ ledger' = ledger
     \/ /\ ledgerLock # None
        /\ Len(ledger') = Len(ledger) + 1
        /\ SubSeq(ledger', 1, Len(ledger)) = ledger]_vars

\* Every run that starts ends, whoever crashes holding the kernel lock.
EveryRunEnds == \A r \in Runs : pc[r] \notin {"new"} \cup Ended ~> pc[r] \in Ended

\* What makes the invariants above inductive: who holds the kernel lock, what its
\* locals say, and that only the pointer of the pending run may be out of date.
LockInv == \A r \in Runs : pc[r] \in Locked <=> ledgerLock = r

HolderOK(r) ==
  /\ pc[r] \in Completing => wal # None /\ txn # None /\ txn.name = NameOf[wal.row.run]
  /\ pc[r] \in Undoing =>
       /\ txn # None
       /\ ~LateInterrupts => wal # None /\ txn.name = NameOf[wal.row.run]
  /\ pc[r] = "retired" => wal = None /\ txn # None
  /\ pc[r] \in {"bind", "intend"} => wal = None

HolderInv == \A r \in Runs : HolderOK(r)

OthersCurrent ==
  ~LateInterrupts =>
    \A n \in Names : wal = None \/ NameOf[wal.row.run] # n => Current(n)

IInv ==
  /\ TypeOK
  /\ LockInv
  /\ HolderInv
  /\ LedgerAgreesWithBindings
  /\ LedgerChained
  /\ WalReplayable
  /\ OthersCurrent

\* The files implement the abstract evidence store.
ImplementsEvidence == Evidence!Spec
=============================================================================
