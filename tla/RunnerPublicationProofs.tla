----------------------- MODULE RunnerPublicationProofs -----------------------
(***************************************************************************)
(* What RunnerPublication guarantees for any number of runs, names, targets *)
(* and run locks.  PointerCurrent and the refinement assume that Ctrl-C     *)
(* does not arrive between the removal of the WAL and the return from       *)
(* complete_runner_publication_wal (LateInterrupts).  If it does, the       *)
(* except clause puts the previous pointer back with nothing pending.       *)
(***************************************************************************)
EXTENDS RunnerPublication, SequenceTheorems, TLAPS

USE ConfigAssumption, NoneIsNoRecord

-----------------------------------------------------------------------------
(* Typing.                                                                 *)

\* The tip of the ledger is a run.
LEMMA TipType == TypeOK => Tip \in Runs \cup {None}
<1> SUFFICES ASSUME TypeOK, ledger # <<>> PROVE ledger[Len(ledger)].run \in Runs
  BY DEF Tip
<1>1. Len(ledger) \in DOMAIN ledger
  BY DEF TypeOK
<1>2. ledger[Len(ledger)] \in Row
  BY <1>1 DEF TypeOK
<1>3. QED
  BY <1>2 DEF Row

\* The fields of a row.
LEMMA RowTyped ==
  ASSUME TypeOK, NEW i \in DOMAIN ledger
  PROVE  /\ ledger[i] \in Row /\ ledger[i].run \in Runs
         /\ i \in Nat /\ 1 =< i /\ i =< Len(ledger)
<1>1. ledger[i] \in Row /\ i \in 1..Len(ledger) /\ Len(ledger) \in Nat
  BY DEF TypeOK
<1>2. QED
  BY <1>1 DEF Row

\* The types at the start.
LEMMA InitTyped == Init => TypeOK
  BY DEF Init, TypeOK, Control, Locked, Completing, Undoing, Ended

\* The locals of a lock holder.
LEMMA SnapshotTyped ==
  ASSUME TypeOK, NEW purpose \in Purposes, NEW n \in Names
  PROVE  Snapshot(purpose, n) \in Txn
  BY DEF TypeOK, Snapshot, Txn

\* The fields of a pending record.
LEMMA WalRunTyped ==
  ASSUME TypeOK, wal # None
  PROVE  wal \in Wal /\ wal.row \in Row /\ wal.row.run \in Runs
  BY DEF TypeOK, Wal, Row

\* A handler that raises leaves well-typed control state.
LEMMA RaiseTyped ==
  ASSUME TypeOK, NEW r \in Runs, Raise(r)
  PROVE  /\ pc' \in [Runs -> Control]
         /\ pass' \in [Runs -> 1..2]
         /\ runLock' \in [RunLocks -> Runs \cup {None}]
         /\ ledgerLock' \in Runs \cup {None}
         /\ txn' \in Txn \cup {None}
  BY DEF TypeOK, Raise, Goto, ReleaseRunLock, Control, Ended

\* Whoever completes a record has one.
LEMMA HeldWalTyped ==
  ASSUME TypeOK, HolderInv, NEW r \in Runs, pc[r] \in Completing
  PROVE  wal # None /\ wal \in Wal /\ wal.row \in Row /\ wal.row.run \in Runs
  BY WalRunTyped DEF HolderInv, HolderOK

\* A phase update keeps the record.
LEMMA MarkKeepsRow ==
  ASSUME TypeOK, HolderInv, NEW r \in Runs, MarkAnchored(r) \/ MarkPublished(r)
  PROVE  wal' \in Wal /\ wal'.row = wal.row
<1>1. wal \in Wal
  BY HeldWalTyped DEF MarkAnchored, MarkPublished, Completing
<1>2. QED
  BY <1>1 DEF MarkAnchored, MarkPublished, Wal, Phases

\* The row publish_runner_record writes ahead is its own run's.
IntendedRow(r) ==
  IF Anchored(r) THEN ledger[CHOOSE i \in PositionsOf(r) : TRUE] ELSE NextRow(r)

\* The row that a run intends.
LEMMA IntendedRowTyped ==
  ASSUME TypeOK, NEW r \in Runs
  PROVE  IntendedRow(r) \in Row /\ IntendedRow(r).run = r
<1>1. NextRow(r) \in Row /\ NextRow(r).run = r
  BY TipType DEF NextRow, Row, TypeOK
<1>2. ASSUME Anchored(r)
      PROVE  /\ ledger[CHOOSE i \in PositionsOf(r) : TRUE] \in Row
             /\ ledger[CHOOSE i \in PositionsOf(r) : TRUE].run = r
  BY <1>2 DEF Anchored, PositionsOf, TypeOK
<1>3. QED
  BY <1>1, <1>2 DEF IntendedRow

\* What Intend writes when it does not raise.
LEMMA IntendWrites ==
  ASSUME TypeOK, NEW r \in Runs, Intend(r), ~(Raise(r) /\ UNCHANGED disk)
  PROVE  /\ wal' = [row |-> IntendedRow(r), phase |-> "INTENT_FSYNCED"]
         /\ wal' \in Wal /\ wal' # None /\ wal'.row = IntendedRow(r)
         /\ txn' \in Txn /\ txn' # None /\ txn'.name = NameOf[r]
         /\ Bound(r)
         /\ Goto(r, "anchor")
         /\ UNCHANGED <<pass, runLock, ledgerLock, binding, ledger, pointer, latest, drifted>>
<1>1. /\ wal' = [row |-> IntendedRow(r), phase |-> "INTENT_FSYNCED"]
      /\ txn' = Snapshot("publish", NameOf[r])
      /\ Bound(r)
      /\ Goto(r, "anchor")
      /\ UNCHANGED <<pass, runLock, ledgerLock, binding, ledger, pointer, latest, drifted>>
  BY DEF Intend, IntendedRow
<1>2. wal' \in Wal /\ wal'.row = IntendedRow(r)
  BY <1>1, IntendedRowTyped DEF Wal, Phases
<1>3. txn' \in Txn /\ txn'.name = NameOf[r]
  BY <1>1, SnapshotTyped DEF Purposes, Snapshot
<1>4. QED
  BY <1>1, <1>2, <1>3

\* Taking the ledger lock either finds no WAL, or snapshots what its replay overwrites.
LEMMA RecoverStarts ==
  ASSUME TypeOK, NEW r \in Runs, Prepare(r) \/ BeginPublish(r)
  PROVE  \/ /\ wal = None /\ UNCHANGED txn
            /\ Goto(r, "bind") \/ Goto(r, "intend")
         \/ /\ wal # None /\ Goto(r, "anchor")
            /\ txn' \in Txn /\ txn' # None /\ txn'.name = NameOf[wal.row.run]
<1>1. CASE wal = None
  BY <1>1 DEF Prepare, BeginPublish, Recover
<1>2. CASE wal # None
  <2>1. NameOf[wal.row.run] \in Names
    BY <1>2, WalRunTyped
  <2>2. PICK purpose \in Purposes : txn' = Snapshot(purpose, NameOf[wal.row.run])
    BY <1>2 DEF Prepare, BeginPublish, Recover, Purposes
  <2>3. txn' \in Txn /\ txn'.name = NameOf[wal.row.run]
    BY <2>1, <2>2, SnapshotTyped DEF Snapshot
  <2>4. QED
    BY <1>2, <2>3 DEF Prepare, BeginPublish, Recover
<1>3. QED
  BY <1>1, <1>2

\* Every step keeps the types.
LEMMA StepTyped == TypeOK /\ HolderInv /\ [Next]_vars => TypeOK'
<1> SUFFICES ASSUME TypeOK, HolderInv, [Next]_vars PROVE TypeOK'
  OBVIOUS
<1> USE DEF Control, Locked, Completing, Undoing, Ended, Goto
<1>1. ASSUME NEW r \in Runs, Prepare(r) PROVE TypeOK'
  BY <1>1, RecoverStarts DEF Prepare, TypeOK, disk
<1>2. ASSUME NEW r \in Runs, Bind(r) PROVE TypeOK'
  BY <1>2 DEF Bind, TypeOK, Identity, Binding
<1>3. ASSUME NEW r \in Runs, Refuse(r) PROVE TypeOK'
  BY <1>3 DEF Refuse, TypeOK, disk
<1>4. ASSUME NEW r \in Runs, Launch(r) PROVE TypeOK'
  BY <1>4 DEF Launch, TypeOK, Live
<1>5. ASSUME NEW r \in Runs, Heartbeat(r) PROVE TypeOK'
  BY <1>5 DEF Heartbeat, TypeOK, Live
<1>6. ASSUME NEW r \in Runs, Finish(r) PROVE TypeOK'
  BY <1>6 DEF Finish, TypeOK, disk
<1>7. ASSUME NEW r \in Runs, StragglerWrites(r) PROVE TypeOK'
  BY <1>7 DEF StragglerWrites, TypeOK
<1>8. ASSUME NEW r \in Runs, BeginPublish(r) PROVE TypeOK'
  BY <1>8, RecoverStarts DEF BeginPublish, TypeOK, disk
<1>9. ASSUME NEW r \in Runs, LockTimeout(r) PROVE TypeOK'
  BY <1>9, RaiseTyped DEF LockTimeout, TypeOK, disk
<1>10. ASSUME NEW r \in Runs, Intend(r) PROVE TypeOK'
  <2>1. CASE Raise(r) /\ UNCHANGED disk
    BY <2>1, RaiseTyped DEF TypeOK, disk
  <2>2. CASE ~(Raise(r) /\ UNCHANGED disk)
    BY <1>10, <2>2, IntendWrites DEF TypeOK
  <2>3. QED
    BY <2>1, <2>2
<1>11. ASSUME NEW r \in Runs, AnchorRow(r) PROVE TypeOK'
  <2>1. ledger' = ledger \/ ledger' = Append(ledger, wal.row)
    BY <1>11 DEF AnchorRow
  <2>2. ledger \in Seq(Row) /\ wal.row \in Row
    BY <1>11, HeldWalTyped DEF AnchorRow, TypeOK
  <2>3. Append(ledger, wal.row) \in Seq(Row)
    BY ONLY <2>2, AppendProperties
  <2>4. ledger' \in Seq(Row)
    BY <2>1, <2>2, <2>3
  <2>5. QED
    BY <1>11, <2>4 DEF AnchorRow, TypeOK
<1>12. ASSUME NEW r \in Runs, MarkAnchored(r) \/ MarkPublished(r) PROVE TypeOK'
  BY <1>12, MarkKeepsRow DEF MarkAnchored, MarkPublished, TypeOK
<1>13. ASSUME NEW r \in Runs, WritePointer(r) \/ CopyLatest(r) PROVE TypeOK'
  <2>1. wal.row.run \in Runs
    BY <1>13, HeldWalTyped DEF WritePointer, CopyLatest
  <2>2. CASE WritePointer(r)
    BY <2>1, <2>2 DEF WritePointer, TypeOK
  <2>3. CASE CopyLatest(r)
    BY <2>1, <2>3 DEF CopyLatest, TypeOK, Live
  <2>4. QED
    BY <1>13, <2>2, <2>3
<1>14. ASSUME NEW r \in Runs, VerifyAndRetire(r) PROVE TypeOK'
  BY <1>14 DEF VerifyAndRetire, TypeOK
<1>15. ASSUME NEW r \in Runs, Return(r) PROVE TypeOK'
  <2>1. txn \in Txn
    BY <1>15 DEF Return, HolderInv, HolderOK, TypeOK
  <2>2. pc' \in [Runs -> Control]
    BY <1>15, <2>1 DEF Return, TypeOK, Txn, Purposes
  <2>3. QED
    BY <1>15, <2>2 DEF Return, TypeOK, disk
<1>16. ASSUME NEW r \in Runs, UndoPointer(r) PROVE TypeOK'
  <2>1. txn \in Txn
    BY <1>16 DEF UndoPointer, HolderInv, HolderOK, TypeOK
  <2>2. QED
    BY <1>16, <2>1 DEF UndoPointer, TypeOK, Txn
<1>17. ASSUME NEW r \in Runs, UndoLatest(r) PROVE TypeOK'
  <2>1. txn \in Txn
    BY <1>17 DEF UndoLatest, HolderInv, HolderOK, TypeOK
  <2>2. latest' \in [Names -> Live \cup {None}]
    BY <1>17, <2>1 DEF UndoLatest, TypeOK, Txn
  <2>3. QED
    BY <1>17, <2>2, RaiseTyped DEF UndoLatest, TypeOK
<1>18. ASSUME NEW r \in Runs, Report(r) PROVE TypeOK'
  BY <1>18 DEF Report, ReleaseRunLock, TypeOK, disk
<1>19. ASSUME NEW r \in Runs, Fault(r) PROVE TypeOK'
  <2>1. CASE Raise(r) /\ UNCHANGED disk
    BY <2>1, RaiseTyped DEF TypeOK, disk
  <2>2. CASE Goto(r, "undoPointer") /\ UNCHANGED <<pass, runLock, ledgerLock, txn, disk>>
    BY <2>2 DEF TypeOK, disk
  <2>3. QED
    BY <1>19, <2>1, <2>2 DEF Fault
<1>20. ASSUME NEW r \in Runs, Crash(r) PROVE TypeOK'
  BY <1>20 DEF Crash, ReleaseRunLock, TypeOK, disk
<1>21. CASE UNCHANGED vars
  BY <1>21 DEF vars, disk, TypeOK
<1>22. QED
  BY <1>1, <1>2, <1>3, <1>4, <1>5, <1>6, <1>7, <1>8, <1>9, <1>10, <1>11, <1>12, <1>13,
     <1>14, <1>15, <1>16, <1>17, <1>18, <1>19, <1>20, <1>21 DEF Next, Progress

-----------------------------------------------------------------------------
(* Who holds the kernel ledger lock, and what its locals say.              *)

\* The lock's holder is exactly the process inside a locked section.
LEMMA StepLocked == TypeOK /\ LockInv /\ HolderInv /\ [Next]_vars => LockInv'
<1> SUFFICES ASSUME TypeOK, LockInv, HolderInv, [Next]_vars PROVE LockInv'
  OBVIOUS
<1> USE DEF LockInv, TypeOK, Locked, Completing, Undoing, Ended, Goto
<1>1. ASSUME NEW r \in Runs, Prepare(r) PROVE LockInv'
  BY <1>1 DEF Prepare, Recover
<1>2. ASSUME NEW r \in Runs, Bind(r) PROVE LockInv'
  BY <1>2 DEF Bind
<1>3. ASSUME NEW r \in Runs, Refuse(r) PROVE LockInv'
  BY <1>3 DEF Refuse
<1>4. ASSUME NEW r \in Runs, Launch(r) PROVE LockInv'
  BY <1>4 DEF Launch
<1>5. ASSUME NEW r \in Runs, Heartbeat(r) PROVE LockInv'
  BY <1>5 DEF Heartbeat
<1>6. ASSUME NEW r \in Runs, Finish(r) PROVE LockInv'
  BY <1>6 DEF Finish
<1>7. ASSUME NEW r \in Runs, StragglerWrites(r) PROVE LockInv'
  BY <1>7 DEF StragglerWrites
<1>8. ASSUME NEW r \in Runs, BeginPublish(r) PROVE LockInv'
  BY <1>8 DEF BeginPublish, Recover
<1>9. ASSUME NEW r \in Runs, LockTimeout(r) PROVE LockInv'
  BY <1>9 DEF LockTimeout, Raise
<1>10. ASSUME NEW r \in Runs, Intend(r) PROVE LockInv'
  BY <1>10 DEF Intend, Raise
<1>11. ASSUME NEW r \in Runs, AnchorRow(r) PROVE LockInv'
  BY <1>11 DEF AnchorRow
<1>12. ASSUME NEW r \in Runs, MarkAnchored(r) PROVE LockInv'
  BY <1>12 DEF MarkAnchored
<1>13. ASSUME NEW r \in Runs, WritePointer(r) PROVE LockInv'
  BY <1>13 DEF WritePointer
<1>14. ASSUME NEW r \in Runs, CopyLatest(r) PROVE LockInv'
  BY <1>14 DEF CopyLatest
<1>15. ASSUME NEW r \in Runs, MarkPublished(r) PROVE LockInv'
  BY <1>15 DEF MarkPublished
<1>16. ASSUME NEW r \in Runs, VerifyAndRetire(r) PROVE LockInv'
  BY <1>16 DEF VerifyAndRetire
<1>17. ASSUME NEW r \in Runs, Return(r) PROVE LockInv'
  BY <1>17 DEF Return, HolderInv, HolderOK, Txn, Purposes
<1>18. ASSUME NEW r \in Runs, UndoPointer(r) PROVE LockInv'
  BY <1>18 DEF UndoPointer
<1>19. ASSUME NEW r \in Runs, UndoLatest(r) PROVE LockInv'
  BY <1>19 DEF UndoLatest, Raise
<1>20. ASSUME NEW r \in Runs, Report(r) PROVE LockInv'
  BY <1>20 DEF Report
<1>21. ASSUME NEW r \in Runs, Fault(r) PROVE LockInv'
  BY <1>21 DEF Fault, Raise
<1>22. ASSUME NEW r \in Runs, Crash(r) PROVE LockInv'
  BY <1>22 DEF Crash
<1>23. CASE UNCHANGED vars
  BY <1>23 DEF vars
<1>24. QED
  BY <1>1, <1>2, <1>3, <1>4, <1>5, <1>6, <1>7, <1>8, <1>9, <1>10, <1>11, <1>12, <1>13,
     <1>14, <1>15, <1>16, <1>17, <1>18, <1>19, <1>20, <1>21, <1>22, <1>23 DEF Next, Progress

\* While a WAL is being completed it exists, and the holder's snapshot is of its name.
LEMMA StepHolder == TypeOK /\ LockInv /\ HolderInv /\ [Next]_vars => HolderInv'
<1> SUFFICES ASSUME TypeOK, LockInv, HolderInv, [Next]_vars,
                    NEW s \in Runs
             PROVE  HolderOK(s)'
  BY DEF HolderInv
<1> USE DEF HolderInv, HolderOK, LockInv, TypeOK, Locked, Completing, Undoing, Ended, Goto, disk
<1>1. ASSUME NEW r \in Runs, Prepare(r) PROVE HolderOK(s)'
  BY <1>1, RecoverStarts DEF Prepare
<1>2. ASSUME NEW r \in Runs, Bind(r) PROVE HolderOK(s)'
  BY <1>2 DEF Bind
<1>3. ASSUME NEW r \in Runs, Refuse(r) PROVE HolderOK(s)'
  BY <1>3 DEF Refuse
<1>4. ASSUME NEW r \in Runs, Launch(r) PROVE HolderOK(s)'
  BY <1>4 DEF Launch
<1>5. ASSUME NEW r \in Runs, Heartbeat(r) PROVE HolderOK(s)'
  BY <1>5 DEF Heartbeat
<1>6. ASSUME NEW r \in Runs, Finish(r) PROVE HolderOK(s)'
  BY <1>6 DEF Finish
<1>7. ASSUME NEW r \in Runs, StragglerWrites(r) PROVE HolderOK(s)'
  BY <1>7 DEF StragglerWrites
<1>8. ASSUME NEW r \in Runs, BeginPublish(r) PROVE HolderOK(s)'
  BY <1>8, RecoverStarts DEF BeginPublish
<1>9. ASSUME NEW r \in Runs, LockTimeout(r) PROVE HolderOK(s)'
  BY <1>9 DEF LockTimeout, Raise
<1>10. ASSUME NEW r \in Runs, Intend(r) PROVE HolderOK(s)'
  <2>1. CASE Raise(r) /\ UNCHANGED disk
    BY <1>10, <2>1 DEF Raise, Intend
  <2>2. CASE ~(Raise(r) /\ UNCHANGED disk)
    <3>1. wal' # None /\ wal'.row.run = r /\ txn' # None /\ txn'.name = NameOf[r]
      BY <1>10, <2>2, IntendWrites, IntendedRowTyped
    <3>2. Goto(r, "anchor") /\ ledgerLock' = ledgerLock /\ pc[r] = "intend"
      BY <1>10, <2>2, IntendWrites DEF Intend
    <3>3. QED
      BY <3>1, <3>2
  <2>3. QED
    BY <2>1, <2>2
<1>11. ASSUME NEW r \in Runs, AnchorRow(r) PROVE HolderOK(s)'
  BY <1>11 DEF AnchorRow
<1>12. ASSUME NEW r \in Runs, MarkAnchored(r) PROVE HolderOK(s)'
  BY <1>12, MarkKeepsRow DEF MarkAnchored
<1>13. ASSUME NEW r \in Runs, WritePointer(r) PROVE HolderOK(s)'
  BY <1>13 DEF WritePointer
<1>14. ASSUME NEW r \in Runs, CopyLatest(r) PROVE HolderOK(s)'
  BY <1>14 DEF CopyLatest
<1>15. ASSUME NEW r \in Runs, MarkPublished(r) PROVE HolderOK(s)'
  BY <1>15, MarkKeepsRow DEF MarkPublished
<1>16. ASSUME NEW r \in Runs, VerifyAndRetire(r) PROVE HolderOK(s)'
  BY <1>16 DEF VerifyAndRetire
<1>17. ASSUME NEW r \in Runs, Return(r) PROVE HolderOK(s)'
  BY <1>17 DEF Return, Txn, Purposes
<1>18. ASSUME NEW r \in Runs, UndoPointer(r) PROVE HolderOK(s)'
  BY <1>18 DEF UndoPointer
<1>19. ASSUME NEW r \in Runs, UndoLatest(r) PROVE HolderOK(s)'
  BY <1>19 DEF UndoLatest, Raise
<1>20. ASSUME NEW r \in Runs, Report(r) PROVE HolderOK(s)'
  BY <1>20 DEF Report
<1>21. ASSUME NEW r \in Runs, Fault(r) PROVE HolderOK(s)'
  BY <1>21 DEF Fault, Raise
<1>22. ASSUME NEW r \in Runs, Crash(r) PROVE HolderOK(s)'
  BY <1>22 DEF Crash
<1>23. CASE UNCHANGED vars
  BY <1>23 DEF vars
<1>24. QED
  BY <1>1, <1>2, <1>3, <1>4, <1>5, <1>6, <1>7, <1>8, <1>9, <1>10, <1>11, <1>12, <1>13,
     <1>14, <1>15, <1>16, <1>17, <1>18, <1>19, <1>20, <1>21, <1>22, <1>23 DEF Next, Progress

-----------------------------------------------------------------------------
(* The ledger, its bindings and the write-ahead record.                    *)

\* The only steps that write the binding, the ledger, the WAL or a pointer.
Writes(r) ==
  \/ Bind(r) \/ Intend(r) \/ AnchorRow(r) \/ MarkAnchored(r) \/ WritePointer(r)
  \/ MarkPublished(r) \/ VerifyAndRetire(r) \/ UndoPointer(r)

\* A step that is none of the writes leaves bindings, ledger, WAL and pointers alone.
LEMMA QuietOrWrites ==
  ASSUME [Next]_vars
  PROVE  UNCHANGED <<binding, ledger, wal, pointer>> \/ \E r \in Runs : Writes(r)
<1>1. ASSUME NEW r \in Runs, Prepare(r) \/ Refuse(r) \/ Launch(r) \/ Heartbeat(r) \/ Finish(r)
      PROVE  UNCHANGED <<binding, ledger, wal, pointer>>
  BY <1>1 DEF Prepare, Refuse, Launch, Heartbeat, Finish, disk
<1>2. ASSUME NEW r \in Runs, StragglerWrites(r) \/ BeginPublish(r) \/ LockTimeout(r) \/ Return(r)
      PROVE  UNCHANGED <<binding, ledger, wal, pointer>>
  BY <1>2 DEF StragglerWrites, BeginPublish, LockTimeout, Return, disk
<1>3. ASSUME NEW r \in Runs, CopyLatest(r) \/ UndoLatest(r) \/ Report(r) \/ Fault(r) \/ Crash(r)
      PROVE  UNCHANGED <<binding, ledger, wal, pointer>>
  BY <1>3 DEF CopyLatest, UndoLatest, Report, Fault, Crash, disk
<1>4. CASE UNCHANGED vars
  BY <1>4 DEF vars, disk
<1>5. QED
  BY <1>1, <1>2, <1>3, <1>4 DEF Next, Progress, Writes

\* What appending a row to the ledger gives.
LEMMA AppendRow ==
  ASSUME ledger \in Seq(Row), NEW row \in Row, ledger' = Append(ledger, row)
  PROVE  /\ Len(ledger') = Len(ledger) + 1
         /\ DOMAIN ledger' = DOMAIN ledger \cup {Len(ledger) + 1}
         /\ DOMAIN ledger = 1..Len(ledger)
         /\ ledger'[Len(ledger) + 1] = row
         /\ \A i \in DOMAIN ledger : ledger'[i] = ledger[i]
<1>1. Len(ledger) \in Nat /\ DOMAIN ledger = 1..Len(ledger)
  BY LenProperties
<1>2. /\ Len(ledger') = Len(ledger) + 1
      /\ \A i \in 1..Len(ledger) : ledger'[i] = ledger[i]
      /\ ledger'[Len(ledger) + 1] = row
      /\ ledger' \in Seq(Row)
  BY AppendProperties
<1>3. DOMAIN ledger' = 1..(Len(ledger) + 1)
  BY <1>2, LenProperties
<1>4. QED
  BY <1>1, <1>2, <1>3

\* The two ways AnchorRow writes nothing, and the one in which it appends.
LEMMA AnchorWrites ==
  ASSUME NEW r \in Runs, AnchorRow(r)
  PROVE  \/ ledger' = ledger
         \/ /\ ledger' = Append(ledger, wal.row)
            /\ Bound(wal.row.run)
            /\ ~Anchored(wal.row.run)
            /\ Extends(wal.row)
  BY DEF AnchorRow, AnchoredAs, Anchored

\* Every step keeps the ledger in agreement with the bindings.
LEMMA StepBindings ==
  ASSUME TypeOK, HolderInv, LedgerAgreesWithBindings, [Next]_vars
  PROVE  LedgerAgreesWithBindings'
<1>1. ASSUME UNCHANGED <<binding, ledger>> PROVE LedgerAgreesWithBindings'
  BY <1>1 DEF LedgerAgreesWithBindings, Bound
<1>2. ASSUME NEW r \in Runs, Bind(r) PROVE LedgerAgreesWithBindings'
  <2> SUFFICES ASSUME NEW i \in DOMAIN ledger
               PROVE  Bound(ledger[i].run)'
    BY <1>2 DEF Bind, LedgerAgreesWithBindings, Bound
  <2> DEFINE s == ledger[i].run
  <2>1. s \in Runs /\ Bound(s)
    BY RowTyped DEF LedgerAgreesWithBindings
  <2>2. binding[FoldOf[NameOf[s]]] # None
    BY <2>1 DEF Bound, Identity, Binding
  <2>3. binding' = binding \/ binding' = [binding EXCEPT ![FoldOf[NameOf[r]]] = Identity(r)]
    BY <1>2 DEF Bind
  <2>4. CASE binding' = binding
    BY <1>2, <2>1, <2>4 DEF Bind, Bound
  <2>5. CASE binding' # binding
    <3>1. binding[FoldOf[NameOf[r]]] \in {None, Identity(r)}
      BY <1>2, <2>5 DEF Bind
    <3>2. CASE FoldOf[NameOf[s]] = FoldOf[NameOf[r]]
      BY <1>2, <2>1, <2>2, <2>3, <2>5, <3>1, <3>2 DEF Bind, Bound, TypeOK
    <3>3. CASE FoldOf[NameOf[s]] # FoldOf[NameOf[r]]
      BY <1>2, <2>1, <2>3, <2>5, <3>3 DEF Bind, Bound, TypeOK
    <3>4. QED
      BY <3>2, <3>3
  <2>6. QED
    BY <2>4, <2>5
<1>3. ASSUME NEW r \in Runs, AnchorRow(r) PROVE LedgerAgreesWithBindings'
  <2>1. UNCHANGED binding
    BY <1>3 DEF AnchorRow
  <2>2. CASE ledger' = ledger
    BY <1>1, <2>1, <2>2
  <2>3. CASE ledger' # ledger
    <3>1. ledger' = Append(ledger, wal.row) /\ Bound(wal.row.run)
      BY <1>3, <2>3, AnchorWrites
    <3>2. ledger \in Seq(Row) /\ wal.row \in Row
      BY <1>3, HeldWalTyped DEF AnchorRow, TypeOK, Completing
    <3>3. /\ DOMAIN ledger' = DOMAIN ledger \cup {Len(ledger) + 1}
          /\ ledger'[Len(ledger) + 1] = wal.row
          /\ \A i \in DOMAIN ledger : ledger'[i] = ledger[i]
      BY <3>1, <3>2, AppendRow
    <3>4. QED
      BY <2>1, <3>1, <3>3 DEF LedgerAgreesWithBindings, Bound
  <2>4. QED
    BY <2>2, <2>3
<1>4. ASSUME NEW r \in Runs, Writes(r), ~Bind(r), ~AnchorRow(r)
      PROVE  UNCHANGED <<binding, ledger>>
  BY <1>4 DEF Writes, Intend, MarkAnchored, WritePointer, MarkPublished, VerifyAndRetire,
     UndoPointer, disk
<1>5. QED
  BY <1>1, <1>2, <1>3, <1>4, QuietOrWrites

\* Appending the row of a run that has none adds its only position.
LEMMA AppendPositions ==
  ASSUME TypeOK, NEW row \in Row, ~Anchored(row.run), ledger' = Append(ledger, row)
  PROVE  /\ PositionsOf(row.run)' = {Len(ledger) + 1}
         /\ \A x \in Runs : x # row.run => PositionsOf(x)' = PositionsOf(x)
<1>1. /\ DOMAIN ledger' = DOMAIN ledger \cup {Len(ledger) + 1}
      /\ ledger'[Len(ledger) + 1] = row
      /\ \A i \in DOMAIN ledger : ledger'[i] = ledger[i]
  BY AppendRow DEF TypeOK
<1>2. QED
  BY <1>1 DEF PositionsOf, Anchored

\* Every step keeps the ledger a chain with each run once.
LEMMA StepChained ==
  ASSUME TypeOK, HolderInv, LedgerChained, [Next]_vars
  PROVE  LedgerChained'
<1>1. ASSUME UNCHANGED ledger PROVE LedgerChained'
  BY <1>1 DEF LedgerChained, PositionsOf
<1>2. ASSUME NEW r \in Runs, AnchorRow(r), ledger' # ledger PROVE LedgerChained'
  <2> DEFINE n == Len(ledger)
  <2>0. PICK row \in Row : row = wal.row
    BY <1>2, HeldWalTyped DEF AnchorRow, Completing
  <2>1. ledger' = Append(ledger, row) /\ ~Anchored(row.run) /\ Extends(row)
    BY <1>2, <2>0, AnchorWrites
  <2>2. ledger \in Seq(Row)
    BY DEF TypeOK
  <2>3. /\ DOMAIN ledger' = DOMAIN ledger \cup {n + 1}
        /\ DOMAIN ledger = 1..n
        /\ ledger'[n + 1] = row
        /\ \A i \in DOMAIN ledger : ledger'[i] = ledger[i]
    BY <2>1, <2>2, AppendRow
  <2>4. /\ PositionsOf(row.run)' = {n + 1}
        /\ \A x \in Runs : x # row.run => PositionsOf(x)' = PositionsOf(x)
    BY <2>1, <2>2, AppendPositions
  <2> SUFFICES ASSUME NEW i \in DOMAIN ledger'
               PROVE  /\ ledger'[i].seq = i
                      /\ ledger'[i].prev = IF i = 1 THEN None ELSE ledger'[i - 1].run
                      /\ PositionsOf(ledger[i].run)' = {i}
    BY DEF LedgerChained, PositionsOf
  <2>5. n \in Nat
    BY <2>2, LenProperties
  <2>6. CASE i \in DOMAIN ledger
    <3>1. ledger'[i] = ledger[i] /\ ledger[i].run \in Runs
      BY <2>3, <2>6, RowTyped
    <3>2. i # 1 => i - 1 \in DOMAIN ledger /\ ledger'[i - 1] = ledger[i - 1]
      BY <2>3, <2>5, <2>6
    <3>3. ledger[i].run # row.run
      BY <2>1, <2>6 DEF Anchored, PositionsOf
    <3>4. PositionsOf(ledger[i].run)' = {i}
      <4>1. PICK x \in Runs : x = ledger[i].run
        BY <3>1
      <4>2. PositionsOf(x)' = {i}
        BY <2>4, <2>6, <3>3, <4>1 DEF LedgerChained
      <4>3. QED
        BY <3>1, <4>1, <4>2 DEF PositionsOf
    <3>5. QED
      BY <2>6, <3>1, <3>2, <3>4 DEF LedgerChained
  <2>7. CASE i = n + 1
    <3>1. row.seq = n + 1 /\ row.prev = Tip
      BY <2>1 DEF Extends
    <3>2. n = 0 => Tip = None
      BY <2>2, EmptySeq DEF Tip
    <3>3. n # 0 => Tip = ledger'[n].run
      <4>1. n # 0 => n \in DOMAIN ledger /\ ledger # <<>>
        BY <2>2, <2>3, <2>5, EmptySeq
      <4>2. QED
        BY <2>3, <4>1 DEF Tip
    <3>4. ledger'[i] = row
      BY <2>3, <2>7
    <3>5. PositionsOf(ledger[i].run)' = {i}
      BY <2>4, <2>7, <3>4 DEF PositionsOf
    <3>6. i = 1 <=> n = 0
      BY <2>5, <2>7
    <3>7. i - 1 = n
      BY <2>5, <2>7
    <3>8. QED
      BY <2>7, <3>1, <3>2, <3>3, <3>4, <3>5, <3>6, <3>7
  <2>8. QED
    BY <2>3, <2>6, <2>7
<1>3. ASSUME NEW r \in Runs, Writes(r), ~AnchorRow(r) PROVE UNCHANGED ledger
  BY <1>3 DEF Writes, Bind, Intend, MarkAnchored, WritePointer, MarkPublished, VerifyAndRetire,
     UndoPointer, disk
<1>4. QED
  BY <1>1, <1>2, <1>3, QuietOrWrites

\* The record publish_runner_record writes ahead can be replayed.
LEMMA IntendedReplays ==
  ASSUME TypeOK, LedgerChained, NEW r \in Runs
  PROVE  \/ AnchoredAs(IntendedRow(r))
         \/ ~Anchored(IntendedRow(r).run) /\ Extends(IntendedRow(r))
<1>1. CASE Anchored(r)
  <2>1. PICK i \in PositionsOf(r) : IntendedRow(r) = ledger[i]
    BY <1>1 DEF IntendedRow, Anchored
  <2>2. i \in DOMAIN ledger /\ ledger[i].run = r /\ PositionsOf(r) = {i}
    BY <2>1 DEF PositionsOf, LedgerChained
  <2>3. QED
    BY <2>1, <2>2 DEF AnchoredAs
<1>2. CASE ~Anchored(r)
  BY <1>2 DEF IntendedRow, NextRow, Extends
<1>3. QED
  BY <1>1, <1>2

\* Every step keeps the pending record replayable.
LEMMA StepReplayable ==
  ASSUME TypeOK, HolderInv, LedgerChained, WalReplayable, [Next]_vars
  PROVE  WalReplayable'
<1>1. ASSUME UNCHANGED ledger, wal' # None => wal # None /\ wal'.row = wal.row
      PROVE  WalReplayable'
  BY <1>1 DEF WalReplayable, AnchoredAs, Anchored, PositionsOf, Extends, Tip
<1>2. ASSUME NEW r \in Runs, Intend(r) PROVE WalReplayable'
  <2>1. CASE Raise(r) /\ UNCHANGED disk
    BY <1>1, <2>1 DEF disk
  <2>2. CASE ~(Raise(r) /\ UNCHANGED disk)
    <3>1. wal'.row = IntendedRow(r) /\ UNCHANGED ledger
      BY <1>2, <2>2, IntendWrites
    <3>2. QED
      BY <3>1, IntendedReplays
         DEF WalReplayable, AnchoredAs, Anchored, PositionsOf, Extends, Tip
  <2>3. QED
    BY <2>1, <2>2
<1>3. ASSUME NEW r \in Runs, AnchorRow(r) PROVE WalReplayable'
  <2>1. UNCHANGED wal
    BY <1>3 DEF AnchorRow
  <2>2. CASE ledger' = ledger
    BY <1>1, <2>1, <2>2
  <2>3. CASE ledger' # ledger
    <3>1. PICK row \in Row : row = wal.row
      BY <1>3, HeldWalTyped DEF AnchorRow, Completing
    <3>2. ledger' = Append(ledger, row) /\ ~Anchored(row.run)
      BY <1>3, <2>3, <3>1, AnchorWrites
    <3>3. /\ Len(ledger) + 1 \in DOMAIN ledger'
          /\ ledger'[Len(ledger) + 1] = row
      BY <3>2, AppendRow DEF TypeOK
    <3>4. PositionsOf(row.run)' = {Len(ledger) + 1}
      BY <3>2, AppendPositions
    <3>5. AnchoredAs(row)'
      BY <3>3, <3>4 DEF AnchoredAs, PositionsOf
    <3>6. row = wal'.row
      BY <2>1, <3>1
    <3>7. QED
      BY <3>5, <3>6 DEF WalReplayable, AnchoredAs, PositionsOf
  <2>4. QED
    BY <2>2, <2>3
<1>4. ASSUME NEW r \in Runs, MarkAnchored(r) \/ MarkPublished(r) PROVE WalReplayable'
  <2>1. wal # None
    BY <1>4, HeldWalTyped DEF MarkAnchored, MarkPublished, Completing
  <2>2. UNCHANGED ledger /\ wal'.row = wal.row
    BY <1>4, MarkKeepsRow DEF MarkAnchored, MarkPublished
  <2>3. QED
    BY <1>1, <2>1, <2>2
<1>5. ASSUME NEW r \in Runs, VerifyAndRetire(r) PROVE WalReplayable'
  BY <1>1, <1>5 DEF VerifyAndRetire
<1>6. ASSUME NEW r \in Runs, Bind(r) \/ WritePointer(r) \/ UndoPointer(r) PROVE WalReplayable'
  BY <1>1, <1>6 DEF Bind, WritePointer, UndoPointer
<1>7. QED
  BY <1>1, <1>2, <1>3, <1>4, <1>5, <1>6, QuietOrWrites DEF Writes

-----------------------------------------------------------------------------
(* The pointers.                                                           *)

\* A pointer is current when it names the last row of its name.
LEMMA CurrentMeans ==
  ASSUME NEW n \in Names
  PROVE  Current(n) <=>
           \/ pointer[n] = None /\ \A i \in DOMAIN ledger : NameOf[ledger[i].run] # n
           \/ \E i \in DOMAIN ledger :
                /\ ledger[i].run = pointer[n]
                /\ NameOf[pointer[n]] = n
                /\ \A j \in DOMAIN ledger : NameOf[ledger[j].run] = n => j =< i
  BY DEF Current, Evidence!EndsWith, Committed

\* It stays so while neither ledger nor pointer changes.
LEMMA CurrentKept ==
  ASSUME NEW n \in Names, Current(n), UNCHANGED ledger, pointer'[n] = pointer[n]
  PROVE  Current(n)'
  BY DEF Current, Evidence!EndsWith, Committed

\* Appending the row of another name leaves a pointer current.
LEMMA OtherAppendKeepsCurrent ==
  ASSUME TypeOK, NEW n \in Names, Current(n), UNCHANGED pointer,
         NEW row \in Row, NameOf[row.run] # n, ledger' = Append(ledger, row)
  PROVE  Current(n)'
<1>1. /\ DOMAIN ledger' = DOMAIN ledger \cup {Len(ledger) + 1}
      /\ ledger'[Len(ledger) + 1] = row
      /\ \A i \in DOMAIN ledger : ledger'[i] = ledger[i]
  BY AppendRow DEF TypeOK
<1>2. /\ DOMAIN Committed' = DOMAIN ledger \cup {Len(ledger) + 1}
      /\ \A i \in DOMAIN ledger : Committed'[i] = Committed[i]
      /\ NameOf[Committed'[Len(ledger) + 1]] # n
  BY <1>1 DEF Committed
<1>3. DOMAIN Committed = DOMAIN ledger
  BY DEF Committed
<1>4. CASE pointer[n] = None /\ \A i \in DOMAIN Committed : NameOf[Committed[i]] # n
  BY <1>2, <1>3, <1>4 DEF Current, Evidence!EndsWith
<1>5. CASE \E i \in DOMAIN Committed :
             /\ Committed[i] = pointer[n]
             /\ NameOf[pointer[n]] = n
             /\ \A j \in DOMAIN Committed : NameOf[Committed[j]] = n => j =< i
  <2>1. PICK i \in DOMAIN ledger :
             /\ Committed[i] = pointer[n]
             /\ NameOf[pointer[n]] = n
             /\ \A j \in DOMAIN ledger : NameOf[Committed[j]] = n => j =< i
    BY <1>3, <1>5
  <2>2. \A j \in DOMAIN Committed' : NameOf[Committed'[j]] = n => j =< i
    BY <1>2, <2>1
  <2>3. QED
    BY <1>2, <2>1, <2>2 DEF Current, Evidence!EndsWith
<1>6. QED
  BY <1>4, <1>5 DEF Current, Evidence!EndsWith

\* What verification establishes before the WAL is unlinked.
LEMMA VerifiedIsCurrent ==
  ASSUME TypeOK, LedgerAgreesWithBindings, NEW r \in Runs, VerifyPasses(r)
  PROVE  Current(NameOf[r])
<1> DEFINE n == NameOf[r]
<1>1. PICK i \in DOMAIN ledger :
        /\ ledger[i].run = r
        /\ \A j \in DOMAIN ledger : NameOf[ledger[j].run] = NameOf[r]
             /\ TargetOf[ledger[j].run] = TargetOf[r] => j =< i
  BY DEF VerifyPasses, IsLatest, PositionsOf
<1>2. ASSUME NEW j \in DOMAIN ledger, NameOf[ledger[j].run] = n
      PROVE  TargetOf[ledger[j].run] = TargetOf[r]
  <2>1. Bound(ledger[j].run) /\ Bound(r)
    BY DEF VerifyPasses, LedgerAgreesWithBindings
  <2>2. Identity(ledger[j].run) = Identity(r)
    BY <1>2, <2>1 DEF Bound
  <2>3. QED
    BY <2>2 DEF Identity
<1>3. pointer[n] = r /\ n \in Names
  BY DEF VerifyPasses
<1>4. QED
  BY <1>1, <1>2, <1>3, CurrentMeans

\* Every step keeps all pointers current but that of the pending run.
LEMMA StepCurrent ==
  ASSUME TypeOK, HolderInv, LedgerAgreesWithBindings, OthersCurrent, [Next]_vars
  PROVE  OthersCurrent'
<1> SUFFICES ASSUME ~LateInterrupts, NEW n \in Names,
                    wal' = None \/ NameOf[wal'.row.run] # n
             PROVE  Current(n)'
  BY DEF OthersCurrent
<1>1. ASSUME UNCHANGED ledger, pointer'[n] = pointer[n],
             wal = None \/ NameOf[wal.row.run] # n
      PROVE  Current(n)'
  BY <1>1, CurrentKept DEF OthersCurrent
<1>2. ASSUME NEW r \in Runs, Intend(r) PROVE Current(n)'
  BY <1>1, <1>2 DEF Intend, HolderInv, HolderOK, disk
<1>3. ASSUME NEW r \in Runs, AnchorRow(r) PROVE Current(n)'
  <2>1. UNCHANGED <<wal, pointer>>
    BY <1>3 DEF AnchorRow
  <2>2. CASE ledger' = ledger
    BY <1>1, <2>1, <2>2
  <2>3. CASE ledger' # ledger
    <3>1. PICK row \in Row : row = wal.row
      BY <1>3, HeldWalTyped DEF AnchorRow, Completing
    <3>2. ledger' = Append(ledger, row) /\ wal # None
      BY <1>3, <2>3, <3>1, AnchorWrites, HeldWalTyped DEF AnchorRow, Completing
    <3>3. NameOf[row.run] # n /\ Current(n)
      BY <2>1, <3>1, <3>2 DEF OthersCurrent
    <3>4. QED
      BY <2>1, <3>2, <3>3, OtherAppendKeepsCurrent
  <2>4. QED
    BY <2>2, <2>3
<1>4. ASSUME NEW r \in Runs, MarkAnchored(r) \/ MarkPublished(r) PROVE Current(n)'
  <2>1. wal'.row = wal.row /\ wal' # None
    BY <1>4, MarkKeepsRow
  <2>2. QED
    BY <1>1, <1>4, <2>1 DEF MarkAnchored, MarkPublished
<1>5. ASSUME NEW r \in Runs, WritePointer(r) PROVE Current(n)'
  <2>1. wal # None /\ UNCHANGED <<wal, ledger>>
    BY <1>5, HeldWalTyped DEF WritePointer, Completing
  <2>2. pointer'[n] = pointer[n]
    BY <1>5, <2>1 DEF WritePointer, TypeOK
  <2>3. QED
    BY <1>1, <2>1, <2>2
<1>6. ASSUME NEW r \in Runs, UndoPointer(r) PROVE Current(n)'
  <2>1. wal # None /\ txn.name = NameOf[wal.row.run] /\ UNCHANGED <<wal, ledger>>
    BY <1>6 DEF UndoPointer, HolderInv, HolderOK, Undoing
  <2>2. pointer'[n] = pointer[n]
    BY <1>6, <2>1 DEF UndoPointer, TypeOK
  <2>3. QED
    BY <1>1, <2>1, <2>2
<1>7. ASSUME NEW r \in Runs, VerifyAndRetire(r) PROVE Current(n)'
  <2>1. wal # None /\ wal.row.run \in Runs /\ UNCHANGED <<ledger, pointer>>
    BY <1>7, HeldWalTyped DEF VerifyAndRetire, Completing
  <2>2. CASE NameOf[wal.row.run] # n
    BY <1>1, <2>1, <2>2
  <2>3. CASE NameOf[wal.row.run] = n
    <3>1. VerifyPasses(wal.row.run)
      BY <1>7, <2>1, <2>3 DEF VerifyAndRetire
    <3>2. Current(n)
      BY <2>1, <2>3, <3>1, VerifiedIsCurrent
    <3>3. QED
      BY <2>1, <3>2, CurrentKept
  <2>4. QED
    BY <2>2, <2>3
<1>8. ASSUME NEW r \in Runs, Bind(r) PROVE Current(n)'
  BY <1>1, <1>8 DEF Bind
<1>9. QED
  BY <1>1, <1>2, <1>3, <1>4, <1>5, <1>6, <1>7, <1>8, QuietOrWrites DEF Writes

-----------------------------------------------------------------------------
(* The inductive invariant, and the safety properties it implies.          *)

\* The invariant holds at the start.
LEMMA InitInvariant == Init => IInv
<1> SUFFICES ASSUME Init PROVE IInv
  OBVIOUS
<1>1. DOMAIN ledger = {}
  BY EmptySeq DEF Init
<1>2. LockInv /\ HolderInv
  BY DEF Init, LockInv, HolderInv, HolderOK, Locked, Completing, Undoing
<1>3. LedgerAgreesWithBindings /\ LedgerChained /\ WalReplayable
  BY <1>1 DEF Init, LedgerAgreesWithBindings, LedgerChained, WalReplayable
<1>4. OthersCurrent
  BY <1>1, CurrentMeans DEF Init, OthersCurrent
<1>5. QED
  BY <1>2, <1>3, <1>4, InitTyped DEF IInv

\* Every step keeps the invariant.
LEMMA StepInvariant == IInv /\ [Next]_vars => IInv'
  BY StepTyped, StepLocked, StepHolder, StepBindings, StepChained, StepReplayable, StepCurrent
     DEF IInv

\* The inductive invariant holds in every reachable state: in particular the ledger
\* is one hash chain and a pending WAL always replays.
THEOREM Invariant == Spec => []IInv
<1>1. QED
  BY InitInvariant, StepInvariant, PTL DEF Spec

\* Every variable keeps its type, through every handler and every crash.
THEOREM TypeCorrect == Spec => []TypeOK
<1>1. IInv => TypeOK
  BY DEF IInv
<1>2. QED
  BY <1>1, Invariant, PTL

\* runner_ledger.jsonl is one hash chain that anchors no run twice.
THEOREM ChainCorrect == Spec => []LedgerChained
<1>1. IInv => LedgerChained
  BY DEF IInv
<1>2. QED
  BY <1>1, Invariant, PTL

\* complete_runner_publication_wal never raises "no longer extends the exact ledger tip".
THEOREM ReplayCorrect == Spec => []WalReplayable
<1>1. IInv => WalReplayable
  BY DEF IInv
<1>2. QED
  BY <1>1, Invariant, PTL

\* One casefolded name never carries evidence of two targets.
THEOREM NamesCorrect == Spec => []OneTargetPerName
<1>1. IInv => OneTargetPerName
  <2> SUFFICES ASSUME IInv, NEW i \in DOMAIN ledger, NEW j \in DOMAIN ledger,
                      FoldOf[NameOf[ledger[i].run]] = FoldOf[NameOf[ledger[j].run]]
               PROVE  Identity(ledger[i].run) = Identity(ledger[j].run)
    BY DEF OneTargetPerName
  <2>1. Bound(ledger[i].run) /\ Bound(ledger[j].run)
    BY DEF IInv, LedgerAgreesWithBindings
  <2>2. QED
    BY <2>1 DEF Bound
<1>2. QED
  BY <1>1, Invariant, PTL

\* Whenever no publication is pending, every terminal pointer names the last row of
\* its name, unless Ctrl-C may arrive between the WAL's removal and the return.
THEOREM PointersCorrect == ~LateInterrupts => (Spec => []PointerCurrent)
<1> SUFFICES ASSUME ~LateInterrupts PROVE Spec => []PointerCurrent
  OBVIOUS
<1>1. IInv => PointerCurrent
  BY DEF IInv, OthersCurrent, PointerCurrent
<1>2. QED
  BY <1>1, Invariant, PTL

-----------------------------------------------------------------------------
(* Action properties.                                                      *)

\* One pending publication is never replaced by another.
THEOREM WalNeverReplaced == Spec => WalNotReplaced
<1>1. IInv /\ [Next]_vars => [wal # None /\ wal' # None => wal'.row = wal.row]_vars
  <2> SUFFICES ASSUME IInv, [Next]_vars, wal # None, wal' # None
               PROVE  wal'.row = wal.row
    OBVIOUS
  <2>1. ASSUME NEW r \in Runs, Intend(r) PROVE wal' = wal
    BY <2>1 DEF Intend, IInv, HolderInv, HolderOK, disk
  <2>2. ASSUME NEW r \in Runs, MarkAnchored(r) \/ MarkPublished(r) PROVE wal'.row = wal.row
    BY <2>2, MarkKeepsRow DEF IInv
  <2>3. ASSUME NEW r \in Runs, VerifyAndRetire(r) PROVE wal' = wal
    BY <2>3 DEF VerifyAndRetire
  <2>4. ASSUME NEW r \in Runs, Bind(r) \/ AnchorRow(r) \/ WritePointer(r) \/ UndoPointer(r)
        PROVE  wal' = wal
    BY <2>4 DEF Bind, AnchorRow, WritePointer, UndoPointer
  <2>5. QED
    BY <2>1, <2>2, <2>3, <2>4, QuietOrWrites DEF Writes
<1>2. QED
  BY <1>1, Invariant, PTL DEF Spec, WalNotReplaced

\* The ledger only grows, by one row at a time, and only under the kernel lock.
THEOREM LedgerOnlyGrows == Spec => LedgerAppendOnly
<1> DEFINE Grows == \/ ledger' = ledger
                    \/ /\ ledgerLock # None
                       /\ Len(ledger') = Len(ledger) + 1
                       /\ SubSeq(ledger', 1, Len(ledger)) = ledger
<1>1. IInv /\ [Next]_vars => Grows
  <2> SUFFICES ASSUME IInv, [Next]_vars, ledger' # ledger PROVE Grows
    OBVIOUS
  <2>1. PICK r \in Runs : AnchorRow(r)
    BY QuietOrWrites DEF Writes, Bind, Intend, MarkAnchored, WritePointer, MarkPublished,
       VerifyAndRetire, UndoPointer, disk
  <2>2. ledgerLock = r
    BY <2>1 DEF AnchorRow, IInv, LockInv, Locked, Completing
  <2>3. PICK row \in Row : row = wal.row
    BY <2>1, HeldWalTyped DEF AnchorRow, Completing, IInv
  <2>4. ledger' = Append(ledger, row) /\ ledger \in Seq(Row)
    BY <2>1, <2>3, AnchorWrites DEF IInv, TypeOK
  <2>5. Len(ledger') = Len(ledger) + 1 /\ SubSeq(ledger', 1, Len(ledger)) = ledger
    BY ONLY <2>4, AppendProperties, LenProperties, SubSeqProperties, SeqEqual
  <2>6. QED
    BY <2>2, <2>5
<1>2. QED
  BY <1>1, Invariant, PTL DEF Spec, LedgerAppendOnly

-----------------------------------------------------------------------------
(* Refinement.                                                             *)

Answers == [n \in Names |-> IF wal = None THEN pointer[n] ELSE Refused]

\* The evidence store is empty at the start.
LEMMA InitRefines == Init => Evidence!Init
<1> SUFFICES ASSUME Init PROVE Committed = <<>> /\ Answers = [n \in Names |-> None]
  BY DEF Evidence!Init, Answers
<1>1. ledger = <<>>
  BY DEF Init
<1>2. QED
  BY <1>1 DEF Init, Committed, Answers

\* Every step is one of the evidence store or none.
LEMMA StepRefines ==
  ASSUME ~LateInterrupts, IInv, IInv', [Next]_vars
  PROVE  [Evidence!Next]_(Evidence!evidence)
<1> USE DEF IInv
<1>1. ASSUME UNCHANGED <<ledger, pointer>>, wal = None <=> wal' = None
      PROVE  UNCHANGED <<Committed, Answers>>
  BY <1>1 DEF Committed, Answers
<1>2. ASSUME UNCHANGED <<Committed, Answers>> PROVE UNCHANGED Evidence!evidence
  BY <1>2 DEF Evidence!evidence, Answers
<1>3. ASSUME NEW r \in Runs, Intend(r) PROVE [Evidence!Next]_(Evidence!evidence)
  <2>1. CASE Raise(r) /\ UNCHANGED disk
    BY <1>1, <1>2, <2>1 DEF disk
  <2>2. CASE ~(Raise(r) /\ UNCHANGED disk)
    <3>1. wal' # None /\ UNCHANGED ledger
      BY <1>3, <2>2, IntendWrites
    <3>2. Evidence!Refuse
      BY <3>1 DEF Evidence!Refuse, Committed
    <3>3. QED
      BY <3>2 DEF Evidence!Next
  <2>3. QED
    BY <2>1, <2>2
<1>4. ASSUME NEW r \in Runs, AnchorRow(r) PROVE [Evidence!Next]_(Evidence!evidence)
  <2>1. UNCHANGED <<wal, pointer>> /\ wal # None
    BY <1>4, HeldWalTyped DEF AnchorRow, Completing
  <2>2. CASE ledger' = ledger
    BY <1>1, <1>2, <2>1, <2>2
  <2>3. CASE ledger' # ledger
    <3>1. PICK row \in Row : row = wal.row
      BY <1>4, HeldWalTyped DEF AnchorRow, Completing
    <3>2. ledger' = Append(ledger, row) /\ ~Anchored(row.run) /\ ledger \in Seq(Row)
      BY <1>4, <2>3, <3>1, AnchorWrites DEF TypeOK
    <3>3. /\ DOMAIN ledger' = DOMAIN ledger \cup {Len(ledger) + 1}
          /\ DOMAIN ledger = 1..Len(ledger)
          /\ ledger'[Len(ledger) + 1] = row
          /\ \A i \in DOMAIN ledger : ledger'[i] = ledger[i]
      BY <3>2, AppendRow
    <3>4. row.run \in Runs /\ \A i \in DOMAIN ledger : ledger[i].run \in Runs
      BY RowTyped DEF Row
    <3>5. Committed' = Append(Committed, row.run)
      <4>1. Committed \in Seq(Runs) /\ Len(Committed) = Len(ledger)
        BY <3>2, <3>3, <3>4, LenProperties, IsASeq DEF Committed
      <4>2. Append(Committed, row.run) = [i \in 1..(Len(ledger) + 1) |->
                IF i = Len(ledger) + 1 THEN row.run ELSE Committed[i]]
        BY <3>4, <4>1
      <4>3. DOMAIN ledger' = 1..(Len(ledger) + 1)
        BY <3>2, <3>3, LenProperties
      <4>4. QED
        BY <3>3, <4>2, <4>3 DEF Committed
    <3>6. \A i \in DOMAIN Committed : Committed[i] # row.run
      BY <3>2 DEF Committed, Anchored, PositionsOf
    <3>7. Answers = [n \in Names |-> Refused] /\ UNCHANGED Answers
      BY <2>1 DEF Answers
    <3>8. Evidence!Commit(row.run)
      BY <3>5, <3>6, <3>7 DEF Evidence!Commit, Answers
    <3>9. QED
      BY <3>4, <3>8 DEF Evidence!Next
  <2>4. QED
    BY <2>2, <2>3
<1>5. ASSUME NEW r \in Runs, MarkAnchored(r) \/ MarkPublished(r) \/ WritePointer(r) \/ UndoPointer(r)
      PROVE  UNCHANGED <<Committed, Answers>>
  <2>1. wal # None
    BY <1>5, HeldWalTyped
       DEF MarkAnchored, MarkPublished, WritePointer, UndoPointer, Completing, Undoing,
           HolderInv, HolderOK
  <2>2. wal' # None /\ UNCHANGED ledger
    BY <1>5, <2>1, MarkKeepsRow DEF MarkAnchored, MarkPublished, WritePointer, UndoPointer
  <2>3. QED
    BY <2>1, <2>2 DEF Committed, Answers
<1>6. ASSUME NEW r \in Runs, VerifyAndRetire(r) PROVE [Evidence!Next]_(Evidence!evidence)
  <2>1. UNCHANGED <<ledger, pointer>> /\ wal # None
    BY <1>6, HeldWalTyped DEF VerifyAndRetire, Completing
  <2>2. CASE wal' # None
    BY <1>1, <1>2, <2>1, <2>2
  <2>3. CASE wal' = None
    <3>1. UNCHANGED Committed
      BY <2>1 DEF Committed
    <3>2. Answers' = pointer' /\ pointer' \in [Names -> Runs \cup {None}]
      BY <2>3 DEF Answers, TypeOK
    <3>3. \A n \in Names : Current(n)'
      BY <2>3 DEF OthersCurrent
    <3>4. \A n \in Names : Evidence!EndsWith(Committed, n, pointer'[n])
      BY <3>1, <3>3 DEF Current, Evidence!EndsWith
    <3>5. Evidence!Answer
      BY <2>3, <3>1, <3>2, <3>4 DEF Evidence!Answer, Answers
    <3>6. QED
      BY <3>5 DEF Evidence!Next
  <2>4. QED
    BY <2>2, <2>3
<1>7. ASSUME NEW r \in Runs, Bind(r) PROVE UNCHANGED <<Committed, Answers>>
  BY <1>1, <1>7 DEF Bind
<1>8. QED
  BY <1>1, <1>2, <1>3, <1>4, <1>5, <1>6, <1>7, QuietOrWrites DEF Writes

\* The runner's files implement the abstract evidence store: a reader is refused, or
\* told the last committed run of the name it asks for.
THEOREM Refinement == ~LateInterrupts => (Spec => ImplementsEvidence)
<1> SUFFICES ASSUME ~LateInterrupts PROVE Spec => ImplementsEvidence
  OBVIOUS
<1>1. IInv /\ IInv' /\ [Next]_vars => [Evidence!Next]_(Evidence!evidence)
  BY StepRefines
<1>2. QED
  BY <1>1, InitRefines, Invariant, PTL DEF Spec, ImplementsEvidence, Evidence!Spec

-----------------------------------------------------------------------------
(* What reported runs leave behind.  SInv strengthens the invariant with   *)
(* what the run locks and the two passes of the finalization add to the    *)
(* kernel lock.                                                            *)

\* r is inside complete_runner_publication_wal, and why.
Held(r) == pc[r] \in Completing \cup Undoing \cup {"retired"}
For(r, purpose) == Held(r) /\ txn.purpose = purpose

\* r has no run directory yet; r has not intended its record yet.
Unlaunched(r) == pc[r] \in {"new", "bind", "lock"} \/ For(r, "prepare")
Unpublished(r) ==
  \/ Unlaunched(r)
  \/ pc[r] = "execute"
  \/ pass[r] = 1 /\ (pc[r] \in {"publish", "intend"} \/ For(r, "repair"))

\* r has reported, or copied its own terminal state over the live one.
Settled(r) ==
  \/ pc[r] \in {"published", "done"}
  \/ For(r, "publish") /\ pc[r] \in {"remark", "verify", "retired"}

\* What has been written by the time a control point is reached.
Progressed(r) ==
  /\ For(r, "publish") => txn.name = NameOf[r]
  /\ For(r, "publish") /\ pc[r] \in Completing => wal.row.run = r
  /\ pc[r] \in {"mark", "point", "copy", "remark", "verify"} => Anchored(wal.row.run)
  /\ pc[r] \in {"copy", "remark", "verify"} => pointer[NameOf[wal.row.run]] = wal.row.run
  /\ For(r, "publish") /\ pc[r] = "retired" => Anchored(r)
  /\ pc[r] \in {"published", "done"} => Anchored(r) /\ (wal # None => wal.row.run # r)

\* A run that has not published has no record, neither written nor ahead.
Fresh(r) == Unpublished(r) => ~Anchored(r) /\ (wal # None => wal.row.run # r)

\* A run lock is held from the launch to the end.
Locks(r) ==
  ~Unlaunched(r) /\ pc[r] \notin Ended /\ LockOf[r] # None => runLock[LockOf[r]] = r

\* Whoever completes another run's record finds a run of that name unreported.
Replays(r) ==
  Held(r) /\ txn.purpose # "publish" =>
    \E s \in Runs : NameOf[s] = txn.name /\ pc[s] \notin {"published", "done"}

SameLock(a, b) == LockOf[a] # None /\ LockOf[a] = LockOf[b]

\* Under one run lock a record follows another only after that run has ended.
Serial ==
  /\ \A i, j \in DOMAIN ledger :
       i < j /\ SameLock(ledger[i].run, ledger[j].run) => pc[ledger[i].run] \in Ended
  /\ wal # None /\ ~Anchored(wal.row.run) =>
       \A i \in DOMAIN ledger :
         SameLock(ledger[i].run, wal.row.run) => pc[ledger[i].run] \in Ended

\* When every run of a name has settled, so has its advisory latest state.
Settling ==
  \A r \in Runs :
    (\A s \in Runs : NameOf[s] = NameOf[r] => Settled(s)) =>
      latest[NameOf[r]] = [run |-> pointer[NameOf[r]], terminal |-> TRUE]

RunOK(r) == Progressed(r) /\ Fresh(r) /\ Locks(r) /\ Replays(r)

SInv ==
  /\ \A r \in Runs : RunOK(r)
  /\ Serial
  /\ Settling
  /\ OnlyReplayIsSuperseded

-----------------------------------------------------------------------------
(* What one step of a run does to it and to the others.                    *)

Step(r) ==
  \/ Prepare(r) \/ Progress(r) \/ LockTimeout(r)
  \/ Heartbeat(r) \/ StragglerWrites(r) \/ Fault(r) \/ Crash(r)

\* What r's step leaves alone of another run s.
Bystander(r, s) ==
  /\ pc'[s] = pc[s]
  /\ pass'[s] = pass[s]
  /\ Held(s) => UNCHANGED <<txn, ledger, wal, pointer>>
  /\ \A k \in RunLocks : runLock[k] = s => runLock'[k] = s \/ Launch(r)

\* What a step of one run leaves alone of another.
LEMMA BystanderKept ==
  ASSUME IInv, NEW r \in Runs, NEW s \in Runs, s # r, Step(r)
  PROVE  Bystander(r, s)
<1> USE DEF TypeOK, Locked, Completing, Undoing, Ended, Goto, disk, Bystander, Held
<1>0. TypeOK /\ HolderInv /\ s # None /\ (Held(s) => ledgerLock = s) /\ (pc[r] \in Locked => ledgerLock = r)
  BY DEF IInv, LockInv
<1>1. ASSUME Prepare(r) PROVE Bystander(r, s)
  BY <1>0, <1>1 DEF Prepare, Recover
<1>2. ASSUME Bind(r) PROVE Bystander(r, s)
  BY <1>0, <1>2 DEF Bind
<1>3. ASSUME Refuse(r) PROVE Bystander(r, s)
  BY <1>0, <1>3 DEF Refuse
<1>4. ASSUME Launch(r) PROVE Bystander(r, s)
  BY <1>0, <1>4 DEF Launch
<1>5. ASSUME Heartbeat(r) PROVE Bystander(r, s)
  BY <1>0, <1>5 DEF Heartbeat
<1>6. ASSUME Finish(r) PROVE Bystander(r, s)
  BY <1>0, <1>6 DEF Finish
<1>7. ASSUME StragglerWrites(r) PROVE Bystander(r, s)
  BY <1>0, <1>7 DEF StragglerWrites
<1>8. ASSUME BeginPublish(r) PROVE Bystander(r, s)
  BY <1>0, <1>8 DEF BeginPublish, Recover
<1>9. ASSUME LockTimeout(r) PROVE Bystander(r, s)
  BY <1>0, <1>9 DEF LockTimeout, Raise, ReleaseRunLock
<1>10. ASSUME Intend(r) PROVE Bystander(r, s)
  <2>1. pc[r] = "intend" /\ ~Held(s)
    BY <1>0, <1>10 DEF Intend
  <2>2. CASE Raise(r) /\ UNCHANGED disk
    BY <1>0, <2>1, <2>2 DEF Raise, ReleaseRunLock
  <2>3. CASE ~(Raise(r) /\ UNCHANGED disk)
    BY <1>0, <1>10, <2>1, <2>3, IntendWrites
  <2>4. QED
    BY <2>2, <2>3
<1>11. ASSUME AnchorRow(r) PROVE Bystander(r, s)
  BY <1>0, <1>11 DEF AnchorRow
<1>12. ASSUME MarkAnchored(r) PROVE Bystander(r, s)
  BY <1>0, <1>12 DEF MarkAnchored
<1>13. ASSUME WritePointer(r) PROVE Bystander(r, s)
  BY <1>0, <1>13 DEF WritePointer
<1>14. ASSUME CopyLatest(r) PROVE Bystander(r, s)
  BY <1>0, <1>14 DEF CopyLatest
<1>15. ASSUME MarkPublished(r) PROVE Bystander(r, s)
  BY <1>0, <1>15 DEF MarkPublished
<1>16. ASSUME VerifyAndRetire(r) PROVE Bystander(r, s)
  BY <1>0, <1>16 DEF VerifyAndRetire
<1>17. ASSUME Return(r) PROVE Bystander(r, s)
  BY <1>0, <1>17 DEF Return
<1>18. ASSUME UndoPointer(r) PROVE Bystander(r, s)
  BY <1>0, <1>18 DEF UndoPointer
<1>19. ASSUME UndoLatest(r) PROVE Bystander(r, s)
  BY <1>0, <1>19 DEF UndoLatest, Raise, ReleaseRunLock
<1>20. ASSUME Report(r) PROVE Bystander(r, s)
  BY <1>0, <1>20 DEF Report, ReleaseRunLock
<1>21. ASSUME Fault(r) PROVE Bystander(r, s)
  <2>1. CASE Raise(r) /\ UNCHANGED disk
    BY <1>0, <1>21, <2>1 DEF Raise, ReleaseRunLock
  <2>2. CASE Goto(r, "undoPointer") /\ UNCHANGED <<pass, runLock, ledgerLock, txn, disk>>
    BY <1>0, <2>2
  <2>3. QED
    BY <1>21, <2>1, <2>2 DEF Fault
<1>22. ASSUME Crash(r) PROVE Bystander(r, s)
  BY <1>0, <1>22 DEF Crash, ReleaseRunLock
<1>23. QED
  BY <1>1, <1>2, <1>3, <1>4, <1>5, <1>6, <1>7, <1>8, <1>9, <1>10, <1>11, <1>12, <1>13, <1>14,
     <1>15, <1>16, <1>17, <1>18, <1>19, <1>20, <1>21, <1>22 DEF Step, Progress

\* Why a WAL is completed: the three purposes, and what each one starts from.
LEMMA RecoverPurpose ==
  ASSUME TypeOK, NEW r \in Runs, Prepare(r) \/ BeginPublish(r), wal # None
  PROVE  /\ txn'.purpose = IF pc[r] = "new" THEN "prepare" ELSE "repair"
         /\ txn'.name = NameOf[wal.row.run]
         /\ pc'[r] = "anchor"
  BY DEF TypeOK, Prepare, BeginPublish, Recover, Snapshot, Goto

\* An intended record is the own one.
LEMMA IntendPurpose ==
  ASSUME TypeOK, NEW r \in Runs, Intend(r), ~(Raise(r) /\ UNCHANGED disk)
  PROVE  txn'.purpose = "publish" /\ txn'.name = NameOf[r] /\ pc'[r] = "anchor"
  BY DEF TypeOK, Intend, Snapshot, Goto

\* The purpose of a lock holder.
LEMMA TxnPurpose ==
  ASSUME IInv, NEW r \in Runs, Held(r)
  PROVE  txn \in Txn /\ txn # None /\ txn.purpose \in Purposes /\ txn.name \in Names
<1>1. txn # None /\ txn \in Txn
  BY DEF IInv, TypeOK, HolderInv, HolderOK, Held
<1>2. QED
  BY <1>1 DEF Txn

\* r intends its record: publish_runner_record passed its checks.
Intends(r) == Intend(r) /\ ~(Raise(r) /\ UNCHANGED disk)

\* How r itself moves.
Moves(r) ==
  /\ pc[r] \notin Ended
  /\ Unlaunched(r)' => Unlaunched(r)
  /\ ~Unlaunched(r)' /\ pc'[r] \notin Ended => ~Unlaunched(r) \/ Launch(r)
  /\ Unpublished(r)' => Unpublished(r)
  /\ For(r, "publish")' => For(r, "publish") \/ Intends(r)
  /\ Settled(r)' => Settled(r) \/ (CopyLatest(r) /\ For(r, "publish"))
  /\ pc'[r] \in {"published", "done"} =>
       pc[r] = "published" \/ (pc[r] = "retired" /\ For(r, "publish"))
  /\ Held(r) /\ Held(r)' => txn' = txn
  /\ Held(r)' /\ ~Held(r) =>
       \/ Intends(r)
       \/ /\ wal # None /\ wal' = wal
          /\ pc'[r] = "anchor" /\ txn'.name = NameOf[wal.row.run]
          /\ txn'.purpose # "publish"
  /\ pass'[r] = pass[r] \/ pass'[r] = 2 \/ pc[r] = "execute"
  /\ Launch(r) \/ pc'[r] \in Ended \/ runLock' = runLock

\* Where an exception leads.
LEMMA RaiseMoves ==
  ASSUME IInv, NEW r \in Runs, Raise(r), pc[r] \in {"new", "bind", "publish", "intend", "published"} \cup Undoing
  PROVE  /\ pc'[r] = "gone" \/ (pc'[r] = "publish" /\ pass'[r] = 2 /\ runLock' = runLock /\ ~Unlaunched(r))
         /\ pass'[r] = pass[r] \/ pass'[r] = 2
<1>0. TypeOK /\ HolderInv
  BY DEF IInv
<1>1. Held(r) => txn # None /\ txn \in Txn
  BY <1>0 DEF HolderInv, HolderOK, Held, TypeOK
<1>2. QED
  BY <1>0, <1>1 DEF TypeOK, Raise, Goto, Unlaunched, For, Held, Completing, Undoing

\* How a step moves its run through the two passes.
LEMMA OwnMoves ==
  ASSUME IInv, NEW r \in Runs, Step(r)
  PROVE  Moves(r)
<1> USE DEF Completing, Undoing, Ended, Goto, disk, Held, For, Unlaunched, Unpublished, Settled, Moves
<1>0. /\ TypeOK /\ pc \in [Runs -> Control] /\ pass \in [Runs -> 1..2]
      /\ Held(r) => txn # None /\ txn.purpose \in Purposes
  BY TxnPurpose DEF IInv, TypeOK
<1>1. ASSUME Prepare(r) PROVE Moves(r)
  <2>1. CASE wal = None
    BY <1>0, <1>1, <2>1 DEF Prepare, Recover
  <2>2. CASE wal # None
    BY <1>0, <1>1, <2>2, RecoverPurpose DEF Prepare
  <2>3. QED
    BY <2>1, <2>2
<1>2. ASSUME Bind(r) PROVE Moves(r)
  BY <1>0, <1>2 DEF Bind
<1>3. ASSUME Refuse(r) PROVE Moves(r)
  BY <1>0, <1>3 DEF Refuse
<1>4. ASSUME Launch(r) PROVE Moves(r)
  <2>1. pc[r] = "lock" /\ pc'[r] = "execute" /\ UNCHANGED <<pass, txn>>
    BY <1>0, <1>4 DEF Launch
  <2>2. QED
    BY <1>4, <2>1
<1>5. ASSUME Heartbeat(r) PROVE Moves(r)
  BY <1>0, <1>5 DEF Heartbeat
<1>6. ASSUME Finish(r) PROVE Moves(r)
  BY <1>0, <1>6 DEF Finish
<1>7. ASSUME StragglerWrites(r) PROVE Moves(r)
  <2>1. UNCHANGED <<pc, pass, runLock, txn>> /\ pc[r] \notin Ended
    BY <1>7 DEF StragglerWrites
  <2>2. QED
    BY <1>0, <2>1
<1>8. ASSUME BeginPublish(r) PROVE Moves(r)
  <2>1. CASE wal = None
    BY <1>0, <1>8, <2>1 DEF BeginPublish, Recover
  <2>2. CASE wal # None
    BY <1>0, <1>8, <2>2, RecoverPurpose DEF BeginPublish
  <2>3. QED
    BY <2>1, <2>2
<1>9. ASSUME LockTimeout(r) PROVE Moves(r)
  BY <1>0, <1>9, RaiseMoves DEF LockTimeout
<1>10. ASSUME Intend(r) PROVE Moves(r)
  <2>1. CASE Raise(r) /\ UNCHANGED disk
    BY <1>0, <1>10, <2>1, RaiseMoves DEF Intend
  <2>2. CASE ~(Raise(r) /\ UNCHANGED disk)
    <3>1. Intends(r) /\ pc[r] = "intend" /\ pc'[r] = "anchor" /\ txn'.purpose = "publish"
          /\ UNCHANGED <<pass, runLock>>
      BY <1>0, <1>10, <2>2, IntendPurpose, IntendWrites DEF Intends, Intend
    <3>2. QED
      BY <1>0, <3>1
  <2>3. QED
    BY <2>1, <2>2
<1>11. ASSUME AnchorRow(r) PROVE Moves(r)
  <2>1. /\ pc[r] = "anchor" /\ pc'[r] \in {"mark", "undoPointer"}
        /\ UNCHANGED <<pass, runLock, txn>>
    BY <1>0, <1>11 DEF AnchorRow
  <2>2. QED
    BY <1>0, <2>1
<1>12. ASSUME MarkAnchored(r) PROVE Moves(r)
  BY <1>0, <1>12 DEF MarkAnchored
<1>13. ASSUME WritePointer(r) PROVE Moves(r)
  BY <1>0, <1>13 DEF WritePointer
<1>14. ASSUME CopyLatest(r) PROVE Moves(r)
  <2>1. pc[r] = "copy" /\ pc'[r] = "remark" /\ UNCHANGED <<pass, runLock, txn>>
    BY <1>0, <1>14 DEF CopyLatest
  <2>2. QED
    BY <1>0, <1>14, <2>1
<1>15. ASSUME MarkPublished(r) PROVE Moves(r)
  BY <1>0, <1>15 DEF MarkPublished
<1>16. ASSUME VerifyAndRetire(r) PROVE Moves(r)
  <2>1. /\ pc[r] = "verify" /\ pc'[r] \in {"retired", "undoPointer"}
        /\ UNCHANGED <<pass, runLock, txn>>
    BY <1>0, <1>16 DEF VerifyAndRetire
  <2>2. QED
    BY <1>0, <2>1
<1>17. ASSUME Return(r) PROVE Moves(r)
  <2>1. /\ pc[r] = "retired" /\ UNCHANGED <<pass, runLock>>
        /\ txn.purpose = "prepare" => pc'[r] = "bind"
        /\ txn.purpose = "repair" => pc'[r] = "intend"
        /\ txn.purpose = "publish" => pc'[r] = "published"
        /\ txn.purpose \in {"prepare", "repair", "publish"}
    BY <1>0, <1>17 DEF Return, Purposes
  <2>2. QED
    BY <1>0, <2>1
<1>18. ASSUME UndoPointer(r) PROVE Moves(r)
  BY <1>0, <1>18 DEF UndoPointer
<1>19. ASSUME UndoLatest(r) PROVE Moves(r)
  BY <1>0, <1>19, RaiseMoves DEF UndoLatest
<1>20. ASSUME Report(r) PROVE Moves(r)
  BY <1>0, <1>20 DEF Report
<1>21. ASSUME Fault(r) PROVE Moves(r)
  <2>1. CASE /\ pc[r] \in {"bind", "publish", "intend", "published"} \cup Undoing
             /\ Raise(r)
    BY <1>0, <2>1, RaiseMoves
  <2>2. CASE /\ pc[r] \in Completing \cup {"retired"}
             /\ Goto(r, "undoPointer")
             /\ UNCHANGED <<pass, runLock, ledgerLock, txn, disk>>
    BY <1>0, <2>2
  <2>3. QED
    BY <1>21, <2>1, <2>2 DEF Fault
<1>22. ASSUME Crash(r) PROVE Moves(r)
  BY <1>0, <1>22 DEF Crash
<1>23. QED
  BY <1>1, <1>2, <1>3, <1>4, <1>5, <1>6, <1>7, <1>8, <1>9, <1>10, <1>11, <1>12, <1>13, <1>14,
     <1>15, <1>16, <1>17, <1>18, <1>19, <1>20, <1>21, <1>22 DEF Step, Progress

-----------------------------------------------------------------------------
(* What one step does to the files.                                        *)

\* A step writes or leaves the files.
LEMMA StepWrites ==
  ASSUME NEW r \in Runs, Step(r)
  PROVE  UNCHANGED <<binding, ledger, wal, pointer>> \/ Writes(r)
<1>1. Prepare(r) \/ Refuse(r) \/ Launch(r) \/ Heartbeat(r) \/ Finish(r)
      => UNCHANGED <<binding, ledger, wal, pointer>>
  BY DEF Prepare, Refuse, Launch, Heartbeat, Finish, disk
<1>2. StragglerWrites(r) \/ BeginPublish(r) \/ LockTimeout(r) \/ Return(r)
      => UNCHANGED <<binding, ledger, wal, pointer>>
  BY DEF StragglerWrites, BeginPublish, LockTimeout, Return, disk
<1>3. CopyLatest(r) \/ UndoLatest(r) \/ Report(r) \/ Fault(r) \/ Crash(r)
      => UNCHANGED <<binding, ledger, wal, pointer>>
  BY DEF CopyLatest, UndoLatest, Report, Fault, Crash, disk
<1>4. QED
  BY <1>1, <1>2, <1>3 DEF Step, Progress, Writes

\* A record that is ahead after a step was ahead before it, or is r's own intent.
WalMoves(r) ==
  \/ wal' = None
  \/ wal # None /\ wal'.row = wal.row
  \/ /\ Intends(r) /\ wal = None
     /\ wal'.row = IntendedRow(r) /\ wal'.row.run = r
     /\ UNCHANGED <<ledger, pointer, latest>>

\* What a step does to the pending record.
LEMMA WalEffect ==
  ASSUME IInv, NEW r \in Runs, Step(r)
  PROVE  WalMoves(r)
<1>0. TypeOK /\ HolderInv
  BY DEF IInv
<1>1. ASSUME wal' = wal PROVE WalMoves(r)
  BY <1>1 DEF WalMoves
<1>2. ASSUME Intend(r) PROVE WalMoves(r)
  <2>1. CASE Raise(r) /\ UNCHANGED disk
    BY <1>1, <2>1 DEF disk
  <2>2. CASE ~(Raise(r) /\ UNCHANGED disk)
    <3>1. /\ Intends(r) /\ pc[r] = "intend" /\ wal'.row = IntendedRow(r)
          /\ UNCHANGED <<ledger, pointer, latest>>
      BY <1>0, <1>2, <2>2, IntendWrites DEF Intends, Intend
    <3>2. wal = None
      BY <1>0, <3>1 DEF HolderInv, HolderOK
    <3>3. wal'.row.run = r
      BY <1>0, <3>1, IntendedRowTyped
    <3>4. QED
      BY <3>1, <3>2, <3>3 DEF WalMoves
  <2>3. QED
    BY <2>1, <2>2
<1>3. ASSUME MarkAnchored(r) \/ MarkPublished(r) PROVE WalMoves(r)
  <2>1. wal # None
    BY <1>0, <1>3, HeldWalTyped DEF MarkAnchored, MarkPublished, Completing
  <2>2. wal'.row = wal.row
    BY <1>0, <1>3, MarkKeepsRow
  <2>3. QED
    BY <2>1, <2>2 DEF WalMoves
<1>4. ASSUME VerifyAndRetire(r) PROVE WalMoves(r)
  BY <1>4 DEF VerifyAndRetire, WalMoves
<1>5. ASSUME Bind(r) \/ AnchorRow(r) \/ WritePointer(r) \/ UndoPointer(r) PROVE WalMoves(r)
  BY <1>1, <1>5 DEF Bind, AnchorRow, WritePointer, UndoPointer
<1>6. QED
  BY <1>1, <1>2, <1>3, <1>4, <1>5, StepWrites DEF Writes

\* The ledger only gains the row of the pending record.
LedgerMoves(r) ==
  \/ ledger' = ledger
  \/ /\ AnchorRow(r) /\ wal # None /\ wal' = wal
     /\ ledger' = Append(ledger, wal.row) /\ ~Anchored(wal.row.run)

\* What a step does to the ledger.
LEMMA LedgerEffect ==
  ASSUME IInv, NEW r \in Runs, Step(r)
  PROVE  LedgerMoves(r)
<1>1. ASSUME AnchorRow(r) PROVE LedgerMoves(r)
  BY <1>1, AnchorWrites, HeldWalTyped DEF IInv, AnchorRow, Completing, LedgerMoves
<1>2. ASSUME Writes(r), ~AnchorRow(r) PROVE LedgerMoves(r)
  BY <1>2 DEF Writes, Bind, Intend, MarkAnchored, WritePointer, MarkPublished, VerifyAndRetire,
     UndoPointer, disk, LedgerMoves
<1>3. QED
  BY <1>1, <1>2, StepWrites DEF LedgerMoves

\* Who is anchored by a step.
LEMMA AnchoredEffect ==
  ASSUME IInv, NEW r \in Runs, Step(r), NEW q \in Runs
  PROVE  /\ Anchored(q) => Anchored(q)'
         /\ Anchored(q)' => Anchored(q) \/ (wal # None /\ q = wal.row.run)
         /\ AnchorRow(r) /\ pc'[r] = "mark" /\ q = wal.row.run => Anchored(q)'
<1>0. TypeOK /\ HolderInv
  BY DEF IInv
<1>1. CASE ledger' = ledger
  BY <1>0, <1>1 DEF Anchored, PositionsOf, AnchorRow, AnchoredAs, Goto, TypeOK
<1>2. CASE ledger' # ledger
  <2>1. PICK row \in Row : row = wal.row
    BY <1>0, <1>2, LedgerEffect, WalRunTyped DEF LedgerMoves
  <2>2. /\ wal # None /\ ledger' = Append(ledger, row) /\ ~Anchored(row.run)
    BY <1>2, <2>1, LedgerEffect DEF LedgerMoves
  <2>3. /\ PositionsOf(row.run)' = {Len(ledger) + 1}
        /\ \A x \in Runs : x # row.run => PositionsOf(x)' = PositionsOf(x)
    BY <1>0, <2>2, AppendPositions
  <2>4. CASE q = row.run
    <3>1. PositionsOf(q)' = {Len(ledger) + 1}
      BY <2>3, <2>4 DEF PositionsOf
    <3>2. QED
      BY <2>1, <2>2, <2>4, <3>1 DEF Anchored
  <2>5. CASE q # row.run
    BY <2>1, <2>2, <2>3, <2>5 DEF Anchored
  <2>6. QED
    BY <2>4, <2>5
<1>3. QED
  BY <1>1, <1>2

-----------------------------------------------------------------------------
(* Run by run.                                                             *)

\* A run that has not published stays without a record.
LEMMA StepFresh ==
  ASSUME IInv, SInv, NEW r \in Runs, Step(r), NEW s \in Runs
  PROVE  Fresh(s)'
<1> SUFFICES ASSUME Unpublished(s)' PROVE ~Anchored(s)' /\ (wal' # None => wal'.row.run # s)
  BY DEF Fresh
<1>1. Unpublished(s)
  <2>1. CASE s = r
    BY <2>1, OwnMoves DEF Moves
  <2>2. CASE s # r
    <3>1. Bystander(r, s)
      BY <2>2, BystanderKept
    <3>2. QED
      BY <3>1 DEF Bystander, Unpublished, Unlaunched, For, Held, Completing, Undoing
  <2>3. QED
    BY <2>1, <2>2
<1>2. ~Anchored(s) /\ (wal # None => wal.row.run # s)
  BY <1>1 DEF SInv, RunOK, Fresh
<1>3. ~Anchored(s)'
  BY <1>2, AnchoredEffect
<1>4. Intends(r) => r # s
  <2>1. Intends(r) => pc'[r] = "anchor" /\ txn'.purpose = "publish"
    BY IntendPurpose DEF Intends, IInv
  <2>2. QED
    BY <2>1 DEF Unpublished, Unlaunched, For, Held, Completing, Undoing
<1>5. QED
  BY <1>2, <1>3, <1>4, WalEffect DEF WalMoves

\* A run lock stays with its run until the end.
LEMMA StepLocks ==
  ASSUME IInv, SInv, NEW r \in Runs, Step(r), NEW s \in Runs
  PROVE  Locks(s)'
<1> SUFFICES ASSUME ~Unlaunched(s)', pc'[s] \notin Ended, LockOf[s] # None
             PROVE  runLock'[LockOf[s]] = s
  BY DEF Locks
<1> DEFINE k == LockOf[s]
<1>0. k \in RunLocks /\ runLock \in [RunLocks -> Runs \cup {None}] /\ pc \in [Runs -> Control]
  BY DEF IInv, TypeOK
<1>1. ~Unlaunched(s) /\ pc[s] \notin Ended => runLock[k] = s
  BY DEF SInv, RunOK, Locks
<1>2. ASSUME s = r, Launch(r) PROVE runLock'[k] = s
  BY <1>0, <1>2 DEF Launch
<1>3. ASSUME s = r, ~Launch(r) PROVE runLock'[k] = s
  BY <1>1, <1>3, OwnMoves DEF Moves
<1>4. ASSUME s # r PROVE runLock'[k] = s
  <2>1. Bystander(r, s)
    BY <1>4, BystanderKept
  <2>2. ~Unlaunched(s) /\ pc[s] \notin Ended
    BY <2>1 DEF Bystander, Unlaunched, For, Held, Completing, Undoing
  <2>3. runLock[k] = s
    BY <1>1, <2>2
  <2>4. CASE Launch(r)
    BY <1>0, <2>3, <2>4 DEF Launch
  <2>5. CASE ~Launch(r)
    BY <1>0, <2>1, <2>3, <2>5 DEF Bystander
  <2>6. QED
    BY <2>4, <2>5
<1>5. QED
  BY <1>2, <1>3, <1>4

\* A replay stays one of a run that has not reported.
LEMMA StepReplays ==
  ASSUME IInv, SInv, NEW r \in Runs, Step(r), NEW s \in Runs
  PROVE  Replays(s)'
<1> SUFFICES ASSUME Held(s)', txn'.purpose # "publish"
             PROVE  \E q \in Runs : NameOf[q] = txn'.name /\ pc'[q] \notin {"published", "done"}
  BY DEF Replays
<1>1. ASSUME Held(s), txn' = txn
      PROVE  \E q \in Runs : NameOf[q] = txn'.name /\ pc'[q] \notin {"published", "done"}
  <2>1. PICK q \in Runs : NameOf[q] = txn.name /\ pc[q] \notin {"published", "done"}
    BY <1>1 DEF SInv, RunOK, Replays
  <2>2. ledgerLock = s
    BY <1>1 DEF IInv, LockInv, Locked, Held
  <2>3. CASE q # r
    <3>1. pc'[q] = pc[q]
      BY <2>3, BystanderKept DEF Bystander
    <3>2. QED
      BY <1>1, <2>1, <3>1
  <2>4. CASE q = r
    <3>1. pc'[r] \in {"published", "done"} => pc[r] = "retired" /\ For(r, "publish")
      BY <2>1, <2>4, OwnMoves DEF Moves
    <3>2. For(r, "publish") => r = s
      BY <2>2 DEF IInv, LockInv, Locked, For, Held
    <3>3. ~For(s, "publish")
      BY <1>1 DEF For
    <3>4. QED
      BY <1>1, <2>1, <2>4, <3>1, <3>2, <3>3
  <2>5. QED
    BY <2>3, <2>4
<1>2. CASE s # r
  BY <1>1, <1>2, BystanderKept DEF Bystander, Held, Completing, Undoing
<1>3. CASE s = r
  <2>1. CASE Held(r)
    BY <1>1, <1>3, <2>1, OwnMoves DEF Moves
  <2>2. CASE ~Held(r)
    <3>1. ~Intends(r)
      BY IntendPurpose DEF Intends, IInv
    <3>2. wal # None /\ pc'[r] = "anchor" /\ txn'.name = NameOf[wal.row.run]
      BY <1>3, <2>2, <3>1, OwnMoves DEF Moves
    <3>3. PICK q \in Runs : q = wal.row.run
      BY <3>2, WalRunTyped DEF IInv
    <3>4. pc[q] \notin {"published", "done"}
      BY <3>2, <3>3 DEF SInv, RunOK, Progressed
    <3>5. pc'[q] \notin {"published", "done"}
      BY <3>2, <3>4, BystanderKept DEF Bystander
    <3>6. QED
      BY <3>2, <3>3, <3>5
  <2>3. QED
    BY <2>1, <2>2
<1>4. QED
  BY <1>2, <1>3

\* The steps after which r is completing a record, or has.
LEMMA Completes ==
  ASSUME IInv, NEW r \in Runs, Step(r),
         pc'[r] \in Completing \cup {"retired", "published", "done"}
  PROVE  \/ StragglerWrites(r) \/ Prepare(r) \/ BeginPublish(r) \/ Intends(r)
         \/ AnchorRow(r) \/ MarkAnchored(r) \/ WritePointer(r) \/ CopyLatest(r)
         \/ MarkPublished(r) \/ VerifyAndRetire(r) \/ Return(r) \/ Report(r)
<1> USE DEF Completing, Undoing, Ended, Goto
<1>0. pc \in [Runs -> Control]
  BY DEF IInv, TypeOK
<1>1. ~Bind(r) /\ ~Refuse(r) /\ ~Launch(r) /\ ~Heartbeat(r) /\ ~Finish(r)
  BY <1>0 DEF Bind, Refuse, Launch, Heartbeat, Finish
<1>2. ~LockTimeout(r) /\ ~UndoPointer(r) /\ ~UndoLatest(r) /\ ~Crash(r)
  BY <1>0 DEF LockTimeout, UndoPointer, UndoLatest, Crash, Raise
<1>3. ~Fault(r) /\ (Intend(r) => Intends(r))
  BY <1>0 DEF Fault, Raise, Intends
<1>4. QED
  BY <1>1, <1>2, <1>3 DEF Step, Progress

\* If r's own record is the pending one it stays so until it is retired.
LEMMA StepProgressedOwn ==
  ASSUME IInv, SInv, NEW r \in Runs, Step(r)
  PROVE  Progressed(r)'
<1> USE DEF Completing, Undoing, Ended, Goto, Held, For
<1>0. /\ TypeOK /\ HolderInv /\ pc \in [Runs -> Control]
      /\ Held(r) => txn # None /\ txn.purpose \in Purposes
      /\ pc[r] \in Completing => wal # None /\ wal.row.run \in Runs
  BY TxnPurpose, HeldWalTyped DEF IInv, TypeOK
<1>1. /\ For(r, "publish") => txn.name = NameOf[r]
      /\ For(r, "publish") /\ pc[r] \in Completing => wal.row.run = r
      /\ pc[r] \in {"mark", "point", "copy", "remark", "verify"} => Anchored(wal.row.run)
      /\ pc[r] \in {"copy", "remark", "verify"} => pointer[NameOf[wal.row.run]] = wal.row.run
      /\ For(r, "publish") /\ pc[r] = "retired" => Anchored(r)
      /\ pc[r] \in {"published", "done"} => Anchored(r) /\ (wal # None => wal.row.run # r)
  BY DEF SInv, RunOK, Progressed
<1>2. For(r, "publish")' => txn'.name = NameOf[r]
  <2>1. CASE Intends(r)
    BY <1>0, <2>1, IntendPurpose DEF Intends
  <2>2. CASE ~Intends(r)
    BY <1>1, <2>2, OwnMoves DEF Moves
  <2>3. QED
    BY <2>1, <2>2
<1> DEFINE Rest ==
      /\ For(r, "publish")' /\ pc'[r] \in Completing => wal'.row.run = r
      /\ pc'[r] \in {"mark", "point", "copy", "remark", "verify"} => Anchored(wal.row.run)'
      /\ pc'[r] \in {"copy", "remark", "verify"} => pointer'[NameOf[wal'.row.run]] = wal'.row.run
      /\ For(r, "publish")' /\ pc'[r] = "retired" => Anchored(r)'
      /\ pc'[r] \in {"published", "done"} => Anchored(r)' /\ (wal' # None => wal'.row.run # r)
<1>3. ASSUME pc'[r] \notin Completing \cup {"retired", "published", "done"} PROVE Rest
  BY <1>3
<1>4. ASSUME StragglerWrites(r) PROVE Rest
  <2>1. UNCHANGED <<pc, txn, ledger, wal, pointer>>
    BY <1>4 DEF StragglerWrites
  <2>2. QED
    BY <1>1, <2>1 DEF Anchored, PositionsOf
<1>5. ASSUME Prepare(r) \/ BeginPublish(r) PROVE Rest
  <2>1. CASE wal = None
    BY <1>0, <1>5, <2>1 DEF Prepare, BeginPublish, Recover
  <2>2. CASE wal # None
    BY <1>0, <1>5, <2>2, RecoverPurpose
  <2>3. QED
    BY <2>1, <2>2
<1>6. ASSUME Intends(r) PROVE Rest
  BY <1>0, <1>6, IntendPurpose, IntendWrites, IntendedRowTyped DEF Intends
<1>7. ASSUME AnchorRow(r) PROVE Rest
  <2>1. pc[r] = "anchor" /\ pc'[r] \in {"mark", "undoPointer"} /\ UNCHANGED <<wal, txn, pointer>>
    BY <1>0, <1>7 DEF AnchorRow
  <2>2. PICK q \in Runs : q = wal.row.run
    BY <1>0, <2>1
  <2>3. pc'[r] = "mark" => Anchored(q)'
    BY <1>7, <2>2, AnchoredEffect
  <2>4. Anchored(q)' <=> Anchored(wal.row.run)'
    BY <2>1, <2>2 DEF Anchored, PositionsOf
  <2>5. QED
    BY <1>1, <2>1, <2>3, <2>4
<1>8. ASSUME MarkAnchored(r) \/ MarkPublished(r) PROVE Rest
  <2>1. /\ (pc[r] = "mark" /\ pc'[r] = "point") \/ (pc[r] = "remark" /\ pc'[r] = "verify")
        /\ UNCHANGED <<txn, ledger, pointer>> /\ wal'.row = wal.row
    BY <1>0, <1>8, MarkKeepsRow DEF MarkAnchored, MarkPublished
  <2>2. QED
    BY <1>1, <2>1 DEF Anchored, PositionsOf
<1>9. ASSUME WritePointer(r) PROVE Rest
  <2>1. /\ pc[r] = "point" /\ pc'[r] = "copy" /\ UNCHANGED <<txn, ledger, wal>>
        /\ pointer' = [pointer EXCEPT ![NameOf[wal.row.run]] = wal.row.run]
        /\ pointer \in [Names -> Runs \cup {None}]
    BY <1>0, <1>9 DEF WritePointer, TypeOK
  <2>2. pointer'[NameOf[wal'.row.run]] = wal'.row.run
    BY <1>0, <2>1
  <2>3. QED
    BY <1>1, <2>1, <2>2 DEF Anchored, PositionsOf
<1>10. ASSUME CopyLatest(r) PROVE Rest
  <2>1. pc[r] = "copy" /\ pc'[r] = "remark" /\ UNCHANGED <<txn, ledger, wal, pointer>>
    BY <1>0, <1>10 DEF CopyLatest
  <2>2. QED
    BY <1>1, <2>1 DEF Anchored, PositionsOf
<1>11. ASSUME VerifyAndRetire(r) PROVE Rest
  <2>1. pc[r] = "verify" /\ pc'[r] \in {"retired", "undoPointer"} /\ UNCHANGED <<txn, ledger, pointer>>
    BY <1>0, <1>11 DEF VerifyAndRetire
  <2>2. For(r, "publish")' => Anchored(r)'
    BY <1>1, <2>1 DEF Anchored, PositionsOf
  <2>3. QED
    BY <2>1, <2>2
<1>12. ASSUME Return(r) PROVE Rest
  <2>1. /\ pc[r] = "retired" /\ UNCHANGED <<ledger, wal>> /\ wal = None
        /\ pc'[r] \in {"bind", "intend"} \/ (pc'[r] = "published" /\ For(r, "publish"))
    BY <1>0, <1>12 DEF Return, disk, Purposes, HolderInv, HolderOK
  <2>2. QED
    BY <1>1, <2>1 DEF Anchored, PositionsOf
<1>13. ASSUME Report(r) PROVE Rest
  <2>1. pc[r] = "published" /\ pc'[r] \in {"done", "gone"} /\ UNCHANGED <<ledger, wal>>
    BY <1>0, <1>13 DEF Report, disk
  <2>2. QED
    BY <1>1, <2>1 DEF Anchored, PositionsOf
<1>14. Rest
  BY <1>3, <1>4, <1>5, <1>6, <1>7, <1>8, <1>9, <1>10, <1>11, <1>12, <1>13, Completes
<1> HIDE DEF Rest
<1>15. QED
  BY <1>2, <1>14 DEF Progressed, Rest

\* Every control point finds written what it relies on.
LEMMA StepProgressed ==
  ASSUME IInv, SInv, NEW r \in Runs, Step(r), NEW s \in Runs
  PROVE  Progressed(s)'
<1>1. CASE s = r
  BY <1>1, StepProgressedOwn
<1>2. CASE s # r
  <2>1. Bystander(r, s) /\ Progressed(s)
    BY <1>2, BystanderKept DEF SInv, RunOK
  <2>2. CASE Held(s)
    <3>1. UNCHANGED <<txn, ledger, wal, pointer>> /\ pc'[s] = pc[s]
      BY <2>1, <2>2 DEF Bystander
    <3>2. \A q : Anchored(q)' <=> Anchored(q)
      BY <3>1 DEF Anchored, PositionsOf
    <3>3. QED
      BY <2>1, <2>2, <3>1, <3>2
         DEF Progressed, For, Held, Completing, Undoing, Anchored, PositionsOf
  <2>3. CASE ~Held(s)
    <3>1. pc'[s] = pc[s]
      BY <2>1 DEF Bystander
    <3>2. pc[s] \in {"published", "done"} => Anchored(s)' /\ (wal' # None => wal'.row.run # s)
      BY <1>2, <2>1, AnchoredEffect, WalEffect DEF Progressed, WalMoves
    <3>3. QED
      BY <2>3, <3>1, <3>2 DEF Progressed, For, Held, Completing, Undoing
  <2>4. QED
    BY <2>2, <2>3
<1>3. QED
  BY <1>1, <1>2

-----------------------------------------------------------------------------
(* The order of the records under one run lock.                            *)

\* A run that has ended stays ended.
LEMMA EndedKept ==
  ASSUME IInv, NEW r \in Runs, Step(r), NEW q \in Runs, pc[q] \in Ended
  PROVE  pc'[q] \in Ended
<1>1. q # r
  BY OwnMoves DEF Moves
<1>2. QED
  BY <1>1, BystanderKept DEF Bystander

\* Two anchored runs of one lock: the one that publishes shut the other out.
LEMMA LockExcludes ==
  ASSUME IInv, SInv, NEW r \in Runs, pc[r] = "intend", ~Anchored(r),
         NEW i \in DOMAIN ledger, SameLock(ledger[i].run, r)
  PROVE  pc[ledger[i].run] \in Ended
<1>1. PICK q \in Runs : q = ledger[i].run
  BY RowTyped DEF IInv
<1>2. Anchored(q) /\ q # r
  BY <1>1 DEF Anchored, PositionsOf
<1>3. ~Unlaunched(q)
  BY <1>2 DEF SInv, RunOK, Fresh, Unpublished
<1>4. ~Unlaunched(r) /\ pc[r] \notin Ended
  BY DEF Unlaunched, For, Held, Completing, Undoing, Ended
<1>5. LockOf[r] # None /\ LockOf[q] = LockOf[r]
  BY <1>1 DEF SameLock
<1>6. runLock[LockOf[r]] = r
  BY <1>4, <1>5 DEF SInv, RunOK, Locks
<1>7. QED
  BY <1>1, <1>2, <1>3, <1>5, <1>6 DEF SInv, RunOK, Locks

\* Records under one run lock keep following ended runs.
LEMMA StepSerial ==
  ASSUME IInv, SInv, NEW r \in Runs, Step(r)
  PROVE  Serial'
<1>0. TypeOK
  BY DEF IInv
<1>1. /\ \A i, j \in DOMAIN ledger :
           i < j /\ SameLock(ledger[i].run, ledger[j].run) => pc[ledger[i].run] \in Ended
      /\ wal # None /\ ~Anchored(wal.row.run) =>
           \A i \in DOMAIN ledger : SameLock(ledger[i].run, wal.row.run) => pc[ledger[i].run] \in Ended
  BY DEF SInv, Serial
<1>2. \A i \in DOMAIN ledger : pc[ledger[i].run] \in Ended => pc'[ledger[i].run] \in Ended
  <2> SUFFICES ASSUME NEW i \in DOMAIN ledger, pc[ledger[i].run] \in Ended
               PROVE  pc'[ledger[i].run] \in Ended
    OBVIOUS
  <2>1. PICK q \in Runs : q = ledger[i].run
    BY <1>0, RowTyped
  <2>2. QED
    BY <2>1, EndedKept
<1>3. CASE ledger' = ledger
  <2>1. \A i, j \in DOMAIN ledger' :
          i < j /\ SameLock(ledger'[i].run, ledger'[j].run) => pc'[ledger'[i].run] \in Ended
    BY <1>1, <1>2, <1>3
  <2>2. ASSUME wal' # None, ~Anchored(wal.row.run)', NEW i \in DOMAIN ledger,
               SameLock(ledger[i].run, wal'.row.run)
        PROVE  pc[ledger[i].run] \in Ended
    <3>1. CASE wal # None /\ wal'.row = wal.row
      <4>1. ~Anchored(wal.row.run)
        BY <1>3, <2>2, <3>1 DEF Anchored, PositionsOf
      <4>2. QED
        BY <1>1, <2>2, <3>1, <4>1
    <3>2. CASE Intends(r) /\ wal'.row.run = r
      <4>1. ~Anchored(r)
        BY <1>3, <2>2, <3>2 DEF Anchored, PositionsOf
      <4>2. pc[r] = "intend"
        BY <3>2 DEF Intends, Intend
      <4>3. QED
        BY <2>2, <3>2, <4>1, <4>2, LockExcludes
    <3>3. QED
      BY <2>2, <3>1, <3>2, WalEffect DEF WalMoves
  <2>3. QED
    BY <1>2, <1>3, <2>1, <2>2 DEF Serial, SameLock
<1>4. CASE ledger' # ledger
  <2>1. PICK row \in Row : row = wal.row
    BY <1>0, <1>4, LedgerEffect, WalRunTyped DEF LedgerMoves
  <2>2. wal # None /\ wal' = wal /\ ledger' = Append(ledger, row) /\ ~Anchored(row.run)
    BY <1>4, <2>1, LedgerEffect DEF LedgerMoves
  <2>3. /\ DOMAIN ledger' = DOMAIN ledger \cup {Len(ledger) + 1}
        /\ DOMAIN ledger = 1..Len(ledger)
        /\ ledger'[Len(ledger) + 1] = row
        /\ \A i \in DOMAIN ledger : ledger'[i] = ledger[i]
    BY <1>0, <2>2, AppendRow DEF TypeOK
  <2>4. ASSUME NEW i \in DOMAIN ledger', NEW j \in DOMAIN ledger', i < j,
               SameLock(ledger'[i].run, ledger'[j].run)
        PROVE  pc'[ledger'[i].run] \in Ended
    <3>1. i \in DOMAIN ledger /\ ledger'[i] = ledger[i]
      BY <1>0, <2>3, <2>4, LenProperties DEF TypeOK
    <3>2. pc[ledger[i].run] \in Ended
      BY <1>1, <2>1, <2>2, <2>3, <2>4, <3>1
    <3>3. QED
      BY <1>2, <3>1, <3>2
  <2>5. Anchored(wal.row.run)'
    BY <2>1, <2>2, <2>3 DEF Anchored, PositionsOf
  <2>6. QED
    BY <2>4, <2>5 DEF Serial, SameLock
<1>5. QED
  BY <1>3, <1>4

\* A record is overtaken by a second pass only.
LEMMA StepReplayOnly ==
  ASSUME IInv, SInv, NEW r \in Runs, Step(r)
  PROVE  OnlyReplayIsSuperseded'
<1>0. TypeOK /\ LedgerChained /\ pass \in [Runs -> 1..2]
  BY DEF IInv, TypeOK
<1> SUFFICES ASSUME wal' # None, Anchored(wal.row.run)', ~IsLatest(wal.row.run)'
             PROVE  /\ pass'[wal'.row.run] = 2
                    /\ \E s \in Runs \ {wal'.row.run} :
                         /\ NameOf[s] = NameOf[wal'.row.run]
                         /\ LockOf[s] = None \/ LockOf[s] # LockOf[wal'.row.run]
  BY DEF OnlyReplayIsSuperseded
<1>1. CASE ledger' # ledger
  <2>1. PICK row \in Row : row = wal.row
    BY <1>0, <1>1, LedgerEffect, WalRunTyped DEF LedgerMoves
  <2>2. wal # None /\ wal' = wal /\ ledger' = Append(ledger, row)
    BY <1>1, <2>1, LedgerEffect DEF LedgerMoves
  <2>3. /\ DOMAIN ledger' = DOMAIN ledger \cup {Len(ledger) + 1}
        /\ DOMAIN ledger = 1..Len(ledger)
        /\ ledger'[Len(ledger) + 1] = row
    BY <1>0, <2>2, AppendRow DEF TypeOK
  <2>4. Len(ledger) + 1 \in PositionsOf(wal.row.run)'
    BY <2>1, <2>2, <2>3 DEF PositionsOf
  <2>5. \A j \in DOMAIN ledger' : j =< Len(ledger) + 1
    BY <1>0, <2>3, LenProperties DEF TypeOK
  <2>6. IsLatest(wal.row.run)'
    BY <2>4, <2>5 DEF IsLatest
  <2>7. QED
    BY <2>6
<1>2. CASE ledger' = ledger /\ wal # None /\ wal'.row = wal.row
  <2>1. PICK q \in Runs : q = wal.row.run
    BY <1>0, <1>2, WalRunTyped
  <2>2. Anchored(q) /\ ~IsLatest(q)
    BY <1>2, <2>1 DEF Anchored, IsLatest, PositionsOf
  <2>3. /\ pass[q] = 2
        /\ \E s \in Runs \ {q} :
             NameOf[s] = NameOf[q] /\ (LockOf[s] = None \/ LockOf[s] # LockOf[q])
    BY <1>2, <2>1, <2>2 DEF SInv, OnlyReplayIsSuperseded
  <2>4. pc[q] # "execute"
    BY <1>2, <2>1 DEF SInv, RunOK, Fresh, Unpublished
  <2>5. pass'[q] = 2
    BY <2>3, <2>4, BystanderKept, OwnMoves DEF Bystander, Moves
  <2>6. QED
    BY <1>2, <2>1, <2>3, <2>5
<1>3. CASE ledger' = ledger /\ Intends(r) /\ wal'.row.run = r
  <2>1. pc[r] = "intend" /\ pass' = pass
    BY <1>0, <1>3, IntendWrites DEF Intends, Intend
  <2>2. Anchored(r) /\ ~IsLatest(r)
    BY <1>3 DEF Anchored, IsLatest, PositionsOf
  <2>3. pass'[r] = 2
    BY <1>0, <2>1, <2>2 DEF SInv, RunOK, Fresh, Unpublished
  <2>4. PICK i \in PositionsOf(r) : TRUE
    BY <2>2 DEF Anchored
  <2>5. i \in DOMAIN ledger /\ ledger[i].run = r /\ PositionsOf(r) = {i}
    BY <1>0, <2>4 DEF PositionsOf, LedgerChained
  <2>6. PICK j \in DOMAIN ledger : NameOf[ledger[j].run] = NameOf[r] /\ ~(j =< i)
    BY <2>2, <2>4 DEF IsLatest
  <2>7. PICK s \in Runs : s = ledger[j].run
    BY <1>0, RowTyped
  <2>8. i \in Nat /\ j \in Nat /\ i < j
    BY <1>0, <2>5, <2>6, RowTyped
  <2>9. s # r
    BY <2>5, <2>6, <2>7, <2>8 DEF PositionsOf
  <2>10. ~SameLock(r, s)
    BY <2>1, <2>5, <2>7, <2>8 DEF SInv, Serial, Ended
  <2>11. LockOf[s] = None \/ LockOf[s] # LockOf[r]
    BY <2>10 DEF SameLock
  <2>12. QED
    BY <1>3, <2>3, <2>6, <2>7, <2>9, <2>11
<1>4. QED
  BY <1>1, <1>2, <1>3, WalEffect DEF WalMoves

-----------------------------------------------------------------------------
(* The advisory latest state.                                              *)

\* While r is about to overwrite the pointer or the latest state of a name, some run
\* of that name has not settled.
LEMMA Unsettled ==
  ASSUME IInv, SInv, NEW r \in Runs, Step(r), Held(r),
         pc'[r] \notin {"published", "done", "remark", "verify", "retired"}
  PROVE  \E s \in Runs : NameOf[s] = txn.name /\ ~Settled(s)'
<1>1. ~Settled(r)'
  BY DEF Settled
<1>2. CASE For(r, "publish")
  BY <1>1, <1>2 DEF SInv, RunOK, Progressed
<1>3. CASE ~For(r, "publish")
  <2>1. PICK s \in Runs : NameOf[s] = txn.name /\ pc[s] \notin {"published", "done"}
    BY <1>3 DEF SInv, RunOK, Replays, For
  <2>2. CASE s = r
    BY <1>1, <2>1, <2>2
  <2>3. CASE s # r
    <3>1. ~Held(s)
      BY <2>3 DEF IInv, LockInv, Locked, Held
    <3>2. pc'[s] = pc[s]
      BY <2>3, BystanderKept DEF Bystander
    <3>3. ~Settled(s)'
      BY <2>1, <3>1, <3>2 DEF Settled, For, Held
    <3>4. QED
      BY <2>1, <3>3
  <2>4. QED
    BY <2>2, <2>3
<1>4. QED
  BY <1>2, <1>3

\* The steps that write the latest state or the pointer of a name.
LEMMA LatestEffect ==
  ASSUME IInv, NEW r \in Runs, Step(r), NEW n \in Names
  PROVE  \/ latest'[n] = latest[n] /\ pointer'[n] = pointer[n]
         \/ (Launch(r) \/ Heartbeat(r)) /\ NameOf[r] = n
         \/ CopyLatest(r) /\ NameOf[wal.row.run] = n
         \/ (WritePointer(r) \/ UndoPointer(r) \/ UndoLatest(r)) /\ txn.name = n
<1>0. TypeOK /\ HolderInv /\ latest \in [Names -> Live \cup {None}]
      /\ pointer \in [Names -> Runs \cup {None}]
  BY DEF IInv, TypeOK
<1>1. Prepare(r) \/ Bind(r) \/ Refuse(r) \/ Finish(r) \/ StragglerWrites(r) \/ BeginPublish(r)
      \/ LockTimeout(r) => UNCHANGED <<latest, pointer>>
  BY DEF Prepare, Bind, Refuse, Finish, StragglerWrites, BeginPublish, LockTimeout, disk
<1>2. Intend(r) \/ AnchorRow(r) \/ MarkAnchored(r) \/ MarkPublished(r) \/ VerifyAndRetire(r)
      \/ Return(r) \/ Report(r) \/ Fault(r) \/ Crash(r) => UNCHANGED <<latest, pointer>>
  BY DEF Intend, AnchorRow, MarkAnchored, MarkPublished, VerifyAndRetire, Return, Report, Fault,
     Crash, disk
<1>3. Launch(r) \/ Heartbeat(r) => NameOf[r] = n \/ (latest'[n] = latest[n] /\ pointer'[n] = pointer[n])
  BY <1>0 DEF Launch, Heartbeat
<1>4. CopyLatest(r) => NameOf[wal.row.run] = n \/ (latest'[n] = latest[n] /\ pointer'[n] = pointer[n])
  BY <1>0 DEF CopyLatest
<1>5. WritePointer(r) => txn.name = n \/ (latest'[n] = latest[n] /\ pointer'[n] = pointer[n])
  BY <1>0 DEF WritePointer, HolderInv, HolderOK, Completing
<1>6. UndoPointer(r) \/ UndoLatest(r) => txn.name = n \/ (latest'[n] = latest[n] /\ pointer'[n] = pointer[n])
  BY <1>0 DEF UndoPointer, UndoLatest
<1>7. QED
  BY <1>1, <1>2, <1>3, <1>4, <1>5, <1>6 DEF Step, Progress

\* The latest state of a name settles with its runs.
LEMMA StepSettling ==
  ASSUME IInv, SInv, NEW r \in Runs, Step(r)
  PROVE  Settling'
<1> SUFFICES ASSUME NEW q \in Runs, \A s \in Runs : NameOf[s] = NameOf[q] => Settled(s)'
             PROVE  latest'[NameOf[q]] = [run |-> pointer'[NameOf[q]], terminal |-> TRUE]
  BY DEF Settling
<1> DEFINE n == NameOf[q]
<1>0. /\ n \in Names /\ pc \in [Runs -> Control]
      /\ latest \in [Names -> Live \cup {None}]
  BY DEF IInv, TypeOK
<1>1. ASSUME latest'[n] = latest[n], pointer'[n] = pointer[n],
             Settled(r)' => Settled(r) \/ NameOf[r] # n
      PROVE  latest'[n] = [run |-> pointer'[n], terminal |-> TRUE]
  <2>1. \A s \in Runs : s # r /\ Settled(s)' => Settled(s)
    BY BystanderKept DEF Bystander, Settled, For, Held, Completing, Undoing
  <2>2. \A s \in Runs : NameOf[s] = NameOf[q] => Settled(s)
    BY <1>1, <2>1
  <2>3. QED
    BY <1>1, <2>2 DEF SInv, Settling
<1>2. CASE CopyLatest(r)
  <2>1. /\ pc[r] = "copy" /\ UNCHANGED pointer /\ wal.row.run \in Runs
        /\ latest' = [latest EXCEPT ![NameOf[wal.row.run]] = [run |-> wal.row.run, terminal |-> TRUE]]
    BY <1>2, HeldWalTyped DEF CopyLatest, IInv, Completing
  <2>2. pointer[NameOf[wal.row.run]] = wal.row.run
    BY <2>1 DEF SInv, RunOK, Progressed
  <2>3. CASE NameOf[wal.row.run] = n
    BY <1>0, <2>1, <2>2, <2>3
  <2>4. CASE NameOf[wal.row.run] # n
    <3>1. For(r, "publish") => NameOf[r] # n
      BY <2>1, <2>4 DEF SInv, RunOK, Progressed, Completing
    <3>2. latest'[n] = latest[n]
      BY <1>0, <2>1, <2>4
    <3>3. QED
      BY <1>1, <2>1, <3>1, <3>2, OwnMoves DEF Moves
  <2>5. QED
    BY <2>3, <2>4
<1>3. CASE ~CopyLatest(r) /\ latest'[n] = latest[n] /\ pointer'[n] = pointer[n]
  BY <1>1, <1>3, OwnMoves DEF Moves
<1>4. CASE (Launch(r) \/ Heartbeat(r)) /\ NameOf[r] = n
  <2>1. pc'[r] = "execute"
    BY <1>0, <1>4 DEF Launch, Heartbeat, Goto
  <2>2. ~Settled(r)'
    BY <2>1 DEF Settled, For, Held, Completing, Undoing
  <2>3. QED
    BY <1>4, <2>2
<1>5. CASE (WritePointer(r) \/ UndoPointer(r) \/ UndoLatest(r)) /\ txn.name = n
  <2>1. Held(r) /\ pc'[r] \in {"copy", "undoLatest", "gone", "publish"}
    BY <1>0, <1>5 DEF WritePointer, UndoPointer, UndoLatest, Raise, Goto, Held, Completing, Undoing
  <2>2. PICK s \in Runs : NameOf[s] = n /\ ~Settled(s)'
    BY <1>5, <2>1, Unsettled
  <2>3. QED
    BY <2>2
<1>6. QED
  BY <1>0, <1>2, <1>3, <1>4, <1>5, LatestEffect

-----------------------------------------------------------------------------
(* The invariant.                                                          *)

\* The strengthening holds at the start.
LEMMA InitSettled == Init => SInv
<1> SUFFICES ASSUME Init PROVE SInv
  OBVIOUS
<1> USE DEF Completing, Undoing, Ended
<1>1. DOMAIN ledger = {} /\ wal = None /\ \A r \in Runs : pc[r] = "new"
  BY EmptySeq DEF Init
<1>2. \A r \in Runs : RunOK(r)
  BY <1>1 DEF RunOK, Progressed, Fresh, Locks, Replays, For, Held, Unlaunched, Anchored, PositionsOf
<1>3. Serial /\ OnlyReplayIsSuperseded
  BY <1>1 DEF Serial, OnlyReplayIsSuperseded
<1>4. Settling
  BY <1>1 DEF Settling, Settled, For, Held
<1>5. QED
  BY <1>2, <1>3, <1>4 DEF SInv

\* It speaks of the variables of the model only.
LEMMA StutterSettled == SInv /\ UNCHANGED vars => SInv'
<1> SUFFICES ASSUME SInv, UNCHANGED vars PROVE SInv'
  OBVIOUS
<1>1. UNCHANGED <<pc, pass, runLock, txn, ledger, wal, pointer, latest>>
  BY DEF vars, disk
<1>2. ASSUME NEW r \in Runs PROVE RunOK(r)'
  <2>1. RunOK(r)
    BY DEF SInv
  <2>2. QED
    BY <1>1, <2>1 DEF RunOK, Progressed, Fresh, Locks, Replays, For, Held, Unlaunched, Unpublished,
       Anchored, PositionsOf
<1>3. Serial' /\ OnlyReplayIsSuperseded'
  BY <1>1 DEF SInv, Serial, OnlyReplayIsSuperseded, Anchored, IsLatest, PositionsOf
<1>4. Settling'
  BY <1>1 DEF SInv, Settling, Settled, For, Held
<1>5. QED
  BY <1>2, <1>3, <1>4 DEF SInv

\* Every step keeps it.
LEMMA StepSettled == IInv /\ SInv /\ [Next]_vars => SInv'
<1>1. ASSUME IInv, SInv, NEW r \in Runs, Step(r) PROVE SInv'
  BY <1>1, StepProgressed, StepFresh, StepLocks, StepReplays, StepSerial, StepSettling,
     StepReplayOnly DEF SInv, RunOK
<1>2. QED
  BY <1>1, StutterSettled DEF Next, Step

\* Every reachable state satisfies the strengthening.
THEOREM SettledInvariant == Spec => []SInv
<1>1. QED
  BY Invariant, InitSettled, StepSettled, PTL DEF Spec

\* A runner that returned an exit status has its row in the ledger, whatever crashed,
\* raised or was replayed: publish_runner_record returns only after the row it wrote
\* ahead was found in the ledger.
THEOREM ReportsAreAnchored == Spec => []ReportedIsAnchored
<1>1. SInv => ReportedIsAnchored
  BY DEF SInv, RunOK, Progressed, ReportedIsAnchored
<1>2. QED
  BY <1>1, SettledInvariant, PTL

\* A pending record is overtaken by another row of its name only in the second pass of
\* its run, and only by a run that another run lock let through.
THEOREM SupersededByReplay == Spec => []OnlyReplayIsSuperseded
<1>1. SInv => OnlyReplayIsSuperseded
  BY DEF SInv
<1>2. QED
  BY <1>1, SettledInvariant, PTL

\* When every run of a name has returned, latest/<name>_state.json is the terminal state
\* of the run latest/<name>_terminal.json names.
THEOREM LatestStatesSettle == Spec => []LatestSettles
<1>1. SInv => LatestSettles
  <2> SUFFICES ASSUME SInv, NEW q \in Runs, \A r \in Runs : NameOf[r] = NameOf[q] => pc[r] = "done"
               PROVE  latest[NameOf[q]] = [run |-> pointer[NameOf[q]], terminal |-> TRUE]
    BY DEF LatestSettles
  <2>1. QED
    BY DEF SInv, Settling, Settled
<1>2. QED
  BY <1>1, SettledInvariant, PTL

\* Runs of one name share one run lock.
Serialized ==
  \A r, s \in Runs : r # s /\ NameOf[r] = NameOf[s] => SameLock(r, s)

\* If runs of one name exclude each other, a startup that replays the record of an
\* intact run always gets it verified: "Startup recovers valid interrupted publication
\* before run allocation" (README.md).
THEOREM StartupsRecover == Serialized => (Spec => []StartupRecovers)
<1> SUFFICES ASSUME Serialized PROVE Spec => []StartupRecovers
  OBVIOUS
<1>1. IInv /\ SInv => StartupRecovers
  <2> SUFFICES ASSUME IInv, SInv, NEW r \in Runs, pc[r] = "verify", ~drifted[wal.row.run]
               PROVE  VerifyPasses(wal.row.run)
    BY DEF StartupRecovers
  <2>1. PICK q \in Runs : q = wal.row.run /\ wal # None
    BY HeldWalTyped DEF IInv, Completing
  <2>2. Anchored(q) /\ pointer[NameOf[q]] = q
    BY <2>1 DEF SInv, RunOK, Progressed
  <2>3. PICK i \in DOMAIN ledger : ledger[i].run = q
    BY <2>2 DEF Anchored, PositionsOf
  <2>4. PositionsOf(q) = {i} /\ Bound(q)
    BY <2>3 DEF IInv, LedgerChained, LedgerAgreesWithBindings
  <2>5. IsLatest(q)
    <3> SUFFICES ASSUME ~IsLatest(q) PROVE FALSE
      OBVIOUS
    <3>1. PICK s \in Runs \ {q} : NameOf[s] = NameOf[q] /\ (LockOf[s] = None \/ LockOf[s] # LockOf[q])
      BY <2>1, <2>2 DEF SInv, OnlyReplayIsSuperseded
    <3>2. QED
      BY <3>1 DEF Serialized, SameLock
  <2>6. QED
    BY <2>1, <2>2, <2>3, <2>4, <2>5 DEF VerifyPasses
<1>2. QED
  BY <1>1, Invariant, SettledInvariant, PTL
=============================================================================
