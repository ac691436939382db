---------------------------- MODULE ControllerProofs ---------------------------
(***************************************************************************)
(* Proofs about ImprovementController, for any number of runs, cycles,        *)
(* container commands, failures and crashes.  The inductive invariant: Typed   *)
(* (types, and where a process can be in each mode), Filed, Drafted and        *)
(* Pointed (what the record of a run says while it is being written), Leased    *)
(* (what the ACL leases know about the roots) and Boxed (what is left of the    *)
(* containers).                                                              *)
(***************************************************************************)
EXTENDS ImprovementController, TLAPS, SequenceTheorems

Boxing == {"create", "start", "attach", "attached", "remove", "removed"}
Renewing == {"restore", "restoring", "restored"}
Closing == {"unlink", "guard", "terminal", "project", "seal"}
Filing == {"append", "verify", "point", "reverify"}
Recovering == {"boxes", "unbox", "leases", "recover", "event", "unroot", "unlink"} \cup Renewing

\* Where a process can be in each mode.
Placed ==
  /\ me.mode = "startup" => me.pc \in Recovering \cup {"down", "gate", "authorize"}
  /\ me.mode = "body" => me.pc \in {"root", "snapshot", "setup", "work"} \cup Boxing \cup Renewing
                            /\ me.cycle \in Cycles
  /\ me.mode = "finally" => me.pc \in {"boxes", "unbox", "unroot", "cycleEnd"} \cup Renewing
  /\ me.mode = "root" => me.pc \in {"cycle", "work", "boxes", "unbox", "quiesce", "emergency"}
                                   \cup Boxing \cup Closing \cup Filing
  /\ me.mode = "emergency" => me.pc \in Recovering \cup {"assert"}
  /\ me.mode = "closing" => me.pc \in Closing \cup Filing

Verdicts == {"RECOVERED", "RECOVERY_REQUIRED"}

Anywhere == Recovering \cup Boxing \cup Closing \cup Filing
            \cup {"down", "gate", "authorize", "root", "snapshot", "setup", "work", "cycleEnd", "cycle",
                  "quiesce", "emergency", "assert"}

Memory == [pc : Anywhere, mode : Modes, cycle : Cycles \cup {0}, todo : SUBSET Nat, held : BOOLEAN,
           registry : SUBSET Cycles, fatal : Fatal \cup {None}, failed : BOOLEAN,
           verdict : Verdicts \cup {None}, commands : Nat, previous : Runs \cup {0}]

Controlled == me \in Memory /\ Placed /\ (At("event") => me.verdict \in Verdicts)

Typed == TypeOK /\ Controlled /\ (me.mode # "startup" => run \in Runs)

-------------------------------------------------------------------------------
(* Where the process goes.                                                     *)

\* The run of the process is not sealed yet.
Unsealed == \/ me.mode \in {"body", "finally"}
            \/ me.mode = "root" /\ me.pc \notin Filing \cup {"emergency"}
            \/ me.mode = "closing" /\ me.pc \in Closing

\* Every lease is known to be restored; the leases that may not be are listed.
Settled == me.pc \in Closing \cup {"gate", "authorize"} \/ (At("event") /\ me.verdict = "RECOVERED")
Recalled == me.mode \in {"startup", "emergency"} /\ me.pc \in {"recover", "unroot"} \cup Renewing

\* The containers of the run were found to be quiescent; of its finalizer; of every run.
Quiesced == me.mode \in {"root", "closing"} /\ me.pc \in Closing
Finalized == me.mode = "emergency" /\ me.pc \notin {"boxes", "unbox"}
Restarted == me.mode = "startup" /\ me.pc \notin {"down", "boxes", "unbox"}

\* A step that leaves the record of the run alone comes to no filing of it, but where the
\* finalizer publishes a sealed run again and where the bundle was verified.
RecordFlow ==
  /\ Unsealed' => Unsealed \/ (At("assert") /\ sealed[run] = None)
  /\ me'.mode # "startup" => me.mode # "startup"
  /\ me'.pc \in Filing => \/ me' = me
                          \/ At("assert") /\ sealed[run] # None /\ me'.pc = "append"
                          \/ At("verify") /\ me'.pc = "point" /\ Verifies(run)
  /\ me'.pc \in {"terminal", "project", "seal"} => me' = me
  /\ At("reverify") \/ At("emergency") => me' = me \/ me'.mode = "startup"

\* Where the leases are settled, and how those to recover are listed.
LeaseFlow ==
  /\ Settled' => Settled \/ AclQuiescent \/ (FindLeases /\ LeasePaths = {}) \/ (Recalled /\ me.todo = {})
  /\ Recalled' => \/ FindLeases /\ me'.todo = LeasePaths
                  \/ Recalled /\ me'.todo = me.todo
                  \/ Recalled /\ me'.todo = me.todo \ {Target} /\ (Unroot \/ ~root[Target])
  /\ me'.pc = "snapshot" => me' = me \/ (LeaseRoot /\ me'.cycle = me.cycle)
  /\ me'.pc = "setup" => me.pc \in {"snapshot", "setup"}
  /\ me'.pc = "restored" =>
       me' = me \/ (Restoring /\ me'.mode = me.mode /\ me'.cycle = me.cycle /\ me'.todo = me.todo)

\* Where the containers are found to be quiescent.
BoxFlow ==
  /\ Quiesced' => Quiesced \/ (At("quiesce") /\ BoxesQuiescent(run)) \/ (me.mode = "emergency" /\ At("assert"))
  /\ Finalized' => Finalized \/ (me.mode = "emergency" /\ BoxesRecovered)
  /\ Restarted' => Restarted \/ (me.mode = "startup" /\ BoxesRecovered)

Flow == RecordFlow /\ LeaseFlow /\ BoxFlow

\* The process that is down.
LEMMA DownTyped == Down \in Memory /\ Down.mode = "startup" /\ Down.pc = "down"
BY DEF Down, Memory, Modes, Verdicts, Anywhere

\* An exception is handled in the mode it happens in.
LEMMA RaisedTyped ==
  ASSUME Controlled, NEW kind \in Fatal
  PROVE  /\ Raised(kind) \in Memory
         /\ me.mode = "body" => /\ Raised(kind).mode = "finally" /\ Raised(kind).pc = "boxes"
         /\ me.mode = "finally" => /\ Raised(kind).mode = "finally" /\ Raised(kind).pc = "cycleEnd"
         /\ me.mode = "root" => /\ Raised(kind).mode = "root" /\ Raised(kind).pc = "emergency"
         /\ me.mode \in {"startup", "emergency", "closing"} => Raised(kind) = Down
<1>1. me.mode \in Modes /\ kind \in {"FAILED", "TIMEOUT"}
  BY DEF Controlled, Memory, Fatal
<1>2. CASE me.mode = "body"
  <2>1. Raised(kind) = Finally(kind)
    BY <1>2 DEF Raised, In
  <2> QED
    BY <1>1, <1>2, <2>1 DEF Finally, Controlled, Memory, Modes, Anywhere, Recovering
<1>3. CASE me.mode = "finally"
  <2>1. Raised(kind) = [me EXCEPT !.failed = TRUE, !.fatal = "FAILED", !.pc = "cycleEnd"]
    BY <1>3 DEF Raised, In
  <2> QED
    BY <1>1, <1>3, <2>1 DEF Controlled, Memory, Modes, Fatal, Anywhere
<1>4. CASE me.mode = "root"
  <2>1. Raised(kind) = Go("emergency")
    BY <1>4 DEF Raised, In
  <2> QED
    BY <1>1, <1>4, <2>1 DEF Go, Controlled, Memory, Modes, Anywhere, Recovering
<1>5. CASE me.mode \in {"startup", "emergency", "closing"}
  <2>1. Raised(kind) = Down
    BY <1>5 DEF Raised, In
  <2> QED
    BY <1>5, <2>1, DownTyped
<1> QED
  BY <1>1, <1>2, <1>3, <1>4, <1>5 DEF Modes

\* What the ways of going on do with the memory.
LEMMA GoTyped ==
  ASSUME me \in Memory, NEW pc \in Anywhere
  PROVE  /\ Go(pc) \in Memory /\ Go(pc) = [me EXCEPT !.pc = pc] /\ Go(pc).pc = pc
         /\ Go(pc).mode = me.mode /\ Go(pc).cycle = me.cycle /\ Go(pc).todo = me.todo
BY DEF Go, Memory

\* Entering the shared recovery code.
LEMMA CallTyped ==
  ASSUME me \in Memory, NEW mode \in Modes, NEW pc \in Anywhere
  PROVE  Call(mode, pc) \in Memory /\ Call(mode, pc).pc = pc /\ Call(mode, pc).mode = mode
BY DEF Call, Memory

\* A verdict goes into the event of the lease.
LEMMA SealEventTyped ==
  ASSUME me \in Memory, NEW verdict \in Verdicts
  PROVE  /\ SealEvent(verdict) \in Memory /\ SealEvent(verdict).mode = me.mode
         /\ SealEvent(verdict).pc = "event" /\ SealEvent(verdict).verdict = verdict
BY DEF SealEvent, Memory, Anywhere, Recovering

\* The lease at hand is done.
LEMMA LeaseDoneTyped ==
  ASSUME me \in Memory
  PROVE  /\ LeaseDone \in Memory /\ LeaseDone.mode = me.mode /\ LeaseDone.pc = "recover"
         /\ LeaseDone.todo = me.todo \ {Target}
BY DEF LeaseDone, Memory, Anywhere, Recovering

\* Where a cycle ends: its finally clause.
LEMMA FinallyTyped ==
  ASSUME me \in Memory, NEW kind \in Fatal \cup {None}
  PROVE  Finally(kind) \in Memory /\ Finally(kind).mode = "finally" /\ Finally(kind).pc = "boxes"
BY DEF Finally, Memory, Anywhere, Recovering, Modes

\* After the gates: the finally clause of a cycle, or the end of the root adjudication.
LEMMA AfterWorkTyped ==
  ASSUME me \in Memory, NEW kind \in Fatal \cup {None}
  PROVE  /\ AfterWork(kind) \in Memory
         /\ me.mode = "body" => AfterWork(kind).mode = "finally" /\ AfterWork(kind).pc = "boxes"
         /\ me.mode # "body" => AfterWork(kind).mode = me.mode /\ AfterWork(kind).pc \in {"boxes", "quiesce"}
<1>1. CASE me.mode = "body"
  BY <1>1, FinallyTyped DEF AfterWork, In
<1>2. CASE me.mode # "body"
  <2>1. PICK pc \in {"boxes", "quiesce"} : AfterWork(kind) = [me EXCEPT !.fatal = kind, !.pc = pc]
    BY <1>2 DEF AfterWork, In
  <2> QED
    BY <1>2, <2>1 DEF Memory, Anywhere, Recovering
<1> QED
  BY <1>1, <1>2

\* Containers and leases are recovered, by the startup, the finalizer or a cycle.
LEMMA RecoveringFlow ==
  ASSUME Typed,
         \/ StartProcess \/ ListBoxes \/ RemoveListedBox \/ BoxesRecovered \/ (BoxesStuck \/ BoxesFail) \/
            FindLeases \/ RecoverLease \/ RecoverFails \/ Event \/ BeginRestore \/ Restoring \/ EndRestore \/
            RestoreFails \/ Unroot \/ UnrootFails
  PROVE  Controlled' /\ Flow
<1>0. me \in Memory /\ Controlled
  BY DEF Typed, Controlled
<1>1. CASE StartProcess
  <2>1. /\ me.pc = "down"
        /\ me' = Go("boxes")
    BY <1>0, <1>1 DEF StartProcess, At
  <2>2. /\ me' \in Memory /\ me.pc = "down"
        /\ me'.mode = me.mode /\ me'.cycle = me.cycle
        /\ me'.pc = "boxes"
    BY <1>0, <2>1, GoTyped DEF Anywhere, Recovering, Renewing, Boxing, Closing, Filing
  <2> QED
    BY <1>0, <2>2 DEF Controlled, At, Placed, Flow, RecordFlow, LeaseFlow, BoxFlow, Unsealed, Settled, Recalled,
       Quiesced, Finalized, Restarted, Recovering, Renewing, Boxing, Closing, Filing, Verdicts
<1>2. CASE ListBoxes
  <2>1. PICK todo \in SUBSET Nat :
           /\ me.pc = "boxes"
           /\ me' = [me EXCEPT !.todo = todo, !.pc = "unbox"]
    <3>1. Listed(Scope) \subseteq Scope /\ Scope \subseteq Nat
      BY RunsAssumption DEF Listed, Scope, Typed, TypeOK
    <3> QED
      BY <1>2, <3>1 DEF ListBoxes, At
  <2>2. /\ me' \in Memory /\ me.pc = "boxes"
        /\ me'.mode = me.mode
        /\ me'.pc = "unbox"
    BY <1>0, <2>1 DEF Memory, Modes, Fatal, Verdicts, Anywhere, Recovering, Renewing, Boxing, Closing, Filing
  <2> QED
    BY <1>0, <2>2 DEF Controlled, At, Placed, Flow, RecordFlow, LeaseFlow, BoxFlow, Unsealed, Settled, Recalled,
       Quiesced, Finalized, Restarted, Recovering, Renewing, Boxing, Closing, Filing, Verdicts
<1>3. CASE RemoveListedBox
  <2>1. /\ me.pc = "unbox"
        /\ \E r : me' = [me EXCEPT !.todo = @ \ {r}]
    BY <1>0, <1>3 DEF RemoveListedBox, At
  <2>2. /\ me' \in Memory /\ me.pc = "unbox"
        /\ me'.mode = me.mode
        /\ me'.pc = "unbox"
    BY <1>0, <2>1 DEF Memory, Modes, Fatal, Verdicts, Anywhere, Recovering, Renewing, Boxing, Closing, Filing
  <2> QED
    BY <1>0, <2>2 DEF Controlled, At, Placed, Flow, RecordFlow, LeaseFlow, BoxFlow, Unsealed, Settled, Recalled,
       Quiesced, Finalized, Restarted, Recovering, Renewing, Boxing, Closing, Filing, Verdicts
<1>4. CASE BoxesRecovered
  <2>1. /\ me.pc = "unbox"
        /\ \E pc \in {"quiesce", "leases", "restore", "unroot", "cycleEnd"} :
             /\ me' = Go(pc)
             /\ me.mode = "root" <=> pc = "quiesce"
             /\ pc = "leases" <=> me.mode \notin {"root", "finally"}
    BY <1>0, <1>4 DEF BoxesRecovered, At, In
  <2>2. /\ me' \in Memory /\ me.pc = "unbox"
        /\ me'.mode = me.mode
        /\ me'.pc \in {"quiesce", "leases", "restore", "unroot", "cycleEnd"}
        /\ me.mode = "root" <=> me'.pc = "quiesce"
        /\ me'.pc = "leases" <=> me.mode \notin {"root", "finally"}
    BY <1>0, <2>1, GoTyped DEF Anywhere, Recovering, Renewing, Boxing, Closing, Filing
  <2> QED
    BY <1>0, <1>4, <2>2 DEF Controlled, At, Placed, Flow, RecordFlow, LeaseFlow, BoxFlow, Unsealed, Settled, Recalled,
       Quiesced, Finalized, Restarted, Recovering, Renewing, Boxing, Closing, Filing, Verdicts
<1>5. CASE (BoxesStuck \/ BoxesFail)
  <2>1. /\ me.pc \in {"boxes", "unbox"}
        /\ \/ me.mode = "root" /\ me' = [me EXCEPT !.fatal = "FAILED", !.pc = "quiesce"]
           \/ me.mode # "root" /\ me' = Raised("FAILED")
    BY <1>0, <1>5 DEF BoxesStuck, BoxesFail, BoxesRaise, At, In
  <2>2. /\ me' \in Memory /\ me.pc \in {"boxes", "unbox"}
        /\ \/ me.mode = "root" /\ me'.mode = "root" /\ me'.pc = "quiesce"
           \/ me.mode = "body" /\ me'.mode = "finally" /\ me'.pc = "boxes"
           \/ me.mode = "finally" /\ me'.mode = "finally" /\ me'.pc = "cycleEnd"
           \/ me' = Down
    <3>1. CASE me.mode = "root" /\ me' = [me EXCEPT !.fatal = "FAILED", !.pc = "quiesce"]
      BY <1>0, <2>1, <3>1 DEF Memory, Modes, Fatal, Verdicts, Anywhere, Recovering, Renewing, Boxing, Closing,
         Filing
    <3>2. CASE me.mode # "root" /\ me' = Raised("FAILED")
      BY <1>0, <2>1, <3>2, RaisedTyped, DownTyped DEF Memory, Modes, Fatal
    <3> QED
      BY <2>1, <3>1, <3>2
  <2> QED
    BY <1>0, <2>2, DownTyped DEF Controlled, At, Placed, Flow, RecordFlow, LeaseFlow, BoxFlow, Unsealed, Settled, Recalled,
       Quiesced, Finalized, Restarted, Recovering, Renewing, Boxing, Closing, Filing, Verdicts
<1>6. CASE FindLeases
  <2>1. /\ me.pc = "leases"
        /\ \/ me.mode = "startup" /\ me' = Go("gate") /\ LeasePaths = {}
           \/ me.mode # "startup" /\ me' = Go("assert")
           \/ me' = [me EXCEPT !.todo = LeasePaths, !.pc = "recover"]
        /\ LeasePaths \in SUBSET Nat
    BY <1>0, <1>6, CyclesAssumption DEF FindLeases, AfterLeases, At, In, LeasePaths
  <2>2. /\ me' \in Memory /\ me.pc = "leases"
        /\ me'.mode = me.mode
        /\ me'.pc \in {"gate", "assert", "recover"}
        /\ me'.pc = "gate" => me.mode = "startup" /\ LeasePaths = {}
        /\ me'.pc = "recover" => me'.todo = LeasePaths
        /\ me'.pc = "assert" => me.mode # "startup"
    <3>1. CASE me.mode = "startup" /\ me' = Go("gate") /\ LeasePaths = {}
      BY <1>0, <2>1, <3>1, GoTyped DEF Anywhere, Recovering, Renewing, Boxing, Closing, Filing
    <3>2. CASE me.mode # "startup" /\ me' = Go("assert")
      BY <1>0, <2>1, <3>2, GoTyped DEF Anywhere, Recovering, Renewing, Boxing, Closing, Filing
    <3>3. CASE me' = [me EXCEPT !.todo = LeasePaths, !.pc = "recover"]
      BY <1>0, <2>1, <3>3 DEF Memory, Modes, Fatal, Verdicts, Anywhere, Recovering, Renewing, Boxing, Closing,
         Filing
    <3> QED
      BY <2>1, <3>1, <3>2, <3>3
  <2> QED
    BY <1>0, <1>6, <2>2 DEF Controlled, At, Placed, Flow, RecordFlow, LeaseFlow, BoxFlow, Unsealed, Settled, Recalled,
       Quiesced, Finalized, Restarted, Recovering, Renewing, Boxing, Closing, Filing, Verdicts
<1>7. CASE RecoverLease
  <2>1. /\ me.pc = "recover"
        /\ \/ me' = Go("unlink") /\ me.todo = {}
           \/ me' = Go("restore")
           \/ me' = LeaseDone /\ ~root[Target]
           \/ me' = SealEvent("RECOVERY_REQUIRED")
    BY <1>0, <1>7 DEF RecoverLease, At
  <2>2. /\ me' \in Memory /\ me.pc = "recover"
        /\ me'.mode = me.mode
        /\ me'.pc \in {"unlink", "restore", "recover", "event"}
        /\ me'.pc = "unlink" => me.todo = {}
        /\ me'.pc = "restore" => me'.todo = me.todo
        /\ me'.pc = "recover" => me'.todo = me.todo \ {Target} /\ ~root[Target]
        /\ me'.pc = "event" => me'.verdict = "RECOVERY_REQUIRED"
    BY <1>0, <2>1, GoTyped, SealEventTyped, LeaseDoneTyped DEF Memory, Modes, Fatal, Verdicts, Anywhere,
       Recovering, Renewing, Boxing, Closing, Filing
  <2>3. me.mode \in {"startup", "emergency"}
    BY <1>0, <2>2 DEF Controlled, Memory, Modes, Placed, Recovering, Renewing, Boxing, Closing, Filing
  <2>4. Controlled'
    BY <1>0, <2>2, <2>3 DEF Controlled, At, Placed, Recovering, Renewing, Boxing, Closing, Filing, Verdicts
  <2>5. RecordFlow /\ BoxFlow
    BY <1>0, <2>2, <2>3 DEF Controlled, At, Placed, RecordFlow, BoxFlow, Unsealed, Quiesced, Finalized, Restarted,
       Recovering, Renewing, Boxing, Closing, Filing
  <2>6. LeaseFlow
    BY <1>0, <2>2, <2>3 DEF Controlled, At, Placed, LeaseFlow, Settled, Recalled, Recovering, Renewing, Boxing, Closing,
       Filing
  <2> QED
    BY <2>4, <2>5, <2>6 DEF Flow
<1>8. CASE RecoverFails
  <2>1. /\ me.pc = "recover"
        /\ me' = SealEvent("RECOVERY_REQUIRED")
    BY <1>0, <1>8 DEF RecoverFails, At
  <2>2. /\ me' \in Memory /\ me.pc = "recover"
        /\ me'.mode = me.mode
        /\ me'.pc = "event"
        /\ me'.pc = "event" => me'.verdict = "RECOVERY_REQUIRED"
    BY <1>0, <2>1, SealEventTyped DEF Memory, Modes, Fatal, Verdicts, Anywhere, Recovering, Renewing, Boxing,
       Closing, Filing
  <2> QED
    BY <1>0, <2>2 DEF Controlled, At, Placed, Flow, RecordFlow, LeaseFlow, BoxFlow, Unsealed, Settled, Recalled,
       Quiesced, Finalized, Restarted, Recovering, Renewing, Boxing, Closing, Filing, Verdicts
<1>9. CASE Event
  <2>1. /\ me.pc = "event"
        /\ \/ me.mode = "startup" /\ me' = Go("gate") /\ me.verdict = "RECOVERED"
           \/ me.mode # "startup" /\ me' = Go("assert")
           \/ me' = Down
    BY <1>0, <1>9 DEF Event, AfterLeases, At, In
  <2>2. /\ me' \in Memory /\ me.pc = "event"
        /\ \/ me.mode = "startup" /\ me'.mode = "startup" /\ me'.pc = "gate"
              /\ me.verdict = "RECOVERED"
           \/ me.mode # "startup" /\ me'.mode = me.mode /\ me'.pc = "assert"
           \/ me' = Down
    BY <1>0, <2>1, GoTyped, DownTyped DEF Memory, Modes, Fatal, Verdicts, Anywhere, Recovering, Renewing,
       Boxing, Closing, Filing
  <2> QED
    BY <1>0, <2>2, DownTyped DEF Controlled, At, Placed, Flow, RecordFlow, LeaseFlow, BoxFlow, Unsealed, Settled, Recalled,
       Quiesced, Finalized, Restarted, Recovering, Renewing, Boxing, Closing, Filing, Verdicts
<1>10. CASE BeginRestore
  <2>1. /\ me.pc = "restore"
        /\ me' = Go("restoring")
    BY <1>0, <1>10 DEF BeginRestore, At
  <2>2. /\ me' \in Memory /\ me.pc = "restore"
        /\ me'.mode = me.mode /\ me'.cycle = me.cycle /\ me'.todo = me.todo
        /\ me'.pc = "restoring"
    BY <1>0, <2>1, GoTyped DEF Anywhere, Recovering, Renewing, Boxing, Closing, Filing
  <2> QED
    BY <1>0, <1>10, <2>2 DEF Controlled, At, Placed, Flow, RecordFlow, LeaseFlow, BoxFlow, Unsealed, Settled, Recalled,
       Quiesced, Finalized, Restarted, Recovering, Renewing, Boxing, Closing, Filing, Verdicts
<1>11. CASE Restoring
  <2>1. /\ me.pc = "restoring"
        /\ me' = Go("restored")
    BY <1>0, <1>11 DEF Restoring, At
  <2>2. /\ me' \in Memory /\ me.pc = "restoring"
        /\ me'.mode = me.mode /\ me'.cycle = me.cycle /\ me'.todo = me.todo
        /\ me'.pc = "restored"
    BY <1>0, <2>1, GoTyped DEF Anywhere, Recovering, Renewing, Boxing, Closing, Filing
  <2> QED
    BY <1>0, <1>11, <2>2 DEF Controlled, At, Placed, Flow, RecordFlow, LeaseFlow, BoxFlow, Unsealed, Settled, Recalled,
       Quiesced, Finalized, Restarted, Recovering, Renewing, Boxing, Closing, Filing, Verdicts
<1>12. CASE EndRestore
  <2>1. /\ me.pc = "restored"
        /\ \/ me.mode = "body" /\ me' = [Finally(me.fatal) EXCEPT !.registry = @ \ {Target}]
           \/ me.mode = "finally" /\ me' = [Go("unroot") EXCEPT !.registry = @ \ {Target}]
           \/ me.mode \notin {"body", "finally"} /\ me' = Go("unroot")
    BY <1>0, <1>12 DEF EndRestore, At, In
  <2>2. /\ me' \in Memory /\ me.pc = "restored"
        /\ \/ me.mode = "body" /\ me'.mode = "finally" /\ me'.pc = "boxes"
           \/ me.mode # "body" /\ me'.mode = me.mode /\ me'.pc = "unroot" /\ me'.todo = me.todo
    <3>1. CASE me.mode = "body" /\ me' = [Finally(me.fatal) EXCEPT !.registry = @ \ {Target}]
      BY <1>0, <2>1, <3>1 DEF Finally, Memory, Modes, Anywhere, Recovering
    <3>2. CASE me.mode = "finally" /\ me' = [Go("unroot") EXCEPT !.registry = @ \ {Target}]
      BY <1>0, <2>1, <3>2 DEF Go, Memory, Modes, Anywhere, Recovering
    <3>3. CASE me.mode \notin {"body", "finally"} /\ me' = Go("unroot")
      BY <1>0, <2>1, <3>3, GoTyped DEF Anywhere, Recovering, Renewing, Boxing, Closing, Filing
    <3> QED
      BY <2>1, <3>1, <3>2, <3>3
  <2> QED
    BY <1>0, <2>2 DEF Controlled, At, Placed, Flow, RecordFlow, LeaseFlow, BoxFlow, Unsealed, Settled, Recalled,
       Quiesced, Finalized, Restarted, Recovering, Renewing, Boxing, Closing, Filing, Verdicts
<1>13. CASE RestoreFails
  <2>1. /\ me.pc \in {"restore", "restoring", "restored"}
        /\ \/ me.mode \in {"body", "finally"} /\ me' = Raised("FAILED")
           \/ me.mode \notin {"body", "finally"} /\ me' = SealEvent("RECOVERY_REQUIRED")
    BY <1>0, <1>13 DEF RestoreFails, At, In
  <2>2. /\ me' \in Memory /\ me.pc \in {"restore", "restoring", "restored"}
        /\ \/ me.mode = "body" /\ me'.mode = "finally" /\ me'.pc = "boxes"
           \/ me.mode = "finally" /\ me'.mode = "finally" /\ me'.pc = "cycleEnd"
           \/ me.mode \notin {"body", "finally"} /\ me'.mode = me.mode /\ me'.pc = "event"
              /\ me'.verdict = "RECOVERY_REQUIRED"
    BY <1>0, <2>1, RaisedTyped, SealEventTyped DEF Memory, Modes, Fatal, Verdicts, Anywhere, Recovering,
       Renewing, Boxing, Closing, Filing
  <2> QED
    BY <1>0, <2>2 DEF Controlled, At, Placed, Flow, RecordFlow, LeaseFlow, BoxFlow, Unsealed, Settled, Recalled,
       Quiesced, Finalized, Restarted, Recovering, Renewing, Boxing, Closing, Filing, Verdicts
<1>14. CASE Unroot
  <2>1. /\ me.pc = "unroot"
        /\ \/ me.mode = "finally" /\ me' = Go("cycleEnd")
           \/ me.mode # "finally" /\ me' = LeaseDone
    BY <1>0, <1>14 DEF Unroot, At, In
  <2>2. /\ me' \in Memory /\ me.pc = "unroot"
        /\ me'.mode = me.mode
        /\ me'.pc = IF me.mode = "finally" THEN "cycleEnd" ELSE "recover"
        /\ me.mode # "finally" => me'.todo = me.todo \ {Target}
    BY <1>0, <2>1, GoTyped, LeaseDoneTyped DEF Memory, Modes, Fatal, Verdicts, Anywhere, Recovering, Renewing,
       Boxing, Closing, Filing
  <2> QED
    BY <1>0, <1>14, <2>2 DEF Controlled, At, Placed, Flow, RecordFlow, LeaseFlow, BoxFlow, Unsealed, Settled, Recalled,
       Quiesced, Finalized, Restarted, Recovering, Renewing, Boxing, Closing, Filing, Verdicts
<1>15. CASE UnrootFails
  <2>1. /\ me.pc = "unroot"
        /\ \/ me.mode = "finally" /\ me' = Raised("FAILED")
           \/ me.mode # "finally" /\ me' = SealEvent("RECOVERY_REQUIRED")
    BY <1>0, <1>15 DEF UnrootFails, At, In
  <2>2. /\ me' \in Memory /\ me.pc = "unroot"
        /\ me'.mode = me.mode
        /\ me'.pc = IF me.mode = "finally" THEN "cycleEnd" ELSE "event"
        /\ me'.pc = "event" => me'.verdict = "RECOVERY_REQUIRED"
    BY <1>0, <2>1, RaisedTyped, SealEventTyped DEF Memory, Modes, Fatal, Verdicts, Anywhere, Recovering,
       Renewing, Boxing, Closing, Filing
  <2> QED
    BY <1>0, <2>2 DEF Controlled, At, Placed, Flow, RecordFlow, LeaseFlow, BoxFlow, Unsealed, Settled, Recalled,
       Quiesced, Finalized, Restarted, Recovering, Renewing, Boxing, Closing, Filing, Verdicts
<1> QED
  BY <1>1, <1>2, <1>3, <1>4, <1>5, <1>6, <1>7, <1>8, <1>9, <1>10, <1>11, <1>12, <1>13, <1>14, <1>15

\* A cycle with its lease, and the containers it uses.
LEMMA CycleFlow ==
  ASSUME Typed,
         \/ NextCycle \/ CyclesEnd \/ LeaseRoot \/ Snapshot \/ SnapshotFails \/ SetupMutates \/ SetupAdvances \/
            SetupFails \/ WorkEnds \/ WorkFails \/ Intent \/ CreateBox \/ CreateFails \/ StartBox \/ AttachBox
            \/ BoxEnded \/ BoxTimeout \/ BoxFails \/ RemoveBox \/ CloseBox \/ RemoveBoxFails \/ CycleEnd
  PROVE  Controlled' /\ Flow
<1>0. me \in Memory /\ Controlled
  BY DEF Typed, Controlled
<1>1. CASE NextCycle
  <2>1. PICK c \in Cycles :
           /\ me.pc = "cycle" /\ me.mode = "root"
           /\ me' = [me EXCEPT !.mode = "body", !.pc = "root", !.cycle = c, !.held = FALSE,
                                           !.commands = 0]
    BY <1>0, <1>1 DEF NextCycle, At, Controlled, Placed, Memory, Modes, Recovering, Renewing, Boxing, Closing, Filing
  <2>2. /\ me' \in Memory /\ me.pc = "cycle" /\ me.mode = "root"
        /\ me'.mode = "body" /\ me'.cycle \in Cycles
        /\ me'.pc = "root"
    BY <1>0, <2>1 DEF Memory, Modes, Fatal, Verdicts, Anywhere, Recovering, Renewing, Boxing, Closing, Filing
  <2> QED
    BY <1>0, <2>2 DEF Controlled, At, Placed, Flow, RecordFlow, LeaseFlow, BoxFlow, Unsealed, Settled, Recalled,
       Quiesced, Finalized, Restarted, Recovering, Renewing, Boxing, Closing, Filing, Verdicts
<1>2. CASE CyclesEnd
  <2>1. /\ me.pc = "cycle"
        /\ \/ me' = [me EXCEPT !.fatal = "TIMEOUT", !.pc = "quiesce"]
           \/ me' = [me EXCEPT !.commands = 0, !.pc = "work"]
    BY <1>0, <1>2 DEF CyclesEnd, At
  <2>2. /\ me' \in Memory /\ me.pc = "cycle"
        /\ me'.mode = me.mode /\ me'.cycle = me.cycle
        /\ me'.pc \in {"quiesce", "work"}
    <3>1. CASE me' = [me EXCEPT !.fatal = "TIMEOUT", !.pc = "quiesce"]
      BY <1>0, <2>1, <3>1 DEF Memory, Modes, Fatal, Verdicts, Anywhere, Recovering, Renewing, Boxing, Closing,
         Filing
    <3>2. CASE me' = [me EXCEPT !.commands = 0, !.pc = "work"]
      BY <1>0, <2>1, <3>2 DEF Memory, Modes, Fatal, Verdicts, Anywhere, Recovering, Renewing, Boxing, Closing,
         Filing
    <3> QED
      BY <2>1, <3>1, <3>2
  <2> QED
    BY <1>0, <2>2 DEF Controlled, At, Placed, Flow, RecordFlow, LeaseFlow, BoxFlow, Unsealed, Settled, Recalled,
       Quiesced, Finalized, Restarted, Recovering, Renewing, Boxing, Closing, Filing, Verdicts
<1>3. CASE LeaseRoot
  <2>1. /\ me.pc = "root"
        /\ me' = Go("snapshot")
    BY <1>0, <1>3 DEF LeaseRoot, At
  <2>2. /\ me' \in Memory /\ me.pc = "root"
        /\ me'.mode = me.mode /\ me'.cycle = me.cycle
        /\ me'.pc = "snapshot"
    BY <1>0, <2>1, GoTyped DEF Anywhere, Recovering, Renewing, Boxing, Closing, Filing
  <2> QED
    BY <1>0, <1>3, <2>2 DEF Controlled, At, Placed, Flow, RecordFlow, LeaseFlow, BoxFlow, Unsealed, Settled, Recalled,
       Quiesced, Finalized, Restarted, Recovering, Renewing, Boxing, Closing, Filing, Verdicts
<1>4. CASE Snapshot
  <2>1. /\ me.pc = "snapshot" /\ me.cycle \in Cycles
        /\ me' = [me EXCEPT !.registry = @ \cup {me.cycle}, !.pc = "setup"]
    BY <1>0, <1>4 DEF Snapshot, At, Controlled, Placed, Memory, Modes, Recovering, Renewing, Boxing, Closing, Filing
  <2>2. /\ me' \in Memory /\ me.pc = "snapshot" /\ me.cycle \in Cycles
        /\ me'.mode = me.mode /\ me'.cycle = me.cycle
        /\ me'.pc = "setup"
    BY <1>0, <2>1 DEF Memory, Modes, Fatal, Verdicts, Anywhere, Recovering, Renewing, Boxing, Closing, Filing
  <2> QED
    BY <1>0, <2>2 DEF Controlled, At, Placed, Flow, RecordFlow, LeaseFlow, BoxFlow, Unsealed, Settled, Recalled,
       Quiesced, Finalized, Restarted, Recovering, Renewing, Boxing, Closing, Filing, Verdicts
<1>5. CASE SnapshotFails
  <2>1. PICK kind \in Fatal :
           /\ me.pc \in {"root", "snapshot"} /\ me.mode = "body"
           /\ me' = Finally(kind)
    BY <1>0, <1>5 DEF SnapshotFails, At, Controlled, Placed, Modes, Memory, Recovering, Renewing, Boxing, Closing, Filing
  <2>2. /\ me' \in Memory /\ me.pc \in {"root", "snapshot"} /\ me.mode = "body"
        /\ me'.mode = "finally"
        /\ me'.pc = "boxes"
    BY <1>0, <2>1, FinallyTyped DEF Fatal
  <2> QED
    BY <1>0, <2>2 DEF Controlled, At, Placed, Flow, RecordFlow, LeaseFlow, BoxFlow, Unsealed, Settled, Recalled,
       Quiesced, Finalized, Restarted, Recovering, Renewing, Boxing, Closing, Filing, Verdicts
<1>6. CASE SetupMutates
  <2>1. /\ me.pc = "setup"
        /\ me' = me
    BY <1>0, <1>6 DEF SetupMutates, At
  <2>2. /\ me' \in Memory /\ me.pc = "setup"
        /\ me' = me
    BY <1>0, <2>1
  <2> QED
    BY <1>0, <2>2 DEF Controlled, At, Placed, Flow, RecordFlow, LeaseFlow, BoxFlow, Unsealed, Settled, Recalled,
       Quiesced, Finalized, Restarted, Recovering, Renewing, Boxing, Closing, Filing, Verdicts
<1>7. CASE SetupAdvances
  <2>1. /\ me.pc = "setup"
        /\ \/ me' = me
           \/ me' = [me EXCEPT !.held = TRUE, !.pc = "work"]
    BY <1>0, <1>7 DEF SetupAdvances, At
  <2>2. /\ me' \in Memory /\ me.pc = "setup"
        /\ me'.mode = me.mode /\ me'.cycle = me.cycle
        /\ me'.pc \in {"setup", "work"}
    <3>1. CASE me' = me
      BY <1>0, <2>1, <3>1 DEF Memory, Modes, Fatal, Verdicts, Anywhere, Recovering, Renewing, Boxing, Closing,
         Filing
    <3>2. CASE me' = [me EXCEPT !.held = TRUE, !.pc = "work"]
      BY <1>0, <2>1, <3>2 DEF Memory, Modes, Fatal, Verdicts, Anywhere, Recovering, Renewing, Boxing, Closing,
         Filing
    <3> QED
      BY <2>1, <3>1, <3>2
  <2> QED
    BY <1>0, <2>2 DEF Controlled, At, Placed, Flow, RecordFlow, LeaseFlow, BoxFlow, Unsealed, Settled, Recalled,
       Quiesced, Finalized, Restarted, Recovering, Renewing, Boxing, Closing, Filing, Verdicts
<1>8. CASE SetupFails
  <2>1. PICK kind \in Fatal :
           /\ me.pc = "setup"
           /\ me' = [me EXCEPT !.fatal = kind, !.pc = "restore"]
    BY <1>0, <1>8 DEF SetupFails, At
  <2>2. /\ me' \in Memory /\ me.pc = "setup"
        /\ me'.mode = me.mode /\ me'.cycle = me.cycle
        /\ me'.pc = "restore"
    BY <1>0, <2>1 DEF Memory, Modes, Fatal, Verdicts, Anywhere, Recovering, Renewing, Boxing, Closing, Filing
  <2> QED
    BY <1>0, <2>2 DEF Controlled, At, Placed, Flow, RecordFlow, LeaseFlow, BoxFlow, Unsealed, Settled, Recalled,
       Quiesced, Finalized, Restarted, Recovering, Renewing, Boxing, Closing, Filing, Verdicts
<1>9. CASE WorkEnds
  <2>1. /\ me.pc = "work"
        /\ me' = AfterWork(None)
    BY <1>0, <1>9 DEF WorkEnds, At
  <2>2. /\ me' \in Memory /\ me.pc = "work"
        /\ \/ me.mode = "body" /\ me'.mode = "finally" /\ me'.pc = "boxes"
           \/ me.mode # "body" /\ me'.mode = me.mode /\ me'.pc \in {"boxes", "quiesce"}
    BY <1>0, <2>1, AfterWorkTyped DEF Fatal
  <2> QED
    BY <1>0, <2>2 DEF Controlled, At, Placed, Flow, RecordFlow, LeaseFlow, BoxFlow, Unsealed, Settled, Recalled,
       Quiesced, Finalized, Restarted, Recovering, Renewing, Boxing, Closing, Filing, Verdicts
<1>10. CASE WorkFails
  <2>1. PICK kind \in Fatal :
           /\ me.pc = "work"
           /\ me' = AfterWork(kind)
    BY <1>0, <1>10 DEF WorkFails, At
  <2>2. /\ me' \in Memory /\ me.pc = "work"
        /\ \/ me.mode = "body" /\ me'.mode = "finally" /\ me'.pc = "boxes"
           \/ me.mode # "body" /\ me'.mode = me.mode /\ me'.pc \in {"boxes", "quiesce"}
    BY <1>0, <2>1, AfterWorkTyped DEF Fatal
  <2> QED
    BY <1>0, <2>2 DEF Controlled, At, Placed, Flow, RecordFlow, LeaseFlow, BoxFlow, Unsealed, Settled, Recalled,
       Quiesced, Finalized, Restarted, Recovering, Renewing, Boxing, Closing, Filing, Verdicts
<1>11. CASE Intent
  <2>1. /\ me.pc = "work" /\ me.commands + 1 \in Nat
        /\ me' = [me EXCEPT !.commands = me.commands + 1, !.pc = "create"]
    BY <1>0, <1>11 DEF Intent, At, Memory
  <2>2. /\ me' \in Memory /\ me.pc = "work" /\ me.commands + 1 \in Nat
        /\ me'.mode = me.mode /\ me'.cycle = me.cycle
        /\ me'.pc = "create"
    BY <1>0, <2>1 DEF Memory, Modes, Fatal, Verdicts, Anywhere, Recovering, Renewing, Boxing, Closing, Filing
  <2> QED
    BY <1>0, <2>2 DEF Controlled, At, Placed, Flow, RecordFlow, LeaseFlow, BoxFlow, Unsealed, Settled, Recalled,
       Quiesced, Finalized, Restarted, Recovering, Renewing, Boxing, Closing, Filing, Verdicts
<1>12. CASE CreateBox
  <2>1. /\ me.pc = "create"
        /\ me' = Go("start")
    BY <1>0, <1>12 DEF CreateBox, At
  <2>2. /\ me' \in Memory /\ me.pc = "create"
        /\ me'.mode = me.mode /\ me'.cycle = me.cycle
        /\ me'.pc = "start"
    BY <1>0, <2>1, GoTyped DEF Anywhere, Recovering, Renewing, Boxing, Closing, Filing
  <2> QED
    BY <1>0, <2>2 DEF Controlled, At, Placed, Flow, RecordFlow, LeaseFlow, BoxFlow, Unsealed, Settled, Recalled,
       Quiesced, Finalized, Restarted, Recovering, Renewing, Boxing, Closing, Filing, Verdicts
<1>13. CASE CreateFails
  <2>1. PICK kind \in Fatal :
           /\ me.pc = "create"
           /\ me' = AfterWork(kind)
    BY <1>0, <1>13 DEF CreateFails, At
  <2>2. /\ me' \in Memory /\ me.pc = "create"
        /\ \/ me.mode = "body" /\ me'.mode = "finally" /\ me'.pc = "boxes"
           \/ me.mode # "body" /\ me'.mode = me.mode /\ me'.pc \in {"boxes", "quiesce"}
    BY <1>0, <2>1, AfterWorkTyped DEF Fatal
  <2> QED
    BY <1>0, <2>2 DEF Controlled, At, Placed, Flow, RecordFlow, LeaseFlow, BoxFlow, Unsealed, Settled, Recalled,
       Quiesced, Finalized, Restarted, Recovering, Renewing, Boxing, Closing, Filing, Verdicts
<1>14. CASE StartBox
  <2>1. /\ me.pc = "start"
        /\ me' = Go("attach")
    BY <1>0, <1>14 DEF StartBox, At
  <2>2. /\ me' \in Memory /\ me.pc = "start"
        /\ me'.mode = me.mode /\ me'.cycle = me.cycle
        /\ me'.pc = "attach"
    BY <1>0, <2>1, GoTyped DEF Anywhere, Recovering, Renewing, Boxing, Closing, Filing
  <2> QED
    BY <1>0, <2>2 DEF Controlled, At, Placed, Flow, RecordFlow, LeaseFlow, BoxFlow, Unsealed, Settled, Recalled,
       Quiesced, Finalized, Restarted, Recovering, Renewing, Boxing, Closing, Filing, Verdicts
<1>15. CASE AttachBox
  <2>1. /\ me.pc = "attach"
        /\ me' = Go("attached")
    BY <1>0, <1>15 DEF AttachBox, At
  <2>2. /\ me' \in Memory /\ me.pc = "attach"
        /\ me'.mode = me.mode /\ me'.cycle = me.cycle
        /\ me'.pc = "attached"
    BY <1>0, <2>1, GoTyped DEF Anywhere, Recovering, Renewing, Boxing, Closing, Filing
  <2> QED
    BY <1>0, <2>2 DEF Controlled, At, Placed, Flow, RecordFlow, LeaseFlow, BoxFlow, Unsealed, Settled, Recalled,
       Quiesced, Finalized, Restarted, Recovering, Renewing, Boxing, Closing, Filing, Verdicts
<1>16. CASE BoxEnded
  <2>1. /\ me.pc = "attached"
        /\ me' = Go("remove")
    BY <1>0, <1>16 DEF BoxEnded, At
  <2>2. /\ me' \in Memory /\ me.pc = "attached"
        /\ me'.mode = me.mode /\ me'.cycle = me.cycle
        /\ me'.pc = "remove"
    BY <1>0, <2>1, GoTyped DEF Anywhere, Recovering, Renewing, Boxing, Closing, Filing
  <2> QED
    BY <1>0, <2>2 DEF Controlled, At, Placed, Flow, RecordFlow, LeaseFlow, BoxFlow, Unsealed, Settled, Recalled,
       Quiesced, Finalized, Restarted, Recovering, Renewing, Boxing, Closing, Filing, Verdicts
<1>17. CASE BoxTimeout
  <2>1. /\ me.pc = "attached"
        /\ me' = [me EXCEPT !.fatal = "TIMEOUT", !.pc = "remove"]
    BY <1>0, <1>17 DEF BoxTimeout, At
  <2>2. /\ me' \in Memory /\ me.pc = "attached"
        /\ me'.mode = me.mode /\ me'.cycle = me.cycle
        /\ me'.pc = "remove"
    BY <1>0, <2>1 DEF Memory, Modes, Fatal, Verdicts, Anywhere, Recovering, Renewing, Boxing, Closing, Filing
  <2> QED
    BY <1>0, <2>2 DEF Controlled, At, Placed, Flow, RecordFlow, LeaseFlow, BoxFlow, Unsealed, Settled, Recalled,
       Quiesced, Finalized, Restarted, Recovering, Renewing, Boxing, Closing, Filing, Verdicts
<1>18. CASE BoxFails
  <2>1. PICK kind \in Fatal :
           /\ me.pc \in {"start", "attach", "attached"}
           /\ me' = [me EXCEPT !.fatal = kind, !.pc = "remove"]
    BY <1>0, <1>18 DEF BoxFails, At
  <2>2. /\ me' \in Memory /\ me.pc \in {"start", "attach", "attached"}
        /\ me'.mode = me.mode /\ me'.cycle = me.cycle
        /\ me'.pc = "remove"
    BY <1>0, <2>1 DEF Memory, Modes, Fatal, Verdicts, Anywhere, Recovering, Renewing, Boxing, Closing, Filing
  <2> QED
    BY <1>0, <2>2 DEF Controlled, At, Placed, Flow, RecordFlow, LeaseFlow, BoxFlow, Unsealed, Settled, Recalled,
       Quiesced, Finalized, Restarted, Recovering, Renewing, Boxing, Closing, Filing, Verdicts
<1>19. CASE RemoveBox
  <2>1. /\ me.pc = "remove"
        /\ me' = Go("removed")
    BY <1>0, <1>19 DEF RemoveBox, At
  <2>2. /\ me' \in Memory /\ me.pc = "remove"
        /\ me'.mode = me.mode /\ me'.cycle = me.cycle
        /\ me'.pc = "removed"
    BY <1>0, <2>1, GoTyped DEF Anywhere, Recovering, Renewing, Boxing, Closing, Filing
  <2> QED
    BY <1>0, <2>2 DEF Controlled, At, Placed, Flow, RecordFlow, LeaseFlow, BoxFlow, Unsealed, Settled, Recalled,
       Quiesced, Finalized, Restarted, Recovering, Renewing, Boxing, Closing, Filing, Verdicts
<1>20. CASE CloseBox
  <2>1. /\ me.pc = "removed"
        /\ me' \in {Go("work"), AfterWork(me.fatal)} /\ me.fatal \in Fatal \cup {None}
    BY <1>0, <1>20 DEF CloseBox, At, Memory
  <2>2. /\ me' \in Memory /\ me.pc = "removed"
        /\ \/ me'.mode = me.mode /\ me'.cycle = me.cycle /\ me'.pc = "work"
           \/ me.mode = "body" /\ me'.mode = "finally" /\ me'.pc = "boxes"
           \/ me.mode # "body" /\ me'.mode = me.mode /\ me'.pc \in {"boxes", "quiesce"}
    BY <1>0, <2>1, GoTyped, AfterWorkTyped DEF Anywhere, Recovering, Renewing, Boxing, Closing, Filing
  <2> QED
    BY <1>0, <2>2 DEF Controlled, At, Placed, Flow, RecordFlow, LeaseFlow, BoxFlow, Unsealed, Settled, Recalled,
       Quiesced, Finalized, Restarted, Recovering, Renewing, Boxing, Closing, Filing, Verdicts
<1>21. CASE RemoveBoxFails
  <2>1. /\ me.pc \in {"remove", "removed"}
        /\ me' = AfterWork("FAILED")
    BY <1>0, <1>21 DEF RemoveBoxFails, At
  <2>2. /\ me' \in Memory /\ me.pc \in {"remove", "removed"}
        /\ \/ me.mode = "body" /\ me'.mode = "finally" /\ me'.pc = "boxes"
           \/ me.mode # "body" /\ me'.mode = me.mode /\ me'.pc \in {"boxes", "quiesce"}
    BY <1>0, <2>1, AfterWorkTyped DEF Fatal
  <2> QED
    BY <1>0, <2>2 DEF Controlled, At, Placed, Flow, RecordFlow, LeaseFlow, BoxFlow, Unsealed, Settled, Recalled,
       Quiesced, Finalized, Restarted, Recovering, Renewing, Boxing, Closing, Filing, Verdicts
<1>22. CASE CycleEnd
  <2>1. PICK kind \in Fatal \cup {None}, pc \in {"emergency", "cycle", "quiesce"} :
           /\ me.pc = "cycleEnd" /\ me.mode = "finally"
           /\ me' = [me EXCEPT !.fatal = kind, !.mode = "root", !.pc = pc]
    BY <1>0, <1>22 DEF CycleEnd, At, Controlled, Placed, Memory, Modes, Fatal, Recovering, Renewing, Boxing, Closing, Filing
  <2>2. /\ me' \in Memory /\ me.pc = "cycleEnd" /\ me.mode = "finally"
        /\ me'.mode = "root"
        /\ me'.pc \in {"emergency", "cycle", "quiesce"}
    BY <1>0, <2>1 DEF Memory, Modes, Fatal, Verdicts, Anywhere, Recovering, Renewing, Boxing, Closing, Filing
  <2> QED
    BY <1>0, <2>2 DEF Controlled, At, Placed, Flow, RecordFlow, LeaseFlow, BoxFlow, Unsealed, Settled, Recalled,
       Quiesced, Finalized, Restarted, Recovering, Renewing, Boxing, Closing, Filing, Verdicts
<1> QED
  BY <1>1, <1>2, <1>3, <1>4, <1>5, <1>6, <1>7, <1>8, <1>9, <1>10, <1>11, <1>12, <1>13, <1>14, <1>15, <1>16,
     <1>17, <1>18, <1>19, <1>20, <1>21, <1>22

\* The other steps that leave the record of the run alone.
LEMMA RunFlow ==
  ASSUME Typed,
         \/ Gate \/ Refuse \/ UnlinkOne \/ UnlinkDone \/ UnlinkFails \/ Quiesce \/ VerifyRun \/ Published \/
            AssertQuiescent \/ StepFails \/ Crash \/ (Environment \/ UNCHANGED vars)
  PROVE  Controlled' /\ Flow
<1>0. me \in Memory /\ Controlled
  BY DEF Typed, Controlled
<1>1. CASE Gate
  <2>1. /\ me.pc = "gate"
        /\ \/ me' = Down
           \/ me' = Go("authorize")
    BY <1>0, <1>1 DEF Gate, At
  <2>2. /\ me' \in Memory /\ me.pc = "gate"
        /\ \/ me' = Down
           \/ me'.mode = me.mode /\ me'.pc = "authorize"
    <3>1. CASE me' = Down
      BY <1>0, <2>1, <3>1, GoTyped, DownTyped DEF Anywhere, Recovering, Renewing, Boxing, Closing, Filing
    <3>2. CASE me' = Go("authorize")
      BY <1>0, <2>1, <3>2, GoTyped, DownTyped DEF Anywhere, Recovering, Renewing, Boxing, Closing, Filing
    <3> QED
      BY <2>1, <3>1, <3>2
  <2> QED
    BY <1>0, <2>2, DownTyped DEF Controlled, At, Placed, Flow, RecordFlow, LeaseFlow, BoxFlow, Unsealed, Settled, Recalled,
       Quiesced, Finalized, Restarted, Recovering, Renewing, Boxing, Closing, Filing, Verdicts
<1>2. CASE Refuse
  <2>1. /\ me.pc = "authorize"
        /\ me' = Down
    BY <1>0, <1>2 DEF Refuse, At
  <2>2. /\ me' \in Memory /\ me.pc = "authorize"
        /\ me' = Down
    BY <1>0, <2>1, DownTyped
  <2> QED
    BY <1>0, <2>2, DownTyped DEF Controlled, At, Placed, Flow, RecordFlow, LeaseFlow, BoxFlow, Unsealed, Settled, Recalled,
       Quiesced, Finalized, Restarted, Recovering, Renewing, Boxing, Closing, Filing, Verdicts
<1>3. CASE UnlinkOne
  <2>1. /\ me.pc = "unlink"
        /\ me' = me
    BY <1>0, <1>3 DEF UnlinkOne, At
  <2>2. /\ me' \in Memory /\ me.pc = "unlink"
        /\ me' = me
    BY <1>0, <2>1
  <2> QED
    BY <1>0, <2>2 DEF Controlled, At, Placed, Flow, RecordFlow, LeaseFlow, BoxFlow, Unsealed, Settled, Recalled,
       Quiesced, Finalized, Restarted, Recovering, Renewing, Boxing, Closing, Filing, Verdicts
<1>4. CASE UnlinkDone
  <2>1. /\ me.pc = "unlink"
        /\ \/ me.mode \in {"startup", "emergency"} /\ me' = SealEvent("RECOVERED")
           \/ me.mode \notin {"startup", "emergency"} /\ me' = Go("guard")
    BY <1>0, <1>4 DEF UnlinkDone, At, In
  <2>2. /\ me' \in Memory /\ me.pc = "unlink"
        /\ me'.mode = me.mode
        /\ me'.pc = "event" => me.mode \in {"startup", "emergency"} /\ me'.verdict = "RECOVERED"
        /\ me'.pc = "guard" => me.mode \notin {"startup", "emergency"}
        /\ me'.pc \in {"event", "guard"}
    <3>1. CASE me.mode \in {"startup", "emergency"} /\ me' = SealEvent("RECOVERED")
      BY <1>0, <2>1, <3>1, SealEventTyped, GoTyped DEF Memory, Modes, Fatal, Verdicts, Anywhere, Recovering,
         Renewing, Boxing, Closing, Filing
    <3>2. CASE me.mode \notin {"startup", "emergency"} /\ me' = Go("guard")
      BY <1>0, <2>1, <3>2, SealEventTyped, GoTyped DEF Memory, Modes, Fatal, Verdicts, Anywhere, Recovering,
         Renewing, Boxing, Closing, Filing
    <3> QED
      BY <2>1, <3>1, <3>2
  <2> QED
    BY <1>0, <2>2 DEF Controlled, At, Placed, Flow, RecordFlow, LeaseFlow, BoxFlow, Unsealed, Settled, Recalled,
       Quiesced, Finalized, Restarted, Recovering, Renewing, Boxing, Closing, Filing, Verdicts
<1>5. CASE UnlinkFails
  <2>1. /\ me.pc = "unlink"
        /\ \/ me.mode = "root" /\ me' = [Go("guard") EXCEPT !.fatal = "FAILED"]
           \/ me.mode = "root" /\ me' = Go("emergency")
           \/ me.mode = "closing" /\ me' = Go("guard")
           \/ me.mode \notin {"root", "closing"} /\ me' = SealEvent("RECOVERY_REQUIRED")
    BY <1>0, <1>5 DEF UnlinkFails, At, In
  <2>2. /\ me' \in Memory /\ me.pc = "unlink"
        /\ me'.mode = me.mode
        /\ me'.pc = "event" => me.mode \notin {"root", "closing"} /\ me'.verdict = "RECOVERY_REQUIRED"
        /\ me'.pc = "guard" => me.mode \in {"root", "closing"}
        /\ me'.pc = "emergency" => me.mode = "root"
        /\ me'.pc \in {"event", "guard", "emergency"}
    <3>1. CASE me.mode = "root" /\ me' = [Go("guard") EXCEPT !.fatal = "FAILED"]
      BY <1>0, <2>1, <3>1 DEF Go, Memory, Modes, Fatal, Anywhere, Closing
    <3>2. CASE me.mode = "root" /\ me' = Go("emergency")
      BY <1>0, <2>1, <3>2, GoTyped DEF Anywhere, Recovering, Renewing, Boxing, Closing, Filing
    <3>3. CASE me.mode = "closing" /\ me' = Go("guard")
      BY <1>0, <2>1, <3>3, GoTyped DEF Anywhere, Recovering, Renewing, Boxing, Closing, Filing
    <3>4. CASE me.mode \notin {"root", "closing"} /\ me' = SealEvent("RECOVERY_REQUIRED")
      BY <1>0, <2>1, <3>4, SealEventTyped DEF Verdicts
    <3> QED
      BY <2>1, <3>1, <3>2, <3>3, <3>4
  <2> QED
    BY <1>0, <2>2 DEF Controlled, At, Placed, Flow, RecordFlow, LeaseFlow, BoxFlow, Unsealed, Settled, Recalled,
       Quiesced, Finalized, Restarted, Recovering, Renewing, Boxing, Closing, Filing, Verdicts
<1>6. CASE Quiesce
  <2>1. /\ me.pc = "quiesce"
        /\ \/ me' = Go("unlink") /\ BoxesQuiescent(run) /\ AclQuiescent
           \/ me' = Go("emergency")
    BY <1>0, <1>6 DEF Quiesce, At
  <2>2. /\ me' \in Memory /\ me.pc = "quiesce"
        /\ me'.mode = me.mode
        /\ me'.pc \in {"unlink", "emergency"}
        /\ me'.pc = "unlink" => BoxesQuiescent(run) /\ AclQuiescent
    BY <1>0, <2>1, GoTyped DEF Anywhere, Recovering, Renewing, Boxing, Closing, Filing
  <2> QED
    BY <1>0, <2>2 DEF Controlled, At, Placed, Flow, RecordFlow, LeaseFlow, BoxFlow, Unsealed, Settled, Recalled,
       Quiesced, Finalized, Restarted, Recovering, Renewing, Boxing, Closing, Filing, Verdicts
<1>7. CASE VerifyRun
  <2>1. /\ me.pc = "verify" /\ me.mode \in {"root", "closing"}
        /\ \/ Verifies(run) /\ me' = Go("point")
           \/ me' = Raised("FAILED")
    BY <1>0, <1>7 DEF VerifyRun, At, Controlled, Placed, Memory, Modes, Recovering, Renewing, Boxing, Closing, Filing
  <2>2. /\ me' \in Memory /\ me.pc = "verify" /\ me.mode \in {"root", "closing"}
        /\ \/ Verifies(run) /\ me'.mode = me.mode /\ me'.pc = "point"
           \/ me.mode = "root" /\ me'.mode = "root" /\ me'.pc = "emergency"
           \/ me' = Down
    <3>1. CASE Verifies(run) /\ me' = Go("point")
      BY <1>0, <2>1, <3>1, GoTyped DEF Anywhere, Recovering, Renewing, Boxing, Closing, Filing
    <3>2. CASE me' = Raised("FAILED")
      BY <1>0, <2>1, <3>2, RaisedTyped, DownTyped DEF Memory, Modes, Fatal
    <3> QED
      BY <2>1, <3>1, <3>2
  <2> QED
    BY <1>0, <2>2, DownTyped DEF Controlled, At, Placed, Flow, RecordFlow, LeaseFlow, BoxFlow, Unsealed, Settled, Recalled,
       Quiesced, Finalized, Restarted, Recovering, Renewing, Boxing, Closing, Filing, Verdicts
<1>8. CASE Published
  <2>1. /\ me.pc = "reverify"
        /\ me' = Down
    BY <1>0, <1>8 DEF Published, At
  <2>2. /\ me' \in Memory /\ me.pc = "reverify"
        /\ me' = Down
    BY <1>0, <2>1, DownTyped
  <2> QED
    BY <1>0, <2>2, DownTyped DEF Controlled, At, Placed, Flow, RecordFlow, LeaseFlow, BoxFlow, Unsealed, Settled, Recalled,
       Quiesced, Finalized, Restarted, Recovering, Renewing, Boxing, Closing, Filing, Verdicts
<1>9. CASE AssertQuiescent
  <2>1. /\ me.pc = "assert"
        /\ \/ me' = Down
           \/ sealed[run] # None /\ me' = Call("closing", "append")
           \/ sealed[run] = None /\ me' = Call("closing", "unlink") /\ AclQuiescent
    BY <1>0, <1>9 DEF AssertQuiescent, At
  <2>2. /\ me' \in Memory /\ me.pc = "assert"
        /\ \/ me' = Down
           \/ me'.mode = "closing" /\ me'.pc = "append" /\ sealed[run] # None
           \/ me'.mode = "closing" /\ me'.pc = "unlink" /\ sealed[run] = None /\ AclQuiescent
    <3>1. CASE me' = Down
      BY <1>0, <2>1, <3>1, DownTyped, CallTyped DEF Anywhere, Recovering, Renewing, Boxing, Closing, Filing,
         Modes
    <3>2. CASE sealed[run] # None /\ me' = Call("closing", "append")
      BY <1>0, <2>1, <3>2, DownTyped, CallTyped DEF Anywhere, Recovering, Renewing, Boxing, Closing, Filing,
         Modes
    <3>3. CASE sealed[run] = None /\ me' = Call("closing", "unlink") /\ AclQuiescent
      BY <1>0, <2>1, <3>3, DownTyped, CallTyped DEF Anywhere, Recovering, Renewing, Boxing, Closing, Filing,
         Modes
    <3> QED
      BY <2>1, <3>1, <3>2, <3>3
  <2>3. me.mode = "emergency"
    BY <1>0, <2>2 DEF Controlled, Memory, Modes, Placed, Recovering, Renewing, Boxing, Closing, Filing
  <2>4. Controlled'
    BY <1>0, <2>2, <2>3, DownTyped DEF Controlled, At, Placed, Recovering, Renewing, Boxing, Closing, Filing, Verdicts
  <2>5. RecordFlow /\ BoxFlow
    BY <1>0, <2>2, <2>3, DownTyped DEF Controlled, At, Placed, RecordFlow, BoxFlow, Unsealed, Quiesced, Finalized, Restarted,
       Recovering, Renewing, Boxing, Closing, Filing
  <2>6. LeaseFlow
    BY <1>0, <2>2, <2>3, DownTyped DEF Controlled, At, Placed, LeaseFlow, Settled, Recalled, Recovering, Renewing, Boxing, Closing,
       Filing
  <2> QED
    BY <2>4, <2>5, <2>6 DEF Flow
<1>10. CASE StepFails
  <2>1. /\ me.pc \in {"cycle", "cycleEnd", "quiesce", "guard", "terminal", "project", "seal", "append", "verify",
                     "point", "assert"}
        /\ me' = Raised("FAILED")
    BY <1>0, <1>10 DEF StepFails, At
  <2>2. /\ me' \in Memory /\ me.pc \in {"cycle", "cycleEnd", "quiesce", "guard", "terminal", "project", "seal", "append", "verify",
                     "point", "assert"}
        /\ \/ me.mode = "body" /\ me'.mode = "finally" /\ me'.pc = "boxes"
           \/ me.mode = "finally" /\ me'.mode = "finally" /\ me'.pc = "cycleEnd"
           \/ me.mode = "root" /\ me'.mode = "root" /\ me'.pc = "emergency"
           \/ me' = Down
    BY <1>0, <2>1, RaisedTyped, DownTyped DEF Memory, Modes, Fatal
  <2> QED
    BY <1>0, <2>2, DownTyped DEF Controlled, At, Placed, Flow, RecordFlow, LeaseFlow, BoxFlow, Unsealed, Settled, Recalled,
       Quiesced, Finalized, Restarted, Recovering, Renewing, Boxing, Closing, Filing, Verdicts
<1>11. CASE Crash
  <2>1. /\ me.pc # "down"
        /\ me' = Down
    BY <1>0, <1>11 DEF Crash, At
  <2>2. /\ me' \in Memory /\ me.pc # "down"
        /\ me' = Down
    BY <1>0, <2>1, DownTyped
  <2> QED
    BY <1>0, <2>2, DownTyped DEF Controlled, At, Placed, Flow, RecordFlow, LeaseFlow, BoxFlow, Unsealed, Settled, Recalled,
       Quiesced, Finalized, Restarted, Recovering, Renewing, Boxing, Closing, Filing, Verdicts
<1>12. CASE (Environment \/ UNCHANGED vars)
  <2>1. /\ me.mode \in Modes
        /\ me' = me
    BY <1>0, <1>12 DEF Environment, vars, Memory
  <2>2. /\ me' \in Memory /\ me.mode \in Modes
        /\ me' = me
    BY <1>0, <2>1
  <2> QED
    BY <1>0, <2>2 DEF Controlled, At, Placed, Flow, RecordFlow, LeaseFlow, BoxFlow, Unsealed, Settled, Recalled,
       Quiesced, Finalized, Restarted, Recovering, Renewing, Boxing, Closing, Filing, Verdicts
<1> QED
  BY <1>1, <1>2, <1>3, <1>4, <1>5, <1>6, <1>7, <1>8, <1>9, <1>10, <1>11, <1>12

\* The steps that write the record of a run.
Writes == Authorize \/ Guard \/ AddTerminal \/ ProjectState \/ SealRun \/ AppendLedger \/ PointLatest
          \/ RollBack \/ RollBackFails \/ Emergency

\* The modes in which a run is written.
LEMMA WritingModes ==
  ASSUME Controlled
  PROVE  /\ me.pc \in {"guard", "terminal", "project", "seal"} \cup Filing => me.mode \in {"root", "closing"}
         /\ At("emergency") => me.mode = "root"
         /\ At("authorize") => me.mode = "startup"
BY DEF Controlled, Memory, Modes, Placed, At, Recovering, Renewing, Boxing, Closing, Filing

\* They keep the memory in order; leases and containers are settled as they were.
LEMMA WritesControlled ==
  ASSUME Typed, Writes
  PROVE  Controlled' /\ LeaseFlow /\ BoxFlow
<1>0. me \in Memory /\ Controlled
  BY DEF Typed, Controlled
<1>1. CASE Authorize
  <2>1. me' \in Memory /\ me'.mode = "root" /\ me'.pc = "cycle"
    BY <1>0, <1>1, CallTyped DEF Authorize, Modes, Anywhere
  <2> QED
    BY <2>1 DEF Controlled, Placed, At, LeaseFlow, BoxFlow, Settled, Recalled, Quiesced, Finalized, Restarted, Recovering,
       Renewing, Boxing, Closing, Filing
<1>2. CASE Guard
  <2>1. PICK kind \in Fatal \cup {None} :
          me' = [me EXCEPT !.fatal = kind, !.pc = "terminal"] /\ me.pc = "guard"
    <3>1. me.fatal \in Fatal \cup {None}
      BY <1>0 DEF Memory
    <3> QED
      BY <1>2, <3>1 DEF Guard, Fatal, At
  <2>2. me' \in Memory /\ me'.mode = me.mode /\ me'.pc = "terminal"
    BY <1>0, <2>1 DEF Memory, Anywhere, Closing
  <2> QED
    BY <1>0, <2>1, <2>2, WritingModes DEF Controlled, Placed, At, LeaseFlow, BoxFlow, Settled, Recalled, Quiesced, Finalized, Restarted, Recovering,
       Renewing, Boxing, Closing, Filing
<1>3. CASE AddTerminal \/ ProjectState \/ SealRun \/ AppendLedger
  <2>1. PICK pc \in {"project", "seal", "append", "verify"} :
          /\ me' = Go(pc) /\ me.pc \in {"terminal", "project", "seal", "append"}
          /\ pc \in {"project", "seal"} => me.pc \in {"terminal", "project"}
    BY <1>3 DEF AddTerminal, ProjectState, SealRun, AppendLedger, At
  <2>2. me' \in Memory /\ me'.mode = me.mode /\ me'.pc = pc
    BY <1>0, <2>1, GoTyped DEF Anywhere, Closing, Filing
  <2> QED
    BY <1>0, <2>1, <2>2, WritingModes DEF Controlled, Placed, At, LeaseFlow, BoxFlow, Settled, Recalled, Quiesced, Finalized, Restarted, Recovering,
       Renewing, Boxing, Closing, Filing
<1>4. CASE PointLatest
  <2>1. me' = [me EXCEPT !.previous = latest, !.pc = "reverify"] /\ me.pc = "point" /\ latest \in Runs \cup {0}
    BY <1>4 DEF PointLatest, At, Typed, TypeOK
  <2>2. me' \in Memory /\ me'.mode = me.mode /\ me'.pc = "reverify"
    BY <1>0, <2>1 DEF Memory, Anywhere, Filing
  <2> QED
    BY <1>0, <2>1, <2>2, WritingModes DEF Controlled, Placed, At, LeaseFlow, BoxFlow, Settled, Recalled, Quiesced, Finalized, Restarted, Recovering,
       Renewing, Boxing, Closing, Filing
<1>5. CASE RollBack \/ RollBackFails
  <2>1. me' = Raised("FAILED") /\ me.mode \in {"root", "closing"}
    BY <1>0, <1>5, WritingModes DEF RollBack, RollBackFails, At, Filing
  <2>2. me' \in Memory /\ (me' = Down \/ (me'.mode = "root" /\ me'.pc = "emergency"))
    BY <1>0, <2>1, RaisedTyped, DownTyped DEF Fatal
  <2> QED
    BY <2>2, DownTyped DEF Controlled, Placed, At, LeaseFlow, BoxFlow, Settled, Recalled, Quiesced, Finalized, Restarted, Recovering,
       Renewing, Boxing, Closing, Filing
<1>6. CASE Emergency
  <2>1. me' \in Memory /\ me'.mode = "emergency" /\ me'.pc = "boxes"
    BY <1>0, <1>6, CallTyped DEF Emergency, Modes, Anywhere, Recovering
  <2> QED
    BY <2>1 DEF Controlled, Placed, At, LeaseFlow, BoxFlow, Settled, Recalled, Quiesced, Finalized, Restarted, Recovering,
       Renewing, Boxing, Closing, Filing
<1> QED
  BY <1>1, <1>2, <1>3, <1>4, <1>5, <1>6 DEF Writes

\* A step writes the record of a run, or it goes on without.
LEMMA NextSplits ==
  ASSUME Typed, [Next]_vars
  PROVE  /\ Controlled' /\ LeaseFlow /\ BoxFlow
         /\ Writes \/ (Flow /\ UNCHANGED <<run, record>>)
<1>1. CASE \/ StartProcess \/ ListBoxes \/ RemoveListedBox \/ BoxesRecovered \/ BoxesStuck \/ BoxesFail
           \/ FindLeases \/ RecoverLease \/ RecoverFails \/ Event \/ BeginRestore \/ Restoring \/ EndRestore
           \/ RestoreFails \/ Unroot \/ UnrootFails
  <2>1. UNCHANGED <<run, record>>
    BY <1>1 DEF StartProcess, ListBoxes, RemoveListedBox, BoxesRecovered, BoxesStuck, BoxesFail, BoxesRaise,
                FindLeases, RecoverLease, RecoverFails, Event, BeginRestore, Restoring, EndRestore, RestoreFails,
                Unroot, UnrootFails
  <2> QED
    BY <1>1, <2>1, RecoveringFlow DEF Flow
<1>2. CASE \/ NextCycle \/ CyclesEnd \/ LeaseRoot \/ Snapshot \/ SnapshotFails \/ SetupMutates
           \/ SetupAdvances \/ SetupFails \/ WorkEnds \/ WorkFails \/ Intent \/ CreateBox \/ CreateFails
           \/ StartBox \/ AttachBox \/ BoxEnded \/ BoxTimeout \/ BoxFails \/ RemoveBox \/ CloseBox
           \/ RemoveBoxFails \/ CycleEnd
  <2>1. UNCHANGED <<run, record>>
    BY <1>2 DEF NextCycle, CyclesEnd, LeaseRoot, Snapshot, SnapshotFails, SetupMutates, SetupAdvances,
                SetupFails, WorkEnds, WorkFails, Intent, CreateBox, CreateFails, StartBox, AttachBox, BoxEnded,
                BoxTimeout, BoxFails, RemoveBox, CloseBox, RemoveBoxFails, CycleEnd
  <2> QED
    BY <1>2, <2>1, CycleFlow DEF Flow
<1>3. CASE \/ Gate \/ Refuse \/ UnlinkOne \/ UnlinkDone \/ UnlinkFails \/ Quiesce \/ VerifyRun
           \/ Published \/ AssertQuiescent \/ StepFails \/ Crash \/ Environment \/ UNCHANGED vars
  <2>1. UNCHANGED <<run, record>>
    BY <1>3 DEF Gate, Refuse, UnlinkOne, UnlinkDone, UnlinkFails, Quiesce, VerifyRun, Published,
                AssertQuiescent, StepFails, Crash, Environment, vars
  <2> QED
    BY <1>3, <2>1, RunFlow DEF Flow
<1>4. CASE Writes
  BY <1>4, WritesControlled
<1> QED
  BY <1>1, <1>2, <1>3, <1>4 DEF Next, Steps, Failures, Writes, Flow

-------------------------------------------------------------------------------
(* Types.                                                                      *)

\* The steps that change a lease or a root, and those that change a container or its record.
Leases == \/ Authorize \/ BeginRestore \/ Restoring \/ EndRestore \/ RestoreFails \/ Unroot \/ UnlinkOne
          \/ UnlinkDone \/ LeaseRoot \/ Snapshot \/ SetupMutates \/ SetupAdvances

Containers == \/ RemoveListedBox \/ BoxesRecovered \/ Intent \/ CreateBox \/ CreateFails \/ StartBox \/ AttachBox
              \/ BoxEnded \/ RemoveBox \/ CloseBox \/ RemoveBoxFails \/ UnlinkOne \/ Environment

\* A step touches leases and containers by the actions of CandidateIsolation only.
LEMMA IsolationSplits ==
  ASSUME [Next]_vars
  PROVE  (Leases \/ UNCHANGED iso) /\ (Containers \/ UNCHANGED boxes)
<1>1. CASE \/ StartProcess \/ ListBoxes \/ BoxesStuck \/ BoxesFail
           \/ FindLeases \/ RecoverLease \/ RecoverFails \/ Event \/ UnrootFails
           \/ NextCycle \/ CyclesEnd \/ SnapshotFails \/ SetupFails \/ WorkEnds \/ WorkFails \/ BoxTimeout
           \/ BoxFails \/ CycleEnd \/ Gate \/ Refuse \/ UnlinkFails \/ Quiesce \/ VerifyRun \/ Published
           \/ AssertQuiescent \/ StepFails \/ Crash \/ UNCHANGED vars
           \/ Guard \/ AddTerminal \/ ProjectState \/ SealRun \/ AppendLedger \/ PointLatest \/ RollBack \/ RollBackFails
           \/ Emergency
  BY <1>1 DEF StartProcess, ListBoxes, BoxesStuck, BoxesFail, BoxesRaise, FindLeases, RecoverLease, RecoverFails,
              Event, UnrootFails, NextCycle, CyclesEnd, SnapshotFails, SetupFails, WorkEnds, WorkFails, BoxTimeout,
              BoxFails, CycleEnd, Gate, Refuse, UnlinkFails, Quiesce, VerifyRun, Published, AssertQuiescent,
              StepFails, Crash, Guard, AddTerminal, ProjectState, SealRun, AppendLedger, PointLatest, RollBack,
              RollBackFails, Emergency, vars
<1>2. CASE Leases /\ ~Containers
  BY <1>2 DEF Leases, Containers, Authorize, BeginRestore, Restoring, EndRestore, RestoreFails, Unroot, UnlinkDone,
              LeaseRoot, Snapshot, SetupMutates, SetupAdvances
<1>3. CASE Containers /\ ~Leases
  BY <1>3 DEF Leases, Containers, RemoveListedBox, BoxesRecovered, Intent, CreateBox, CreateFails, StartBox,
              AttachBox, BoxEnded, RemoveBox, CloseBox, RemoveBoxFails, Environment
<1> QED
  BY <1>1, <1>2, <1>3 DEF Next, Steps, Failures, Leases, Containers

\* What the operations on leases and roots keep.
LEMMA LeaseTyped ==
  ASSUME IsolationTypeOK, NEW c, NEW s \in LeaseStates \cup {None}, WriteLease(c, s)
  PROVE  /\ lease' \in [Cycles -> LeaseStates \cup {None}] /\ UNCHANGED <<acl, root, helper>>
         /\ \A x \in Cycles : lease'[x] = IF x = c THEN s ELSE lease[x]
BY DEF IsolationTypeOK, WriteLease

\* What comes next in a lease.
LEMMA NextLeaseStateTyped ==
  ASSUME NEW s, NEW a
  PROVE  /\ NextLeaseState(s, a) \in {"MATERIALIZED", "SID_DISCOVERED", "APPLYING", "ACTIVE", "CANARY_PASS", None}
         /\ NextLeaseState(s, a) = "MATERIALIZED" => s = "SNAPSHOT_FSYNCED" /\ a = "materialized"
         /\ NextLeaseState(s, a) = "SID_DISCOVERED" => s = "MATERIALIZED"
         /\ NextLeaseState(s, a) = "APPLYING" => s = "SID_DISCOVERED"
BY DEF NextLeaseState, None

\* A step on a lease or a root does one of these to them.
LEMMA LeaseSteps ==
  ASSUME Leases
  PROVE  \/ Authorize /\ NewWorkspace
         \/ BeginRestore /\ WriteLease(Target, "RESTORING")
         \/ Restoring /\ RestoreAcl(Target)
         \/ EndRestore /\ \E s \in Restored : WriteLease(Target, s)
         \/ RestoreFails /\ (UNCHANGED iso \/ WriteLease(Target, "RECOVERY_REQUIRED"))
         \/ Unroot /\ RemoveRoot(Target)
         \/ UnlinkOne /\ \/ helper' = FALSE /\ UNCHANGED <<lease, acl, root>>
                         \/ \E c \in LeasePaths : WriteLease(c, None)
                         \/ UNCHANGED iso
         \/ UnlinkDone /\ RemoveDirectories
         \/ LeaseRoot /\ MakeRoot(me.cycle)
         \/ Snapshot /\ WriteLease(me.cycle, "SNAPSHOT_FSYNCED")
         \/ SetupMutates /\ ChangeAcl(me.cycle)
         \/ SetupAdvances /\ WriteLease(me.cycle, NextLeaseState(lease[me.cycle], acl[me.cycle]))
BY DEF Leases, Authorize, BeginRestore, Restoring, EndRestore, RestoreFails, Unroot, UnlinkOne, Unlink, UnlinkDone,
       LeaseRoot, Snapshot, SetupMutates, SetupAdvances, Restored

\* The leases and roots keep their types.
LEMMA LeasesTyped ==
  ASSUME IsolationTypeOK, Leases
  PROVE  /\ lease' \in [Cycles -> LeaseStates \cup {None}] /\ root' \in [Cycles -> BOOLEAN] /\ helper' \in BOOLEAN
         /\ acl' \in [Cycles -> {"original", "materialized", "upgraded"}]
<1>1. ASSUME NEW c, NEW s \in LeaseStates \cup {None}, WriteLease(c, s)
      PROVE  /\ lease' \in [Cycles -> LeaseStates \cup {None}] /\ root' \in [Cycles -> BOOLEAN] /\ helper' \in BOOLEAN
             /\ acl' \in [Cycles -> {"original", "materialized", "upgraded"}]
  BY <1>1, LeaseTyped DEF IsolationTypeOK
<1>2. CASE UNCHANGED iso
  BY <1>2 DEF IsolationTypeOK, iso
<1>3. CASE \E c, s : s \in LeaseStates \cup {None} /\ WriteLease(c, s)
  BY <1>1, <1>3
<1>4. CASE NewWorkspace \/ (\E c : RestoreAcl(c) \/ RemoveRoot(c) \/ MakeRoot(c) \/ ChangeAcl(c))
  BY <1>4 DEF IsolationTypeOK, NewWorkspace, RestoreAcl, RemoveRoot, MakeRoot, ChangeAcl
<1>5. CASE RemoveDirectories \/ (helper' = FALSE /\ UNCHANGED <<lease, acl, root>>)
  BY <1>5 DEF IsolationTypeOK, RemoveDirectories
<1> QED
  BY <1>2, <1>3, <1>4, <1>5, LeaseSteps, NextLeaseStateTyped DEF LeaseStates, Restored

\* A step on a container or its record does one of these to them.
LEMMA ContainerSteps ==
  ASSUME Containers
  PROVE  \/ RemoveListedBox /\ \E r \in me.todo : RecoverBox(r)
         \/ BoxesRecovered /\ CloseRecords(Scope)
         \/ CreateFails /\ CreateLost(run)
         \/ (Intent \/ StartBox \/ BoxEnded \/ CloseBox \/ RemoveBoxFails)
            /\ \E s \in BoxStates : WriteBoxRecord(run, s)
         \/ CreateBox /\ SetBox(run, "created")
         \/ AttachBox /\ SetBox(run, "running")
         \/ RemoveBox /\ SetBox(run, None)
         \/ UnlinkOne /\ (UNCHANGED boxes \/ WriteBoxRecord(run, None))
         \/ Environment /\ (BoxAppears \/ BoxExits)
BY DEF Containers, RemoveListedBox, BoxesRecovered, CreateFails, Intent, StartBox, BoxEnded, CloseBox,
       RemoveBoxFails, CreateBox, AttachBox, RemoveBox, UnlinkOne, Unlink, Environment, BoxStates, Removed

\* The containers and their records keep their types.
LEMMA ContainersTyped ==
  ASSUME IsolationTypeOK, Containers, CreateFails => run \in Runs
  PROVE  /\ box' \in [Runs -> {None, "created", "running", "exited"}]
         /\ boxRecord' \in [Runs -> BoxStates \cup {None}] /\ creating' \subseteq Runs
<1> USE DEF IsolationTypeOK
<1>1. CASE \E r : RecoverBox(r)
  BY <1>1 DEF RecoverBox, BoxStates, Removed
<1>2. CASE CloseRecords(Scope)
  BY <1>2 DEF CloseRecords, BoxStates, Removed
<1>3. CASE run \in Runs /\ CreateLost(run)
  BY <1>3 DEF CreateLost
<1>4. CASE \E s \in BoxStates \cup {None} : WriteBoxRecord(run, s)
  BY <1>4 DEF WriteBoxRecord
<1>5. CASE \E b \in {None, "created", "running"} : SetBox(run, b)
  BY <1>5 DEF SetBox
<1>6. CASE BoxAppears \/ BoxExits
  BY <1>6 DEF BoxAppears, BoxExits
<1>7. CASE UNCHANGED boxes
  BY <1>7 DEF boxes
<1> QED
  BY <1>1, <1>2, <1>3, <1>4, <1>5, <1>6, <1>7, ContainerSteps

\* What a step writes into the record of a run.
LEMMA RecordTyped ==
  ASSUME Typed, Writes
  PROVE  /\ run' \in Runs /\ journal' \in [Runs -> Terminal \cup {None, "RUNNING"}]
         /\ shown' \in [Runs -> Terminal \cup {None, "RUNNING"}] /\ intact' \in [Runs -> BOOLEAN]
         /\ sealed' \in [Runs -> Terminal \cup {None}] /\ refused' \subseteq Runs /\ ledger' \in Seq(Runs)
         /\ latest' \in Runs \cup {0} /\ stranded' \subseteq Runs /\ UNCHANGED hazards
<1>1. Controlled /\ TypeOK /\ Outcome \in Terminal
  BY DEF Typed, Outcome, Terminal
<1>2. Authorize \/ run \in Runs
  BY <1>1, WritingModes DEF Typed, Writes, Guard, AddTerminal, ProjectState, SealRun, AppendLedger, PointLatest,
                            RollBack, RollBackFails, Emergency, At, Filing
<1>3. CASE Authorize
  BY <1>1, <1>3 DEF Authorize, TypeOK
<1>4. CASE run \in Runs /\ Guard
  <2>1. PICK pass \in BOOLEAN : intact' = [intact EXCEPT ![run] = pass]
    BY <1>4 DEF Guard
  <2> QED
    BY <1>1, <1>4, <2>1 DEF Guard, TypeOK
<1>5. CASE run \in Runs /\ (AddTerminal \/ ProjectState \/ SealRun)
  BY <1>1, <1>5 DEF AddTerminal, ProjectState, SealRun, TypeOK
<1>6. CASE run \in Runs /\ AppendLedger
  <2>1. Append(ledger, run) \in Seq(Runs)
    BY <1>1, <1>6, AppendProperties DEF TypeOK
  <2> QED
    BY <1>1, <1>6, <2>1 DEF AppendLedger, TypeOK
<1>7. CASE run \in Runs /\ PointLatest
  BY <1>1, <1>7 DEF PointLatest, TypeOK
<1>8. CASE run \in Runs /\ (RollBack \/ RollBackFails)
  BY <1>1, <1>8 DEF RollBack, RollBackFails, TypeOK, Controlled, Memory
<1>9. CASE run \in Runs /\ Emergency
  BY <1>1, <1>9 DEF Emergency, TypeOK
<1> QED
  BY <1>2, <1>3, <1>4, <1>5, <1>6, <1>7, <1>8, <1>9 DEF Writes

\* The hazards keep their types.
LEMMA HazardsTyped ==
  ASSUME Typed, [Next]_vars
  PROVE  /\ hazard' \in {None, "RECOVERED", "RECOVERY_REQUIRED"}
         /\ boxHazard' \in {None, "QUIESCENT", "RECOVERY_REQUIRED"}
<1>0. /\ hazard \in {None, "RECOVERED", "RECOVERY_REQUIRED"} /\ boxHazard \in {None, "QUIESCENT", "RECOVERY_REQUIRED"}
      /\ At("event") => me.verdict \in Verdicts
  BY DEF Typed, TypeOK, Controlled
<1>1. CASE Event
  BY <1>0, <1>1 DEF Event, Verdicts
<1>2. CASE BoxesRecovered \/ BoxesStuck \/ BoxesFail
  BY <1>0, <1>2 DEF BoxesRecovered, BoxesStuck, BoxesFail, BoxesRaise
<1>3. CASE Writes
  <2>1. UNCHANGED hazards
    BY <1>3, RecordTyped
  <2> QED
    BY <1>0, <2>1 DEF hazards
<1>4. CASE \/ StartProcess \/ ListBoxes \/ RemoveListedBox \/ FindLeases \/ RecoverLease \/ RecoverFails
           \/ BeginRestore \/ Restoring \/ EndRestore \/ RestoreFails \/ Unroot \/ UnrootFails
           \/ NextCycle \/ CyclesEnd \/ LeaseRoot \/ Snapshot \/ SnapshotFails \/ SetupMutates
           \/ SetupAdvances \/ SetupFails \/ WorkEnds \/ WorkFails \/ Intent \/ CreateBox \/ CreateFails
           \/ StartBox \/ AttachBox \/ BoxEnded \/ BoxTimeout \/ BoxFails \/ RemoveBox \/ CloseBox
           \/ RemoveBoxFails \/ CycleEnd
           \/ Gate \/ Refuse \/ UnlinkOne \/ UnlinkDone \/ UnlinkFails \/ Quiesce \/ VerifyRun
           \/ Published \/ AssertQuiescent \/ StepFails \/ Crash \/ Environment \/ UNCHANGED vars
  <2>1. UNCHANGED hazards
    BY <1>4 DEF StartProcess, ListBoxes, RemoveListedBox, FindLeases, RecoverLease, RecoverFails, BeginRestore,
                Restoring, EndRestore, RestoreFails, Unroot, UnrootFails, NextCycle, CyclesEnd, LeaseRoot, Snapshot,
                SnapshotFails, SetupMutates, SetupAdvances, SetupFails, WorkEnds, WorkFails, Intent, CreateBox,
                CreateFails, StartBox, AttachBox, BoxEnded, BoxTimeout, BoxFails, RemoveBox, CloseBox,
                RemoveBoxFails, CycleEnd, Gate, Refuse, UnlinkOne, UnlinkDone, UnlinkFails, Quiesce, VerifyRun,
                Published, AssertQuiescent, StepFails, Crash, Environment, vars
  <2> QED
    BY <1>0, <2>1 DEF hazards
<1> QED
  BY <1>1, <1>2, <1>3, <1>4 DEF Next, Steps, Failures, Writes

\* Types are inductive.
LEMMA NextTyped == Typed /\ [Next]_vars => Typed'
<1> SUFFICES ASSUME Typed, [Next]_vars PROVE Typed'
  OBVIOUS
<1>1. Controlled' /\ (Writes \/ (Flow /\ UNCHANGED <<run, record>>))
  BY NextSplits
<1>2. IsolationTypeOK'
  <2>1. IsolationTypeOK
    BY DEF Typed, TypeOK
  <2>2. CreateFails => run \in Runs
    BY DEF Typed, CreateFails, At, Controlled, Placed, Recovering, Renewing, Closing, Filing
  <2>3. /\ lease' \in [Cycles -> LeaseStates \cup {None}] /\ root' \in [Cycles -> BOOLEAN] /\ helper' \in BOOLEAN
        /\ acl' \in [Cycles -> {"original", "materialized", "upgraded"}]
    BY <2>1, IsolationSplits, LeasesTyped DEF IsolationTypeOK, iso
  <2>4. /\ box' \in [Runs -> {None, "created", "running", "exited"}]
        /\ boxRecord' \in [Runs -> BoxStates \cup {None}] /\ creating' \subseteq Runs
    BY <2>1, <2>2, IsolationSplits, ContainersTyped DEF IsolationTypeOK, boxes
  <2> QED
    BY <2>3, <2>4 DEF IsolationTypeOK
<1>3. /\ run' \in Runs \cup {0} /\ journal' \in [Runs -> Terminal \cup {None, "RUNNING"}]
      /\ shown' \in [Runs -> Terminal \cup {None, "RUNNING"}] /\ intact' \in [Runs -> BOOLEAN]
      /\ sealed' \in [Runs -> Terminal \cup {None}] /\ refused' \subseteq Runs /\ ledger' \in Seq(Runs)
      /\ latest' \in Runs \cup {0} /\ stranded' \subseteq Runs /\ (me'.mode # "startup" => run' \in Runs)
  <2>1. CASE Writes
    BY <2>1, RecordTyped
  <2>2. CASE Flow /\ UNCHANGED <<run, record>>
    BY <2>2 DEF Typed, TypeOK, record, Flow, RecordFlow
  <2> QED
    BY <1>1, <2>1, <2>2
<1>4. /\ me'.mode \in Modes /\ me'.cycle \in Cycles \cup {0} /\ me'.registry \subseteq Cycles
      /\ me'.fatal \in Fatal \cup {None}
  BY <1>1 DEF Controlled, Memory
<1> QED
  BY <1>1, <1>2, <1>3, <1>4, HazardsTyped DEF Typed, TypeOK

-------------------------------------------------------------------------------
(* What the record of a run says while it is being written.                    *)

Agreed(r) == /\ journal[r] = sealed[r] /\ shown[r] = sealed[r]
             /\ ~intact[r] => sealed[r] = "COMPLETE_WITH_ERRORS"

\* Sealed runs say one thing; the run that is being written is not sealed yet, and later
\* ones have not begun.
Filed ==
  /\ Unsealed => sealed[run] = None
  /\ \A r \in Runs : r > run => sealed[r] = None /\ r \notin ToSet(ledger)
  /\ \A r \in Runs : sealed[r] # None => Agreed(r)
  /\ me.pc \in Filing => sealed[run] # None
  /\ me.pc \in Filing \ {"append"} => run \in ToSet(ledger)

\* What will be sealed is what journal and projection say.
Drafted ==
  /\ me.pc \in {"terminal", "project", "seal"} => intact[run] \/ Outcome = "COMPLETE_WITH_ERRORS"
  /\ me.pc \in {"project", "seal"} => journal[run] = Outcome
  /\ At("seal") => shown[run] = Outcome

\* A run latest.json may name: anchored with its checkout intact, and verifying but when its
\* publication could not be taken back.
Presentable(r) ==
  /\ sealed[r] # None /\ intact[r] /\ r \in ToSet(ledger)
  /\ Verifies(r) \/ r \in stranded

\* latest.json names such a run.  It names the run of the process only between the pointer's
\* replacement and its second verification, or because the roll back failed: then the error
\* file of the finalizer keeps the run from being published a second time.
Pointed ==
  /\ latest <= run
  /\ latest # 0 => Presentable(latest)
  /\ me.mode # "startup" /\ ~At("reverify") /\ latest = run =>
       /\ sealed[run] # None /\ run \in stranded
       /\ run \in refused \/ At("emergency")
  /\ At("point") => Verifies(run)
  /\ At("reverify") => /\ latest = run /\ me.previous < run
                       /\ me.previous # 0 => Presentable(me.previous)

Recorded == Filed /\ Drafted /\ Pointed

\* A step that goes on without writing keeps what the record says.
LEMMA FlowRecorded ==
  ASSUME Typed, Recorded, Flow, UNCHANGED <<run, record>>
  PROVE  Recorded'
<1>1. /\ Unsealed' => Unsealed \/ (At("assert") /\ sealed[run] = None)
      /\ me'.mode # "startup" => me.mode # "startup"
      /\ me'.pc \in Filing => \/ me' = me
                              \/ At("assert") /\ sealed[run] # None /\ me'.pc = "append"
                              \/ At("verify") /\ me'.pc = "point" /\ Verifies(run)
      /\ me'.pc \in {"terminal", "project", "seal"} => me' = me
      /\ At("reverify") \/ At("emergency") => me' = me \/ me'.mode = "startup"
  BY DEF Flow, RecordFlow
<1>2. UNCHANGED <<run, journal, shown, intact, sealed, refused, ledger, latest, stranded>>
  BY DEF record
<1>3. \A r : (Verifies(r) <=> Verifies(r)') /\ (Agreed(r) <=> Agreed(r)')
  BY <1>2 DEF Verifies, Agreed
<1>10. \A r : Presentable(r) => Presentable(r)'
  BY <1>2 DEF Verifies, Presentable
<1>4. Filed'
  BY <1>1, <1>2, <1>3 DEF Recorded, Filed, At, Filing
<1>5. Drafted'
  BY <1>1, <1>2 DEF Recorded, Drafted, Outcome, In, At
<1>6. Pointed'
  BY <1>1, <1>2, <1>3, <1>10 DEF Recorded, Pointed, At, Filing
<1> QED
  BY <1>4, <1>5, <1>6 DEF Recorded

\* The runs of the ledger when one is appended.
LEMMA AppendedRuns ==
  ASSUME NEW s \in Seq(Runs), NEW r \in Runs
  PROVE  ToSet(Append(s, r)) = ToSet(s) \cup {r}
<1>1. /\ DOMAIN s = 1 .. Len(s) /\ Len(s) \in Nat /\ DOMAIN Append(s, r) = 1 .. Len(s) + 1
      /\ Append(s, r)[Len(s) + 1] = r /\ \A i \in 1 .. Len(s) : Append(s, r)[i] = s[i]
  BY AppendProperties, LenProperties
<1>2. \A i \in 1 .. Len(s) + 1 : i \in 1 .. Len(s) \/ i = Len(s) + 1
  BY <1>1
<1>3. \A i \in 1 .. Len(s) : i \in 1 .. Len(s) + 1
  BY <1>1
<1>4. Len(s) + 1 \in 1 .. Len(s) + 1
  BY <1>1
<1> QED
  BY <1>1, <1>2, <1>3, <1>4 DEF ToSet

\* Numbers of runs.
LEMMA RunNumbers ==
  ASSUME Typed
  PROVE  run \in Nat /\ latest \in Nat /\ Runs \subseteq Nat /\ 0 \notin Runs
BY RunsAssumption DEF Typed, TypeOK

\* A new run has no record, and the older ones keep theirs.
LEMMA AuthorizeRecorded ==
  ASSUME Typed, Recorded, Authorize
  PROVE  Recorded'
<1>1. /\ run' = run + 1 /\ run + 1 \in Runs /\ me' = Call("root", "cycle")
      /\ journal' = [journal EXCEPT ![run + 1] = "RUNNING"]
      /\ shown' = [shown EXCEPT ![run + 1] = "RUNNING"]
      /\ UNCHANGED <<intact, sealed, refused, ledger, latest, stranded>>
  BY DEF Authorize
<1>2. me'.mode = "root" /\ me'.pc = "cycle"
  BY <1>1, CallTyped DEF Typed, Controlled, Modes, Anywhere
<1>3. run \in Nat /\ latest \in Nat /\ Runs \subseteq Nat
  BY RunNumbers
<1>4. \A r : r # run + 1 => (Verifies(r) => Verifies(r)') /\ (Agreed(r) => Agreed(r)')
  BY <1>1 DEF Verifies, Agreed, Typed, TypeOK
<1>10. \A r : r # run + 1 => (Presentable(r) => Presentable(r)')
  BY <1>1 DEF Verifies, Presentable, Typed, TypeOK
<1>5. sealed[run + 1] = None
  BY <1>1, <1>3 DEF Recorded, Filed
<1>6. \A r \in Runs : r > run + 1 => r > run
  BY <1>3
<1>7. Filed'
  BY <1>1, <1>2, <1>4, <1>5, <1>6 DEF Recorded, Filed, Filing
<1>8. Drafted'
  BY <1>2 DEF Drafted, At
<1>9. Pointed'
  <2>1. latest <= run /\ latest # run + 1 /\ latest <= run + 1
    BY <1>3 DEF Recorded, Pointed
  <2> QED
    BY <1>1, <1>2, <1>4, <1>10, <2>1 DEF Recorded, Pointed, At
<1> QED
  BY <1>7, <1>8, <1>9 DEF Recorded

\* The run is drafted while it is not sealed.
LEMMA DraftRecorded ==
  ASSUME Typed, Recorded, Guard \/ AddTerminal \/ ProjectState
  PROVE  Recorded'
<1>0. me \in Memory /\ Controlled /\ me.mode \in {"root", "closing"} /\ me.pc \in {"guard", "terminal", "project"}
  BY WritingModes DEF Typed, Controlled, Guard, AddTerminal, ProjectState, At
<1>1. Unsealed /\ sealed[run] = None /\ run \in Runs
  BY <1>0 DEF Unsealed, Filing, Closing, Recorded, Filed, Typed
<1>2. /\ UNCHANGED <<run, sealed, refused, ledger, latest, stranded>>
      /\ \A r \in Runs : r # run => journal'[r] = journal[r] /\ shown'[r] = shown[r] /\ (intact'[r] <=> intact[r])
  <2>1. CASE Guard
    <3>1. PICK pass \in BOOLEAN : intact' = [intact EXCEPT ![run] = pass]
      BY <2>1 DEF Guard
    <3> QED
      BY <2>1, <3>1 DEF Guard, Typed, TypeOK
  <2>2. CASE AddTerminal \/ ProjectState
    BY <2>2 DEF AddTerminal, ProjectState, Typed, TypeOK
  <2> QED
    BY <2>1, <2>2
<1>3. me'.mode = me.mode /\ me'.pc \in {"terminal", "project", "seal"}
  <2>1. CASE Guard
    <3>1. PICK kind \in Fatal \cup {None} : me' = [me EXCEPT !.fatal = kind, !.pc = "terminal"]
      <4>1. me.fatal \in Fatal \cup {None}
        BY <1>0 DEF Memory
      <4> QED
        BY <2>1, <4>1 DEF Guard, Fatal
    <3> QED
      BY <1>0, <3>1 DEF Memory
  <2>2. CASE AddTerminal \/ ProjectState
    <3>1. PICK pc \in {"project", "seal"} : me' = Go(pc)
      BY <2>2 DEF AddTerminal, ProjectState
    <3> QED
      BY <1>0, <3>1, GoTyped DEF Anywhere, Closing
  <2> QED
    BY <2>1, <2>2
<1>4. \A r \in Runs : r # run => (Verifies(r) => Verifies(r)') /\ (Agreed(r) => Agreed(r)')
  BY <1>2 DEF Verifies, Agreed
<1>10. \A r \in Runs : r # run => (Presentable(r) => Presentable(r)')
  BY <1>2 DEF Verifies, Presentable
<1>5. Filed'
  BY <1>1, <1>2, <1>3, <1>4 DEF Recorded, Filed, Unsealed, Filing
<1>6. Drafted'
  <2>1. CASE Guard
    <3>1. PICK pass \in BOOLEAN : /\ intact' = [intact EXCEPT ![run] = pass]
                                  /\ me' = [me EXCEPT !.fatal = IF pass THEN @ ELSE "FAILED", !.pc = "terminal"]
      BY <2>1 DEF Guard
    <3>2. me'.pc = "terminal" /\ (pass \/ me'.fatal = "FAILED") /\ intact'[run] = pass
      BY <1>0, <1>1, <3>1 DEF Memory, Typed, TypeOK
    <3> QED
      BY <1>2, <3>2 DEF Drafted, Outcome, At
  <2>2. CASE AddTerminal
    <3>1. /\ me.pc = "terminal" /\ journal'[run] = Outcome /\ intact' = intact
          /\ me'.pc = "project" /\ me'.mode = me.mode /\ me'.fatal = me.fatal
      BY <1>0, <1>1, <2>2 DEF AddTerminal, At, Go, Memory, Typed, TypeOK
    <3>2. Outcome' = Outcome
      BY <3>1 DEF Outcome, In
    <3> QED
      BY <1>2, <3>1, <3>2 DEF Recorded, Drafted, At
  <2>3. CASE ProjectState
    <3>1. /\ me.pc = "project" /\ shown'[run] = journal[run] /\ intact' = intact /\ journal' = journal
          /\ me'.pc = "seal" /\ me'.mode = me.mode /\ me'.fatal = me.fatal
      BY <1>0, <1>1, <2>3 DEF ProjectState, At, Go, Memory, Typed, TypeOK
    <3>2. Outcome' = Outcome
      BY <3>1 DEF Outcome, In
    <3> QED
      BY <1>2, <3>1, <3>2 DEF Recorded, Drafted, At
  <2> QED
    BY <2>1, <2>2, <2>3
<1>7. Pointed'
  <2>1. latest # run /\ latest \in Runs \cup {0}
    BY <1>0, <1>1 DEF Recorded, Pointed, At, Typed, TypeOK
  <2> QED
    BY <1>2, <1>3, <1>4, <1>10, <2>1 DEF Recorded, Pointed, At
<1> QED
  BY <1>5, <1>6, <1>7 DEF Recorded

\* The seal says what journal and projection say.
LEMMA SealRecorded ==
  ASSUME Typed, Recorded, SealRun
  PROVE  Recorded'
<1>0. me \in Memory /\ Controlled /\ me.mode \in {"root", "closing"} /\ me.pc = "seal"
  BY WritingModes DEF Typed, Controlled, SealRun, At
<1>1. sealed[run] = None /\ run \in Runs
  BY <1>0 DEF Unsealed, Filing, Closing, Recorded, Filed, Typed
<1>2. /\ UNCHANGED <<run, journal, shown, intact, ledger, latest, stranded>>
      /\ \A r : r # run => sealed'[r] = sealed[r] /\ (r \in refused' <=> r \in refused)
      /\ sealed'[run] = Outcome /\ Outcome # None
  BY <1>1 DEF SealRun, Typed, TypeOK, Outcome, None
<1>3. me'.mode = me.mode /\ me'.pc = "append"
  BY <1>0, GoTyped DEF SealRun, Anywhere, Filing
<1>4. \A r : r # run => (Verifies(r) => Verifies(r)') /\ (Agreed(r) => Agreed(r)')
  BY <1>2 DEF Verifies, Agreed
<1>10. \A r : r # run => (Presentable(r) => Presentable(r)')
  BY <1>2 DEF Verifies, Presentable
<1>5. Agreed(run)'
  BY <1>0, <1>2 DEF Agreed, Recorded, Drafted, At
<1>6. Filed'
  <2>1. ~Unsealed'
    BY <1>0, <1>3 DEF Unsealed, Filing, Closing
  <2>2. \A r \in Runs : r > run => r # run
    BY RunNumbers
  <2> QED
    BY <1>2, <1>3, <1>4, <1>5, <2>1, <2>2 DEF Recorded, Filed
<1>7. Drafted'
  BY <1>3 DEF Drafted, At
<1>8. Pointed'
  <2>1. latest # run
    BY <1>0, <1>1 DEF Recorded, Pointed, At
  <2> QED
    BY <1>2, <1>3, <1>4, <1>10, <2>1 DEF Recorded, Pointed, At
<1> QED
  BY <1>6, <1>7, <1>8 DEF Recorded

\* A sealed run is anchored once.
LEMMA AppendRecorded ==
  ASSUME Typed, Recorded, AppendLedger
  PROVE  Recorded' /\ ToSet(ledger') = ToSet(ledger) \cup {run}
<1>0. me \in Memory /\ Controlled /\ me.mode \in {"root", "closing"} /\ me.pc = "append"
  BY WritingModes DEF Typed, Controlled, AppendLedger, At, Filing
<1>1. sealed[run] # None /\ run \in Runs /\ ledger \in Seq(Runs)
  BY <1>0 DEF Filing, Recorded, Filed, Typed, TypeOK
<1>2. UNCHANGED <<run, journal, shown, intact, sealed, refused, latest, stranded>> /\ ToSet(ledger') = ToSet(ledger) \cup {run}
  BY <1>1, AppendedRuns DEF AppendLedger
<1>3. me'.mode = me.mode /\ me'.pc = "verify"
  BY <1>0, GoTyped DEF AppendLedger, Anywhere, Filing
<1>4. \A r : (Verifies(r) => Verifies(r)') /\ (Agreed(r) => Agreed(r)')
  BY <1>2 DEF Verifies, Agreed
<1>10. \A r : Presentable(r) => Presentable(r)'
  BY <1>2 DEF Verifies, Presentable
<1>6. Filed'
  <2>1. ~Unsealed'
    BY <1>0, <1>3 DEF Unsealed, Filing, Closing
  <2>2. \A r \in Runs : r > run => r # run
    BY RunNumbers
  <2> QED
    BY <1>1, <1>2, <1>3, <1>4, <2>1, <2>2 DEF Recorded, Filed
<1>7. Drafted'
  BY <1>3 DEF Drafted, At
<1>8. Pointed'
  <2>1. latest = run => sealed[run] # None /\ run \in stranded /\ run \in refused
    BY <1>0 DEF Recorded, Pointed, At
  <2> QED
    BY <1>2, <1>3, <1>4, <1>10, <2>1 DEF Recorded, Pointed, At
<1> QED
  BY <1>2, <1>6, <1>7, <1>8 DEF Recorded

\* latest.json is replaced, and put back.
LEMMA PointRecorded ==
  ASSUME Typed, Recorded, PointLatest \/ RollBack \/ RollBackFails
  PROVE  Recorded'
<1>0. me \in Memory /\ Controlled /\ me.mode \in {"root", "closing"} /\ me.pc \in {"point", "reverify"}
  BY WritingModes DEF Typed, Controlled, PointLatest, RollBack, RollBackFails, At, Filing
<1>1. /\ UNCHANGED <<run, journal, shown, intact, sealed, refused, ledger>> /\ stranded \subseteq stranded'
      /\ sealed[run] # None /\ run \in Runs /\ run \in ToSet(ledger)
  BY <1>0 DEF PointLatest, RollBack, RollBackFails, Filing, Recorded, Filed, Typed
<1>2. \A r : (Verifies(r) => Verifies(r)') /\ (Agreed(r) => Agreed(r)')
  BY <1>1 DEF Verifies, Agreed
<1>10. \A r : Presentable(r) => Presentable(r)'
  BY <1>1 DEF Verifies, Presentable
<1>3. run \in Nat /\ latest \in Nat
  BY RunNumbers
<1>4. CASE PointLatest
  <2>1. /\ me.pc = "point" /\ latest' = run
        /\ me'.mode = me.mode /\ me'.pc = "reverify" /\ me'.previous = latest
    BY <1>0, <1>4 DEF PointLatest, At, Memory
  <2>2. ~Unsealed' /\ me'.pc \in Filing
    BY <1>0, <2>1 DEF Unsealed, Filing, Closing
  <2>3. latest # run /\ latest <= run /\ Verifies(run)
    BY <1>0, <2>1 DEF Recorded, Pointed, At, Verifies
  <2>4. Filed'
    BY <1>1, <1>2, <2>2 DEF Recorded, Filed
  <2>5. Drafted'
    BY <2>1 DEF Drafted, At
  <2>6. Pointed'
    <3>1. Presentable(run)
      BY <2>3 DEF Presentable, Verifies
    <3> QED
      BY <1>1, <1>2, <1>3, <2>1, <2>3, <3>1, <1>10 DEF Recorded, Pointed, At
  <2> QED
    BY <2>4, <2>5, <2>6 DEF Recorded
<1>5. CASE RollBack
  <2>1. me.pc = "reverify" /\ latest' = me.previous /\ me' = Raised("FAILED")
    BY <1>5 DEF RollBack, At
  <2>2. me' = Down \/ (me'.mode = "root" /\ me'.pc = "emergency")
    BY <1>0, <2>1, RaisedTyped DEF Fatal
  <2>3. ~Unsealed' /\ me'.pc \in {"down", "emergency"}
    BY <2>2, DownTyped DEF Unsealed
  <2>4. me.previous < run /\ (me.previous # 0 => Presentable(me.previous)) /\ me.previous \in Nat
    BY <1>0, <2>1, RunNumbers DEF Recorded, Pointed, At, Memory
  <2>5. Filed'
    BY <1>1, <1>2, <2>3 DEF Recorded, Filed, Filing
  <2>6. Drafted'
    BY <2>3 DEF Drafted, At
  <2>7. Pointed'
    BY <1>1, <1>2, <1>3, <2>1, <2>3, <2>4, <1>10 DEF Pointed, At
  <2> QED
    BY <2>5, <2>6, <2>7 DEF Recorded
<1>6. CASE RollBackFails
  <2>1. me.pc = "reverify" /\ latest' = latest /\ stranded' = stranded \cup {run} /\ me' = Raised("FAILED")
    BY <1>6 DEF RollBackFails, At
  <2>2. me' = Down \/ (me'.mode = "root" /\ me'.pc = "emergency")
    BY <1>0, <2>1, RaisedTyped DEF Fatal
  <2>3. ~Unsealed' /\ me'.pc \in {"down", "emergency"} /\ (me'.pc = "down" => me'.mode = "startup")
    BY <2>2, DownTyped DEF Unsealed
  <2>4. Filed'
    BY <1>1, <1>2, <2>3 DEF Recorded, Filed, Filing
  <2>5. Drafted'
    BY <2>3 DEF Drafted, At
  <2>6. latest = run /\ Presentable(latest)
    BY <1>0, <1>1, <2>1, RunNumbers DEF Recorded, Pointed, At
  <2>7. Pointed'
    BY <1>1, <1>2, <1>3, <2>1, <2>3, <2>6, <1>10 DEF Pointed, At
  <2> QED
    BY <2>4, <2>5, <2>7 DEF Recorded
<1> QED
  BY <1>4, <1>5, <1>6

\* The finalizer's error file makes a sealed run fail verification; latest.json names another,
\* or goes on naming this one because its publication could not be taken back.
LEMMA EmergencyRecorded ==
  ASSUME Typed, Recorded, Emergency
  PROVE  Recorded'
<1>0. me \in Memory /\ Controlled /\ me.mode = "root" /\ me.pc = "emergency"
  BY WritingModes DEF Typed, Controlled, Emergency, At
<1>1. /\ UNCHANGED <<run, journal, shown, intact, sealed, ledger, latest, stranded>>
      /\ \A r : r # run => (r \in refused' <=> r \in refused)
      /\ sealed[run] # None => run \in refused'
  BY DEF Emergency
<1>2. \A r : (r # run /\ Verifies(r) => Verifies(r)') /\ (Agreed(r) => Agreed(r)')
  BY <1>1 DEF Verifies, Agreed
<1>10. \A r : (r # run \/ r \in stranded) /\ Presentable(r) => Presentable(r)'
  BY <1>1 DEF Verifies, Presentable
<1>3. me'.mode = "emergency" /\ me'.pc = "boxes"
  BY <1>0, CallTyped DEF Emergency, Modes, Anywhere, Recovering
<1>4. Filed'
  BY <1>1, <1>2, <1>3 DEF Recorded, Filed, Unsealed, Filing
<1>5. Drafted'
  BY <1>3 DEF Drafted, At
<1>6. Pointed'
  BY <1>0, <1>1, <1>2, <1>3, <1>10 DEF Recorded, Pointed, At
<1> QED
  BY <1>4, <1>5, <1>6 DEF Recorded

\* What the record says is inductive.
LEMMA NextRecorded == Typed /\ Recorded /\ [Next]_vars => Recorded'
BY NextSplits, FlowRecorded, AuthorizeRecorded, DraftRecorded, SealRecorded, AppendRecorded, PointRecorded,
   EmergencyRecorded DEF Writes

-------------------------------------------------------------------------------
(* What the leases know about the roots.                                       *)

Changed(c) == root[c] /\ acl[c] # "original"
Clean == \A c \in Cycles : ~Changed(c)

\* A root is changed only with its record and the helper; where the leases are settled, and
\* once the latest run is sealed, none is.
Leased ==
  /\ ChangeIsRecorded
  /\ At("snapshot") \/ At("setup") => helper
  /\ At("snapshot") => acl[me.cycle] = "original"
  /\ At("restored") => \A c \in Cycles : c = Target => acl[c] = "original"
  /\ Recalled => \A c \in Cycles : Changed(c) => c \in me.todo
  /\ Settled \/ (run \in Runs /\ sealed[run] # None) => Clean

\* A record can be written that says enough of its root.
LEMMA WriteRecorded ==
  ASSUME IsolationTypeOK, ChangeIsRecorded, NEW c, NEW s \in LeaseStates \cup {None}, WriteLease(c, s),
         c \in Cycles /\ Changed(c) =>
           /\ s \notin Restored \cup {None}
           /\ acl[c] = "upgraded" => s \notin {"SNAPSHOT_FSYNCED", "MATERIALIZED", "SID_DISCOVERED"}
  PROVE  ChangeIsRecorded'
<1>1. UNCHANGED <<acl, root, helper>> /\ \A x \in Cycles : lease'[x] = IF x = c THEN s ELSE lease[x]
  BY LeaseTyped
<1> QED
  BY <1>1 DEF ChangeIsRecorded, Changed

\* Only the setup of a lease changes a root.
LEMMA ChangedBefore ==
  ASSUME IsolationTypeOK, Leases, ~SetupMutates, NEW c \in Cycles, Changed(c)'
  PROVE  Changed(c) /\ ~(Unroot /\ c = Target)
<1>1. CASE \E x, s : WriteLease(x, s) /\ ~Unroot
  BY <1>1 DEF Changed, WriteLease
<1>2. CASE NewWorkspace \/ RemoveDirectories
  BY <1>2 DEF Changed, NewWorkspace, RemoveDirectories
<1>3. CASE \E x : (RestoreAcl(x) \/ MakeRoot(x)) /\ ~Unroot
  BY <1>3 DEF Changed, RestoreAcl, MakeRoot, IsolationTypeOK
<1>4. CASE RemoveRoot(Target)
  BY <1>4 DEF Changed, RemoveRoot, IsolationTypeOK
<1>5. CASE (UNCHANGED iso \/ UNCHANGED <<lease, acl, root>>) /\ ~Unroot
  BY <1>5 DEF Changed, iso
<1>6. Unroot => At("unroot")
  BY DEF Unroot
<1>7. BeginRestore \/ Restoring \/ EndRestore \/ RestoreFails \/ UnlinkOne \/ LeaseRoot \/ Snapshot \/ SetupAdvances
        => ~At("unroot")
  BY DEF BeginRestore, Restoring, EndRestore, RestoreFails, UnlinkOne, LeaseRoot, Snapshot, SetupAdvances, At
<1> QED
  BY <1>1, <1>2, <1>3, <1>4, <1>5, <1>6, <1>7, LeaseSteps

\* The record goes with the root.
LEMMA ChangesRecorded ==
  ASSUME Typed, Leased, Leases
  PROVE  ChangeIsRecorded'
<1>0. IsolationTypeOK /\ ChangeIsRecorded /\ Controlled /\ me \in Memory
  BY DEF Typed, TypeOK, Controlled, Leased
<1>1. CASE NewWorkspace \/ RemoveDirectories
  BY <1>1 DEF NewWorkspace, RemoveDirectories, ChangeIsRecorded
<1>2. CASE \E c : WriteLease(c, "RESTORING") \/ WriteLease(c, "RECOVERY_REQUIRED")
  BY <1>0, <1>2, WriteRecorded DEF LeaseStates, Restored, None
<1>3. CASE \E c : RestoreAcl(c)
  BY <1>0, <1>3 DEF RestoreAcl, IsolationTypeOK, ChangeIsRecorded
<1>4. CASE EndRestore /\ \E s \in Restored : WriteLease(Target, s)
  <2>1. \A c \in Cycles : c = Target => ~Changed(c)
    BY <1>4 DEF EndRestore, Leased, Changed
  <2> QED
    BY <1>0, <1>4, <2>1, WriteRecorded DEF LeaseStates
<1>5. CASE \E c : RemoveRoot(c)
  BY <1>0, <1>5 DEF RemoveRoot, IsolationTypeOK, ChangeIsRecorded
<1>6. CASE UnlinkOne
  <2>1. Clean
    BY <1>6 DEF UnlinkOne, Leased, Settled, At, Closing
  <2>2. \A c \in Cycles : ~Changed(c)'
    BY <1>0, <1>6, <2>1, ChangedBefore DEF Clean, UnlinkOne, SetupMutates, At
  <2> QED
    BY <2>2 DEF Changed, ChangeIsRecorded
<1>7. CASE LeaseRoot /\ MakeRoot(me.cycle)
  BY <1>0, <1>7 DEF MakeRoot, IsolationTypeOK, ChangeIsRecorded
<1>8. CASE Snapshot /\ WriteLease(me.cycle, "SNAPSHOT_FSYNCED")
  <2>1. ~Changed(me.cycle)
    BY <1>8 DEF Snapshot, Leased, Changed
  <2> QED
    BY <1>0, <1>8, <2>1, WriteRecorded DEF LeaseStates
<1>9. CASE SetupMutates /\ ChangeAcl(me.cycle)
  <2>1. helper /\ lease[me.cycle] \in {"SNAPSHOT_FSYNCED", "APPLYING"}
    BY <1>9 DEF SetupMutates, Leased
  <2> QED
    BY <1>0, <1>9, <2>1 DEF ChangeAcl, IsolationTypeOK, ChangeIsRecorded, Restored, None
<1>10. CASE SetupAdvances /\ WriteLease(me.cycle, NextLeaseState(lease[me.cycle], acl[me.cycle]))
  <2>1. PICK s : s = NextLeaseState(lease[me.cycle], acl[me.cycle])
    OBVIOUS
  <2>2. /\ s \in {"MATERIALIZED", "SID_DISCOVERED", "APPLYING", "ACTIVE", "CANARY_PASS"}
        /\ s = "MATERIALIZED" => acl[me.cycle] = "materialized"
        /\ s = "SID_DISCOVERED" => lease[me.cycle] = "MATERIALIZED"
    BY <1>10, <2>1, NextLeaseStateTyped DEF SetupAdvances
  <2>3. me.cycle \in Cycles /\ Changed(me.cycle) /\ acl[me.cycle] = "upgraded"
          => s \notin {"MATERIALIZED", "SID_DISCOVERED"}
    BY <1>0, <2>2 DEF ChangeIsRecorded, Changed
  <2>4. WriteLease(me.cycle, s)
    BY <1>10, <2>1
  <2> QED
    BY <1>0, <2>2, <2>3, <2>4, WriteRecorded DEF LeaseStates, Restored, None
<1>11. CASE UNCHANGED iso
  BY <1>0, <1>11 DEF iso, ChangeIsRecorded
<1> QED
  BY <1>1, <1>2, <1>3, <1>4, <1>5, <1>6, <1>7, <1>8, <1>9, <1>10, <1>11, LeaseSteps

\* What the steps on a lease leave alone.
LEMMA LeavesAlone ==
  ASSUME Leases
  PROVE  /\ me.pc \in {"snapshot", "setup"} => UNCHANGED helper
         /\ me.pc \in {"snapshot", "restored"} => UNCHANGED acl
<1>1. CASE BeginRestore \/ EndRestore \/ RestoreFails \/ Snapshot \/ SetupAdvances
  <2>1. (\E c, s : WriteLease(c, s)) \/ UNCHANGED iso
    BY <1>1, LeaseSteps DEF BeginRestore, EndRestore, RestoreFails, Snapshot, SetupAdvances
  <2> QED
    BY <2>1 DEF WriteLease, iso
<1>2. CASE SetupMutates
  BY <1>2 DEF SetupMutates, ChangeAcl, At
<1>3. CASE Authorize \/ Restoring \/ Unroot \/ UnlinkOne \/ UnlinkDone \/ LeaseRoot
  BY <1>3 DEF Authorize, Restoring, Unroot, UnlinkOne, UnlinkDone, LeaseRoot, At
<1> QED
  BY <1>1, <1>2, <1>3 DEF Leases

\* Every lease is settled before the latest run is sealed.
LEMMA SealedClean ==
  ASSUME Typed, Recorded, Leased, [Next]_vars, run' \in Runs, sealed'[run'] # None
  PROVE  Clean
<1>1. Controlled /\ run \in Nat
  BY RunNumbers DEF Typed
<1>2. CASE SealRun
  BY <1>2 DEF SealRun, Leased, Settled, At, Closing
<1>3. CASE Authorize
  <2>1. sealed[run + 1] = None
    BY <1>1, <1>3 DEF Authorize, Recorded, Filed
  <2> QED
    BY <1>3, <2>1 DEF Authorize
<1>4. CASE UNCHANGED <<run, sealed>>
  BY <1>4 DEF Leased
<1>5. SealRun \/ Authorize \/ UNCHANGED <<run, sealed>>
  BY NextSplits DEF Writes, record, Guard, AddTerminal, ProjectState, AppendLedger, PointLatest, RollBack, RollBackFails,
              Emergency
<1> QED
  BY <1>2, <1>3, <1>4, <1>5

\* What the leases know is inductive.
LEMMA NextLeased == Typed /\ Recorded /\ Leased /\ [Next]_vars => Leased'
<1> SUFFICES ASSUME Typed, Recorded, Leased, [Next]_vars PROVE Leased'
  OBVIOUS
<1>0. /\ IsolationTypeOK /\ ChangeIsRecorded /\ Controlled /\ me \in Memory
      /\ LeaseFlow /\ Controlled' /\ (Leases \/ UNCHANGED iso)
  BY NextSplits, IsolationSplits DEF Typed, TypeOK, Controlled, Leased
<1>1. ChangeIsRecorded'
  BY <1>0, ChangesRecorded DEF ChangeIsRecorded, iso
<1>2. ASSUME ~SetupMutates, NEW c \in Cycles, Changed(c)'
      PROVE  Changed(c) /\ ~(Unroot /\ c = Target)
  <2>1. CASE Leases
    BY <1>0, <1>2, <2>1, ChangedBefore
  <2>2. CASE ~Leases
    BY <1>0, <1>2, <2>2 DEF Leases, iso, Changed
  <2> QED
    BY <2>1, <2>2
<1>3. SetupMutates => me' = me /\ At("setup") /\ sealed[run] = None /\ UNCHANGED <<run, sealed>>
  BY <1>0 DEF SetupMutates, record, Recorded, Filed, Unsealed, Controlled, Memory, Modes, Placed, At, Recovering,
              Renewing, Boxing, Closing, Filing
<1>4. At("snapshot")' \/ At("setup")' => helper'
  <2>1. LeaseRoot => helper'
    BY DEF LeaseRoot, MakeRoot
  <2>2. me.pc \in {"snapshot", "setup"} => helper /\ (helper' <=> helper)
    BY <1>0, LeavesAlone DEF Leased, At, iso
  <2> QED
    BY <1>0, <2>1, <2>2 DEF LeaseFlow, At
<1>5. At("snapshot")' => acl'[me'.cycle] = "original"
  <2>1. CASE LeaseRoot /\ me'.cycle = me.cycle
    <3>1. me.cycle \in Cycles
      BY <1>0, <2>1 DEF LeaseRoot, Controlled, Memory, Modes, Placed, At, Recovering, Renewing, Boxing, Closing, Filing
    <3> QED
      BY <1>0, <2>1, <3>1 DEF LeaseRoot, MakeRoot, IsolationTypeOK
  <2>2. CASE me' = me /\ At("snapshot")
    <3>1. acl' = acl
      BY <1>0, <2>2, LeavesAlone DEF At, iso
    <3> QED
      BY <2>2, <3>1 DEF Leased
  <2> QED
    BY <1>0, <2>1, <2>2 DEF LeaseFlow, At
<1>6. At("restored")' => \A c \in Cycles : c = Target' => acl'[c] = "original"
  <2>1. CASE Restoring /\ me'.mode = me.mode /\ me'.cycle = me.cycle /\ me'.todo = me.todo
    <3>1. Target' = Target
      BY <2>1 DEF Target, In
    <3> QED
      BY <1>0, <2>1, <3>1 DEF Restoring, RestoreAcl, IsolationTypeOK
  <2>2. CASE me' = me /\ At("restored")
    <3>1. acl' = acl /\ Target' = Target
      BY <1>0, <2>2, LeavesAlone DEF At, iso, Target, In
    <3> QED
      BY <2>2, <3>1 DEF Leased
  <2> QED
    BY <1>0, <2>1, <2>2 DEF LeaseFlow, At
<1>7. Recalled' => \A c \in Cycles : Changed(c)' => c \in me'.todo
  <2> SUFFICES ASSUME Recalled', NEW c \in Cycles, Changed(c)' PROVE c \in me'.todo
    OBVIOUS
  <2>1. ~SetupMutates
    BY <1>3 DEF Recalled, At, Renewing
  <2>2. Changed(c) /\ ~(Unroot /\ c = Target)
    BY <1>2, <2>1
  <2>3. c \in LeasePaths
    BY <1>0, <2>2 DEF ChangeIsRecorded, Changed, LeasePaths
  <2>4. Recalled => c \in me.todo
    BY <2>2 DEF Leased
  <2>5. ~root[Target] => c # Target
    BY <2>2 DEF Changed
  <2> QED
    BY <1>0, <2>2, <2>3, <2>4, <2>5 DEF LeaseFlow
<1>8. Settled' \/ (run' \in Runs /\ sealed'[run'] # None) => Clean'
  <2> SUFFICES ASSUME Settled' \/ (run' \in Runs /\ sealed'[run'] # None) PROVE Clean'
    OBVIOUS
  <2>1. ~SetupMutates
    BY <1>3 DEF Settled, At, Closing
  <2>2. Clean
    <3>1. AclQuiescent \/ LeasePaths = {} => Clean
      BY <1>0 DEF AclQuiescent, LeasePaths, ChangeIsRecorded, Clean, Changed
    <3>2. Recalled /\ me.todo = {} => Clean
      BY DEF Leased, Clean
    <3>3. Settled => Clean
      BY DEF Leased
    <3> QED
      BY <1>0, <3>1, <3>2, <3>3, SealedClean DEF LeaseFlow
  <2> QED
    BY <1>2, <2>1, <2>2 DEF Clean
<1> QED
  BY <1>1, <1>4, <1>5, <1>6, <1>7, <1>8 DEF Leased, At

-------------------------------------------------------------------------------
(* What is left of the containers.                                             *)

Stopped(r) == box[r] \notin {"running", "exited"}
Quiet(r) == Stopped(r) /\ boxRecord[r] \in Removed \cup {None}

Boxed ==
  /\ \A r \in Runs : sealed[r] # None => Quiet(r)
  /\ Quiesced \/ Finalized => Quiet(run)
  /\ Restarted => \A r \in Runs : Stopped(r)

Working == me.pc \in {"work"} \cup Boxing

\* A container is disturbed only by the commands of its run.
LEMMA StaysQuiet ==
  ASSUME IsolationTypeOK, Containers \/ UNCHANGED boxes, NEW r \in Runs, r # run \/ ~Working
  PROVE  (Stopped(r) => Stopped(r)') /\ (Quiet(r) => Quiet(r)')
<1> USE DEF IsolationTypeOK, Stopped, Quiet
<1>1. CASE \E x : RecoverBox(x)
  BY <1>1 DEF RecoverBox, Removed, None
<1>2. CASE CloseRecords(Scope)
  BY <1>2 DEF CloseRecords, Removed
<1>3. CASE CreateLost(run)
  BY <1>3 DEF CreateLost
<1>4. CASE r # run /\ \E s : WriteBoxRecord(run, s)
  BY <1>4 DEF WriteBoxRecord
<1>5. CASE r # run /\ \E b : SetBox(run, b)
  BY <1>5 DEF SetBox
<1>6. CASE SetBox(run, None) \/ WriteBoxRecord(run, None)
  BY <1>6 DEF SetBox, WriteBoxRecord, None
<1>7. CASE BoxAppears \/ BoxExits
  BY <1>7 DEF BoxAppears, BoxExits
<1>8. CASE UNCHANGED boxes
  BY <1>8 DEF boxes
<1>9. Intent \/ StartBox \/ BoxEnded \/ CloseBox \/ RemoveBoxFails \/ CreateBox \/ AttachBox => Working
  BY DEF Intent, StartBox, BoxEnded, CloseBox, RemoveBoxFails, CreateBox, AttachBox, Working, Boxing, At
<1> QED
  BY <1>1, <1>2, <1>3, <1>4, <1>5, <1>6, <1>7, <1>8, <1>9, ContainerSteps

\* What is left of the containers is inductive.
LEMMA NextBoxed == Typed /\ Recorded /\ Boxed /\ [Next]_vars => Boxed'
<1> SUFFICES ASSUME Typed, Recorded, Boxed, [Next]_vars PROVE Boxed'
  OBVIOUS
<1>0. /\ IsolationTypeOK /\ Controlled /\ me \in Memory /\ run \in Nat
      /\ BoxFlow /\ (Containers \/ UNCHANGED boxes)
  BY NextSplits, IsolationSplits, RunNumbers DEF Typed, TypeOK, Controlled
<1>1. Working => /\ sealed[run] = None /\ me.mode \in {"body", "root"}
                 /\ me.pc \notin Closing \cup {"quiesce", "assert", "unbox"}
  BY <1>0 DEF Working, Controlled, Memory, Modes, Placed, Recorded, Filed, Unsealed, Recovering, Renewing, Boxing,
              Closing, Filing
<1>2. \A r \in Runs : r # run \/ ~Working => (Stopped(r) => Stopped(r)') /\ (Quiet(r) => Quiet(r)')
  BY <1>0, StaysQuiet
<1>3. \A r \in Runs : sealed'[r] # None => sealed[r] # None \/ (r = run /\ At("seal"))
  <2>1. CASE SealRun
    BY <2>1 DEF SealRun, Typed, TypeOK
  <2>2. CASE UNCHANGED sealed
    BY <2>2
  <2>3. SealRun \/ UNCHANGED sealed
    BY NextSplits DEF Writes, record, Authorize, Guard, AddTerminal, ProjectState, AppendLedger, PointLatest,
                      RollBack, RollBackFails, Emergency
  <2> QED
    BY <2>1, <2>2, <2>3
<1>4. \A r \in Runs : sealed'[r] # None => Quiet(r)'
  <2> SUFFICES ASSUME NEW r \in Runs, sealed'[r] # None PROVE Quiet(r)'
    OBVIOUS
  <2>1. CASE sealed[r] # None
    BY <1>1, <1>2, <2>1 DEF Boxed
  <2>2. CASE r = run /\ At("seal")
    <3>1. Quiesced
      BY <1>0, <2>2, WritingModes DEF Quiesced, At, Closing
    <3> QED
      BY <1>1, <1>2, <2>2, <3>1 DEF Boxed, Quiesced
  <2> QED
    BY <1>3, <2>1, <2>2
<1>5. run' = run \/ (me'.mode = "root" /\ me'.pc = "cycle")
  <2>1. CASE Authorize
    BY <1>0, <2>1, CallTyped DEF Authorize, Modes, Anywhere
  <2>2. Authorize \/ run' = run
    BY NextSplits DEF Writes, Guard, AddTerminal, ProjectState, SealRun, AppendLedger, PointLatest, RollBack, RollBackFails,
              Emergency
  <2> QED
    BY <2>1, <2>2
<1>6. Quiesced' \/ Finalized' => Quiet(run)'
  <2> SUFFICES ASSUME Quiesced' \/ Finalized' PROVE Quiet(run)'
    OBVIOUS
  <2>1. run' = run
    BY <1>5 DEF Quiesced, Finalized, Closing
  <2>2. CASE Quiesced \/ Finalized \/ (At("quiesce") /\ BoxesQuiescent(run))
    <3>1. ~Working
      BY <1>1, <2>2 DEF Quiesced, Finalized, At
    <3>2. Quiet(run)
      BY <2>2 DEF Boxed, BoxesQuiescent, Quiet, Stopped, None
    <3>3. run \in Runs
      BY <2>2, <1>0 DEF Typed, Quiesced, Finalized, Controlled, Memory, Modes, Placed, At, Recovering, Renewing,
                        Boxing, Closing, Filing
    <3>4. PICK r \in Runs : r = run
      BY <3>3
    <3>5. Quiet(r)'
      BY <1>2, <3>1, <3>2, <3>4
    <3> QED
      BY <2>1, <3>4, <3>5 DEF Quiet, Stopped
  <2>3. CASE me.mode = "emergency" /\ BoxesRecovered
    <3>1. Scope = {run} /\ run \in Runs
      BY <2>3 DEF Scope, In, Typed
    <3>2. box[run] = None /\ box' = box
      BY <2>3, <3>1 DEF BoxesRecovered, Listed, CloseRecords
    <3>3. boxRecord'[run] \in Removed \cup {None}
      BY <2>3, <3>1 DEF BoxesRecovered, CloseRecords, Removed
    <3> QED
      BY <2>1, <3>2, <3>3 DEF Quiet, Stopped, None
  <2> QED
    BY <1>0, <2>2, <2>3 DEF BoxFlow, Finalized, At
<1>7. Restarted' => \A r \in Runs : Stopped(r)'
  <2> SUFFICES ASSUME Restarted', NEW r \in Runs PROVE Stopped(r)'
    OBVIOUS
  <2>1. CASE Restarted
    BY <1>1, <1>2, <2>1 DEF Boxed, Restarted
  <2>2. CASE me.mode = "startup" /\ BoxesRecovered
    <3>1. Scope = Runs
      BY <2>2 DEF Scope, In
    <3> QED
      BY <2>2, <3>1 DEF BoxesRecovered, Listed, CloseRecords, Stopped, None
  <2> QED
    BY <1>0, <2>1, <2>2 DEF BoxFlow
<1> QED
  BY <1>4, <1>6, <1>7 DEF Boxed

-------------------------------------------------------------------------------
(* The theorems.                                                               *)

IInv == Typed /\ Recorded /\ Leased /\ Boxed

\* It holds at first.
LEMMA InitInv == Init => IInv
<1> SUFFICES ASSUME Init PROVE IInv
  OBVIOUS
<1>1. /\ me = Down /\ run = 0 /\ latest = 0 /\ ledger = <<>> /\ stranded = {} /\ 0 \notin Runs
      /\ \A r \in Runs : sealed[r] = None /\ box[r] = None
      /\ me.mode = "startup" /\ me.pc = "down" /\ ToSet(ledger) = {}
  BY RunsAssumption, DownTyped DEF Init, IsolationInit, ToSet
<1>2. TypeOK
  <2>1. /\ IsolationTypeOK /\ hazard = None /\ boxHazard = None /\ refused = {} /\ Down \in Memory
        /\ journal = [r \in Runs |-> None] /\ shown = [r \in Runs |-> None]
        /\ intact = [r \in Runs |-> TRUE] /\ sealed = [r \in Runs |-> None]
    BY DownTyped DEF Init, IsolationInit, IsolationTypeOK
  <2>2. ledger \in Seq(Runs)
    BY <1>1, EmptySeq
  <2> QED
    BY <1>1, <2>1, <2>2 DEF TypeOK, Memory, Fatal, Terminal
<1>3. Typed
  BY <1>1, <1>2, DownTyped DEF Typed, Controlled, Placed, At, Recovering
<1>4. Recorded
  BY <1>1, RunsAssumption DEF Recorded, Filed, Drafted, Pointed, Unsealed, Filing, At
<1>5. Leased
  BY <1>1 DEF Init, IsolationInit, Leased, ChangeIsRecorded, At, Recalled, Renewing, Settled, Closing
<1>6. Boxed
  BY <1>1 DEF Boxed, Quiesced, Finalized, Restarted
<1> QED
  BY <1>3, <1>4, <1>5, <1>6 DEF IInv

\* The invariant of a process, its leases and containers, and the record of the runs.
THEOREM ControllerInvariant == Spec => []IInv
<1>1. IInv /\ [Next]_vars => IInv'
  BY NextTyped, NextRecorded, NextLeased, NextBoxed DEF IInv
<1> QED
  BY InitInv, <1>1, PTL DEF Spec

\* APPLYING is written before the mutation: whenever a process may die, a root whose access
\* control list differs from its snapshot has an unrestored record and the helper to replay it.
THEOREM ChangesAreRecorded == Spec => []ChangeIsRecorded
<1>1. IInv => ChangeIsRecorded
  BY DEF IInv, Leased
<1> QED
  BY ControllerInvariant, <1>1, PTL

\* The startup gate: a process that may start a run has left no container that ran, of any
\* earlier run, and no changed root.
THEOREM NewRunsAreQuiet == Spec => []NewRunIsQuiet
<1>1. IInv => NewRunIsQuiet
  <2> SUFFICES ASSUME IInv, At("authorize") PROVE NewRunIsQuiet
    BY DEF NewRunIsQuiet
  <2>1. me.mode = "startup" /\ me.pc = "authorize"
    BY WritingModes DEF IInv, Typed, At
  <2>2. (\A r \in Runs : Stopped(r)) /\ Clean
    BY <2>1 DEF IInv, Boxed, Restarted, Leased, Settled
  <2> QED
    BY <2>2 DEF NewRunIsQuiet, Stopped, Clean, Changed
<1> QED
  BY ControllerInvariant, <1>1, PTL

\* Restored before sealed: of a sealed run no container that ever started is left and no root
\* differs from its snapshot, and the state has its types.
THEOREM SealedRunsAreQuiet == Spec => []SealedIsQuiet
<1>1. IInv => SealedIsQuiet
  <2> SUFFICES ASSUME IInv PROVE SealedIsQuiet
    OBVIOUS
  <2>1. TypeOK
    BY DEF IInv, Typed
  <2>2. \A r \in Runs : sealed[r] # None => Quiet(r)
    BY DEF IInv, Boxed
  <2>3. run \in Runs /\ sealed[run] # None => Clean
    BY DEF IInv, Leased
  <2> QED
    BY <2>1, <2>2, <2>3 DEF SealedIsQuiet, Quiet, Stopped, Clean, Changed
<1> QED
  BY ControllerInvariant, <1>1, PTL

\* What latest.json points to passes verify_record at every moment, also while it is replaced
\* and rolled back, but for a run whose roll back failed as well.
THEOREM LatestIsVerified == Spec => []LatestVerifies
<1>1. IInv => LatestVerifies
  BY DEF IInv, Recorded, Pointed, Presentable, LatestVerifies
<1> QED
  BY ControllerInvariant, <1>1, PTL

-------------------------------------------------------------------------------
(* The controller implements GovernedRuns.                                     *)

SealedRuns == {r \in Runs : sealed[r] # None}
Said == [r \in SealedRuns |-> Statement(r)]

\* A step that leaves the sealed runs alone changes no statement.
LEMMA SaidKept ==
  ASSUME UNCHANGED sealed,
         \A r \in SealedRuns : journal'[r] = journal[r] /\ shown'[r] = shown[r] /\ intact'[r] = intact[r]
  PROVE  Said' = Said
<1>1. SealedRuns' = SealedRuns
  BY DEF SealedRuns
<1>2. \A r \in SealedRuns : Statement(r)' = Statement(r)
  BY DEF Statement
<1> QED
  BY <1>1, <1>2 DEF Said

\* Nothing is said at first.
LEMMA GovernedInit == Init => Governed!Init
<1> SUFFICES ASSUME Init PROVE Governed!Init
  OBVIOUS
<1>1. SealedRuns = {}
  BY DEF Init, SealedRuns
<1>2. Said = <<>>
  BY <1>1 DEF Said
<1> QED
  BY <1>2 DEF Init, Governed!Init, Said, SealedRuns

\* The step of the code that each step of the abstract specification is.
LEMMA GovernedNext == IInv /\ [Next]_vars => [Governed!Next]_(Governed!vars)
<1> SUFFICES ASSUME IInv, [Next]_vars PROVE Governed!Next \/ UNCHANGED <<run, Said, ledger, latest>>
  BY DEF Governed!vars, Said, SealedRuns
<1>0. /\ Typed /\ Recorded /\ Controlled /\ run \in Nat /\ Runs \subseteq Nat /\ 0 \notin Runs
      /\ sealed \in [Runs -> Terminal \cup {None}] /\ ledger \in Seq(Runs)
  BY RunNumbers DEF IInv, Typed, TypeOK
<1>1. \A r \in SealedRuns : sealed[r] \in Terminal /\ Agreed(r) /\ r \in Runs /\ r <= run
  BY <1>0 DEF SealedRuns, Recorded, Filed
<1>2. CASE Flow /\ UNCHANGED <<run, record>>
  <2>1. UNCHANGED <<run, journal, shown, intact, sealed, ledger, latest>>
    BY <1>2 DEF record
  <2>2. Said' = Said
    BY <2>1, SaidKept
  <2> QED
    BY <2>1, <2>2
<1>3. CASE Authorize
  <2>1. /\ run' = run + 1 /\ UNCHANGED <<intact, sealed, ledger, latest>>
        /\ \A r \in Runs : r # run + 1 => journal'[r] = journal[r] /\ shown'[r] = shown[r]
    BY <1>0, <1>3 DEF Authorize, Typed, TypeOK
  <2>2. \A r \in SealedRuns : r # run + 1
    BY <1>0, <1>1
  <2>3. Said' = Said
    BY <1>1, <2>1, <2>2, SaidKept
  <2> QED
    BY <2>1, <2>3 DEF Governed!Next, Governed!Open, Said, SealedRuns
<1>4. CASE Guard \/ AddTerminal \/ ProjectState
  <2>1. sealed[run] = None /\ UNCHANGED <<run, sealed, ledger, latest>>
    <3>1. me.mode \in {"root", "closing"} /\ me.pc \in {"guard", "terminal", "project"}
      BY <1>0, <1>4, WritingModes DEF Guard, AddTerminal, ProjectState, At
    <3> QED
      BY <1>0, <1>4, <3>1 DEF Unsealed, Filing, Closing, Recorded, Filed, Guard, AddTerminal, ProjectState
  <2>2. \A r \in SealedRuns : journal'[r] = journal[r] /\ shown'[r] = shown[r] /\ intact'[r] = intact[r]
    <3>1. \A r \in SealedRuns : r \in Runs /\ r # run
      BY <2>1 DEF SealedRuns
    <3>2. CASE Guard
      <4>1. PICK pass \in BOOLEAN : intact' = [intact EXCEPT ![run] = pass]
        BY <3>2 DEF Guard
      <4>2. \A r \in Runs : r # run => intact'[r] = intact[r]
        BY <1>0, <4>1 DEF Typed, TypeOK
      <4> QED
        BY <3>1, <3>2, <4>2 DEF Guard
    <3>3. CASE AddTerminal \/ ProjectState
      BY <1>0, <3>1, <3>3 DEF AddTerminal, ProjectState, Typed, TypeOK
    <3> QED
      BY <1>4, <3>2, <3>3
  <2>3. Said' = Said
    BY <2>1, <2>2, SaidKept
  <2> QED
    BY <2>1, <2>3
<1>5. CASE SealRun
  <2>1. /\ me.pc = "seal" /\ sealed[run] = None /\ run \in Runs
        /\ journal[run] = Outcome /\ shown[run] = Outcome
        /\ intact[run] \/ Outcome = "COMPLETE_WITH_ERRORS"
    <3>1. me.pc = "seal" /\ me.mode \in {"root", "closing"}
      BY <1>0, <1>5, WritingModes DEF SealRun, At
    <3> QED
      BY <1>0, <3>1 DEF Unsealed, Filing, Closing, Recorded, Filed, Drafted, Typed, At
  <2>2. /\ UNCHANGED <<run, journal, shown, intact, ledger, latest>>
        /\ sealed'[run] = Outcome /\ \A r \in Runs : r # run => sealed'[r] = sealed[r]
    BY <1>0, <1>5, <2>1 DEF SealRun
  <2>3. Outcome \in {"COMPLETE", "TIMEOUT", "COMPLETE_WITH_ERRORS"}
    BY DEF Outcome
  <2>4. SealedRuns' = SealedRuns \cup {run} /\ run \notin SealedRuns
    BY <2>1, <2>2, <2>3 DEF SealedRuns, None
  <2>5. \A r \in SealedRuns : Statement(r)' = Statement(r)
    BY <2>2, <2>4 DEF Statement, SealedRuns
  <2>6. \A r \in SealedRuns : Said'[r] = Said[r]
    BY <2>4, <2>5 DEF Said
  <2>7. Said'[run] = Statement(run)'
    BY <2>2, <2>4 DEF Said
  <2>8. Statement(run)' = [status |-> Outcome, journal |-> Outcome, shown |-> Outcome, intact |-> intact[run]]
    BY <2>1, <2>2 DEF Statement
  <2>9. intact[run] \in BOOLEAN
    BY <1>0, <2>1 DEF Typed, TypeOK
  <2>10. [status |-> Outcome, journal |-> Outcome, shown |-> Outcome, intact |-> intact[run]] \in Governed!Statements
    <3> HIDE DEF Outcome
    <3> QED
      BY <2>1, <2>3, <2>9 DEF Governed!Statements, Governed!Outcomes
  <2>11. DOMAIN Said = SealedRuns /\ DOMAIN Said' = SealedRuns'
    BY DEF Said
  <2> QED
    BY <1>0, <2>1, <2>2, <2>4, <2>6, <2>7, <2>8, <2>10, <2>11
    DEF Governed!Next, Governed!Seal, Governed!Sealed, Said, SealedRuns
<1>6. CASE AppendLedger
  <2>1. UNCHANGED <<run, journal, shown, intact, sealed, latest>> /\ run \in SealedRuns
    <3>1. me.pc = "append" /\ me.mode \in {"root", "closing"}
      BY <1>0, <1>6, WritingModes DEF AppendLedger, At, Filing
    <3> QED
      BY <1>0, <1>6, <3>1 DEF AppendLedger, Recorded, Filed, Filing, Typed, SealedRuns
  <2>2. Said' = Said
    BY <2>1, SaidKept
  <2>3. CASE run \in ToSet(ledger)
    BY <1>6, <2>1, <2>2, <2>3 DEF AppendLedger
  <2>4. CASE run \notin ToSet(ledger)
    <3>1. ledger' = Append(ledger, run)
      BY <1>6, <2>4 DEF AppendLedger
    <3> QED
      BY <2>1, <2>2, <2>4, <3>1
      DEF Governed!Next, Governed!Anchor, Governed!Sealed, Governed!Anchored, ToSet, Governed!ToSet, Said,
          SealedRuns
  <2> QED
    BY <2>3, <2>4
<1>7. CASE PointLatest
  <2>1. /\ UNCHANGED <<run, journal, shown, intact, sealed, ledger>> /\ latest' = run
        /\ Verifies(run) /\ run \in Runs
    <3>1. me.pc = "point" /\ me.mode \in {"root", "closing"}
      BY <1>0, <1>7, WritingModes DEF PointLatest, At, Filing
    <3> QED
      BY <1>0, <1>7, <3>1 DEF PointLatest, Recorded, Pointed, Typed, At
  <2>2. Said' = Said
    BY <2>1, SaidKept
  <2>3. run \in SealedRuns /\ run \in ToSet(ledger) /\ Said[run].intact
    BY <2>1 DEF Verifies, SealedRuns, Said, Statement
  <2> QED
    BY <2>1, <2>2, <2>3 DEF Governed!Next, Governed!Publish, Governed!Sealed, Governed!Anchored, ToSet, Governed!ToSet, Said,
          SealedRuns
<1>8. CASE RollBack
  <2>1. /\ UNCHANGED <<run, journal, shown, intact, sealed, ledger>> /\ latest' = me.previous
        /\ latest = run /\ me.previous < run /\ me.previous \in Runs \cup {0}
        /\ me.previous # 0 => Presentable(me.previous)
    BY <1>0, <1>8 DEF RollBack, Recorded, Pointed, Controlled, Memory, At
  <2>2. Said' = Said
    BY <2>1, SaidKept
  <2>3. PICK p \in Runs \cup {0} : p = me.previous
    BY <2>1
  <2>4. p # 0 => p \in SealedRuns /\ p \in ToSet(ledger) /\ Said[p].intact
    <3> SUFFICES ASSUME p # 0 PROVE p \in SealedRuns /\ p \in ToSet(ledger) /\ Said[p].intact
      OBVIOUS
    <3>1. p \in Runs /\ Presentable(p)
      BY <2>1, <2>3
    <3>2. sealed[p] # None /\ p \in ToSet(ledger) /\ intact[p]
      BY <3>1 DEF Presentable
    <3> QED
      BY <3>1, <3>2 DEF SealedRuns, Said, Statement
  <2> QED
    BY <2>1, <2>2, <2>3, <2>4 DEF Governed!Next, Governed!Withdraw, ToSet, Governed!ToSet, Said, SealedRuns
<1>9. CASE Emergency \/ RollBackFails
  <2>1. UNCHANGED <<run, journal, shown, intact, sealed, ledger, latest>>
    BY <1>9 DEF Emergency, RollBackFails
  <2>2. Said' = Said
    BY <2>1, SaidKept
  <2> QED
    BY <2>1, <2>2
<1> QED
  BY <1>2, <1>3, <1>4, <1>5, <1>6, <1>7, <1>8, <1>9, <1>0, NextSplits DEF Writes

\* The run's record is what GovernedRuns promises, whatever fails or dies: a run is sealed at
\* most once, while it is the open one, with a statement that is of one mind; the ledger only
\* grows; latest.json moves from anchored run to anchored run.
THEOREM ControllerGovernsRuns == Spec => ImplementsGovernedRuns
BY GovernedInit, GovernedNext, ControllerInvariant, PTL DEF Spec, ImplementsGovernedRuns, Governed!Spec
================================================================================
