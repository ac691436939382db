------------------------ MODULE RunnerSupervisorProofs ------------------------
(***************************************************************************)
(* The safety invariants of RunnerSupervisor, proved for every number of    *)
(* retries.                                                                 *)
(***************************************************************************)
EXTENDS RunnerSupervisor, SequenceTheorems, TLAPS

Earned ==
  /\ results # <<>>
  /\ results[Len(results)] = [status |-> "SUCCESS", code |-> "zero"]
  /\ \A i \in 1..(Len(results) - 1) : results[i].status # "SUCCESS"

\* A live root belongs to the attempt under way, in the phases that watch it.
LiveIsCurrent ==
  \A a \in Attempts :
    root[a] = "live" =>
      /\ a = attempt
      /\ phase \in {"launched", "poll", "check", "terminate", "settle", "again", "ended"}

\* The loop numbers its attempts from one.
Numbered ==
  phase \in {"launch", "launched", "poll", "check", "terminate", "settle", "again",
             "collect", "pause"} => attempt \in Attempts

\* What Collect will record.
Collected ==
  /\ phase = "collect" => root[attempt] \in Codes
  /\ phase \in {"settle", "again", "collect"} \/ (phase = "terminate" /\ raising = None)
       => verdict \in Statuses

\* 0 and 2 are returned by Seal alone.
Reported == exit \in {0, 2} => phase = "ended" /\ \A a \in Attempts : root[a] # "live"

\* How far a SUCCESS has got.
Progress ==
  /\ phase \notin {"classify", "seal", "ended"} =>
       \A i \in DOMAIN results : results[i].status # "SUCCESS"
  /\ verdict = "SUCCESS" => phase \in {"settle", "collect", "classify", "seal", "ended"}
  /\ verdict = "SUCCESS" /\ phase \in {"settle", "collect"} => root[attempt] = "zero"
  /\ verdict = "SUCCESS" /\ phase \in {"classify", "seal"} => Earned
  /\ outcome = "SUCCESS" => Earned /\ phase \in {"seal", "ended"}

IInv == TypeOK /\ LiveIsCurrent /\ Numbered /\ Collected /\ Reported /\ Progress

-----------------------------------------------------------------------------
USE RetriesAssumption

\* Giving up, with 1 or 130, makes a terminal state that is not SUCCESS, and leaves at
\* most the root of the attempt under way.
LEMMA LeaveKeeps ==
  ASSUME IInv, phase # "ended",
         NEW kind \in {"error", "interrupt"}, Leave(kind),
         root' \in [Attempts -> Codes \cup {None, "live"}],
         \A a \in Attempts : root'[a] = "live" => root[a] = "live",
         tree' \subseteq Attempts,
         raising' \in {None, "error", "interrupt"},
         UNCHANGED <<attempt, stop, verdict, results>>
  PROVE  IInv'
<1>1. TypeOK'
  BY DEF IInv, TypeOK, Leave, Phases, Statuses, None, NoExit
<1>2. LiveIsCurrent'
  BY DEF IInv, LiveIsCurrent, Leave
<1>3. Numbered' /\ Collected'
  BY DEF Numbered, Collected, Leave
<1>4. Reported'
  BY DEF Reported, Leave
<1>5. Progress'
  BY DEF IInv, TypeOK, Progress, Earned, Leave, None, Statuses
<1> QED
  BY <1>1, <1>2, <1>3, <1>4, <1>5 DEF IInv

\* What terminate_process_tree can do to the processes: roots only go.
LEMMA TerminateTreeKills ==
  ASSUME IInv, NEW a \in Attempts, TerminateTree(a)
  PROVE  /\ root' \in [Attempts -> Codes \cup {None, "live"}]
         /\ \A b \in Attempts : root'[b] = "live" => root[b] = "live"
         /\ \A b \in Attempts : root[b] \in Codes => root'[b] = root[b]
         /\ tree' \subseteq Attempts
  BY DEF IInv, TypeOK, TerminateTree, Codes, None

\* The invariant holds at the start.
LEMMA InitialState == Init => IInv
<1> SUFFICES ASSUME Init PROVE IInv
  OBVIOUS
<1>1. results = <<>> /\ results \in Seq([status : Statuses, code : Codes])
  BY DEF Init
<1>2. TypeOK
  BY <1>1 DEF Init, TypeOK, Phases, None
<1>3. LiveIsCurrent /\ Numbered /\ Collected /\ Reported
  BY DEF Init, LiveIsCurrent, Numbered, Collected, Reported, None, NoExit
<1>4. Progress
  BY <1>1 DEF Init, Progress, None
<1> QED
  BY <1>2, <1>3, <1>4 DEF IInv

\* The environment only ends roots, and starts and ends the processes below them.
LEMMA EnvironmentKeeps == IInv /\ Environment => IInv'
<1> SUFFICES ASSUME IInv, Environment PROVE IInv'
  OBVIOUS
<1>1. CASE RootExits
  <2>1. PICK a \in Attempts, c \in Codes :
          root[a] = "live" /\ root' = [root EXCEPT ![a] = c]
    BY <1>1 DEF RootExits
  <2>2. UNCHANGED <<phase, attempt, tree, stop, verdict, raising, results, outcome, exit>>
    BY <1>1 DEF RootExits
  <2>3. root' \in [Attempts -> Codes \cup {None, "live"}]
    BY <2>1 DEF IInv, TypeOK
  <2>4. \A b \in Attempts : root'[b] = "live" => root[b] = "live"
    BY <2>1 DEF IInv, TypeOK, Codes
  <2>5. TypeOK'
    BY <2>2, <2>3 DEF IInv, TypeOK
  <2>6. LiveIsCurrent' /\ Numbered' /\ Reported'
    BY <2>2, <2>4 DEF IInv, LiveIsCurrent, Numbered, Reported
  <2>8. Collected'
    BY <2>1, <2>2 DEF IInv, TypeOK, LiveIsCurrent, Numbered, Collected
  <2>7. Progress'
    BY <2>1, <2>2 DEF IInv, TypeOK, LiveIsCurrent, Numbered, Progress, Earned
  <2> QED
    BY <2>5, <2>6, <2>7, <2>8 DEF IInv
<1>2. CASE RootSpawns \/ OthersExit \/ Stop
  <2>1. /\ tree' \subseteq Attempts
        /\ stop' \in BOOLEAN
        /\ UNCHANGED <<phase, attempt, root, verdict, raising, results, outcome, exit>>
    BY <1>2 DEF RootSpawns, OthersExit, Stop, IInv, TypeOK
  <2> QED
    BY <2>1 DEF IInv, TypeOK, LiveIsCurrent, Numbered, Collected, Reported, Progress, Earned
<1> QED
  BY <1>1, <1>2 DEF Environment

\* Every step of the runner's own.
LEMMA SuperviseKeeps == IInv /\ Supervise => IInv'
<1> SUFFICES ASSUME IInv, Supervise PROVE IInv'
  OBVIOUS
<1>1. CASE Start
  BY <1>1 DEF Start, IInv, TypeOK, LiveIsCurrent, Numbered, Collected, Reported, Progress, Earned, Phases
<1>2. CASE Preflight
  BY <1>2 DEF Preflight, IInv, TypeOK, LiveIsCurrent, Numbered, Collected, Reported, Progress, Earned,
              Phases, Statuses, Attempts
<1>3. CASE Launch
  BY <1>3 DEF Launch, IInv, TypeOK, LiveIsCurrent, Numbered, Collected, Reported, Progress, Earned, Phases
<1>4. CASE StartReaders
  BY <1>4 DEF StartReaders, IInv, TypeOK, LiveIsCurrent, Numbered, Collected, Reported, Progress, Earned,
              Phases
<1>5. CASE Poll
  BY <1>5 DEF Poll, Exited, IInv, TypeOK, LiveIsCurrent, Numbered, Collected, Reported, Progress, Earned,
              Phases, Statuses, Codes
<1>6. CASE Check
  BY <1>6 DEF Check, IInv, TypeOK, LiveIsCurrent, Numbered, Collected, Reported, Progress, Earned,
              Phases, Statuses
<1>7. CASE Terminate
  <2>1. attempt \in Attempts /\ phase = "terminate"
    BY <1>7 DEF Terminate, IInv, Numbered
  <2>2. TerminateTree(attempt) /\ UNCHANGED <<attempt, stop, verdict, raising, results>>
    BY <1>7 DEF Terminate
  <2>3. /\ root' \in [Attempts -> Codes \cup {None, "live"}]
        /\ \A b \in Attempts : root'[b] = "live" => root[b] = "live"
        /\ tree' \subseteq Attempts
    BY <2>1, <2>2, TerminateTreeKills
  <2>4. CASE raising = None
    <3>1. phase' = "settle" /\ UNCHANGED <<outcome, exit>>
      BY <1>7, <2>4 DEF Terminate
    <3> QED
      BY <2>1, <2>2, <2>3, <2>4, <3>1
         DEF IInv, TypeOK, LiveIsCurrent, Numbered, Collected, Reported, Progress, Earned, Phases
  <2>5. CASE raising # None
    <3>1. Leave(raising) /\ raising \in {"error", "interrupt"}
      BY <1>7, <2>5 DEF Terminate, IInv, TypeOK
    <3> QED
      BY <2>1, <2>2, <2>3, <3>1, LeaveKeeps DEF IInv, TypeOK
  <2> QED
    BY <2>4, <2>5
<1>8. CASE Settle
  BY <1>8 DEF Settle, Exited, IInv, TypeOK, LiveIsCurrent, Numbered, Collected, Reported, Progress, Earned,
              Phases, Codes
<1>9. CASE TerminateAgain
  <2>1. attempt \in Attempts /\ phase = "again"
    BY <1>9 DEF TerminateAgain, IInv, Numbered
  <2>2. TerminateTree(attempt) /\ UNCHANGED <<attempt, stop, verdict, raising, results>>
    BY <1>9 DEF TerminateAgain
  <2>3. /\ root' \in [Attempts -> Codes \cup {None, "live"}]
        /\ \A b \in Attempts : root'[b] = "live" => root[b] = "live"
        /\ tree' \subseteq Attempts
    BY <2>1, <2>2, TerminateTreeKills
  <2>4. CASE root'[attempt] \in Codes
    <3>1. phase' = "collect" /\ UNCHANGED <<outcome, exit>>
      BY <1>9, <2>4 DEF TerminateAgain
    <3>2. root'[attempt] # "live"
      BY <2>4 DEF Codes
    <3> QED
      BY <2>1, <2>2, <2>3, <2>4, <3>1, <3>2
         DEF IInv, TypeOK, LiveIsCurrent, Numbered, Collected, Reported, Progress, Earned, Phases
  <2>5. CASE root'[attempt] \notin Codes
    <3>1. Leave("error")
      BY <1>9, <2>5 DEF TerminateAgain
    <3> QED
      BY <2>1, <2>2, <2>3, <3>1, LeaveKeeps DEF IInv, TypeOK
  <2> QED
    BY <2>4, <2>5
<1>10. CASE Collect
  <2>1. /\ phase = "collect" /\ attempt \in Attempts
        /\ results' = Append(results, Result)
        /\ UNCHANGED <<root, tree, stop, verdict, raising, outcome, exit>>
    BY <1>10 DEF Collect, IInv, Numbered
  <2>2. Result \in [status : Statuses, code : Codes]
    BY <2>1 DEF Result, IInv, Collected
  <2>3. results \in Seq([status : Statuses, code : Codes])
    BY DEF IInv, TypeOK
  <2>4. /\ results' \in Seq([status : Statuses, code : Codes])
        /\ Len(results') = Len(results) + 1
        /\ results'[Len(results')] = Result
        /\ \A i \in 1..Len(results) : results'[i] = results[i]
    BY <2>1, <2>2, <2>3, AppendProperties
  <2>5. root[attempt] # "live"
    BY <2>1 DEF IInv, Collected, Codes
  <2>6. \A i \in 1..Len(results) : results[i].status # "SUCCESS"
    BY <2>1, <2>3 DEF IInv, Progress
  <2>7. Result.status = verdict /\ Result.code = root[attempt]
    BY DEF Result
  <2>8. CASE verdict = "SUCCESS"
    <3>1. phase' = "classify" /\ attempt' = attempt
      BY <1>10, <2>8 DEF Collect
    <3>2. Result = [status |-> "SUCCESS", code |-> "zero"]
      BY <2>1, <2>8 DEF Result, IInv, Progress
    <3>3. Earned'
      BY <2>3, <2>4, <2>6, <3>2 DEF Earned
    <3> QED
      BY <2>1, <2>4, <2>5, <2>8, <3>1, <3>3
         DEF IInv, TypeOK, LiveIsCurrent, Numbered, Collected, Reported, Progress, Phases
  <2>9. CASE verdict # "SUCCESS"
    <3>1. /\ attempt' \in Attempts
          /\ phase' \in {"classify", "pause", "launch"}
      BY <1>10, <2>1, <2>9, RetriesAssumption DEF Collect, Attempts
    <3>2. \A i \in DOMAIN results' : results'[i].status # "SUCCESS"
      BY <2>3, <2>4, <2>6, <2>7, <2>9
    <3>3. outcome' # "SUCCESS" /\ verdict' # "SUCCESS"
      BY <2>1, <2>9 DEF IInv, Progress
    <3>4. TypeOK' /\ Numbered' /\ Collected' /\ Progress'
      BY <2>1, <2>4, <3>1, <3>2, <3>3 DEF IInv, TypeOK, Numbered, Collected, Progress, Phases
    <3>5. LiveIsCurrent' /\ Reported'
      BY <2>1, <2>5, <3>1 DEF IInv, LiveIsCurrent, Reported
    <3> QED
      BY <3>4, <3>5 DEF IInv
  <2> QED
    BY <2>8, <2>9
<1>11. CASE Pause
  BY <1>11 DEF Pause, IInv, TypeOK, LiveIsCurrent, Numbered, Collected, Reported, Progress, Earned, Phases
<1>12. CASE Classify
  BY <1>12 DEF Classify, IInv, TypeOK, LiveIsCurrent, Numbered, Collected, Reported, Progress, Earned,
               Phases, None
<1>13. CASE Seal
  BY <1>13 DEF Seal, IInv, TypeOK, LiveIsCurrent, Numbered, Collected, Reported, Progress, Earned, Phases
<1> QED
  BY <1>1, <1>2, <1>3, <1>4, <1>5, <1>6, <1>7, <1>8, <1>9, <1>10, <1>11, <1>12, <1>13
     DEF Supervise

\* An exception, and Ctrl-C.
LEMMA BreakKeeps == IInv /\ (Fault \/ Interrupt) => IInv'
<1> SUFFICES ASSUME IInv, Fault \/ Interrupt PROVE IInv'
  OBVIOUS
<1>1. UNCHANGED <<attempt, root, tree, stop, verdict, results>>
  BY DEF Fault, Interrupt
<1>2. CASE /\ phase \in {"poll", "check", "terminate"}
           /\ phase' = "terminate"
           /\ raising' \in {"error", "interrupt"}
           /\ UNCHANGED <<outcome, exit>>
  BY <1>1, <1>2 DEF IInv, TypeOK, LiveIsCurrent, Numbered, Collected, Reported, Progress,
                    Earned, Phases, None
<1>3. CASE \E kind \in {"error", "interrupt"} :
             Leave(kind) /\ phase # "ended" /\ UNCHANGED raising
  BY <1>1, <1>3, LeaveKeeps DEF IInv, TypeOK
<1> QED
  BY <1>2, <1>3 DEF Fault, Interrupt

-----------------------------------------------------------------------------
\* The inductive invariant holds in every state of every run.
THEOREM Invariant == Spec => []IInv
<1>1. IInv /\ [Next]_vars => IInv'
  <2> SUFFICES ASSUME IInv, [Next]_vars PROVE IInv'
    OBVIOUS
  <2>1. CASE UNCHANGED vars
    BY <2>1 DEF vars, IInv, TypeOK, LiveIsCurrent, Numbered, Collected, Reported, Progress,
                Earned
  <2> QED
    BY <2>1, EnvironmentKeeps, SuperviseKeeps, BreakKeeps DEF Next
<1> QED
  BY <1>1, InitialState, PTL DEF Spec

\* The values of the variables, whatever the number of retries.
THEOREM TypeCorrect == Spec => []TypeOK
<1>1. IInv => TypeOK
  BY DEF IInv
<1> QED
  BY <1>1, Invariant, PTL

\* Attempts never overlap: run_target_once returns only when its root is gone.
THEOREM AttemptsNeverOverlap == Spec => []OneRootAtATime
<1>1. IInv => OneRootAtATime
  BY DEF IInv, LiveIsCurrent, OneRootAtATime
<1> QED
  BY <1>1, Invariant, PTL

\* Exit status 0 or 2 means that no root process is left.
THEOREM ReportedRunIsGone == Spec => []ExitMeansGone
<1>1. IInv => ExitMeansGone
  BY DEF IInv, Reported, ExitMeansGone
<1> QED
  BY <1>1, Invariant, PTL

\* SUCCESS is the last attempt's own.
THEOREM SuccessIsGenuine == Spec => []SuccessIsEarned
<1>1. IInv => SuccessIsEarned
  BY DEF IInv, Progress, Earned, SuccessIsEarned
<1> QED
  BY <1>1, Invariant, PTL
=============================================================================
