--------------------------- MODULE RunnerSupervisor ---------------------------
(***************************************************************************)
(* CodexLightRunner_v3.py: the supervision of one run, from its preflight   *)
(* to its exit status: run's retry loop, run_target_once's polling loop,    *)
(* terminate_process_tree, and the handlers of Ctrl-C and of exceptions.    *)
(*                                                                          *)
(* The target's root process, the processes it starts, the operator's kill  *)
(* switch and Ctrl-C move at any time.  The clocks are not modelled: a      *)
(* timeout or a stall may be found whenever it is looked for.  What the run *)
(* publishes, and how, is RunnerPublication.                                *)
(***************************************************************************)
EXTENDS Naturals, Sequences

CONSTANT Retries   \* config.retries

ASSUME RetriesAssumption == Retries \in Nat

VARIABLES
  phase,    \* where run and run_target_once are
  attempt,  \* number of the attempt under way
  root,     \* each attempt's root process
  tree,     \* attempts that still have a process the root started
  stop,     \* the kill switch file exists
  verdict,  \* status run_target_once has chosen
  raising,  \* the exception the polling loop's handler is about to re-raise
  results,  \* the list attempts of run: status and exit code
  outcome,  \* status of the terminal state, None before make_state
  exit      \* exit status, NoExit while running

vars == <<phase, attempt, root, tree, stop, verdict, raising, results, outcome, exit>>

None   == "none"
NoExit == 256   \* not an exit status
Attempts == 1..(Retries + 1)
Codes    == {"zero", "nonzero"}
Statuses == {"SUCCESS", "FAILED", "KILLED", "TIMEOUT", "STALLED"}
Phases   == {"start", "preflight", "launch", "launched", "poll", "check", "terminate", "settle",
             "again", "collect", "pause", "classify", "seal", "ended"}

Exited == root[attempt] \in Codes

-----------------------------------------------------------------------------
Init ==
  /\ phase = "start"
  /\ attempt = 0
  /\ root = [a \in Attempts |-> None]
  /\ tree = {}
  /\ stop = FALSE
  /\ verdict = None
  /\ raising = None
  /\ results = <<>>
  /\ outcome = None
  /\ exit = NoExit

\* The environment: the root exits or starts processes, which end in their own time;
\* the operator creates the kill switch.
RootExits ==
  \E a \in Attempts, c \in Codes :
    /\ root[a] = "live"
    /\ root' = [root EXCEPT ![a] = c]
    /\ UNCHANGED <<phase, attempt, tree, stop, verdict, raising, results, outcome, exit>>

RootSpawns ==
  \E a \in Attempts :
    /\ root[a] = "live"
    /\ tree' = tree \cup {a}
    /\ UNCHANGED <<phase, attempt, root, stop, verdict, raising, results, outcome, exit>>

OthersExit ==
  \E a \in tree :
    /\ tree' = tree \ {a}
    /\ UNCHANGED <<phase, attempt, root, stop, verdict, raising, results, outcome, exit>>

Stop ==
  /\ phase # "ended"
  /\ stop' = TRUE
  /\ UNCHANGED <<phase, attempt, root, tree, verdict, raising, results, outcome, exit>>

Environment == RootExits \/ RootSpawns \/ OthersExit \/ Stop

-----------------------------------------------------------------------------
\* A kill switch left over from an earlier run refuses this one before it has a
\* directory, so no terminal state is made.
Start ==
  /\ phase = "start"
  /\ IF stop
       THEN phase' = "ended" /\ exit' = 1
       ELSE phase' = "preflight" /\ UNCHANGED exit
  /\ UNCHANGED <<attempt, root, tree, stop, verdict, raising, results, outcome>>

\* run_preflight compiles the target; a failure is the run's final result.
Preflight ==
  /\ phase = "preflight"
  /\ \/ phase' = "launch" /\ attempt' = 1 /\ UNCHANGED verdict
     \/ phase' = "classify" /\ verdict' = "FAILED" /\ UNCHANGED attempt
  /\ UNCHANGED <<root, tree, stop, raising, results, outcome, exit>>

\* subprocess.Popen, in a process group or session of its own.
Launch ==
  /\ phase = "launch"
  /\ phase' = "launched"
  /\ root' = [root EXCEPT ![attempt] = "live"]
  /\ UNCHANGED <<attempt, tree, stop, verdict, raising, results, outcome, exit>>

\* The reader threads are started, and the polling loop entered.
StartReaders ==
  /\ phase = "launched"
  /\ phase' = "poll"
  /\ UNCHANGED <<attempt, root, tree, stop, verdict, raising, results, outcome, exit>>

\* Defect: the exit code is not looked at.
PollAnyCode ==
  /\ phase = "poll"
  /\ IF Exited
       THEN phase' = "settle" /\ verdict' = "SUCCESS"
       ELSE phase' = "check" /\ UNCHANGED verdict
  /\ UNCHANGED <<attempt, root, tree, stop, raising, results, outcome, exit>>

\* rc = proc.poll()
Poll ==
  /\ phase = "poll"
  /\ IF Exited
       THEN /\ phase' = "settle"
            /\ verdict' = IF root[attempt] = "zero" THEN "SUCCESS" ELSE "FAILED"
       ELSE phase' = "check" /\ UNCHANGED verdict
  /\ UNCHANGED <<attempt, root, tree, stop, raising, results, outcome, exit>>

\* Defect: only the clocks are looked at.
CheckClocks ==
  /\ phase = "check"
  /\ \/ \E s \in {"TIMEOUT", "STALLED"} : phase' = "terminate" /\ verdict' = s
     \/ phase' = "poll" /\ UNCHANGED verdict
  /\ UNCHANGED <<attempt, root, tree, stop, raising, results, outcome, exit>>

\* rc was None: the kill switch, then the two clocks, then half a second's sleep.
Check ==
  /\ phase = "check"
  /\ IF stop
       THEN phase' = "terminate" /\ verdict' = "KILLED"
       ELSE \/ \E s \in {"TIMEOUT", "STALLED"} : phase' = "terminate" /\ verdict' = s
            \/ phase' = "poll" /\ UNCHANGED verdict
  /\ UNCHANGED <<attempt, root, tree, stop, raising, results, outcome, exit>>

\* An exception, or Ctrl-C, reaches run: make_state unless a terminal state or no run
\* directory exists, finalize (which may fail too), leave with 1 or 130.
Leave(kind) ==
  /\ phase' = "ended"
  /\ outcome' = IF outcome # None \/ phase = "start" THEN outcome
                ELSE IF kind = "interrupt" THEN "INTERRUPTED" ELSE "FAILED"
  /\ exit' = IF kind = "interrupt" THEN 130 ELSE 1

\* terminate_process_tree: a root that is gone, or goes within the grace period, is
\* all it waits for.  Otherwise the whole tree is killed, as far as that succeeds.
TerminateTree(a) ==
  \/ root[a] \in Codes /\ UNCHANGED <<root, tree>>
  \/ /\ root[a] = "live"
     /\ \E c \in Codes : root' = [root EXCEPT ![a] = c]
     /\ UNCHANGED tree
  \/ /\ root[a] = "live"
     /\ root' = [root EXCEPT ![a] = "nonzero"]
     /\ tree' = tree \ {a}
  \/ root[a] = "live" /\ UNCHANGED <<root, tree>>

\* The call from the polling loop or from its except clause.
Terminate ==
  /\ phase = "terminate"
  /\ TerminateTree(attempt)
  /\ IF raising = None
       THEN phase' = "settle" /\ UNCHANGED <<outcome, exit>>
       ELSE Leave(raising)
  /\ UNCHANGED <<attempt, stop, verdict, raising, results>>

\* Defect: run_target_once does not wait for the root.
SettleAtOnce ==
  /\ phase = "settle"
  /\ phase' = "collect"
  /\ UNCHANGED <<attempt, root, tree, stop, verdict, raising, results, outcome, exit>>

\* proc.wait(grace): a root that is still there is terminated once more.
Settle ==
  /\ phase = "settle"
  /\ phase' = IF Exited THEN "collect" ELSE "again"
  /\ UNCHANGED <<attempt, root, tree, stop, verdict, raising, results, outcome, exit>>

\* The last wait raises when the root survives even that.
TerminateAgain ==
  /\ phase = "again"
  /\ TerminateTree(attempt)
  /\ IF root'[attempt] \in Codes
       THEN phase' = "collect" /\ UNCHANGED <<outcome, exit>>
       ELSE Leave("error")
  /\ UNCHANGED <<attempt, stop, verdict, raising, results>>

Result == [status |-> verdict, code |-> root[attempt]]

\* The attempt is recorded.  Only SUCCESS leaves the loop early; the pause before
\* the next attempt is for RETRYABLE_STATUSES only.
Collect ==
  /\ phase = "collect"
  /\ results' = Append(results, Result)
  /\ IF verdict = "SUCCESS" \/ attempt = Retries + 1
       THEN phase' = "classify" /\ UNCHANGED attempt
       ELSE /\ phase' = IF verdict \in {"FAILED", "TIMEOUT", "STALLED"} THEN "pause" ELSE "launch"
            /\ attempt' = attempt + 1
  /\ UNCHANGED <<root, tree, stop, verdict, raising, outcome, exit>>

Pause ==
  /\ phase = "pause"
  /\ phase' = "launch"
  /\ UNCHANGED <<attempt, root, tree, stop, verdict, raising, results, outcome, exit>>

\* classify_failure, the failure evidence and the advisory calls; then make_state.
Classify ==
  /\ phase = "classify"
  /\ phase' = "seal"
  /\ outcome' = verdict
  /\ UNCHANGED <<attempt, root, tree, stop, verdict, raising, results, exit>>

\* finalize_runner_state succeeded: the run returns its exit status.
Seal ==
  /\ phase = "seal"
  /\ phase' = "ended"
  /\ exit' = IF outcome = "SUCCESS" THEN 0 ELSE 2
  /\ UNCHANGED <<attempt, root, tree, stop, verdict, raising, results, outcome>>

\* An operation raises: the compile step, Popen, starting a thread, a write.  Within the
\* polling loop the handler terminates the tree first.
Fault ==
  /\ \/ /\ phase \in {"poll", "check"}
        /\ phase' = "terminate"
        /\ raising' = "error"
        /\ UNCHANGED <<outcome, exit>>
     \/ /\ phase \in {"start", "preflight", "launch", "launched", "classify", "seal"}
        /\ Leave("error")
        /\ UNCHANGED raising
  /\ UNCHANGED <<attempt, root, tree, stop, verdict, results>>

\* Ctrl-C, which the target does not see.  A second one, while the handler of the
\* first terminates the tree, is not handled any more.
Interrupt ==
  /\ \/ /\ phase \in {"poll", "check"} \/ (phase = "terminate" /\ raising = None)
        /\ phase' = "terminate"
        /\ raising' = "interrupt"
        /\ UNCHANGED <<outcome, exit>>
     \/ /\ phase \notin {"poll", "check", "ended"}
        /\ phase = "terminate" => raising # None
        /\ Leave("interrupt")
        /\ UNCHANGED raising
  /\ UNCHANGED <<attempt, root, tree, stop, verdict, results>>

\* What the runner does by itself.
Supervise ==
  \/ Start \/ Preflight \/ Launch \/ StartReaders \/ Poll \/ Check \/ Terminate \/ Settle
  \/ TerminateAgain \/ Collect \/ Pause \/ Classify \/ Seal

Next == Environment \/ Supervise \/ Fault \/ Interrupt

Spec == Init /\ [][Next]_vars

\* The runner keeps running.  No clock need ever expire and no target need ever exit.
FairSpec == Spec /\ WF_vars(Supervise)

-----------------------------------------------------------------------------
\* The values each variable takes.
TypeOK ==
  /\ phase \in Phases
  /\ attempt \in Attempts \cup {0}
  /\ root \in [Attempts -> Codes \cup {None, "live"}]
  /\ tree \subseteq Attempts
  /\ stop \in BOOLEAN
  /\ verdict \in Statuses \cup {None}
  /\ raising \in {None, "error", "interrupt"}
  /\ results \in Seq([status : Statuses, code : Codes])
  /\ outcome \in Statuses \cup {None, "INTERRUPTED"}
  /\ exit \in {0, 1, 2, 130, NoExit}

\* Two attempts never have a live root at the same time, even when killing fails:
\* run_target_once gives up rather than return with its root alive.
OneRootAtATime ==
  \A a, b \in Attempts : root[a] = "live" /\ root[b] = "live" => a = b

\* A run that reports 0 or 2 has no root process left; only after a failed kill or
\* Ctrl-C may one remain ("130: operator interrupt; verify no child remains").
ExitMeansGone ==
  exit \in {0, 2} => \A a \in Attempts : root[a] # "live"

\* SUCCESS is the verdict on the last attempt, whose root exited with zero by itself,
\* and no attempt before it was SUCCESS: a failed retry never hides behind one.
SuccessIsEarned ==
  outcome = "SUCCESS" =>
    /\ results # <<>>
    /\ results[Len(results)] = [status |-> "SUCCESS", code |-> "zero"]
    /\ \A i \in 1..(Len(results) - 1) : results[i].status # "SUCCESS"

\* The operator's kill switch ends a run whose target never exits and whose clocks
\* never expire.
StopEndsRun == stop ~> phase = "ended"
=============================================================================
