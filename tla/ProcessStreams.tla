----------------------------- MODULE ProcessStreams ----------------------------
(***************************************************************************)
(* How improvement_harness_runtime_v2.py runs another program: the child in  *)
(* its Job Object, two threads that read its output, and the caller, which    *)
(* waits with a time limit, ends the job, joins the readers and decides.      *)
(* run_process runs a "command"; streamed_toolless_codex runs a "role", reads  *)
(* its stdout as one JSON event per line and takes the credential file away   *)
(* with the first event.                                                      *)
(*                                                                           *)
(* The child may do anything: write, exit, leave a descendant that keeps the  *)
(* pipes open, or stop doing anything.  Output is counted in units: a chunk    *)
(* that run_process reads is short (one unit) or long (two), a line of a role   *)
(* is one.  The platform is Windows: ending the job ends the child and its      *)
(* descendants.                                                              *)
(***************************************************************************)
EXTENDS Naturals, Sequences, SequencesExt, FiniteSets

CONSTANTS Kinds,      \* the callers the run looks at
          MaxRows,    \* bound on the rows a child writes to each stream
          PipeSize,   \* rows a pipe holds
          Limit       \* MAX_PROCESS_STREAM_BYTES, MAX_ROLE_STREAM_BYTES

ASSUME StreamsAssumption == /\ Kinds \subseteq {"command", "role"}
                            /\ PipeSize \in Nat \ {0} /\ Limit \in Nat \ {0}
                            /\ MaxRows \in [{"stdout", "stderr"} -> Nat]

VARIABLES
  kind,         \* fixed
  child,        \* "running", "exited" or "killed"
  code,         \* the exit code of an exited child
  descendant,   \* is there one
  written,      \* what the child wrote, per stream
  pipe,         \* what of it nobody has read
  reader,       \* "off", "read", "count", "done", or "dead" of an exception
  row,          \* the row a reader works on
  base,         \* the value of output_bytes when it got the row
  outputBytes,  \* output_bytes
  kept,         \* stdout_rows and stderr_rows
  overflow,
  violated,     \* violations is not empty
  lifecycle,    \* thread, turn and auth_deleted
  auth,         \* is the credential file there
  timedOut,
  caller,       \* "prompt", "wait", "join", "decide" or "end"
  outcome       \* "none", "accepted", "failed" or "timeout"

ends == <<child, code, descendant>>
limits == <<outputBytes, overflow, violated>>
vars == <<kind, ends, written, pipe, reader, row, base, limits, kept, lifecycle, auth,
          timedOut, caller, outcome>>

Streams == {"stdout", "stderr"}
Chunks == {"short", "long"}
\* "call" stands for everything no role may emit, and for a line that is not JSON;
\* "scalar" for a line of JSON that is no object.
Events == {"thread", "turn", "item", "call", "scalar"}
Rows(s) == IF kind = "command" THEN Chunks
           ELSE IF s = "stdout" THEN Events ELSE {"output", "synchronization"}

NoRow == "none"

Init == /\ kind \in Kinds
        /\ child = "running" /\ code = 0 /\ descendant = FALSE
        /\ written = [s \in Streams |-> <<>>]
        /\ pipe = [s \in Streams |-> <<>>]
        /\ reader = [s \in Streams |-> IF kind = "role" THEN "off" ELSE "read"]
        /\ row = [s \in Streams |-> NoRow]
        /\ base = [s \in Streams |-> 0]
        /\ outputBytes = 0 /\ overflow = FALSE /\ violated = FALSE
        /\ kept = [s \in Streams |-> <<>>]
        /\ lifecycle = [thread |-> FALSE, turn |-> FALSE, authDeleted |-> FALSE]
        /\ auth = (kind = "role")
        /\ timedOut = FALSE
        /\ caller = IF kind = "role" THEN "prompt" ELSE "wait"
        /\ outcome = "none"

--------------------------------------------------------------------------------
(* The child *)

Write(s) == /\ child = "running"
            /\ Len(pipe[s]) < PipeSize /\ Len(written[s]) < MaxRows[s]
            /\ \E r \in Rows(s) : /\ written' = [written EXCEPT ![s] = Append(@, r)]
                                  /\ pipe' = [pipe EXCEPT ![s] = Append(@, r)]
            /\ UNCHANGED <<kind, ends, reader, row, base, limits, kept, lifecycle, auth, timedOut,
                           caller, outcome>>

ChildExits == /\ child = "running"
              /\ child' = "exited" /\ code' \in {0, 1} /\ descendant' \in BOOLEAN
              /\ UNCHANGED <<kind, written, pipe, reader, row, base, limits, kept, lifecycle, auth,
                             timedOut, caller, outcome>>

Ended == child # "running"
PipesClosed == Ended /\ ~descendant

\* _terminate_process_tree and job.terminate_and_close
Terminate == /\ child' = IF child = "running" THEN "killed" ELSE child
             /\ descendant' = FALSE
             /\ UNCHANGED code

--------------------------------------------------------------------------------
(* The readers *)

\* A row is taken from the pipe.
Read(s) == /\ reader[s] = "read" /\ pipe[s] # <<>>
           /\ row' = [row EXCEPT ![s] = pipe[s][1]]
           /\ pipe' = [pipe EXCEPT ![s] = Tail(@)]
           /\ base' = [base EXCEPT ![s] = outputBytes]
           /\ reader' = [reader EXCEPT ![s] = "count"]
           /\ UNCHANGED <<kind, ends, written, limits, kept, lifecycle, auth, timedOut, caller, outcome>>

AtEnd(s) == /\ reader[s] = "read" /\ pipe[s] = <<>> /\ PipesClosed
            /\ reader' = [reader EXCEPT ![s] = "done"]
            /\ UNCHANGED <<kind, ends, written, pipe, row, base, limits, kept, lifecycle, auth,
                           timedOut, caller, outcome>>

\* Defect: no lock around the counter of run_process.
BytesReadUnlocked(s) == base[s]

\* What a reader adds to.  run_process counts under output_lock.  The stderr reader of a
\* role evaluates output_bytes += len(...): it takes the value before it encodes the
\* line; the stdout reader encodes first.
BytesRead(s) == IF kind = "role" /\ s = "stderr" THEN base[s] ELSE outputBytes

Size(r) == IF r = "long" THEN 2 ELSE 1
Total(s) == BytesRead(s) + Size(row[s])
Keep(s) == kept' = [kept EXCEPT ![s] = Append(@, row[s])]
Goes(s, state) == /\ reader' = [reader EXCEPT ![s] = state]
                  /\ base' = [base EXCEPT ![s] = 0]
                  /\ row' = [row EXCEPT ![s] = NoRow]

\* The reader that meets the limit ends the job and stops.  run_process keeps what of
\* the chunk still fits, one unit of a long chunk, but does not count it.
Rest == IF kind = "command" /\ Limit > outputBytes THEN <<"short">> ELSE <<>>

TooMuch(s) == /\ reader[s] = "count" /\ Total(s) > Limit
              /\ outputBytes' = IF kind = "command" THEN outputBytes ELSE Total(s)
              /\ overflow' = (overflow \/ kind = "command")
              /\ violated' = (violated \/ kind = "role")
              /\ kept' = [kept EXCEPT ![s] = @ \o Rest]
              /\ Terminate
              /\ Goes(s, "done")
              /\ UNCHANGED <<kind, written, pipe, lifecycle, auth, timedOut, caller, outcome>>

Plain(s) == kind = "command" \/ s = "stderr"

Count(s) == /\ reader[s] = "count" /\ Total(s) <= Limit /\ Plain(s)
            /\ outputBytes' = Total(s)
            /\ violated' = (violated \/ row[s] = "synchronization")
            /\ Keep(s)
            /\ Goes(s, "read")
            /\ UNCHANGED <<kind, ends, written, pipe, overflow, lifecycle, auth, timedOut,
                           caller, outcome>>

\* Defect: the order of the events is not looked at.
OutOfOrderAnyOrder(event) == event = "thread" /\ lifecycle.thread

\* Duplicates, and a turn before the credential file is gone.
OutOfOrder(event) == \/ event = "thread" /\ lifecycle.thread
                     \/ event = "turn" /\ lifecycle.turn
                     \/ event = "turn" /\ (~lifecycle.thread \/ ~lifecycle.authDeleted \/ auth)

\* stdout_reader of a role.  Removing the file may fail.
Examine == /\ reader["stdout"] = "count" /\ Total("stdout") <= Limit /\ ~Plain("stdout")
           /\ LET event == row["stdout"]
              IN /\ event # "scalar"
                 /\ outputBytes' = Total("stdout")
                 /\ auth' \in IF event = "thread" THEN {auth, FALSE} ELSE {auth}
                 /\ lifecycle' = [thread |-> lifecycle.thread \/ event = "thread",
                                  turn |-> lifecycle.turn \/ event = "turn",
                                  authDeleted |-> IF event = "thread" THEN ~auth' ELSE lifecycle.authDeleted]
                 /\ violated' = \/ violated \/ event = "call" \/ OutOfOrder(event)
                                \/ event = "thread" /\ (auth' \/ ~auth)
           /\ Keep("stdout")
           /\ Goes("stdout", "read")
           /\ UNCHANGED <<kind, ends, written, pipe, overflow, timedOut, caller, outcome>>

\* record.get of something that is no object raises: the thread ends, nobody is told.
ReaderDies == /\ reader["stdout"] = "count" /\ Total("stdout") <= Limit /\ ~Plain("stdout")
              /\ row["stdout"] = "scalar"
              /\ outputBytes' = Total("stdout")
              /\ Goes("stdout", "dead")
              /\ UNCHANGED <<kind, ends, written, pipe, overflow, violated, kept, lifecycle,
                             auth, timedOut, caller, outcome>>

Reader(s) == Read(s) \/ AtEnd(s) \/ TooMuch(s) \/ Count(s)
             \/ (s = "stdout" /\ (Examine \/ ReaderDies))

--------------------------------------------------------------------------------
(* The caller *)

\* The prompt goes to the child before the readers start and the time limit runs.
SendPrompt ==
  /\ caller = "prompt" /\ child = "running"
  /\ caller' = "wait"
  /\ reader' = [s \in Streams |-> "read"]
  /\ UNCHANGED <<kind, ends, written, pipe, row, base, limits, kept, lifecycle, auth, timedOut, outcome>>

\* safe_remove_tree takes the directory with the credential file away.
Return(result) == /\ caller' = "end"
                  /\ outcome' = result
                  /\ auth' = FALSE
                  /\ UNCHANGED <<kind, written, pipe, reader, row, base, limits, kept, lifecycle, timedOut>>

\* The write raises when the child is gone.  Nothing ends the job then.
PromptFails == /\ caller = "prompt" /\ Ended
               /\ Return("failed")
               /\ UNCHANGED ends

\* Defect: only a time-out ends the job.
EndJobOnTimeout(expired) == IF expired THEN Terminate ELSE UNCHANGED ends

EndJob(expired) == Terminate

\* Defect: process.wait without a limit.
WaitUnlimited(expired) == ~expired /\ Ended

\* process.wait returns, or raises TimeoutExpired, perhaps just when the child ends.
WaitOver(expired) == expired \/ Ended

Wait == /\ caller = "wait"
        /\ \E expired \in BOOLEAN : WaitOver(expired) /\ timedOut' = expired /\ EndJob(expired)
        /\ caller' = "join"
        /\ UNCHANGED <<kind, written, pipe, reader, row, base, limits, kept, lifecycle, auth, outcome>>

Finished == \A s \in Streams : reader[s] \in {"done", "dead"}

Join == /\ caller = "join" /\ Finished
        /\ caller' = "decide"
        /\ UNCHANGED <<kind, ends, written, pipe, reader, row, base, limits, kept, lifecycle, auth,
                       timedOut, outcome>>

\* reader.join gives up.
JoinExpires == /\ caller = "join" /\ ~Finished
               /\ Return("failed")
               /\ IF kind = "command" THEN Terminate ELSE UNCHANGED ends

\* Violations the caller adds: the file is there, or an event is missing.
Incomplete == auth \/ ~lifecycle.thread \/ ~lifecycle.turn \/ ~lifecycle.authDeleted

Refused == overflow \/ (kind = "role" /\ (violated \/ Incomplete))

\* What becomes of a result.  A command's exit code is for the caller to judge; a role
\* must end with 0, and its final message may be missing, too large, no object or hold a
\* secret.
Answers == IF kind = "command" THEN {"accepted"}
           ELSE IF code = 0 THEN {"accepted", "failed"} ELSE {"failed"}

Decide == /\ caller = "decide"
          /\ \E result \in IF timedOut THEN {"timeout"} ELSE IF Refused THEN {"failed"} ELSE Answers :
               Return(result)
          /\ UNCHANGED ends

Caller == SendPrompt \/ PromptFails \/ Wait \/ Join \/ JoinExpires \/ Decide

Next == Caller \/ ChildExits \/ \E s \in Streams : Write(s) \/ Reader(s)

\* The caller and its threads are scheduled.  The child owes nothing but to take its
\* prompt or end: until then the caller waits without a limit.
Fairness == WF_vars(Caller) /\ \A s \in Streams : WF_vars(Reader(s))

Spec == Init /\ [][Next]_vars /\ Fairness

--------------------------------------------------------------------------------
(* Properties *)

TypeOK ==
  /\ kind \in Kinds
  /\ child \in {"running", "exited", "killed"} /\ code \in {0, 1} /\ descendant \in BOOLEAN
  /\ \A s \in Streams : /\ Len(written[s]) <= MaxRows[s] /\ Len(pipe[s]) <= PipeSize
                         /\ reader[s] \in {"off", "read", "count", "done", "dead"}
  /\ outputBytes <= Limit + 2
  /\ (caller = "end") = (outcome # "none")

\* Events that a role may emit, in their order: the thread once and before the turn.
Lawful(events) ==
  /\ \A i \in DOMAIN events : events[i] \in {"thread", "turn", "item"}
  /\ \A e \in {"thread", "turn"} : Cardinality({i \in DOMAIN events : events[i] = e}) = 1
  /\ \A i, j \in DOMAIN events : events[i] = "thread" /\ events[j] = "turn" => i < j

\* What a result holds, in units.
Longs(s) == Cardinality({i \in DOMAIN kept[s] : Size(kept[s][i]) = 2})
UnitsOf(s) == Len(kept[s]) + Longs(s)
Units == UnitsOf("stdout") + UnitsOf("stderr")
Bounded == outcome = "accepted" => Units <= Limit

\* An accepted result is what the child said, all of it: nothing was cut off by a limit,
\* by the end of the job or by a reader that was not done, however the threads ran; what
\* run_process accepts is within the limit that both readers share; and every event of a
\* role was read and is lawful.  Only a reader that an exception ended leaves events
\* unread.
AcceptedIsExamined ==
  outcome = "accepted" /\ reader["stdout"] # "dead" =>
    /\ kept = written
    /\ child = "exited" /\ ~timedOut
    /\ kind = "command" => Bounded
    /\ kind = "role" => Lawful(written["stdout"]) /\ "synchronization" \notin ToSet(written["stderr"])

\* MAX_ROLE_STREAM_BYTES bounds the "combined output" of a role
\* (improvement_harness_runtime_v2.py:824): no more than that is accepted.
RoleIsBounded == kind = "role" => Bounded

\* When the caller has its result, the child and its descendants are gone, but for a
\* child that ended before it took the prompt.  (The types of the state go with it.)
NothingIsLeft == TypeOK /\ (outcome # "none" /\ reader["stdout"] # "off" => Ended /\ ~descendant)

\* The caller gets its result, whatever a child does that took its prompt.
CallerReturns == <>(outcome # "none")
================================================================================
