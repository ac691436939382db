-------------------------- MODULE ProcessStreamsProofs --------------------------
(***************************************************************************)
(* Proofs about ProcessStreams, for every size of the pipes, every limit and  *)
(* every number of rows.  The inductive invariant: Typed (types), Staged       *)
(* (where caller, readers and child are), Whole (what was written is what was  *)
(* kept, the row in hand and what is left in the pipe), Counted (what the      *)
(* counter says of what was kept), Judged (what a reader without a violation   *)
(* has seen).                                                                *)
(***************************************************************************)
EXTENDS ProcessStreams, TLAPS, SequenceTheorems, FiniteSetTheorems

AllRows == Chunks \cup Events \cup {"output", "synchronization"}

Typed ==
  /\ kind \in {"command", "role"} /\ kind \in Kinds
  /\ child \in {"running", "exited", "killed"} /\ code \in {0, 1} /\ descendant \in BOOLEAN
  /\ written \in [Streams -> Seq(AllRows)] /\ pipe \in [Streams -> Seq(AllRows)]
  /\ kept \in [Streams -> Seq(AllRows)]
  /\ reader \in [Streams -> {"off", "read", "count", "done", "dead"}]
  /\ row \in [Streams -> AllRows \cup {NoRow}] /\ base \in [Streams -> Nat]
  /\ outputBytes \in Nat /\ overflow \in BOOLEAN /\ violated \in BOOLEAN
  /\ lifecycle \in [thread : BOOLEAN, turn : BOOLEAN, authDeleted : BOOLEAN]
  /\ auth \in BOOLEAN /\ timedOut \in BOOLEAN
  /\ caller \in {"prompt", "wait", "join", "decide", "end"}
  /\ outcome \in {"none", "accepted", "failed", "timeout"}
  /\ caller = "end" <=> outcome # "none"
  /\ \A s \in Streams : Len(written[s]) <= MaxRows[s] /\ Len(pipe[s]) <= PipeSize

\* Only rows that the child may write are on their way.
Fitting ==
  \A s \in Streams : pipe[s] \in Seq(Rows(s)) /\ (reader[s] = "count" => row[s] \in Rows(s))

\* What makes the caller refuse the output, whatever the role still owes.
Marked == IF kind = "command" THEN overflow ELSE violated

\* The caller has looked: the job is over, and after the join the readers are.
Staged ==
  /\ (reader["stdout"] = "off" <=> reader["stderr"] = "off") /\ reader["stderr"] # "dead"
  /\ caller = "prompt" => reader["stdout"] = "off"
  /\ reader["stdout"] = "off" => caller = "prompt" \/ outcome = "failed"
  /\ caller \in {"join", "decide", "end"} => reader["stdout"] = "off" \/ (Ended /\ ~descendant)
  /\ caller = "decide" \/ outcome = "accepted" => Finished
  /\ caller \in {"prompt", "wait"} => ~timedOut
  /\ child = "killed" => Marked \/ timedOut \/ outcome = "failed"
  /\ outcome = "accepted" => ~timedOut /\ ~Refused

\* Nothing is lost between the child and the caller, but by a reader that stops early.
Whole ==
  \A s \in Streams :
    /\ reader[s] \in {"off", "read"} => written[s] = kept[s] \o pipe[s]
    /\ reader[s] = "count" => written[s] = Append(kept[s], row[s]) \o pipe[s]
    /\ reader[s] = "done" => Marked \/ (Ended /\ written[s] = kept[s])

\* How many readers have stopped.
Stopped(s) == IF reader[s] = "done" THEN 1 ELSE 0

\* The counter of a command is what it kept, and within the limit.  That of a role may be
\* less than that; each reader passes the limit once.
Counted ==
  /\ kind = "command" => outputBytes <= Limit /\ (overflow \/ Units = outputBytes)
  /\ kind = "role" =>
       /\ outputBytes <= Limit + Stopped("stdout") + Stopped("stderr")
       /\ base["stderr"] <= Limit + Stopped("stdout")

\* The places of an event in what was kept.
At(event) == {i \in DOMAIN kept["stdout"] : kept["stdout"][i] = event}

\* Without a violation, a role's events are lawful so far.
Judged ==
  kind = "role" /\ ~violated =>
    /\ \A i \in DOMAIN kept["stdout"] : kept["stdout"][i] \in {"thread", "turn", "item"}
    /\ (lifecycle.thread <=> At("thread") # {}) /\ (lifecycle.turn <=> At("turn") # {})
    /\ \A i, j \in At("thread") : i = j
    /\ \A i, j \in At("turn") : i = j
    /\ \A i \in At("thread"), j \in At("turn") : i < j
    /\ lifecycle.turn => lifecycle.thread
    /\ \A i \in DOMAIN kept["stderr"] : kept["stderr"][i] # "synchronization"

IInv == Typed /\ Fitting /\ Staged /\ Whole /\ Counted /\ Judged

-------------------------------------------------------------------------------
(* Sequences.                                                                  *)

\* Taking the first row of a pipe leaves the rows in their order.
LEMMA TakeOne ==
  ASSUME NEW S, NEW a \in Seq(S), NEW b \in Seq(S), b # <<>>
  PROVE  b[1] \in S /\ Tail(b) \in Seq(S) /\ Len(Tail(b)) = Len(b) - 1 /\ a \o b = Append(a, b[1]) \o Tail(b)
<1>1. /\ b[1] \in S /\ Tail(b) \in Seq(S) /\ Len(Tail(b)) = Len(b) - 1
  BY HeadTailProperties
<1>2. b = <<b[1]>> \o Tail(b)
  <2>1. Len(b) \in Nat \ {0} /\ 1 \in 1 .. Len(b) /\ Len(b) \in 1 .. Len(b)
    BY EmptySeq
  <2>2. SubSeq(b, 1, Len(b)) = <<b[1]>> \o SubSeq(b, 1 + 1, Len(b))
    BY <2>1, SubSeqRecursiveFirst
  <2> QED
    BY <2>2, SubSeqFull, TailIsSubSeq
<1>3. Append(a, b[1]) = a \o <<b[1]>> /\ <<b[1]>> \in Seq(S)
  BY <1>1, AppendIsConcat
<1>4. (a \o <<b[1]>>) \o Tail(b) = a \o (<<b[1]>> \o Tail(b))
  BY <1>1, <1>3, ConcatAssociative
<1> QED
  BY <1>1, <1>2, <1>3, <1>4

\* A row that is written at the end of a pipe is the last of all.
LEMMA PutOne ==
  \A a, b \in Seq(AllRows), r \in AllRows : Append(a \o b, r) = a \o Append(b, r)
<1> SUFFICES ASSUME NEW a \in Seq(AllRows), NEW b \in Seq(AllRows), NEW r \in AllRows
             PROVE  Append(a \o b, r) = a \o Append(b, r)
  OBVIOUS
<1>1. a \o b \in Seq(AllRows) /\ <<r>> \in Seq(AllRows)
  BY ConcatProperties
<1>2. Append(a \o b, r) = (a \o b) \o <<r>> /\ Append(b, r) = b \o <<r>>
  BY <1>1, AppendIsConcat
<1> QED
  BY <1>1, <1>2, ConcatAssociative

-------------------------------------------------------------------------------
(* Types.                                                                      *)

\* A step is one of the child, of a reader or of the caller.
LEMMA NextSplits ==
  ASSUME [Next]_vars
  PROVE  \/ \E s \in Streams : Write(s) \/ Read(s) \/ AtEnd(s) \/ TooMuch(s) \/ Count(s)
         \/ Examine \/ ReaderDies
         \/ ChildExits \/ SendPrompt \/ PromptFails \/ Wait \/ Join \/ JoinExpires \/ Decide
         \/ UNCHANGED vars
BY DEF Next, Reader, Caller

\* Every row is one of the vocabulary.
LEMMA RowsTyped ==
  ASSUME NEW s \in Streams
  PROVE  Rows(s) \subseteq AllRows /\ NoRow \notin AllRows
BY DEF Rows, AllRows, Chunks, Events, NoRow, Streams

\* Types hold at the start.
LEMMA InitTyped == Init => Typed
<1> SUFFICES ASSUME Init PROVE Typed
  OBVIOUS
<1>1. <<>> \in Seq(AllRows) /\ Len(<<>>) = 0
  BY EmptySeq
<1>2. \A s \in Streams : 0 <= MaxRows[s] /\ 0 <= PipeSize
  BY StreamsAssumption DEF Streams
<1> QED
  BY <1>1, <1>2, StreamsAssumption DEF Init, Typed

\* Ending the job ends the child and its descendants.
LEMMA TerminateTyped ==
  ASSUME Typed, Terminate
  PROVE  /\ child' \in {"exited", "killed"} /\ descendant' \in BOOLEAN /\ ~descendant' /\ code' = code
         /\ child' = IF child = "running" THEN "killed" ELSE child
<1>1. descendant' \in BOOLEAN /\ ~descendant'
  BY Zenon DEF Terminate
<1>2. child' = (IF child = "running" THEN "killed" ELSE child) /\ code' = code
  BY DEF Terminate
<1> QED
  BY <1>1, <1>2 DEF Typed

\* The caller has its result.
LEMMA ReturnTyped ==
  ASSUME NEW result, Return(result)
  PROVE  /\ auth' \in BOOLEAN /\ ~auth' /\ caller' = "end" /\ outcome' = result
         /\ UNCHANGED <<kind, written, pipe, reader, row, base, outputBytes, overflow, violated, kept,
                        lifecycle, timedOut>>
<1>1. auth' \in BOOLEAN /\ ~auth'
  BY Zenon DEF Return
<1> QED
  BY <1>1 DEF Return, limits

\* The child and the caller keep the types.
LEMMA OthersTyped ==
  ASSUME Typed, ChildExits \/ SendPrompt \/ PromptFails \/ Wait \/ Join \/ JoinExpires \/ Decide
  PROVE  Typed'
<1>1. CASE ChildExits
  BY <1>1 DEF ChildExits, Typed, limits
<1>2. CASE SendPrompt
  BY <1>2 DEF SendPrompt, Typed, limits, ends
<1>3. CASE PromptFails
  BY <1>3, ReturnTyped DEF PromptFails, Typed, ends
<1>4. CASE Wait
  <2>1. PICK expired \in BOOLEAN : timedOut' = expired
    BY <1>4 DEF Wait
  <2>2. timedOut' \in BOOLEAN
    BY <2>1, Zenon
  <2> QED
    BY <1>4, <2>2, TerminateTyped DEF Wait, EndJob, Typed, limits
<1>5. CASE Join
  BY <1>5 DEF Join, Typed, limits, ends
<1>6. CASE JoinExpires
  BY <1>6, ReturnTyped, TerminateTyped DEF JoinExpires, Typed, ends
<1>7. CASE Decide
  <2>1. PICK result \in {"accepted", "failed", "timeout"} : Return(result)
    BY <1>7 DEF Decide, Answers
  <2> QED
    BY <1>7, <2>1, ReturnTyped DEF Decide, Typed, ends
<1> QED
  BY <1>1, <1>2, <1>3, <1>4, <1>5, <1>6, <1>7

\* The child writes a row that fits.
LEMMA WriteTyped ==
  ASSUME Typed, NEW s \in Streams, Write(s)
  PROVE  /\ Typed'
         /\ \E r \in Rows(s) : /\ written'[s] = Append(written[s], r) /\ pipe'[s] = Append(pipe[s], r)
                              /\ \A x \in Streams \ {s} : written'[x] = written[x] /\ pipe'[x] = pipe[x]
<1>1. PICK r \in Rows(s) : /\ written' = [written EXCEPT ![s] = Append(written[s], r)]
                           /\ pipe' = [pipe EXCEPT ![s] = Append(pipe[s], r)]
  BY DEF Write
<1>2. r \in AllRows /\ written[s] \in Seq(AllRows) /\ pipe[s] \in Seq(AllRows)
  BY RowsTyped DEF Typed
<1>3. PICK w \in Seq(AllRows), q \in Seq(AllRows) : w = Append(written[s], r) /\ q = Append(pipe[s], r)
  BY <1>2, AppendProperties
<1>4. Len(w) = Len(written[s]) + 1 /\ Len(q) = Len(pipe[s]) + 1
  BY <1>2, <1>3, AppendProperties
<1>5. /\ written'[s] = w /\ pipe'[s] = q
      /\ \A x \in Streams \ {s} : written'[x] = written[x] /\ pipe'[x] = pipe[x]
      /\ written' \in [Streams -> Seq(AllRows)] /\ pipe' \in [Streams -> Seq(AllRows)]
  BY <1>1, <1>2, <1>3 DEF Typed
<1>6. Len(written[s]) < MaxRows[s] /\ Len(pipe[s]) < PipeSize /\ Len(written[s]) \in Nat /\ Len(pipe[s]) \in Nat
  BY <1>2, LenProperties DEF Write
<1>7. MaxRows[s] \in Nat /\ PipeSize \in Nat
  BY StreamsAssumption DEF Streams
<1>8. \A x \in Streams : Len(written'[x]) <= MaxRows[x] /\ Len(pipe'[x]) <= PipeSize
  <2>1. Len(w) <= MaxRows[s] /\ Len(q) <= PipeSize
    BY <1>4, <1>6, <1>7
  <2> QED
    BY <1>5, <2>1 DEF Typed
<1>9. Typed'
  BY <1>5, <1>8 DEF Write, Typed, ends, limits
<1> QED
  BY <1>1, <1>3, <1>5, <1>9

\* A reader takes the first row of its pipe.
LEMMA ReadTyped ==
  ASSUME Typed, NEW s \in Streams, Read(s)
  PROVE  /\ Typed'
         /\ reader'[s] = "count" /\ row'[s] = pipe[s][1] /\ pipe'[s] = Tail(pipe[s]) /\ base'[s] = outputBytes
         /\ \A x \in Streams \ {s} : /\ reader'[x] = reader[x] /\ row'[x] = row[x]
                                     /\ pipe'[x] = pipe[x] /\ base'[x] = base[x]
<1>1. pipe[s] \in Seq(AllRows) /\ pipe[s] # <<>>
  BY DEF Typed, Read
<1>2. PICK r \in AllRows, t \in Seq(AllRows) : r = pipe[s][1] /\ t = Tail(pipe[s]) /\ Len(t) = Len(pipe[s]) - 1
  BY <1>1, TakeOne
<1>3. Len(pipe[s]) \in Nat /\ PipeSize \in Nat /\ Len(pipe[s]) <= PipeSize
  BY <1>1, LenProperties, StreamsAssumption DEF Typed
<1>4. Len(t) <= PipeSize
  BY <1>2, <1>3
<1>5. /\ reader' = [reader EXCEPT ![s] = "count"] /\ row' = [row EXCEPT ![s] = r]
      /\ pipe' = [pipe EXCEPT ![s] = t] /\ base' = [base EXCEPT ![s] = outputBytes]
  BY <1>2 DEF Read
<1>6. /\ reader'[s] = "count" /\ row'[s] = r /\ pipe'[s] = t /\ base'[s] = outputBytes
      /\ \A x \in Streams \ {s} : /\ reader'[x] = reader[x] /\ row'[x] = row[x]
                                  /\ pipe'[x] = pipe[x] /\ base'[x] = base[x]
      /\ reader' \in [Streams -> {"off", "read", "count", "done", "dead"}]
      /\ row' \in [Streams -> AllRows \cup {NoRow}] /\ pipe' \in [Streams -> Seq(AllRows)]
      /\ base' \in [Streams -> Nat]
  BY <1>5 DEF Typed
<1>7. \A x \in Streams : Len(pipe'[x]) <= PipeSize
  BY <1>4, <1>6 DEF Typed
<1>8. Typed'
  BY <1>6, <1>7 DEF Read, Typed, ends, limits
<1> QED
  BY <1>2, <1>6, <1>8

\* A reader lets go of its row.
LEMMA GoesTyped ==
  ASSUME Typed, NEW s \in Streams, NEW state \in {"read", "done", "dead"}, Goes(s, state)
  PROVE  /\ reader' \in [Streams -> {"off", "read", "count", "done", "dead"}]
         /\ row' \in [Streams -> AllRows \cup {NoRow}] /\ base' \in [Streams -> Nat]
         /\ reader'[s] = state /\ base'[s] = 0
         /\ \A x \in Streams \ {s} : reader'[x] = reader[x] /\ row'[x] = row[x] /\ base'[x] = base[x]
BY DEF Goes, Typed

\* What a reader counts, and what it keeps.
LEMMA CountTyped ==
  ASSUME Typed, NEW s \in Streams, reader[s] = "count", row[s] \in Rows(s)
  PROVE  /\ Total(s) \in Nat /\ Total(s) = BytesRead(s) + Size(row[s]) /\ Size(row[s]) \in {1, 2}
         /\ BytesRead(s) \in Nat /\ row[s] \in AllRows
         /\ Append(kept[s], row[s]) \in Seq(AllRows)
<1>1. BytesRead(s) \in Nat
  BY DEF Typed, BytesRead
<1>2. Size(row[s]) \in {1, 2}
  BY DEF Size
<1>3. row[s] \in AllRows /\ kept[s] \in Seq(AllRows)
  BY RowsTyped DEF Typed
<1> QED
  BY <1>1, <1>2, <1>3, AppendProperties DEF Total

\* The readers keep the types.
LEMMA ReaderTyped ==
  ASSUME Typed, Fitting, NEW s \in Streams,
         AtEnd(s) \/ TooMuch(s) \/ Count(s) \/ (s = "stdout" /\ (Examine \/ ReaderDies))
  PROVE  Typed'
<1>1. CASE AtEnd(s)
  BY <1>1 DEF AtEnd, Typed, ends, limits
<1>2. CASE ~AtEnd(s)
  <2>1. reader[s] = "count"
    BY <1>2 DEF TooMuch, Count, Examine, ReaderDies
  <2>2. Total(s) \in Nat /\ row[s] \in AllRows /\ Append(kept[s], row[s]) \in Seq(AllRows)
    BY <2>1, CountTyped DEF Fitting
  <2>3. PICK state \in {"read", "done", "dead"} : Goes(s, state)
    BY <1>2 DEF TooMuch, Count, Examine, ReaderDies
  <2>4. /\ reader' \in [Streams -> {"off", "read", "count", "done", "dead"}]
        /\ row' \in [Streams -> AllRows \cup {NoRow}] /\ base' \in [Streams -> Nat]
    BY <2>3, GoesTyped
  <2>5. \A k \in Seq(AllRows) : [kept EXCEPT ![s] = k] \in [Streams -> Seq(AllRows)]
    BY DEF Typed
  <2>6. CASE TooMuch(s)
    <3>1. Rest \in Seq(AllRows) /\ kept[s] \in Seq(AllRows)
      <4>1. <<>> \in Seq(AllRows) /\ <<"short">> \in Seq(AllRows)
        BY EmptySeq DEF AllRows, Chunks
      <4> QED
        BY <4>1 DEF Rest, Typed
    <3>2. kept[s] \o Rest \in Seq(AllRows)
      BY <3>1, ConcatProperties
    <3>3. kept' \in [Streams -> Seq(AllRows)]
      BY <2>5, <2>6, <3>2 DEF TooMuch
    <3>4. outputBytes' \in Nat
      BY <2>2, <2>6 DEF TooMuch, Typed
    <3>5. overflow' \in BOOLEAN /\ violated' \in BOOLEAN
      BY <2>6, Zenon DEF TooMuch
    <3>6. child' \in {"exited", "killed"} /\ code' = code /\ descendant' \in BOOLEAN
      BY <2>6, TerminateTyped DEF TooMuch
    <3>7. UNCHANGED <<kind, written, pipe, lifecycle, auth, timedOut, caller, outcome>>
      BY <2>6 DEF TooMuch
    <3> QED
      BY <2>4, <3>3, <3>4, <3>5, <3>6, <3>7 DEF Typed
  <2>7. CASE Count(s)
    <3>1. kept' \in [Streams -> Seq(AllRows)]
      BY <2>2, <2>5, <2>7 DEF Count, Keep
    <3> QED
      BY <2>2, <2>4, <2>7, <3>1 DEF Count, Typed, ends
  <2>8. CASE s = "stdout" /\ Examine
    <3>1. kept' \in [Streams -> Seq(AllRows)]
      BY <2>2, <2>5, <2>8 DEF Examine, Keep
    <3>2. /\ auth' \in BOOLEAN /\ lifecycle' \in [thread : BOOLEAN, turn : BOOLEAN, authDeleted : BOOLEAN]
          /\ violated' \in BOOLEAN
      BY <2>8 DEF Examine, Typed
    <3> QED
      BY <2>2, <2>4, <2>8, <3>1, <3>2 DEF Examine, Typed, ends
  <2>9. CASE s = "stdout" /\ ReaderDies
    BY <2>2, <2>4, <2>9 DEF ReaderDies, Typed, ends
  <2> QED
    BY <1>2, <2>6, <2>7, <2>8, <2>9
<1> QED
  BY <1>1, <1>2

\* Types are inductive.
LEMMA NextTyped == Typed /\ Fitting /\ [Next]_vars => Typed'
<1> SUFFICES ASSUME Typed, Fitting, [Next]_vars PROVE Typed'
  OBVIOUS
<1>1. CASE Examine \/ ReaderDies
  BY <1>1, ReaderTyped DEF Streams
<1>2. CASE UNCHANGED vars
  BY <1>2 DEF vars, ends, limits, Typed
<1> QED
  BY <1>1, <1>2, NextSplits, OthersTyped, WriteTyped, ReadTyped, ReaderTyped

-------------------------------------------------------------------------------
(* What the readers do, stream by stream.                                      *)

\* The reader that meets the limit stops, and marks the output.
LEMMA Stops ==
  ASSUME Typed, Fitting, NEW s \in Streams, TooMuch(s)
  PROVE  /\ reader[s] = "count" /\ reader'[s] = "done" /\ base'[s] = 0
         /\ \A x \in Streams \ {s} : reader'[x] = reader[x] /\ row'[x] = row[x] /\ base'[x] = base[x]
         /\ kept' = [kept EXCEPT ![s] = kept[s] \o Rest]
         /\ Marked' /\ child' # "running" /\ ~descendant'
         /\ outputBytes' = IF kind = "command" THEN outputBytes ELSE Total(s)
         /\ kind = "role" => violated' /\ Rest = <<>>
         /\ kind = "command" => overflow'
         /\ UNCHANGED <<kind, written, pipe, lifecycle, auth, timedOut, caller, outcome>>
<1>1. Terminate /\ Goes(s, "done")
  BY DEF TooMuch
<1>2. kind \in {"command", "role"}
  BY DEF Typed
<1>3. overflow' = (overflow \/ kind = "command") /\ violated' = (violated \/ kind = "role") /\ kind' = kind
  BY DEF TooMuch
<1>4. (kind = "role" => violated') /\ (kind = "command" => overflow')
  BY <1>3
<1>5. Marked'
  BY <1>2, <1>3, <1>4 DEF Marked
<1>6. kind = "role" => Rest = <<>>
  BY DEF Rest
<1> QED
  BY <1>1, <1>4, <1>5, <1>6, GoesTyped, TerminateTyped DEF TooMuch

\* A row that is within the limit is kept.
LEMMA Keeps ==
  ASSUME Typed, Fitting, NEW s \in Streams, Count(s) \/ (s = "stdout" /\ Examine)
  PROVE  /\ reader[s] = "count" /\ reader'[s] = "read" /\ base'[s] = 0
         /\ \A x \in Streams \ {s} : reader'[x] = reader[x] /\ row'[x] = row[x] /\ base'[x] = base[x]
         /\ kept'[s] = Append(kept[s], row[s]) /\ \A x \in Streams \ {s} : kept'[x] = kept[x]
         /\ outputBytes' = Total(s) /\ Total(s) <= Limit
         /\ violated => violated'
         /\ UNCHANGED <<kind, child, code, descendant, written, pipe, overflow, timedOut, caller, outcome>>
<1>1. Goes(s, "read") /\ kept' = [kept EXCEPT ![s] = Append(kept[s], row[s])]
  BY DEF Count, Examine, Keep
<1>2. kept'[s] = Append(kept[s], row[s]) /\ \A x \in Streams \ {s} : kept'[x] = kept[x]
  BY <1>1 DEF Typed
<1>3. violated => violated'
  BY DEF Count, Examine
<1> QED
  BY <1>1, <1>2, <1>3, GoesTyped DEF Count, Examine, ends

\* A reader that dies loses its row.
LEMMA Dies ==
  ASSUME Typed, ReaderDies
  PROVE  /\ reader["stdout"] = "count" /\ reader'["stdout"] = "dead" /\ reader'["stderr"] = reader["stderr"]
         /\ row'["stderr"] = row["stderr"] /\ base'["stderr"] = base["stderr"]
         /\ outputBytes' = Total("stdout") /\ Total("stdout") <= Limit /\ kind = "role"
         /\ UNCHANGED <<kind, child, code, descendant, written, pipe, overflow, violated, kept, lifecycle,
                        auth, timedOut, caller, outcome>>
<1>1. Goes("stdout", "dead")
  BY DEF ReaderDies
<1> QED
  BY <1>1, GoesTyped DEF ReaderDies, ends, Streams, Plain, Typed

\* Rows fit at every step.
LEMMA NextFitting == Typed /\ Fitting /\ [Next]_vars => Fitting'
<1> SUFFICES ASSUME Typed, Fitting, [Next]_vars PROVE Fitting'
  OBVIOUS
<1>1. \A s : UNCHANGED kind => Rows(s)' = Rows(s)
  BY DEF Rows
<1>2. ASSUME NEW s \in Streams, Write(s)
      PROVE  Fitting'
  <2>1. PICK r \in Rows(s) : /\ pipe'[s] = Append(pipe[s], r)
                             /\ \A x \in Streams \ {s} : pipe'[x] = pipe[x]
    BY <1>2, WriteTyped
  <2>2. Append(pipe[s], r) \in Seq(Rows(s))
    BY AppendProperties DEF Fitting
  <2>3. UNCHANGED <<kind, reader, row>>
    BY <1>2 DEF Write
  <2> QED
    BY <1>1, <2>1, <2>2, <2>3 DEF Fitting
<1>3. ASSUME NEW s \in Streams, Read(s)
      PROVE  Fitting'
  <2>1. pipe[s] \in Seq(Rows(s)) /\ pipe[s] # <<>> /\ UNCHANGED kind
    BY <1>3 DEF Fitting, Read
  <2>2. pipe[s][1] \in Rows(s) /\ Tail(pipe[s]) \in Seq(Rows(s))
    BY <2>1, TakeOne
  <2>3. /\ row'[s] = pipe[s][1] /\ pipe'[s] = Tail(pipe[s])
        /\ \A x \in Streams \ {s} : reader'[x] = reader[x] /\ row'[x] = row[x] /\ pipe'[x] = pipe[x]
    BY <1>3, ReadTyped
  <2>4. \A x : Rows(x)' = Rows(x)
    BY <1>1, <2>1
  <2>5. \A x \in Streams : pipe'[x] \in Seq(Rows(x))
    BY <2>2, <2>3 DEF Fitting
  <2>6. \A x \in Streams : reader'[x] = "count" => row'[x] \in Rows(x)
    BY <2>2, <2>3 DEF Fitting
  <2> QED
    BY <2>4, <2>5, <2>6 DEF Fitting
<1>4. ASSUME NEW s \in Streams, AtEnd(s)
      PROVE  Fitting'
  BY <1>1, <1>4 DEF AtEnd, Fitting, Typed
<1>5. ASSUME NEW s \in Streams, TooMuch(s)
      PROVE  Fitting'
  BY <1>1, <1>5, Stops DEF Fitting
<1>6. ASSUME NEW s \in Streams, Count(s) \/ (s = "stdout" /\ Examine)
      PROVE  Fitting'
  BY <1>1, <1>6, Keeps DEF Fitting
<1>7. CASE ReaderDies
  BY <1>1, <1>7, Dies DEF Fitting, Streams
<1>8. CASE ChildExits \/ PromptFails \/ Wait \/ Join \/ JoinExpires \/ Decide \/ UNCHANGED vars
  <2>1. UNCHANGED <<kind, pipe, reader, row>>
    BY <1>8 DEF ChildExits, PromptFails, Return, Wait, Join, JoinExpires, Decide, vars
  <2> QED
    BY <1>1, <2>1 DEF Fitting
<1>9. CASE SendPrompt
  BY <1>1, <1>9 DEF SendPrompt, Fitting
<1>10. CASE Examine
  BY <1>6, <1>10 DEF Streams
<1> QED
  BY <1>2, <1>3, <1>4, <1>5, <1>6, <1>7, <1>8, <1>9, <1>10, NextSplits

-------------------------------------------------------------------------------
(* Where caller, readers and child are.                                        *)

\* While a reader is at work, the caller has not joined it.
LEMMA AtWork ==
  ASSUME Typed, Staged, NEW s \in Streams, reader[s] \in {"read", "count"}
  PROVE  caller # "decide" /\ outcome # "accepted" /\ caller # "prompt"
<1>1. ~Finished
  BY DEF Finished
<1>2. s = "stdout" \/ s = "stderr"
  BY DEF Streams
<1> QED
  BY <1>1, <1>2 DEF Staged

\* A step of a reader leaves the stage; it may end the job, with a mark.
LEMMA ReaderStaged ==
  ASSUME Typed, Fitting, Staged, NEW s \in Streams,
         Read(s) \/ AtEnd(s) \/ TooMuch(s) \/ Count(s) \/ (s = "stdout" /\ (Examine \/ ReaderDies))
  PROVE  Staged'
<1>1. /\ reader[s] \in {"read", "count"} /\ reader'[s] # "off" /\ (s = "stderr" => reader'[s] # "dead")
      /\ \A x \in Streams \ {s} : reader'[x] = reader[x]
      /\ UNCHANGED <<kind, timedOut, caller, outcome>>
  <2>1. CASE Read(s)
    BY <2>1, ReadTyped DEF Read
  <2>2. CASE AtEnd(s)
    BY <2>2 DEF AtEnd, Typed
  <2>3. CASE TooMuch(s)
    BY <2>3, Stops
  <2>4. CASE Count(s) \/ (s = "stdout" /\ Examine)
    BY <2>4, Keeps
  <2>5. CASE s = "stdout" /\ ReaderDies
    BY <2>5, Dies DEF Streams
  <2> QED
    BY <2>1, <2>2, <2>3, <2>4, <2>5
<1>2. caller # "decide" /\ outcome # "accepted" /\ caller # "prompt"
  BY <1>1, AtWork
<1>3. reader["stdout"] # "off" /\ reader["stderr"] # "off"
  BY <1>1 DEF Staged, Streams
<1>4. reader'["stdout"] # "off" /\ reader'["stderr"] # "off" /\ reader'["stderr"] # "dead"
  BY <1>1, <1>3 DEF Staged, Streams
<1>5. (Ended /\ ~descendant => Ended' /\ ~descendant') /\ (child' = "killed" => child = "killed" \/ Marked')
  <2>1. CASE TooMuch(s)
    BY <2>1, Stops DEF Ended
  <2>2. CASE ~TooMuch(s)
    <3>1. UNCHANGED <<child, descendant>>
      BY <2>2 DEF Read, AtEnd, Count, Examine, ReaderDies, ends
    <3> QED
      BY <3>1 DEF Ended
  <2> QED
    BY <2>1, <2>2
<1>6. Marked => Marked'
  <2>1. CASE TooMuch(s)
    BY <2>1, Stops
  <2>2. CASE Count(s) \/ (s = "stdout" /\ Examine)
    BY <2>2, Keeps DEF Marked
  <2>3. CASE Read(s) \/ AtEnd(s) \/ (s = "stdout" /\ ReaderDies)
    BY <2>3 DEF Read, AtEnd, ReaderDies, limits, Marked
  <2> QED
    BY <2>1, <2>2, <2>3
<1> QED
  BY <1>1, <1>2, <1>3, <1>4, <1>5, <1>6 DEF Staged

\* The caller goes from stage to stage.
LEMMA CallerStaged ==
  ASSUME Typed, Staged, SendPrompt \/ PromptFails \/ Wait \/ Join \/ JoinExpires \/ Decide
  PROVE  Staged'
<1>1. CASE SendPrompt
  <2>1. /\ caller = "prompt" /\ caller' = "wait" /\ child = "running"
        /\ reader'["stdout"] = "read" /\ reader'["stderr"] = "read"
        /\ UNCHANGED <<child, timedOut, outcome>>
    BY <1>1 DEF SendPrompt, Streams, ends
  <2> QED
    BY <2>1 DEF Staged, Typed
<1>2. CASE PromptFails
  <2>1. /\ caller = "prompt" /\ caller' = "end" /\ outcome' = "failed" /\ UNCHANGED reader
    BY <1>2, ReturnTyped DEF PromptFails
  <2> QED
    BY <2>1 DEF Staged
<1>3. CASE Wait
  <2>1. PICK expired \in BOOLEAN :
          /\ expired \/ Ended
          /\ timedOut' = expired /\ Terminate
    BY <1>3 DEF Wait, WaitOver, EndJob
  <2>2. /\ caller = "wait" /\ caller' = "join" /\ outcome' = outcome /\ reader' = reader
        /\ UNCHANGED <<kind, overflow, violated>>
    BY <1>3 DEF Wait, limits
  <2>3. outcome = "none" /\ reader["stdout"] # "off" /\ reader["stderr"] # "off"
    BY <2>2 DEF Staged, Typed
  <2>4. Ended' /\ ~descendant'
    BY <2>1, TerminateTyped DEF Ended
  <2>5. child' = "killed" => Marked' \/ timedOut'
    <3>1. CASE expired
      BY <2>1, <3>1, Zenon
    <3>2. CASE ~expired
      <4>1. child' = child
        BY <2>1, <3>2, TerminateTyped DEF Ended
      <4>2. child = "killed" => Marked
        BY <2>2, <2>3 DEF Staged
      <4> QED
        BY <2>2, <4>1, <4>2 DEF Marked
    <3> QED
      BY <3>1, <3>2
  <2> QED
    BY <2>2, <2>3, <2>4, <2>5 DEF Staged
<1>4. CASE Join
  <2>1. /\ caller = "join" /\ caller' = "decide" /\ Finished
        /\ UNCHANGED <<kind, child, descendant, reader, overflow, violated, timedOut, outcome>>
    BY <1>4 DEF Join, ends, limits
  <2>2. outcome = "none" /\ Finished' /\ (Marked => Marked')
    BY <2>1 DEF Typed, Finished, Marked
  <2> QED
    BY <2>1, <2>2 DEF Staged, Ended
<1>5. CASE JoinExpires
  <2>1. /\ caller = "join" /\ caller' = "end" /\ outcome' = "failed" /\ UNCHANGED reader
    BY <1>5, ReturnTyped DEF JoinExpires
  <2>2. (Ended /\ ~descendant) => (Ended' /\ ~descendant')
    <3>1. Terminate \/ UNCHANGED ends
      BY <1>5 DEF JoinExpires
    <3> QED
      BY <3>1, TerminateTyped DEF Ended, ends
  <2> QED
    BY <2>1, <2>2 DEF Staged
<1>6. CASE Decide
  <2>1. PICK result : /\ Return(result)
                      /\ result = "accepted" => ~timedOut /\ ~Refused
    <3>1. PICK result \in IF timedOut THEN {"timeout"} ELSE IF Refused THEN {"failed"} ELSE Answers : Return(result)
      BY <1>6 DEF Decide
    <3> QED
      BY <3>1
  <2>2. /\ caller = "decide" /\ caller' = "end" /\ outcome' = result /\ ~auth'
        /\ UNCHANGED <<kind, reader, overflow, violated, lifecycle, timedOut, child, descendant>>
    BY <1>6, <2>1, ReturnTyped DEF Decide, ends
  <2>3. ~Refused => ~Refused'
    BY <2>2 DEF Refused, Incomplete
  <2>4. Finished /\ Finished'
    BY <2>2 DEF Staged, Finished
  <2>5. reader["stdout"] # "off" /\ outcome = "none"
    BY <2>2, <2>4 DEF Finished, Streams, Typed
  <2>6. Marked => Marked'
    BY <2>2 DEF Marked
  <2> QED
    BY <2>1, <2>2, <2>3, <2>4, <2>5, <2>6 DEF Staged, Ended
<1> QED
  BY <1>1, <1>2, <1>3, <1>4, <1>5, <1>6

\* The stages hold at every step.
LEMMA NextStaged == Typed /\ Fitting /\ Staged /\ [Next]_vars => Staged'
<1> SUFFICES ASSUME Typed, Fitting, Staged, [Next]_vars PROVE Staged'
  OBVIOUS
<1>1. CASE ChildExits \/ \E s \in Streams : Write(s)
  <2>1. /\ child = "running" /\ child' \in {"running", "exited"}
        /\ UNCHANGED <<kind, reader, overflow, violated, lifecycle, auth, timedOut, caller, outcome>>
    BY <1>1 DEF ChildExits, Write, ends, limits
  <2>2. reader["stdout"] = "off" \/ caller \notin {"join", "decide", "end"}
    BY <2>1 DEF Staged, Ended
  <2>3. outcome # "accepted"
    BY <2>2 DEF Staged, Typed
  <2>4. Finished => Finished'
    BY <2>1 DEF Finished
  <2> QED
    BY <2>1, <2>2, <2>3, <2>4 DEF Staged
<1>2. CASE UNCHANGED vars
  <2>1. UNCHANGED <<kind, child, descendant, reader, overflow, violated, lifecycle, auth, timedOut, caller, outcome>>
    BY <1>2 DEF vars, ends, limits
  <2> QED
    BY <2>1 DEF Staged, Finished, Marked, Refused, Incomplete, Ended
<1>3. CASE Examine \/ ReaderDies
  BY <1>3, ReaderStaged DEF Streams
<1> QED
  BY <1>1, <1>2, <1>3, ReaderStaged, CallerStaged, NextSplits

-------------------------------------------------------------------------------
(* What becomes of a row.                                                      *)

\* No row is lost at any step.
LEMMA NextWhole == Typed /\ Fitting /\ Staged /\ Whole /\ [Next]_vars => Whole'
<1> SUFFICES ASSUME Typed, Fitting, Staged, Whole, [Next]_vars PROVE Whole'
  OBVIOUS
<1>1. ASSUME NEW s \in Streams
      PROVE  written[s] \in Seq(AllRows) /\ pipe[s] \in Seq(AllRows) /\ kept[s] \in Seq(AllRows)
  BY DEF Typed
<1>2. ASSUME NEW s \in Streams, Write(s)
      PROVE  Whole'
  <2>1. PICK r \in Rows(s) :
          /\ written'[s] = Append(written[s], r) /\ pipe'[s] = Append(pipe[s], r)
          /\ \A x \in Streams \ {s} : written'[x] = written[x] /\ pipe'[x] = pipe[x]
    BY <1>2, WriteTyped
  <2>2. /\ UNCHANGED <<kind, child, reader, row, kept, overflow, violated>> /\ child = "running"
    BY <1>2 DEF Write, ends, limits
  <2>3. r \in AllRows
    BY RowsTyped
  <2>4. ASSUME NEW a \in Seq(AllRows)
        PROVE  Append(a \o pipe[s], r) = a \o Append(pipe[s], r)
    <3>1. pipe[s] \in Seq(AllRows)
      BY <1>1
    <3> QED
      BY <2>3, <3>1, PutOne
  <2>5. reader[s] = "count" => Append(kept[s], row[s]) \in Seq(AllRows)
    BY CountTyped DEF Fitting
  <2>6. /\ reader[s] \in {"off", "read"} => written'[s] = kept[s] \o pipe'[s]
        /\ reader[s] = "count" => written'[s] = Append(kept[s], row[s]) \o pipe'[s]
        /\ reader[s] = "done" => Marked
    BY <1>1, <2>1, <2>2, <2>4, <2>5 DEF Whole, Ended
  <2> QED
    BY <2>1, <2>2, <2>6 DEF Whole, Ended, Marked
<1>3. ASSUME NEW s \in Streams, Read(s)
      PROVE  Whole'
  <2>1. /\ reader[s] = "read" /\ reader'[s] = "count" /\ row'[s] = pipe[s][1] /\ pipe'[s] = Tail(pipe[s])
        /\ \A x \in Streams \ {s} : reader'[x] = reader[x] /\ row'[x] = row[x] /\ pipe'[x] = pipe[x]
        /\ UNCHANGED <<kind, child, written, kept, overflow, violated>> /\ pipe[s] # <<>>
    BY <1>3, ReadTyped DEF Read, ends, limits
  <2>2. kept[s] \o pipe[s] = Append(kept[s], pipe[s][1]) \o Tail(pipe[s])
    <3>1. kept[s] \in Seq(AllRows) /\ pipe[s] \in Seq(AllRows) /\ pipe[s] # <<>>
      BY <1>1, <2>1
    <3> QED
      BY <3>1, TakeOne, Zenon
  <2>3. written'[s] = Append(kept'[s], row'[s]) \o pipe'[s]
    BY <2>1, <2>2 DEF Whole
  <2>4. (Marked => Marked') /\ (Ended => Ended')
    BY <2>1 DEF Marked, Ended
  <2> QED
    BY <2>1, <2>3, <2>4 DEF Whole
<1>4. ASSUME NEW s \in Streams, AtEnd(s)
      PROVE  Whole'
  <2>1. /\ reader[s] = "read" /\ reader'[s] = "done" /\ pipe[s] = <<>> /\ Ended
        /\ \A x \in Streams \ {s} : reader'[x] = reader[x]
        /\ UNCHANGED <<kind, child, written, kept, pipe, row, overflow, violated>>
    BY <1>4 DEF AtEnd, PipesClosed, Typed, ends, limits
  <2>2. kept[s] \o <<>> = kept[s]
    BY <1>1, ConcatEmptySeq
  <2>3. written[s] = kept[s]
    BY <2>1, <2>2 DEF Whole
  <2> QED
    BY <2>1, <2>3 DEF Whole, Ended, Marked
<1>5. ASSUME NEW s \in Streams, TooMuch(s)
      PROVE  Whole'
  <2>1. /\ reader'[s] = "done" /\ Marked' /\ child' # "running"
        /\ \A x \in Streams \ {s} : reader'[x] = reader[x] /\ row'[x] = row[x]
        /\ kept' = [kept EXCEPT ![s] = kept[s] \o Rest]
        /\ UNCHANGED <<written, pipe>>
    BY <1>5, Stops
  <2>2. \A x \in Streams \ {s} : kept'[x] = kept[x]
    BY <2>1 DEF Typed
  <2> QED
    BY <2>1, <2>2 DEF Whole, Ended
<1>6. ASSUME NEW s \in Streams, Count(s) \/ (s = "stdout" /\ Examine)
      PROVE  Whole'
  <2>1. /\ reader[s] = "count" /\ reader'[s] = "read"
        /\ \A x \in Streams \ {s} : reader'[x] = reader[x] /\ row'[x] = row[x]
        /\ kept'[s] = Append(kept[s], row[s]) /\ \A x \in Streams \ {s} : kept'[x] = kept[x]
        /\ violated => violated'
        /\ UNCHANGED <<kind, child, written, pipe, overflow>>
    BY <1>6, Keeps
  <2>2. Marked => Marked'
    BY <2>1 DEF Marked
  <2>3. written'[s] = kept'[s] \o pipe'[s]
    BY <2>1 DEF Whole
  <2> QED
    BY <2>1, <2>2, <2>3 DEF Whole, Ended
<1>7. CASE ReaderDies
  <2>1. /\ reader'["stdout"] = "dead" /\ reader'["stderr"] = reader["stderr"] /\ row'["stderr"] = row["stderr"]
        /\ UNCHANGED <<kind, child, written, pipe, overflow, violated, kept>>
    BY <1>7, Dies
  <2> QED
    BY <2>1 DEF Whole, Streams, Ended, Marked
<1>8. CASE ChildExits \/ PromptFails \/ Wait \/ Join \/ JoinExpires \/ Decide \/ UNCHANGED vars
  <2>1. UNCHANGED <<kind, written, pipe, reader, row, kept, overflow, violated>>
    BY <1>8 DEF ChildExits, PromptFails, Return, Wait, Join, JoinExpires, Decide, vars, limits
  <2>2. Ended => Ended'
    BY <1>8 DEF ChildExits, PromptFails, Wait, EndJob, Join, JoinExpires, Decide, Terminate, vars, ends, Ended
  <2> QED
    BY <2>1, <2>2 DEF Whole, Marked
<1>9. CASE SendPrompt
  <2>1. /\ reader' = [s \in Streams |-> "read"] /\ UNCHANGED <<written, pipe, kept>> /\ caller = "prompt"
    BY <1>9 DEF SendPrompt
  <2>2. reader["stdout"] = "off" /\ reader["stderr"] = "off"
    BY <2>1 DEF Staged
  <2> QED
    BY <2>1, <2>2 DEF Whole, Streams
<1>10. CASE Examine
  BY <1>6, <1>10 DEF Streams
<1> QED
  BY <1>2, <1>3, <1>4, <1>5, <1>6, <1>7, <1>8, <1>9, <1>10, NextSplits

-------------------------------------------------------------------------------
(* What the counter says.                                                      *)

\* The size of what is kept grows with each row by the size of the row.
LEMMA UnitsKept ==
  ASSUME NEW s \in Streams, kept[s] \in Seq(AllRows)
  PROVE  /\ UnitsOf(s) \in Nat
         /\ kept'[s] = kept[s] => UnitsOf(s)' = UnitsOf(s)
         /\ \A r \in AllRows : kept'[s] = Append(kept[s], r) => UnitsOf(s)' = UnitsOf(s) + Size(r)
<1> DEFINE n == Len(kept[s])
           L == {i \in 1 .. n : Size(kept[s][i]) = 2}
<1>1. n \in Nat /\ DOMAIN kept[s] = 1 .. n
  BY LenProperties
<1>2. IsFiniteSet(L) /\ Cardinality(L) \in Nat
  <2>1. IsFiniteSet(1 .. n)
    BY <1>1, FS_Interval
  <2>2. L \subseteq 1 .. n
    OBVIOUS
  <2> QED
    BY <2>1, <2>2, FS_Subset, FS_CardinalityType
<1>3. UnitsOf(s) = n + Cardinality(L) /\ UnitsOf(s) \in Nat
  BY <1>1, <1>2 DEF UnitsOf, Longs
<1>4. ASSUME NEW r \in AllRows, kept'[s] = Append(kept[s], r)
      PROVE  UnitsOf(s)' = UnitsOf(s) + Size(r)
  <2>1. /\ Len(kept'[s]) = n + 1 /\ DOMAIN kept'[s] = 1 .. n + 1 /\ kept'[s][n + 1] = r
        /\ \A i \in 1 .. n : kept'[s][i] = kept[s][i]
    BY <1>1, <1>4, AppendProperties, LenProperties
  <2> DEFINE M == {i \in 1 .. n + 1 : Size(kept'[s][i]) = 2}
  <2>2. UnitsOf(s)' = n + 1 + Cardinality(M)
    BY <2>1 DEF UnitsOf, Longs
  <2>3. CASE Size(r) = 2
    <3>1. M = L \cup {n + 1} /\ n + 1 \notin L
      BY <1>1, <2>1, <2>3
    <3>2. Cardinality(M) = Cardinality(L) + 1
      BY <1>2, <3>1, FS_AddElement
    <3> QED
      BY <1>1, <1>2, <1>3, <2>2, <2>3, <3>2
  <2>4. CASE Size(r) = 1
    <3>1. Size(kept'[s][n + 1]) # 2
      BY <2>1, <2>4
    <3>2. \A i \in 1 .. n + 1 : i # n + 1 => i \in 1 .. n
      BY <1>1
    <3>3. \A i \in 1 .. n : i \in 1 .. n + 1
      BY <1>1
    <3>4. M = L
      BY <2>1, <3>1, <3>2, <3>3
    <3>5. Cardinality(M) = Cardinality(L)
      BY <3>4
    <3> HIDE DEF M, L
    <3> QED
      BY <1>1, <1>2, <1>3, <2>2, <2>4, <3>5
  <2> QED
    BY <2>3, <2>4 DEF Size
<1>5. kept'[s] = kept[s] => UnitsOf(s)' = UnitsOf(s)
  BY DEF UnitsOf, Longs
<1> QED
  BY <1>3, <1>4, <1>5

\* A row that a reader kept within the limit is counted.
LEMMA KeptIsCounted ==
  ASSUME Typed, Fitting, Counted, NEW s \in Streams, Count(s) \/ (s = "stdout" /\ Examine)
  PROVE  Counted'
<1>1. /\ reader[s] = "count" /\ reader'[s] = "read" /\ base'[s] = 0
      /\ \A x \in Streams \ {s} : reader'[x] = reader[x] /\ base'[x] = base[x]
      /\ kept'[s] = Append(kept[s], row[s]) /\ \A x \in Streams \ {s} : kept'[x] = kept[x]
      /\ outputBytes' = Total(s) /\ Total(s) <= Limit
      /\ UNCHANGED <<kind, overflow>>
  BY Keeps
<1>2. /\ Total(s) \in Nat /\ Total(s) = BytesRead(s) + Size(row[s]) /\ row[s] \in AllRows
      /\ Size(row[s]) \in Nat
  BY <1>1, CountTyped DEF Fitting
<1>3. \A x \in Streams : Stopped(x)' = Stopped(x) /\ Stopped(x) \in {0, 1}
  BY <1>1 DEF Stopped
<1>4. /\ Limit \in Nat /\ outputBytes \in Nat /\ base["stderr"] \in Nat
      /\ \A x \in Streams : kept[x] \in Seq(AllRows)
  BY StreamsAssumption DEF Typed, Streams
<1>5. CASE kind = "role"
  <2>1. outputBytes' <= Limit + Stopped("stdout")' + Stopped("stderr")'
    BY <1>1, <1>2, <1>3, <1>4 DEF Streams
  <2>2. base'["stderr"] <= Limit + Stopped("stdout")'
    BY <1>1, <1>3, <1>4, <1>5 DEF Counted, Streams
  <2> QED
    BY <1>1, <1>5, <2>1, <2>2 DEF Counted
<1>6. CASE kind = "command"
  <2>1. Total(s) = outputBytes + Size(row[s])
    BY <1>2, <1>6 DEF BytesRead
  <2>2. /\ UnitsOf("stdout") \in Nat /\ UnitsOf("stderr") \in Nat
        /\ UnitsOf(s)' = UnitsOf(s) + Size(row[s])
        /\ \A x \in Streams \ {s} : UnitsOf(x)' = UnitsOf(x)
    BY <1>1, <1>2, <1>4, UnitsKept DEF Streams
  <2>3. Units' = Units + Size(row[s]) /\ Units \in Nat
    <3>1. CASE s = "stdout"
      BY <1>2, <2>2, <3>1 DEF Units, Streams
    <3>2. CASE s = "stderr"
      BY <1>2, <2>2, <3>2 DEF Units, Streams
    <3> QED
      BY <3>1, <3>2 DEF Streams
  <2>4. overflow \/ Units = outputBytes
    BY <1>6 DEF Counted
  <2>5. overflow' \/ Units' = outputBytes'
    BY <1>1, <2>1, <2>3, <2>4
  <2> QED
    BY <1>1, <1>6, <2>5 DEF Counted
<1> QED
  BY <1>5, <1>6 DEF Typed

\* The counter keeps its meaning when nothing is kept and nothing is counted.
LEMMA CountedStays ==
  ASSUME Typed, Counted, UNCHANGED <<kind, outputBytes, kept>>, overflow => overflow',
         \A s \in Streams : reader[s] = "done" => reader'[s] = "done",
         \/ base'["stderr"] \in {base["stderr"], 0}
         \/ base'["stderr"] = outputBytes /\ reader["stderr"] # "done"
  PROVE  Counted'
<1>1. Limit \in Nat /\ outputBytes \in Nat /\ base["stderr"] \in Nat /\ kind \in {"command", "role"}
  BY StreamsAssumption DEF Typed, Streams
<1>2. /\ Stopped("stdout") <= Stopped("stdout")' /\ Stopped("stderr") <= Stopped("stderr")'
      /\ Stopped("stdout") \in {0, 1} /\ Stopped("stderr") \in {0, 1}
      /\ Stopped("stdout")' \in {0, 1} /\ Stopped("stderr")' \in {0, 1}
      /\ reader["stderr"] # "done" => Stopped("stderr") = 0
  BY DEF Stopped, Streams
<1>3. CASE kind = "role"
  <2>1. /\ outputBytes <= Limit + Stopped("stdout") + Stopped("stderr")
        /\ base["stderr"] <= Limit + Stopped("stdout")
    BY <1>3 DEF Counted
  <2>2. outputBytes' <= Limit + Stopped("stdout")' + Stopped("stderr")'
    BY <1>1, <1>2, <2>1
  <2>3. base'["stderr"] <= Limit + Stopped("stdout")'
    <3>1. CASE base'["stderr"] \in {base["stderr"], 0}
      BY <1>1, <1>2, <2>1, <3>1
    <3>2. CASE base'["stderr"] = outputBytes /\ reader["stderr"] # "done"
      BY <1>1, <1>2, <2>1, <3>2
    <3> QED
      BY <3>1, <3>2
  <2> QED
    BY <1>3, <2>2, <2>3 DEF Counted
<1>4. CASE kind = "command"
  <2>1. Units' = Units
    BY DEF Units, UnitsOf, Longs
  <2> QED
    BY <1>4, <2>1 DEF Counted
<1> QED
  BY <1>1, <1>3, <1>4

\* The counter keeps its meaning at every step.
LEMMA NextCounted == Typed /\ Fitting /\ Staged /\ Counted /\ [Next]_vars => Counted'
<1> SUFFICES ASSUME Typed, Fitting, Staged, Counted, [Next]_vars PROVE Counted'
  OBVIOUS
<1>1. ASSUME NEW s \in Streams, Read(s)
      PROVE  Counted'
  <2>1. /\ reader[s] = "read" /\ base'[s] = outputBytes
        /\ \A x \in Streams \ {s} : reader'[x] = reader[x] /\ base'[x] = base[x]
        /\ UNCHANGED <<kind, outputBytes, overflow, kept>>
    BY <1>1, ReadTyped DEF Read, limits
  <2> QED
    BY <2>1, CountedStays DEF Streams
<1>2. ASSUME NEW s \in Streams, AtEnd(s)
      PROVE  Counted'
  <2>1. /\ reader[s] = "read" /\ \A x \in Streams \ {s} : reader'[x] = reader[x]
        /\ UNCHANGED <<kind, outputBytes, overflow, kept, base>>
    BY <1>2 DEF AtEnd, limits, Typed
  <2> QED
    BY <2>1, CountedStays DEF Streams
<1>3. ASSUME NEW s \in Streams, TooMuch(s)
      PROVE  Counted'
  <2>1. /\ reader[s] = "count" /\ reader'[s] = "done" /\ base'[s] = 0
        /\ \A x \in Streams \ {s} : reader'[x] = reader[x] /\ base'[x] = base[x]
        /\ outputBytes' = IF kind = "command" THEN outputBytes ELSE Total(s)
        /\ kind = "command" => overflow'
        /\ UNCHANGED kind
    BY <1>3, Stops
  <2>2. CASE kind = "command"
    BY <2>1, <2>2 DEF Counted
  <2>3. CASE kind = "role"
    <3>1. /\ Limit \in Nat /\ outputBytes \in Nat /\ base["stderr"] \in Nat /\ BytesRead(s) \in Nat
          /\ Stopped("stdout") \in {0, 1} /\ Stopped("stderr") \in {0, 1}
      BY <2>1, StreamsAssumption, CountTyped DEF Typed, Fitting, Streams, Stopped
    <3>2. row[s] # "long"
      BY <2>1, <2>3 DEF Fitting, Rows, Events, Streams
    <3>3. outputBytes' = BytesRead(s) + 1
      BY <2>1, <2>3, <3>2 DEF Total, Size
    <3>4. /\ outputBytes <= Limit + Stopped("stdout") + Stopped("stderr")
          /\ base["stderr"] <= Limit + Stopped("stdout")
      BY <2>3 DEF Counted
    <3>5. CASE s = "stdout"
      <4>1. /\ Stopped("stdout") = 0 /\ Stopped("stdout")' = 1 /\ Stopped("stderr")' = Stopped("stderr")
            /\ BytesRead(s) = outputBytes /\ base'["stderr"] = base["stderr"]
        BY <2>1, <3>5 DEF Stopped, BytesRead, Streams
      <4> QED
        BY <2>1, <2>3, <3>1, <3>3, <3>4, <4>1 DEF Counted
    <3>6. CASE s = "stderr"
      <4>1. /\ Stopped("stderr")' = 1 /\ Stopped("stdout")' = Stopped("stdout")
            /\ BytesRead(s) = base["stderr"] /\ base'["stderr"] = 0
        BY <2>1, <2>3, <3>6 DEF Stopped, BytesRead, Streams
      <4> QED
        BY <2>1, <2>3, <3>1, <3>3, <3>4, <4>1 DEF Counted
    <3> QED
      BY <3>5, <3>6 DEF Streams
  <2> QED
    BY <2>2, <2>3 DEF Typed
<1>4. CASE ReaderDies
  <2>1. /\ reader["stdout"] = "count" /\ reader'["stdout"] = "dead" /\ reader'["stderr"] = reader["stderr"]
        /\ base'["stderr"] = base["stderr"] /\ outputBytes' = Total("stdout") /\ Total("stdout") <= Limit
        /\ kind = "role" /\ UNCHANGED kind
    BY <1>4, Dies
  <2>2. /\ Limit \in Nat /\ Total("stdout") \in Nat
        /\ Stopped("stderr") \in {0, 1} /\ Stopped("stdout") = 0
        /\ Stopped("stdout")' = Stopped("stdout") /\ Stopped("stderr")' = Stopped("stderr")
    BY <2>1, StreamsAssumption, CountTyped DEF Typed, Fitting, Streams, Stopped
  <2> QED
    BY <2>1, <2>2 DEF Counted
<1>5. CASE \E s \in Streams : Count(s) \/ (s = "stdout" /\ Examine)
  BY <1>5, KeptIsCounted
<1>6. CASE (\E s \in Streams : Write(s))
           \/ ChildExits \/ PromptFails \/ Wait \/ Join \/ JoinExpires \/ Decide \/ UNCHANGED vars
  <2>1. UNCHANGED <<kind, outputBytes, overflow, kept, reader, base>>
    BY <1>6 DEF Write, ChildExits, PromptFails, Return, Wait, Join, JoinExpires, Decide, vars, limits
  <2> QED
    BY <2>1, CountedStays
<1>7. CASE SendPrompt
  <2>1. UNCHANGED <<kind, outputBytes, overflow, kept, base>> /\ caller = "prompt"
    BY <1>7 DEF SendPrompt, limits
  <2>2. reader["stdout"] # "done" /\ reader["stderr"] # "done"
    BY <2>1 DEF Staged
  <2> QED
    BY <2>1, <2>2, CountedStays DEF Streams
<1>8. CASE Examine
  BY <1>5, <1>8 DEF Streams
<1> QED
  BY <1>1, <1>2, <1>3, <1>4, <1>5, <1>6, <1>7, <1>8, NextSplits

-------------------------------------------------------------------------------
(* What a role said.                                                           *)

\* The places of an event when one more is kept.
LEMMA AtGrows ==
  ASSUME kept["stdout"] \in Seq(AllRows), NEW r \in AllRows, kept'["stdout"] = Append(kept["stdout"], r)
  PROVE  LET n == Len(kept["stdout"])
         IN /\ n \in Nat /\ DOMAIN kept["stdout"] = 1 .. n /\ DOMAIN kept'["stdout"] = 1 .. n + 1
            /\ kept'["stdout"][n + 1] = r
            /\ \A i \in 1 .. n : kept'["stdout"][i] = kept["stdout"][i]
            /\ \A e : At(e) \subseteq 1 .. n
            /\ \A e : r # e => At(e)' = At(e)
            /\ At(r)' = At(r) \cup {n + 1}
<1> DEFINE n == Len(kept["stdout"])
<1>1. n \in Nat /\ DOMAIN kept["stdout"] = 1 .. n
  BY LenProperties
<1>2. /\ DOMAIN kept'["stdout"] = 1 .. n + 1 /\ kept'["stdout"][n + 1] = r
      /\ \A i \in 1 .. n : kept'["stdout"][i] = kept["stdout"][i]
  BY <1>1, AppendProperties, LenProperties
<1>3. /\ \A i \in 1 .. n + 1 : i # n + 1 => i \in 1 .. n
      /\ \A i \in 1 .. n : i \in 1 .. n + 1 /\ i # n + 1
      /\ n + 1 \in 1 .. n + 1
  BY <1>1
<1> HIDE DEF n
<1>4. \A e : At(e) \subseteq 1 .. n
  BY <1>1 DEF At
<1>5. \A e : r # e => At(e)' = At(e)
  BY <1>1, <1>2, <1>3 DEF At
<1>6. At(r)' = At(r) \cup {n + 1}
  BY <1>1, <1>2, <1>3 DEF At
<1> QED
  BY <1>1, <1>2, <1>4, <1>5, <1>6 DEF n

\* The stdout reader of a role looks at every event.
LEMMA ExamineJudged ==
  ASSUME Typed, Fitting, Judged, Examine
  PROVE  Judged'
<1> SUFFICES ASSUME kind = "role", ~violated' PROVE Judged'
  BY DEF Examine, Judged
<1> DEFINE n == Len(kept["stdout"])
<1>0. PICK e : e = row["stdout"]
  OBVIOUS
<1>1. /\ ~violated /\ e \in {"thread", "turn", "item"} /\ ~OutOfOrder(e)
  <2>1. e \in Events /\ e # "scalar" /\ reader["stdout"] = "count"
    BY <1>0 DEF Examine, Fitting, Rows, Streams
  <2>2. ~(violated \/ e = "call" \/ OutOfOrder(e))
    BY <1>0, Zenon DEF Examine
  <2> QED
    BY <2>1, <2>2 DEF Events
<1>2. /\ e = "thread" => ~lifecycle.thread
      /\ e = "turn" => ~lifecycle.turn /\ lifecycle.thread
  BY <1>1 DEF OutOfOrder
<1>3. /\ \A i \in DOMAIN kept["stdout"] : kept["stdout"][i] \in {"thread", "turn", "item"}
      /\ (lifecycle.thread <=> At("thread") # {}) /\ (lifecycle.turn <=> At("turn") # {})
      /\ \A i, j \in At("thread") : i = j
      /\ \A i, j \in At("turn") : i = j
      /\ \A i \in At("thread"), j \in At("turn") : i < j
      /\ lifecycle.turn => lifecycle.thread
      /\ \A i \in DOMAIN kept["stderr"] : kept["stderr"][i] # "synchronization"
  BY <1>1 DEF Judged
<1>4. /\ (lifecycle'.thread <=> lifecycle.thread \/ e = "thread")
      /\ (lifecycle'.turn <=> lifecycle.turn \/ e = "turn")
  BY <1>0 DEF Examine
<1>5. kept'["stdout"] = Append(kept["stdout"], e) /\ kept'["stderr"] = kept["stderr"] /\ kind' = kind
  BY <1>0, Keeps DEF Streams
<1>6. e \in AllRows /\ kept["stdout"] \in Seq(AllRows)
  BY <1>1 DEF AllRows, Events, Typed, Streams
<1>7. /\ n \in Nat /\ DOMAIN kept["stdout"] = 1 .. n /\ DOMAIN kept'["stdout"] = 1 .. n + 1
      /\ kept'["stdout"][n + 1] = e
      /\ \A i \in 1 .. n : kept'["stdout"][i] = kept["stdout"][i]
      /\ \A x : At(x) \subseteq 1 .. n
      /\ \A x : e # x => At(x)' = At(x)
      /\ At(e)' = At(e) \cup {n + 1}
  BY <1>5, <1>6, AtGrows
<1> HIDE DEF n
<1>8. \A i \in 1 .. n + 1 : kept'["stdout"][i] \in {"thread", "turn", "item"}
  <2>1. \A i \in 1 .. n + 1 : i # n + 1 => i \in 1 .. n
    BY <1>7
  <2> QED
    BY <1>1, <1>3, <1>7, <2>1
<1>9. CASE e = "thread"
  <2>1. At("thread") = {} /\ At("turn") = {}
    BY <1>2, <1>3, <1>9
  <2>2. At("thread")' = {n + 1} /\ At("turn")' = {}
    BY <1>7, <1>9, <2>1
  <2>3. lifecycle'.thread /\ ~lifecycle'.turn
    BY <1>2, <1>3, <1>4, <1>9
  <2> QED
    BY <1>3, <1>5, <1>7, <1>8, <2>2, <2>3 DEF Judged
<1>10. CASE e = "turn"
  <2>1. At("turn") = {} /\ At("thread") # {} /\ At("thread") \subseteq 1 .. n
    BY <1>2, <1>3, <1>7, <1>10
  <2>2. At("turn")' = {n + 1} /\ At("thread")' = At("thread")
    BY <1>7, <1>10, <2>1
  <2>3. lifecycle'.thread /\ lifecycle'.turn
    BY <1>2, <1>4, <1>10
  <2>4. \A i \in At("thread") : i < n + 1
    BY <1>7, <2>1
  <2> QED
    BY <1>3, <1>5, <1>7, <1>8, <2>1, <2>2, <2>3, <2>4 DEF Judged
<1>11. CASE e = "item"
  <2>1. At("turn")' = At("turn") /\ At("thread")' = At("thread")
    BY <1>7, <1>11
  <2>2. (lifecycle'.thread <=> lifecycle.thread) /\ (lifecycle'.turn <=> lifecycle.turn)
    BY <1>4, <1>11
  <2> QED
    BY <1>3, <1>5, <1>7, <1>8, <2>1, <2>2 DEF Judged
<1> QED
  BY <1>1, <1>9, <1>10, <1>11

\* Without a violation the events are lawful after every step.
LEMMA NextJudged == Typed /\ Fitting /\ Judged /\ [Next]_vars => Judged'
<1> SUFFICES ASSUME Typed, Fitting, Judged, [Next]_vars PROVE Judged'
  OBVIOUS
<1>1. ASSUME NEW s \in Streams, Count(s)
      PROVE  Judged'
  <2> SUFFICES ASSUME kind = "role", ~violated' PROVE Judged'
    BY <1>1 DEF Count, Judged
  <2>1. s = "stderr" /\ ~violated /\ row[s] # "synchronization"
    <3>1. s = "stderr"
      BY <1>1 DEF Count, Plain
    <3>2. ~(violated \/ row[s] = "synchronization")
      BY <1>1, Zenon DEF Count
    <3> QED
      BY <3>1, <3>2
  <2>2. /\ kept'["stdout"] = kept["stdout"] /\ kept'["stderr"] = Append(kept["stderr"], row["stderr"])
        /\ UNCHANGED lifecycle
    BY <1>1, <2>1, Keeps DEF Count, Streams
  <2>3. \A x : At(x)' = At(x)
    BY <2>2 DEF At
  <2>4. kept["stderr"] \in Seq(AllRows) /\ row["stderr"] \in AllRows
    BY <1>1, <2>1, CountTyped DEF Count, Fitting, Typed, Streams
  <2>5. \A i \in DOMAIN kept["stderr"] : kept["stderr"][i] # "synchronization"
    BY <2>1 DEF Judged
  <2>6. \A i \in DOMAIN kept'["stderr"] : kept'["stderr"][i] # "synchronization"
    <3> DEFINE n == Len(kept["stderr"])
    <3>1. n \in Nat /\ DOMAIN kept["stderr"] = 1 .. n
      BY <2>4, LenProperties
    <3>2. /\ DOMAIN kept'["stderr"] = 1 .. n + 1 /\ kept'["stderr"][n + 1] = row["stderr"]
          /\ \A i \in 1 .. n : kept'["stderr"][i] = kept["stderr"][i]
      BY <2>2, <2>4, <3>1, AppendProperties, LenProperties
    <3>3. \A i \in 1 .. n + 1 : i # n + 1 => i \in 1 .. n
      BY <3>1
    <3> HIDE DEF n
    <3> QED
      BY <2>1, <2>5, <3>1, <3>2, <3>3
  <2> QED
    BY <2>1, <2>2, <2>3, <2>6 DEF Judged
<1>2. ASSUME NEW s \in Streams, TooMuch(s)
      PROVE  Judged'
  BY <1>2, Stops DEF Judged
<1>3. CASE Examine
  BY <1>3, ExamineJudged
<1>4. CASE (\E s \in Streams : Write(s) \/ Read(s) \/ AtEnd(s)) \/ ReaderDies
           \/ ChildExits \/ SendPrompt \/ PromptFails \/ Wait \/ Join \/ JoinExpires \/ Decide \/ UNCHANGED vars
  <2>1. UNCHANGED <<kind, violated, kept, lifecycle>>
    BY <1>4 DEF Write, Read, AtEnd, ReaderDies, ChildExits, SendPrompt, PromptFails, Return, Wait, Join,
                JoinExpires, Decide, vars, limits
  <2> QED
    BY <2>1 DEF Judged, At
<1> QED
  BY <1>1, <1>2, <1>3, <1>4, NextSplits

-------------------------------------------------------------------------------
(* The theorems.                                                               *)

\* The invariant holds at the start.
LEMMA InitIInv == Init => IInv
<1> SUFFICES ASSUME Init PROVE IInv
  OBVIOUS
<1>1. <<>> \in Seq(AllRows) /\ Len(<<>>) = 0 /\ DOMAIN <<>> = {} /\ <<>> \o <<>> = <<>>
  BY EmptySeq, ConcatEmptySeq
<1>2. /\ kind \in {"command", "role"} /\ caller = (IF kind = "role" THEN "prompt" ELSE "wait")
      /\ \A s \in Streams : /\ written[s] = <<>> /\ pipe[s] = <<>> /\ kept[s] = <<>> /\ base[s] = 0
                            /\ reader[s] = IF kind = "role" THEN "off" ELSE "read"
      /\ outputBytes = 0 /\ ~overflow /\ ~violated /\ ~lifecycle.thread /\ ~lifecycle.turn
      /\ ~timedOut /\ outcome = "none" /\ child = "running"
  <2>1. ~overflow /\ ~violated /\ ~timedOut /\ ~lifecycle.thread /\ ~lifecycle.turn
    BY DEF Init
  <2>2. kind \in {"command", "role"}
    BY StreamsAssumption DEF Init
  <2>3. \A s \in Streams : /\ written[s] = <<>> /\ pipe[s] = <<>> /\ kept[s] = <<>> /\ base[s] = 0
                           /\ reader[s] = IF kind = "role" THEN "off" ELSE "read"
    BY DEF Init
  <2> QED
    BY <2>1, <2>2, <2>3 DEF Init
<1>3. Typed
  BY InitTyped
<1>4. Fitting
  <2>1. \A s \in Streams : <<>> \in Seq(Rows(s))
    BY EmptySeq
  <2> QED
    BY <1>2, <2>1 DEF Fitting
<1>5. Staged
  BY <1>2 DEF Staged, Streams
<1>6. Whole
  BY <1>1, <1>2 DEF Whole
<1>7. Counted
  <2>1. \A s \in Streams : UnitsOf(s) = 0
    <3> SUFFICES ASSUME NEW s \in Streams PROVE UnitsOf(s) = 0
      OBVIOUS
    <3>1. DOMAIN kept[s] = {} /\ Len(kept[s]) = 0
      BY <1>1, <1>2
    <3>2. {i \in DOMAIN kept[s] : Size(kept[s][i]) = 2} = {}
      BY <3>1
    <3>3. Cardinality({}) = 0
      BY FS_EmptySet
    <3>4. Longs(s) = 0
      BY <3>2, <3>3 DEF Longs
    <3> QED
      BY <3>1, <3>4 DEF UnitsOf
  <2>2. Units = 0
    BY <2>1 DEF Units, Streams
  <2>3. Limit \in Nat /\ Stopped("stdout") = 0 /\ Stopped("stderr") = 0
    BY <1>2, StreamsAssumption DEF Stopped, Streams
  <2> QED
    BY <1>2, <2>2, <2>3 DEF Counted, Streams
<1>8. Judged
  <2>1. \A e : At(e) = {}
    BY <1>1, <1>2 DEF At, Streams
  <2> QED
    BY <1>1, <1>2, <2>1 DEF Judged, Streams
<1> QED
  BY <1>3, <1>4, <1>5, <1>6, <1>7, <1>8 DEF IInv

\* The invariant holds in every state.
LEMMA IInvHolds == Spec => []IInv
<1>1. IInv /\ [Next]_vars => IInv'
  BY NextTyped, NextFitting, NextStaged, NextWhole, NextCounted, NextJudged DEF IInv
<1> QED
  BY InitIInv, <1>1, PTL DEF Spec

\* When the caller of run_process or streamed_toolless_codex has its result, the child and
\* what it started are gone (but for a child that ended before it took its prompt), and
\* the counter of the output passed its limit at most once per reader.
THEOREM NothingIsLeftBehind == Spec => []NothingIsLeft
<1>1. IInv => NothingIsLeft
  <2> SUFFICES ASSUME IInv PROVE NothingIsLeft
    OBVIOUS
  <2>1. Typed /\ Staged /\ Counted
    BY DEF IInv
  <2>2. outputBytes <= Limit + 2
    <3>1. /\ Limit \in Nat /\ outputBytes \in Nat
          /\ Stopped("stdout") \in {0, 1} /\ Stopped("stderr") \in {0, 1}
      BY <2>1, StreamsAssumption DEF Typed, Stopped
    <3>2. outputBytes <= Limit \/ outputBytes <= Limit + Stopped("stdout") + Stopped("stderr")
      BY <2>1 DEF Counted, Typed
    <3> QED
      BY <3>1, <3>2
  <2>3. (caller = "end") = (outcome # "none")
    BY <2>1, Zenon DEF Typed
  <2>4. TypeOK
    BY <2>1, <2>2, <2>3 DEF TypeOK, Typed
  <2>5. outcome # "none" /\ reader["stdout"] # "off" => Ended /\ ~descendant
    BY <2>1 DEF Staged, Typed
  <2> QED
    BY <2>4, <2>5 DEF NothingIsLeft
<1> QED
  BY <1>1, IInvHolds, PTL

\* What run_process or streamed_toolless_codex accepts is all that the child wrote, of a
\* child that ended by itself in time; the output of a command is within the limit that
\* its two readers share, and the events of a role were all examined and are lawful, in
\* whatever order child, readers and caller ran.
THEOREM AcceptedOutputIsExamined == Spec => []AcceptedIsExamined
<1>1. IInv => AcceptedIsExamined
  <2> SUFFICES ASSUME IInv, outcome = "accepted", reader["stdout"] # "dead"
               PROVE  /\ kept = written /\ child = "exited" /\ ~timedOut
                      /\ kind = "command" => Bounded
                      /\ kind = "role" => /\ Lawful(written["stdout"])
                                          /\ "synchronization" \notin ToSet(written["stderr"])
    BY DEF AcceptedIsExamined
  <2>1. Typed /\ Staged /\ Whole /\ Counted /\ Judged
    BY DEF IInv
  <2>2. ~timedOut /\ ~Refused /\ Finished
    BY <2>1 DEF Staged
  <2>3. ~Marked
    BY <2>1, <2>2 DEF Refused, Marked, Typed
  <2>4. reader["stderr"] # "dead"
    BY <2>1 DEF Staged
  <2>5. \A s \in Streams : reader[s] = "done"
    BY <2>2, <2>4 DEF Finished, Streams
  <2>6. Ended /\ \A s \in Streams : written[s] = kept[s]
    BY <2>1, <2>3, <2>5 DEF Whole, Streams
  <2>7. kept = written
    BY <2>1, <2>6 DEF Typed
  <2>8. child = "exited"
    BY <2>1, <2>2, <2>3, <2>6 DEF Staged, Typed, Ended
  <2>9. kind = "command" => Bounded
    BY <2>1, <2>3 DEF Counted, Bounded, Marked
  <2>10. ASSUME kind = "role"
         PROVE  Lawful(written["stdout"]) /\ "synchronization" \notin ToSet(written["stderr"])
    <3>1. ~violated /\ lifecycle.thread /\ lifecycle.turn
      BY <2>2, <2>10 DEF Refused, Incomplete
    <3>2. /\ \A i \in DOMAIN kept["stdout"] : kept["stdout"][i] \in {"thread", "turn", "item"}
          /\ At("thread") # {} /\ At("turn") # {}
          /\ \A i, j \in At("thread") : i = j
          /\ \A i, j \in At("turn") : i = j
          /\ \A i \in At("thread"), j \in At("turn") : i < j
          /\ \A i \in DOMAIN kept["stderr"] : kept["stderr"][i] # "synchronization"
      BY <2>1, <2>10, <3>1 DEF Judged
    <3>3. Cardinality(At("thread")) = 1 /\ Cardinality(At("turn")) = 1
      <4>1. PICK i, j : At("thread") = {i} /\ At("turn") = {j}
        BY <3>2
      <4> QED
        BY <4>1, FS_Singleton
    <3>4. Lawful(kept["stdout"])
      BY <3>2, <3>3 DEF Lawful, At
    <3>5. "synchronization" \notin ToSet(kept["stderr"])
      BY <3>2 DEF ToSet
    <3> QED
      BY <2>7, <3>4, <3>5
  <2> QED
    BY <2>2, <2>7, <2>8, <2>9, <2>10
<1> QED
  BY <1>1, IInvHolds, PTL
================================================================================
