---------------------------- MODULE EvolutionProofs ----------------------------
(***************************************************************************)
(* Proofs about an experiment under v35, v36 and v37.                        *)
(*                                                                          *)
(* What a command may rely on after each of its steps is the inductive      *)
(* invariant: Process35, Process36 and Process37 say it per step, Store35,   *)
(* Store36 and Store37 say what the files keep while nobody works.  Admitted *)
(* says who runs beside whom.  The theorems about v36 need a lock that no    *)
(* live process loses; without it they are false, as the run on LockRace     *)
(* shows.                                                                    *)
(***************************************************************************)
EXTENDS Evolution, SequenceTheorems, FiniteSetTheorems, TLAPS

Writing35 == {"train35", "resume35", "ensure35", "restore35", "evaluate", "append", "hof35", "more35"}
Auditing35 == {"resume35", "ensure35", "restore35", "lock35", "audit35", "unlock35", "refuse35", "release35",
               "manifest35"}
Writing36 == {"probe36", "steal36", "create36", "write36", "resume36"} \cup Unlocking36
Auditing36 == {"load36", "evidence36", "score36"}
Writing37 == {"train37", "resume37", "journal37", "begin37", "head37", "evaluate", "append", "status37", "end37"}
Auditing37 == {"load37", "score37", "analysis37"}

\* The types, with the steps a process can be at and the generations it can have seen.
Points == {"idle"} \cup Writing35 \cup Auditing35 \cup Writing36 \cup Auditing36 \cup Writing37 \cup Auditing37
Saved == {s \in States : Len(s.chain) <= MaxGenerations}
Memory == [command : Commands \cup {"none"}, pc : Points, seen : Saved, source : States]

ProcTyped == /\ proc \in [Procs -> Memory]
             /\ \A p \in Procs : proc[p] = Idle <=> proc[p].pc = "idle"

Workflows == {"NONE", "TRAINING", "GENERATION_COMMITTED", "TRAINING_COMMITTED",
              "TRAINING_COMPLETE", "BUDGET_EXHAUSTED", "RELEASED"}

FilesTyped ==
  /\ state \in Saved
  /\ results \in [rows : Seq(Champions), torn : BOOLEAN]
  /\ hofFile \in Champions \cup {None}
  /\ status \in [workflow : Workflows, generations : 0 .. MaxGenerations, bound : BOOLEAN]
  /\ audit \in Audits \cup {None}
  /\ retained \subseteq Champions
  /\ intent \in Intents \cup {None}
  /\ context \in BOOLEAN
  /\ lock \in Locks \cup {None}

--------------------------------------------------------------------------------
(* The inductive invariant *)

\* The JSONL against the checkpoint: complete, one row behind, or one row behind
\* with a torn line.
Even == results.rows = state.chain /\ ~results.torn
Lagging == Committed(state) /\ Ahead(state) /\ ~results.torn
Whole == Len(state.chain) = MaxGenerations /\ Even

Behind == /\ results.rows = state.chain \/ (Committed(state) /\ Ahead(state))
          /\ results.torn => results.rows # state.chain
          /\ state.released => Committed(state)

Sealing == [state |-> state, rows |-> results.rows, hof |-> hofFile, audit |-> audit]

Writing(p) == proc[p].pc # "idle" /\ proc[p].command # "audit"
Auditing(p) == proc[p].pc # "idle" /\ proc[p].command = "audit"

\* Who may run beside whom.
Admitted ==
  /\ version = "v35" => \A p, q \in Procs : Writing(p) /\ p # q => proc[q].pc = "idle"
  /\ version \in {"v36", "v37"} => \A p, q \in Procs : Auditing(p) /\ Auditing(q) => p = q
  /\ version = "v37" => \A p, q \in Procs : Writing(p) /\ Writing(q) => p = q

Process35(p) ==
  /\ proc[p].pc \in {"idle"} \cup (IF Does(p, "audit") THEN Auditing35 ELSE Writing35)
  /\ proc[p].pc \notin {"idle", "train35", "resume35"} =>
       /\ Seen(p).chain = state.chain
       /\ Committed(state) \/ At(p, "evaluate")
       /\ Seen(p).released => state.released
       /\ ~Does(p, "audit") => ~state.released
  /\ proc[p].pc \notin {"idle", "train35", "resume35", "ensure35", "append"} => Even
  /\ At(p, "append") => Lagging
  /\ proc[p].pc \in {"lock35", "audit35", "unlock35", "refuse35", "release35", "manifest35"} => hofFile = Hof(state)
  /\ proc[p].pc \in {"unlock35", "release35", "manifest35"} => audit = Audit35(state)
  /\ At(p, "manifest35") => state.released

Store35 ==
  /\ state.released => audit = Audit35(state) /\ Even /\ hofFile = Hof(state)
  /\ manifest # None => state.released /\ manifest = Sealing
  /\ status.workflow # "BUDGET_EXHAUSTED"

Process36(p) ==
  /\ proc[p].pc \in {"idle"} \cup (IF Does(p, "audit") THEN Auditing36 ELSE Writing36)
  /\ At(p, "write36") => lock = [owner |-> p, written |-> FALSE]
  /\ proc[p].pc \in Unlocking36 => lock = Held(p)
  /\ proc[p].pc \in {"reconcile36", "retain36", "evaluate", "append", "status36"} =>
       Seen(p) = state /\ ~state.released /\ manifest = None
  /\ proc[p].pc \in {"retain36", "evaluate", "status36"} => Even
  /\ proc[p].pc \in {"reconcile36", "retain36"} => Committed(state)
  /\ At(p, "append") => Lagging
  /\ proc[p].pc \in {"evidence36", "score36"} => Committed(Seen(p))
  /\ Does(p, "continue") /\ proc[p].pc \in {"probe36", "steal36", "create36", "write36", "locked36"} =>
       Committed(Seen(p))
  /\ At(p, "score36") => audit = None
  /\ proc[p].pc \in {"intent36", "released36"} =>
        /\ Committed(state) /\ ~state.released /\ audit # None
        /\ audit.hof = Hof(state) /\ audit.source = state /\ audit.pass
  /\ At(p, "released36") => intent = [source |-> state, audit |-> audit]
  /\ proc[p].pc \in {"manifest36", "report36"} => state.released

Store36 ==
  /\ state.released =>
       /\ audit # None /\ audit.hof = Hof(state) /\ audit.pass
       /\ intent # None /\ intent.audit = audit /\ intent.source = audit.source
       /\ audit.source = [state EXCEPT !.released = FALSE]
  /\ manifest # None => state.released /\ manifest = Sealing
  /\ status.workflow # "BUDGET_EXHAUSTED"

Process37(p) ==
  /\ proc[p].pc \in {"idle"} \cup (IF Does(p, "audit") THEN Auditing37 ELSE Writing37)
  /\ proc[p].pc \notin {"idle", "train37", "resume37", "load37"} => Seen(p) = state
  /\ At(p, "journal37") => Committed(state)
  /\ proc[p].pc \in {"begin37", "head37", "evaluate", "status37", "end37"} => Even
  /\ At(p, "append") => Lagging
  /\ proc[p].pc \in {"head37", "evaluate", "append", "status37", "end37"} =>
       status.workflow \in {"TRAINING", "GENERATION_COMMITTED"}
  /\ proc[p].pc \in {"score37", "analysis37"} => Whole
  /\ At(p, "analysis37") => audit = Audit37(state)

Store37 ==
  /\ ~state.released
  /\ status.workflow = "TRAINING_COMPLETE" => Whole
  /\ status.workflow = "BUDGET_EXHAUSTED" => Even /\ status.generations = Len(state.chain)
  /\ audit # None => Whole /\ audit = Audit37(state)
  /\ manifest # None => manifest = audit /\ audit # None

Own(p) == /\ version = "v35" => Process35(p)
          /\ version = "v36" => Process36(p)
          /\ version = "v37" => Process37(p)

Stored == /\ version = "v35" => Store35
          /\ version = "v36" => Store36
          /\ version = "v37" => Store37

IInv == /\ version \in {"v35", "v36", "v37"} /\ version \in Versions
        /\ FilesTyped /\ ProcTyped
        /\ Behind /\ Admitted /\ Stored
        /\ \A p \in Procs : Own(p)

--------------------------------------------------------------------------------
(* The chain of generations *)

\* Appending a generation: what is in front of it and what it is.
LEMMA AppendFacts ==
  ASSUME NEW S, NEW s \in Seq(S), NEW e \in S
  PROVE  /\ Append(s, e) \in Seq(S) /\ Len(Append(s, e)) = Len(s) + 1
         /\ Append(s, e) # <<>>
         /\ Front(Append(s, e)) = s /\ Last(Append(s, e)) = e
<1>1. /\ Append(s, e) \in Seq(S) /\ Len(Append(s, e)) = Len(s) + 1
      /\ \A i \in 1 .. Len(s) : Append(s, e)[i] = s[i]
      /\ Append(s, e)[Len(s) + 1] = e
  BY AppendProperties
<1>2. Append(s, e) # <<>>
  BY <1>1, EmptySeq, LenProperties
<1>3. Last(Append(s, e)) = e
  BY <1>1 DEF Last
<1>4. Front(Append(s, e)) = SubSeq(Append(s, e), 1, Len(s))
  BY <1>1, LenProperties DEF Front
<1>5. /\ SubSeq(Append(s, e), 1, Len(s)) \in Seq(S)
      /\ Len(SubSeq(Append(s, e), 1, Len(s))) = Len(s)
      /\ \A i \in 1 .. Len(s) : SubSeq(Append(s, e), 1, Len(s))[i] = s[i]
  BY <1>1, LenProperties, SubSeqProperties
<1>6. SubSeq(Append(s, e), 1, Len(s)) = s
  BY <1>5, SeqEqual
<1> QED
  BY <1>1, <1>2, <1>3, <1>4, <1>6

\* A chain that is not empty is what is in front of its last generation, and that one.
LEMMA FrontFacts ==
  ASSUME NEW S, NEW s \in Seq(S), s # <<>>
  PROVE  /\ Front(s) \in Seq(S) /\ Len(Front(s)) = Len(s) - 1 /\ Front(s) # s
         /\ Last(s) \in S
         /\ Append(Front(s), Last(s)) = s
         /\ Len(s) \in Nat \ {0}
<1>1. Len(s) \in Nat \ {0}
  BY EmptySeq, LenProperties
<1>2. Last(s) \in S
  BY <1>1, ElementOfSeq DEF Last
<1>3. /\ Front(s) \in Seq(S) /\ Len(Front(s)) = Len(s) - 1
      /\ \A i \in 1 .. Len(s) - 1 : Front(s)[i] = s[i]
  <2>1. \A i \in 1 .. Len(s) - 1 : s[i] \in S
    BY <1>1, ElementOfSeq
  <2>2. PICK n \in Nat : n = Len(s) - 1
    BY <1>1
  <2>3. \A i \in 1 .. n : s[i] \in S
    BY <2>1, <2>2
  <2>4. /\ SubSeq(s, 1, n) \in Seq(S)
        /\ Len(SubSeq(s, 1, n)) = IF 1 <= n THEN n - 1 + 1 ELSE 0
        /\ \A i \in 1 .. n - 1 + 1 : SubSeq(s, 1, n)[i] = s[1 + i - 1]
    BY <2>3, SubSeqProperties
  <2> QED
    BY <1>1, <2>2, <2>4 DEF Front
<1>4. /\ Append(Front(s), Last(s)) \in Seq(S)
      /\ Len(Append(Front(s), Last(s))) = Len(s)
      /\ \A i \in 1 .. Len(s) - 1 : Append(Front(s), Last(s))[i] = s[i]
      /\ Append(Front(s), Last(s))[Len(s)] = s[Len(s)]
  BY <1>1, <1>2, <1>3, AppendProperties DEF Last
<1>5. \A i \in 1 .. Len(s) : Append(Front(s), Last(s))[i] = s[i]
  BY <1>1, <1>4
<1>6. Append(Front(s), Last(s)) = s
  BY <1>1, <1>4, <1>5, SeqEqual
<1> QED
  BY <1>1, <1>2, <1>3, <1>6

\* Two sequences of the same length need not be equal, but one is not as long as the
\* front of itself: a JSONL cannot be complete and one row behind.
LEMMA AheadIsNotEven ==
  ASSUME FilesTyped, Committed(state), Ahead(state)
  PROVE  results.rows # state.chain
<1>1. state.chain \in Seq(Champions) /\ state.chain # <<>>
  BY DEF FilesTyped, Saved, States, Committed
<1> QED
  BY <1>1, FrontFacts DEF Ahead

\* What the record of a checkpoint is made of, and the empty experiment.
LEMMA SavedFacts ==
  ASSUME NEW s \in Saved
  PROVE  /\ s = [chain |-> s.chain, released |-> s.released]
         /\ s.chain \in Seq(Champions) /\ s.released \in BOOLEAN
         /\ Len(s.chain) \in 0 .. MaxGenerations
         /\ Committed(s) => Hof(s) \in Champions /\ Generation(s) \in Champions
<1>1. /\ s = [chain |-> s.chain, released |-> s.released]
      /\ s.chain \in Seq(Champions) /\ s.released \in BOOLEAN
      /\ Len(s.chain) <= MaxGenerations
  BY DEF Saved, States
<1>2. Len(s.chain) \in 0 .. MaxGenerations
  BY <1>1, LenProperties, GenerationsAssumption
<1>3. Committed(s) => Hof(s) \in Champions /\ Len(s.chain) \in Nat \ {0}
  BY <1>1, FrontFacts DEF Committed, Hof
<1>4. Committed(s) => Generation(s) \in Champions
  BY <1>2, <1>3, GenerationsAssumption DEF Generation, Champions
<1> QED
  BY <1>1, <1>2, <1>3, <1>4

\* The checkpoint that is not there.
LEMMA NoStateFacts == NoState \in Saved /\ ~Committed(NoState) /\ NoState.chain = <<>> /\ ~NoState.released
  BY LenProperties, EmptySeq, GenerationsAssumption DEF NoState, Saved, States, Committed

\* A process that does nothing.
LEMMA IdleTyped == Idle \in Memory /\ Idle.pc = "idle" /\ Idle.command = "none" /\ Idle.seen = NoState
                   /\ Idle.source = NoState
<1>1. NoState \in Saved /\ NoState \in States
  BY NoStateFacts DEF Saved
<1> QED
  BY <1>1 DEF Idle, Memory, Points

--------------------------------------------------------------------------------
(* The memory of the processes *)

\* The step of p leaves the other processes alone.
Others(p) == \A q \in Procs \ {p} : proc'[q] = proc[q]

\* It leaves p idle, or with the command it runs.
Continues(p) == Others(p) /\ (proc'[p] = Idle \/ (proc[p].pc # "idle" /\ proc'[p].command = proc[p].command))

\* One process moves and the others stay.
LEMMA SetFacts ==
  ASSUME ProcTyped, NEW p \in Procs, NEW m \in Memory, m = Idle <=> m.pc = "idle",
         proc' = [proc EXCEPT ![p] = m]
  PROVE  ProcTyped' /\ Others(p) /\ proc'[p] = m
  BY DEF ProcTyped, Others

\* The fields of what a process remembers.
LEMMA MemoryFacts ==
  ASSUME ProcTyped, NEW p \in Procs
  PROVE  /\ proc[p] \in Memory
         /\ proc[p] = [command |-> proc[p].command, pc |-> proc[p].pc, seen |-> proc[p].seen, source |-> proc[p].source]
         /\ proc[p].command \in Commands \cup {"none"} /\ proc[p].pc \in Points
         /\ proc[p].seen \in Saved /\ proc[p].source \in States
  BY DEF ProcTyped, Memory

\* Go moves one process to another step of its command.
LEMMA GoFacts ==
  ASSUME ProcTyped, NEW p \in Procs, ~At(p, "idle"), NEW c \in Points \ {"idle"}, Go(p, c)
  PROVE  /\ ProcTyped' /\ Continues(p)
         /\ proc'[p].command = proc[p].command /\ proc'[p].pc = c
         /\ proc'[p].seen = proc[p].seen /\ proc'[p].source = proc[p].source
<1> DEFINE m == [proc[p] EXCEPT !.pc = c]
<1>1. /\ m \in Memory /\ m.pc = c /\ m.command = proc[p].command
      /\ m.seen = proc[p].seen /\ m.source = proc[p].source
  BY MemoryFacts DEF Memory
<1>2. proc' = [proc EXCEPT ![p] = m]
  BY DEF Go
<1>3. m # Idle
  BY <1>1, IdleTyped
<1> HIDE DEF m
<1>4. ProcTyped' /\ Others(p) /\ proc'[p] = m
  BY <1>1, <1>2, <1>3, SetFacts
<1> QED
  BY <1>1, <1>4 DEF Continues, At

\* Load remembers the checkpoint.
LEMMA LoadFacts ==
  ASSUME ProcTyped, NEW p \in Procs, ~At(p, "idle"), NEW c \in Points \ {"idle"}, Load(p, c), state \in Saved
  PROVE  /\ ProcTyped' /\ Continues(p)
         /\ proc'[p].command = proc[p].command /\ proc'[p].pc = c
         /\ proc'[p].seen = state /\ proc'[p].source = proc[p].source
<1> DEFINE m == [proc[p] EXCEPT !.pc = c, !.seen = state]
<1>1. /\ m \in Memory /\ m.pc = c /\ m.command = proc[p].command
      /\ m.seen = state /\ m.source = proc[p].source
  BY MemoryFacts DEF Memory
<1>2. proc' = [proc EXCEPT ![p] = m]
  BY DEF Load, ProcTyped
<1>3. m # Idle
  BY <1>1, IdleTyped
<1> HIDE DEF m
<1>4. ProcTyped' /\ Others(p) /\ proc'[p] = m
  BY <1>1, <1>2, <1>3, SetFacts
<1> QED
  BY <1>1, <1>4 DEF Continues, At

\* Finish forgets what was loaded.
LEMMA FinishFacts ==
  ASSUME ProcTyped, NEW p \in Procs, ~At(p, "idle"), NEW c \in Points \ {"idle"}, Finish(p, c)
  PROVE  /\ ProcTyped' /\ Continues(p)
         /\ proc'[p].command = proc[p].command /\ proc'[p].pc = c
         /\ proc'[p].seen = NoState /\ proc'[p].source = NoState
<1> DEFINE m == Working(proc[p].command, c)
<1>1. /\ m \in Memory /\ m.pc = c /\ m.command = proc[p].command
      /\ m.seen = NoState /\ m.source = NoState
  BY MemoryFacts, IdleTyped DEF Memory, Working
<1>2. proc' = [proc EXCEPT ![p] = m]
  BY DEF Finish, ProcTyped
<1>3. m # Idle
  BY <1>1, IdleTyped
<1> HIDE DEF m
<1>4. ProcTyped' /\ Others(p) /\ proc'[p] = m
  BY <1>1, <1>2, <1>3, SetFacts
<1> QED
  BY <1>1, <1>4 DEF Continues, At

\* Exit makes a process idle.
LEMMA ExitFacts ==
  ASSUME ProcTyped, NEW p \in Procs, Exit(p)
  PROVE  ProcTyped' /\ Continues(p) /\ proc'[p] = Idle /\ proc'[p].pc = "idle" /\ proc'[p].command = "none"
<1>1. ProcTyped' /\ Others(p) /\ proc'[p] = Idle
  BY IdleTyped, SetFacts DEF Exit
<1> QED
  BY <1>1, IdleTyped DEF Continues

\* A process that goes on with its command admits nobody new.
LEMMA AdmittedKept ==
  ASSUME Admitted, NEW p \in Procs, Continues(p), version' = version
  PROVE  Admitted'
<1>1. \A q \in Procs : /\ Writing(q)' => Writing(q)
                       /\ Auditing(q)' => Auditing(q)
                       /\ proc[q].pc = "idle" => proc'[q].pc = "idle"
  BY IdleTyped DEF Continues, Others, Writing, Auditing
<1> QED
  BY <1>1, Zenon DEF Admitted

--------------------------------------------------------------------------------
(* What the steps shared by the versions do to the files *)

\* Steps that write no file keep what is said of the files.
LEMMA FilesKept ==
  ASSUME FilesTyped, Behind, UNCHANGED <<files, lock>>
  PROVE  /\ FilesTyped' /\ Behind'
         /\ state' = state /\ results' = results /\ hofFile' = hofFile /\ status' = status /\ audit' = audit
         /\ retained' = retained /\ intent' = intent /\ manifest' = manifest /\ context' = context
         /\ lock' = lock
<1>1. /\ state' = state /\ results' = results /\ hofFile' = hofFile /\ status' = status /\ audit' = audit
      /\ retained' = retained /\ intent' = intent /\ manifest' = manifest /\ context' = context
      /\ lock' = lock
  BY DEF files
<1>2. FilesTyped'
  BY <1>1 DEF FilesTyped
<1>3. Behind'
  BY <1>1 DEF Behind, Ahead, Committed
<1> QED
  BY <1>1, <1>2, <1>3

\* The fields of the JSONL.
LEMMA ResultsFacts ==
  ASSUME FilesTyped
  PROVE  results = [rows |-> results.rows, torn |-> results.torn] /\ results.rows \in Seq(Champions)
         /\ results.torn \in BOOLEAN
  BY DEF FilesTyped

\* The row of the last generation completes a JSONL that lacks it.
LEMMA AppendedFacts ==
  ASSUME FilesTyped, Lagging, NEW s \in Saved, s.chain = state.chain
  PROVE  Appended(s) = [rows |-> state.chain, torn |-> FALSE] /\ results.rows # state.chain
<1>1. state.chain \in Seq(Champions) /\ state.chain # <<>> /\ results.rows = Front(state.chain) /\ ~results.torn
  BY SavedFacts DEF FilesTyped, Lagging, Committed, Ahead
<1>2. Append(results.rows, Hof(s)) = state.chain
  BY <1>1, FrontFacts DEF Hof
<1>3. Appended(s) = [results EXCEPT !.rows = Append(@, Hof(s))]
  BY <1>1 DEF Appended
<1>4. Appended(s) = [rows |-> Append(results.rows, Hof(s)), torn |-> results.torn]
  BY <1>3, ResultsFacts
<1>5. results.torn = FALSE
  BY <1>1, ResultsFacts
<1> QED
  BY <1>1, <1>2, <1>4, <1>5, AheadIsNotEven DEF Lagging

\* A commit adds one generation to the checkpoint and leaves the journal one row behind.
LEMMA CommitFacts ==
  ASSUME FilesTyped, ProcTyped, NEW p \in Procs, At(p, "evaluate"), Commit(p), Seen(p).chain = state.chain
  PROVE  /\ ProcTyped' /\ Continues(p)
         /\ proc'[p].command = proc[p].command /\ proc'[p].pc = "append"
         /\ proc'[p].seen = state' /\ proc'[p].source = proc[p].source
         /\ FilesTyped' /\ Len(state.chain) < MaxGenerations
         /\ state'.released = FALSE
         /\ \E h \in Champions : state'.chain = Append(state.chain, h)
         /\ Committed(state)' /\ Front(state'.chain) = state.chain
         /\ UNCHANGED <<version, results, hofFile, status, audit, retained, intent, manifest, context, lock>>
<1>1. /\ Len(state.chain) < MaxGenerations
      /\ UNCHANGED <<version, results, hofFile, status, audit, retained, intent, manifest, context, lock>>
  BY DEF Commit
<1>2. PICK h \in Evaluated(Seen(p)) :
        /\ state' = [chain |-> Append(Seen(p).chain, h), released |-> FALSE]
        /\ proc' = [proc EXCEPT ![p].pc = "append", ![p].seen = [chain |-> Append(Seen(p).chain, h), released |-> FALSE]]
  BY DEF Commit
<1>3. state.chain \in Seq(Champions) /\ Len(state.chain) \in 0 .. MaxGenerations
  BY SavedFacts DEF FilesTyped
<1>4. h \in Champions
  <2>1. Seen(p) \in Saved
    BY MemoryFacts DEF Seen
  <2>2. 0 \in Champions /\ Len(Seen(p).chain) \in Champions
    BY <1>1, <1>3, GenerationsAssumption DEF Champions
  <2> QED
    BY <1>2, <2>1, <2>2, SavedFacts DEF Evaluated
<1>5. /\ Append(state.chain, h) \in Seq(Champions) /\ Len(Append(state.chain, h)) = Len(state.chain) + 1
      /\ Append(state.chain, h) # <<>> /\ Front(Append(state.chain, h)) = state.chain
  BY <1>3, <1>4, AppendFacts
<1>6. state' = [chain |-> Append(state.chain, h), released |-> FALSE]
  BY <1>2
<1>7. state' \in Saved
  BY <1>1, <1>3, <1>5, <1>6, GenerationsAssumption DEF Saved, States
<1>8. FilesTyped'
  BY <1>1, <1>7 DEF FilesTyped
<1>9. /\ ProcTyped' /\ Continues(p)
      /\ proc'[p].command = proc[p].command /\ proc'[p].pc = "append"
      /\ proc'[p].seen = state' /\ proc'[p].source = proc[p].source
  <2> DEFINE m == [proc[p] EXCEPT !.pc = "append", !.seen = state']
  <2>1. /\ m \in Memory /\ m.pc = "append" /\ m.command = proc[p].command
        /\ m.seen = state' /\ m.source = proc[p].source
    BY <1>7, MemoryFacts DEF Memory, Points, Writing35
  <2>2. proc' = [proc EXCEPT ![p] = m]
    BY <1>2, <1>6 DEF Seen
  <2>3. m # Idle
    BY <2>1, IdleTyped
  <2> HIDE DEF m
  <2>4. ProcTyped' /\ Others(p) /\ proc'[p] = m
    BY <2>1, <2>2, <2>3, SetFacts
  <2> QED
    BY <2>1, <2>4 DEF Continues, At
<1> QED
  BY <1>1, <1>4, <1>5, <1>6, <1>8, <1>9 DEF Committed

\* A torn line: the row of the last generation is the only one that can tear.
LEMMA TearFacts ==
  ASSUME FilesTyped, ProcTyped, Behind, Lagging, NEW p \in Procs, DieAppending(p)
  PROVE  /\ FilesTyped' /\ ProcTyped' /\ Continues(p) /\ proc'[p] = Idle /\ proc'[p].pc = "idle"
         /\ Behind' /\ results' = [rows |-> results.rows, torn |-> TRUE]
         /\ lock' = Abandoned(p)
         /\ UNCHANGED <<version, state, hofFile, status, audit, retained, intent, manifest, context>>
<1>1. /\ results' = [rows |-> results.rows, torn |-> TRUE]
      /\ lock' = Abandoned(p)
      /\ UNCHANGED <<version, state, hofFile, status, audit, retained, intent, manifest, context>>
      /\ Exit(p)
  BY ResultsFacts DEF DieAppending
<1>2. lock' \in Locks \cup {None}
  BY <1>1 DEF FilesTyped, Abandoned, Locks
<1>3. FilesTyped'
  BY <1>1, <1>2, ResultsFacts DEF FilesTyped
<1>4. Behind'
  BY <1>1, AheadIsNotEven DEF Behind, Lagging, Ahead, Committed
<1> QED
  BY <1>1, <1>3, <1>4, ExitFacts

--------------------------------------------------------------------------------
(* v35: each step keeps the invariant *)

Held35 == /\ version = "v35"
          /\ FilesTyped /\ ProcTyped /\ Behind /\ Admitted /\ Store35
          /\ \A q \in Procs : Process35(q)

Kept35(p) == /\ FilesTyped' /\ ProcTyped' /\ Behind' /\ Continues(p) /\ Store35'
             /\ Process35(p)'
             /\ \A q \in Procs \ {p} : Process35(q)'

\* A step that leaves the files alone.
LEMMA Quiet35 ==
  ASSUME Held35, NEW p \in Procs, UNCHANGED <<files, lock>>, Others(p)
  PROVE  FilesTyped' /\ Behind' /\ Store35' /\ \A q \in Procs \ {p} : Process35(q)'
<1>1. /\ FilesTyped' /\ Behind'
      /\ state' = state /\ results' = results /\ hofFile' = hofFile /\ status' = status /\ audit' = audit
      /\ manifest' = manifest
  BY FilesKept DEF Held35
<1>2. Store35'
  BY <1>1 DEF Held35, Store35, Sealing, Audit35, Even, Hof
<1>3. ASSUME NEW q \in Procs \ {p} PROVE Process35(q)'
  <2>1. Process35(q) /\ proc'[q] = proc[q]
    BY DEF Held35, Others
  <2> QED
    BY <1>1, <2>1 DEF Process35, Does, At, Seen, Committed, Even, Lagging, Ahead, Hof, Audit35
<1> QED
  BY <1>1, <1>2, <1>3

\* v35: a process ends and writes nothing.
LEMMA Exit35 ==
  ASSUME Held35, NEW p \in Procs, Exit(p), UNCHANGED <<files, lock>>
  PROVE  Kept35(p)
<1>1. ProcTyped' /\ Continues(p) /\ proc'[p].pc = "idle"
  BY ExitFacts DEF Held35
<1>2. Process35(p)'
  BY <1>1 DEF Process35, At
<1>3. Others(p)
  BY <1>1 DEF Continues
<1> QED
  BY <1>1, <1>2, <1>3, Quiet35 DEF Kept35

\* A process that writes works alone, so what it changes concerns nobody else.
LEMMA Alone35 ==
  ASSUME Held35, NEW p \in Procs, Writing(p), Others(p)
  PROVE  \A q \in Procs \ {p} : Process35(q)'
<1>1. ASSUME NEW q \in Procs \ {p} PROVE Process35(q)'
  <2>1. proc'[q].pc = "idle"
    BY DEF Held35, Admitted, Others
  <2> QED
    BY <2>1 DEF Process35, At
<1> QED
  BY <1>1

\* v35 train: the experiment starts.
LEMMA Train35Keeps ==
  ASSUME Held35, NEW p \in Procs, Train35(p)
  PROVE  Kept35(p)
<1>1. /\ At(p, "train35")
      /\ UNCHANGED <<version, state, results, hofFile, status, audit, retained, intent, manifest, lock>>
  BY DEF Train35
<1>2. Writing(p)
  BY <1>1 DEF Held35, Process35, Writing, At, Does, Auditing35
<1>3. CASE Occupied35 /\ Exit(p) /\ UNCHANGED context
  <2>1. UNCHANGED <<files, lock>>
    BY <1>1, <1>3 DEF files
  <2> QED
    BY <1>3, <2>1, Exit35
<1>4. CASE ~Occupied35 /\ Load(p, "evaluate") /\ context' = TRUE
  <2>1. ~Committed(state) /\ results.rows = <<>> /\ ~results.torn /\ audit = None
    BY <1>4 DEF Occupied35
  <2>2. /\ ProcTyped' /\ Continues(p) /\ proc'[p].command = proc[p].command
        /\ proc'[p].pc = "evaluate" /\ proc'[p].seen = state
    BY <1>1, <1>4, LoadFacts DEF Held35, FilesTyped, At, Points, Writing35
  <2>3. FilesTyped'
    BY <1>1, <1>4 DEF Held35, FilesTyped
  <2>4. Behind'
    BY <1>1 DEF Held35, Behind, Committed, Ahead
  <2>5. Store35'
    BY <1>1 DEF Held35, Store35, Sealing, Audit35, Even, Hof
  <2>6. Process35(p)'
    <3>1. ~state.released /\ Even
      BY <2>1 DEF Held35, Behind, Even, Committed
    <3>2. proc'[p].command # "audit"
      BY <1>2, <2>2 DEF Writing
    <3> QED
      BY <1>1, <2>2, <3>1, <3>2 DEF Process35, Does, At, Seen, Even, Writing35
  <2> QED
    BY <1>2, <2>2, <2>3, <2>4, <2>5, <2>6, Alone35 DEF Kept35, Continues
<1> QED
  BY <1>3, <1>4 DEF Train35

\* v35 resume: the checkpoint is loaded, released or not.
LEMMA Resume35Keeps ==
  ASSUME Held35, NEW p \in Procs, Resume35(p)
  PROVE  Kept35(p)
<1>1. At(p, "resume35") /\ UNCHANGED <<files, lock>>
  BY DEF Resume35
<1>2. CASE Exit(p)
  BY <1>1, <1>2, Exit35
<1>3. CASE Committed(state) /\ (state.released => Does(p, "audit")) /\ Load(p, "ensure35")
  <2>1. /\ ProcTyped' /\ Continues(p) /\ proc'[p].command = proc[p].command
        /\ proc'[p].pc = "ensure35" /\ proc'[p].seen = state
    BY <1>1, <1>3, LoadFacts DEF Held35, FilesTyped, At, Points, Writing35
  <2>2. /\ FilesTyped' /\ Behind' /\ Store35'
        /\ \A q \in Procs \ {p} : Process35(q)'
    BY <1>1, <2>1, Quiet35 DEF Continues
  <2>3. Process35(p)'
    <3>1. state' = state
      BY <1>1 DEF files
    <3> QED
      BY <1>3, <2>1, <3>1 DEF Process35, Does, At, Seen, Committed, Writing35, Auditing35
  <2> QED
    BY <2>1, <2>2, <2>3 DEF Kept35
<1> QED
  BY <1>2, <1>3 DEF Resume35

\* What a process that looks for its row knows.
LEMMA Ensuring35 ==
  ASSUME Held35, NEW p \in Procs, At(p, "ensure35") \/ At(p, "append")
  PROVE  /\ Seen(p) \in Saved /\ Seen(p).chain = state.chain /\ Committed(state)
         /\ Seen(p).released => state.released
         /\ ~Does(p, "audit") => ~state.released
         /\ At(p, "append") => ~Does(p, "audit")
         /\ Present35(Seen(p)) => Even
         /\ Next35Row(Seen(p)) => Lagging /\ ~state.released
         /\ At(p, "append") => Lagging
<1>1. Seen(p) \in Saved
  BY MemoryFacts DEF Seen, Held35
<1>2. /\ Seen(p).chain = state.chain
      /\ Committed(state) \/ At(p, "evaluate")
      /\ Seen(p).released => state.released
      /\ ~Does(p, "audit") => ~state.released
      /\ At(p, "append") => Lagging
      /\ proc[p].pc \in (IF Does(p, "audit") THEN Auditing35 ELSE Writing35)
  BY DEF Held35, Process35, At, Seen
<1>3. Committed(state)
  BY <1>2 DEF At
<1>4. At(p, "append") => ~Does(p, "audit")
  BY <1>2 DEF At, Auditing35
<1>5. Present35(Seen(p)) => Even
  BY <1>2 DEF Present35, Consistent, Even
<1>6. ASSUME Next35Row(Seen(p)) PROVE Lagging /\ ~state.released
  <2>1. ~results.torn /\ Len(results.rows) = Len(state.chain) - 1
    BY <1>2, <1>6 DEF Next35Row
  <2>2. Len(state.chain) \in Nat
    BY SavedFacts DEF Held35, FilesTyped
  <2>3. results.rows # state.chain
    BY <2>1, <2>2
  <2>4. Ahead(state)
    BY <2>3 DEF Held35, Behind
  <2> QED
    BY <1>3, <2>1, <2>3, <2>4 DEF Lagging, Held35, Store35, Even
<1> QED
  BY <1>1, <1>2, <1>3, <1>4, <1>5, <1>6

\* v35: the row of the checkpoint is in the JSONL, or is appended to it.
LEMMA Ensure35Keeps ==
  ASSUME Held35, NEW p \in Procs, Ensure35(p) \/ Append35(p)
  PROVE  Kept35(p)
<1>1. PICK after \in {"restore35", "hof35"} :
        /\ EnsureResult(p, after)
        /\ \/ At(p, "ensure35") /\ after = "restore35"
           \/ At(p, "append") /\ after = "hof35"
  BY DEF Ensure35, Append35
<1>2. UNCHANGED <<version, state, hofFile, status, audit, retained, intent, manifest, context, lock>>
  BY <1>1 DEF EnsureResult
<1>3. /\ Seen(p) \in Saved /\ Seen(p).chain = state.chain /\ Committed(state)
      /\ Seen(p).released => state.released
      /\ ~Does(p, "audit") => ~state.released
      /\ At(p, "append") => ~Does(p, "audit")
      /\ Present35(Seen(p)) => Even
      /\ Next35Row(Seen(p)) => Lagging /\ ~state.released
      /\ At(p, "append") => Lagging
  BY <1>1, Ensuring35
<1>4. CASE ~Present35(Seen(p)) /\ ~Next35Row(Seen(p)) /\ Exit(p) /\ UNCHANGED results
  BY <1>2, <1>4, Exit35 DEF files
<1>5. ASSUME Go(p, after), Even', results' = [rows |-> state.chain, torn |-> FALSE],
             Next35Row(Seen(p)) \/ results' = results
      PROVE  Kept35(p)
  <2>1. /\ ProcTyped' /\ Continues(p) /\ proc'[p].command = proc[p].command
        /\ proc'[p].pc = after /\ proc'[p].seen = proc[p].seen
    BY <1>1, <1>5, GoFacts DEF Held35, At, Points, Writing35
  <2>2. FilesTyped'
    <3>1. state.chain \in Seq(Champions)
      BY SavedFacts DEF Held35, FilesTyped
    <3> QED
      BY <1>2, <1>5, <3>1 DEF Held35, FilesTyped
  <2>3. Behind'
    BY <1>2, <1>3, <1>5 DEF Held35, Behind, Even, Committed
  <2>4. Store35'
    BY <1>2, <1>3, <1>5 DEF Held35, Store35, Sealing, Audit35, Even, Hof
  <2>5. Process35(p)'
    BY <1>1, <1>2, <1>3, <1>5, <2>1 DEF Process35, Does, At, Seen, Committed, Writing35, Auditing35
  <2>6. ASSUME NEW q \in Procs \ {p} PROVE Process35(q)'
    <3>1. Process35(q) /\ proc'[q] = proc[q]
      BY <2>1 DEF Held35, Continues, Others
    <3>2. ~At(q, "append")
      <4>1. proc[p].pc # "idle"
        BY <1>1 DEF At
      <4>2. proc[q].pc = "append" => Writing(q)
        BY <3>1 DEF Process35, Does, Auditing35, Writing
      <4> QED
        BY <4>1, <4>2 DEF Held35, Admitted, At
    <3> QED
      BY <1>2, <1>5, <3>1, <3>2 DEF Process35, Does, At, Seen, Committed, Hof, Audit35
  <2> QED
    BY <2>1, <2>2, <2>3, <2>4, <2>5, <2>6 DEF Kept35
<1>6. CASE Present35(Seen(p)) /\ Go(p, after) /\ UNCHANGED results
  <2>1. Even
    BY <1>3, <1>6
  <2>2. results' = [rows |-> state.chain, torn |-> FALSE]
    BY <1>6, <2>1, ResultsFacts DEF Even, Held35
  <2>3. Even'
    BY <1>2, <1>6, <2>1 DEF Even
  <2> QED
    BY <1>5, <1>6, <2>2, <2>3
<1>7. CASE Next35Row(Seen(p)) /\ Go(p, after) /\ results' = Appended(Seen(p))
  <2>1. results' = [rows |-> state.chain, torn |-> FALSE]
    BY <1>3, <1>7, AppendedFacts DEF Held35
  <2>2. Even'
    BY <1>2, <2>1 DEF Even
  <2> QED
    BY <1>5, <1>7, <2>1, <2>2
<1> QED
  BY <1>1, <1>4, <1>6, <1>7 DEF EnsureResult

\* v35: death in the middle of a row.
LEMMA Tear35Keeps ==
  ASSUME Held35, NEW p \in Procs, Tear35(p)
  PROVE  Kept35(p)
<1>1. (At(p, "ensure35") \/ At(p, "append")) /\ Next35Row(Seen(p)) /\ DieAppending(p)
  BY DEF Tear35
<1>2. Lagging /\ ~state.released
  BY <1>1, Ensuring35
<1>3. /\ FilesTyped' /\ ProcTyped' /\ Continues(p) /\ proc'[p].pc = "idle" /\ Behind'
      /\ UNCHANGED <<version, state, hofFile, status, audit, retained, intent, manifest, context>>
      /\ results' = [rows |-> results.rows, torn |-> TRUE]
  BY <1>1, <1>2, TearFacts DEF Held35
<1>4. Store35'
  BY <1>2, <1>3 DEF Held35, Store35
<1>5. Process35(p)'
  BY <1>3 DEF Process35, At
<1>6. ASSUME NEW q \in Procs \ {p} PROVE Process35(q)'
  <2>1. Process35(q) /\ proc'[q] = proc[q]
    BY <1>3 DEF Held35, Continues, Others
  <2>2. ~Even
    BY <1>2, AheadIsNotEven DEF Held35, Lagging, Even
  <2>3. ~At(q, "append")
    <3>1. proc[p].pc # "idle"
      BY <1>1 DEF At
    <3>2. proc[q].pc = "append" => Writing(q)
      BY <2>1 DEF Process35, Does, Auditing35, Writing
    <3> QED
      BY <3>1, <3>2 DEF Held35, Admitted, At
  <2> QED
    BY <1>3, <2>1, <2>2, <2>3 DEF Process35, Does, At, Seen, Committed, Hof, Audit35
<1> QED
  BY <1>3, <1>4, <1>5, <1>6 DEF Kept35

\* v35: the portable Hall of Fame.
LEMMA SaveHof35Keeps ==
  ASSUME Held35, NEW p \in Procs, SaveHof35(p)
  PROVE  Kept35(p)
<1>1. PICK next \in {"lock35", "evaluate", "more35"} :
        /\ Go(p, next)
        /\ \/ At(p, "restore35") /\ next = (IF Does(p, "audit") THEN "lock35" ELSE "evaluate")
           \/ At(p, "hof35") /\ next = "more35"
  BY DEF SaveHof35
<1>2. /\ hofFile' = Hof(Seen(p))
      /\ UNCHANGED <<version, state, results, status, audit, retained, intent, manifest, context, lock>>
  BY DEF SaveHof35
<1>3. /\ Process35(p) /\ Seen(p).chain = state.chain /\ Committed(state) /\ Even
      /\ Seen(p).released => state.released
      /\ ~Does(p, "audit") => ~state.released
      /\ At(p, "hof35") => ~Does(p, "audit")
  BY <1>1 DEF Held35, Process35, At, Does, Auditing35
<1>4. hofFile' = Hof(state) /\ Hof(state) \in Champions
  BY <1>2, <1>3, SavedFacts DEF Hof, Held35, FilesTyped
<1>5. /\ ProcTyped' /\ Continues(p) /\ proc'[p].command = proc[p].command
      /\ proc'[p].pc = next /\ proc'[p].seen = proc[p].seen
  BY <1>1, GoFacts DEF Held35, At, Points, Writing35, Auditing35
<1>6. FilesTyped' /\ Behind'
  BY <1>2, <1>4 DEF Held35, FilesTyped, Behind, Ahead, Committed
<1>7. Store35'
  BY <1>2, <1>4 DEF Held35, Store35, Sealing, Audit35, Even, Hof
<1>8. Process35(p)'
  BY <1>1, <1>2, <1>3, <1>4, <1>5 DEF Process35, Does, At, Seen, Committed, Even, Hof, Writing35, Auditing35
<1>9. ASSUME NEW q \in Procs \ {p} PROVE Process35(q)'
  <2>1. Process35(q) /\ proc'[q] = proc[q]
    BY <1>5 DEF Held35, Continues, Others
  <2> QED
    BY <1>2, <1>4, <2>1 DEF Process35, Does, At, Seen, Committed, Even, Lagging, Ahead, Hof, Audit35
<1> QED
  BY <1>5, <1>6, <1>7, <1>8, <1>9 DEF Kept35

\* v35: a generation is committed.
LEMMA Evaluate35Keeps ==
  ASSUME Held35, NEW p \in Procs, Evaluate35(p)
  PROVE  Kept35(p)
<1>1. At(p, "evaluate") /\ Commit(p)
  BY DEF Evaluate35
<1>2. /\ Seen(p).chain = state.chain /\ Even /\ ~Does(p, "audit") /\ ~state.released
  BY <1>1 DEF Held35, Process35, At, Does, Seen, Auditing35
<1>3. /\ ProcTyped' /\ Continues(p)
      /\ proc'[p].command = proc[p].command /\ proc'[p].pc = "append"
      /\ proc'[p].seen = state'
      /\ FilesTyped' /\ state'.released = FALSE
      /\ Committed(state)' /\ Front(state'.chain) = state.chain
      /\ UNCHANGED <<version, results, hofFile, status, audit, retained, intent, manifest, context, lock>>
  BY <1>1, <1>2, CommitFacts DEF Held35
<1>4. Lagging'
  BY <1>2, <1>3 DEF Lagging, Even, Ahead, Committed
<1>5. Behind'
  BY <1>3, <1>4 DEF Behind, Lagging, Ahead, Committed
<1>6. manifest = None
  BY <1>2 DEF Held35, Store35
<1>7. Store35'
  BY <1>3, <1>6 DEF Held35, Store35
<1>8. Process35(p)'
  BY <1>2, <1>3, <1>4 DEF Process35, Does, At, Seen, Committed, Writing35
<1>9. Writing(p)
  BY <1>1, <1>2 DEF Writing, At, Does
<1> QED
  BY <1>3, <1>5, <1>7, <1>8, <1>9, Alone35 DEF Kept35, Continues

\* v35: another generation, or the end.
LEMMA More35Keeps ==
  ASSUME Held35, NEW p \in Procs, More35(p)
  PROVE  Kept35(p)
<1>1. At(p, "more35") /\ UNCHANGED <<files, lock>>
  BY DEF More35
<1>2. CASE Exit(p)
  BY <1>1, <1>2, Exit35
<1>3. CASE Go(p, "evaluate")
  <2>1. /\ ProcTyped' /\ Continues(p) /\ proc'[p].command = proc[p].command
        /\ proc'[p].pc = "evaluate" /\ proc'[p].seen = proc[p].seen
    BY <1>1, <1>3, GoFacts DEF Held35, At, Points, Writing35
  <2>2. /\ FilesTyped' /\ Behind' /\ Store35'
        /\ \A q \in Procs \ {p} : Process35(q)'
    BY <1>1, <2>1, Quiet35 DEF Continues
  <2>3. Process35(p)'
    <3>1. state' = state /\ results' = results
      BY <1>1 DEF files
    <3> QED
      BY <1>1, <2>1, <3>1 DEF Held35, Process35, Does, At, Seen, Committed, Even, Writing35, Auditing35
  <2> QED
    BY <2>1, <2>2, <2>3 DEF Kept35
<1> QED
  BY <1>2, <1>3 DEF More35

\* Taking and giving back the audit lock; nothing else of the invariant is about it.
LEMMA Relock35 ==
  ASSUME Held35, NEW p \in Procs, UNCHANGED files, Others(p), lock' \in Locks \cup {None}
  PROVE  FilesTyped' /\ Behind' /\ Store35' /\ \A q \in Procs \ {p} : Process35(q)'
<1>1. /\ state' = state /\ results' = results /\ hofFile' = hofFile /\ status' = status /\ audit' = audit
      /\ retained' = retained /\ intent' = intent /\ manifest' = manifest /\ context' = context
  BY DEF files
<1>2. FilesTyped' /\ Behind'
  BY <1>1 DEF Held35, FilesTyped, Behind, Ahead, Committed
<1>3. Store35'
  BY <1>1 DEF Held35, Store35, Sealing, Audit35, Even, Hof
<1>4. ASSUME NEW q \in Procs \ {p} PROVE Process35(q)'
  <2>1. Process35(q) /\ proc'[q] = proc[q]
    BY DEF Held35, Others
  <2> QED
    BY <1>1, <2>1 DEF Process35, Does, At, Seen, Committed, Even, Lagging, Ahead, Hof, Audit35
<1> QED
  BY <1>2, <1>3, <1>4

\* v35: a process ends and its audit lock changes hands.
LEMMA ExitRelocking35 ==
  ASSUME Held35, NEW p \in Procs, Exit(p), UNCHANGED files, lock' \in Locks \cup {None}
  PROVE  Kept35(p)
<1>1. ProcTyped' /\ Continues(p) /\ proc'[p].pc = "idle"
  BY ExitFacts DEF Held35
<1>2. Process35(p)'
  BY <1>1 DEF Process35, At
<1>3. Others(p)
  BY <1>1 DEF Continues
<1> QED
  BY <1>1, <1>2, <1>3, Relock35 DEF Kept35

\* v35 audit: the lock file.
LEMMA LockAudit35Keeps ==
  ASSUME Held35, NEW p \in Procs, LockAudit35(p)
  PROVE  Kept35(p)
<1>1. At(p, "lock35") /\ UNCHANGED files
  BY DEF LockAudit35
<1>2. CASE lock # None /\ Exit(p) /\ UNCHANGED lock
  BY <1>1, <1>2, Exit35
<1>3. CASE lock = None /\ lock' = Held(p) /\ Go(p, "audit35")
  <2>1. /\ ProcTyped' /\ Continues(p) /\ proc'[p].command = proc[p].command
        /\ proc'[p].pc = "audit35" /\ proc'[p].seen = proc[p].seen
    BY <1>1, <1>3, GoFacts DEF Held35, At, Points, Auditing35
  <2>2. lock' \in Locks \cup {None}
    BY <1>3 DEF Held, Locks
  <2>3. /\ FilesTyped' /\ Behind' /\ Store35'
        /\ \A q \in Procs \ {p} : Process35(q)'
    BY <1>1, <2>1, <2>2, Relock35 DEF Continues
  <2>4. Process35(p)'
    <3>1. state' = state /\ results' = results /\ hofFile' = hofFile
      BY <1>1 DEF files
    <3> QED
      BY <1>1, <2>1, <3>1 DEF Held35, Process35, Does, At, Seen, Committed, Even, Hof, Writing35, Auditing35
  <2> QED
    BY <2>1, <2>3, <2>4 DEF Kept35
<1> QED
  BY <1>2, <1>3 DEF LockAudit35

\* v35 audit: its evidence.
LEMMA WriteAudit35Keeps ==
  ASSUME Held35, NEW p \in Procs, WriteAudit35(p)
  PROVE  Kept35(p)
<1> DEFINE own == Audit35(Seen(p))
<1>1. /\ At(p, "audit35")
      /\ UNCHANGED <<version, state, results, hofFile, status, retained, intent, manifest, context, lock>>
  BY DEF WriteAudit35
<1>2. /\ Process35(p) /\ Seen(p).chain = state.chain /\ Committed(state) /\ Even /\ hofFile = Hof(state)
      /\ Seen(p).released => state.released
      /\ Does(p, "audit")
  BY <1>1 DEF Held35, Process35, At, Does, Writing35
<1>3. own = Audit35(state) /\ own \in Audits /\ own # None
  <2>1. own = Audit35(state)
    BY <1>2 DEF Audit35, Hof
  <2>2. Audit35(state) \in Audits
    BY <1>2, SavedFacts DEF Audits, Audit35, Held35, FilesTyped
  <2> QED
    BY <2>1, <2>2, AbsenceAssumption
<1> HIDE DEF own
<1>4. PICK next \in {"unlock35", "refuse35"} :
        /\ Go(p, next)
        /\ next = "unlock35" => audit' = own /\ audit \in {None, own}
        /\ next = "refuse35" => audit' = audit
  BY Zenon DEF WriteAudit35, own
<1>5. /\ ProcTyped' /\ Continues(p) /\ proc'[p].command = proc[p].command
      /\ proc'[p].pc = next /\ proc'[p].seen = proc[p].seen
  BY <1>1, <1>4, GoFacts DEF Held35, At, Points, Auditing35
<1>6. /\ audit' \in Audits \cup {None}
      /\ audit = Audit35(state) => audit' = audit
  BY <1>3, <1>4 DEF Held35, FilesTyped
<1>7. FilesTyped' /\ Behind'
  BY <1>1, <1>6 DEF Held35, FilesTyped, Behind, Ahead, Committed
<1>8. Store35'
  <2>1. (state.released => audit = Audit35(state) /\ Even /\ hofFile = Hof(state))'
    BY <1>1, <1>6 DEF Held35, Store35, Audit35, Even, Hof
  <2>2. (manifest # None => state.released /\ manifest = Sealing)'
    BY <1>1, <1>6 DEF Held35, Store35, Sealing
  <2> QED
    BY <1>1, <2>1, <2>2 DEF Held35, Store35
<1>9. Process35(p)'
  BY <1>1, <1>2, <1>3, <1>4, <1>5 DEF Process35, Does, At, Seen, Committed, Even, Hof, Audit35, Auditing35
<1>10. ASSUME NEW q \in Procs \ {p} PROVE Process35(q)'
  <2>1. Process35(q) /\ proc'[q] = proc[q]
    BY <1>5 DEF Held35, Continues, Others
  <2> QED
    BY <1>1, <1>6, <2>1 DEF Process35, Does, At, Seen, Committed, Even, Lagging, Ahead, Hof, Audit35
<1> QED
  BY <1>5, <1>7, <1>8, <1>9, <1>10 DEF Kept35

\* v35 audit: the lock is given back.
LEMMA UnlockAudit35Keeps ==
  ASSUME Held35, NEW p \in Procs, UnlockAudit35(p)
  PROVE  Kept35(p)
<1>1. UNCHANGED files /\ lock' \in Locks \cup {None}
  BY DEF UnlockAudit35
<1>2. CASE Exit(p)
  BY <1>1, <1>2, ExitRelocking35
<1>3. CASE At(p, "unlock35") /\ Go(p, "release35")
  <2>1. /\ ProcTyped' /\ Continues(p) /\ proc'[p].command = proc[p].command
        /\ proc'[p].pc = "release35" /\ proc'[p].seen = proc[p].seen
    BY <1>3, GoFacts DEF Held35, At, Points, Auditing35
  <2>2. /\ FilesTyped' /\ Behind' /\ Store35'
        /\ \A q \in Procs \ {p} : Process35(q)'
    BY <1>1, <2>1, Relock35 DEF Continues
  <2>3. Process35(p)'
    <3>1. state' = state /\ results' = results /\ hofFile' = hofFile /\ audit' = audit
      BY <1>1 DEF files
    <3> QED
      BY <1>3, <2>1, <3>1
      DEF Held35, Process35, Does, At, Seen, Committed, Even, Hof, Audit35, Writing35, Auditing35
  <2> QED
    BY <2>1, <2>2, <2>3 DEF Kept35
<1> QED
  BY <1>2, <1>3 DEF UnlockAudit35

\* v35: the checkpoint is marked released.
LEMMA Release35Keeps ==
  ASSUME Held35, NEW p \in Procs, Release35(p)
  PROVE  Kept35(p)
<1>1. /\ At(p, "release35")
      /\ state' = IF Seen(p).released THEN state ELSE [state EXCEPT !.released = TRUE]
      /\ UNCHANGED <<version, results, hofFile, status, audit, retained, intent, manifest, context, lock>>
  BY DEF Release35
<1>2. /\ Process35(p) /\ Seen(p).chain = state.chain /\ Committed(state) /\ Even /\ hofFile = Hof(state)
      /\ Seen(p).released => state.released
      /\ Does(p, "audit") /\ audit = Audit35(state)
  BY <1>1 DEF Held35, Process35, At, Does, Writing35
<1>3. /\ state' \in Saved /\ state'.chain = state.chain /\ state'.released
      /\ state.released => state' = state
  BY <1>1, <1>2, SavedFacts DEF Held35, FilesTyped, Saved, States
<1>4. FilesTyped' /\ Behind'
  BY <1>1, <1>2, <1>3 DEF Held35, FilesTyped, Behind, Ahead, Committed
<1>5. Store35'
  <2>1. (manifest # None => state.released /\ manifest = Sealing)'
    BY <1>1, <1>3 DEF Held35, Store35, Sealing
  <2> QED
    BY <1>1, <1>2, <1>3, <2>1 DEF Held35, Store35, Even, Audit35, Hof
<1>6. \A q \in Procs \ {p} : ~Writing(q)
  BY <1>1 DEF Held35, Admitted, At
<1>7. ASSUME NEW q \in Procs \ {p}, Others(p) PROVE Process35(q)'
  <2>1. Process35(q) /\ proc'[q] = proc[q]
    BY <1>7 DEF Held35, Others
  <2>2. proc[q].pc = "idle" \/ Does(q, "audit")
    BY <1>6 DEF Writing, Does
  <2> QED
    BY <1>1, <1>3, <2>1, <2>2
    DEF Process35, Does, At, Seen, Committed, Even, Lagging, Ahead, Hof, Audit35
<1>8. CASE Exit(p)
  <2>1. ProcTyped' /\ Continues(p) /\ proc'[p].pc = "idle"
    BY <1>8, ExitFacts DEF Held35
  <2>2. Process35(p)'
    BY <2>1 DEF Process35, At
  <2> QED
    BY <1>4, <1>5, <1>7, <2>1, <2>2 DEF Kept35, Continues
<1>9. CASE Go(p, "manifest35")
  <2>1. /\ ProcTyped' /\ Continues(p) /\ proc'[p].command = proc[p].command
        /\ proc'[p].pc = "manifest35" /\ proc'[p].seen = proc[p].seen
    BY <1>1, <1>9, GoFacts DEF Held35, At, Points, Auditing35
  <2>2. Process35(p)'
    BY <1>1, <1>2, <1>3, <2>1 DEF Process35, Does, At, Seen, Committed, Even, Hof, Audit35, Auditing35
  <2> QED
    BY <1>4, <1>5, <1>7, <2>1, <2>2 DEF Kept35, Continues
<1> QED
  BY <1>8, <1>9 DEF Release35

\* v35: the manifest.
LEMMA Manifest35Keeps ==
  ASSUME Held35, NEW p \in Procs, Manifest35(p)
  PROVE  Kept35(p)
<1>1. /\ At(p, "manifest35") /\ manifest' = Sealing /\ Exit(p)
      /\ UNCHANGED <<version, state, results, hofFile, status, audit, retained, intent, context, lock>>
  BY DEF Manifest35, Sealing
<1>2. state.released
  BY <1>1 DEF Held35, Process35, At
<1>3. ProcTyped' /\ Continues(p) /\ proc'[p].pc = "idle"
  BY <1>1, ExitFacts DEF Held35
<1>4. FilesTyped' /\ Behind'
  BY <1>1 DEF Held35, FilesTyped, Behind, Ahead, Committed
<1>5. Store35'
  BY <1>1, <1>2 DEF Held35, Store35, Sealing, Audit35, Even, Hof
<1>6. Process35(p)'
  BY <1>3 DEF Process35, At
<1>7. ASSUME NEW q \in Procs \ {p} PROVE Process35(q)'
  <2>1. Process35(q) /\ proc'[q] = proc[q]
    BY <1>3 DEF Held35, Continues, Others
  <2> QED
    BY <1>1, <2>1 DEF Process35, Does, At, Seen, Committed, Even, Lagging, Ahead, Hof, Audit35
<1> QED
  BY <1>3, <1>4, <1>5, <1>6, <1>7 DEF Kept35

\* The lock that a dead process leaves.
LEMMA AbandonedTyped ==
  ASSUME FilesTyped, NEW p \in Procs
  PROVE  Abandoned(p) \in Locks \cup {None}
  BY DEF FilesTyped, Abandoned, Locks

\* v35: failure and death.
LEMMA Fail35Keeps ==
  ASSUME Held35, NEW p \in Procs, Fail35(p) \/ Die(p)
  PROVE  Kept35(p)
<1>1. Exit(p) /\ UNCHANGED files
  BY DEF Fail35, Die
<1>2. lock' \in Locks \cup {None}
  BY AbandonedTyped DEF Fail35, Die, Held35, FilesTyped
<1> QED
  BY <1>1, <1>2, ExitRelocking35

\* Every step of v35 keeps the invariant.
LEMMA Step35Keeps ==
  ASSUME Held35, NEW p \in Procs, Step35(p) \/ Die(p)
  PROVE  Kept35(p)
  BY Train35Keeps, Resume35Keeps, Ensure35Keeps, SaveHof35Keeps, Evaluate35Keeps, Tear35Keeps, More35Keeps,
     LockAudit35Keeps, WriteAudit35Keeps, UnlockAudit35Keeps, Release35Keeps, Manifest35Keeps, Fail35Keeps
  DEF Step35

--------------------------------------------------------------------------------
(* v36: each step keeps the invariant *)

Held36 == /\ version = "v36"
          /\ FilesTyped /\ ProcTyped /\ Behind /\ Admitted /\ Store36
          /\ \A q \in Procs : Process36(q)

Kept36(p) == /\ FilesTyped' /\ ProcTyped' /\ Behind' /\ Continues(p) /\ Store36'
             /\ Process36(p)'
             /\ \A q \in Procs \ {p} : Process36(q)'

\* A lock file is there, and it is the one of its owner.
LEMMA LockFacts ==
  ASSUME NEW q \in Procs, NEW b \in BOOLEAN
  PROVE  [owner |-> q, written |-> b] \in Locks /\ [owner |-> q, written |-> b] # None
<1>1. [owner |-> q, written |-> b] \in Locks
  BY DEF Locks
<1> QED
  BY <1>1, AbsenceAssumption

\* The other processes find the files as they were and do not lose the lock.
LEMMA Quiet36 ==
  ASSUME Held36, NEW p \in Procs, Others(p),
         UNCHANGED <<state, results, hofFile, status, audit, retained, intent, manifest>>,
         lock' \in Locks \cup {None}, context' \in BOOLEAN,
         \A q \in Procs \ {p} : lock # None /\ lock.owner = q => lock' = lock
  PROVE  FilesTyped' /\ Behind' /\ Store36' /\ \A q \in Procs \ {p} : Process36(q)'
<1>1. FilesTyped'
  BY DEF Held36, FilesTyped
<1>2. Behind'
  BY DEF Held36, Behind, Ahead, Committed
<1>3. Store36'
  BY DEF Held36, Store36, Sealing, Hof
<1>4. ASSUME NEW q \in Procs \ {p} PROVE Process36(q)'
  <2>1. Process36(q) /\ proc'[q] = proc[q]
    BY DEF Held36, Others
  <2>2. /\ lock = [owner |-> q, written |-> FALSE] => lock' = lock
        /\ lock = Held(q) => lock' = lock
    <3>1. q \in Procs /\ TRUE \in BOOLEAN /\ FALSE \in BOOLEAN
      OBVIOUS
    <3>2. [owner |-> q, written |-> FALSE] # None /\ [owner |-> q, written |-> TRUE] # None
      BY <3>1, LockFacts
    <3> QED
      BY <3>2 DEF Held
  <2> QED
    BY <2>1, <2>2 DEF Process36, Does, At, Seen, Committed, Even, Lagging, Ahead, Hof
<1> QED
  BY <1>1, <1>2, <1>3, <1>4

\* v36: a process ends and writes nothing but the lock and the context.
LEMMA Exit36 ==
  ASSUME Held36, NEW p \in Procs, Exit(p),
         UNCHANGED <<state, results, hofFile, status, audit, retained, intent, manifest>>,
         lock' \in Locks \cup {None}, context' \in BOOLEAN,
         \A q \in Procs \ {p} : lock # None /\ lock.owner = q => lock' = lock
  PROVE  Kept36(p)
<1>1. ProcTyped' /\ Continues(p) /\ proc'[p].pc = "idle"
  BY ExitFacts DEF Held36
<1>2. Process36(p)'
  BY <1>1 DEF Process36, At, Unlocking36
<1>3. Others(p)
  BY <1>1 DEF Continues
<1> QED
  BY <1>1, <1>2, <1>3, Quiet36 DEF Kept36

\* The step of the process that holds the lock: nobody else writes.
LEMMA Holder36 ==
  ASSUME Held36, NEW p \in Procs, proc[p].pc \in Unlocking36, Others(p), audit = None => audit' = None
  PROVE  \A q \in Procs \ {p} : Process36(q)'
<1>1. ASSUME NEW q \in Procs \ {p} PROVE Process36(q)'
  <2>1. Process36(q) /\ proc'[q] = proc[q] /\ lock = Held(p)
    BY DEF Held36, Others, Process36
  <2>2. proc[q].pc \notin Unlocking36 /\ proc[q].pc # "write36"
    BY <2>1 DEF Process36, At, Held
  <2> QED
    BY <2>1, <2>2 DEF Process36, Does, At, Seen, Committed, Unlocking36
<1> QED
  BY <1>1

\* The holder gives up before unlocking.
LEMMA Finish36 ==
  ASSUME Held36, NEW p \in Procs, proc[p].pc \in Unlocking36, Finish(p, "unlock36"), lock' = lock
  PROVE  /\ ProcTyped' /\ Continues(p) /\ proc'[p].pc = "unlock36" /\ proc'[p].command = proc[p].command
         /\ Process36(p)'
<1>1. /\ ProcTyped' /\ Continues(p) /\ proc'[p].command = proc[p].command /\ proc'[p].pc = "unlock36"
  BY FinishFacts DEF Held36, At, Points, Writing36, Unlocking36
<1>2. lock' = Held(p) /\ ~Does(p, "audit")
  BY DEF Held36, Process36, Auditing36, Unlocking36
<1> QED
  BY <1>1, <1>2 DEF Process36, Does, At, Writing36, Unlocking36, Held

\* v36: on the way to the unlock nothing is written.
LEMMA FinishQuiet36 ==
  ASSUME Held36, NEW p \in Procs, proc[p].pc \in Unlocking36, Finish(p, "unlock36"), UNCHANGED <<files, lock>>
  PROVE  Kept36(p)
<1>1. /\ ProcTyped' /\ Continues(p) /\ Process36(p)'
  BY Finish36
<1>2. /\ UNCHANGED <<state, results, hofFile, status, audit, retained, intent, manifest>>
      /\ context' = context /\ lock' = lock
  BY DEF files
<1>3. lock' \in Locks \cup {None} /\ context' \in BOOLEAN
  BY <1>2 DEF Held36, FilesTyped
<1> QED
  BY <1>1, <1>2, <1>3, Quiet36 DEF Kept36, Continues

\* A process goes on with what it has seen and leaves the files alone.
LEMMA Goes36 ==
  ASSUME Held36, NEW p \in Procs, ~At(p, "idle"), NEW c \in Points \ {"idle"}, Go(p, c) \/ Load(p, c)
  PROVE  /\ ProcTyped' /\ Continues(p) /\ Others(p)
         /\ proc'[p].command = proc[p].command /\ proc'[p].pc = c
         /\ Go(p, c) => proc'[p].seen = proc[p].seen
         /\ Load(p, c) => proc'[p].seen = state
<1>1. CASE Go(p, c)
  <2>1. /\ ProcTyped' /\ Continues(p)
        /\ proc'[p].command = proc[p].command /\ proc'[p].pc = c /\ proc'[p].seen = proc[p].seen
    BY <1>1, GoFacts DEF Held36
  <2>2. Load(p, c) => proc'[p].seen = state
    BY LoadFacts DEF Held36, FilesTyped
  <2> QED
    BY <2>1, <2>2 DEF Continues
<1>2. CASE Load(p, c)
  <2>1. /\ ProcTyped' /\ Continues(p)
        /\ proc'[p].command = proc[p].command /\ proc'[p].pc = c /\ proc'[p].seen = state
    BY <1>2, LoadFacts DEF Held36, FilesTyped
  <2>2. Go(p, c) => proc'[p].seen = proc[p].seen
    BY GoFacts DEF Held36
  <2> QED
    BY <2>1, <2>2 DEF Continues
<1> QED
  BY <1>1, <1>2

\* v36 lock: who owns it.
LEMMA Probe36Keeps ==
  ASSUME Held36, NEW p \in Procs, Probe36(p)
  PROVE  Kept36(p)
<1>1. At(p, "probe36") /\ UNCHANGED <<files, lock>>
  BY DEF Probe36
<1>2. /\ UNCHANGED <<state, results, hofFile, status, audit, retained, intent, manifest>>
      /\ lock' \in Locks \cup {None} /\ context' \in BOOLEAN /\ lock' = lock
  BY <1>1 DEF files, Held36, FilesTyped
<1>3. CASE Exit(p)
  BY <1>2, <1>3, Exit36
<1>4. ASSUME NEW c \in {"create36", "steal36"}, Go(p, c) PROVE Kept36(p)
  <2>1. /\ ProcTyped' /\ Continues(p) /\ Others(p) /\ proc'[p].command = proc[p].command
        /\ proc'[p].pc = c /\ proc'[p].seen = proc[p].seen
    BY <1>1, <1>4, Goes36 DEF At, Points, Writing36
  <2>2. Process36(p)'
    BY <1>1, <2>1 DEF Held36, Process36, Does, At, Seen, Committed, Writing36, Auditing36, Unlocking36
  <2> QED
    BY <1>2, <2>1, <2>2, Quiet36 DEF Kept36
<1> QED
  BY <1>3, <1>4 DEF Probe36

\* No live process loses its lock.
NotTaken36(p) == LiveTakeover \/ ~TakesOverLive(p) \/ lock' # None

\* v36 lock: a stale one is renamed.
LEMMA Steal36Keeps ==
  ASSUME Held36, LiveTakeover = FALSE, NEW p \in Procs, Steal36(p), NotTaken36(p)
  PROVE  Kept36(p)
<1>1. /\ At(p, "steal36")
      /\ UNCHANGED <<version, state, results, hofFile, status, audit, retained, intent, manifest>>
  BY DEF Steal36
<1>2. CASE lock = None /\ Exit(p) /\ UNCHANGED <<lock, context>>
  <2>1. lock' \in Locks \cup {None} /\ context' \in BOOLEAN /\ lock' = lock
    BY <1>2 DEF Held36, FilesTyped
  <2> QED
    BY <1>1, <1>2, <2>1, Exit36
<1>3. CASE lock # None /\ lock' = None /\ context' = TRUE /\ Go(p, "create36")
  <2>1. lock.owner = Dead
    BY <1>1, <1>3 DEF NotTaken36, TakesOverLive
  <2>2. \A q \in Procs \ {p} : lock # None /\ lock.owner = q => lock' = lock
    BY <2>1, OwnersAssumption
  <2>3. /\ ProcTyped' /\ Continues(p) /\ Others(p) /\ proc'[p].command = proc[p].command
        /\ proc'[p].pc = "create36" /\ proc'[p].seen = proc[p].seen
    BY <1>1, <1>3, Goes36 DEF At, Points, Writing36
  <2>4. Process36(p)'
    BY <1>1, <2>3 DEF Held36, Process36, Does, At, Seen, Committed, Writing36, Auditing36, Unlocking36
  <2> QED
    BY <1>1, <1>3, <2>2, <2>3, <2>4, Quiet36 DEF Kept36
<1> QED
  BY <1>2, <1>3 DEF Steal36

\* v36 lock: the file is created, empty.
LEMMA Create36Keeps ==
  ASSUME Held36, NEW p \in Procs, Create36(p)
  PROVE  Kept36(p)
<1>1. At(p, "create36") /\ UNCHANGED files
  BY DEF Create36
<1>2. /\ UNCHANGED <<state, results, hofFile, status, audit, retained, intent, manifest>>
      /\ context' \in BOOLEAN
  BY <1>1 DEF files, Held36, FilesTyped
<1>3. CASE lock # None /\ Exit(p) /\ UNCHANGED lock
  <2>1. lock' \in Locks \cup {None} /\ lock' = lock
    BY <1>3 DEF Held36, FilesTyped
  <2> QED
    BY <1>2, <1>3, <2>1, Exit36
<1>4. CASE lock = None /\ lock' = [Held(p) EXCEPT !.written = FALSE] /\ Go(p, "write36")
  <2>1. lock' = [owner |-> p, written |-> FALSE] /\ lock' \in Locks
    BY <1>4 DEF Held, Locks
  <2>2. /\ ProcTyped' /\ Continues(p) /\ Others(p) /\ proc'[p].command = proc[p].command
        /\ proc'[p].pc = "write36" /\ proc'[p].seen = proc[p].seen
    BY <1>1, <1>4, Goes36 DEF At, Points, Writing36
  <2>3. Process36(p)'
    BY <1>1, <2>1, <2>2 DEF Held36, Process36, Does, At, Seen, Committed, Writing36, Auditing36, Unlocking36
  <2> QED
    BY <1>2, <1>4, <2>1, <2>2, <2>3, Quiet36 DEF Kept36
<1> QED
  BY <1>3, <1>4 DEF Create36

\* v36 lock: the owner is written.
LEMMA Write36Keeps ==
  ASSUME Held36, NEW p \in Procs, Write36(p)
  PROVE  Kept36(p)
<1>1. /\ At(p, "write36") /\ UNCHANGED files /\ Go(p, "locked36")
      /\ lock' = IF lock # None /\ lock.owner = p THEN Held(p) ELSE lock
  BY DEF Write36
<1>2. /\ UNCHANGED <<state, results, hofFile, status, audit, retained, intent, manifest>>
      /\ context' \in BOOLEAN
  BY <1>1 DEF files, Held36, FilesTyped
<1>3. lock = [owner |-> p, written |-> FALSE] /\ lock # None
  BY <1>1, LockFacts DEF Held36, Process36
<1>4. lock' = Held(p) /\ lock' \in Locks /\ lock.owner = p
  BY <1>1, <1>3 DEF Held, Locks
<1>5. /\ ProcTyped' /\ Continues(p) /\ Others(p) /\ proc'[p].command = proc[p].command
      /\ proc'[p].pc = "locked36" /\ proc'[p].seen = proc[p].seen
  BY <1>1, Goes36 DEF At, Points, Writing36, Unlocking36
<1>6. Process36(p)'
  BY <1>1, <1>4, <1>5 DEF Held36, Process36, Does, At, Seen, Committed, Writing36, Auditing36, Unlocking36, Held
<1> QED
  BY <1>2, <1>4, <1>5, <1>6, Quiet36 DEF Kept36

\* What a process releases or leaves behind is its own lock.
LEMMA LocksOf36 ==
  ASSUME Held36, NEW p \in Procs, lock' \in {Unlocked36(p), Abandoned(p)}
  PROVE  /\ lock' \in Locks \cup {None}
         /\ \A q \in Procs \ {p} : lock # None /\ lock.owner = q => lock' = lock
<1>1. lock \in Locks \cup {None}
  BY DEF Held36, FilesTyped
<1>2. lock' \in Locks \cup {None}
  BY <1>1, AbandonedTyped DEF Held36, Unlocked36
<1>3. \A q \in Procs \ {p} : lock # None /\ lock.owner = q => lock' = lock
  BY <1>1 DEF Unlocked36, Abandoned, Held
<1> QED
  BY <1>2, <1>3

\* v36: failure, death and unlock.
LEMMA Fail36Keeps ==
  ASSUME Held36, NEW p \in Procs, Fail36(p) \/ Die(p) \/ Unlock36(p)
  PROVE  Kept36(p)
<1>1. Exit(p) /\ UNCHANGED files /\ lock' \in {Unlocked36(p), Abandoned(p)}
  BY DEF Fail36, Die, Unlock36
<1>2. /\ UNCHANGED <<state, results, hofFile, status, audit, retained, intent, manifest>>
      /\ context' \in BOOLEAN
  BY <1>1 DEF files, Held36, FilesTyped
<1> QED
  BY <1>1, <1>2, LocksOf36, Exit36

\* What holding the lock says of the process.
LEMMA Holding36 ==
  ASSUME Held36, NEW p \in Procs, proc[p].pc \in Unlocking36
  PROVE  lock = Held(p) /\ ~Does(p, "audit") /\ Process36(p) /\ ~At(p, "idle") /\ Seen(p) \in Saved
  BY MemoryFacts DEF Held36, Process36, Does, Auditing36, Unlocking36, At, Seen

\* v36 train: the experiment starts.
LEMMA Train36Keeps ==
  ASSUME Held36, NEW p \in Procs, Train36(p)
  PROVE  Kept36(p)
<1>1. At(p, "locked36") /\ Does(p, "train") /\ UNCHANGED <<files, lock>>
  BY DEF Train36
<1>2. proc[p].pc \in Unlocking36
  BY <1>1 DEF At, Unlocking36
<1>3. CASE Occupied36 /\ Finish(p, "unlock36")
  BY <1>1, <1>2, <1>3, FinishQuiet36
<1>4. CASE ~Occupied36 /\ Load(p, "evaluate")
  <2>1. ~Committed(state) /\ results.rows = <<>> /\ ~results.torn /\ manifest = None
    BY <1>4 DEF Occupied36
  <2>2. /\ ProcTyped' /\ Continues(p) /\ Others(p) /\ proc'[p].command = proc[p].command
        /\ proc'[p].pc = "evaluate" /\ proc'[p].seen = state
    BY <1>1, <1>4, Goes36 DEF At, Points, Writing35
  <2>3. /\ UNCHANGED <<state, results, hofFile, status, audit, retained, intent, manifest>>
        /\ lock' \in Locks \cup {None} /\ context' \in BOOLEAN /\ lock' = lock
    BY <1>1 DEF files, Held36, FilesTyped
  <2>4. Even /\ ~state.released
    BY <2>1 DEF Even, Committed, Held36, Behind
  <2>5. Process36(p)'
    BY <1>1, <1>2, <2>1, <2>2, <2>3, <2>4, Holding36
    DEF Process36, Does, At, Seen, Even, Writing36, Unlocking36, Held
  <2> QED
    BY <2>2, <2>3, <2>5, Quiet36 DEF Kept36
<1> QED
  BY <1>3, <1>4 DEF Train36

\* v36 train --resume: the checkpoint is loaded.
LEMMA Resume36Keeps ==
  ASSUME Held36, NEW p \in Procs, Resume36(p)
  PROVE  Kept36(p)
<1>1. At(p, "resume36") /\ UNCHANGED <<files, lock>>
  BY DEF Resume36
<1>2. /\ UNCHANGED <<state, results, hofFile, status, audit, retained, intent, manifest>>
      /\ lock' \in Locks \cup {None} /\ context' \in BOOLEAN /\ lock' = lock
  BY <1>1 DEF files, Held36, FilesTyped
<1>3. CASE Exit(p)
  BY <1>2, <1>3, Exit36
<1>4. CASE Committed(state) /\ Load(p, "probe36")
  <2>1. /\ ProcTyped' /\ Continues(p) /\ Others(p) /\ proc'[p].command = proc[p].command
        /\ proc'[p].pc = "probe36" /\ proc'[p].seen = state
    BY <1>1, <1>4, Goes36 DEF At, Points, Writing36
  <2>2. Process36(p)'
    BY <1>1, <1>4, <2>1 DEF Held36, Process36, Does, At, Seen, Committed, Writing36, Auditing36, Unlocking36
  <2> QED
    BY <1>2, <2>1, <2>2, Quiet36 DEF Kept36
<1> QED
  BY <1>3, <1>4 DEF Resume36

\* v36 continue: the checkpoint is loaded again under the lock.
LEMMA Reload36Keeps ==
  ASSUME Held36, NEW p \in Procs, Reload36(p)
  PROVE  Kept36(p)
<1>1. At(p, "locked36") /\ Does(p, "continue") /\ UNCHANGED <<files, lock>>
  BY DEF Reload36
<1>2. proc[p].pc \in Unlocking36
  BY <1>1 DEF At, Unlocking36
<1>3. CASE Finish(p, "unlock36")
  BY <1>1, <1>2, <1>3, FinishQuiet36
<1>4. CASE ~Final36 /\ Len(state.chain) = Len(Seen(p).chain) /\ Load(p, "reconcile36")
  <2>1. /\ ProcTyped' /\ Continues(p) /\ Others(p) /\ proc'[p].command = proc[p].command
        /\ proc'[p].pc = "reconcile36" /\ proc'[p].seen = state
    BY <1>1, <1>4, Goes36 DEF At, Points, Writing36, Unlocking36
  <2>2. /\ UNCHANGED <<state, results, hofFile, status, audit, retained, intent, manifest>>
        /\ lock' \in Locks \cup {None} /\ context' \in BOOLEAN /\ lock' = lock
    BY <1>1 DEF files, Held36, FilesTyped
  <2>3. ~state.released /\ manifest = None
    BY <1>4 DEF Final36
  <2>4. Committed(state)
    <3>1. Committed(Seen(p)) /\ Seen(p) \in Saved /\ state \in Saved
      BY <1>1, MemoryFacts DEF Held36, Process36, FilesTyped, At, Seen
    <3>2. Len(Seen(p).chain) # 0
      BY <3>1, SavedFacts, EmptySeq, LenProperties DEF Committed
    <3> QED
      BY <1>4, <3>2, EmptySeq DEF Committed
  <2>5. Process36(p)'
    BY <1>1, <1>2, <2>1, <2>2, <2>3, <2>4, Holding36
    DEF Process36, Does, At, Seen, Committed, Writing36, Unlocking36, Held
  <2> QED
    BY <2>1, <2>2, <2>5, Quiet36 DEF Kept36
<1> QED
  BY <1>3, <1>4 DEF Reload36

\* v36: the JSONL is completed or repaired from the checkpoint.
LEMMA Reconcile36Keeps ==
  ASSUME Held36, NEW p \in Procs, Reconcile36(p)
  PROVE  Kept36(p)
<1>1. /\ At(p, "reconcile36")
      /\ UNCHANGED <<version, state, hofFile, status, audit, retained, intent, manifest, context, lock>>
  BY DEF Reconcile36
<1>2. proc[p].pc \in Unlocking36
  BY <1>1 DEF At, Unlocking36
<1>3. Seen(p) = state /\ ~state.released /\ manifest = None /\ Committed(state)
  BY <1>1 DEF Held36, Process36, At
<1>4. CASE Finish(p, "unlock36") /\ UNCHANGED results
  BY <1>1, <1>2, <1>4, FinishQuiet36 DEF files
<1>5. ASSUME Go(p, "retain36"), results' = [rows |-> state.chain, torn |-> FALSE]
      PROVE  Kept36(p)
  <2>1. /\ ProcTyped' /\ Continues(p) /\ Others(p) /\ proc'[p].command = proc[p].command
        /\ proc'[p].pc = "retain36" /\ proc'[p].seen = proc[p].seen
    BY <1>1, <1>5, Goes36 DEF At, Points, Writing36, Unlocking36
  <2>2. Even'
    BY <1>1, <1>5 DEF Even
  <2>3. FilesTyped'
    <3>1. state.chain \in Seq(Champions)
      BY SavedFacts DEF Held36, FilesTyped
    <3> QED
      BY <1>1, <1>5, <3>1 DEF Held36, FilesTyped
  <2>4. Behind'
    BY <1>1, <1>3, <2>2 DEF Behind, Even, Committed
  <2>5. Store36'
    BY <1>1, <1>3 DEF Held36, Store36
  <2>6. Process36(p)'
    BY <1>1, <1>2, <1>3, <2>1, <2>2, Holding36
    DEF Process36, Does, At, Seen, Committed, Even, Writing36, Unlocking36, Held
  <2> QED
    BY <1>1, <1>2, <2>1, <2>3, <2>4, <2>5, <2>6, Holder36 DEF Kept36
<1>6. CASE Consistent(Seen(p)) /\ ~results.torn /\ Go(p, "retain36") /\ UNCHANGED results
  <2>1. results' = [rows |-> state.chain, torn |-> FALSE]
    BY <1>3, <1>6, ResultsFacts DEF Held36, Consistent
  <2> QED
    BY <1>5, <1>6, <2>1
<1>7. CASE Ahead(Seen(p)) /\ results' = [rows |-> Seen(p).chain, torn |-> FALSE] /\ Go(p, "retain36")
  BY <1>3, <1>5, <1>7
<1> QED
  BY <1>4, <1>6, <1>7 DEF Reconcile36

\* v36 continue: the old audit is set aside.
LEMMA Retain36Keeps ==
  ASSUME Held36, NEW p \in Procs, Retain36(p)
  PROVE  Kept36(p)
<1>1. /\ At(p, "retain36")
      /\ UNCHANGED <<version, state, results, hofFile, status, intent, manifest, context, lock>>
  BY DEF Retain36
<1>2. proc[p].pc \in Unlocking36
  BY <1>1 DEF At, Unlocking36
<1>3. Seen(p) = state /\ ~state.released /\ manifest = None /\ Committed(state) /\ Even
  BY <1>1 DEF Held36, Process36, At
<1>4. CASE Finish(p, "unlock36") /\ UNCHANGED <<audit, retained>>
  BY <1>1, <1>2, <1>4, FinishQuiet36 DEF files
<1>5. ASSUME Go(p, "evaluate"), audit' = None, retained' \subseteq Champions
      PROVE  Kept36(p)
  <2>1. /\ ProcTyped' /\ Continues(p) /\ Others(p) /\ proc'[p].command = proc[p].command
        /\ proc'[p].pc = "evaluate" /\ proc'[p].seen = proc[p].seen
    BY <1>1, <1>5, Goes36 DEF At, Points, Writing36, Unlocking36
  <2>2. FilesTyped' /\ Behind'
    BY <1>1, <1>5 DEF Held36, FilesTyped, Behind, Ahead, Committed
  <2>3. Store36'
    BY <1>1, <1>3 DEF Held36, Store36
  <2>4. Process36(p)'
    BY <1>1, <1>2, <1>3, <2>1, Holding36
    DEF Process36, Does, At, Seen, Committed, Even, Writing36, Unlocking36, Held
  <2> QED
    BY <1>2, <1>5, <2>1, <2>2, <2>3, <2>4, Holder36 DEF Kept36
<1>6. CASE audit = None /\ Go(p, "evaluate") /\ UNCHANGED <<audit, retained>>
  BY <1>5, <1>6 DEF Held36, FilesTyped
<1>7. CASE /\ audit' = None /\ retained' = retained \cup {Retained36(Seen(p))}
           /\ Go(p, "evaluate")
  <2>1. Retained36(Seen(p)) \in Champions
    BY <1>3, SavedFacts DEF Retained36, Held36, FilesTyped
  <2> QED
    BY <1>5, <1>7, <2>1 DEF Held36, FilesTyped
<1> QED
  BY <1>4, <1>6, <1>7 DEF Retain36

\* v36: a generation is committed.
LEMMA Evaluate36Keeps ==
  ASSUME Held36, NEW p \in Procs, Evaluate36(p)
  PROVE  Kept36(p)
<1>1. At(p, "evaluate") /\ Commit(p)
  BY DEF Evaluate36
<1>2. proc[p].pc \in Unlocking36
  BY <1>1 DEF At, Unlocking36
<1>3. /\ Seen(p) = state /\ Even /\ ~state.released /\ manifest = None
  BY <1>1 DEF Held36, Process36, At
<1>4. /\ ProcTyped' /\ Continues(p)
      /\ proc'[p].command = proc[p].command /\ proc'[p].pc = "append"
      /\ proc'[p].seen = state'
      /\ FilesTyped' /\ state'.released = FALSE
      /\ Committed(state)' /\ Front(state'.chain) = state.chain
      /\ UNCHANGED <<version, results, hofFile, status, audit, retained, intent, manifest, context, lock>>
  BY <1>1, <1>3, CommitFacts DEF Held36
<1>5. Lagging'
  BY <1>3, <1>4 DEF Lagging, Even, Ahead, Committed
<1>6. Behind'
  BY <1>4, <1>5 DEF Behind, Lagging, Ahead, Committed
<1>7. Store36'
  BY <1>3, <1>4 DEF Held36, Store36
<1>8. Process36(p)'
  BY <1>2, <1>3, <1>4, <1>5, Holding36 DEF Process36, Does, At, Seen, Writing36, Unlocking36, Held
<1> QED
  BY <1>2, <1>4, <1>6, <1>7, <1>8, Holder36 DEF Kept36, Continues

\* v36: its row follows.
LEMMA Append36Keeps ==
  ASSUME Held36, NEW p \in Procs, Append36(p)
  PROVE  Kept36(p)
<1>1. /\ At(p, "append") /\ results' = Appended(Seen(p)) /\ Go(p, "status36")
      /\ UNCHANGED <<version, state, hofFile, status, audit, retained, intent, manifest, context, lock>>
  BY DEF Append36
<1>2. proc[p].pc \in Unlocking36
  BY <1>1 DEF At, Unlocking36
<1>3. Seen(p) = state /\ ~state.released /\ manifest = None /\ Lagging
  BY <1>1 DEF Held36, Process36, At
<1>4. results' = [rows |-> state.chain, torn |-> FALSE]
  BY <1>1, <1>3, AppendedFacts DEF Held36, FilesTyped
<1>5. /\ ProcTyped' /\ Continues(p) /\ Others(p) /\ proc'[p].command = proc[p].command
      /\ proc'[p].pc = "status36" /\ proc'[p].seen = proc[p].seen
  BY <1>1, Goes36 DEF At, Points, Writing36, Unlocking36
<1>6. Even'
  BY <1>1, <1>4 DEF Even
<1>7. FilesTyped'
  <2>1. state.chain \in Seq(Champions)
    BY SavedFacts DEF Held36, FilesTyped
  <2> QED
    BY <1>1, <1>4, <2>1 DEF Held36, FilesTyped
<1>8. Behind'
  BY <1>1, <1>3, <1>6 DEF Behind, Even, Committed
<1>9. Store36'
  BY <1>1, <1>3 DEF Held36, Store36
<1>10. Process36(p)'
  BY <1>1, <1>2, <1>3, <1>5, <1>6, Holding36
  DEF Process36, Does, At, Seen, Committed, Writing36, Unlocking36, Held
<1> QED
  BY <1>1, <1>2, <1>5, <1>7, <1>8, <1>9, <1>10, Holder36 DEF Kept36

\* v36: death in the middle of a row.
LEMMA Tear36Keeps ==
  ASSUME Held36, NEW p \in Procs, Tear36(p)
  PROVE  Kept36(p)
<1>1. At(p, "append") /\ DieAppending(p)
  BY DEF Tear36
<1>2. proc[p].pc \in Unlocking36
  BY <1>1 DEF At, Unlocking36
<1>3. Lagging /\ manifest = None /\ ~state.released
  BY <1>1 DEF Held36, Process36, At
<1>4. /\ FilesTyped' /\ ProcTyped' /\ Continues(p) /\ proc'[p].pc = "idle" /\ Behind'
      /\ UNCHANGED <<version, state, hofFile, status, audit, retained, intent, manifest, context>>
  BY <1>1, <1>3, TearFacts DEF Held36
<1>5. Store36'
  BY <1>3, <1>4 DEF Held36, Store36
<1>6. Process36(p)'
  BY <1>4 DEF Process36, At, Unlocking36
<1> QED
  BY <1>2, <1>4, <1>5, <1>6, Holder36 DEF Kept36, Continues

\* The status is not looked at by anybody.
LEMMA Status36Keeps ==
  ASSUME Held36, NEW p \in Procs, Status36(p)
  PROVE  Kept36(p)
<1>1. /\ At(p, "status36") /\ status' = Status("TRAINING_COMMITTED", Len(Seen(p).chain), TRUE)
      /\ UNCHANGED <<version, state, results, hofFile, audit, retained, intent, manifest, context, lock>>
  BY DEF Status36
<1>2. proc[p].pc \in Unlocking36
  BY <1>1 DEF At, Unlocking36
<1>3. Seen(p) = state /\ ~state.released /\ manifest = None /\ Even
  BY <1>1 DEF Held36, Process36, At
<1>4. FilesTyped' /\ Behind'
  <2>1. Len(Seen(p).chain) \in 0 .. MaxGenerations
    BY <1>2, Holding36, SavedFacts
  <2> QED
    BY <1>1, <2>1 DEF Held36, FilesTyped, Behind, Ahead, Committed, Status, Workflows
<1>5. Store36'
  BY <1>1, <1>3 DEF Held36, Store36, Status
<1>6. CASE Finish(p, "unlock36")
  BY <1>1, <1>2, <1>4, <1>5, <1>6, Finish36, Holder36 DEF Kept36, Continues
<1>7. CASE Go(p, "evaluate")
  <2>1. /\ ProcTyped' /\ Continues(p) /\ Others(p) /\ proc'[p].command = proc[p].command
        /\ proc'[p].pc = "evaluate" /\ proc'[p].seen = proc[p].seen
    BY <1>1, <1>7, Goes36 DEF At, Points, Writing36, Unlocking36
  <2>2. Process36(p)'
    BY <1>1, <1>2, <1>3, <2>1, Holding36
    DEF Process36, Does, At, Seen, Committed, Even, Writing36, Unlocking36, Held
  <2> QED
    BY <1>1, <1>2, <1>4, <1>5, <2>1, <2>2, Holder36 DEF Kept36
<1> QED
  BY <1>6, <1>7 DEF Status36

\* v36 audit: the checkpoint is loaded.
LEMMA LoadAudit36Keeps ==
  ASSUME Held36, NEW p \in Procs, LoadAudit36(p)
  PROVE  Kept36(p)
<1>1. At(p, "load36") /\ UNCHANGED <<files, lock>>
  BY DEF LoadAudit36
<1>2. /\ UNCHANGED <<state, results, hofFile, status, audit, retained, intent, manifest>>
      /\ lock' \in Locks \cup {None} /\ context' \in BOOLEAN /\ lock' = lock
  BY <1>1 DEF files, Held36, FilesTyped
<1>3. CASE Exit(p)
  BY <1>2, <1>3, Exit36
<1>4. CASE Committed(state) /\ Load(p, "evidence36")
  <2>1. /\ ProcTyped' /\ Continues(p) /\ Others(p) /\ proc'[p].command = proc[p].command
        /\ proc'[p].pc = "evidence36" /\ proc'[p].seen = state
    BY <1>1, <1>4, Goes36 DEF At, Points, Auditing36
  <2>2. Process36(p)'
    BY <1>1, <1>4, <2>1 DEF Held36, Process36, Does, At, Seen, Committed, Writing36, Auditing36, Unlocking36
  <2> QED
    BY <1>2, <2>1, <2>2, Quiet36 DEF Kept36
<1> QED
  BY <1>3, <1>4 DEF LoadAudit36

\* v36 audit: existing evidence is looked at.
LEMMA Evidence36Keeps ==
  ASSUME Held36, NEW p \in Procs, Evidence36(p)
  PROVE  Kept36(p)
<1>1. At(p, "evidence36") /\ UNCHANGED <<files, lock>>
  BY DEF Evidence36
<1>2. /\ UNCHANGED <<state, results, hofFile, status, audit, retained, intent, manifest>>
      /\ lock' \in Locks \cup {None} /\ context' \in BOOLEAN /\ lock' = lock
  BY <1>1 DEF files, Held36, FilesTyped
<1>3. CASE Exit(p)
  BY <1>2, <1>3, Exit36
<1>4. CASE audit = None /\ proc' = [proc EXCEPT ![p].pc = "score36", ![p].source = state]
  <2> DEFINE m == [proc[p] EXCEPT !.pc = "score36", !.source = state]
  <2>1. /\ m \in Memory /\ m.pc = "score36" /\ m.command = proc[p].command /\ m.seen = proc[p].seen
    <3>1. state \in States
      BY DEF Held36, FilesTyped, Saved
    <3> QED
      BY <3>1, MemoryFacts DEF Held36, Memory, Points, Auditing36
  <2>2. proc' = [proc EXCEPT ![p] = m]
    BY <1>4 DEF Held36, ProcTyped
  <2>3. m # Idle
    BY <2>1, IdleTyped
  <2> HIDE DEF m
  <2>4. ProcTyped' /\ Others(p) /\ proc'[p] = m
    BY <2>1, <2>2, <2>3, SetFacts DEF Held36
  <2>5. Continues(p)
    BY <1>1, <2>1, <2>4 DEF Continues, At
  <2>6. Process36(p)'
    BY <1>1, <1>2, <1>4, <2>1, <2>4
    DEF Held36, Process36, Does, At, Seen, Committed, Writing36, Auditing36, Unlocking36
  <2> QED
    BY <1>2, <2>4, <2>5, <2>6, Quiet36 DEF Kept36
<1> QED
  BY <1>3, <1>4 DEF Evidence36

\* Only one audit runs, and it found no other; a release has not been checked yet.
LEMMA Score36Keeps ==
  ASSUME Held36, NEW p \in Procs, Score36(p)
  PROVE  Kept36(p)
<1>1. /\ At(p, "score36") /\ Exit(p)
      /\ UNCHANGED <<version, state, results, hofFile, status, retained, intent, manifest, context, lock>>
  BY DEF Score36
<1>2. PICK pass \in BOOLEAN : audit' = Audit36(Seen(p), proc[p].source, pass)
  BY DEF Score36
<1>3. /\ audit = None /\ Committed(Seen(p)) /\ Does(p, "audit") /\ proc[p].pc # "idle"
  BY <1>1 DEF Held36, Process36, At, Does, Writing36, Unlocking36
<1>4. audit' \in Audits
  <2>1. Seen(p) \in Saved /\ proc[p].source \in States
    BY MemoryFacts DEF Held36, Seen
  <2>2. Hof(Seen(p)) \in Champions
    BY <1>3, <2>1, SavedFacts
  <2> QED
    BY <1>2, <2>1, <2>2 DEF Audit36, Audits
<1>5. ~state.released /\ manifest = None
  BY <1>3 DEF Held36, Store36
<1>6. ProcTyped' /\ Continues(p) /\ proc'[p].pc = "idle"
  BY <1>1, ExitFacts DEF Held36
<1>7. FilesTyped' /\ Behind'
  BY <1>1, <1>4 DEF Held36, FilesTyped, Behind, Ahead, Committed
<1>8. Store36'
  BY <1>1, <1>5 DEF Held36, Store36
<1>9. Process36(p)'
  BY <1>6 DEF Process36, At, Unlocking36
<1>10. ASSUME NEW q \in Procs \ {p} PROVE Process36(q)'
  <2>1. Process36(q) /\ proc'[q] = proc[q]
    BY <1>6 DEF Held36, Continues, Others
  <2>2. ~(proc[q].pc # "idle" /\ Does(q, "audit"))
    BY <1>3 DEF Held36, Admitted, Auditing, Does
  <2>3. proc[q].pc # "score36" /\ proc[q].pc \notin {"intent36", "released36"}
    BY <1>3, <2>1, <2>2 DEF Process36, Writing36, Unlocking36
  <2> QED
    BY <1>1, <2>1, <2>3 DEF Process36, Does, At, Seen, Committed, Even, Lagging, Ahead
<1> QED
  BY <1>6, <1>7, <1>8, <1>9, <1>10 DEF Kept36

\* v36 release: the checks before the intent.
LEMMA CheckRelease36Keeps ==
  ASSUME Held36, NEW p \in Procs, CheckRelease36(p)
  PROVE  Kept36(p)
<1>1. At(p, "locked36") /\ Does(p, "release") /\ UNCHANGED <<files, lock>>
  BY DEF CheckRelease36
<1>2. proc[p].pc \in Unlocking36
  BY <1>1 DEF At, Unlocking36
<1>3. CASE Finish(p, "unlock36")
  BY <1>1, <1>2, <1>3, FinishQuiet36
<1>4. ASSUME NEW c \in {"manifest36", "intent36"}, Go(p, c), Releasable36,
             c = "manifest36" <=> state.released
      PROVE  Kept36(p)
  <2>1. /\ ProcTyped' /\ Continues(p) /\ Others(p) /\ proc'[p].command = proc[p].command
        /\ proc'[p].pc = c /\ proc'[p].seen = proc[p].seen
    BY <1>1, <1>4, Goes36 DEF At, Points, Writing36, Unlocking36
  <2>2. /\ UNCHANGED <<state, results, hofFile, status, audit, retained, intent, manifest>>
        /\ lock' \in Locks \cup {None} /\ context' \in BOOLEAN /\ lock' = lock
    BY <1>1 DEF files, Held36, FilesTyped
  <2>3. c = "intent36" => /\ Committed(state) /\ ~state.released /\ audit # None
                          /\ audit.hof = Hof(state) /\ audit.source = state /\ audit.pass
    BY <1>4 DEF Releasable36, Audited36
  <2>4. lock = Held(p) /\ ~Does(p, "audit")
    BY <1>2, Holding36
  <2>5. Process36(p)'
    BY <1>1, <1>4, <2>1, <2>2, <2>3, <2>4
    DEF Process36, Does, At, Seen, Committed, Hof, Writing36, Unlocking36, Held
  <2> QED
    BY <2>1, <2>2, <2>5, Quiet36 DEF Kept36
<1> QED
  BY <1>3, <1>4, Zenon DEF CheckRelease36

\* v36 release: the intent.
LEMMA Intent36Keeps ==
  ASSUME Held36, NEW p \in Procs, Intent36(p)
  PROVE  Kept36(p)
<1>1. /\ At(p, "intent36") /\ intent' = [source |-> state, audit |-> audit] /\ Go(p, "released36")
      /\ UNCHANGED <<version, state, results, hofFile, status, audit, retained, manifest, context, lock>>
  BY DEF Intent36
<1>2. proc[p].pc \in Unlocking36
  BY <1>1 DEF At, Unlocking36
<1>3. /\ Committed(state) /\ ~state.released /\ audit # None
      /\ audit.hof = Hof(state) /\ audit.source = state /\ audit.pass
  BY <1>1 DEF Held36, Process36, At
<1>4. /\ ProcTyped' /\ Continues(p) /\ Others(p) /\ proc'[p].command = proc[p].command
      /\ proc'[p].pc = "released36" /\ proc'[p].seen = proc[p].seen
  BY <1>1, Goes36 DEF At, Points, Writing36, Unlocking36
<1>5. intent' \in Intents
  BY <1>1, <1>3 DEF Held36, FilesTyped, Intents, Saved
<1>6. FilesTyped' /\ Behind'
  BY <1>1, <1>5 DEF Held36, FilesTyped, Behind, Ahead, Committed
<1>7. manifest = None
  BY <1>3 DEF Held36, Store36
<1>8. Store36'
  BY <1>1, <1>3, <1>7 DEF Held36, Store36
<1>9. Process36(p)'
  BY <1>1, <1>2, <1>3, <1>4, Holding36
  DEF Process36, Does, At, Seen, Committed, Hof, Writing36, Unlocking36, Held
<1> QED
  BY <1>1, <1>2, <1>4, <1>6, <1>8, <1>9, Holder36 DEF Kept36

\* v36: the checkpoint is marked released.
LEMMA Release36Keeps ==
  ASSUME Held36, NEW p \in Procs, Release36(p)
  PROVE  Kept36(p)
<1>1. /\ At(p, "released36") /\ state' = [state EXCEPT !.released = TRUE] /\ Go(p, "manifest36")
      /\ UNCHANGED <<version, results, hofFile, status, audit, retained, intent, manifest, context, lock>>
  BY DEF Release36
<1>2. proc[p].pc \in Unlocking36
  BY <1>1 DEF At, Unlocking36
<1>3. /\ Committed(state) /\ ~state.released /\ audit # None
      /\ audit.hof = Hof(state) /\ audit.source = state /\ audit.pass
      /\ intent = [source |-> state, audit |-> audit]
  BY <1>1 DEF Held36, Process36, At
<1>4. /\ state = [chain |-> state.chain, released |-> FALSE]
      /\ state' = [chain |-> state.chain, released |-> TRUE]
      /\ state' \in Saved
  BY <1>1, <1>3, SavedFacts DEF Held36, FilesTyped, Saved, States
<1>5. intent # None
  <2>1. intent \in Intents
    BY <1>3 DEF Held36, FilesTyped, Intents, Saved
  <2> QED
    BY <2>1, AbsenceAssumption
<1>6. FilesTyped' /\ Behind'
  BY <1>1, <1>3, <1>4 DEF Held36, FilesTyped, Behind, Ahead, Committed
<1>7. manifest = None
  BY <1>3 DEF Held36, Store36
<1>8. Store36'
  <2>1. [state' EXCEPT !.released = FALSE] = state
    BY <1>4
  <2> QED
    BY <1>1, <1>3, <1>4, <1>5, <1>7, <2>1 DEF Held36, Store36, Hof
<1>9. /\ ProcTyped' /\ Continues(p) /\ Others(p) /\ proc'[p].command = proc[p].command
      /\ proc'[p].pc = "manifest36" /\ proc'[p].seen = proc[p].seen
  BY <1>1, Goes36 DEF At, Points, Writing36, Unlocking36
<1>10. Process36(p)'
  BY <1>1, <1>2, <1>4, <1>9, Holding36 DEF Process36, Does, At, Seen, Committed, Writing36, Unlocking36, Held
<1> QED
  BY <1>1, <1>2, <1>6, <1>8, <1>9, <1>10, Holder36 DEF Kept36

\* v36: the manifest.
LEMMA Manifest36Keeps ==
  ASSUME Held36, NEW p \in Procs, Manifest36(p)
  PROVE  Kept36(p)
<1>1. /\ At(p, "manifest36")
      /\ UNCHANGED <<version, state, results, hofFile, status, audit, retained, intent, context, lock>>
  BY DEF Manifest36
<1>2. proc[p].pc \in Unlocking36
  BY <1>1 DEF At, Unlocking36
<1>3. state.released
  BY <1>1 DEF Held36, Process36, At
<1>4. CASE Finish(p, "unlock36") /\ UNCHANGED manifest
  BY <1>1, <1>2, <1>4, FinishQuiet36 DEF files
<1>5. CASE manifest' = Sealing /\ Go(p, "report36")
  <2>1. /\ ProcTyped' /\ Continues(p) /\ Others(p) /\ proc'[p].command = proc[p].command
        /\ proc'[p].pc = "report36" /\ proc'[p].seen = proc[p].seen
    BY <1>1, <1>5, Goes36 DEF At, Points, Writing36, Unlocking36
  <2>2. FilesTyped' /\ Behind'
    BY <1>1 DEF Held36, FilesTyped, Behind, Ahead, Committed
  <2>3. Store36'
    BY <1>1, <1>3, <1>5 DEF Held36, Store36, Sealing, Hof
  <2>4. Process36(p)'
    BY <1>1, <1>2, <1>3, <2>1, Holding36 DEF Process36, Does, At, Seen, Committed, Writing36, Unlocking36, Held
  <2> QED
    BY <1>1, <1>2, <2>1, <2>2, <2>3, <2>4, Holder36 DEF Kept36
<1> QED
  BY <1>4, <1>5 DEF Manifest36, Sealing

\* v36: the status of a release.
LEMMA Report36Keeps ==
  ASSUME Held36, NEW p \in Procs, Report36(p)
  PROVE  Kept36(p)
<1>1. /\ At(p, "report36") /\ Finish(p, "unlock36")
      /\ status' \in {status, Status("RELEASED", Len(state.chain), TRUE)}
      /\ UNCHANGED <<version, state, results, hofFile, audit, retained, intent, manifest, context, lock>>
  BY DEF Report36
<1>2. proc[p].pc \in Unlocking36
  BY <1>1 DEF At, Unlocking36
<1>3. FilesTyped' /\ Behind'
  <2>1. Len(state.chain) \in 0 .. MaxGenerations
    BY SavedFacts DEF Held36, FilesTyped
  <2>2. status' \in [workflow : Workflows, generations : 0 .. MaxGenerations, bound : BOOLEAN]
    <3>1. Status("RELEASED", Len(state.chain), TRUE)
            \in [workflow : Workflows, generations : 0 .. MaxGenerations, bound : BOOLEAN]
      BY <2>1 DEF Status, Workflows
    <3>2. status \in [workflow : Workflows, generations : 0 .. MaxGenerations, bound : BOOLEAN]
      BY DEF Held36, FilesTyped
    <3> QED
      BY <1>1, <3>1, <3>2
  <2> QED
    BY <1>1, <2>2 DEF Held36, FilesTyped, Behind, Ahead, Committed
<1>4. Store36'
  <2>1. status'.workflow # "BUDGET_EXHAUSTED"
    BY <1>1 DEF Held36, Store36, Status
  <2> QED
    BY <1>1, <2>1 DEF Held36, Store36, Sealing, Hof
<1>5. /\ ProcTyped' /\ Continues(p) /\ Process36(p)'
  BY <1>1, <1>2, Finish36
<1> QED
  BY <1>1, <1>2, <1>3, <1>4, <1>5, Holder36 DEF Kept36, Continues

\* Every step of v36 keeps the invariant.
LEMMA Step36Keeps ==
  ASSUME Held36, LiveTakeover = FALSE, NEW p \in Procs, (Step36(p) /\ NotTaken36(p)) \/ Die(p)
  PROVE  Kept36(p)
  BY Probe36Keeps, Steal36Keeps, Create36Keeps, Write36Keeps, Train36Keeps, Resume36Keeps, Reload36Keeps,
     Reconcile36Keeps, Retain36Keeps, Evaluate36Keeps, Append36Keeps, Tear36Keeps, Status36Keeps,
     LoadAudit36Keeps, Evidence36Keeps, Score36Keeps, CheckRelease36Keeps, Intent36Keeps, Release36Keeps,
     Manifest36Keeps, Report36Keeps, Fail36Keeps
  DEF Step36

--------------------------------------------------------------------------------
(* v37: each step keeps the invariant *)

Held37 == /\ version = "v37"
          /\ FilesTyped /\ ProcTyped /\ Behind /\ Admitted /\ Store37
          /\ \A q \in Procs : Process37(q)

Kept37(p) == /\ FilesTyped' /\ ProcTyped' /\ Behind' /\ Continues(p) /\ Store37'
             /\ Process37(p)'
             /\ \A q \in Procs \ {p} : Process37(q)'

\* The other processes find checkpoint, JSONL, audit and status as they were.
LEMMA Quiet37 ==
  ASSUME Held37, NEW p \in Procs, Others(p),
         UNCHANGED <<state, results, hofFile, status, audit, retained, intent, manifest>>,
         lock' \in Locks \cup {None}, context' \in BOOLEAN
  PROVE  FilesTyped' /\ Behind' /\ Store37' /\ \A q \in Procs \ {p} : Process37(q)'
<1>1. FilesTyped'
  BY DEF Held37, FilesTyped
<1>2. Behind'
  BY DEF Held37, Behind, Ahead, Committed
<1>3. Store37'
  BY DEF Held37, Store37, Whole, Even, Audit37, Hof
<1>4. ASSUME NEW q \in Procs \ {p} PROVE Process37(q)'
  <2>1. Process37(q) /\ proc'[q] = proc[q]
    BY DEF Held37, Others
  <2> QED
    BY <2>1 DEF Process37, Does, At, Seen, Committed, Even, Lagging, Ahead, Whole, Audit37, Hof
<1> QED
  BY <1>1, <1>2, <1>3, <1>4

\* v37: a process ends and writes nothing.
LEMMA Exit37 ==
  ASSUME Held37, NEW p \in Procs, Exit(p),
         UNCHANGED <<state, results, hofFile, status, audit, retained, intent, manifest>>,
         lock' \in Locks \cup {None}, context' \in BOOLEAN
  PROVE  Kept37(p)
<1>1. ProcTyped' /\ Continues(p) /\ proc'[p].pc = "idle"
  BY ExitFacts DEF Held37
<1>2. Process37(p)'
  BY <1>1 DEF Process37, At
<1>3. Others(p)
  BY <1>1 DEF Continues
<1> QED
  BY <1>1, <1>2, <1>3, Quiet37 DEF Kept37

\* v37: a process goes on and writes nothing.
LEMMA Goes37 ==
  ASSUME Held37, NEW p \in Procs, ~At(p, "idle"), NEW c \in Points \ {"idle"}, Go(p, c) \/ Load(p, c)
  PROVE  /\ ProcTyped' /\ Continues(p) /\ Others(p)
         /\ proc'[p].command = proc[p].command /\ proc'[p].pc = c
         /\ Go(p, c) => proc'[p].seen = proc[p].seen
         /\ Load(p, c) => proc'[p].seen = state
<1>1. CASE Go(p, c)
  <2>1. /\ ProcTyped' /\ Continues(p)
        /\ proc'[p].command = proc[p].command /\ proc'[p].pc = c /\ proc'[p].seen = proc[p].seen
    BY <1>1, GoFacts DEF Held37
  <2>2. Load(p, c) => proc'[p].seen = state
    BY LoadFacts DEF Held37, FilesTyped
  <2> QED
    BY <2>1, <2>2 DEF Continues
<1>2. CASE Load(p, c)
  <2>1. /\ ProcTyped' /\ Continues(p)
        /\ proc'[p].command = proc[p].command /\ proc'[p].pc = c /\ proc'[p].seen = state
    BY <1>2, LoadFacts DEF Held37, FilesTyped
  <2>2. Go(p, c) => proc'[p].seen = proc[p].seen
    BY GoFacts DEF Held37
  <2> QED
    BY <2>1, <2>2 DEF Continues
<1> QED
  BY <1>1, <1>2

\* What may change under the other processes: a status, when one trains, an audit when
\* one audits, and the JSONL and the checkpoint as long as the plan is not complete.
LEMMA Trained37 ==
  ASSUME Held37, NEW p \in Procs, Others(p), Does(p, "audit") = FALSE, ~At(p, "idle"),
         UNCHANGED <<audit, manifest>>, (state' = state /\ results' = results) \/ ~Whole
  PROVE  \A q \in Procs \ {p} : Process37(q)'
<1>1. ASSUME NEW q \in Procs \ {p} PROVE Process37(q)'
  <2>1. Process37(q) /\ proc'[q] = proc[q]
    BY DEF Held37, Others
  <2>2. proc[q].pc = "idle" \/ Does(q, "audit")
    BY DEF Held37, Admitted, Writing, At, Does
  <2>3. proc[q].pc \in {"idle", "load37"} \/ Whole
    BY <2>1, <2>2 DEF Process37, Auditing37
  <2>4. CASE proc[q].pc \in {"idle", "load37"}
    BY <2>1, <2>2, <2>4 DEF Process37, Does, At, Auditing37
  <2>5. CASE proc[q].pc \notin {"idle", "load37"}
    <3>1. state' = state /\ results' = results /\ Does(q, "audit")
      BY <2>2, <2>3, <2>5
    <3> QED
      BY <2>1, <2>5, <3>1 DEF Process37, Does, At, Seen, Committed, Even, Lagging, Ahead, Whole, Audit37, Hof, Auditing37
  <2> QED
    BY <2>4, <2>5
<1> QED
  BY <1>1

\* v37: what a training process knows.
LEMMA Training37 ==
  ASSUME Held37, NEW p \in Procs,
         proc[p].pc \in {"train37", "journal37", "begin37", "head37", "evaluate", "append", "status37", "end37"}
  PROVE  /\ ~At(p, "idle") /\ Does(p, "audit") = FALSE /\ Process37(p) /\ Seen(p) \in Saved
         /\ proc[p].pc # "train37" => Seen(p) = state
         /\ ~Does(p, "audit")
<1>1. ~Does(p, "audit") /\ Process37(p)
  BY DEF Held37, Process37, Does, Auditing37
<1> QED
  BY <1>1, MemoryFacts DEF Held37, Process37, At, Seen, Does

\* v37 train: the experiment starts.
LEMMA Train37Keeps ==
  ASSUME Held37, NEW p \in Procs, Train37(p)
  PROVE  Kept37(p)
<1>1. /\ At(p, "train37")
      /\ UNCHANGED <<version, state, results, hofFile, status, audit, retained, intent, manifest, lock>>
  BY DEF Train37
<1>2. lock' \in Locks \cup {None}
  BY <1>1 DEF Held37, FilesTyped
<1>3. CASE Exit(p) /\ UNCHANGED context
  <2>1. context' \in BOOLEAN
    BY <1>3 DEF Held37, FilesTyped
  <2> QED
    BY <1>1, <1>2, <1>3, <2>1, Exit37
<1>4. CASE ~Occupied37 /\ Load(p, "begin37") /\ context' = TRUE
  <2>1. ~Committed(state) /\ results.rows = <<>> /\ ~results.torn
    BY <1>4 DEF Occupied37
  <2>2. /\ ProcTyped' /\ Continues(p) /\ Others(p) /\ proc'[p].command = proc[p].command
        /\ proc'[p].pc = "begin37" /\ proc'[p].seen = state
    BY <1>1, <1>4, Goes37 DEF At, Points, Writing37
  <2>3. Even /\ ~Does(p, "audit")
    BY <1>1, <2>1, Training37 DEF Even, Committed, At
  <2>4. Process37(p)'
    BY <1>1, <2>2, <2>3 DEF Process37, Does, At, Seen, Even, Writing37
  <2> QED
    BY <1>1, <1>2, <1>4, <2>2, <2>4, Quiet37 DEF Kept37
<1> QED
  BY <1>3, <1>4 DEF Train37

\* v37 train --resume: the checkpoint is loaded.
LEMMA Resume37Keeps ==
  ASSUME Held37, NEW p \in Procs, Resume37(p)
  PROVE  Kept37(p)
<1>1. At(p, "resume37") /\ UNCHANGED <<files, lock>>
  BY DEF Resume37
<1>2. /\ UNCHANGED <<state, results, hofFile, status, audit, retained, intent, manifest>>
      /\ lock' \in Locks \cup {None} /\ context' \in BOOLEAN
  BY <1>1 DEF files, Held37, FilesTyped
<1>3. CASE Exit(p)
  BY <1>2, <1>3, Exit37
<1>4. CASE Committed(state) /\ Load(p, "journal37")
  <2>1. /\ ProcTyped' /\ Continues(p) /\ Others(p) /\ proc'[p].command = proc[p].command
        /\ proc'[p].pc = "journal37" /\ proc'[p].seen = state
    BY <1>1, <1>4, Goes37 DEF At, Points, Writing37
  <2>2. Process37(p)'
    BY <1>1, <1>2, <1>4, <2>1 DEF Held37, Process37, Does, At, Seen, Committed, Writing37, Auditing37
  <2> QED
    BY <1>2, <2>1, <2>2, Quiet37 DEF Kept37
<1> QED
  BY <1>3, <1>4 DEF Resume37

\* A JSONL that is one row behind is not the one of a complete plan.
LEMMA LaggingIsNotWhole ==
  ASSUME FilesTyped, Lagging PROVE ~Whole /\ ~Even
  BY AheadIsNotEven DEF Lagging, Whole, Even

\* The journal gets the row it lacks.
LEMMA Completes37 ==
  ASSUME Held37, NEW p \in Procs, proc[p].pc \in {"journal37", "append"}, Lagging,
         NEW c \in {"begin37", "status37"}, Go(p, c),
         c = "status37" => proc[p].pc = "append", results' = Appended(Seen(p)),
         UNCHANGED <<version, state, hofFile, status, audit, retained, intent, manifest, context, lock>>
  PROVE  Kept37(p)
<1>1. /\ ~At(p, "idle") /\ Does(p, "audit") = FALSE /\ Process37(p) /\ Seen(p) = state /\ ~Does(p, "audit")
  BY Training37
<1>2. results' = [rows |-> state.chain, torn |-> FALSE] /\ Even'
  <2>1. results' = [rows |-> state.chain, torn |-> FALSE]
    BY <1>1, AppendedFacts DEF Held37, FilesTyped
  <2> QED
    BY <2>1 DEF Even
<1>3. /\ ProcTyped' /\ Continues(p) /\ Others(p) /\ proc'[p].command = proc[p].command
      /\ proc'[p].pc = c /\ proc'[p].seen = proc[p].seen
  BY <1>1, Goes37 DEF Points, Writing37
<1>4. ~Whole /\ ~Even
  BY LaggingIsNotWhole DEF Held37
<1>5. FilesTyped'
  <2>1. state.chain \in Seq(Champions)
    BY SavedFacts DEF Held37, FilesTyped
  <2> QED
    BY <1>2, <2>1 DEF Held37, FilesTyped
<1>6. Behind'
  BY <1>2 DEF Held37, Behind, Even, Committed
<1>7. Store37'
  BY <1>4 DEF Held37, Store37
<1>8. Process37(p)'
  <2>1. proc[p].pc = "append" => status.workflow \in {"TRAINING", "GENERATION_COMMITTED"}
    BY <1>1 DEF Process37
  <2> QED
    BY <1>1, <1>2, <1>3, <2>1 DEF Process37, Does, At, Seen, Writing37
<1> QED
  BY <1>1, <1>3, <1>4, <1>5, <1>6, <1>7, <1>8, Trained37 DEF Kept37

\* v37: a journal that a resume recovers is one row behind.
LEMMA Recoverable37Lags ==
  ASSUME Held37, NEW p \in Procs, At(p, "journal37"), Recoverable37(Seen(p))
  PROVE  Lagging
<1>1. Seen(p) = state /\ Committed(state)
  BY Training37 DEF At, Process37
<1> QED
  BY <1>1 DEF Recoverable37, Lagging, Ahead

\* v37: the journal is completed.
LEMMA Journal37Keeps ==
  ASSUME Held37, NEW p \in Procs, Journal37(p)
  PROVE  Kept37(p)
<1>1. /\ At(p, "journal37")
      /\ UNCHANGED <<version, state, hofFile, status, audit, retained, intent, manifest, context, lock>>
  BY DEF Journal37
<1>2. CASE Recoverable37(Seen(p)) /\ results' = Appended(Seen(p)) /\ Go(p, "begin37")
  BY <1>1, <1>2, Recoverable37Lags, Completes37 DEF At
<1>3. CASE ~results.torn /\ Consistent(Seen(p)) /\ Go(p, "begin37") /\ UNCHANGED results
  <2>1. Seen(p) = state /\ ~Does(p, "audit")
    BY <1>1, Training37 DEF At
  <2>2. Even
    BY <1>3, <2>1 DEF Consistent, Even
  <2>3. /\ ProcTyped' /\ Continues(p) /\ Others(p) /\ proc'[p].command = proc[p].command
        /\ proc'[p].pc = "begin37" /\ proc'[p].seen = proc[p].seen
    BY <1>1, <1>3, Goes37 DEF At, Points, Writing37
  <2>4. Process37(p)'
    BY <1>1, <1>3, <2>1, <2>2, <2>3 DEF Process37, Does, At, Seen, Even, Writing37
  <2>5. lock' \in Locks \cup {None} /\ context' \in BOOLEAN
    BY <1>1 DEF Held37, FilesTyped
  <2> QED
    BY <1>1, <1>3, <2>3, <2>4, <2>5, Quiet37 DEF Kept37
<1>4. CASE Exit(p) /\ UNCHANGED results
  <2>1. lock' \in Locks \cup {None} /\ context' \in BOOLEAN
    BY <1>1 DEF Held37, FilesTyped
  <2> QED
    BY <1>1, <1>4, <2>1, Exit37
<1> QED
  BY <1>2, <1>3, <1>4 DEF Journal37

\* v37: a row is appended.
LEMMA Append37Keeps ==
  ASSUME Held37, NEW p \in Procs, Append37(p)
  PROVE  Kept37(p)
<1>1. /\ At(p, "append") /\ results' = Appended(Seen(p)) /\ Go(p, "status37")
      /\ UNCHANGED <<version, state, hofFile, status, audit, retained, intent, manifest, context, lock>>
  BY DEF Append37
<1>2. Lagging
  BY <1>1 DEF Held37, Process37, At
<1> QED
  BY <1>1, <1>2, Completes37 DEF At

\* v37: death in the middle of a row.
LEMMA Tear37Keeps ==
  ASSUME Held37, NEW p \in Procs, Tear37(p)
  PROVE  Kept37(p)
<1>1. proc[p].pc \in {"append", "journal37"} /\ DieAppending(p)
  BY DEF Tear37, At
<1>2. Lagging
  BY Recoverable37Lags DEF Tear37, Held37, Process37, At
<1>3. /\ FilesTyped' /\ ProcTyped' /\ Continues(p) /\ proc'[p].pc = "idle" /\ Behind'
      /\ UNCHANGED <<version, state, hofFile, status, audit, retained, intent, manifest, context>>
  BY <1>1, <1>2, TearFacts DEF Held37
<1>4. ~Whole /\ ~Even
  BY <1>2, LaggingIsNotWhole DEF Held37
<1>5. Store37'
  BY <1>3, <1>4 DEF Held37, Store37
<1>6. Process37(p)'
  BY <1>3 DEF Process37, At
<1>7. \A q \in Procs \ {p} : Process37(q)'
  BY <1>1, <1>3, <1>4, Training37, Trained37 DEF Continues
<1> QED
  BY <1>3, <1>5, <1>6, <1>7 DEF Kept37

\* v37: the head of the loop decides about plan and budget.
LEMMA Head37Keeps ==
  ASSUME Held37, NEW p \in Procs, Head37(p)
  PROVE  Kept37(p)
<1>1. At(p, "head37") /\ UNCHANGED <<files, lock>>
  BY DEF Head37
<1>2. PICK c \in {"evaluate", "end37"} : Go(p, c)
  BY DEF Head37
<1>3. /\ UNCHANGED <<state, results, hofFile, status, audit, retained, intent, manifest>>
      /\ lock' \in Locks \cup {None} /\ context' \in BOOLEAN
  BY <1>1 DEF files, Held37, FilesTyped
<1>4. /\ ProcTyped' /\ Continues(p) /\ Others(p) /\ proc'[p].command = proc[p].command
      /\ proc'[p].pc = c /\ proc'[p].seen = proc[p].seen
  BY <1>1, <1>2, Goes37 DEF At, Points, Writing37
<1>5. Process37(p)'
  BY <1>1, <1>3, <1>4 DEF Held37, Process37, Does, At, Seen, Committed, Even, Writing37, Auditing37
<1> QED
  BY <1>3, <1>4, <1>5, Quiet37 DEF Kept37

\* The status of a session that has its rows.
LEMMA Announces37 ==
  ASSUME Held37, NEW p \in Procs, NEW w \in {"TRAINING", "GENERATION_COMMITTED", "TRAINING_COMPLETE", "BUDGET_EXHAUSTED"},
         NEW b \in BOOLEAN, SaveStatus37(p, w, b),
         proc[p].pc \in {"begin37", "status37", "end37"}, Others(p),
         w = "TRAINING_COMPLETE" => Len(state.chain) = MaxGenerations
  PROVE  /\ FilesTyped' /\ Behind' /\ Store37' /\ status'.workflow = w
         /\ \A q \in Procs \ {p} : Process37(q)'
         /\ state' = state /\ results' = results
<1>1. /\ ~At(p, "idle") /\ Does(p, "audit") = FALSE /\ Process37(p) /\ Seen(p) = state /\ Even
  BY Training37 DEF Process37
<1>2. /\ status' = [workflow |-> w, generations |-> Len(state.chain), bound |-> b]
      /\ UNCHANGED <<version, state, results, hofFile, audit, retained, intent, manifest, context, lock>>
  BY <1>1 DEF SaveStatus37, Status
<1>3. Len(state.chain) \in 0 .. MaxGenerations
  BY SavedFacts DEF Held37, FilesTyped
<1>4. FilesTyped' /\ Behind'
  <2>1. status' \in [workflow : Workflows, generations : 0 .. MaxGenerations, bound : BOOLEAN]
    BY <1>2, <1>3 DEF Workflows
  <2> QED
    BY <1>2, <2>1 DEF Held37, FilesTyped, Behind, Ahead, Committed
<1>5. Store37'
  BY <1>1, <1>2 DEF Held37, Store37, Whole, Even, Audit37, Hof
<1>6. \A q \in Procs \ {p} : Process37(q)'
  BY <1>1, <1>2, Trained37
<1> QED
  BY <1>2, <1>4, <1>5, <1>6

\* v37: the status at the begin.
LEMMA Begin37Keeps ==
  ASSUME Held37, NEW p \in Procs, Begin37(p) \/ Status37(p)
  PROVE  Kept37(p)
<1>1. PICK w \in {"TRAINING", "GENERATION_COMMITTED"}, b \in BOOLEAN : SaveStatus37(p, w, b)
  BY DEF Begin37, Status37
<1>2. proc[p].pc \in {"begin37", "status37"} /\ Go(p, "head37")
  BY DEF Begin37, Status37, At
<1>3. /\ ~At(p, "idle") /\ Process37(p) /\ Seen(p) = state /\ Even /\ ~Does(p, "audit")
  BY <1>2, Training37 DEF Process37
<1>4. /\ ProcTyped' /\ Continues(p) /\ Others(p) /\ proc'[p].command = proc[p].command
      /\ proc'[p].pc = "head37" /\ proc'[p].seen = proc[p].seen
  BY <1>2, <1>3, Goes37 DEF Points, Writing37
<1>5. /\ FilesTyped' /\ Behind' /\ Store37' /\ status'.workflow = w
      /\ \A q \in Procs \ {p} : Process37(q)'
      /\ state' = state /\ results' = results
  BY <1>1, <1>2, <1>4, Announces37
<1>6. Process37(p)'
  BY <1>3, <1>4, <1>5 DEF Process37, Does, At, Seen, Even, Writing37
<1> QED
  BY <1>4, <1>5, <1>6 DEF Kept37

\* v37: the status at the end.
LEMMA End37Keeps ==
  ASSUME Held37, NEW p \in Procs, End37(p)
  PROVE  Kept37(p)
<1>1. /\ At(p, "end37") /\ Exit(p)
      /\ SaveStatus37(p, IF Len(Seen(p).chain) = Planned THEN "TRAINING_COMPLETE" ELSE "BUDGET_EXHAUSTED", TRUE)
  BY DEF End37
<1>2. Seen(p) = state
  BY <1>1, Training37 DEF At
<1>3. PICK w \in {"TRAINING_COMPLETE", "BUDGET_EXHAUSTED"} :
        /\ w = (IF Len(Seen(p).chain) = Planned THEN "TRAINING_COMPLETE" ELSE "BUDGET_EXHAUSTED")
        /\ w = "TRAINING_COMPLETE" => Len(state.chain) = MaxGenerations
  BY <1>2 DEF Planned
<1>4. SaveStatus37(p, w, TRUE)
  BY <1>1, <1>3
<1>5. ProcTyped' /\ Continues(p) /\ proc'[p].pc = "idle"
  BY <1>1, ExitFacts DEF Held37
<1>6. FilesTyped' /\ Behind' /\ Store37' /\ \A q \in Procs \ {p} : Process37(q)'
  BY <1>1, <1>3, <1>4, <1>5, Announces37 DEF At, Continues
<1>7. Process37(p)'
  BY <1>5 DEF Process37, At
<1> QED
  BY <1>5, <1>6, <1>7 DEF Kept37

\* v37: a generation is committed.
LEMMA Evaluate37Keeps ==
  ASSUME Held37, NEW p \in Procs, Evaluate37(p)
  PROVE  Kept37(p)
<1>1. At(p, "evaluate") /\ Commit(p)
  BY DEF Evaluate37
<1>2. /\ ~At(p, "idle") /\ Does(p, "audit") = FALSE /\ Seen(p) = state /\ ~Does(p, "audit")
      /\ Even /\ status.workflow \in {"TRAINING", "GENERATION_COMMITTED"}
  BY <1>1, Training37 DEF At, Process37
<1>3. /\ ProcTyped' /\ Continues(p)
      /\ proc'[p].command = proc[p].command /\ proc'[p].pc = "append"
      /\ proc'[p].seen = state' /\ Len(state.chain) < MaxGenerations
      /\ FilesTyped' /\ state'.released = FALSE
      /\ Committed(state)' /\ Front(state'.chain) = state.chain
      /\ UNCHANGED <<version, results, hofFile, status, audit, retained, intent, manifest, context, lock>>
  BY <1>1, <1>2, CommitFacts DEF Held37
<1>4. ~Whole
  <2>1. Len(state.chain) \in Nat
    BY SavedFacts DEF Held37, FilesTyped
  <2> QED
    BY <1>3, <2>1, GenerationsAssumption DEF Whole
<1>5. Lagging'
  BY <1>2, <1>3 DEF Lagging, Even, Ahead, Committed
<1>6. Behind'
  BY <1>3, <1>5 DEF Behind, Lagging, Ahead, Committed
<1>7. Store37'
  BY <1>2, <1>3, <1>4 DEF Held37, Store37
<1>8. Process37(p)'
  BY <1>2, <1>3, <1>5 DEF Process37, Does, At, Seen, Writing37
<1>9. \A q \in Procs \ {p} : Process37(q)'
  BY <1>2, <1>3, <1>4, Trained37 DEF Continues
<1> QED
  BY <1>3, <1>6, <1>7, <1>8, <1>9 DEF Kept37

\* v37 audit: the complete plan is loaded.
LEMMA LoadAudit37Keeps ==
  ASSUME Held37, NEW p \in Procs, LoadAudit37(p)
  PROVE  Kept37(p)
<1>1. At(p, "load37") /\ UNCHANGED <<files, lock>>
  BY DEF LoadAudit37
<1>2. /\ UNCHANGED <<state, results, hofFile, status, audit, retained, intent, manifest>>
      /\ lock' \in Locks \cup {None} /\ context' \in BOOLEAN
  BY <1>1 DEF files, Held37, FilesTyped
<1>3. CASE Exit(p)
  BY <1>2, <1>3, Exit37
<1>4. CASE Eligible37 /\ Load(p, "score37")
  <2>1. /\ ProcTyped' /\ Continues(p) /\ Others(p) /\ proc'[p].command = proc[p].command
        /\ proc'[p].pc = "score37" /\ proc'[p].seen = state
    BY <1>1, <1>4, Goes37 DEF At, Points, Auditing37
  <2>2. Whole
    BY <1>4 DEF Held37, Store37, Eligible37, Reported37, Status
  <2>3. Process37(p)'
    BY <1>1, <1>2, <2>1, <2>2 DEF Held37, Process37, Does, At, Seen, Whole, Even, Writing37, Auditing37
  <2> QED
    BY <1>2, <2>1, <2>3, Quiet37 DEF Kept37
<1> QED
  BY <1>3, <1>4 DEF LoadAudit37

\* What an audit changes concerns no training process.
LEMMA Audited37 ==
  ASSUME Held37, NEW p \in Procs, Others(p), Does(p, "audit"), ~At(p, "idle"),
         UNCHANGED <<state, results, status>>
  PROVE  \A q \in Procs \ {p} : Process37(q)'
<1>1. ASSUME NEW q \in Procs \ {p} PROVE Process37(q)'
  <2>1. Process37(q) /\ proc'[q] = proc[q]
    BY DEF Held37, Others
  <2>2. ~(proc[q].pc # "idle" /\ Does(q, "audit"))
    BY DEF Held37, Admitted, Auditing, At, Does
  <2>3. proc[q].pc # "analysis37"
    BY <2>1, <2>2 DEF Process37, Writing37
  <2> QED
    BY <2>1, <2>3 DEF Process37, Does, At, Seen, Committed, Even, Lagging, Ahead, Whole
<1> QED
  BY <1>1

\* v37 audit: its evidence.
LEMMA Score37Keeps ==
  ASSUME Held37, NEW p \in Procs, Score37(p)
  PROVE  Kept37(p)
<1>1. /\ At(p, "score37")
      /\ UNCHANGED <<version, state, results, hofFile, status, retained, intent, manifest, context, lock>>
  BY DEF Score37
<1>2. Does(p, "audit") /\ Seen(p) = state /\ Whole
  BY <1>1 DEF Held37, Process37, At, Does, Writing37
<1>3. CASE Exit(p) /\ UNCHANGED audit
  <2>1. lock' \in Locks \cup {None} /\ context' \in BOOLEAN
    BY <1>1 DEF Held37, FilesTyped
  <2> QED
    BY <1>1, <1>3, <2>1, Exit37
<1>4. CASE audit = None /\ audit' = Audit37(Seen(p)) /\ Go(p, "analysis37")
  <2>1. /\ ProcTyped' /\ Continues(p) /\ Others(p) /\ proc'[p].command = proc[p].command
        /\ proc'[p].pc = "analysis37" /\ proc'[p].seen = proc[p].seen
    BY <1>1, <1>4, Goes37 DEF At, Points, Auditing37
  <2>2. audit' \in Audits /\ audit' = Audit37(state)
    <3>1. state \in Saved /\ Committed(state)
      BY <1>2, EmptySeq, GenerationsAssumption DEF Held37, FilesTyped, Whole, Committed
    <3> QED
      BY <1>2, <1>4, <3>1, SavedFacts DEF Audits, Audit37
  <2>3. FilesTyped' /\ Behind'
    BY <1>1, <2>2 DEF Held37, FilesTyped, Behind, Ahead, Committed
  <2>4. manifest = None
    BY <1>4 DEF Held37, Store37
  <2>5. Store37'
    BY <1>1, <1>2, <2>2, <2>4 DEF Held37, Store37, Whole, Even, Audit37, Hof
  <2>6. Process37(p)'
    BY <1>1, <1>2, <2>1, <2>2 DEF Process37, Does, At, Seen, Whole, Even, Audit37, Hof, Auditing37
  <2> QED
    BY <1>1, <1>2, <2>1, <2>3, <2>5, <2>6, Audited37 DEF Kept37, At
<1> QED
  BY <1>3, <1>4 DEF Score37

\* v37: the failure analysis.
LEMMA Analysis37Keeps ==
  ASSUME Held37, NEW p \in Procs, Analysis37(p)
  PROVE  Kept37(p)
<1>1. /\ At(p, "analysis37") /\ manifest' = Audit37(Seen(p)) /\ Exit(p)
      /\ UNCHANGED <<version, state, results, hofFile, status, audit, retained, intent, context, lock>>
  BY DEF Analysis37
<1>2. /\ Does(p, "audit") /\ Seen(p) = state /\ Whole /\ audit = Audit37(state)
  BY <1>1 DEF Held37, Process37, At, Does, Writing37
<1>3. ProcTyped' /\ Continues(p) /\ proc'[p].pc = "idle"
  BY <1>1, ExitFacts DEF Held37
<1>4. FilesTyped' /\ Behind'
  BY <1>1 DEF Held37, FilesTyped, Behind, Ahead, Committed
<1>5. audit # None
  <2>1. state \in Saved /\ Committed(state)
    BY <1>2, EmptySeq, GenerationsAssumption DEF Held37, FilesTyped, Whole, Committed
  <2>2. audit \in Audits
    BY <1>2, <2>1, SavedFacts DEF Audits, Audit37
  <2> QED
    BY <2>2, AbsenceAssumption
<1>6. Store37'
  BY <1>1, <1>2, <1>5 DEF Held37, Store37, Whole, Even, Audit37, Hof
<1>7. Process37(p)'
  BY <1>3 DEF Process37, At
<1> QED
  BY <1>1, <1>2, <1>3, <1>4, <1>6, <1>7, Audited37 DEF Kept37, Continues, At

\* v37: failure and death.
LEMMA Fail37Keeps ==
  ASSUME Held37, NEW p \in Procs, Fail37(p) \/ Die(p)
  PROVE  Kept37(p)
<1>1. Exit(p) /\ UNCHANGED files /\ lock' \in {lock, Abandoned(p)}
  BY DEF Fail37, Die
<1>2. lock' \in Locks \cup {None}
  BY <1>1, AbandonedTyped DEF Held37, FilesTyped
<1>3. /\ UNCHANGED <<state, results, hofFile, status, audit, retained, intent, manifest>>
      /\ context' \in BOOLEAN
  BY <1>1 DEF files, Held37, FilesTyped
<1> QED
  BY <1>1, <1>2, <1>3, Exit37

\* Every step of v37 keeps the invariant.
LEMMA Step37Keeps ==
  ASSUME Held37, NEW p \in Procs, Step37(p) \/ Die(p)
  PROVE  Kept37(p)
  BY Train37Keeps, Resume37Keeps, Journal37Keeps, Begin37Keeps, Head37Keeps, Evaluate37Keeps, Append37Keeps,
     Tear37Keeps, End37Keeps, LoadAudit37Keeps, Score37Keeps, Analysis37Keeps, Fail37Keeps
  DEF Step37

--------------------------------------------------------------------------------
(* The invariant of the specification *)

\* No live process loses the lock of v36: what its _acquire_lock would have to see to.
LockHolds == LiveTakeover = FALSE \/ "v36" \notin Versions

\* An empty experiment satisfies the invariant.
LEMMA InitInv == Init => IInv
<1> SUFFICES ASSUME Init PROVE IInv
  OBVIOUS
<1>1. /\ version \in Versions /\ state = NoState /\ results = [rows |-> <<>>, torn |-> FALSE]
      /\ hofFile = None /\ status = NoStatus /\ audit = None /\ retained = {} /\ intent = None
      /\ manifest = None /\ context = FALSE /\ lock = None /\ proc = [p \in Procs |-> Idle]
  BY DEF Init, StoreInit
<1>2. version \in {"v35", "v36", "v37"}
  BY <1>1, VersionsAssumption
<1>3. ProcTyped
  BY <1>1, IdleTyped DEF ProcTyped
<1>4. \A p \in Procs : proc[p].pc = "idle"
  BY <1>1, IdleTyped
<1>5. FilesTyped
  <2>1. state \in Saved /\ results \in [rows : Seq(Champions), torn : BOOLEAN]
    BY <1>1, NoStateFacts, EmptySeq
  <2>2. NoStatus \in [workflow : Workflows, generations : 0 .. MaxGenerations, bound : BOOLEAN]
    BY GenerationsAssumption DEF NoStatus, Workflows
  <2> QED
    BY <1>1, <2>1, <2>2 DEF FilesTyped
<1>6. Behind /\ ~state.released
  BY <1>1, NoStateFacts DEF Behind
<1>7. Admitted
  BY <1>4 DEF Admitted, Writing, Auditing
<1>8. Stored
  BY <1>1, <1>6 DEF Stored, Store35, Store36, Store37, NoStatus, Status
<1>9. \A p \in Procs : Own(p)
  BY <1>4 DEF Own, Process35, Process36, Process37, At, Unlocking36
<1> QED
  BY <1>1, <1>2, <1>3, <1>5, <1>6, <1>7, <1>8, <1>9 DEF IInv

\* A command begins: it has seen nothing yet, and may run beside those that run.
LEMMA StartKeeps ==
  ASSUME IInv, NEW p \in Procs, Start(p)
  PROVE  IInv'
<1>1. At(p, "idle") /\ UNCHANGED <<version, files, lock>>
  BY DEF Start
<1>2. PICK command \in DOMAIN Begins(version) :
        MayStart(command) /\ proc' = [proc EXCEPT ![p] = Working(command, Begins(version)[command])]
  BY DEF Start
<1> DEFINE first == Begins(version)[command]
<1>3. /\ command \in Commands
      /\ version = "v35" => first \in (IF command = "audit" THEN {"resume35"} ELSE {"train35", "resume35"})
      /\ version = "v36" => first \in (IF command = "audit" THEN {"load36"} ELSE {"probe36", "resume36"})
      /\ version = "v36" /\ command = "continue" => first = "resume36"
      /\ version = "v37" => first \in (IF command = "audit" THEN {"load37"} ELSE {"train37", "resume37"})
  <2>1. CASE version = "v35"
    BY <2>1 DEF Begins, Commands
  <2>2. CASE version = "v36"
    BY <2>2 DEF Begins, Commands
  <2>3. CASE version = "v37"
    BY <2>3 DEF Begins, Commands
  <2> QED
    BY <2>1, <2>2, <2>3 DEF IInv
<1> HIDE DEF first
<1>4. first \in Points \ {"idle"}
  BY <1>3 DEF IInv, Points, Writing35, Auditing35, Writing36, Auditing36, Writing37, Auditing37
<1> DEFINE m == Working(command, first)
<1>5. m \in Memory /\ m.pc = first /\ m.command = command /\ m # Idle
  BY <1>3, <1>4, IdleTyped DEF Working, Memory
<1>6. proc' = [proc EXCEPT ![p] = m]
  BY <1>2 DEF first
<1> HIDE DEF m
<1>7. ProcTyped' /\ Others(p) /\ proc'[p] = m
  BY <1>4, <1>5, <1>6, SetFacts DEF IInv
<1>8. /\ FilesTyped' /\ Behind'
      /\ state' = state /\ results' = results /\ hofFile' = hofFile /\ status' = status /\ audit' = audit
      /\ intent' = intent /\ manifest' = manifest /\ lock' = lock
  BY <1>1, FilesKept DEF IInv
<1>9. Stored'
  BY <1>1, <1>8
  DEF IInv, Stored, Store35, Store36, Store37, Sealing, Whole, Even, Audit35, Audit37, Hof
<1>10. Own(p)'
  BY <1>1, <1>3, <1>5, <1>7
  DEF IInv, Own, Process35, Process36, Process37, Does, At, Writing35, Auditing35, Writing36, Auditing36, Writing37,
      Auditing37, Unlocking36
<1>11. ASSUME NEW q \in Procs \ {p} PROVE Own(q)'
  <2>1. Own(q) /\ proc'[q] = proc[q]
    BY <1>7 DEF IInv, Others
  <2>2. version = "v35" => Process35(q)'
    BY <1>8, <2>1 DEF Own, Process35, Does, At, Seen, Committed, Even, Lagging, Ahead, Hof, Audit35
  <2>3. version = "v36" => Process36(q)'
    BY <1>8, <2>1 DEF Own, Process36, Does, At, Seen, Committed, Even, Lagging, Ahead, Hof, Held
  <2>4. version = "v37" => Process37(q)'
    BY <1>8, <2>1 DEF Own, Process37, Does, At, Seen, Committed, Even, Lagging, Ahead, Whole, Hof, Audit37
  <2> QED
    BY <1>1, <2>2, <2>3, <2>4 DEF Own
<1>12. Admitted'
  <2>1. \A q \in Procs \ {p} : /\ Writing(q)' <=> Writing(q)
                               /\ Auditing(q)' <=> Auditing(q)
                               /\ proc'[q].pc = proc[q].pc
    BY <1>7 DEF Others, Writing, Auditing
  <2>2. Writing(p)' => command # "audit"
    BY <1>5, <1>7 DEF Writing
  <2>3. Auditing(p)' => command = "audit"
    BY <1>5, <1>7 DEF Auditing
  <2>4. CASE version = "v35"
    <3>1. command = "audit" => \A q \in Procs : ~Writing(q)
      BY <1>2, <2>4 DEF MayStart, Writers, Auditors, Running, At, Does, Writing
    <3>2. command # "audit" => \A q \in Procs : proc[q].pc = "idle"
      BY <1>2, <2>4 DEF MayStart, Running, At
    <3> QED
      BY <1>1, <2>1, <2>2, <2>4, <3>1, <3>2 DEF Admitted, Writing
  <2>5. CASE version # "v35"
    <3>1. command = "audit" => \A q \in Procs : ~Auditing(q)
      BY <1>2, <2>5 DEF MayStart, Auditors, Running, At, Does, Auditing
    <3>2. command # "audit" /\ version = "v37" => \A q \in Procs : ~Writing(q)
      BY <1>2, <2>5 DEF MayStart, Auditors, Running, At, Does, Writing
    <3>3. \A q, r \in Procs : Auditing(q)' /\ Auditing(r)' => q = r
      BY <2>1, <2>3, <2>5, <3>1 DEF IInv, Admitted
    <3>4. version = "v37" => \A q, r \in Procs : Writing(q)' /\ Writing(r)' => q = r
      BY <2>1, <2>2, <3>2 DEF IInv, Admitted
    <3> QED
      BY <1>1, <2>5, <3>3, <3>4 DEF Admitted
  <2> QED
    BY <2>4, <2>5
<1> QED
  BY <1>1, <1>7, <1>8, <1>9, <1>10, <1>11, <1>12 DEF IInv

\* The step of a command keeps the version.
LEMMA VersionKept ==
  ASSUME NEW p \in Procs, V35(p) \/ V36(p) \/ V37(p) \/ Die(p)
  PROVE  version' = version
<1>1. CASE V35(p)
  BY <1>1
  DEF V35, Step35, Train35, Resume35, Ensure35, EnsureResult, SaveHof35, Evaluate35, Commit, Append35, Tear35, DieAppending,
      More35, LockAudit35, WriteAudit35, UnlockAudit35, Release35, Manifest35, Fail35
<1>2. CASE V36(p)
  BY <1>2
  DEF V36, Step36, Probe36, Steal36, Create36, Write36, Unlock36, Train36, Resume36, Reload36, Reconcile36, Retain36,
      Evaluate36, Commit, Append36, Tear36, DieAppending, Status36, LoadAudit36, Evidence36, Score36, CheckRelease36,
      Intent36, Release36, Manifest36, Report36, Fail36
<1>3. CASE V37(p)
  BY <1>3
  DEF V37, Step37, Train37, Resume37, Journal37, Begin37, SaveStatus37, Head37, Evaluate37, Commit, Append37, Tear37,
      DieAppending, Status37, End37, LoadAudit37, Score37, Analysis37, Fail37
<1> QED
  BY <1>1, <1>2, <1>3 DEF Die

\* Every step of every process keeps it.
LEMMA NextInv ==
  ASSUME LockHolds, IInv, [Next]_vars
  PROVE  IInv'
<1>1. CASE UNCHANGED vars
  <2>1. /\ version' = version /\ UNCHANGED <<files, lock>> /\ proc' = proc
    BY <1>1 DEF vars
  <2>2. /\ FilesTyped' /\ Behind'
        /\ state' = state /\ results' = results /\ hofFile' = hofFile /\ status' = status /\ audit' = audit
        /\ intent' = intent /\ manifest' = manifest /\ lock' = lock
    BY <2>1, FilesKept DEF IInv
  <2>3. ProcTyped' /\ Admitted'
    BY <2>1 DEF IInv, ProcTyped, Admitted, Writing, Auditing
  <2>4. Stored'
    BY <2>1, <2>2
    DEF IInv, Stored, Store35, Store36, Store37, Sealing, Whole, Even, Audit35, Audit37, Hof
  <2>5. ASSUME NEW q \in Procs PROVE Own(q)'
    <3>1. Own(q)
      BY DEF IInv
    <3>2. version = "v35" => Process35(q)'
      BY <2>1, <2>2, <3>1 DEF Own, Process35, Does, At, Seen, Committed, Even, Lagging, Ahead, Hof, Audit35
    <3>3. version = "v36" => Process36(q)'
      BY <2>1, <2>2, <3>1 DEF Own, Process36, Does, At, Seen, Committed, Even, Lagging, Ahead, Hof, Held
    <3>4. version = "v37" => Process37(q)'
      BY <2>1, <2>2, <3>1 DEF Own, Process37, Does, At, Seen, Committed, Even, Lagging, Ahead, Whole, Hof, Audit37
    <3> QED
      BY <2>1, <3>2, <3>3, <3>4 DEF Own
  <2> QED
    BY <2>1, <2>2, <2>3, <2>4, <2>5 DEF IInv
<1>2. CASE Next
  <2>1. PICK p \in Procs : Start(p) \/ V35(p) \/ V36(p) \/ V37(p) \/ Die(p)
    BY <1>2 DEF Next
  <2>2. CASE Start(p)
    BY <2>2, StartKeeps
  <2>3. CASE V35(p) \/ V36(p) \/ V37(p) \/ Die(p)
    <3>1. version' = version /\ version \in {"v35", "v36", "v37"} /\ version \in Versions
      BY <2>3, VersionKept DEF IInv
    <3>2. CASE version = "v35"
      <4>1. Held35 /\ (Step35(p) \/ Die(p))
        BY <2>3, <3>2 DEF IInv, Held35, Stored, Own, V35, V36, V37
      <4>2. Kept35(p)
        BY <4>1, Step35Keeps
      <4>3. Admitted'
        BY <3>1, <4>2, AdmittedKept DEF IInv, Kept35
      <4> QED
        BY <3>1, <3>2, <4>2, <4>3 DEF IInv, Kept35, Stored, Own
    <3>3. CASE version = "v36"
      <4>1. Held36 /\ ((Step36(p) /\ NotTaken36(p)) \/ Die(p))
        BY <2>3, <3>3 DEF IInv, Held36, Stored, Own, V35, V36, V37, NotTaken36
      <4>2. Kept36(p)
        BY <3>1, <3>3, <4>1, Step36Keeps DEF LockHolds
      <4>3. Admitted'
        BY <3>1, <4>2, AdmittedKept DEF IInv, Kept36
      <4> QED
        BY <3>1, <3>3, <4>2, <4>3 DEF IInv, Kept36, Stored, Own
    <3>4. CASE version = "v37"
      <4>1. Held37 /\ (Step37(p) \/ Die(p))
        BY <2>3, <3>4 DEF IInv, Held37, Stored, Own, V35, V36, V37
      <4>2. Kept37(p)
        BY <4>1, Step37Keeps
      <4>3. Admitted'
        BY <3>1, <4>2, AdmittedKept DEF IInv, Kept37
      <4> QED
        BY <3>1, <3>4, <4>2, <4>3 DEF IInv, Kept37, Stored, Own
    <3> QED
      BY <3>1, <3>2, <3>3, <3>4
  <2> QED
    BY <2>1, <2>2, <2>3
<1> QED
  BY <1>1, <1>2

\* Whatever dies, fails or runs beside what, every command finds the files as it relies
\* on them at each of its steps (v36: as long as no live process loses the lock).
THEOREM EvolutionInvariant == ASSUME LockHolds PROVE Spec => []IInv
<1>1. IInv /\ [Next]_vars => IInv'
  BY NextInv
<1> QED
  BY InitInv, <1>1, PTL DEF Spec

--------------------------------------------------------------------------------
(* What follows from it *)

\* The types are part of it.
LEMMA TypesFollow == IInv => TypeOK
<1> SUFFICES ASSUME IInv PROVE TypeOK
  OBVIOUS
<1>1. ASSUME NEW p \in Procs
      PROVE  /\ proc[p].command \in Commands \cup {"none"}
             /\ proc[p].seen \in States /\ proc[p].source \in States
             /\ (proc[p] = Idle) = At(p, "idle")
  <2>1. proc[p] = Idle <=> proc[p].pc = "idle"
    BY DEF IInv, ProcTyped
  <2>2. proc[p] \in Memory
    BY DEF IInv, ProcTyped
  <2> QED
    BY <2>1, <2>2 DEF Memory, Saved, At
<1>2. state \in States /\ Len(state.chain) <= MaxGenerations
  BY DEF IInv, FilesTyped, Saved
<1> QED
  BY <1>1, <1>2 DEF IInv, FilesTyped, Workflows, TypeOK

\* The JSONL holds every generation of the checkpoint but perhaps the last, and a torn
\* line only in the place of that last one, under every version and whoever dies.
THEOREM HistoryIsBehind == ASSUME LockHolds PROVE Spec => []HistoryBehind
<1>1. IInv => HistoryBehind
  BY TypesFollow DEF IInv, Behind, HistoryBehind
<1> QED
  BY <1>1, EvolutionInvariant, PTL

\* RELEASED is earned: the terminal audit on the disk is the one of the released
\* generations, under v36 it passed for the checkpoint the intent names, and what v37
\* ends with is the audit of the complete plan.
THEOREM ReleasesAreEarned == ASSUME LockHolds PROVE Spec => []ReleaseIsEarned
<1>1. ASSUME IInv PROVE ReleaseIsEarned
  <2>1. AuditIsTerminal
    BY <1>1 DEF IInv, Stored, Store37, AuditIsTerminal, Whole, Even, Consistent, Planned
  <2>2. ASSUME state.released
        PROVE  /\ audit # None /\ audit.hof = Hof(state)
               /\ version = "v35" => audit = Audit35(state)
               /\ version = "v36" => /\ audit.pass /\ intent # None
                                     /\ intent.audit = audit /\ intent.source = audit.source
                                     /\ audit.source = [state EXCEPT !.released = FALSE]
    <3>1. version = "v35" => audit = Audit35(state) /\ audit # None /\ audit.hof = Hof(state)
      <4>1. version = "v35" => audit = Audit35(state)
        BY <1>1, <2>2 DEF IInv, Stored, Store35
      <4>2. Audit35(state) \in Audits /\ Audit35(state).hof = Hof(state)
        <5>1. state \in Saved /\ Committed(state)
          BY <1>1, <2>2 DEF IInv, FilesTyped, Behind
        <5> QED
          BY <5>1, SavedFacts DEF Audit35, Audits
      <4> QED
        BY <4>1, <4>2, AbsenceAssumption
    <3>2. version # "v37"
      BY <1>1, <2>2 DEF IInv, Stored, Store37
    <3> QED
      BY <1>1, <2>2, <3>1, <3>2 DEF IInv, Stored, Store36
  <2> QED
    BY <2>1, <2>2 DEF ReleaseIsEarned
<1> QED
  BY <1>1, EvolutionInvariant, PTL

\* A manifest of v35 or v36 names the files that are there: nothing changes an artifact
\* of a released experiment any more.
THEOREM ManifestsHold == ASSUME LockHolds PROVE Spec => []ManifestHolds
<1>1. ASSUME IInv PROVE ManifestHolds
  BY <1>1
  DEF IInv, Stored, Store35, Store36, Store37, ManifestHolds, Sealing, Even, Consistent
<1> QED
  BY <1>1, EvolutionInvariant, PTL

\* A session of v37 that its budget ended, once it committed a generation, can be
\* resumed: its status names the generation of a checkpoint whose journal is complete.
THEOREM BudgetsAreResumable == ASSUME LockHolds PROVE Spec => []BudgetIsResumable
<1>1. ASSUME IInv PROVE BudgetIsResumable
  BY <1>1
  DEF IInv, Stored, Store35, Store36, Store37, BudgetIsResumable, Even, Consistent
<1> QED
  BY <1>1, EvolutionInvariant, PTL

\* The lock of v36 excludes: as long as no live process loses it, one process at most is
\* between taking it and giving it back.  With the take-over of the code it does not.
THEOREM TrainingExcludes == ASSUME LockHolds PROVE Spec => []TrainingExclusive
<1>1. ASSUME IInv PROVE TrainingExclusive
  <2>1. ASSUME version = "v36" PROVE Cardinality(Locked36) <= 1
    <3>1. \A p \in Procs : proc[p].pc \in Unlocking36 => lock = Held(p)
      BY <1>1, <2>1 DEF IInv, Own, Process36
    <3>2. \A p, q \in Locked36 : p = q
      BY <3>1 DEF Locked36, Held
    <3>3. Locked36 = {} \/ \E p \in Locked36 : Locked36 = {p}
      BY <3>2
    <3>4. CASE Locked36 = {}
      BY <3>4, FS_EmptySet
    <3>5. ASSUME NEW p \in Locked36, Locked36 = {p} PROVE Cardinality(Locked36) <= 1
      <4>1. Cardinality({p}) = 1
        BY FS_Singleton
      <4> QED
        BY <3>5, <4>1
    <3> QED
      BY <3>3, <3>4, <3>5
  <2> QED
    BY <2>1 DEF TrainingExclusive
<1> QED
  BY <1>1, EvolutionInvariant, PTL

--------------------------------------------------------------------------------
(* The refinement: checkpoints are a history that only grows *)

\* No generation is history yet.
LEMMA InitMaps == Init => History!Init
  BY NoStateFacts DEF Init, StoreInit, History!Init

\* A commit is a commit of the history.
LEMMA CommitMaps ==
  ASSUME FilesTyped, ProcTyped, NEW p \in Procs, At(p, "evaluate"), Commit(p), Seen(p).chain = state.chain,
         ~state.released
  PROVE  History!Commit
<1>1. /\ state'.released = FALSE
      /\ \E h \in Champions : state'.chain = Append(state.chain, h)
  BY CommitFacts
<1>2. state.released = FALSE
  BY SavedFacts DEF FilesTyped
<1> QED
  BY <1>1, <1>2 DEF History!Commit

\* A release is a release of the history.
LEMMA ReleaseMaps ==
  ASSUME FilesTyped, Committed(state), ~state.released, state' = [state EXCEPT !.released = TRUE]
  PROVE  History!Release
<1>1. state'.released = TRUE /\ state'.chain = state.chain
  BY SavedFacts DEF FilesTyped
<1> QED
  BY <1>1 DEF History!Release, Committed

\* Only three steps of a command change the checkpoint.
LEMMA Step35Maps ==
  ASSUME Held35, NEW p \in Procs, Step35(p)
  PROVE  state' = state \/ History!Next
<1>1. CASE Evaluate35(p)
  <2>1. At(p, "evaluate") /\ Commit(p)
    BY <1>1 DEF Evaluate35
  <2>2. Seen(p).chain = state.chain /\ ~state.released
    BY <2>1 DEF Held35, Process35, At, Does, Seen, Auditing35
  <2> QED
    BY <2>1, <2>2, CommitMaps DEF Held35, History!Next
<1>2. CASE Release35(p)
  <2>1. At(p, "release35") /\ state' = IF Seen(p).released THEN state ELSE [state EXCEPT !.released = TRUE]
    BY <1>2 DEF Release35
  <2>2. Committed(state)
    BY <2>1 DEF Held35, Process35, At
  <2>3. CASE state.released
    <3>1. [state EXCEPT !.released = TRUE] = state
      BY <2>3, SavedFacts DEF Held35, FilesTyped
    <3> QED
      BY <2>1, <3>1
  <2>4. CASE ~state.released
    BY <2>1, <2>2, <2>4, ReleaseMaps DEF Held35, History!Next
  <2> QED
    BY <2>3, <2>4
<1> QED
  BY <1>1, <1>2
  DEF Step35, Train35, Resume35, Ensure35, EnsureResult, SaveHof35, Append35, Tear35, DieAppending, files,
      More35, LockAudit35, WriteAudit35, UnlockAudit35, Manifest35, Fail35

\* Steps of v36 are steps of the history or leave it alone.
LEMMA Step36Maps ==
  ASSUME Held36, NEW p \in Procs, Step36(p)
  PROVE  state' = state \/ History!Next
<1>1. CASE Evaluate36(p)
  <2>1. At(p, "evaluate") /\ Commit(p)
    BY <1>1 DEF Evaluate36
  <2>2. Seen(p).chain = state.chain /\ ~state.released
    BY <2>1 DEF Held36, Process36, At
  <2> QED
    BY <2>1, <2>2, CommitMaps DEF Held36, History!Next
<1>2. CASE Release36(p)
  <2>1. At(p, "released36") /\ state' = [state EXCEPT !.released = TRUE]
    BY <1>2 DEF Release36
  <2>2. Committed(state) /\ ~state.released
    BY <2>1 DEF Held36, Process36, At
  <2> QED
    BY <2>1, <2>2, ReleaseMaps DEF Held36, History!Next
<1> QED
  BY <1>1, <1>2
  DEF Step36, Probe36, Steal36, Create36, Write36, Unlock36, Train36, Resume36, Reload36, Reconcile36, Retain36,
      Append36, Tear36, DieAppending, Status36, LoadAudit36, Evidence36, Score36, CheckRelease36, files,
      Intent36, Manifest36, Report36, Fail36

\* Steps of v37 likewise.
LEMMA Step37Maps ==
  ASSUME Held37, NEW p \in Procs, Step37(p)
  PROVE  state' = state \/ History!Next
<1>1. CASE Evaluate37(p)
  <2>1. At(p, "evaluate") /\ Commit(p)
    BY <1>1 DEF Evaluate37
  <2>2. Seen(p).chain = state.chain /\ ~state.released
    BY <2>1 DEF Held37, Store37, Process37, At
  <2> QED
    BY <2>1, <2>2, CommitMaps DEF Held37, History!Next
<1> QED
  BY <1>1
  DEF Step37, Train37, Resume37, Journal37, Begin37, SaveStatus37, Head37, Append37, Tear37, files,
      DieAppending, Status37, End37, LoadAudit37, Score37, Analysis37, Fail37

\* Every step maps to a step of the history or to none.
LEMMA NextMaps ==
  ASSUME IInv, [Next]_vars
  PROVE  [History!Next]_History!vars
<1>1. CASE state' = state
  BY <1>1 DEF History!vars
<1>2. CASE Next
  <2>1. PICK p \in Procs : Start(p) \/ V35(p) \/ V36(p) \/ V37(p) \/ Die(p)
    BY <1>2 DEF Next
  <2>2. CASE Start(p) \/ Die(p)
    BY <1>1, <2>2 DEF Start, Die, files
  <2>3. CASE V35(p)
    BY <1>1, <2>1, <2>3, Step35Maps DEF V35, IInv, Held35, Stored, Own
  <2>4. CASE V36(p)
    BY <1>1, <2>1, <2>4, Step36Maps DEF V36, IInv, Held36, Stored, Own
  <2>5. CASE V37(p)
    BY <1>1, <2>1, <2>5, Step37Maps DEF V37, IInv, Held37, Stored, Own
  <2> QED
    BY <2>1, <2>2, <2>3, <2>4, <2>5
<1> QED
  BY <1>1, <1>2 DEF vars, files

\* Every version implements the history: no generation is lost or rewritten, one is
\* added at a time, and none after the release.
THEOREM EvolutionKeepsHistory == ASSUME LockHolds PROVE Spec => ImplementsHistory
<1>1. IInv /\ [Next]_vars => [History!Next]_History!vars
  BY NextMaps
<1>2. Spec => []IInv
  BY EvolutionInvariant
<1> QED
  BY <1>1, <1>2, InitMaps, PTL DEF Spec, ImplementsHistory, History!Spec
================================================================================
