-------------------------- MODULE TerminalEvidence --------------------------
(***************************************************************************)
(* What the runner's evidence store promises a reader, without its files.  *)
(*                                                                         *)
(* Runs are committed to one append-only history.  A reader asks for the   *)
(* terminal run of a name and gets either a refusal (publication pending)  *)
(* or a run; a run it is given is always the last committed one of that    *)
(* name.  The history grows only while readers are refused.                *)
(*                                                                         *)
(* RunnerPublication implements this module with a ledger, a write-ahead   *)
(* record and one pointer file per name.                                   *)
(***************************************************************************)
EXTENDS Naturals, Sequences

CONSTANTS Runs,      \* run identities
          Names,     \* runner names
          NameOf,    \* the name each run publishes under
          None,      \* no run committed under a name yet
          Refused    \* the answer while a publication is pending

VARIABLES committed, \* the history: a sequence of runs
          answer     \* what a reader of each name is told

evidence == <<committed, answer>>

\* The history log of name n ends with run x, or is empty and x is None.
EndsWith(log, n, x) ==
  \/ x = None /\ \A i \in DOMAIN log : NameOf[log[i]] # n
  \/ \E i \in DOMAIN log :
       /\ log[i] = x
       /\ NameOf[x] = n
       /\ \A j \in DOMAIN log : NameOf[log[j]] = n => j =< i

Init ==
  /\ committed = <<>>
  /\ answer = [n \in Names |-> None]

\* A publication begins: every reader is refused until it is complete.
Refuse ==
  /\ answer' = [n \in Names |-> Refused]
  /\ UNCHANGED committed

\* The commit point.  A run is committed once, and out of readers' sight.
Commit(r) ==
  /\ answer = [n \in Names |-> Refused]
  /\ \A i \in DOMAIN committed : committed[i] # r
  /\ committed' = Append(committed, r)
  /\ UNCHANGED answer

\* The publication is complete: every name answers with its last run.
Answer ==
  /\ answer' \in [Names -> Runs \cup {None}]
  /\ \A n \in Names : EndsWith(committed, n, answer'[n])
  /\ UNCHANGED committed

Next == Refuse \/ Answer \/ \E r \in Runs : Commit(r)

Spec == Init /\ [][Next]_evidence
=============================================================================
