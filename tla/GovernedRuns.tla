----------------------------- MODULE GovernedRuns ------------------------------
(***************************************************************************)
(* What the improvement controller promises of its runs to somebody who       *)
(* reads its artifact directory.  Runs are opened one after the other.  A      *)
(* run makes one statement about itself, when it is sealed; the statement      *)
(* stays, takes its place in an append-only ledger, and may then become what   *)
(* latest.json points to.  A run that was given up for the next one is         *)
(* never heard of again.                                                     *)
(***************************************************************************)
EXTENDS Naturals, Sequences, SequencesExt

VARIABLES
  opened,      \* the run opened last, 0 without one
  statements,  \* by run, of the sealed runs
  ledger,      \* the runs anchored
  latest       \* the run latest.json points to, 0 without one

vars == <<opened, statements, ledger, latest>>

Outcomes == {"COMPLETE", "TIMEOUT", "COMPLETE_WITH_ERRORS"}

\* A statement is of one mind, and a run whose checkout changed has errors.
Statements ==
  {s \in [status : Outcomes, journal : Outcomes, shown : Outcomes, intact : BOOLEAN] :
     /\ s.journal = s.status /\ s.shown = s.status
     /\ ~s.intact => s.status = "COMPLETE_WITH_ERRORS"}

Sealed == opened \in DOMAIN statements
Anchored == opened \in ToSet(ledger)

Init == opened = 0 /\ statements = <<>> /\ ledger = <<>> /\ latest = 0

Open == /\ opened' = opened + 1
        /\ UNCHANGED <<statements, ledger, latest>>

\* Only the open run is sealed, and once.
Seal == /\ opened # 0 /\ ~Sealed
        /\ DOMAIN statements' = DOMAIN statements \cup {opened}
        /\ statements'[opened] \in Statements
        /\ \A r \in DOMAIN statements : statements'[r] = statements[r]
        /\ UNCHANGED <<opened, ledger, latest>>

Anchor == /\ Sealed /\ ~Anchored
          /\ ledger' = Append(ledger, opened)
          /\ UNCHANGED <<opened, statements, latest>>

Publish == /\ Anchored /\ statements[opened].intact
           /\ latest' = opened
           /\ UNCHANGED <<opened, statements, ledger>>

\* Verification found fault with what was just published: an earlier run comes back.
Withdraw == /\ latest = opened
            /\ latest' \in {0} \cup {r \in ToSet(ledger) : r < opened /\ statements[r].intact}
            /\ UNCHANGED <<opened, statements, ledger>>

Next == Open \/ Seal \/ Anchor \/ Publish \/ Withdraw

Spec == Init /\ [][Next]_vars
================================================================================
