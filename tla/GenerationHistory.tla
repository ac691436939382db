--------------------------- MODULE GenerationHistory ---------------------------
(***************************************************************************)
(* What an evolution experiment promises of its committed generations: they *)
(* form a history that only grows, one generation at a time, until the      *)
(* experiment is released; a released history is final.                     *)
(***************************************************************************)
EXTENDS Naturals, Sequences

CONSTANT Champions   \* what a generation may leave as its Hall of Fame

VARIABLES history, released

vars == <<history, released>>

Init == /\ history = <<>>
        /\ released = FALSE

Commit == /\ ~released
          /\ \E c \in Champions : history' = Append(history, c)
          /\ UNCHANGED released

Release == /\ ~released
           /\ history # <<>>
           /\ released' = TRUE
           /\ UNCHANGED history

Next == Commit \/ Release

Spec == Init /\ [][Next]_vars
================================================================================
