------------------------------- MODULE MCLineage -------------------------------
(******************************************************************************)
(* Populations of three with one elite, one child and one immigrant, two      *)
(* nominees, two cells.  Most candidates are admitted to the archive.         *)
(******************************************************************************)
EXTENDS Lineage, SequencesExt

MCConfig == [elites |-> 1, children |-> 1, immigrants |-> 1, nominees |-> 2, bins |-> 2,
             genomes |-> 7, scores |-> 4, minimum_quality |-> 6]

MCHash(parts) == FoldLeft(LAMBDA hash, part : (hash * 131 + part * 57 + 11) % 10007, 1, parts)
================================================================================
