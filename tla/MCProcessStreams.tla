---------------------------- MODULE MCProcessStreams ---------------------------
(***************************************************************************)
(* Three rows on stdout and one on stderr against a limit of three: together   *)
(* they are too much.                                                        *)
(***************************************************************************)
EXTENDS ProcessStreams

MCMaxRows == [stdout |-> 3, stderr |-> 1]
================================================================================
