------------------------ MODULE MCRunnerPublication ------------------------
(***************************************************************************)
(* Instances of RunnerPublication.                                         *)
(*                                                                         *)
(* MC...: r1 and r2 publish one name and target with different arguments,  *)
(* so under different run locks; r3 has another name.                      *)
(*                                                                         *)
(* Naming...: r1 and r2 are the same run configured twice, so they share a *)
(* run lock; r3 uses a name that casefolds to theirs for another target.   *)
(***************************************************************************)
EXTENDS RunnerPublication, TLC

CONSTANTS r1, r2, r3

MCRuns == {r1, r2, r3}
MCNameOf == r1 :> "alpha" @@ r2 :> "alpha" @@ r3 :> "beta"
MCTargetOf == [r \in MCRuns |-> "sim"]
MCFoldOf == "alpha" :> "alpha" @@ "beta" :> "beta"
MCLockOf == r1 :> "k1" @@ r2 :> "k2" @@ r3 :> None

NamingNameOf == r1 :> "alpha" @@ r2 :> "alpha" @@ r3 :> "ALPHA"
NamingTargetOf == r1 :> "sim" @@ r2 :> "sim" @@ r3 :> "other"
NamingFoldOf == [n \in {"alpha", "ALPHA"} |-> "alpha"]
NamingLockOf == r1 :> "k1" @@ r2 :> "k1" @@ r3 :> "k3"
=============================================================================
