---------------------------- MODULE MCBuildState ----------------------------
(***************************************************************************)
(* Two forge processes started over and over in one directory with two     *)
(* edges, of which obj discovers dependencies and app does not.  Nothing   *)
(* tells the processes apart.                                              *)
(***************************************************************************)
EXTENDS BuildState, TLC

Symmetric == Permutations(Process)

=============================================================================
