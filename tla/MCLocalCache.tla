---------------------------- MODULE MCLocalCache ----------------------------
(***************************************************************************)
(* Two keys: what the first stands for is always the same, the command of  *)
(* the second makes something new every time.                              *)
(***************************************************************************)
EXTENDS LocalCache, TLC

CONSTANTS steady, varying, b1, b2, b3

MCMakes == (steady :> {b1}) @@ (varying :> {b2, b3})

Symmetric == Permutations(Worker) \cup Permutations({b2, b3})

=============================================================================
