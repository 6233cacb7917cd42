-------------------------- MODULE MCLevelMatching --------------------------
(***************************************************************************)
(* Instances of LevelMatching for TLC.                                     *)
(***************************************************************************)
EXTENDS LevelMatching

ThreePrimes == <<60, 30, 30>>

\* Every element its own ciphertext.
Unshared == {[i \in Indices |-> i]}
=============================================================================
