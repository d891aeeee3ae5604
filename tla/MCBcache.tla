------------------------------ MODULE MCBcache ------------------------------
(***************************************************************************)
(* Instances of Bcache for TLC.  Blocks and values are interchangeable.    *)
(***************************************************************************)
EXTENDS Bcache, TLC

Symmetry == Permutations(Blocks) \cup Permutations(Values)
=============================================================================
