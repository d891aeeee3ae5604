------------------------------- MODULE MCTrap -------------------------------
(***************************************************************************)
(* An instance of Trap for TLC.  Which slot a process is in does not matter.*)
(***************************************************************************)
EXTENDS Trap, TLC

Symmetry == Permutations(Procs)
=============================================================================
