-------------------------------- MODULE MCVm --------------------------------
(***************************************************************************)
(* Instances of Vm for TLC.  A page has two bytes and a table page three   *)
(* entries.  Pages 0 to 2 are for the stack and a program of one or two    *)
(* pages; 6 and 7 are the kernel's.                                        *)
(***************************************************************************)
EXTENDS Vm, TLC

Range(start, len) == [start |-> start, len |-> len]

\* Pages 3 and 4, which need a table of their own; the length is to be rounded
\* up.  Page 1.  The kernel's two pages, and one beyond MAXVA.
MCMaps == {Range(6, 3), Range(2, 2), Range(12, 5)}
\* Page 4, rounded up; page 1, which is the program; the trapframe, alone and with
\* the trampoline; the trampoline and a page beyond MAXVA.
MCUnmaps == {Range(8, 1), Range(2, 2), Range(12, 1), Range(12, 4), Range(14, 4)}

Symmetry == Permutations(Procs)
=============================================================================
