----------------------------- MODULE MCFileSys -----------------------------
(***************************************************************************)
(* Instances of FileSys for TLC.                                           *)
(***************************************************************************)
EXTENDS FileSysInv

\* Two names, neither of which begins with the other, and two of which one does.
Apart    == {<<1>>, <<2>>}
Prefixed == {<<1>>, <<1, 2>>}

\* An empty disk, and one whose directory fills its block and whose first file
\* has an indirect block.
None == <<>>
Full == <<[name |-> <<1>>, data |-> <<3, 4, 3>>], [name |-> <<2>>, data |-> <<>>]>>
Disks == {None, Full}
OneDisk == {None}

\* A block and a half.
Three == {<<3, 4, 3>>}
=============================================================================
