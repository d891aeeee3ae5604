------------------------------ MODULE MCShell ------------------------------
(***************************************************************************)
(* An instance of Shell for TLC.                                           *)
(***************************************************************************)
EXTENDS Shell

\* a and b are typed; a and ab are programs.
AB == {97, 98}
Programs == <<<<97>>, <<97, 98>>>>

\* Formats: numbers at the ends of their range, pairs of %, an unknown and an
\* unfinished directive, a row in the middle, a string of all printf takes,
\* bytes at the ends of their range.
Long == Str(3, [i \in 1 .. STR_MAX |-> 120])
Edges == Str(2, <<1, 128, 255>>)
Prints == {[fmt |-> <<97, PERCENT, 100, NL>>, args |-> <<-128>>],
           [fmt |-> <<PERCENT, PERCENT, PERCENT, 120, PERCENT, 113>>, args |-> <<127>>],
           [fmt |-> <<98, NL, 99, PERCENT>>, args |-> <<>>],
           [fmt |-> <<PERCENT, 115, PERCENT, 115>>, args |-> <<Null, Edges>>],
           [fmt |-> <<PERCENT, 115>>, args |-> <<Long>>]}

\* Of one, two and three digits, and the least int.
ExitCodes == {0, 100, -128}

\* Three pages from address 4 on, with a NUL near the end.
Image == [a \in 4 .. 15 |-> IF a = 14 THEN NUL ELSE 100 + a]
\* Across pages, past a NUL, past the end, more than CONSOLE_MAX.
Ranges == {[va |-> 6, len |-> 4], [va |-> 12, len |-> 4], [va |-> 15, len |-> 3], [va |-> 4, len |-> 10]}
=============================================================================
