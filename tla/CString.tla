------------------------------ MODULE CString ------------------------------
(***************************************************************************)
(* The string functions of kernel/string.c on strings, as sequences of     *)
(* character codes without the NUL that ends them.                         *)
(***************************************************************************)
EXTENDS Integers, Sequences, FiniteSetsExt

\* The i-th character of the string p, the NUL included.
CharAt(p, i) == IF i <= Len(p) THEN p[i] ELSE 0

\* The loop stops at the first place where p ends or differs from q.
strncmp(p, q, n) ==
    LET stops == {i \in 1 .. n : CharAt(p, i) = 0 \/ CharAt(p, i) # CharAt(q, i)}
    IN  IF stops = {} THEN 0 ELSE CharAt(p, Min(stops)) - CharAt(q, Min(stops))

\* What is in a field of n characters after strncpy, read up to a NUL.
strncpy(t, n) == IF Len(t) <= n THEN t ELSE SubSeq(t, 1, n)

strlen(p) == Len(p)
=============================================================================
