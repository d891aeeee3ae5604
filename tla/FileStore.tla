----------------------------- MODULE FileStore -----------------------------
(***************************************************************************)
(* What the file system promises programs: names for files, files that are *)
(* sequences of values, open files with an offset, and what survives when  *)
(* the machine stops in the middle of a call.                              *)
(***************************************************************************)
EXTENDS Integers, Sequences, FiniteSets

CONSTANTS Names, Inums, Handles, MaxLen,
          Sources, Reads   \* what programs write, and how much they ask to read

VARIABLES
    names,    \* the directory: a set of pairs <<name, file>>
    content,  \* content[i]: what file i holds; <<>> while that is in doubt
    open,     \* open[h]: the file and offset behind handle h, or Closed
    doubt,    \* files a write was cut short in
    sound,    \* FALSE once the machine stopped in the middle of a truncation
    ret       \* what the last call returned: a number, or what was read

vars == <<names, content, open, doubt, sound, ret>>

Closed == [inum |-> 0, off |-> 0]
AllClosed == [h \in Handles |-> Closed]
IsOpen(h) == open[h] # Closed
File(h) == open[h].inum

Init == /\ \A p, q \in names : p[1] = q[1] => p = q
        /\ open = AllClosed /\ doubt = {} /\ sound = TRUE /\ ret = <<0>>

Is(n, i) == <<n, i>> \in names
Exists(n) == \E i \in Inums : Is(n, i)
Fresh(i) == (\A n \in Names : ~Is(n, i)) /\ \A h \in Handles : File(h) # i

\* File i becomes empty.
Empties(i) == content' = [content EXCEPT ![i] = <<>>] /\ doubt' = doubt \ {i}
Same == content' = content /\ doubt' = doubt

(***************************************************************************)
(* Calls.                                                                  *)
(***************************************************************************)
OpenAs(n, i, h, trunc) ==
    /\ open' = [open EXCEPT ![h] = [inum |-> i, off |-> 0]] /\ ret' = <<h>>
    /\ IF trunc THEN Empties(i) ELSE Same

Open(n, creat, trunc) ==
    \/ \E i \in Inums, h \in Handles :
          /\ Is(n, i) /\ ~IsOpen(h) /\ OpenAs(n, i, h, trunc) /\ names' = names
    \/ \E i \in Inums, h \in Handles :
          /\ creat /\ ~Exists(n) /\ Fresh(i) /\ content[i] = <<>>
          /\ ~IsOpen(h) /\ OpenAs(n, i, h, trunc) /\ names' = names \cup {<<n, i>>}
    \/ /\ ~creat /\ ~Exists(n)
       /\ ret' = <<-1>> /\ names' = names /\ open' = open /\ Same

\* No handle is left: the file may have been created all the same.
OpenTooMany(n, creat) ==
    /\ \A h \in Handles : IsOpen(h)
    /\ \/ names' = names
       \/ creat /\ ~Exists(n) /\ \E i \in Inums : Fresh(i) /\ names' = names \cup {<<n, i>>}
    /\ ret' = <<-1>> /\ open' = open /\ Same

Close(h) == /\ IsOpen(h) /\ open' = [open EXCEPT ![h] = Closed] /\ ret' = <<0>>
            /\ names' = names /\ Same

\* s written over c from offset o, which is not beyond the end of c.
Over(c, o, s) ==
    [k \in 1 .. (IF o + Len(s) > Len(c) THEN o + Len(s) ELSE Len(c)) |->
        IF k > o /\ k <= o + Len(s) THEN s[k - o] ELSE c[k]]

Write(h, s) ==
    LET i == File(h) o == open[h].off IN
    /\ IsOpen(h) /\ i \notin doubt /\ names' = names /\ doubt' = doubt
    /\ IF o > Len(content[i]) \/ o + Len(s) > MaxLen
       THEN ret' = <<-1>> /\ content' = content /\ open' = open
       ELSE /\ content' = [content EXCEPT ![i] = Over(@, o, s)]
            /\ open' = [open EXCEPT ![h].off = @ + Len(s)]
            /\ ret' = <<Len(s)>>

Read(h, n) ==
    LET i == File(h) o == open[h].off c == content[i]
        m == IF o > Len(c) THEN 0 ELSE IF o + n > Len(c) THEN Len(c) - o ELSE n
    IN  /\ IsOpen(h) /\ i \notin doubt /\ names' = names /\ Same
        /\ ret' = SubSeq(c, o + 1, o + m)
        /\ open' = [open EXCEPT ![h].off = @ + m]

\* A call that is given a bad address, or reads or writes a file in doubt, may
\* return anything; it touches no other file and no name.
InDoubt(h) ==
    LET i == File(h) IN
    /\ IsOpen(h) /\ names' = names
    /\ \A g \in Handles \ {h} : open'[g] = open[g]
    /\ open'[h].inum = i /\ open'[h].off >= open[h].off
    /\ \A j \in Inums \ {i} : content'[j] = content[j]
    /\ doubt' = doubt \cup {i}

Refused == ret' = <<-1>> /\ names' = names /\ open' = open /\ Same

Link(old, new) ==
    \/ \E i \in Inums : /\ Is(old, i) /\ ~Exists(new) /\ names' = names \cup {<<new, i>>}
                        /\ ret' = <<0>> /\ open' = open /\ Same
    \/ (~Exists(old) \/ Exists(new)) /\ Refused

Unlink(n) ==
    \/ \E i \in Inums : /\ Is(n, i) /\ names' = names \ {<<n, i>>}
                        /\ ret' = <<0>> /\ open' = open /\ Same
    \/ ~Exists(n) /\ Refused

\* A result that cannot be copied to the program.
CannotCopy(h) == IsOpen(h) /\ Refused

\* fstat returns the number of names of the file.
Links(i) == {n \in Names : Is(n, i)}
Fstat(h) == /\ IsOpen(h) /\ ret' = <<Cardinality(Links(File(h)))>>
            /\ names' = names /\ open' = open /\ Same

Call ==
    \/ \E n \in Names, creat, trunc \in BOOLEAN : Open(n, creat, trunc) \/ OpenTooMany(n, creat)
    \/ \E h \in Handles :
          \/ Close(h) \/ Fstat(h) \/ CannotCopy(h) \/ InDoubt(h)
          \/ \E s \in Sources : Write(h, s)
          \/ \E n \in Reads : Read(h, n)
    \/ \E old, new \in Names : Link(old, new)
    \/ \E n \in Names : Unlink(n)

(***************************************************************************)
(* The machine stops in the middle of a call (or the kernel panics) and    *)
(* starts again with what is on the disk: the directory is the one before  *)
(* or after the call, and every file but the one the call was about holds  *)
(* what it held.                                                           *)
(***************************************************************************)
Crash ==
    /\ open' = AllClosed /\ ret' = <<0>>
    /\ \/ names' = names
       \/ \E n \in Names, i \in Inums :
             \/ ~Exists(n) /\ names' = names \cup {<<n, i>>}
             \/ names' = names \ {<<n, i>>}
    /\ \E i \in Inums :
          /\ \A j \in Inums \ {i} : content'[j] = content[j]
          /\ \/ content'[i] = content[i] /\ doubt' = doubt
             \/ content'[i] = <<>> /\ doubt' \in {doubt \ {i}, doubt \cup {i}}

\* Nothing is promised after a truncation that was cut.
Void == sound' = FALSE

Next == \/ sound /\ sound' = TRUE /\ (Call \/ Crash)
        \/ Void

Spec == Init /\ [][Next]_vars
=============================================================================
