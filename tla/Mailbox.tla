------------------------------ MODULE Mailbox ------------------------------
(***************************************************************************)
(* The mailbox of a process: struct Mailbox in proc.h, mail_read and       *)
(* mail_write in proc.c.  A mailbox is a ring of MAILSLOTS entries, of     *)
(* which one is always left unused so that head = tail means empty.        *)
(*                                                                         *)
(* The two operations are functions from a mailbox to its next value and   *)
(* the value the system call returns; Proc makes them actions.  The        *)
(* contents of a mail are one abstract value.                              *)
(*                                                                         *)
(* The length is an int, checked against MAILMAX only.  A negative one is  *)
(* the huge uint64 of copyin and copyout, which then copy until they reach *)
(* a page of the program that is not mapped, and fail.                     *)
(***************************************************************************)
EXTENDS Integers, Sequences

CONSTANTS MAILSLOTS,   \* entries of the ring (17 in proc.h)
          MAILMAX,     \* longest mail, in bytes (256)
          Mails,       \* what a mail can say
          NoMail       \* contents of an entry never written, or not as one mail

ASSUME MailAssumption ==
    /\ MAILSLOTS \in Nat /\ MAILSLOTS > 1
    /\ MAILMAX \in Nat /\ MAILMAX > 0
    /\ NoMail \notin Mails

\* A negative length is stored before copyin fails.
Entries == [len : {n \in Int : n <= MAILMAX}, mail : Mails \cup {NoMail}]

Mailboxes == [head  : 0 .. MAILSLOTS - 1,
              tail  : 0 .. MAILSLOTS - 1,
              items : [0 .. MAILSLOTS - 1 -> Entries]]

\* What clean_bss leaves in every slot of the process pool at boot.
EmptyBox == [head |-> 0, tail |-> 0,
             items |-> [i \in 0 .. MAILSLOTS - 1 |-> [len |-> 0, mail |-> NoMail]]]

Lesser(a, b) == IF a < b THEN a ELSE b

\* Mutant: the index is not wrapped at the end of the ring.
NextEntryNoWrap(i) == 1 + i
NextEntry(i) == (1 + i) % MAILSLOTS

IsEmpty(m) == m.tail = m.head

\* Mutant: the ring is filled to the last entry, as if head = tail were full.
IsFullLate(m) == m.tail = m.head /\ m.items[m.head].len > 0
IsFull(m) == NextEntry(m.tail) = m.head

\* copyin or copyout of n bytes succeeds, where ok says whether the n pages from
\* the program's buffer on are mapped; they never all are for a negative n.
Copies(n, ok) == ok /\ n > 0

\* mail_read(buf, n): the mailbox afterwards.
BoxAfterRead(m, n, ok) ==
    IF IsEmpty(m) \/ ~Copies(n, ok) THEN m ELSE [m EXCEPT !.head = NextEntry(m.head)]

ReadResult(m, n, ok) ==
    CASE IsEmpty(m) -> -1
      [] ~IsEmpty(m) /\ n = 0 -> 0
      [] ~IsEmpty(m) /\ n # 0 /\ ~Copies(n, ok) -> -1
      [] OTHER -> Lesser(n, m.items[m.head].len)

\* mail_write(p, buf, n): the length is stored, and copyin may have copied a
\* first part of the mail, before copyin fails; the entry only becomes part of
\* the ring when tail moves.  With a negative n the copy runs on over the
\* contents of the next over entries of the array, queued ones among them.
BoxAfterWrite(m, n, mail, ok, over) ==
    LET entry == [len |-> Lesser(n, MAILMAX), mail |-> IF Copies(n, ok) THEN mail ELSE NoMail]
        put   == [m EXCEPT !.items = [i \in 0 .. MAILSLOTS - 1 |->
                     CASE i = m.tail -> entry
                       [] i \in m.tail + 1 .. m.tail + over -> [m.items[i] EXCEPT !.mail = NoMail]
                       [] OTHER -> m.items[i]]]
    IN  IF IsFull(m) \/ n = 0 THEN m
        ELSE IF ~Copies(n, ok) THEN put
        ELSE [put EXCEPT !.tail = NextEntry(m.tail)]

\* How many entries that may be, as far as the copy stays within the array.
Overruns(m, n) == IF n < 0 THEN 0 .. MAILSLOTS - 1 - m.tail ELSE {0}

WriteResult(m, n, ok) ==
    CASE IsFull(m) -> -1
      [] ~IsFull(m) /\ n = 0 -> 0
      [] ~IsFull(m) /\ n # 0 /\ ~Copies(n, ok) -> -1
      [] OTHER -> Lesser(n, MAILMAX)

\* The mails waiting in a mailbox, oldest first.
Queued(m) == (m.tail - m.head + MAILSLOTS) % MAILSLOTS
Contents(m) == [i \in 1 .. Queued(m) |-> m.items[(m.head + i - 1) % MAILSLOTS]]
=============================================================================
