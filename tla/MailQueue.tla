----------------------------- MODULE MailQueue -----------------------------
(***************************************************************************)
(* What the mailboxes promise: every process slot has a first-in-first-out *)
(* queue of at most Capacity mails.  A step changes at most one queue, and *)
(* does so by appending a whole mail, by removing the oldest one, or by    *)
(* garbling what some of the oldest say; that happens only where the       *)
(* environment reports a write that has run over its entry.                *)
(***************************************************************************)
EXTENDS Naturals, Sequences

CONSTANTS Owners, Items, Capacity, Garbage

VARIABLES queue,
          overrun   \* overrun[o]: of the environment, for queue o

Init == queue = [o \in Owners |-> <<>>]

Send(o) == /\ Len(queue[o]) < Capacity
           /\ \E item \in Items : queue' = [queue EXCEPT ![o] = Append(@, item)]

Receive(o) == /\ queue[o] # <<>>
              /\ queue' = [queue EXCEPT ![o] = Tail(@)]

\* The n oldest mails keep their places and their lengths.
Garbled(q, n) ==
    [i \in 1 .. Len(q) |-> IF i <= n THEN [q[i] EXCEPT !.mail = Garbage] ELSE q[i]]

Garble(o) == /\ overrun'[o]
             /\ \E n \in 1 .. Len(queue[o]) : queue' = [queue EXCEPT ![o] = Garbled(@, n)]

Next == \E o \in Owners : Send(o) \/ Receive(o) \/ Garble(o)

Spec == Init /\ [][Next]_queue
=============================================================================
