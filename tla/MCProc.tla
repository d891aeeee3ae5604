------------------------------- MODULE MCProc -------------------------------
(***************************************************************************)
(* Instances of Proc for TLC, and what tests of the repository say of     *)
(* the process system calls, as formulas.                                  *)
(***************************************************************************)
EXTENDS Proc

\* Lengths for the mail calls: negative, zero, as it is and cut down to MAILMAX.
AnyLens == {-1, 0, 1, 3}

\* ch5_spawn0.c:16, "assert(cpid >= 0)": spawning a program that exists returns
\* the pid of the child.
SpawnReturnsPid ==
    [][returned'.call = "spawn" /\ (\E s \in Slots : pid'[s] = returned'.about /\ loaded'[s])
          => returned'.val >= 0]_vars

\* ch6_mail2.c:18, "assert(mailread(buffer, BUF_LEN) == -1)" at the start of a
\* process: a process reads no mail but what was written to its own pid.
MailIsForReader ==
    [][returned'.call = "mailread" /\ returned'.val > 0 => returned'.about = returned'.by]_vars
=============================================================================
