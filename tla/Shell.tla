------------------------------- MODULE Shell -------------------------------
(***************************************************************************)
(* The user shell (ch5_usershell.c): what is typed, what the screen shows, *)
(* the program it starts for a line, and that program's own output.        *)
(*                                                                         *)
(* The shell waits for its child and so the two take turns.  The kernel    *)
(* below them is what Proc describes; here fork, exec, wait and exit are   *)
(* what they are to the shell.  Texts the shell prints are shortened: the  *)
(* properties need their numbers, line ends and lengths below CONSOLE_MAX. *)
(***************************************************************************)
EXTENDS Stdio

CONSTANTS Chars,     \* characters that are typed, printable
          Apps,      \* the names of the programs, in the order of the loader
          NAME_MAX,  \* characters get_id_by_name compares (100)
          LINE_MAX,  \* characters of line (100)
          Formats,   \* what programs print: formats and arguments, no string
                     \* longer than the STR_MAX characters printf takes
          Memory,    \* the memory of programs
          Writes,    \* addresses and lengths programs pass to write
          Codes,     \* what programs pass to exit
          MaxKeys,   \* bounds of the model: keys per line,
          MaxOps,    \* what a program does before it ends,
          MaxPid     \* processes

ASSUME ShellAssumption ==
    /\ Chars \subseteq 33 .. 126
    /\ \A i \in DOMAIN Apps : Apps[i] \in Seq(Nat \ {0}) /\ Len(Apps[i]) < NAME_MAX
    /\ MaxKeys \in Nat /\ MaxKeys < LINE_MAX /\ LINE_MAX <= NAME_MAX
    /\ \A c \in Codes : c = Signed(c)
    /\ MaxOps \in Nat /\ MaxPid \in Nat

VARIABLES
    pc,    \* of the shell: "start", "edit", "wait", or "gone" once it has exited
    line,  \* the array line
    top,   \* and its length
    keys,  \* keys typed since the prompt
    sh,    \* the output of the shell (Stdio); shown is since its last answer
    kid,   \* the child: its state, pid, program, exit code and output
    pid,   \* the pid of the next process
    meant, \* history: the text each has printed, in full
    cmd,   \* history: what the screen had after the prompt when Enter was hit
    last   \* history: the pid and exit code of the child that exited last

vars == <<pc, line, top, keys, sh, kid, pid, meant, cmd, last>>

CR == 13
DL == 127
Banner == <<67, NL>>
Prompt == <<62, 62, SP>>
Status == <<80, PERCENT, 100, SP, PERCENT, 100, NL>>  \* P%d %d
NoSuch == <<110, NL>>
PanicText == Str(3, <<33, 33, 33>>)

NoKid == [at |-> "none", pid |-> 0, prog |-> 0, code |-> 0, ops |-> 0, io |-> NoOutput]
NoExit == [pid |-> 0, code |-> 0]

Init ==
    /\ pc = "start" /\ line = [i \in 0 .. LINE_MAX - 1 |-> NUL] /\ top = 0 /\ keys = 0
    /\ sh = NoOutput /\ kid = NoKid /\ pid = 2
    /\ meant = [sh |-> <<>>, kid |-> <<>>] /\ cmd = <<>> /\ last = NoExit

(***************************************************************************)
(* The screen.  A terminal keeps the row it writes on and the place of the *)
(* cursor; BS moves the cursor back, and a character replaces the one it   *)
(* is on.  A row is the characters up to the cursor, if blanks follow.     *)
(***************************************************************************)
TermPut(t, c) ==
    CASE c = NL -> [row |-> <<>>, cur |-> 0]
      [] c = BS -> [t EXCEPT !.cur = IF @ = 0 THEN 0 ELSE @ - 1]
      [] OTHER -> [row |-> IF t.cur < Len(t.row) THEN [t.row EXCEPT ![t.cur + 1] = c]
                                                 ELSE Append(t.row, c),
                   cur |-> t.cur + 1]
Terminal(s) == FoldLeft(TermPut, [row |-> <<>>, cur |-> 0], s)
Shows(s, row) ==
    LET t == Terminal(s) IN
    /\ UpTo(t.row, t.cur) = row
    /\ \A i \in t.cur + 1 .. Len(t.row) : t.row[i] = SP
Typed(s) == LET t == Terminal(s) IN SubSeq(t.row, Len(Prompt) + 1, t.cur)

(***************************************************************************)
(* Keys.                                                                   *)
(***************************************************************************)
\* History is kept from the shell's last answer on.
Forgot(st) == [st EXCEPT !.shown = <<>>]

Start ==
    /\ pc = "start" /\ pc' = "edit"
    /\ sh' = fflush(printf(printf(sh, Banner, <<>>), Prompt, <<>>))
    /\ meant' = [meant EXCEPT !.sh = @ \o Banner \o Prompt]
    /\ UNCHANGED <<line, top, keys, kid, pid, cmd, last>>

Key == pc = "edit" /\ keys < MaxKeys /\ keys' = keys + 1

Type(c) ==
    /\ Key
    /\ sh' = fflush(putchar(sh, c))
    /\ line' = [line EXCEPT ![top] = c] /\ top' = top + 1
    /\ meant' = [meant EXCEPT !.sh = Append(@, c)]
    /\ UNCHANGED <<pc, kid, pid, cmd, last>>

\* Mutant: the character is not blanked out.
ErasedNot(st) == fflush(putchar(st, BS))
Erased(st) == fflush(putchar(printf(putchar(st, BS), <<SP>>, <<>>), BS))

\* BS or DL, on an empty line and on others.
EraseNothing == Key /\ top = 0 /\ UNCHANGED <<pc, line, top, sh, kid, pid, meant, cmd, last>>
Erase ==
    /\ Key /\ top > 0
    /\ sh' = Erased(sh) /\ top' = top - 1
    /\ meant' = [meant EXCEPT !.sh = @ \o <<BS, SP, BS>>]
    /\ UNCHANGED <<pc, line, kid, pid, cmd, last>>

\* LF or CR.
EnterEmpty ==
    /\ pc = "edit" /\ top = 0 /\ keys' = 0
    /\ sh' = fflush(printf(printf(Forgot(sh), <<NL>>, <<>>), Prompt, <<>>))
    /\ meant' = [meant EXCEPT !.sh = sh.buf \o <<NL>> \o Prompt]
    /\ UNCHANGED <<pc, line, top, kid, pid, cmd, last>>

\* Mutant: the line is not ended with a NUL.
TerminatedNot(l, t) == l
Terminated(l, t) == [l EXCEPT ![t] = NUL]
Enter ==
    /\ pc = "edit" /\ top > 0 /\ pid < MaxPid
    /\ sh' = printf(Forgot(sh), <<NL>>, <<>>)
    /\ line' = Terminated(line, top) /\ top' = top + 1 /\ keys' = 0
    /\ cmd' = Typed(sh.shown) /\ pid' = pid + 1

\* The child starts with a copy of the buffer, and has printed none of it.
EnterForks ==
    /\ Enter /\ pc' = "wait"
    /\ kid' = [NoKid EXCEPT !.at = "forked", !.pid = pid, !.io.buf = sh'.buf]
    /\ meant' = [sh |-> sh.buf \o <<NL>>, kid |-> <<>>]
    /\ UNCHANGED last

\* fork has no memory or no slot: the pid it returns is not of a child, wait
\* answers -1, and the shell exits in its assertion.
EnterForkFails ==
    /\ Enter /\ pc' = "gone"
    /\ meant' = [meant EXCEPT !.sh = sh.buf \o <<NL>>]
    /\ UNCHANGED <<kid, last>>

(***************************************************************************)
(* The child.                                                              *)
(***************************************************************************)
\* batchinit copies the names the linker has put in the kernel.
names == [i \in DOMAIN Apps |-> strncpy(Apps[i], strlen(Apps[i]))]
get_id_by_name(name) ==
    LET same == {i \in DOMAIN names : strncmp(name, names[i], NAME_MAX) = 0}
    IN  IF same = {} THEN 0 ELSE Min(same)

\* The name sys_exec reads from the memory of the child, which has line.
LineInMemory == [a \in 0 .. LINE_MAX - 1 |-> line[a]]
ExecName == copyinstr(LineInMemory, 0, LINE_MAX)

\* exec replaces the memory of the child, its buffer with it.
KidExec ==
    /\ kid.at = "forked" /\ get_id_by_name(ExecName) # 0
    /\ kid' = [kid EXCEPT !.at = "running", !.prog = get_id_by_name(ExecName), !.io.buf = <<>>]
    /\ UNCHANGED <<pc, line, top, keys, sh, pid, meant, cmd, last>>

\* exit of the library, which flushes, and of the kernel.
Exits(k, code) ==
    /\ kid' = [k EXCEPT !.at = "zombie", !.code = code, !.io = fflush(@)]
    /\ last' = [pid |-> k.pid, code |-> code]

KidNoProgram ==
    /\ kid.at = "forked" /\ get_id_by_name(ExecName) = 0
    /\ Exits([kid EXCEPT !.io = printf(@, NoSuch, <<>>)], 0)
    /\ meant' = [meant EXCEPT !.kid = @ \o NoSuch]
    /\ UNCHANGED <<pc, line, top, keys, sh, pid, cmd>>

Does(io, text) ==
    /\ kid.at = "running" /\ kid.ops < MaxOps
    /\ kid' = [kid EXCEPT !.io = io, !.ops = @ + 1]
    /\ meant' = [meant EXCEPT !.kid = text]
    /\ UNCHANGED <<pc, line, top, keys, sh, pid, cmd, last>>

KidPrintf(f) == Does(printf(kid.io, f.fmt, f.args), meant.kid \o kprintf(f.fmt, f.args))
KidFlush == kid.io.buf # <<>> /\ Does(fflush(kid.io), meant.kid)

\* What a write is to put on the screen: the characters from va to the first
\* NUL, len of them or CONSOLE_MAX, and none if one is not in memory.
Wanted(va, len) ==
    LET n == AtMost(len, CONSOLE_MAX)
        stops == {i \in 1 .. n : va + i - 1 \notin DOMAIN Memory \/ Memory[va + i - 1] = NUL}
        k == IF stops = {} THEN n + 1 ELSE Min(stops)
    IN  IF k <= n /\ va + k - 1 \notin DOMAIN Memory THEN <<>>
        ELSE [i \in 1 .. k - 1 |-> Memory[va + i - 1]]

\* It goes past the buffer.
KidWrite(w) ==
    Does([kid.io EXCEPT !.shown = @ \o console_write(Memory, w.va, w.len)],
         UpTo(meant.kid, Len(meant.kid) - Len(kid.io.buf)) \o Wanted(w.va, w.len) \o kid.io.buf)

KidExit(code) ==
    /\ kid.at = "running" /\ Exits(kid, code)
    /\ UNCHANGED <<pc, line, top, keys, sh, pid, meant, cmd>>

KidPanic ==
    /\ kid.at = "running" /\ Exits([kid EXCEPT !.io = puts(@, PanicText)], -100)
    /\ meant' = [meant EXCEPT !.kid = @ \o PanicText.text \o <<NL>>]
    /\ UNCHANGED <<pc, line, top, keys, sh, pid, cmd>>

\* A trap the kernel ends the program for; what is in its buffer is not shown.
KidFault ==
    /\ kid.at = "running"
    /\ \E code \in {-1, -2, -3} :
        /\ kid' = [kid EXCEPT !.at = "zombie", !.code = code]
        /\ last' = [pid |-> kid.pid, code |-> code]
    /\ UNCHANGED <<pc, line, top, keys, sh, pid, meant, cmd>>

(***************************************************************************)
(* wait returns to the shell.                                              *)
(***************************************************************************)
Reap ==
    /\ pc = "wait" /\ kid.at = "zombie" /\ pc' = "edit"
    /\ LET told == printf(Forgot(sh), Status, <<kid.pid, kid.code>>)
       IN  sh' = fflush(printf(told, Prompt, <<>>))
    /\ meant' = [sh |-> sh.buf \o kprintf(Status, <<kid.pid, kid.code>>) \o Prompt, kid |-> <<>>]
    /\ top' = 0 /\ kid' = NoKid
    /\ UNCHANGED <<line, keys, pid, cmd, last>>

Next ==
    \/ Start \/ (\E c \in Chars : Type(c)) \/ EraseNothing \/ Erase
    \/ EnterEmpty \/ EnterForks \/ EnterForkFails
    \/ KidExec \/ KidNoProgram
    \/ (\E f \in Formats : KidPrintf(f)) \/ KidFlush \/ (\E w \in Writes : KidWrite(w))
    \/ (\E c \in Codes : KidExit(c)) \/ KidPanic \/ KidFault
    \/ Reap

Spec == Init /\ [][Next]_vars

(***************************************************************************)
(* Properties.                                                             *)
(***************************************************************************)

\* Where a text may lose characters: at a NUL, or in a row, when it has had
\* as many as console_write takes.
MayLose(t) ==
    {i \in 1 .. Len(t) :
        \/ t[i] = NUL
        \/ i > CONSOLE_MAX /\ NL \notin ToSet(SubSeq(t, i - CONSOLE_MAX, i - 1))}

\* s is t with some of its characters left out.
Within(s, t) ==
    FoldLeft(LAMBDA n, c : IF n < Len(s) /\ s[n + 1] = c THEN n + 1 ELSE n, 0, t) = Len(s)

\* The text t is on the screen or in the buffer of st.
Printed(st, t) ==
    LET s == st.shown \o st.buf IN
    IF MayLose(t) = {} THEN s = t
    ELSE IsPrefix(UpTo(t, Min(MayLose(t)) - 1), s) /\ Within(s, t)

\* What a process prints is on the screen or in its buffer, once and in order:
\* nothing is lost where buffers end, pages end, lines end, or a process forks
\* or exits.  From a row longer than console_write takes on, characters may be
\* missing, but none comes twice or out of order, and all before it are there.
OutputIsComplete ==
    /\ Printed(sh, meant.sh)
    /\ Printed(kid.io, meant.kid)
    /\ kid.at = "zombie" /\ kid.code \notin {-1, -2, -3} => kid.io.buf = <<>>

\* While the shell waits for a key the row of the screen is the prompt and
\* what the array line has, whatever was typed and erased.
ScreenShowsLine ==
    pc = "edit" => Shows(sh.shown, Prompt \o [i \in 1 .. top |-> line[i - 1]])

\* The program that runs is the one whose name was on the screen, and "no such
\* program" is said of a name that is none.
CommandIsWhatIsShown ==
    /\ kid.prog # 0 => Apps[kid.prog] = cmd
    /\ kid.at = "zombie" /\ kid.prog = 0 => cmd \notin ToSet(Apps)

\* The numbers in the shell's report, read back, are the pid and the exit code
\* of the child that has ended.
Report == SubSeq(sh.shown, 2, Len(sh.shown))
StatusReadsBack ==
    pc = "edit" /\ sh.shown # <<>> /\ sh.shown[1] = Status[1] =>
        /\ atoi(Report) = last.pid
        /\ \E i \in 1 .. Len(Report) : /\ Report[i] = SP /\ SP \notin ToSet(SubSeq(Report, 1, i - 1))
                                       /\ atoi(SubSeq(Report, i, Len(Report))) = last.code
=============================================================================
