------------------------------- MODULE Stdio -------------------------------
(***************************************************************************)
(* Output of programs: the buffer and printf of user/lib/stdio.c, down to  *)
(* the characters console_write puts on the screen; printf of the kernel,  *)
(* which promises the same of its formats; and atoi, which reads numbers   *)
(* back.  A text is a sequence of character codes, without its NUL; where  *)
(* the program looks for the NUL, it is a string: a text and its address.  *)
(* %p, which prints the 16 digits of an address, is left out.              *)
(***************************************************************************)
EXTENDS CString, UserString, SequencesExt

CONSTANTS LINE_WIDTH,   \* characters of the buffer of stdio.c (256)
          CONSOLE_MAX,  \* characters console_write takes at a time (200)
          STR_MAX,      \* characters printf takes of a string (200)
          PGSIZE,       \* bytes of a page
          BufferAt,     \* the address of the buffer
          INTBITS       \* bits of an int (32)

ASSUME StdioAssumption ==
    /\ LINE_WIDTH \in Nat \ {0} /\ CONSOLE_MAX \in Nat \ {0} /\ STR_MAX \in Nat
    /\ PGSIZE \in Nat \ {0} /\ BufferAt \in Nat /\ INTBITS \in Nat \ {0}

NUL == 0
BS  == 8
NL  == 10
SP  == 32
PERCENT == 37
PLUS  == 43
MINUS == 45
ZERO  == 48

AtMost(n, m) == IF n < m THEN n ELSE m
UpTo(s, n) == SubSeq(s, 1, AtMost(n, Len(s)))

(***************************************************************************)
(* The memory of a program: the characters at the addresses of its pages.  *)
(***************************************************************************)
PGROUNDDOWN(a) == a - (a % PGSIZE)
walkaddr(mem, va) == PGROUNDDOWN(va) \in DOMAIN mem

\* The string of at most max characters at srcva, page by page, or Fault.
Fault == <<-1>>
copyinstr(mem, srcva, max) ==
    LET From[left \in 0 .. max] ==
            LET va == srcva + max - left
                n == AtMost(PGSIZE - (va % PGSIZE), left)
                part == [i \in 1 .. n |-> mem[va + i - 1]]
                nuls == {i \in 1 .. n : part[i] = NUL}
            IN  CASE left = 0 -> <<>>
                  [] left > 0 /\ ~walkaddr(mem, va) -> Fault
                  [] left > 0 /\ walkaddr(mem, va) ->
                       IF nuls # {} THEN UpTo(part, Min(nuls) - 1)
                       ELSE IF From[left - n] = Fault THEN Fault ELSE part \o From[left - n]
    IN  From[max]

\* The characters a write of len characters at va puts on the console.
console_write(mem, va, len) ==
    LET str == copyinstr(mem, va, AtMost(len, CONSOLE_MAX)) IN IF str = Fault THEN <<>> ELSE str

(***************************************************************************)
(* Buffered output.  A program's output st is what it has on the screen    *)
(* and what it has in its buffer.                                          *)
(***************************************************************************)
NoOutput == [shown |-> <<>>, buf |-> <<>>]

Placed(buf) == [a \in 0 .. BufferAt + Len(buf) - 1 |->
                    IF a < BufferAt THEN NUL ELSE buf[a - BufferAt + 1]]
write_buffer(st) == [st EXCEPT !.shown = @ \o console_write(Placed(st.buf), BufferAt, Len(st.buf))]
\* Mutant: the buffer is not cleared after it was written.
clear_bufferNot(st) == st
clear_buffer(st) == [st EXCEPT !.buf = <<>>]
fflush(st) == IF st.buf = <<>> THEN st ELSE clear_buffer(write_buffer(st))

\* The count of characters out returns is left out: nobody looks at it.
OutChar(st, c) ==
    LET t == [st EXCEPT !.buf = Append(@, c)]
    IN  IF Len(t.buf) = LINE_WIDTH \/ c = NL THEN clear_buffer(write_buffer(t)) ELSE t
out(st, s) == FoldLeft(OutChar, st, s)
putchar(st, c) == out(st, <<c>>)

\* A string, and the memory around it: other data follows its NUL.
Str(at, text) == [at |-> at, text |-> text]
Around(s) == [a \in s.at .. s.at + Len(s.text) + SS |->
                 LET i == a - s.at + 1 IN IF i <= Len(s.text) THEN s.text[i]
                                          ELSE IF i = Len(s.text) + 1 THEN NUL ELSE 1]
puts(st, s) == putchar(out(st, UpTo(s.text, strlenWords(Around(s), s.at))), NL)

(***************************************************************************)
(* printf.  The format takes its arguments in turn: ints and strings.      *)
(***************************************************************************)
Digit(d) == IF d < 10 THEN ZERO + d ELSE 97 + d - 10
Unsigned(x) == x % 2^INTBITS
Signed(x) == LET u == Unsigned(x) IN IF u < 2^(INTBITS - 1) THEN u ELSE u - 2^INTBITS
\* Mutant: the number is not negated.
MagnitudeSame(xx) == Unsigned(xx)
Magnitude(xx) == Unsigned(IF xx < 0 THEN -xx ELSE xx)

printint(xx, base) ==
    LET Digits[x \in Nat] ==
            (IF x < base THEN <<>> ELSE Digits[x \div base]) \o <<Digit(x % base)>>
    IN  (IF xx < 0 THEN <<MINUS>> ELSE <<>>) \o Digits[Magnitude(xx)]

Null == Str(0, <<>>)
NullText == Str(1, <<40, 110, 117, 108, 108, 41>>)
PrintStr(arg) ==
    LET a == IF arg = Null THEN NullText ELSE arg
    IN  UpTo(a.text, strnlen(Around(a), a.at, STR_MAX))

TakesArg(c) == c \in {100, 120, 115}  \* d, x, s
Directive(c, arg) == CASE c = 100 -> printint(arg, 10)
                       [] c = 120 -> printint(arg, 16)
                       [] c = 115 -> PrintStr(arg)
                       [] OTHER -> <<PERCENT, c>>

\* The text printf gives to out: from position s of the format with argument n.
Pairs(fmt, e) ==
    Max({k \in 0 .. Len(fmt) : \A i \in 0 .. 2 * k - 1 : CharAt(fmt, e + i) = PERCENT})
Formatted(fmt, args) ==
    LET Text[s \in Nat, n \in Nat] ==
            LET e == Min({i \in s .. Len(fmt) + 1 : CharAt(fmt, i) \in {NUL, PERCENT}})
                l == e + Pairs(fmt, e) - s
                c == CharAt(fmt, s + 1)
                takes == IF TakesArg(c) THEN 1 ELSE 0
            IN  IF CharAt(fmt, s) = NUL THEN <<>>
                ELSE IF l > 0 THEN SubSeq(fmt, s, s + l - 1) \o Text[e + 2 * Pairs(fmt, e), n]
                ELSE IF c = NUL THEN <<>>
                ELSE Directive(c, IF takes = 1 THEN args[n] ELSE 0) \o Text[s + 2, n + takes]
    IN  Text[1, 1]
printf(st, fmt, args) == out(st, Formatted(fmt, args))

(***************************************************************************)
(* The kernel's printf, straight to the console, takes the format apart    *)
(* character by character.                                                 *)
(***************************************************************************)
kprintint(xx, base) ==
    LET Backwards[x \in Nat] ==
            <<Digit(x % base)>> \o (IF x \div base = 0 THEN <<>> ELSE Backwards[x \div base])
    IN  Reverse(Backwards[Unsigned(IF xx < 0 THEN -xx ELSE xx)] \o (IF xx < 0 THEN <<MINUS>> ELSE <<>>))

kprintf(fmt, args) ==
    LET Text[i \in Nat, n \in Nat] ==
            LET c == CharAt(fmt, i + 1) IN
            CASE CharAt(fmt, i) = NUL -> <<>>
              [] CharAt(fmt, i) \notin {NUL, PERCENT} -> <<fmt[i]>> \o Text[i + 1, n]
              [] OTHER ->
                   CASE c = NUL -> <<>>
                     [] c = 100 -> kprintint(args[n], 10) \o Text[i + 2, n + 1]
                     [] c = 120 -> kprintint(args[n], 16) \o Text[i + 2, n + 1]
                     [] c = 115 -> (IF args[n] = Null THEN NullText ELSE args[n]).text \o Text[i + 2, n + 1]
                     [] c = PERCENT -> <<PERCENT>> \o Text[i + 2, n]
                     [] OTHER -> <<PERCENT, c>> \o Text[i + 2, n]
    IN  Text[1, 1]

(***************************************************************************)
(* atoi of user/lib/string.c.                                              *)
(***************************************************************************)
isspace(c) == c = SP \/ c \in 9 .. 13
isdigit(c) == c \in ZERO .. ZERO + 9
atoi(s) ==
    LET a == Min({i \in 1 .. Len(s) + 1 : ~isspace(CharAt(s, i))})
        b == IF CharAt(s, a) \in {MINUS, PLUS} THEN a + 1 ELSE a
        e == Min({i \in b .. Len(s) + 1 : ~isdigit(CharAt(s, i))})
        n == FoldLeft(LAMBDA m, c : Signed(10 * m - (c - ZERO)), 0, SubSeq(s, b, e - 1))
    IN  IF CharAt(s, a) = MINUS THEN n ELSE Signed(-n)
=============================================================================
