----------------------------- MODULE UserString -----------------------------
(***************************************************************************)
(* strlen, memchr and strnlen of user/lib/string.c, which look at memory a *)
(* word at a time.  mem has the bytes at the addresses of a program.       *)
(***************************************************************************)
EXTENDS Integers, FiniteSetsExt, Bitwise

CONSTANT SS   \* bytes of a word (8)

ASSUME UserStringAssumption == SS \in Nat \ {0}

UCHAR_MAX == 255
WORDS == (UCHAR_MAX + 1)^SS   \* values of a word
ONES  == (WORDS - 1) \div UCHAR_MAX
HIGHS == ONES * (UCHAR_MAX \div 2 + 1)

\* Not zero if and only if a byte of x is zero.
HASZERO(x) == (((x - ONES) % WORDS) & (WORDS - 1 - x)) & HIGHS

\* The least number of S with P, where a loop stops.
First(S, P(_)) == CHOOSE k \in S : P(k) /\ \A j \in S : j < k => ~P(j)

Steps(mem) == 0 .. Cardinality(DOMAIN mem)
WordAt(mem, w) == FoldSet(LAMBDA i, x : x + mem[w + i] * (UCHAR_MAX + 1)^i, 0, 0 .. SS - 1)

\* Byte by byte up to a word's start, word by word, and byte by byte again.
strlenWords(mem, a) ==
    LET i == First(Steps(mem), LAMBDA k : (a + k) % SS = 0 \/ mem[a + k] = 0)
        q == First(Steps(mem), LAMBDA k : HASZERO(WordAt(mem, a + i + k * SS)) # 0)
        j == i + q * SS
    IN  IF (a + i) % SS # 0 THEN i
        ELSE j + First(Steps(mem), LAMBDA k : mem[a + j + k] = 0)

\* The address of the first c among n bytes, or 0.
memchr(mem, src, c, n) ==
    LET i == First(0 .. n, LAMBDA k : k = n \/ (src + k) % SS = 0 \/ mem[src + k] = c)
        q == First(0 .. n, LAMBDA k : \/ n - i - k * SS < SS
                                      \/ HASZERO(WordAt(mem, src + i + k * SS) ^^ (ONES * c)) # 0)
        j == IF i < n /\ mem[src + i] # c THEN i + q * SS ELSE i
        e == First(j .. n, LAMBDA k : k = n \/ mem[src + k] = c)
    IN  IF e < n THEN src + e ELSE 0

strnlen(mem, s, n) == LET p == memchr(mem, s, 0, n) IN IF p # 0 THEN p - s ELSE n
=============================================================================
