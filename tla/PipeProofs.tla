----------------------------- MODULE PipeProofs -----------------------------
(***************************************************************************)
(* Theorems about Pipe: order and contents of the ring, the life of its    *)
(* page, end of file.                                                      *)
(***************************************************************************)
EXTENDS Pipe, SequenceTheorems, TLAPS

(***************************************************************************)
(* Arithmetic modulo the size of the ring, and modulo the width of the     *)
(* counters, which is a multiple of it.                                    *)
(***************************************************************************)
\* r is the remainder of a divided by m.
Rem(a, m, r) == r \in 0 .. (m - 1) /\ \E q \in Int : a = (m * q) + r

\* The operator % yields the remainder.
LEMMA ModIsRem ==
    ASSUME NEW a \in Int, NEW m \in Nat \ {0}
    PROVE  Rem(a, m, a % m) /\ a % m \in 0 .. (m - 1) /\ a % m \in Int
<1>1. /\ a % m \in 0 .. (m - 1)
      /\ a \div m \in Int
      /\ a = (m * (a \div m)) + (a % m)
  OBVIOUS
<1>2. \E q \in Int : a = (m * q) + (a % m)
  <2> WITNESS a \div m \in Int
  <2> QED BY <1>1
<1>3. a % m \in Int
  BY <1>1
<1> QED BY <1>1, <1>2, <1>3, Zenon DEF Rem

\* There is only one remainder.
LEMMA RemIsMod ==
    ASSUME NEW a \in Int, NEW m \in Nat \ {0}, NEW r, Rem(a, m, r)
    PROVE  a % m = r
BY DEF Rem

\* Within one round of the ring, % is linear.
LEMMA ModShift ==
    ASSUME NEW a \in Int, NEW b \in Int, NEW m \in Nat \ {0}, (a % m) + b \in 0 .. (m - 1)
    PROVE  (a + b) % m = (a % m) + b
<1> DEFINE r == a % m
<1>1. Rem(a, m, r) /\ r \in Int
  BY ModIsRem
<1>2. r + b \in 0 .. (m - 1)
  OBVIOUS
<1> HIDE DEF r
<1>3. Rem(a + b, m, r + b)
  BY <1>1, <1>2 DEF Rem
<1>4. a + b \in Int
  OBVIOUS
<1>5. (a + b) % m = r + b
  BY <1>3, <1>4, RemIsMod, Zenon
<1> QED BY <1>5 DEF r

\* A counter may be reduced before something is added to it.
LEMMA ModAdd ==
    ASSUME NEW a \in Int, NEW b \in Int, NEW m \in Nat \ {0}
    PROVE  ((a % m) + b) % m = (a + b) % m
<1> DEFINE r == a % m
           s == (r + b) % m
<1>1. Rem(a, m, r) /\ r \in Int
  BY ModIsRem
<1>2. r + b \in Int /\ a + b \in Int
  BY <1>1
<1>3. Rem(r + b, m, s) /\ s \in Int
  BY ModIsRem, <1>2
<1> HIDE DEF r, s
<1>4. Rem(a + b, m, s)
  <2>1. PICK q \in Int : a = (m * q) + r
    BY <1>1 DEF Rem
  <2>2. PICK q2 \in Int : r + b = (m * q2) + s
    BY <1>3 DEF Rem
  <2>3. a + b = (m * (q + q2)) + s
    BY <2>1, <2>2, <1>1, <1>3
  <2> QED BY <2>3, <1>3 DEF Rem
<1>5. (a + b) % m = s
  BY <1>2, <1>4, RemIsMod, Zenon
<1> QED BY <1>5 DEF s, r

\* Small numbers are their own remainders.
LEMMA ModSmall ==
    ASSUME NEW m \in Nat \ {0}, NEW a \in 0 .. (m - 1)
    PROVE  a % m = a
OBVIOUS

\* The wrap of the counters does not disturb the place in the ring.
LEMMA ModOfMod ==
    ASSUME NEW a \in Int, NEW P \in Nat \ {0}, NEW W \in Nat \ {0}, W % P = 0
    PROVE  (a % W) % P = a % P
<1> DEFINE r == a % W
           s == r % P
<1>1. PICK c \in Int : W = P * c
  <2>1. Rem(W, P, 0)
    BY ModIsRem
  <2> QED BY <2>1 DEF Rem
<1>2. Rem(a, W, r) /\ r \in Int
  BY ModIsRem
<1>3. Rem(r, P, s) /\ s \in Int
  BY <1>2, ModIsRem
<1> HIDE DEF r, s
<1>4. Rem(a, P, s)
  <2>1. PICK q \in Int : a = (W * q) + r
    BY <1>2 DEF Rem
  <2>2. PICK q2 \in Int : r = (P * q2) + s
    BY <1>3 DEF Rem
  <2>3. a = (P * ((c * q) + q2)) + s
    BY <1>1, <2>1, <2>2, <1>2, <1>3
  <2> QED BY <2>3, <1>3 DEF Rem
<1>5. a % P = s
  BY <1>4, RemIsMod, Zenon
<1> QED BY <1>5 DEF s, r

\* Two numbers less than m apart have different places in a ring of m.
LEMMA ModDiffer ==
    ASSUME NEW a \in Int, NEW b \in Int, NEW m \in Nat \ {0}, a < b, b < a + m
    PROVE  a % m # b % m
<1> DEFINE r == a % m
           s == b % m
<1>1. Rem(a, m, r) /\ r \in Int
  BY ModIsRem
<1>2. Rem(b, m, s) /\ s \in Int
  BY ModIsRem
<1> HIDE DEF r, s
<1>3. ASSUME r = s PROVE FALSE
  <2>1. PICK q \in Int : a = (m * q) + r
    BY <1>1 DEF Rem
  <2>2. PICK q2 \in Int : b = (m * q2) + r
    BY <1>2, <1>3 DEF Rem
  <2>3. b - a = m * (q2 - q)
    BY <2>1, <2>2, <1>1
  <2>4. q2 - q < 1 /\ q2 - q > 0
    BY <2>3
  <2> QED BY <2>4
<1> QED BY <1>3 DEF r, s

\* A counter may be reduced before it is subtracted.
LEMMA ModSub ==
    ASSUME NEW a \in Int, NEW b \in Int, NEW m \in Nat \ {0}
    PROVE  (b - (a % m)) % m = (b - a) % m
<1> DEFINE r == a % m
           s == (b - r) % m
<1>1. Rem(a, m, r) /\ r \in Int
  BY ModIsRem
<1>2. b - r \in Int /\ b - a \in Int
  BY <1>1
<1>3. Rem(b - r, m, s) /\ s \in Int
  BY ModIsRem, <1>2
<1> HIDE DEF r, s
<1>4. Rem(b - a, m, s)
  <2>1. PICK q \in Int : a = (m * q) + r
    BY <1>1 DEF Rem
  <2>2. PICK q2 \in Int : b - r = (m * q2) + s
    BY <1>3 DEF Rem
  <2>3. b - a = (m * (q2 - q)) + s
    BY <2>1, <2>2, <1>1, <1>3
  <2> QED BY <2>3, <1>3 DEF Rem
<1>5. (b - a) % m = s
  BY <1>2, <1>4, RemIsMod, Zenon
<1> QED BY <1>5 DEF s, r

\* The difference of two counters that wrap is the true one as long as that is
\* smaller than the width.
LEMMA ModDifference ==
    ASSUME NEW a \in Int, NEW b \in Int, NEW m \in Nat \ {0}, b - a \in 0 .. (m - 1)
    PROVE  ((b % m) - (a % m)) % m = b - a
<1> DEFINE r == a % m
<1>1. r \in Int
  BY ModIsRem
<1> HIDE DEF r
<1>2. ((b % m) + (-r)) % m = (b + (-r)) % m
  <2>1. -r \in Int
    BY <1>1
  <2> QED BY <2>1, ModAdd
<1>3. b % m \in Int
  BY ModIsRem
<1>4. (b % m) + (-r) = (b % m) - r /\ b + (-r) = b - r
  BY <1>1, <1>3
<1>5. (b - r) % m = (b - a) % m
  BY ModSub DEF r
<1>6. (b - a) % m = b - a
  BY ModSmall
<1> QED BY <1>2, <1>4, <1>5, <1>6 DEF r

(***************************************************************************)
(* Types.                                                                  *)
(***************************************************************************)
\* A function on an initial segment is a sequence.
LEMMA SegmentIsSeq ==
    ASSUME NEW S, NEW n \in Nat, NEW f \in [1 .. n -> S]
    PROVE  f \in Seq(S) /\ Len(f) = n
OBVIOUS

\* The places in the ring and the differences of the counters are in range.
LEMMA RangesOfCounters ==
    ASSUME TypeOK
    PROVE  /\ nread % PIPESIZE \in 0 .. PIPESIZE - 1
           /\ nwrite % PIPESIZE \in 0 .. PIPESIZE - 1
           /\ Room \in 0 .. WRAP - 1 /\ Filled \in 0 .. WRAP - 1
<1>1. PIPESIZE \in Nat \ {0} /\ WRAP \in Nat \ {0}
  BY PipeAssumption
<1>2. nread \in Int /\ nwrite \in Int
  BY <1>1 DEF TypeOK
<1>3. nread + PIPESIZE - nwrite \in Int /\ nwrite - nread \in Int
  BY <1>1, <1>2
<1>4. \A a \in Int : a % PIPESIZE \in 0 .. PIPESIZE - 1
  BY <1>1, ModIsRem
<1>5. \A a \in Int : a % WRAP \in 0 .. WRAP - 1
  BY <1>1, ModIsRem
<1> QED BY <1>2, <1>3, <1>4, <1>5, Zenon DEF Room, Filled

\* A turn of either loop keeps the number of bytes done within what was asked.
LEMMA TurnType ==
    ASSUME TypeOK, NEW p \in Procs, NEW size \in Nat, call[p].done + size <= call[p].n,
           call' = [call EXCEPT ![p].done = @ + size]
    PROVE  /\ call' \in [Procs -> [op : {"none", "read", "write"}, n : Nat, done : Nat]]
           /\ \A q \in Procs : call'[q].done <= call'[q].n
<1> DEFINE C == [op : {"none", "read", "write"}, n : Nat, done : Nat]
           c == [call[p] EXCEPT !.done = @ + size]
<1>1. call \in [Procs -> C]
  BY DEF TypeOK
<1>2. c \in C /\ c.done <= c.n
  BY <1>1
<1>3. call' = [call EXCEPT ![p] = c]
  OBVIOUS
<1> HIDE DEF c
<1>4. call' \in [Procs -> C]
  BY <1>1, <1>2, <1>3
<1>5. ASSUME NEW q \in Procs PROVE call'[q].done <= call'[q].n
  <2>1. CASE q = p
    BY <1>1, <1>2, <1>3, <2>1
  <2>2. CASE q # p
    <3>1. call'[q] = call[q]
      BY <1>1, <1>3, <2>2
    <3> QED BY <3>1 DEF TypeOK
  <2> QED BY <2>1, <2>2
<1> QED BY <1>4, <1>5

\* A return resets the call.
LEMMA ReturnType ==
    ASSUME TypeOK, NEW p \in Procs, call' = [call EXCEPT ![p] = NoCall]
    PROVE  /\ call' \in [Procs -> [op : {"none", "read", "write"}, n : Nat, done : Nat]]
           /\ \A q \in Procs : call'[q].done <= call'[q].n
BY DEF TypeOK, NoCall

\* Every variable of the pipe has its type in every reachable state.
THEOREM PipeTypeCorrect == Spec => []TypeOK
<1>1. Init => TypeOK
  <2> SUFFICES ASSUME Init PROVE TypeOK
    OBVIOUS
  <2>1. call \in [Procs -> [op : {"none", "read", "write"}, n : Nat, done : Nat]]
    BY DEF Init, NoCall
  <2>2. ASSUME NEW p \in Procs PROVE call[p].done <= call[p].n
    <3>1. call[p] = NoCall
      BY DEF Init
    <3> QED BY <3>1 DEF NoCall
  <2>3. data \in [0 .. PIPESIZE - 1 -> Nat] /\ 0 \in 0 .. WRAP - 1 /\ 0 \in 0 .. MaxBytes
    BY PipeAssumption DEF Init
  <2>4. holds \in [Procs -> SUBSET Ends]
    BY DEF Init
  <2>5. got \in Seq(Nat)
    BY EmptySeq DEF Init
  <2> QED BY <2>1, <2>2, <2>3, <2>4, <2>5 DEF Init, TypeOK
<1>2. TypeOK /\ [Next]_vars => TypeOK'
  <2> SUFFICES ASSUME TypeOK, [Next]_vars PROVE TypeOK'
    OBVIOUS
  <2> USE PipeAssumption
  <2>1. ASSUME NEW p \in Procs, NEW op \in {"read", "write"}, NEW n \in Lens, Call(p, op, n)
        PROVE  TypeOK'
    <3>1. CASE n <= 0
      BY <2>1, <3>1 DEF Call, Panic, buffer, ends, TypeOK
    <3>2. CASE ~(n <= 0)
      <4>1. n \in Nat
        BY <3>2
      <4>2. call' = [call EXCEPT ![p] = [op |-> op, n |-> n, done |-> 0]]
        BY <2>1, <3>2 DEF Call
      <4>3. /\ call' \in [Procs -> [op : {"none", "read", "write"}, n : Nat, done : Nat]]
            /\ \A q \in Procs : call'[q].done <= call'[q].n
        BY <4>1, <4>2 DEF TypeOK
      <4>4. asked' \in 0 .. MaxBytes
        BY <2>1, <3>2, <4>1 DEF Call, TypeOK
      <4> QED BY <2>1, <3>2, <4>3, <4>4 DEF Call, buffer, ends, TypeOK
    <3> QED BY <3>1, <3>2
  <2>2. ASSUME NEW p \in Procs, NEW val, ReturnFrom(p, val)
        PROVE  TypeOK'
    BY <2>2, ReturnType DEF ReturnFrom, buffer, ends, TypeOK
  <2>3. ASSUME NEW p \in Procs, YieldCPU(p)
        PROVE  TypeOK'
    BY <2>3 DEF YieldCPU, buffer, ends, TypeOK
  <2>4. ASSUME NEW p \in Procs, WriteCopy(p)
        PROVE  TypeOK'
    <3> DEFINE left == call[p].n - call[p].done
               size == WriteSize(left)
    <3>1. left \in Int /\ left > 0
      BY <2>4 DEF WriteCopy, TypeOK
    <3>2. size \in Nat /\ size <= left
      BY <3>1, RangesOfCounters DEF WriteSize, Least, Lesser
    <3> HIDE DEF size
    <3>4. /\ call' \in [Procs -> [op : {"none", "read", "write"}, n : Nat, done : Nat]]
          /\ \A q \in Procs : call'[q].done <= call'[q].n
      <4>1. call' = [call EXCEPT ![p].done = @ + size]
        BY <2>4 DEF WriteCopy, size
      <4>2. call[p].done + size <= call[p].n /\ size \in Nat
        BY <3>2 DEF TypeOK
      <4> QED BY <4>1, <4>2, TurnType
    <3>5. data' \in [0 .. PIPESIZE - 1 -> Nat]
      <4> DEFINE w == nwrite % PIPESIZE
                 x == [i \in 0 .. PIPESIZE - 1 |->
                         IF i - w \in 0 .. size - 1 THEN sent + 1 + (i - w) ELSE data[i]]
      <4>1. data' = x
        BY <2>4 DEF WriteCopy, size, TypeOK
      <4>2. w \in Int
        BY RangesOfCounters
      <4> HIDE DEF w
      <4>3. x \in [0 .. PIPESIZE - 1 -> Nat]
        BY <4>2 DEF TypeOK
      <4> QED BY <4>1, <4>3
    <3>6. nwrite' \in 0 .. WRAP - 1
      <4>1. nwrite' = (nwrite + size) % WRAP
        BY <2>4 DEF WriteCopy, size
      <4>2. nwrite + size \in Int /\ WRAP \in Nat \ {0}
        BY <3>2 DEF TypeOK
      <4> QED BY <4>1, <4>2, ModIsRem, Zenon
    <3>7. sent' \in Nat
      <4>1. sent' = sent + size
        BY <2>4 DEF WriteCopy, size
      <4> QED BY <3>2, <4>1 DEF TypeOK
    <3> QED BY <2>4, <3>4, <3>5, <3>6, <3>7 DEF WriteCopy, ends, TypeOK
  <2>5. ASSUME NEW p \in Procs, ReadCopy(p)
        PROVE  TypeOK'
    <3> DEFINE left == call[p].n - call[p].done
               size == ReadSize(left)
               part == [i \in 1 .. size |-> data[(nread % PIPESIZE) + i - 1]]
    <3>1. left \in Int /\ left > 0
      BY <2>5 DEF ReadCopy, TypeOK
    <3>2. size \in Nat /\ size <= left /\ size <= PIPESIZE - (nread % PIPESIZE)
      BY <3>1, RangesOfCounters DEF ReadSize, Least, Lesser
    <3> HIDE DEF size
    <3>4. /\ call' \in [Procs -> [op : {"none", "read", "write"}, n : Nat, done : Nat]]
          /\ \A q \in Procs : call'[q].done <= call'[q].n
      <4>1. call' = [call EXCEPT ![p].done = @ + size]
        BY <2>5 DEF ReadCopy, size
      <4>2. call[p].done + size <= call[p].n /\ size \in Nat
        BY <3>2 DEF TypeOK
      <4> QED BY <4>1, <4>2, TurnType
    <3>5. got' \in Seq(Nat)
      <4>1. \A i \in 1 .. size : (nread % PIPESIZE) + i - 1 \in 0 .. PIPESIZE - 1
        BY <3>2, RangesOfCounters
      <4>2. part \in [1 .. size -> Nat]
        BY <4>1 DEF TypeOK
      <4>3. part \in Seq(Nat)
        BY <3>2, <4>2, SegmentIsSeq
      <4>4. got' = got \o part
        BY <2>5 DEF ReadCopy, size
      <4> HIDE DEF part
      <4> QED BY <4>3, <4>4, ConcatProperties DEF TypeOK
    <3>6. nread' \in 0 .. WRAP - 1
      <4>1. nread' = (nread + size) % WRAP
        BY <2>5 DEF ReadCopy, size
      <4>2. nread + size \in Int /\ WRAP \in Nat \ {0}
        BY <3>2 DEF TypeOK
      <4> QED BY <4>1, <4>2, ModIsRem, Zenon
    <3> QED BY <2>5, <3>4, <3>5, <3>6 DEF ReadCopy, ends, TypeOK
  <2>6. ASSUME NEW p \in Procs, BadBuffer(p)
        PROVE  TypeOK'
    BY <2>6 DEF BadBuffer, Panic, buffer, ends, TypeOK
  <2>7. ASSUME NEW p \in Procs, NEW child \in Procs, Fork(p, child)
        PROVE  TypeOK'
    BY <2>7 DEF Fork, buffer, TypeOK
  <2>8. ASSUME NEW p \in Procs, NEW some, GiveUp(p, some)
        PROVE  TypeOK'
    <3>1. holds' \in [Procs -> SUBSET Ends]
      BY <2>8 DEF GiveUp, TypeOK
    <3>2. readopen' \in BOOLEAN /\ writeopen' \in BOOLEAN /\ freed' \in BOOLEAN
      BY <2>8, Zenon DEF GiveUp, TypeOK, MayFree
    <3> QED BY <2>8, <3>1, <3>2 DEF GiveUp, buffer, TypeOK
  <2>9. CASE UNCHANGED vars
    BY <2>9 DEF vars, buffer, ends, TypeOK
  <2> QED
    BY <2>1, <2>2, <2>3, <2>4, <2>5, <2>6, <2>7, <2>8, <2>9
    DEF Next, WriteStep, ReadStep, WriteDone, WriteNoReader, WriteFull,
        ReadEOF, ReadDone, ReadWait, Close, Exit
<1> QED BY <1>1, <1>2, PTL DEF Spec

(***************************************************************************)
(* The ends and the page.                                                  *)
(***************************************************************************)
\* An end somebody holds is open, the page is freed exactly when both ends are
\* closed, and a process inside a call still holds an end.
LifeInv ==
    /\ \A p \in Procs : ("read" \in holds[p] => readopen) /\ ("write" \in holds[p] => writeopen)
    /\ freed <=> (~readopen /\ ~writeopen)
    /\ \A p \in Procs : call[p] # NoCall => holds[p] # {}

LEMMA LifeInit == Init => LifeInv
BY DEF Init, LifeInv

\* Steps that leave the ends alone, and at most end calls or go on with them.
LEMMA LifeKept ==
    ASSUME LifeInv, UNCHANGED ends,
           \A p \in Procs : call'[p] # NoCall => (call[p] # NoCall \/ holds[p] # {})
    PROVE  LifeInv'
BY DEF LifeInv, ends

\* A turn of a loop is a step within a call.
LEMMA TurnIsInCall ==
    ASSUME TypeOK, NEW p \in Procs, NEW x, call[p] # NoCall,
           call' = [call EXCEPT ![p].done = x]
    PROVE  \A q \in Procs : call'[q] # NoCall => call[q] # NoCall
BY DEF TypeOK

LEMMA LifeStep == TypeOK /\ LifeInv /\ [Next]_vars => LifeInv'
<1> SUFFICES ASSUME TypeOK, LifeInv, [Next]_vars PROVE LifeInv'
  OBVIOUS
<1>1. ASSUME NEW p \in Procs, NEW op, NEW n, Call(p, op, n)
      PROVE  LifeInv'
  <2>1. UNCHANGED ends /\ \A q \in Procs : q # p => call'[q] = call[q]
    BY <1>1 DEF Call, Panic, TypeOK
  <2>2. holds[p] # {}
    BY <1>1 DEF Call
  <2> QED BY <2>1, <2>2, LifeKept
<1>2. ASSUME NEW p \in Procs, NEW val, ReturnFrom(p, val)
      PROVE  LifeInv'
  <2>1. UNCHANGED ends /\ \A q \in Procs : call'[q] # NoCall => call[q] # NoCall
    BY <1>2 DEF ReturnFrom, TypeOK
  <2> QED BY <2>1, LifeKept
<1>3. ASSUME UNCHANGED <<ends, call>>
      PROVE  LifeInv'
  BY <1>3, LifeKept
<1>4. ASSUME NEW p \in Procs, WriteCopy(p) \/ ReadCopy(p)
      PROVE  LifeInv'
  <2>1. UNCHANGED ends /\ call[p] # NoCall
    BY <1>4 DEF WriteCopy, ReadCopy, Writing, Reading, InCall
  <2>2. \E x : call' = [call EXCEPT ![p].done = x]
    BY <1>4 DEF WriteCopy, ReadCopy
  <2>3. \A q \in Procs : call'[q] # NoCall => call[q] # NoCall
    BY <2>1, <2>2, TurnIsInCall
  <2> QED BY <2>1, <2>3, LifeKept
<1>5. ASSUME NEW p \in Procs, NEW child \in Procs, Fork(p, child)
      PROVE  LifeInv'
  <2>1. holds' = [holds EXCEPT ![child] = holds[p]] /\ holds[p] # {}
    BY <1>5 DEF Fork
  <2>2. UNCHANGED <<readopen, writeopen, freed, call>>
    BY <1>5 DEF Fork
  <2>3. \A q \in Procs : holds'[q] = holds[q] \/ holds'[q] = holds[p]
    BY <2>1 DEF TypeOK
  <2> QED BY <2>1, <2>2, <2>3, Zenon DEF LifeInv
<1>6. ASSUME NEW p \in Procs, NEW some, GiveUp(p, some)
      PROVE  LifeInv'
  <2>1. /\ readopen' <=> (readopen /\ \E q \in Procs : "read" \in holds'[q])
        /\ writeopen' <=> (writeopen /\ \E q \in Procs : "write" \in holds'[q])
        /\ freed' <=> (freed \/ (~readopen' /\ ~writeopen'))
    BY <1>6, Zenon DEF GiveUp, MayFree
  <2>2. call' = call /\ call[p] = NoCall
    BY <1>6 DEF GiveUp, InUser
  <2>3. \A q \in Procs : holds'[q] \subseteq holds[q] /\ (q # p => holds'[q] = holds[q])
    BY <1>6 DEF GiveUp, TypeOK
  <2>4. \A q \in Procs : ("read" \in holds'[q] => readopen') /\ ("write" \in holds'[q] => writeopen')
    BY <2>1, <2>3, Zenon DEF LifeInv
  <2>5. freed' <=> (~readopen' /\ ~writeopen')
    BY <2>1, Zenon DEF LifeInv
  <2>6. \A q \in Procs : call'[q] # NoCall => holds'[q] # {}
    BY <2>2, <2>3 DEF LifeInv
  <2> QED BY <2>4, <2>5, <2>6, Zenon DEF LifeInv
<1>7. CASE UNCHANGED vars
  BY <1>3, <1>7 DEF vars
<1> QED
  BY <1>1, <1>2, <1>3, <1>4, <1>5, <1>6, <1>7
  DEF Next, WriteStep, ReadStep, WriteDone, WriteNoReader, WriteFull, YieldCPU,
      ReadEOF, ReadDone, ReadWait, BadBuffer, Panic, Close, Exit

\* Nobody is inside a pipe call, or holds an end, once the page is freed: a
\* process that waits in pipewrite or piperead keeps the pipe alive (pipeclose,
\* fileclose), however many processes share the ends.
THEOREM NoUseAfterFreeHolds == Spec => []NoUseAfterFree
<1>1. TypeOK /\ LifeInv => NoUseAfterFree
  <2> SUFFICES ASSUME TypeOK, LifeInv, freed, NEW p \in Procs
               PROVE  call[p] = NoCall /\ holds[p] = {}
    BY DEF NoUseAfterFree
  <2>1. "read" \notin holds[p] /\ "write" \notin holds[p]
    BY Zenon DEF LifeInv
  <2>2. holds[p] = {}
    BY <2>1 DEF TypeOK, Ends
  <2> QED BY <2>2 DEF LifeInv
<1> QED BY <1>1, PipeTypeCorrect, LifeInit, LifeStep, PTL DEF Spec

(***************************************************************************)
(* The ring.  With r bytes read and s written since the pipe was made, the *)
(* counters are r and s modulo WRAP, and byte j + 1 is at j % PIPESIZE.    *)
(***************************************************************************)
CountersInv ==
    /\ nread = Len(got) % WRAP /\ nwrite = sent % WRAP
    /\ Len(got) <= sent /\ sent <= Len(got) + PIPESIZE

ContentsInv ==
    /\ \A i \in 1 .. Len(got) : got[i] = i
    /\ \A j \in Len(got) .. sent - 1 : data[j % PIPESIZE] = j + 1

RingInv == CountersInv /\ ContentsInv

\* What the code computes from the counters is the truth about the ring.
LEMMA CountersTell ==
    ASSUME TypeOK, CountersInv
    PROVE  /\ Len(got) \in Nat /\ sent \in Nat
           /\ Filled = sent - Len(got)
           /\ Room = PIPESIZE - (sent - Len(got))
           /\ Empty <=> sent = Len(got)
           /\ Full <=> sent = Len(got) + PIPESIZE
           /\ nread % PIPESIZE = Len(got) % PIPESIZE
           /\ nwrite % PIPESIZE = sent % PIPESIZE
<1> DEFINE r == Len(got)
           s == sent
           P == PIPESIZE
           W == WRAP
<1>1. P \in Nat \ {0} /\ W \in Nat \ {0} /\ W > P /\ W % P = 0
  BY PipeAssumption
<1>2. r \in Nat /\ s \in Nat /\ r \in Int /\ s \in Int /\ P \in Int
  BY <1>1, LenProperties DEF TypeOK
<1>3. nread = r % W /\ nwrite = s % W /\ r <= s /\ s <= r + P
  BY DEF CountersInv
<1> HIDE DEF r, s, P, W
<1>4. ((s % W) - (r % W)) % W = s - r
  <2>1. s - r \in 0 .. (W - 1)
    BY <1>1, <1>2, <1>3
  <2> QED BY <1>1, <1>2, <2>1, ModDifference
<1>5. ((r % W) + P - (s % W)) % W = r + P - s /\ ((r % W) + P) % W = (r + P) % W
  <2> DEFINE t == s % W
             u == r % W
  <2>1. t \in Int /\ u \in Int
    BY <1>1, <1>2, ModIsRem
  <2>2. (u + P) % W = (r + P) % W
    BY <1>1, <1>2, ModAdd, Zenon
  <2>3. (u + (P - t)) % W = (r + (P - t)) % W
    <3>1. P - t \in Int
      BY <1>1, <2>1
    <3> QED BY <1>1, <1>2, <3>1, ModAdd, Zenon
  <2>4. ((r + P) - t) % W = ((r + P) - s) % W
    <3>1. r + P \in Int
      BY <1>1, <1>2
    <3> QED BY <1>1, <1>2, <3>1, ModSub, Zenon
  <2>5. ((r + P) - s) % W = (r + P) - s
    <3>1. (r + P) - s \in 0 .. (W - 1)
      BY <1>1, <1>2, <1>3
    <3> QED BY <1>1, <3>1, ModSmall
  <2> HIDE DEF t, u
  <2>6. u + (P - t) = u + P - t /\ r + (P - t) = (r + P) - t
    BY <1>1, <1>2, <2>1
  <2>7. (u + P - t) % W = r + P - s
    <3>1. (u + P - t) % W = (r + (P - t)) % W
      BY <2>3, <2>6
    <3>2. (r + (P - t)) % W = (r + P) - s
      BY <2>4, <2>5, <2>6
    <3> QED BY <1>1, <1>2, <2>1, <3>1, <3>2
  <2> QED BY <2>2, <2>7, Zenon DEF t, u
<1>6. r % W = s % W <=> s = r
  <2>1. CASE r < s
    <3>1. s < r + W
      BY <1>1, <1>2, <1>3
    <3>2. r % W # s % W
      BY <1>1, <1>2, <2>1, <3>1, ModDiffer, Zenon
    <3> QED BY <1>2, <2>1, <3>2
  <2> QED BY <1>2, <1>3, <2>1
<1>7. s % W = (r + P) % W <=> s = r + P
  <2>1. CASE s < r + P
    <3>1. r + P \in Int /\ r + P < s + W
      BY <1>1, <1>2, <1>3
    <3>2. s % W # (r + P) % W
      BY <1>1, <1>2, <2>1, <3>1, ModDiffer
    <3> QED BY <1>1, <1>2, <2>1, <3>2
  <2> QED BY <1>1, <1>2, <1>3, <2>1
<1>8. (r % W) % P = r % P /\ (s % W) % P = s % P
  BY <1>1, <1>2, ModOfMod, Zenon
<1>9. Filled = s - r /\ Room = r + P - s
  BY <1>3, <1>4, <1>5 DEF Filled, Room, P, W
<1>10. (Empty <=> s = r) /\ (Full <=> s = r + P)
  BY <1>3, <1>5, <1>6, <1>7 DEF Empty, Full, P, W
<1>11. r + P - s = P - (s - r)
  BY <1>1, <1>2
<1> QED BY <1>2, <1>3, <1>8, <1>9, <1>10, <1>11, Zenon DEF r, s, P

LEMMA RingInit == Init => RingInv
<1> SUFFICES ASSUME Init PROVE RingInv
  OBVIOUS
<1>1. Len(got) = 0 /\ sent = 0 /\ nread = 0 /\ nwrite = 0
  BY EmptySeq DEF Init
<1>2. 0 % WRAP = 0 /\ PIPESIZE \in Nat
  BY PipeAssumption, ModSmall
<1> QED BY <1>1, <1>2 DEF RingInv, CountersInv, ContentsInv

\* Where byte j + 1 goes, n bytes at most from a: no wrap up to the end of the array.
LEMMA Place ==
    ASSUME NEW a \in Nat, NEW n \in Nat, n <= PIPESIZE - (a % PIPESIZE),
           NEW k \in 0 .. n - 1
    PROVE  (a + k) % PIPESIZE = (a % PIPESIZE) + k
<1>1. PIPESIZE \in Nat \ {0} /\ a \in Int /\ k \in Int
  BY PipeAssumption
<1>2. a % PIPESIZE \in 0 .. (PIPESIZE - 1)
  BY <1>1, ModIsRem, Zenon
<1>3. (a % PIPESIZE) + k \in 0 .. (PIPESIZE - 1)
  BY <1>1, <1>2
<1> QED BY <1>1, <1>3, ModShift, Zenon

\* A counter is advanced by n.
LEMMA Advance ==
    ASSUME NEW a \in Nat, NEW n \in Nat
    PROVE  ((a % WRAP) + n) % WRAP = (a + n) % WRAP
<1>1. WRAP \in Nat \ {0} /\ a \in Int /\ n \in Int
  BY PipeAssumption
<1> QED BY <1>1, ModAdd, Zenon

\* A turn of pipewrite overwrites no byte that is still to be read.
LEMMA RingWrite ==
    ASSUME TypeOK, RingInv, NEW p \in Procs, WriteCopy(p)
    PROVE  RingInv'
<1> DEFINE n == WriteSize(call[p].n - call[p].done)
           r == Len(got)
           s == sent
           P == PIPESIZE
           w == s % P
<1>1. /\ r \in Nat /\ s \in Nat /\ r <= s /\ s <= r + P
      /\ P \in Nat \ {0} /\ w \in 0 .. P - 1
  <2>1. P \in Nat \ {0} /\ r \in Nat /\ s \in Nat /\ s \in Int
    BY PipeAssumption, CountersTell DEF RingInv, TypeOK
  <2>2. w \in 0 .. P - 1
    BY <2>1, ModIsRem, Zenon
  <2> QED BY <2>1, <2>2 DEF RingInv, CountersInv
<1>2. nwrite % P = w
  BY CountersTell DEF RingInv
<1>3. n \in Nat /\ n <= r + P - s /\ n <= P - w
  <2>1. Room = P - (s - r)
    BY CountersTell DEF RingInv
  <2>2. call[p].n - call[p].done \in Int /\ call[p].n - call[p].done > 0
    BY DEF WriteCopy, TypeOK
  <2> HIDE DEF w
  <2> QED BY <1>1, <1>2, <2>1, <2>2 DEF WriteSize, Least, Lesser
<1>4. /\ sent' = s + n /\ got' = got /\ nread' = nread
      /\ nwrite' = (nwrite + n) % WRAP
  BY DEF WriteCopy
<1>5. data' = [i \in 0 .. P - 1 |-> IF i - w \in 0 .. n - 1 THEN s + 1 + (i - w) ELSE data[i]]
  BY <1>2 DEF WriteCopy, TypeOK
<1> HIDE DEF n
<1>6. CountersInv'
  <2>1. nwrite' = (s + n) % WRAP
    BY <1>1, <1>3, <1>4, Advance DEF RingInv, CountersInv
  <2> QED BY <1>1, <1>3, <1>4, <2>1 DEF RingInv, CountersInv
<1>7. ASSUME NEW j \in r .. s + n - 1
      PROVE  data'[j % P] = j + 1
  <2>0. j \in Int /\ j \in Nat
    BY <1>1, <1>3
  <2>1. j % P \in 0 .. P - 1 /\ j % P \in Int
    BY <1>1, <2>0, ModIsRem, Zenon
  <2>2. CASE j >= s
    <3>1. j - s \in 0 .. n - 1 /\ s + (j - s) = j
      BY <1>1, <1>3, <2>2
    <3>2. (s + (j - s)) % P = w + (j - s)
      BY <1>1, <1>3, <3>1, Place, Zenon
    <3>3. j % P = w + (j - s)
      BY <3>1, <3>2
    <3> HIDE DEF w
    <3>4. (j % P) - w = j - s
      BY <1>1, <3>3, <2>0
    <3>5. data'[j % P] = s + 1 + (j - s)
      BY <1>5, <2>1, <3>1, <3>4
    <3> QED BY <1>1, <2>0, <3>5
  <2>3. CASE j < s
    <3> DEFINE k == (j % P) - w
    <3>1. k \notin 0 .. n - 1
      <4> SUFFICES ASSUME k \in 0 .. n - 1 PROVE FALSE
        OBVIOUS
      <4>1. (s + k) % P = w + k
        BY <1>1, <1>3, Place, Zenon
      <4>2. w + k = j % P
        <5> HIDE DEF w
        <5> QED BY <1>1, <2>1
      <4> HIDE DEF k
      <4>3. j < s + k /\ s + k < j + P /\ s + k \in Int
        BY <1>1, <1>3, <2>0, <2>3
      <4>4. j % P # (s + k) % P
        BY <1>1, <2>0, <4>3, ModDiffer, Zenon
      <4> QED BY <4>1, <4>2, <4>4
    <3>2. data'[j % P] = data[j % P]
      BY <1>5, <2>1, <3>1
    <3>3. j \in r .. s - 1
      BY <1>1, <1>3, <2>3
    <3> QED BY <3>2, <3>3 DEF RingInv, ContentsInv
  <2> QED BY <1>1, <2>0, <2>2, <2>3
<1>8. ContentsInv'
  <2>1. \A j \in Len(got') .. sent' - 1 : data'[j % PIPESIZE] = j + 1
    <3>1. Len(got') = r /\ sent' - 1 = s + n - 1
      BY <1>1, <1>3, <1>4
    <3> QED BY <1>7, <3>1, Zenon
  <2>2. \A i \in 1 .. Len(got') : got'[i] = i
    BY <1>4 DEF RingInv, ContentsInv
  <2> QED BY <2>1, <2>2, Zenon DEF ContentsInv
<1> QED BY <1>6, <1>8 DEF RingInv

\* A turn of piperead returns the next bytes, in order.
LEMMA RingRead ==
    ASSUME TypeOK, RingInv, NEW p \in Procs, ReadCopy(p)
    PROVE  RingInv'
<1> DEFINE n == ReadSize(call[p].n - call[p].done)
           r == Len(got)
           s == sent
           P == PIPESIZE
           w == r % P
           part == [i \in 1 .. n |-> data[w + i - 1]]
<1>1. /\ r \in Nat /\ s \in Nat /\ r <= s /\ s <= r + P
      /\ P \in Nat \ {0} /\ w \in 0 .. P - 1
  <2>1. P \in Nat \ {0} /\ r \in Nat /\ s \in Nat /\ r \in Int
    BY PipeAssumption, CountersTell DEF RingInv, TypeOK
  <2>2. w \in 0 .. P - 1
    BY <2>1, ModIsRem, Zenon
  <2> QED BY <2>1, <2>2 DEF RingInv, CountersInv
<1>2. nread % P = w
  BY CountersTell DEF RingInv
<1>3. n \in Nat /\ n <= s - r /\ n <= P - w
  <2>1. Filled = s - r
    BY CountersTell DEF RingInv
  <2>2. call[p].n - call[p].done \in Int /\ call[p].n - call[p].done > 0
    BY DEF ReadCopy, TypeOK
  <2> HIDE DEF w
  <2> QED BY <1>1, <1>2, <2>1, <2>2 DEF ReadSize, Least, Lesser
<1>4. /\ sent' = sent /\ data' = data /\ nwrite' = nwrite
      /\ nread' = (nread + n) % WRAP /\ got' = got \o part
  BY <1>2 DEF ReadCopy
<1> HIDE DEF n
<1>5. ASSUME NEW i \in 1 .. n
      PROVE  part[i] = r + i
  <2>1. i - 1 \in 0 .. n - 1 /\ r + (i - 1) \in r .. s - 1
    BY <1>1, <1>3
  <2>2. (r + (i - 1)) % P = w + (i - 1)
    BY <1>1, <1>3, <2>1, Place, Zenon
  <2>3. data[(r + (i - 1)) % P] = (r + (i - 1)) + 1
    BY <2>1 DEF RingInv, ContentsInv
  <2>4. w + (i - 1) = w + i - 1 /\ (r + (i - 1)) + 1 = r + i
    <3> HIDE DEF w
    <3> QED BY <1>1, <1>3
  <2> QED BY <2>2, <2>3, <2>4
<1>6. part \in Seq(Nat) /\ Len(part) = n
  <2>1. part \in [1 .. n -> Nat]
    BY <1>1, <1>3, <1>5
  <2> QED BY <1>3, <2>1, SegmentIsSeq, Zenon
<1> HIDE DEF part
<1>7. /\ Len(got') = r + n
      /\ \A i \in 1 .. r + n : got'[i] = IF i <= r THEN got[i] ELSE part[i - r]
  <2>1. got \in Seq(Nat)
    BY DEF TypeOK
  <2> QED BY <1>4, <1>6, <2>1, ConcatProperties
<1>8. CountersInv'
  <2>1. nread' = (r + n) % WRAP
    BY <1>1, <1>3, <1>4, Advance DEF RingInv, CountersInv
  <2> QED BY <1>1, <1>3, <1>4, <1>7, <2>1 DEF RingInv, CountersInv
<1>9. ASSUME NEW i \in 1 .. r + n
      PROVE  got'[i] = i
  <2>1. CASE i <= r
    BY <1>1, <1>3, <1>7, <2>1 DEF RingInv, ContentsInv
  <2>2. CASE i > r
    <3>1. i - r \in 1 .. n /\ r + (i - r) = i
      BY <1>1, <1>3, <2>2
    <3> QED BY <1>1, <1>3, <1>5, <1>7, <2>2, <3>1
  <2> QED BY <1>1, <1>3, <2>1, <2>2
<1>10. ContentsInv'
  <2>1. ASSUME NEW j \in Len(got') .. sent' - 1
        PROVE  data'[j % PIPESIZE] = j + 1
    <3>1. j \in r .. s - 1
      BY <1>1, <1>3, <1>4, <1>7
    <3> QED BY <1>4, <3>1, Zenon DEF RingInv, ContentsInv
  <2> QED BY <1>7, <1>9, <2>1, Zenon DEF ContentsInv
<1> QED BY <1>8, <1>10 DEF RingInv

LEMMA RingStep == TypeOK /\ RingInv /\ [Next]_vars => RingInv'
<1> SUFFICES ASSUME TypeOK, RingInv, [Next]_vars PROVE RingInv'
  OBVIOUS
<1>1. ASSUME UNCHANGED <<buffer, sent, got>>
      PROVE  RingInv'
  BY <1>1 DEF buffer, RingInv, CountersInv, ContentsInv
<1>2. ASSUME NEW p \in Procs, NEW op, NEW n, Call(p, op, n)
      PROVE  UNCHANGED <<buffer, sent, got>>
  BY <1>2 DEF Call, Panic
<1>3. ASSUME NEW p \in Procs, NEW child, Fork(p, child)
      PROVE  UNCHANGED <<buffer, sent, got>>
  BY <1>3 DEF Fork
<1>4. ASSUME NEW p \in Procs, NEW some, GiveUp(p, some)
      PROVE  UNCHANGED <<buffer, sent, got>>
  BY <1>4 DEF GiveUp
<1>5. CASE UNCHANGED vars
  BY <1>1, <1>5 DEF vars
<1> QED
  BY <1>1, <1>2, <1>3, <1>4, <1>5, RingWrite, RingRead
  DEF Next, WriteStep, ReadStep, WriteDone, WriteNoReader, WriteFull, YieldCPU, ReturnFrom,
      ReadEOF, ReadDone, ReadWait, BadBuffer, Panic, Close, Exit

LEMMA RingInvHolds == Spec => [](TypeOK /\ RingInv)
BY PipeTypeCorrect, RingInit, RingStep, PTL DEF Spec

\* Bytes leave the pipe in the order in which they entered it, and the ring holds
\* exactly those on their way, for every size of the ring, every width of the
\* counters that is a multiple of it, every number of processes and all lengths.
THEOREM RingKeepsOrderHolds == Spec => []RingKeepsOrder
<1>1. TypeOK /\ RingInv => RingKeepsOrder
  <2> SUFFICES ASSUME TypeOK, RingInv PROVE RingKeepsOrder
    OBVIOUS
  <2>1. /\ Len(got) \in Nat /\ sent \in Nat /\ Filled = sent - Len(got)
        /\ nread = Len(got) % WRAP /\ sent <= Len(got) + PIPESIZE
    BY CountersTell DEF RingInv, CountersInv
  <2>2. ASSUME NEW i \in 1 .. Filled
        PROVE  data[(nread + i - 1) % PIPESIZE] = Len(got) + i
    <3> DEFINE a == Len(got)
               j == a + (i - 1)
    <3>1. a \in Int /\ i - 1 \in Int /\ j \in Int /\ j \in a .. sent - 1 /\ j + 1 = a + i
      BY <2>1
    <3>2. PIPESIZE \in Nat \ {0} /\ WRAP \in Nat \ {0} /\ WRAP % PIPESIZE = 0
      BY PipeAssumption
    <3>3. nread \in Int /\ nread % PIPESIZE = a % PIPESIZE
      BY CountersTell DEF RingInv, TypeOK
    <3>4. (nread + (i - 1)) % PIPESIZE = ((nread % PIPESIZE) + (i - 1)) % PIPESIZE
      BY <3>1, <3>2, <3>3, ModAdd, Zenon
    <3>5. ((a % PIPESIZE) + (i - 1)) % PIPESIZE = j % PIPESIZE
      BY <3>1, <3>2, ModAdd, Zenon
    <3>6. nread + (i - 1) = nread + i - 1
      BY <2>1, <3>3
    <3>7. data[j % PIPESIZE] = j + 1
      BY <3>1 DEF RingInv, ContentsInv
    <3> QED BY <3>1, <3>3, <3>4, <3>5, <3>6, <3>7
  <2> QED BY <2>1, <2>2, PipeAssumption DEF RingKeepsOrder, RingInv, ContentsInv
<1> QED BY <1>1, RingInvHolds, PTL

\* Only the step that finds the ring empty and the write end closed reports end
\* of file: then everything written has been read, and no process can write.
THEOREM EOFIsFinalHolds == Spec => []EOFIsFinal
<1>1. Init => EOFIsFinal
  BY DEF Init, EOFIsFinal, None
<1>2. TypeOK /\ RingInv /\ LifeInv /\ EOFIsFinal /\ [Next]_vars => EOFIsFinal'
  <2> SUFFICES ASSUME TypeOK, RingInv, LifeInv, EOFIsFinal, [Next]_vars PROVE EOFIsFinal'
    OBVIOUS
  <2>1. ASSUME result' = None
        PROVE  EOFIsFinal'
    BY <2>1 DEF EOFIsFinal, None
  <2>2. ASSUME NEW p \in Procs, ReadEOF(p)
        PROVE  EOFIsFinal'
    <3>1. Len(got) = sent
      BY <2>2, CountersTell DEF ReadEOF, AtEOF, RingInv
    <3>2. \A q \in Procs : "write" \notin holds[q]
      BY <2>2 DEF ReadEOF, AtEOF, LifeInv
    <3>3. UNCHANGED <<got, sent, holds>>
      BY <2>2 DEF ReadEOF, ReturnFrom, ends
    <3> QED BY <3>1, <3>2, <3>3 DEF EOFIsFinal
  <2>3. ASSUME NEW p \in Procs, WriteDone(p) \/ WriteNoReader(p) \/ ReadDone(p)
        PROVE  EOFIsFinal'
    <3>1. result'.op # "read" \/ result'.val # -1
      BY <2>3 DEF WriteDone, WriteNoReader, ReadDone, Writing, ReturnFrom, Result, TypeOK
    <3> QED BY <3>1 DEF EOFIsFinal
  <2>4. CASE UNCHANGED vars
    BY <2>4 DEF vars, ends, EOFIsFinal
  <2>5. ASSUME NEW p \in Procs, NEW op, NEW n, Call(p, op, n)
        PROVE  result' = None
    BY <2>5 DEF Call, Panic
  <2>6. ASSUME NEW p \in Procs, NEW child, Fork(p, child)
        PROVE  result' = None
    BY <2>6 DEF Fork
  <2>7. ASSUME NEW p \in Procs, NEW some, GiveUp(p, some)
        PROVE  result' = None
    BY <2>7 DEF GiveUp
  <2>8. ASSUME NEW p \in Procs, WriteCopy(p) \/ ReadCopy(p)
        PROVE  result' = None
    BY <2>8 DEF WriteCopy, ReadCopy
  <2> QED
    BY <2>1, <2>2, <2>3, <2>4, <2>5, <2>6, <2>7, <2>8
    DEF Next, WriteStep, ReadStep, WriteFull, YieldCPU, ReadWait, BadBuffer, Panic, Close, Exit
<1> QED BY <1>1, <1>2, RingInvHolds, LifeInit, LifeStep, PTL DEF Spec
=============================================================================
