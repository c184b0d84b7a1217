------------------------- MODULE BlockOutputProofs -------------------------
(***************************************************************************)
(* Theorems about BlockOutput for every alphabet, buffer size and bound.   *)
(***************************************************************************)
EXTENDS BlockOutput, SequenceTheorems, TLAPS

(***************************************************************************)
(* The inductive invariant adds the bookkeeping of writeBlock: the field   *)
(* offset counts the bytes in the file, in the buffer and in the write     *)
(* that has reserved its place, and no buffer is ever over-full.           *)
(***************************************************************************)
Counted ==
    /\ Len(buffer) <= BufferSize
    /\ Len(writing) <= BufferSize
    /\ Len(disk) <= MaxSize
    /\ phase = "open" =>
         /\ offset = Len(disk) + Len(buffer) + Len(writing)
         /\ offset <= MaxSize
    /\ phase = "closed" => buffer = <<>> /\ writing = <<>>

(* What is being written is one of the arrays callers pass. *)
FromCaller == writing \in Chunks \union {<<>>}

IInv == TypeOK /\ Counted /\ BlocksIntact /\ FromCaller

-----------------------------------------------------------------------------
(* Two sequences that agree up to k have the same subsequences below k. *)
LEMMA CommonPrefix ==
    ASSUME NEW S, NEW s \in Seq(S), NEW t \in Seq(S),
           NEW k \in Nat, k <= Len(s), k <= Len(t),
           \A i \in 1 .. k : s[i] = t[i],
           NEW m \in Nat \ {0}, NEW n \in 0 .. k
    PROVE  SubSeq(s, m, n) = SubSeq(t, m, n)
<1> DEFINE u == SubSeq(s, m, n)
           v == SubSeq(t, m, n)
<1>1. \A i \in m .. n : s[i] \in S /\ t[i] \in S
  BY ElementOfSeq, LenProperties
<1>2. /\ u \in Seq(S)
      /\ Len(u) = IF m <= n THEN n - m + 1 ELSE 0
      /\ \A i \in 1 .. n - m + 1 : u[i] = s[m + i - 1]
  <2> HIDE DEF u
  <2> QED BY <1>1, SubSeqProperties DEF u
<1>3. /\ v \in Seq(S)
      /\ Len(v) = IF m <= n THEN n - m + 1 ELSE 0
      /\ \A i \in 1 .. n - m + 1 : v[i] = t[m + i - 1]
  <2> HIDE DEF v
  <2> QED BY <1>1, SubSeqProperties DEF v
<1>4. \A i \in 1 .. Len(u) : u[i] = v[i]
  <2> HIDE DEF u, v
  <2> SUFFICES ASSUME NEW i \in 1 .. Len(u) PROVE u[i] = v[i]
    OBVIOUS
  <2>1. i \in 1 .. n - m + 1 /\ m + i - 1 \in 1 .. k
    BY <1>2
  <2> QED BY <2>1, <1>2, <1>3
<1> HIDE DEF u, v
<1>5. u = v
  BY <1>2, <1>3, <1>4, SeqEqual
<1> QED BY <1>5 DEF u, v

(* A prefix of a sequence, element by element. *)
LEMMA PrefixElements ==
    ASSUME NEW S, NEW s \in Seq(S), NEW n \in 0 .. Len(s)
    PROVE  /\ SubSeq(s, 1, n) \in Seq(S)
           /\ Len(SubSeq(s, 1, n)) = n
           /\ \A i \in 1 .. n : SubSeq(s, 1, n)[i] = s[i]
<1>1. n \in Int /\ \A i \in 1 .. n : s[i] \in S
  BY ElementOfSeq, LenProperties
<1>2. /\ SubSeq(s, 1, n) \in Seq(S)
      /\ Len(SubSeq(s, 1, n)) = IF 1 <= n THEN n - 1 + 1 ELSE 0
      /\ \A i \in 1 .. n - 1 + 1 : SubSeq(s, 1, n)[i] = s[1 + i - 1]
  BY <1>1, SubSeqProperties
<1>3. n - 1 + 1 = n /\ \A i \in 1 .. n : 1 + i - 1 = i
  BY <1>1
<1> QED BY <1>2, <1>3

(* Cutting a sequence in two and joining the parts gives it back. *)
LEMMA CutAndJoin ==
    ASSUME NEW S, NEW s \in Seq(S), NEW n \in 0 .. Len(s)
    PROVE  /\ SubSeq(s, n + 1, Len(s)) \in Seq(S)
           /\ Len(SubSeq(s, n + 1, Len(s))) = Len(s) - n
           /\ SubSeq(s, 1, n) \o SubSeq(s, n + 1, Len(s)) = s
<1>0. n \in Nat /\ Len(s) \in Nat /\ n <= Len(s)
  BY LenProperties
<1>1. \A i \in n + 1 .. Len(s) : s[i] \in S
  BY <1>0, ElementOfSeq
<1>2. /\ SubSeq(s, n + 1, Len(s)) \in Seq(S)
      /\ Len(SubSeq(s, n + 1, Len(s))) =
           IF n + 1 <= Len(s) THEN Len(s) - (n + 1) + 1 ELSE 0
  BY <1>0, <1>1, SubSeqProperties
<1>3. SubSeq(s, 1, n) \o SubSeq(s, n + 1, Len(s)) = SubSeq(s, 1, Len(s))
  <2>1. 1 \in 1 .. Len(s) + 1 /\ n \in 1 - 1 .. Len(s) /\ Len(s) \in n .. Len(s)
    BY <1>0
  <2> QED BY <2>1, ConcatAdjacentSubSeq
<1>4. SubSeq(s, 1, Len(s)) = s
  BY SubSeqFull
<1>5. Len(SubSeq(s, n + 1, Len(s))) = Len(s) - n
  BY <1>0, <1>2
<1>6. SubSeq(s, 1, n) \o SubSeq(s, n + 1, Len(s)) = s
  BY <1>3, <1>4
<1> QED BY <1>2, <1>5, <1>6

(* Blocks held by one sequence are held by any other that agrees with it   *)
(* far enough.                                                             *)
LEMMA HoldsTransfers ==
    ASSUME NEW s \in Seq(Byte), NEW t \in Seq(Byte), NEW n \in Nat,
           n <= Len(s), n <= Len(t),
           \A i \in 1 .. n : s[i] = t[i],
           NEW b \in Block, Holds(b, s), BlockEnd(b) <= n
    PROVE  Holds(b, t)
<1>1. b.off \in Nat /\ Len(b.data) \in Nat /\ BlockEnd(b) \in Nat
  BY LenProperties DEF Block, BlockEnd
<1>2. b.off + 1 \in Nat \ {0} /\ BlockEnd(b) \in 0 .. n
  BY <1>1
<1>3. SubSeq(s, b.off + 1, BlockEnd(b)) = SubSeq(t, b.off + 1, BlockEnd(b))
  BY <1>2, CommonPrefix
<1>4. BlockEnd(b) <= Len(t)
  BY <1>1, LenProperties
<1> QED BY <1>3, <1>4 DEF Holds

(* A chunk appended to a sequence is held there as a block. *)
LEMMA AppendedIsHeld ==
    ASSUME NEW s \in Seq(Byte), NEW c \in Seq(Byte)
    PROVE  /\ [off |-> Len(s), data |-> c] \in Block
           /\ Holds([off |-> Len(s), data |-> c], s \o c)
<1> DEFINE b == [off |-> Len(s), data |-> c]
           lo == Len(s) + 1
           hi == Len(s) + Len(c)
           sc == s \o c
           u == SubSeq(sc, lo, hi)
<1>1. b \in Block /\ b.off = Len(s) /\ b.data = c /\ BlockEnd(b) = hi
  BY LenProperties DEF Block, BlockEnd
<1>2. /\ sc \in Seq(Byte)
      /\ Len(sc) = hi
      /\ \A i \in 1 .. hi :
           sc[i] = IF i <= Len(s) THEN s[i] ELSE c[i - Len(s)]
  BY ConcatProperties
<1>3. Len(s) \in Nat /\ Len(c) \in Nat /\ lo \in Int /\ hi \in Int
  BY LenProperties
<1>4. \A i \in lo .. hi : sc[i] \in Byte
  <2> HIDE DEF sc
  <2> QED BY <1>2, <1>3, ElementOfSeq
<1>5. /\ u \in Seq(Byte)
      /\ Len(u) = IF lo <= hi THEN hi - lo + 1 ELSE 0
      /\ \A i \in 1 .. hi - lo + 1 : u[i] = sc[lo + i - 1]
  <2> HIDE DEF lo, hi, sc
  <2> QED BY <1>3, <1>4, SubSeqProperties
<1>6. Len(u) = Len(c)
  BY <1>3, <1>5
<1>7. \A i \in 1 .. Len(u) : u[i] = c[i]
  <2> SUFFICES ASSUME NEW i \in 1 .. Len(c) PROVE u[i] = c[i]
    BY <1>6
  <2> HIDE DEF u, sc
  <2>1. i \in 1 .. hi - lo + 1 /\ lo + i - 1 \in 1 .. hi
        /\ ~(lo + i - 1 <= Len(s)) /\ (lo + i - 1) - Len(s) = i
    BY <1>3
  <2> QED BY <2>1, <1>2, <1>5
<1>8. u = c
  <2> HIDE DEF u
  <2> QED BY <1>5, <1>6, <1>7, SeqEqual
<1> QED BY <1>1, <1>2, <1>3, <1>8 DEF Holds

-----------------------------------------------------------------------------
(* The sizes of the parts of a write that overflows the buffer. *)
LEMMA OverflowSizes ==
    ASSUME TypeOK, Counted, Overflows
    PROVE  /\ Room \in 0 .. Len(writing)
           /\ SubSeq(writing, 1, Room) \in Seq(Byte)
           /\ Len(SubSeq(writing, 1, Room)) = Room
           /\ Unwritten = buffer \o SubSeq(writing, 1, Room)
           /\ Unwritten \in Seq(Byte)
           /\ Len(Unwritten) = BufferSize
<1>1. /\ Len(buffer) \in Nat /\ Len(writing) \in Nat
      /\ buffer \in Seq(Byte) /\ writing \in Seq(Byte)
  BY LenProperties DEF TypeOK
<1>2. Room \in 0 .. Len(writing)
  BY <1>1, SizeAssumption DEF Room, Overflows, Counted
<1>3. /\ SubSeq(writing, 1, Room) \in Seq(Byte)
      /\ Len(SubSeq(writing, 1, Room)) = Room
  BY <1>1, <1>2, PrefixElements
<1>4. Unwritten = buffer \o SubSeq(writing, 1, Room)
  BY DEF Unwritten
<1>5. /\ buffer \o SubSeq(writing, 1, Room) \in Seq(Byte)
      /\ Len(buffer \o SubSeq(writing, 1, Room)) = Len(buffer) + Room
  <2> HIDE DEF Room
  <2> QED BY <1>1, <1>3, ConcatProperties
<1>6. Len(buffer) + Room = BufferSize
  BY <1>1, SizeAssumption DEF Room
<1>7. Len(Unwritten) = BufferSize
  BY <1>4, <1>5, <1>6
<1> QED BY <1>2, <1>3, <1>4, <1>5, <1>7

(* Unwritten begins with the buffer, and is no longer than what is counted. *)
LEMMA UnwrittenIsBuffered ==
    ASSUME TypeOK, Counted
    PROVE  /\ Unwritten \in Seq(Byte)
           /\ Len(buffer) <= Len(Unwritten)
           /\ Len(Unwritten) <= Len(buffer) + Len(writing)
           /\ \A i \in 1 .. Len(buffer) : Unwritten[i] = buffer[i]
<1>1. /\ Len(buffer) \in Nat /\ Len(writing) \in Nat
      /\ buffer \in Seq(Byte)
  BY LenProperties DEF TypeOK
<1>2. CASE ~Overflows
  BY <1>1, <1>2 DEF Unwritten
<1>3. CASE Overflows
  <2> DEFINE w0 == SubSeq(writing, 1, Room)
  <2>1. /\ w0 \in Seq(Byte) /\ Unwritten = buffer \o w0
        /\ Unwritten \in Seq(Byte) /\ Len(Unwritten) = BufferSize
    BY <1>3, OverflowSizes
  <2>2. \A i \in 1 .. Len(buffer) : Unwritten[i] = buffer[i]
    <3> HIDE DEF w0
    <3> QED BY <1>1, <2>1, LenProperties, ConcatProperties
  <2>3. Len(buffer) <= Len(Unwritten) /\ Len(Unwritten) <= Len(buffer) + Len(writing)
    BY <1>1, <1>3, <2>1, SizeAssumption DEF Counted, Overflows
  <2> QED BY <2>1, <2>2, <2>3
<1> QED BY <1>2, <1>3

(* The log is not disturbed by moving bytes out of the buffer, and grows   *)
(* by exactly the bytes written when a write ends.                         *)
LEMMA LogLength ==
    ASSUME TypeOK
    PROVE  /\ Log \in Seq(Byte)
           /\ Len(Log) = Len(disk) + Len(buffer)
           /\ \A i \in 1 .. Len(Log) :
                Log[i] = IF i <= Len(disk) THEN disk[i]
                                           ELSE buffer[i - Len(disk)]
<1>1. buffer \in Seq(Byte) /\ disk \in Seq(Byte)
  BY DEF TypeOK
<1> QED BY <1>1, ConcatProperties DEF Log

LEMMA LogGrowth ==
    ASSUME TypeOK, Log' = Log \o writing
    PROVE  Len(Log') = Len(disk) + Len(buffer) + Len(writing)
<1> DEFINE l == Log
<1>1. l \in Seq(Byte) /\ writing \in Seq(Byte)
      /\ Len(l) = Len(disk) + Len(buffer)
  BY LogLength DEF TypeOK
<1> HIDE DEF l
<1>2. Len(l \o writing) = Len(l) + Len(writing)
  BY <1>1, ConcatProperties
<1> QED BY <1>1, <1>2 DEF l

LEMMA StoreInBufferLog ==
    ASSUME TypeOK, StoreInBuffer
    PROVE  /\ buffer \o writing \in Seq(Byte)
           /\ Len(buffer \o writing) = Len(buffer) + Len(writing)
           /\ Log' = Log \o writing
<1>1. buffer \in Seq(Byte) /\ writing \in Seq(Byte) /\ disk \in Seq(Byte)
  BY DEF TypeOK
<1>2. Log' = disk \o (buffer \o writing)
  BY DEF StoreInBuffer, Log
<1> QED BY <1>1, <1>2, ConcatProperties, ConcatAssociative DEF Log

LEMMA StoreAndSpillLog ==
    ASSUME TypeOK, Counted, StoreAndSpill
    PROVE  /\ disk' \in Seq(Byte) /\ buffer' \in Seq(Byte)
           /\ Len(disk') = Len(disk) + BufferSize
           /\ Len(buffer') = Len(buffer) + Len(writing) - BufferSize
           /\ Log' = Log \o writing
<1> DEFINE w0 == SubSeq(writing, 1, Room)
           w1 == SubSeq(writing, Room + 1, Len(writing))
<1>1. buffer \in Seq(Byte) /\ writing \in Seq(Byte) /\ disk \in Seq(Byte)
  BY DEF TypeOK
<1>2. /\ Room \in 0 .. Len(writing)
      /\ w0 \in Seq(Byte)
      /\ Unwritten = buffer \o w0
      /\ Unwritten \in Seq(Byte)
      /\ Len(Unwritten) = BufferSize
  BY OverflowSizes DEF StoreAndSpill
<1>3. /\ w1 \in Seq(Byte)
      /\ Len(w1) = Len(writing) - Room
      /\ w0 \o w1 = writing
  BY <1>1, <1>2, CutAndJoin
<1>4. disk' = disk \o (buffer \o w0) /\ buffer' = w1
  BY <1>2 DEF StoreAndSpill
<1>5. /\ disk' \in Seq(Byte)
      /\ Len(disk') = Len(disk) + BufferSize
  <2>1. disk' = disk \o Unwritten
    BY DEF StoreAndSpill
  <2> HIDE DEF Unwritten
  <2> QED BY <1>1, <1>2, <2>1, ConcatProperties
<1>6. Len(buffer') = Len(buffer) + Len(writing) - BufferSize
  <2>1. Len(buffer') = Len(writing) - Room
    BY <1>3, <1>4
  <2> QED BY <2>1, <1>1, LenProperties, SizeAssumption DEF Room
<1>7. Log' = Log \o writing
  <2>1. Log' = (disk \o (buffer \o w0)) \o w1
    BY <1>4 DEF Log
  <2>2. Log \in Seq(Byte)
    BY LogLength
  <2>3. w0 \in Seq(Byte) /\ w1 \in Seq(Byte)
    BY <1>2, <1>3
  <2> HIDE DEF w0, w1
  <2>4. disk \o (buffer \o w0) = Log \o w0
    <3>1. disk \in Seq(Byte) /\ buffer \in Seq(Byte) /\ w0 \in Seq(Byte)
      BY <1>1, <2>3
    <3>2. (disk \o buffer) \o w0 = disk \o (buffer \o w0)
      BY ONLY <3>1, ConcatAssociative
    <3> QED BY <3>2 DEF Log
  <2>5. (Log \o w0) \o w1 = Log \o (w0 \o w1)
    BY <2>2, <2>3, ConcatAssociative
  <2> QED BY <2>1, <2>4, <2>5, <1>3
<1> QED BY <1>3, <1>4, <1>5, <1>6, <1>7

(* flush and close both put the whole buffer into the file. *)
LEMMA EmptiedLog ==
    ASSUME TypeOK, disk' = disk \o buffer, buffer' = <<>>
    PROVE  /\ disk' \in Seq(Byte)
           /\ Len(disk') = Len(disk) + Len(buffer)
           /\ Log' = Log
<1>1. buffer \in Seq(Byte) /\ disk \in Seq(Byte)
  BY DEF TypeOK
<1>2. /\ disk \o buffer \in Seq(Byte)
      /\ Len(disk \o buffer) = Len(disk) + Len(buffer)
  BY <1>1, ConcatProperties
<1>3. (disk \o buffer) \o <<>> = disk \o buffer
  BY <1>2, ConcatEmptySeq
<1> QED BY <1>2, <1>3 DEF Log

(* What a crash leaves in the file: the log, up to its new length or its   *)
(* old one, whichever is shorter.                                          *)
LEMMA CrashedLog ==
    ASSUME TypeOK, Counted, NEW k \in 0 .. Len(Unwritten), Crash(k)
    PROVE  /\ disk' \in Seq(Byte)
           /\ Len(disk') = Len(disk) + k
           /\ Log' = disk'
           /\ \A i \in 1 .. Len(Log) : i <= Len(Log') => Log[i] = Log'[i]
<1>0. buffer \in Seq(Byte) /\ disk \in Seq(Byte)
  BY DEF TypeOK
<1>1. /\ Unwritten \in Seq(Byte)
      /\ Len(buffer) <= Len(Unwritten)
      /\ \A i \in 1 .. Len(buffer) : Unwritten[i] = buffer[i]
  BY UnwrittenIsBuffered
<1> DEFINE cut == SubSeq(Unwritten, 1, k)
<1>2. /\ cut \in Seq(Byte)
      /\ Len(cut) = k
      /\ \A i \in 1 .. k : cut[i] = Unwritten[i]
  BY <1>1, PrefixElements
<1>3. disk' = disk \o cut /\ buffer' = <<>>
  BY DEF Crash
<1> HIDE DEF cut
<1>4. /\ disk' \in Seq(Byte)
      /\ Len(disk') = Len(disk) + k
      /\ \A i \in 1 .. Len(disk) + k :
           disk'[i] = IF i <= Len(disk) THEN disk[i] ELSE cut[i - Len(disk)]
  <2>1. cut \in Seq(Byte) /\ Len(cut) = k
    BY <1>2
  <2>2. /\ disk \o cut \in Seq(Byte)
        /\ Len(disk \o cut) = Len(disk) + Len(cut)
        /\ \A i \in 1 .. Len(disk) + Len(cut) : (disk \o cut)[i] =
                IF i <= Len(disk) THEN disk[i] ELSE cut[i - Len(disk)]
    BY <1>0, <2>1, ConcatProperties
  <2> QED BY <2>1, <2>2, <1>3
<1>5. Log' = disk'
  <2>1. Log' = disk' \o <<>>
    BY <1>3 DEF Log
  <2> QED BY <2>1, <1>4, ConcatEmptySeq
<1>6. ASSUME NEW i \in 1 .. Len(Log), i <= Len(Log') PROVE Log[i] = Log'[i]
  <2>1. Len(disk) \in Nat /\ Len(buffer) \in Nat /\ k \in Nat
        /\ Len(Log) = Len(disk) + Len(buffer)
    BY <1>0, <1>1, LenProperties, LogLength
  <2>2. CASE i <= Len(disk)
    BY <2>1, <2>2, <1>4, <1>5, <1>6, LogLength
  <2>3. CASE ~(i <= Len(disk))
    <3> DEFINE j == i - Len(disk)
    <3>1. j \in 1 .. Len(buffer) /\ j \in 1 .. k
      BY <2>1, <2>3, <1>4, <1>5, <1>6
    <3>2. Log[i] = buffer[j]
      BY <2>1, <2>3, LogLength
    <3>3. Log'[i] = cut[j]
      BY <2>1, <2>3, <1>4, <1>5, <1>6
    <3> QED BY <3>1, <3>2, <3>3, <1>1, <1>2
  <2> QED BY <2>2, <2>3
<1> QED BY <1>4, <1>5, <1>6

-----------------------------------------------------------------------------
(* Blocks held by the log stay held when the log grows or is cut beyond    *)
(* their ends.                                                             *)
LEMMA BlocksSurvive ==
    ASSUME TypeOK, BlocksIntact, Log' \in Seq(Byte),
           \A i \in 1 .. Len(Log) : i <= Len(Log') => Log[i] = Log'[i],
           NEW B, B \subseteq blocks,
           \A b \in B : BlockEnd(b) <= Len(Log')
    PROVE  \A b \in B : b \in Block /\ Holds(b, Log')
<1> SUFFICES ASSUME NEW b \in B PROVE b \in Block /\ Holds(b, Log')
  OBVIOUS
<1>1. b \in Block /\ Holds(b, Log)
  BY DEF TypeOK, BlocksIntact
<1>2. Log \in Seq(Byte)
  BY LogLength
<1> DEFINE l == Log
           m == Log'
           n == IF Len(l) <= Len(m) THEN Len(l) ELSE Len(m)
<1>3. /\ l \in Seq(Byte) /\ m \in Seq(Byte)
      /\ \A i \in 1 .. Len(l) : i <= Len(m) => l[i] = m[i]
      /\ Holds(b, l) /\ BlockEnd(b) <= Len(m)
  BY <1>1, <1>2
<1> HIDE DEF l, m
<1>4. Len(l) \in Nat /\ Len(m) \in Nat
  BY <1>3, LenProperties
<1>5. BlockEnd(b) <= Len(l)
  BY <1>3 DEF Holds
<1>6. /\ n \in Nat /\ n <= Len(l) /\ n <= Len(m) /\ BlockEnd(b) <= n
      /\ \A i \in 1 .. n : l[i] = m[i]
  BY <1>3, <1>4, <1>5
<1> HIDE DEF n
<1>7. Holds(b, m)
  BY <1>1, <1>3, <1>6, HoldsTransfers
<1> QED BY <1>1, <1>7 DEF m

(* The block a finished write returns is held by the longer log. *)
LEMMA BlockReturned ==
    ASSUME TypeOK, Counted, BlocksIntact, phase = "open",
           Log' = Log \o writing,
           blocks' = blocks \union
                       {[off |-> offset - Len(writing), data |-> writing]}
    PROVE  blocks' \subseteq Block /\ BlocksIntact'
<1>1. /\ Log \in Seq(Byte) /\ writing \in Seq(Byte)
      /\ Len(Log) = Len(disk) + Len(buffer)
  BY LogLength DEF TypeOK
<1>2. Len(Log) \in Nat /\ Len(writing) \in Nat
      /\ Len(disk) \in Nat /\ Len(buffer) \in Nat
  BY <1>1, LenProperties DEF TypeOK
<1>3. offset - Len(writing) = Len(Log)
  BY <1>1, <1>2 DEF Counted
<1>4. /\ [off |-> Len(Log), data |-> writing] \in Block
      /\ Holds([off |-> Len(Log), data |-> writing], Log \o writing)
  BY <1>1, AppendedIsHeld
<1>5. /\ Log' \in Seq(Byte) /\ Len(Log') = Len(Log) + Len(writing)
      /\ \A i \in 1 .. Len(Log) : Log[i] = Log'[i]
  <2> DEFINE l == Log
  <2>1. /\ l \in Seq(Byte) /\ writing \in Seq(Byte) /\ Len(l) \in Nat
        /\ Len(writing) \in Nat
    BY <1>1, <1>2
  <2> HIDE DEF l
  <2>2. /\ l \o writing \in Seq(Byte)
        /\ Len(l \o writing) = Len(l) + Len(writing)
        /\ \A i \in 1 .. Len(l) : (l \o writing)[i] = l[i]
    BY <2>1, ConcatProperties
  <2> QED BY <2>2 DEF l
<1>6. \A b \in blocks : BlockEnd(b) <= Len(Log')
  <2> SUFFICES ASSUME NEW b \in blocks PROVE BlockEnd(b) <= Len(Log')
    OBVIOUS
  <2>1. b \in Block /\ BlockEnd(b) <= Len(Log)
    BY DEF BlocksIntact, Holds, TypeOK
  <2>2. BlockEnd(b) \in Nat
    BY <2>1, LenProperties DEF Block, BlockEnd
  <2> QED BY <2>1, <2>2, <1>2, <1>5
<1>7. \A b \in blocks : b \in Block /\ Holds(b, Log')
  BY <1>5, <1>6, BlocksSurvive
<1> QED BY <1>3, <1>4, <1>7 DEF BlocksIntact

(* A step that leaves the log and the blocks alone keeps the blocks intact. *)
LEMMA LogUntouched ==
    ASSUME BlocksIntact, Log' = Log, blocks' = blocks
    PROVE  BlocksIntact'
BY DEF BlocksIntact

-----------------------------------------------------------------------------
LEMMA InitInvariant == Init => IInv
<1> SUFFICES ASSUME Init PROVE IInv
  OBVIOUS
<1>1. <<>> \in Seq(Byte) /\ Len(<<>>) = 0
  BY EmptySeq
<1>2. TypeOK
  BY <1>1 DEF Init, TypeOK
<1>3. Counted
  BY <1>1, SizeAssumption DEF Init, Counted
<1>4. BlocksIntact /\ FromCaller
  BY DEF Init, BlocksIntact, FromCaller
<1> QED BY <1>2, <1>3, <1>4 DEF IInv

LEMMA StepInvariant == IInv /\ [Next]_vars => IInv'
<1> SUFFICES ASSUME IInv, [Next]_vars PROVE IInv'
  OBVIOUS
<1> USE DEF IInv
<1>0. /\ disk \in Seq(Byte) /\ buffer \in Seq(Byte) /\ writing \in Seq(Byte)
      /\ Len(disk) \in Nat /\ Len(buffer) \in Nat /\ Len(writing) \in Nat
      /\ <<>> \in Seq(Byte) /\ Len(<<>>) = 0
  BY LenProperties, EmptySeq DEF TypeOK
<1>f. FromCaller'
  BY DEF FromCaller, Next, vars, Open, Reserve, StoreInBuffer, StoreAndSpill,
         Flush, Close, Crash
<1>1. CASE Open
  <2>1. AsInt(Len(disk)) = Len(disk)
    BY <1>0, SizeAssumption DEF Counted, AsInt
  <2>2. TypeOK'
    BY <1>0, <1>1, <2>1 DEF TypeOK, Open
  <2>3. Counted'
    BY <1>0, <1>1, <2>1, SizeAssumption DEF Counted, Open
  <2>4. Log' = Log /\ blocks' = blocks
    BY <1>1 DEF Open, Counted, Log
  <2> QED BY <1>f, <2>2, <2>3, <2>4, LogUntouched
<1>2. CASE \E bts \in Chunks : Reserve(bts)
  <2> PICK bts \in Chunks : Reserve(bts)
    BY <1>2
  <2>1. bts \in Seq(Byte) /\ Len(bts) \in Nat
    BY ChunkAssumption, LenProperties
  <2>2. TypeOK'
    BY <1>0, <2>1 DEF TypeOK, Reserve
  <2>3. Counted'
    BY <1>0, <2>1, SizeAssumption DEF Counted, TypeOK, Reserve
  <2>4. Log' = Log /\ blocks' = blocks
    BY DEF Reserve, Log
  <2> QED BY <1>f, <2>2, <2>3, <2>4, LogUntouched
<1>3. CASE StoreInBuffer
  <2>1. phase = "open"
    BY <1>3 DEF StoreInBuffer, Counted, TypeOK
  <2>2. /\ buffer' \in Seq(Byte)
        /\ Len(buffer') = Len(buffer) + Len(writing)
        /\ Log' = Log \o writing
    BY <1>3, StoreInBufferLog DEF StoreInBuffer
  <2>3. blocks' \subseteq Block /\ BlocksIntact'
    BY <1>3, <2>1, <2>2, BlockReturned DEF StoreInBuffer
  <2>4. TypeOK'
    BY <1>0, <1>3, <2>2, <2>3 DEF TypeOK, StoreInBuffer
  <2>5. Counted'
    BY <1>0, <1>3, <2>1, <2>2, SizeAssumption
      DEF Counted, StoreInBuffer, Overflows, TypeOK
  <2> QED BY <1>f, <2>3, <2>4, <2>5
<1>4. CASE StoreAndSpill
  <2>1. phase = "open"
    BY <1>4 DEF StoreAndSpill, Counted, TypeOK
  <2>2. /\ disk' \in Seq(Byte) /\ buffer' \in Seq(Byte)
        /\ Len(disk') = Len(disk) + BufferSize
        /\ Len(buffer') = Len(buffer) + Len(writing) - BufferSize
        /\ Log' = Log \o writing
    BY <1>4, StoreAndSpillLog
  <2>3. blocks' \subseteq Block /\ BlocksIntact'
    BY <1>4, <2>1, <2>2, BlockReturned DEF StoreAndSpill
  <2>4. TypeOK'
    BY <1>0, <1>4, <2>2, <2>3 DEF TypeOK, StoreAndSpill
  <2>5. Counted'
    <3>1. /\ Len(buffer) + Len(writing) > BufferSize
          /\ writing' = <<>> /\ offset' = offset /\ phase' = phase
      BY <1>4 DEF StoreAndSpill, Overflows
    <3>2. /\ offset = Len(disk) + Len(buffer) + Len(writing)
          /\ offset <= MaxSize
          /\ Len(buffer) <= BufferSize /\ Len(writing) <= BufferSize
      BY <2>1 DEF Counted
    <3>3. /\ BufferSize \in Nat /\ MaxSize \in Nat
          /\ Len(disk') \in Nat /\ Len(buffer') \in Nat
      BY <2>2, LenProperties, SizeAssumption
    <3>4. /\ Len(buffer') <= BufferSize
          /\ Len(disk') <= MaxSize
          /\ offset' = Len(disk') + Len(buffer') + Len(writing')
      BY <1>0, <2>2, <3>1, <3>2, <3>3
    <3> QED BY <1>0, <2>1, <3>1, <3>2, <3>3, <3>4 DEF Counted
  <2> QED BY <1>f, <2>3, <2>4, <2>5
<1>5. CASE Flush
  <2>1. /\ disk' \in Seq(Byte)
        /\ Len(disk') = Len(disk) + Len(buffer)
        /\ Log' = Log
    BY <1>5, EmptiedLog DEF Flush
  <2>2. TypeOK'
    BY <1>0, <1>5, <2>1 DEF TypeOK, Flush
  <2>3. Counted'
    BY <1>0, <1>5, <2>1, SizeAssumption DEF Counted, Flush
  <2>4. BlocksIntact'
    BY <1>5, <2>1, LogUntouched DEF Flush
  <2> QED BY <1>f, <2>2, <2>3, <2>4
<1>6. CASE Close
  <2>1. /\ disk' \in Seq(Byte)
        /\ Len(disk') = Len(disk) + Len(buffer)
        /\ Log' = Log
    BY <1>6, EmptiedLog DEF Close
  <2>2. TypeOK'
    BY <1>0, <1>6, <2>1 DEF TypeOK, Close
  <2>3. Counted'
    BY <1>0, <1>6, <2>1, SizeAssumption DEF Counted, Close
  <2>4. BlocksIntact'
    BY <1>6, <2>1, LogUntouched DEF Close
  <2> QED BY <1>f, <2>2, <2>3, <2>4
<1>7. CASE \E k \in 0 .. Len(Unwritten) : Crash(k)
  <2> PICK k \in 0 .. Len(Unwritten) : Crash(k)
    BY <1>7
  <2>1. /\ disk' \in Seq(Byte)
        /\ Len(disk') = Len(disk) + k
        /\ Log' = disk'
        /\ \A i \in 1 .. Len(Log) : i <= Len(Log') => Log[i] = Log'[i]
    BY CrashedLog
  <2>2. Len(Unwritten) \in Nat /\ Len(Unwritten) <= Len(buffer) + Len(writing)
    BY UnwrittenIsBuffered, LenProperties
  <2>3. /\ blocks' \subseteq blocks
        /\ \A b \in blocks' : BlockEnd(b) <= Len(Log')
    BY <2>1 DEF Crash
  <2>4. \A b \in blocks' : b \in Block /\ Holds(b, Log')
    BY <2>1, <2>3, BlocksSurvive
  <2>5. TypeOK'
    BY <1>0, <2>1, <2>4 DEF TypeOK, Crash
  <2>6. Counted'
    BY <1>0, <2>1, <2>2, SizeAssumption DEF Counted, Crash
  <2>7. BlocksIntact'
    BY <2>4 DEF BlocksIntact
  <2> QED BY <1>f, <2>5, <2>6, <2>7
<1>8. CASE UNCHANGED vars
  <2>1. TypeOK' /\ Counted'
    BY <1>8 DEF TypeOK, Counted, vars
  <2>2. Log' = Log /\ blocks' = blocks
    BY <1>8 DEF Log, vars
  <2> QED BY <1>f, <2>1, <2>2, LogUntouched
<1> QED BY <1>1, <1>2, <1>3, <1>4, <1>5, <1>6, <1>7, <1>8 DEF Next

LEMMA Invariance == Spec => []IInv
<1> QED BY InitInvariant, StepInvariant, PTL DEF Spec

-----------------------------------------------------------------------------
(* The fields of the stream keep their types, for every buffer size.       *)
THEOREM TypeCorrect == Spec => []TypeOK
<1>1. IInv => TypeOK
  BY DEF IInv
<1> QED BY <1>1, Invariance, PTL

(***************************************************************************)
(* Every block writeBlock has returned can be read back, at the offset it  *)
(* carries, with the bytes that were written: for every buffer size, every *)
(* chunk and every order of writes, flushes, closes, crashes, reopenings.  *)
(***************************************************************************)
THEOREM ReadBack == Spec => []BlocksIntact
<1>1. IInv => BlocksIntact
  BY DEF IInv
<1> QED BY <1>1, Invariance, PTL

(***************************************************************************)
(* The test by which FileStore.getBlocks decides not to flush is sound as  *)
(* long as getSize() is not read in the middle of a write.                 *)
(***************************************************************************)
THEOREM FlushTestIsSound == Spec => []FlushTestSound
<1>1. IInv => FlushTestSound
  <2> SUFFICES ASSUME IInv, phase = "open", writing = <<>>,
                      NEW b \in blocks, BlockEnd(b) + BufferSize <= offset
               PROVE  ReadBlock(b) = b.data
    BY DEF FlushTestSound
  <2>1. /\ disk \in Seq(Byte) /\ Log \in Seq(Byte)
        /\ Len(Log) = Len(disk) + Len(buffer)
        /\ \A i \in 1 .. Len(disk) : i \in 1 .. Len(Log) /\ Log[i] = disk[i]
    <3>1. TypeOK /\ disk \in Seq(Byte) /\ buffer \in Seq(Byte)
      BY DEF IInv, TypeOK
    <3>2. Len(disk) \in Nat /\ Len(buffer) \in Nat
      BY <3>1, LenProperties
    <3> QED BY <3>1, <3>2, LogLength
  <2>2. /\ b \in Block /\ Holds(b, Log) /\ Len(b.data) \in Nat
        /\ b.off \in Nat
    BY LenProperties DEF IInv, BlocksIntact, TypeOK, Block
  <2>3. /\ BlockEnd(b) <= Len(disk) /\ Len(disk) \in Nat
        /\ Len(disk) <= Len(Log)
    <3>1. /\ Len(disk) \in Nat /\ Len(buffer) \in Nat
          /\ Len(writing) = 0 /\ Len(Log) \in Nat
      BY <2>1, LenProperties, EmptySeq DEF IInv, TypeOK
    <3>2. offset = Len(disk) + Len(buffer) /\ Len(buffer) <= BufferSize
      BY <3>1 DEF IInv, Counted
    <3> QED BY <2>1, <2>2, <3>1, <3>2, SizeAssumption DEF BlockEnd
  <2>4. Holds(b, disk)
    <3> DEFINE l == Log
    <3>1. /\ l \in Seq(Byte) /\ disk \in Seq(Byte) /\ Len(disk) \in Nat
          /\ Len(disk) <= Len(l) /\ \A i \in 1 .. Len(disk) : l[i] = disk[i]
          /\ b \in Block /\ Holds(b, l) /\ BlockEnd(b) <= Len(disk)
      BY <2>1, <2>2, <2>3
    <3> HIDE DEF l
    <3> QED BY <3>1, HoldsTransfers
  <2> QED BY <2>3, <2>4 DEF Holds, ReadBlock
<1> QED BY <1>1, Invariance, PTL

(***************************************************************************)
(* Append only: no step of the stream changes or removes a byte that is    *)
(* already in the node file.                                               *)
(***************************************************************************)
THEOREM AppendOnly == Spec => FileOnlyGrows
<1> DEFINE Grows == Len(disk) <= Len(disk') /\ SubSeq(disk', 1, Len(disk)) = disk
<1>1. ASSUME NEW t \in Seq(Byte), NEW d \in Seq(Byte)
      PROVE  Len(d) <= Len(d \o t) /\ SubSeq(d \o t, 1, Len(d)) = d
  <2>1. /\ d \o t \in Seq(Byte) /\ Len(d \o t) = Len(d) + Len(t)
        /\ \A i \in 1 .. Len(d) : (d \o t)[i] = d[i]
        /\ Len(d) \in Nat /\ Len(t) \in Nat
    BY ConcatProperties, LenProperties
  <2> DEFINE dt == d \o t
             k == Len(d)
  <2>2. /\ dt \in Seq(Byte) /\ k \in Nat /\ k <= Len(dt) /\ k <= Len(d)
        /\ \A i \in 1 .. k : dt[i] = d[i]
    BY <2>1
  <2>3. SubSeq(dt, 1, k) = SubSeq(d, 1, k)
    <3> HIDE DEF dt, k
    <3> QED BY <2>2, CommonPrefix
  <2>4. SubSeq(d, 1, Len(d)) = d
    BY SubSeqFull
  <2> QED BY <2>1, <2>3, <2>4
<1>2. IInv /\ [Next]_vars => [Grows]_vars
  <2> SUFFICES ASSUME IInv, Next PROVE Grows
    BY DEF vars
  <2>0. /\ disk \in Seq(Byte) /\ buffer \in Seq(Byte)
        /\ Len(disk) \in Nat /\ SubSeq(disk, 1, Len(disk)) = disk
    BY SubSeqFull, LenProperties DEF IInv, TypeOK
  <2>1. CASE disk' = disk
    BY <2>0, <2>1
  <2>2. CASE \E t \in Seq(Byte) : disk' = disk \o t
    BY <2>0, <2>2, <1>1
  <2>3. CASE StoreAndSpill
    <3>1. Unwritten \in Seq(Byte)
      BY UnwrittenIsBuffered DEF IInv
    <3> QED BY <2>2, <2>3, <3>1 DEF StoreAndSpill
  <2>4. CASE Flush \/ Close
    BY <2>0, <2>2, <2>4 DEF Flush, Close
  <2>5. CASE \E k \in 0 .. Len(Unwritten) : Crash(k)
    <3> PICK k \in 0 .. Len(Unwritten) : Crash(k)
      BY <2>5
    <3>1. SubSeq(Unwritten, 1, k) \in Seq(Byte)
      BY UnwrittenIsBuffered, PrefixElements DEF IInv
    <3> QED BY <2>2, <3>1 DEF Crash
  <2>6. CASE Open \/ (\E bts \in Chunks : Reserve(bts)) \/ StoreInBuffer
    BY <2>1, <2>6 DEF Open, Reserve, StoreInBuffer
  <2> QED BY <2>3, <2>4, <2>5, <2>6 DEF Next
<1>3. Spec => [][Grows]_vars
  BY <1>2, Invariance, PTL DEF Spec
<1> QED BY <1>3 DEF FileOnlyGrows

-----------------------------------------------------------------------------
(* What a crash does to the log, as one of the abstract log's two losses. *)
LEMMA CrashRefines ==
    ASSUME IInv, NEW k \in 0 .. Len(Unwritten), Crash(k)
    PROVE  Abstract!Lose \/ \E c \in Chunks : Abstract!Torn(c)
<1> USE DEF IInv
<1>1. /\ disk' \in Seq(Byte) /\ Len(disk') = Len(disk) + k /\ Log' = disk'
      /\ \A i \in 1 .. Len(Log) : i <= Len(Log') => Log[i] = Log'[i]
  BY CrashedLog
<1>2. /\ Log \in Seq(Byte) /\ Len(Log) = Len(disk) + Len(buffer)
      /\ Len(disk) \in Nat /\ Len(buffer) \in Nat /\ k \in Nat
      /\ disk \in Seq(Byte) /\ buffer \in Seq(Byte) /\ writing \in Seq(Byte)
  BY LogLength, UnwrittenIsBuffered, LenProperties DEF TypeOK
<1>3. CASE k <= Len(buffer)
  <2> DEFINE n == Len(disk) + k
             m == Log'
             l == Log
             p == SubSeq(l, 1, n)
  <2>1. n \in 0 .. Len(l) /\ l \in Seq(Byte)
    BY <1>2, <1>3
  <2>2. p \in Seq(Byte) /\ Len(p) = n /\ \A i \in 1 .. n : p[i] = l[i]
    <3> HIDE DEF n, l
    <3> QED BY <2>1, PrefixElements
  <2>3. m \in Seq(Byte) /\ Len(m) = n /\ \A i \in 1 .. n : m[i] = l[i]
    BY <1>1, <1>2, <2>1
  <2>4. m = p
    <3> HIDE DEF m, p
    <3> QED BY <2>2, <2>3, SeqEqual
  <2>5. n \in Len(disk) .. Len(Log) /\ Len(disk)' = n
    BY <1>1, <1>2, <1>3
  <2>6. blocks' = {b \in blocks : Abstract!End(b) <= n}
    BY DEF Crash, BlockEnd, Abstract!End
  <2> QED BY <2>4, <2>5, <2>6 DEF Abstract!Lose
<1>4. CASE ~(k <= Len(buffer))
  <2>1. Overflows
    BY <1>2, <1>4, UnwrittenIsBuffered DEF Unwritten
  <2> DEFINE n == k - Len(buffer)
             w0 == SubSeq(writing, 1, Room)
             wn == SubSeq(writing, 1, n)
             cut == SubSeq(Unwritten, 1, k)
  <2>2. /\ Room \in 0 .. Len(writing) /\ w0 \in Seq(Byte) /\ Len(w0) = Room
        /\ Unwritten = buffer \o w0 /\ Unwritten \in Seq(Byte)
        /\ Len(Unwritten) = BufferSize
    BY <2>1, OverflowSizes
  <2>3. n \in 1 .. Room /\ n \in 1 .. Len(writing) /\ Len(writing) \in Nat
    BY <1>2, <1>4, <2>2, LenProperties, SizeAssumption DEF Room
  <2>4. \A i \in 1 .. Room : w0[i] = writing[i]
    BY <1>2, <2>2, PrefixElements
  <2>5. wn \in Seq(Byte) /\ Len(wn) = n /\ \A i \in 1 .. n : wn[i] = writing[i]
    <3> HIDE DEF n
    <3> QED BY <1>2, <2>3, PrefixElements
  <2>6. /\ cut \in Seq(Byte) /\ Len(cut) = k
        /\ \A i \in 1 .. k : cut[i] = Unwritten[i]
    BY <2>2, PrefixElements
  <2>7. /\ buffer \o wn \in Seq(Byte) /\ Len(buffer \o wn) = k
        /\ \A i \in 1 .. k : (buffer \o wn)[i] =
             IF i <= Len(buffer) THEN buffer[i] ELSE wn[i - Len(buffer)]
    <3>1. wn \in Seq(Byte) /\ Len(buffer) + Len(wn) = k
      BY <1>2, <2>5
    <3> HIDE DEF wn
    <3> QED BY <1>2, <3>1, ConcatProperties
  <2>8. \A i \in 1 .. k : cut[i] = (buffer \o wn)[i]
    <3> SUFFICES ASSUME NEW i \in 1 .. k PROVE cut[i] = (buffer \o wn)[i]
      OBVIOUS
    <3>1. Unwritten[i] = IF i <= Len(buffer) THEN buffer[i]
                                             ELSE w0[i - Len(buffer)]
      <4>1. i \in 1 .. Len(buffer) + Len(w0)
        BY <1>2, <2>2, <2>3
      <4>2. w0 \in Seq(Byte) /\ Unwritten = buffer \o w0
        BY <2>2
      <4> HIDE DEF w0
      <4> QED BY <1>2, <4>1, <4>2, ConcatProperties
    <3>2. CASE i <= Len(buffer)
      BY <3>1, <3>2, <2>6, <2>7
    <3>3. CASE ~(i <= Len(buffer))
      <4> DEFINE j == i - Len(buffer)
      <4>1. j \in 1 .. n /\ j \in 1 .. Room
        BY <1>2, <2>2, <2>3, <3>3
      <4>2. cut[i] = w0[j] /\ (buffer \o wn)[i] = wn[j]
        BY <3>1, <3>3, <2>6, <2>7
      <4> HIDE DEF j, w0, wn, cut
      <4> QED BY <4>1, <4>2, <2>4, <2>5
    <3> QED BY <3>2, <3>3
  <2>9. cut = buffer \o wn
    <3> DEFINE bw == buffer \o wn
    <3>1. /\ cut \in Seq(Byte) /\ bw \in Seq(Byte) /\ Len(cut) = Len(bw)
          /\ \A i \in 1 .. Len(cut) : cut[i] = bw[i]
      BY <2>6, <2>7, <2>8
    <3> HIDE DEF cut, bw
    <3>2. cut = bw
      BY <3>1, SeqEqual
    <3> QED BY <3>2 DEF bw
  <2>10. Log' = Log \o wn
    <3>1. Log' = disk \o (buffer \o wn)
      BY <1>1, <2>9 DEF Crash
    <3>2. disk \in Seq(Byte) /\ buffer \in Seq(Byte) /\ wn \in Seq(Byte)
      BY <1>2, <2>5
    <3> HIDE DEF wn
    <3>3. (disk \o buffer) \o wn = disk \o (buffer \o wn)
      BY ONLY <3>2, ConcatAssociative
    <3> QED BY <3>1, <3>3 DEF Log
  <2>11. blocks' = blocks
    <3>1. \A b \in blocks : BlockEnd(b) <= Len(Log) /\ BlockEnd(b) \in Nat
      BY LenProperties DEF BlocksIntact, Holds, TypeOK, Block, BlockEnd
    <3>2. \A b \in blocks : BlockEnd(b) <= Len(disk) + k
      BY <1>2, <1>4, <3>1
    <3> QED BY <3>2 DEF Crash
  <2>12. writing \in Chunks
    <3>1. writing # <<>>
      BY <2>3, EmptySeq
    <3> QED BY <3>1 DEF FromCaller
  <2>13. Abstract!Torn(writing)
    <3>1. Len(disk)' = Len(Log')
      BY <1>1
    <3> QED BY <2>3, <2>10, <2>11, <3>1 DEF Abstract!Torn
  <2> QED BY <2>12, <2>13
<1> QED BY <1>3, <1>4

(* A finished write is one Accept of the abstract log. *)
LEMMA StoreRefines ==
    ASSUME IInv, writing # <<>>, Len(disk') \in Len(disk) .. Len(Log'),
           Log' = Log \o writing,
           blocks' = blocks \union
                       {[off |-> offset - Len(writing), data |-> writing]}
    PROVE  \E c \in Chunks : Abstract!Accept(c)
<1> USE DEF IInv
<1>1. writing \in Chunks
  BY DEF FromCaller
<1>2. offset - Len(writing) = Len(Log)
  <2>1. phase = "open"
    BY DEF Counted, TypeOK
  <2>2. Len(disk) \in Nat /\ Len(buffer) \in Nat /\ Len(writing) \in Nat
    BY LenProperties DEF TypeOK
  <2> QED BY <2>1, <2>2, LogLength DEF Counted
<1>3. Abstract!Accept(writing)
  BY <1>2 DEF Abstract!Accept
<1> QED BY <1>1, <1>3

(***************************************************************************)
(* BlockOutputStream implements the append-only log.                       *)
(***************************************************************************)
THEOREM Refinement == Spec => ImplementsLog
<1>1. Init => Abstract!LogInit
  <2> SUFFICES ASSUME Init PROVE Abstract!LogInit
    OBVIOUS
  <2>1. Log = <<>> /\ Len(disk) = 0
    BY EmptySeq, ConcatEmptySeq DEF Init, Log
  <2> QED BY <2>1 DEF Init, Abstract!LogInit
<1>2. IInv /\ [Next]_vars => [Abstract!LogNext]_(Abstract!logVars)
  <2> SUFFICES ASSUME IInv, [Next]_vars
               PROVE  [Abstract!LogNext]_(Abstract!logVars)
    OBVIOUS
  <2>0. /\ disk \in Seq(Byte) /\ buffer \in Seq(Byte) /\ writing \in Seq(Byte)
        /\ Len(disk) \in Nat /\ Len(buffer) \in Nat /\ Len(writing) \in Nat
    BY LenProperties DEF IInv, TypeOK
  <2>1. CASE Log' = Log /\ disk' = disk /\ blocks' = blocks
    BY <2>1 DEF Abstract!logVars
  <2>2. CASE Open
    BY <2>1, <2>2 DEF Open, IInv, Counted, Log
  <2>3. CASE (\E bts \in Chunks : Reserve(bts)) \/ UNCHANGED vars
    BY <2>1, <2>3 DEF Reserve, Log, vars
  <2>4. CASE StoreInBuffer
    <3>1. Log' = Log \o writing
      BY <2>4, StoreInBufferLog DEF IInv
    <3>2. Len(disk') \in Len(disk) .. Len(Log')
      <4>1. disk' = disk /\ buffer' = buffer \o writing
        BY <2>4 DEF StoreInBuffer
      <4>2. Len(Log') = Len(disk) + Len(buffer) + Len(writing)
        BY <3>1, LogGrowth DEF IInv
      <4> QED BY <2>0, <4>1, <4>2
    <3> QED BY <2>4, <3>1, <3>2, StoreRefines DEF StoreInBuffer, Abstract!LogNext
  <2>5. CASE StoreAndSpill
    <3>1. /\ Log' = Log \o writing /\ Len(disk') = Len(disk) + BufferSize
          /\ Len(buffer') = Len(buffer) + Len(writing) - BufferSize
          /\ buffer' \in Seq(Byte)
      BY <2>5, StoreAndSpillLog DEF IInv
    <3>2. Len(disk') \in Len(disk) .. Len(Log')
      <4>1. Len(Log') = Len(disk) + Len(buffer) + Len(writing)
        BY <3>1, LogGrowth DEF IInv
      <4>2. Len(buffer') \in Nat
        BY <3>1, LenProperties
      <4> QED BY <2>0, <3>1, <4>1, <4>2, SizeAssumption
    <3> QED BY <2>5, <3>1, <3>2, StoreRefines DEF StoreAndSpill, Abstract!LogNext
  <2>6. CASE Flush \/ Close
    <3>1. disk' = disk \o buffer /\ buffer' = <<>> /\ blocks' = blocks
      BY <2>6 DEF Flush, Close
    <3>2. Len(disk') = Len(disk) + Len(buffer) /\ Log' = Log
      BY <3>1, EmptiedLog DEF IInv
    <3>3. Len(disk') \in Len(disk) .. Len(Log)
      BY <2>0, <3>2, LogLength DEF IInv
    <3> QED BY <3>1, <3>2, <3>3 DEF Abstract!Sync, Abstract!LogNext
  <2>7. CASE \E k \in 0 .. Len(Unwritten) : Crash(k)
    BY <2>7, CrashRefines DEF Abstract!LogNext
  <2> QED BY <2>2, <2>3, <2>4, <2>5, <2>6, <2>7 DEF Next
<1> QED BY <1>1, <1>2, Invariance, PTL DEF Spec, ImplementsLog, Abstract!LogSpec

=============================================================================
