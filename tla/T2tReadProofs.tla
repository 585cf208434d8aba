---------------------------- MODULE T2tReadProofs ----------------------------
(***************************************************************************)
(* Proofs about the Type 2 reader, for every width of a byte, every size   *)
(* of block, area and buffer and every tag: no index leaves the buffer,    *)
(* the buffer holds the tag's memory, address by address, and the walk     *)
(* reports the message that was written, whole and nothing else.           *)
(***************************************************************************)
EXTENDS T2tRead, SequenceTheorems, WellFoundedInduction, TLAPS

Bytes == 0..Base - 1

\* While the area is read, the buffer ends where the next block begins, or it
\* is full.
InStep ==
  /\ tpc = "cc" => data_buf = <<>>
  /\ tpc \in {"cc", "read"} /\ ~short =>
       \/ got = (block - 4) * BlockLen
       \/ tpc = "read" /\ got = buf_cap

IInv == tag \in Tags /\ TypeOK /\ InStep /\ BufferIsMemory

\* The blocks read follow each other, and the loop is left early only when a
\* READ fails: then all that can be read was read.
Reads == (MaxBlock - 4) \div 4 + 1

AllRead ==
  /\ tpc \in {"read", "walk"} => buf_cap = BufCap(tag.size)
  /\ \E k \in 0..Reads - 1 : block = 4 + 4 * k
  /\ tpc = "read" /\ ~short => got <= (block - 4) * BlockLen
  /\ tpc = "walk" /\ ~short /\ ~rfFailed => got = Readable

\* The walk is at a TLV, with no message and no terminator before it, or
\* behind all of them, where the memory holds zeros.
Passed(i) == \A j \in 1..i - 1 : tag.tlvs[j].type \notin {NdefTag, Terminator}

AtTlv ==
  \/ \E i \in 1..Len(tag.tlvs) : p = tag.at[i] /\ Passed(i)
  \/ p >= Len(tag.mem) /\ Passed(Len(tag.tlvs) + 1)

Walked ==
  /\ AllRead
  /\ tpc # "done" => ndef = <<>>
  /\ tpc \in {"cc", "read"} => p = 0
  /\ tpc # "done" /\ ~short => AtTlv
  /\ OnlyTheMessage
  /\ MessageFound

-----------------------------------------------------------------------------
(* Lemmas about sequences and numbers.                                     *)

LEMMA Sizes ==
  /\ Base \in Nat /\ Base > 5
  /\ BlockLen \in Nat /\ BlockLen > 0
  /\ MaxBlock \in Nat /\ MaxBlock >= 4
  /\ TxBufSize \in Nat /\ TxBufSize > 0
BY T2tAssumption

\* A piece of a sequence that begins at address a.
LEMMA Piece ==
  ASSUME NEW S, NEW s \in Seq(S), NEW a \in Nat, NEW n \in Nat, a + n <= Len(s)
  PROVE  /\ SubSeq(s, a + 1, a + n) \in Seq(S)
         /\ Len(SubSeq(s, a + 1, a + n)) = n
         /\ \A i \in 1..n : SubSeq(s, a + 1, a + n)[i] = s[a + i]
<1>1. \A i \in a + 1..a + n : s[i] \in S
  OBVIOUS
<1>2. /\ SubSeq(s, a + 1, a + n) \in Seq(S)
      /\ Len(SubSeq(s, a + 1, a + n))
           = IF a + 1 <= a + n THEN (a + n) - (a + 1) + 1 ELSE 0
      /\ \A i \in 1..(a + n) - (a + 1) + 1 :
           SubSeq(s, a + 1, a + n)[i] = s[(a + 1) + i - 1]
  BY <1>1, SubSeqProperties
<1>3. (a + n) - (a + 1) + 1 = n
  OBVIOUS
<1>4. \A i \in 1..n : (a + 1) + i - 1 = a + i
  OBVIOUS
<1> QED
  BY <1>2, <1>3, <1>4

\* A number of two digits to the base b.
LEMMA TwoDigits ==
  ASSUME NEW b \in Nat, b > 5, NEW x \in 0..b - 1, NEW y \in 0..b - 1
  PROVE  x * b + y \in 0..b * b - 1 /\ b * b \in Nat /\ b <= b * b
<1>1. x * b \in Nat /\ b * b \in Nat
  BY SMT
<1>2. (b - 1 - x) * b \in Nat
  <2>1. b - 1 - x \in Nat
    OBVIOUS
  <2> QED
    BY <2>1, SMT
<1>3. (b - 1 - x) * b = b * b - b - x * b
  BY SMT
<1>4. (b - 1) * b \in Nat /\ (b - 1) * b = b * b - b
  BY SMT
<1> QED
  BY <1>1, <1>2, <1>3, <1>4, SMT

-----------------------------------------------------------------------------
(* What the operators return.                                              *)

LEMMA BufCapFits == ASSUME NEW n \in Nat PROVE BufCap(n) \in 0..TxBufSize
<1>1. n * AreaUnit \in Nat
  BY T2tAssumption, SMT
<1> QED
  BY <1>1, Sizes, SMT DEF BufCap

LEMMA MemoryIsBytes ==
  ASSUME tag \in Tags, NEW a \in Nat \ {0}
  PROVE  Memory(a) \in Bytes
<1>1. tag.mem \in Seq(Bytes)
  BY T2tAssumption DEF Bytes
<1>2. 0 \in Bytes
  BY Sizes DEF Bytes
<1> QED
  BY <1>1, <1>2 DEF Memory

\* The part of an answer that is kept.
LEMMA Kept ==
  ASSUME tag \in Tags, NEW b \in 4..MaxBlock, NEW n \in Nat, NEW k \in 0..n
  PROVE  /\ SubSeq(Answer(b, n), 1, k) \in Seq(Bytes)
         /\ Len(SubSeq(Answer(b, n), 1, k)) = k
         /\ \A i \in 1..k :
              SubSeq(Answer(b, n), 1, k)[i] = Memory((b - 4) * BlockLen + i)
<1>1. (b - 4) * BlockLen \in Nat
  <2>1. b - 4 \in Nat
    BY Sizes
  <2> QED
    BY <2>1, Sizes, SMT
<1>2. \A i \in 1..n : Memory((b - 4) * BlockLen + i) \in Bytes
  <2>1. ASSUME NEW i \in 1..n PROVE Memory((b - 4) * BlockLen + i) \in Bytes
    <3>1. (b - 4) * BlockLen + i \in Nat \ {0}
      BY <1>1
    <3> QED
      BY <3>1, MemoryIsBytes
  <2> QED
    BY <2>1
<1>3. Answer(b, n) \in Seq(Bytes) /\ Len(Answer(b, n)) = n
  BY <1>2 DEF Answer
<1>4. /\ SubSeq(Answer(b, n), 0 + 1, 0 + k) \in Seq(Bytes)
      /\ Len(SubSeq(Answer(b, n), 0 + 1, 0 + k)) = k
      /\ \A i \in 1..k : SubSeq(Answer(b, n), 0 + 1, 0 + k)[i] = Answer(b, n)[0 + i]
  BY <1>3, Piece
<1>5. 0 + 1 = 1 /\ 0 + k = k /\ \A i \in 1..k : 0 + i = i /\ i \in 1..n
  OBVIOUS
<1>6. \A i \in 1..k : Answer(b, n)[i] = Memory((b - 4) * BlockLen + i)
  BY <1>5 DEF Answer
<1> QED
  BY <1>4, <1>5, <1>6

\* A length field lies inside what was read, and so does the value's first
\* byte, or it ends there.
LEMMA LengthInside ==
  ASSUME data_buf \in Seq(Bytes), NEW q \in Nat
  PROVE  Length(q).ok =>
           /\ Length(q).value \in Nat /\ Length(q).value <= got
           /\ Length(q).value > q
           /\ Length(q).len \in 0..Base * Base - 1
<1>1. got \in Nat
  BY DEF got
<1>2. \A i \in 0..got - 1 : Byte(i) \in Bytes
  BY DEF Byte, got
<1>3. CASE q >= got
  BY <1>3 DEF Length
<1>4. CASE q < got /\ Byte(q) # LongForm
  <2>1. Byte(q) \in Bytes
    BY <1>1, <1>2, <1>4
  <2>2. 0 \in 0..Base - 1 /\ Base * Base \in Nat /\ Base <= Base * Base
    BY Sizes, TwoDigits
  <2>3. Byte(q) \in 0..Base * Base - 1
    BY <2>1, <2>2, Sizes DEF Bytes
  <2>4. Length(q) = [ok |-> TRUE, len |-> Byte(q), value |-> q + 1]
    BY <1>1, <1>4 DEF Length
  <2> QED
    BY <1>1, <1>4, <2>3, <2>4
<1>5. CASE q < got /\ Byte(q) = LongForm /\ q + 3 > got
  BY <1>1, <1>5 DEF Length
<1>6. CASE q < got /\ Byte(q) = LongForm /\ q + 3 <= got
  <2>1. Byte(q + 1) \in 0..Base - 1 /\ Byte(q + 2) \in 0..Base - 1
    BY <1>1, <1>2, <1>6 DEF Bytes
  <2>2. Byte(q + 1) * Base + Byte(q + 2) \in 0..Base * Base - 1
    BY <2>1, Sizes, TwoDigits
  <2>3. Length(q) = [ok |-> TRUE, len |-> Byte(q + 1) * Base + Byte(q + 2),
                     value |-> q + 3]
    BY <1>1, <1>6 DEF Length
  <2> QED
    BY <1>6, <2>2, <2>3
<1> QED
  BY <1>1, <1>3, <1>4, <1>5, <1>6

-----------------------------------------------------------------------------
(* The invariant.                                                          *)

LEMMA InitInv == Init => IInv
<1> SUFFICES ASSUME Init PROVE IInv
  OBVIOUS
<1>1. /\ tpc = "cc" /\ tag \in Tags /\ ndef_cap \in Caps /\ buf_cap = 0
      /\ data_buf = <<>> /\ block = 4 /\ p = 0 /\ ndef = <<>> /\ st = "RS_OK"
      /\ rfFailed = FALSE /\ short = FALSE
  BY DEF Init
<1>2. ndef_cap \in Nat /\ Base * Base \in Nat
  BY <1>1, T2tAssumption, SMT
<1>3. got = 0 /\ got = (block - 4) * BlockLen
  BY <1>1, Sizes DEF got
<1>4. TypeOK
  <2>1. <<>> \in Seq(0..Base - 1) /\ Len(<<>>) = 0
    OBVIOUS
  <2>2. 0 \in 0..TxBufSize /\ 4 \in 4..MaxBlock /\ 0 \in 0..0 + Base * Base
    BY <1>2, Sizes
  <2>3. 0 <= ndef_cap /\ 0 <= 0
    BY <1>2
  <2> QED
    BY <1>1, <2>1, <2>2, <2>3 DEF TypeOK
<1> QED
  BY <1>1, <1>3, <1>4 DEF IInv, InStep, BufferIsMemory

LEMMA ReadCCInv ==
  ASSUME IInv, ReadCC
  PROVE  IInv'
<1> USE DEF IInv, TypeOK
<1>1. tpc = "cc" /\ data_buf = <<>> /\ UNCHANGED <<tag, ndef_cap, data_buf, block, p, ndef, rfVars>>
  BY DEF ReadCC, InStep
<1>2. tag.size \in Nat
  BY T2tAssumption
<1>3. tpc' \in {"read", "done"} /\ st' \in {"RS_OK", "RS_ERR_NOT_FOUND"}
  BY DEF ReadCC
<1>4. buf_cap' \in 0..TxBufSize
  BY <1>2, BufCapFits DEF ReadCC
<1>5. TypeOK'
  BY <1>1, <1>3, <1>4 DEF rfVars
<1>6. InStep' /\ BufferIsMemory'
  BY <1>1, <1>3 DEF InStep, BufferIsMemory, got, Memory, rfVars
<1> QED
  BY <1>1, <1>5, <1>6

\* A READ that is answered.
LEMMA AnswerInv ==
  ASSUME IInv, ReadBlock, NEW n \in AnswerLens,
         data_buf' = data_buf \o SubSeq(Answer(block, n), 1, Take(n)),
         \/ block + 4 > MaxBlock /\ tpc' = "walk" /\ block' = block
         \/ block + 4 <= MaxBlock /\ block' = NextBlock(block) /\ tpc' = tpc,
         short' = (short \/ n < ReadLen), rfFailed' = rfFailed
  PROVE  IInv'
<1> USE DEF IInv, TypeOK
<1> DEFINE piece == SubSeq(Answer(block, n), 1, Take(n))
<1>1. /\ tpc = "read" /\ got < buf_cap
      /\ UNCHANGED <<tag, ndef_cap, buf_cap, p, ndef, st>>
  BY DEF ReadBlock
<1>2. got \in Nat /\ buf_cap \in Nat /\ BlockLen \in Nat /\ BlockLen > 0 /\ ReadLen = 4 * BlockLen
  BY Sizes DEF got, ReadLen
<1>3. n \in Nat /\ n <= ReadLen /\ Take(n) \in 0..n
      /\ Take(n) = (IF got + n > buf_cap THEN buf_cap - got ELSE n)
  BY <1>1, <1>2 DEF AnswerLens, Take
<1>4. /\ piece \in Seq(Bytes) /\ Len(piece) = Take(n)
      /\ \A i \in 1..Take(n) : piece[i] = Memory((block - 4) * BlockLen + i)
  BY <1>3, Kept
<1>5. /\ data_buf' \in Seq(Bytes) /\ got' = got + Take(n)
      /\ \A i \in 1..got + Take(n) :
           data_buf'[i] = IF i <= got THEN data_buf[i] ELSE piece[i - got]
  BY <1>4, ConcatProperties DEF got, Bytes
<1>6. got' \in Nat /\ got' <= buf_cap /\ got <= got'
  <2>1. CASE got + n > buf_cap
    <3>1. got' = got + (buf_cap - got)
      BY <1>3, <1>5, <2>1
    <3> QED
      BY <1>1, <1>2, <3>1
  <2>2. CASE ~(got + n > buf_cap)
    <3>1. got' = got + n
      BY <1>3, <1>5, <2>2
    <3> QED
      BY <1>2, <1>3, <2>2, <3>1
  <2> QED
    BY <2>1, <2>2
<1>7. block' \in 4..MaxBlock /\ tpc' \in {"read", "walk"}
  BY <1>1, Sizes DEF NextBlock
<1>8. TypeOK'
  <2>1. short' \in BOOLEAN /\ rfFailed' \in BOOLEAN
    OBVIOUS
  <2>2. Base * Base \in Nat
    BY Sizes, SMT
  <2>3. p' \in 0..got' + Base * Base
    BY <1>1, <1>2, <1>5, <1>6, <2>2 DEF got
  <2> QED
    BY <1>1, <1>5, <1>6, <1>7, <2>1, <2>3 DEF got, Bytes
<1>9. CASE short'
  BY <1>1, <1>7, <1>8, <1>9 DEF InStep, BufferIsMemory
<1>10. CASE ~short'
  <2>1. ~short /\ n = ReadLen
    <3>1. ~short /\ ~(n < ReadLen)
      BY <1>10, Zenon
    <3>2. ReadLen \in Nat
      BY <1>2
    <3> QED
      BY <1>3, <3>1, <3>2
  <2>2. got = (block - 4) * BlockLen
    BY <1>1, <1>2, <2>1 DEF InStep
  <2>3. Memory(0 + 0)' = Memory(0 + 0) /\ \A i : Memory(i)' = Memory(i)
    BY <1>1 DEF Memory
  <2>4. BufferIsMemory'
    <3>1. ASSUME NEW i \in 1..got' PROVE data_buf'[i] = Memory(i)
      <4> HIDE DEF piece
      <4>0. i \in Nat /\ i >= 1 /\ i \in 1..got + Take(n)
        BY <1>5, <1>6
      <4>1. CASE i <= got
        <5>1. data_buf'[i] = data_buf[i]
          BY <1>5, <4>0, <4>1
        <5>2. i \in 1..got
          BY <1>2, <4>0, <4>1
        <5> QED
          BY <2>1, <5>1, <5>2 DEF BufferIsMemory
      <4>2. CASE ~(i <= got)
        <5>1. i - got \in 1..Take(n)
          BY <1>2, <1>3, <4>0, <4>2
        <5>2. data_buf'[i] = piece[i - got]
          BY <1>5, <4>0, <4>2
        <5>3. piece[i - got] = Memory((block - 4) * BlockLen + (i - got))
          BY <1>4, <5>1
        <5>4. (block - 4) * BlockLen + (i - got) = i
          <6>1. got + (i - got) = i
            BY <1>2, <4>0
          <6> QED
            BY <2>2, <6>1
        <5> QED
          BY <5>2, <5>3, <5>4
      <4> QED
        BY <4>1, <4>2
    <3> QED
      BY <2>3, <3>1 DEF BufferIsMemory
  <2>5. InStep'
    <3>1. CASE tpc' = "walk"
      BY <3>1 DEF InStep
    <3>2. CASE tpc' = "read" /\ block' = block + 4
      <4>1. CASE got + n > buf_cap
        BY <1>1, <1>2, <1>3, <1>5, <3>2, <4>1 DEF InStep
      <4>2. CASE ~(got + n > buf_cap)
        <5>1. got' = (block - 4) * BlockLen + 4 * BlockLen
          BY <1>2, <1>3, <1>5, <2>1, <2>2, <4>2
        <5>2. (block + 4 - 4) * BlockLen = (block - 4) * BlockLen + 4 * BlockLen
          <6>1. block \in Int
            BY Sizes
          <6> QED
            BY <6>1, <1>2, SMT
        <5> QED
          BY <3>2, <5>1, <5>2 DEF InStep
      <4> QED
        BY <4>1, <4>2
    <3> QED
      BY <1>1, <1>7, <3>1, <3>2 DEF NextBlock
  <2> QED
    BY <1>1, <1>8, <2>4, <2>5
<1> QED
  BY <1>9, <1>10

LEMMA ReadBlockInv ==
  ASSUME IInv, ReadBlock
  PROVE  IInv'
<1>1. CASE tpc' = "walk" /\ rfFailed' = TRUE /\ UNCHANGED <<data_buf, block, short>>
  <2>1. UNCHANGED <<tag, ndef_cap, buf_cap, p, ndef, st>>
    BY DEF ReadBlock
  <2> QED
    BY <1>1, <2>1 DEF IInv, TypeOK, InStep, BufferIsMemory, got, Memory
<1>2. ASSUME NEW n \in AnswerLens,
             data_buf' = data_buf \o SubSeq(Answer(block, n), 1, Take(n)),
             \/ block + 4 > MaxBlock /\ tpc' = "walk" /\ block' = block
             \/ block + 4 <= MaxBlock /\ block' = NextBlock(block) /\ tpc' = tpc,
             short' = (short \/ n < ReadLen), rfFailed' = rfFailed
      PROVE  IInv'
  BY <1>2, AnswerInv
<1> QED
  BY <1>1, <1>2 DEF ReadBlock

\* The message copied is a piece of the buffer, within the caller's limit.
LEMMA CopyInside ==
  ASSUME data_buf \in Seq(Bytes), ndef_cap \in Nat,
         NEW value \in Nat, value <= got, NEW len \in Nat, CopyMessage(value, len)
  PROVE  ndef' \in Seq(Bytes) /\ Len(ndef') <= ndef_cap
<1> DEFINE l == Smaller(len, got - value)
           k == Smaller(l, ndef_cap)
<1>1. got \in Nat /\ got = Len(data_buf)
  BY DEF got
<1>2. l \in Nat /\ l <= got - value
  BY <1>1 DEF Smaller
<1>3. k \in Nat /\ k <= ndef_cap /\ value + k <= Len(data_buf)
  BY <1>1, <1>2 DEF Smaller
<1>4. ndef' = SubSeq(data_buf, value + 1, value + k)
  BY DEF CopyMessage
<1> QED
  BY SMTT(60), <1>3, <1>4, Piece

LEMMA WalkInv ==
  ASSUME IInv, WalkTLV
  PROVE  IInv'
<1> USE DEF IInv, TypeOK
<1>1. tpc = "walk" /\ UNCHANGED <<tag, ndef_cap, buf_cap, data_buf, block, st, rfVars>>
  BY DEF WalkTLV
<1>2. got \in Nat /\ p \in Nat /\ ndef_cap \in Nat
  BY T2tAssumption DEF got
<1>3. Base * Base \in Nat /\ Base <= Base * Base
  <2>1. 0 \in 0..Base - 1
    BY Sizes
  <2> QED
    BY <2>1, Sizes, TwoDigits
<1>4. tpc' \in {"walk", "done"}
  BY <1>1 DEF WalkTLV, NothingFound
<1>5. p' \in 0..got + Base * Base /\ ndef' \in Seq(Bytes) /\ Len(ndef') <= ndef_cap
  <2>0. p \in 0..got + Base * Base /\ ndef \in Seq(Bytes) /\ Len(ndef) <= ndef_cap
    BY SMTT(60) DEF got, Bytes
  <2>1. CASE p' = p /\ ndef' = ndef
    BY <2>0, <2>1, SMTT(60)
  <2>2. CASE p < got /\ p' = p + 1 /\ ndef' = ndef
    BY <1>2, <1>3, <2>2, Sizes DEF Bytes
  <2>3. CASE /\ p < got /\ Length(p + 1).ok /\ p' = p
             /\ CopyMessage(Length(p + 1).value, Length(p + 1).len)
    <3>1. p + 1 \in Nat /\ data_buf \in Seq(Bytes)
      BY <1>2 DEF Bytes
    <3>2. /\ Length(p + 1).value \in Nat /\ Length(p + 1).value <= got
          /\ Length(p + 1).len \in 0..Base * Base - 1
      BY <2>3, <3>1, LengthInside
    <3>3. Length(p + 1).len \in Nat
      BY <1>3, <3>2
    <3>4. ndef' \in Seq(Bytes) /\ Len(ndef') <= ndef_cap
      BY <1>2, <2>3, <3>1, <3>2, <3>3, CopyInside
    <3> QED
      BY <2>3, <3>4 DEF got
  <2>4. CASE /\ p < got /\ Length(p + 1).ok /\ ndef' = ndef
             /\ p' = Length(p + 1).value + Length(p + 1).len
    <3>1. p + 1 \in Nat /\ data_buf \in Seq(Bytes)
      BY <1>2 DEF Bytes
    <3>2. /\ Length(p + 1).value \in Nat /\ Length(p + 1).value <= got
          /\ Length(p + 1).len \in 0..Base * Base - 1
      BY <2>4, <3>1, LengthInside
    <3> DEFINE v == Length(p + 1).value
               len == Length(p + 1).len
    <3>3. v + len \in 0..got + Base * Base
      <4> HIDE DEF v, len
      <4>1. v \in Nat /\ v <= got /\ len \in Nat /\ len <= Base * Base
        BY <1>3, <3>2 DEF v, len
      <4> QED
        BY <1>2, <1>3, <4>1
    <3> QED
      BY <2>4, <3>3 DEF Bytes
  <2> QED
    BY <2>1, <2>2, <2>3, <2>4 DEF WalkTLV, NothingFound
<1>6. TypeOK'
  BY <1>1, <1>4, <1>5 DEF got, Bytes, rfVars
<1>7. InStep' /\ BufferIsMemory'
  BY <1>1, <1>4 DEF InStep, BufferIsMemory, got, Memory, rfVars
<1> QED
  BY <1>1, <1>6, <1>7

LEMMA NextInv == IInv /\ [Next]_vars => IInv'
<1> SUFFICES ASSUME IInv, [Next]_vars PROVE IInv'
  OBVIOUS
<1>1. CASE ReadCC
  BY <1>1, ReadCCInv
<1>2. CASE ReadBlock
  BY <1>2, ReadBlockInv
<1>3. CASE ReadEnough
  BY <1>3 DEF ReadEnough, IInv, TypeOK, InStep, BufferIsMemory, got, Memory, rfVars
<1>4. CASE WalkTLV
  BY <1>4, WalkInv
<1>5. CASE UNCHANGED vars
  BY <1>5 DEF vars, IInv, TypeOK, InStep, BufferIsMemory, got, Memory, rfVars
<1> QED
  BY <1>1, <1>2, <1>3, <1>4, <1>5 DEF Next, Done

LEMMA Invariance == Spec => []IInv
BY InitInv, NextInv, PTL DEF Spec

\* No index leaves the buffer or the area it was sized for, and never more
\* than the caller's limit is reported, under short answers and for any tag.
THEOREM BuffersHold == Spec => []TypeOK
<1>1. IInv => TypeOK
  BY DEF IInv
<1> QED
  BY <1>1, Invariance, PTL

\* The buffer is the tag's memory from block 4 on, for blocks of any length,
\* wherever area, buffer, last block or a lost card end it.
THEOREM ReadsInOrder == Spec => []BufferIsMemory
<1>1. IInv => BufferIsMemory
  BY DEF IInv
<1> QED
  BY <1>1, Invariance, PTL

-----------------------------------------------------------------------------
(* Where the TLVs lie.                                                     *)

\* A sequence of places of which each is at least the one before it: the first
\* one below an earlier one would be below the one before it.
LEMMA Ascending ==
  ASSUME NEW n \in Nat, NEW at, \A i \in 1..n : at[i] \in Nat,
         \A i \in 1..n - 1 : at[i] <= at[i + 1],
         NEW i \in 1..n, NEW j \in i..n
  PROVE  at[i] <= at[j]
<1> DEFINE T == {k \in Nat : k \in i..n /\ at[k] < at[i]}
<1> SUFFICES ASSUME T # {} PROVE FALSE
  OBVIOUS
<1>1. PICK x \in T : \A y \in T : ~(<<y, x>> \in OpToRel(<, Nat))
  <2>1. T \subseteq Nat
    OBVIOUS
  <2> HIDE DEF T
  <2> QED
    BY <2>1, NatLessThanWellFounded, WFMin
<1>2. x \in i..n /\ x # i /\ at[x] < at[i]
  <2>1. x \in T
    BY <1>1
  <2>2. x \in i..n /\ at[x] < at[i] /\ at[i] \in Nat
    BY <2>1
  <2> QED
    BY <2>2
<1>3. x - 1 \in i..n /\ x - 1 \in 1..n - 1 /\ (x - 1) + 1 = x
  BY <1>2
<1>4. at[x - 1] <= at[x]
  BY <1>3
<1>5. at[x - 1] < at[i]
  BY <1>2, <1>3, <1>4
<1>6. x - 1 \in T
  BY <1>3, <1>5
<1>7. <<x - 1, x>> \in OpToRel(<, Nat)
  BY <1>3 DEF OpToRel
<1> QED
  BY <1>1, <1>6, <1>7

\* Joining two sequences keeps the first and puts the second behind it.
LEMMA Joined ==
  ASSUME NEW S, NEW s \in Seq(S), NEW t \in Seq(S)
  PROVE  /\ s \o t \in Seq(S) /\ Len(s \o t) = Len(s) + Len(t)
         /\ \A k \in 1..Len(s) : (s \o t)[k] = s[k]
         /\ \A k \in 1..Len(t) : (s \o t)[Len(s) + k] = t[k]
<1>1. /\ s \o t \in Seq(S) /\ Len(s \o t) = Len(s) + Len(t)
      /\ \A i \in 1..Len(s) + Len(t) :
           (s \o t)[i] = IF i <= Len(s) THEN s[i] ELSE t[i - Len(s)]
  BY ConcatProperties
<1>2. Len(s) \in Nat /\ Len(t) \in Nat
  OBVIOUS
<1>3. \A k \in 1..Len(s) : k \in 1..Len(s) + Len(t) /\ k <= Len(s)
  BY <1>2
<1>4. \A k \in 1..Len(t) : /\ Len(s) + k \in 1..Len(s) + Len(t)
                           /\ ~(Len(s) + k <= Len(s)) /\ (Len(s) + k) - Len(s) = k
  BY <1>2
<1> QED
  BY <1>1, <1>3, <1>4

\* A number is made of its quotient and its remainder.
LEMMA Parts ==
  ASSUME NEW n \in Nat, NEW b \in Nat \ {0}, NEW q \in Int, NEW r \in Int,
         q = n \div b, r = n % b
  PROVE  n = b * q + r
BY SMT

LEMMA Divides ==
  ASSUME NEW n \in Nat, NEW b \in Nat \ {0}
  PROVE  n \div b \in Nat /\ n % b \in 0..b - 1 /\ (n \div b) * b + (n % b) = n
<1>1. n \div b \in Nat /\ n % b \in 0..b - 1
  BY SMT
<1>2. PICK q \in Nat : q = n \div b
  BY <1>1
<1>3. PICK r \in 0..b-1 : r = n % b
  BY <1>1
<1>4. n = b * q + r
  BY <1>2, <1>3, Parts
<1>5. b * q = q * b
  BY SMT
<1>6. q * b + r = n
  BY <1>4, <1>5
<1> QED
  BY <1>1, <1>2, <1>3, <1>6, Zenon

\* The bytes of a TLV.
LEMMA EncodeFact ==
  ASSUME NEW tlv \in Tlv, Len(tlv.value) < Base * Base
  PROVE  /\ Encode(tlv)[1] = tlv.type
         /\ tlv.type \in Single => Len(Encode(tlv)) = 1
         /\ tlv.type \notin Single /\ Len(tlv.value) < LongForm =>
              /\ Len(Encode(tlv)) = 2 + Len(tlv.value)
              /\ Encode(tlv)[2] = Len(tlv.value)
              /\ \A k \in 1..Len(tlv.value) : Encode(tlv)[2 + k] = tlv.value[k]
         /\ tlv.type \notin Single /\ ~(Len(tlv.value) < LongForm) =>
              /\ Len(Encode(tlv)) = 4 + Len(tlv.value)
              /\ Encode(tlv)[2] = LongForm
              /\ Encode(tlv)[3] * Base + Encode(tlv)[4] = Len(tlv.value)
              /\ \A k \in 1..Len(tlv.value) : Encode(tlv)[4 + k] = tlv.value[k]
<1> DEFINE v == tlv.value
           n == Len(v)
<1>1. tlv.type \in Nat /\ v \in Seq(Nat) /\ n \in Nat
  BY Sizes, SeqMonotonic DEF Tlv
<1>2. CASE tlv.type \in Single
  BY <1>2 DEF Encode
<1>3. CASE tlv.type \notin Single /\ n < LongForm
  <2> DEFINE h == <<tlv.type, n>>
  <2>1. Encode(tlv) = h \o v
    BY <1>3 DEF Encode
  <2>2. h \in Seq(Nat) /\ Len(h) = 2 /\ h[1] = tlv.type /\ h[2] = n
    BY <1>1
  <2> HIDE DEF h, v, n
  <2>0. v \in Seq(Nat) /\ n = Len(v)
    BY <1>1 DEF n
  <2>3. /\ Len(h \o v) = Len(h) + Len(v)
        /\ \A k \in 1..Len(h) : (h \o v)[k] = h[k]
        /\ \A k \in 1..Len(v) : (h \o v)[Len(h) + k] = v[k]
    <3>1. h \in Seq(Nat) /\ v \in Seq(Nat)
      BY <2>0, <2>2
    <3> QED
      BY <3>1, Joined
  <2>4. 1 \in 1..Len(h) /\ 2 \in 1..Len(h)
    BY <2>2
  <2> QED
    BY <1>3, <2>1, <2>2, <2>3, <2>4 DEF v, n
<1>4. CASE tlv.type \notin Single /\ ~(n < LongForm)
  <2> DEFINE h == <<tlv.type, LongForm, n \div Base, n % Base>>
  <2>1. Encode(tlv) = h \o v
    BY <1>4 DEF Encode
  <2>2. n \div Base \in Nat /\ n % Base \in Nat /\ LongForm \in Nat
        /\ (n \div Base) * Base + (n % Base) = n
    <3> HIDE DEF n
    <3>1. Base \in Nat \ {0} /\ LongForm \in Nat
      BY Sizes DEF LongForm
    <3>2. n % Base \in 0..Base - 1
      BY <1>1, <3>1, Divides
    <3>3. n % Base \in Nat
      BY <3>1, <3>2
    <3> QED
      BY <1>1, <3>1, <3>3, Divides
  <2>3. h \in Seq(Nat) /\ Len(h) = 4 /\ h[1] = tlv.type /\ h[2] = LongForm
        /\ h[3] = n \div Base /\ h[4] = n % Base
    BY <1>1, <2>2
  <2> HIDE DEF h, v, n
  <2>0. v \in Seq(Nat) /\ n = Len(v)
    BY <1>1 DEF n
  <2>4. /\ Len(h \o v) = Len(h) + Len(v)
        /\ \A k \in 1..Len(h) : (h \o v)[k] = h[k]
        /\ \A k \in 1..Len(v) : (h \o v)[Len(h) + k] = v[k]
    <3>1. h \in Seq(Nat) /\ v \in Seq(Nat)
      BY <2>0, <2>3
    <3> QED
      BY <3>1, Joined
  <2>5. 1 \in 1..Len(h) /\ 2 \in 1..Len(h) /\ 3 \in 1..Len(h) /\ 4 \in 1..Len(h)
    BY <2>3
  <2>6. (h \o v)[1] = h[1] /\ (h \o v)[2] = h[2] /\ (h \o v)[3] = h[3] /\ (h \o v)[4] = h[4]
    BY <2>4, <2>5
  <2> QED
    BY <1>4, <2>1, <2>2, <2>3, <2>4, <2>6 DEF v, n
<1> QED
  BY <1>2, <1>3, <1>4

\* Each TLV lies in the memory behind those before it.
LEMMA TlvFact ==
  ASSUME tag \in Tags
  PROVE  /\ Len(tag.tlvs) \in Nat /\ Len(tag.mem) \in Nat
         /\ \A i \in 1..Len(tag.tlvs) :
              tag.tlvs[i] \in Tlv /\ Len(tag.tlvs[i].value) < Base * Base
         /\ \A i \in 1..Len(tag.tlvs) + 1 : tag.at[i] \in Nat
         /\ tag.at[1] = 0 /\ tag.at[Len(tag.tlvs) + 1] = Len(tag.mem)
         /\ \A i \in 1..Len(tag.tlvs) :
              /\ Len(Encode(tag.tlvs[i])) \in Nat
              /\ tag.at[i + 1] = tag.at[i] + Len(Encode(tag.tlvs[i]))
<1> DEFINE n == Len(tag.tlvs)
           pieces == Encodings(tag.tlvs)
<1>1. /\ tag.tlvs \in Seq(Tlv) /\ tag.mem \in Seq(0..Base - 1)
      /\ \A i \in DOMAIN tag.tlvs : Len(tag.tlvs[i].value) < Base * Base
      /\ LaidOut(tag.mem, pieces, tag.at) /\ Len(tag.mem) = tag.at[n + 1]
  BY T2tAssumption
<1>2. n \in Nat /\ DOMAIN tag.tlvs = 1..n /\ Len(tag.mem) \in Nat
  BY <1>1
<1>3. Len(pieces) = n /\ \A i \in 1..n : pieces[i] = Encode(tag.tlvs[i])
  BY <1>2 DEF Encodings
<1> HIDE DEF pieces
<1>4. \A i \in 1..n : tag.tlvs[i] \in Tlv /\ Len(tag.tlvs[i].value) < Base * Base
  BY <1>1, <1>2
<1>5. /\ tag.at \in Seq(Nat) /\ Len(tag.at) = n + 1 /\ tag.at[1] = 0
      /\ \A i \in 1..n : tag.at[i + 1] = tag.at[i] + Len(pieces[i])
  BY <1>1, <1>3 DEF LaidOut
<1>6. \A i \in 1..n + 1 : tag.at[i] \in Nat
  BY <1>2, <1>5
<1>7. ASSUME NEW i \in 1..n PROVE Len(Encode(tag.tlvs[i])) \in Nat
  <2>1. Len(tag.tlvs[i].value) \in Nat
    BY <1>4 DEF Tlv
  <2> QED
    BY <1>4, <2>1, EncodeFact
<1> QED
  BY <1>1, <1>2, <1>3, <1>4, <1>5, <1>6, <1>7

\* The memory holds the bytes of each TLV at its place.
LEMMA TlvBytes ==
  ASSUME tag \in Tags, NEW i \in 1..Len(tag.tlvs),
         NEW k \in 1..Len(Encode(tag.tlvs[i]))
  PROVE  Memory(tag.at[i] + k) = Encode(tag.tlvs[i])[k]
<1> DEFINE n == Len(tag.tlvs)
           at == tag.at
           e == Encode(tag.tlvs[i])
<1>1. /\ n \in Nat /\ \A j \in 1..n + 1 : at[j] \in Nat
      /\ at[n + 1] = Len(tag.mem) /\ Len(tag.mem) \in Nat
      /\ \A j \in 1..n : /\ Len(Encode(tag.tlvs[j])) \in Nat
                         /\ at[j + 1] = at[j] + Len(Encode(tag.tlvs[j]))
  BY TlvFact
<1>2. at[i + 1] <= at[n + 1]
  <2> HIDE DEF n, at
  <2>1. n + 1 \in Nat /\ (n + 1) - 1 = n /\ i + 1 \in 1..n + 1 /\ n + 1 \in i + 1..n + 1
    BY <1>1 DEF n
  <2>2. ASSUME NEW j \in 1..n PROVE at[j] <= at[j + 1]
    <3>1. Len(Encode(tag.tlvs[j])) \in Nat /\ at[j] \in Nat
      BY <1>1
    <3> QED
      BY <1>1, <3>1
  <2> QED
    BY <1>1, <2>1, <2>2, Ascending
<1>3. at[i] + k <= Len(tag.mem) /\ at[i] + k \in Nat
  BY SMTT(60), <1>1, <1>2
<1>4. tag.mem[at[i] + k] = e[k]
  <2>1. LaidOut(tag.mem, Encodings(tag.tlvs), at)
    BY T2tAssumption
  <2>2. Len(Encodings(tag.tlvs)) = n /\ Encodings(tag.tlvs)[i] = e
    BY <1>1 DEF Encodings
  <2> QED
    BY <1>3, <2>1, <2>2 DEF LaidOut
<1> QED
  BY <1>3, <1>4 DEF Memory

\* What the walk reads at a TLV, if the buffer holds the memory: the type; and
\* the length and the value, unless the buffer ends before the length does.
LEMMA ReadTlv ==
  ASSUME tag \in Tags, data_buf \in Seq(Bytes), BufferIsMemory, ~short,
         NEW i \in 1..Len(tag.tlvs), tag.at[i] < got
  PROVE  LET tlv == tag.tlvs[i]
             l   == Length(tag.at[i] + 1)
         IN  /\ Byte(tag.at[i]) = tlv.type
             /\ tlv.type \in Single => tag.at[i + 1] = tag.at[i] + 1
             /\ tlv.type \notin Single /\ tag.at[i + 1] <= got => l.ok
             /\ tlv.type \notin Single /\ l.ok =>
                  /\ l.len = Len(tlv.value) /\ l.value \in Nat
                  /\ l.value + l.len = tag.at[i + 1]
                  /\ \A k \in 1..l.len :
                       l.value + k <= got => data_buf[l.value + k] = tlv.value[k]
<1> DEFINE tlv == tag.tlvs[i]
           l == Length(tag.at[i] + 1)
           a == tag.at[i]
           e == Encode(tlv)
           n == Len(tlv.value)
<1>0. tlv \in Tlv /\ Len(tlv.value) < Base * Base
  BY TlvFact
<1>1. a \in Nat /\ tag.at[i + 1] = a + Len(e)
  BY TlvFact
<1>2. n \in Nat /\ got \in Nat
  BY <1>0 DEF Tlv, got
<1>3. ASSUME NEW k \in 1..Len(e), a + k <= got PROVE data_buf[a + k] = e[k]
  <2>1. a + k \in 1..got
    BY SMTT(60), <1>1, <1>2, <1>3
  <2>2. Memory(a + k) = e[k]
    BY TlvBytes
  <2> QED
    BY <2>1, <2>2 DEF BufferIsMemory
<1>4. /\ e[1] = tlv.type
      /\ tlv.type \in Single => Len(e) = 1
      /\ tlv.type \notin Single /\ n < LongForm =>
           /\ Len(e) = 2 + n /\ e[2] = n
           /\ \A k \in 1..n : e[2 + k] = tlv.value[k]
      /\ tlv.type \notin Single /\ ~(n < LongForm) =>
           /\ Len(e) = 4 + n /\ e[2] = LongForm /\ e[3] * Base + e[4] = n
           /\ \A k \in 1..n : e[4 + k] = tlv.value[k]
  BY <1>0, EncodeFact
<1>5. LongForm \in Nat
  BY Sizes DEF LongForm
<1> HIDE DEF a, e, n
<1>6. Byte(a) = tlv.type
  <2>1. 1 \in 1..Len(e) /\ a + 1 <= got
    BY SMTT(60), <1>1, <1>2, <1>4 DEF a
  <2> QED
    BY <1>3, <1>4, <2>1 DEF Byte
<1>7. CASE tlv.type \in Single
  BY <1>1, <1>4, <1>6, <1>7 DEF a
<1>8. CASE tlv.type \notin Single /\ n < LongForm
  <2>0. Len(e) = 2 + n
    BY <1>4, <1>8
  <2>1. CASE a + 1 >= got
    <3>1. ~l.ok
      BY <2>1 DEF Length, a
    <3>2. ~(tag.at[i + 1] <= got)
      BY <1>1, <1>2, <2>0, <2>1
    <3> QED
      BY <1>6, <1>8, <3>1, <3>2 DEF a
  <2>2. CASE a + 1 < got
    <3>1. (a + 1) + 1 = a + 2 /\ a + 2 <= got /\ 2 \in 1..Len(e)
      BY <1>1, <1>2, <2>0, <2>2
    <3>2. Byte(a + 1) = n /\ n # LongForm
      BY <1>2, <1>3, <1>4, <1>5, <1>8, <3>1 DEF Byte
    <3>3. ~(a + 1 >= got)
      BY <1>1, <1>2, <2>2
    <3>4. l = [ok |-> TRUE, len |-> n, value |-> (a + 1) + 1]
      BY <3>2, <3>3 DEF Length, a
    <3>5. l.ok /\ l.len = n /\ l.value = a + 2
      BY <3>1, <3>4
    <3>6. ASSUME NEW k \in 1..n, a + 2 + k <= got
          PROVE  data_buf[a + 2 + k] = tlv.value[k]
      <4>1. 2 + k \in 1..Len(e) /\ a + (2 + k) = a + 2 + k
        BY <1>1, <1>2, <2>0
      <4> QED
        BY <1>3, <1>4, <1>8, <3>6, <4>1
    <3>7. a + 2 \in Nat /\ a + 2 + n = tag.at[i + 1]
      BY <1>1, <1>2, <2>0
    <3> HIDE DEF l
    <3> QED
      BY <1>6, <1>8, <3>5, <3>6, <3>7 DEF a, n, l
  <2> QED
    BY <1>1, <1>2, <2>1, <2>2
<1>9. CASE tlv.type \notin Single /\ ~(n < LongForm)
  <2>0. Len(e) = 4 + n
    BY <1>4, <1>9
  <2>1. CASE a + 4 > got
    <3>1. ~l.ok
      <4>1. CASE a + 1 >= got
        BY <4>1 DEF Length, a
      <4>2. CASE a + 1 < got
        <5>1. (a + 1) + 1 = a + 2 /\ a + 2 <= got /\ 2 \in 1..Len(e)
          BY <1>1, <1>2, <2>0, <4>2
        <5>2. Byte(a + 1) = LongForm
          BY <1>3, <1>4, <1>9, <5>1 DEF Byte
        <5>3. (a + 1) + 3 > got /\ ~(a + 1 >= got)
          BY <1>1, <1>2, <2>1, <4>2
        <5> QED
          BY <5>2, <5>3 DEF Length, a
      <4> QED
        BY <1>1, <1>2, <4>1, <4>2
    <3>2. ~(tag.at[i + 1] <= got)
      BY <1>1, <1>2, <2>0, <2>1
    <3> QED
      BY <1>6, <1>9, <3>1, <3>2 DEF a
  <2>2. CASE a + 4 <= got
    <3>1. /\ (a + 1) + 1 = a + 2 /\ (a + 2) + 1 = a + 3 /\ (a + 3) + 1 = a + 4
          /\ (a + 1) + 1 = a + 2 /\ (a + 1) + 2 = a + 3 /\ (a + 1) + 3 = a + 4
          /\ a + 2 <= got /\ a + 3 <= got
          /\ 2 \in 1..Len(e) /\ 3 \in 1..Len(e) /\ 4 \in 1..Len(e)
      BY <1>1, <1>2, <2>0, <2>2
    <3>2. Byte(a + 1) = e[2] /\ Byte(a + 2) = e[3] /\ Byte(a + 3) = e[4]
      BY <1>3, <2>2, <3>1 DEF Byte
    <3>3. ~(a + 1 >= got) /\ ~((a + 1) + 3 > got)
      BY <1>1, <1>2, <2>2
    <3>4. l = [ok |-> TRUE, len |-> Byte((a + 1) + 1) * Base + Byte((a + 1) + 2),
               value |-> (a + 1) + 3]
      BY <1>4, <1>9, <3>2, <3>3 DEF Length, a
    <3>5. l.ok /\ l.len = n /\ l.value = a + 4
      BY <1>4, <1>9, <3>1, <3>2, <3>4
    <3>6. ASSUME NEW k \in 1..n, a + 4 + k <= got
          PROVE  data_buf[a + 4 + k] = tlv.value[k]
      <4>1. 4 + k \in 1..Len(e) /\ a + (4 + k) = a + 4 + k
        BY <1>1, <1>2, <2>0
      <4> QED
        BY <1>3, <1>4, <1>9, <3>6, <4>1
    <3>7. a + 4 \in Nat /\ a + 4 + n = tag.at[i + 1]
      BY <1>1, <1>2, <2>0
    <3> HIDE DEF l
    <3> QED
      BY <1>6, <1>9, <3>5, <3>6, <3>7 DEF a, n, l
  <2> QED
    BY <1>1, <1>2, <2>1, <2>2
<1> QED
  BY <1>7, <1>8, <1>9

-----------------------------------------------------------------------------
(* Where the message is.                                                   *)

\* The message TLV is the first one there is, if no terminator is before it.
LEMMA MessageFact ==
  ASSUME tag \in Tags, NEW i \in 1..Len(tag.tlvs), Passed(i),
         tag.tlvs[i].type = NdefTag
  PROVE  /\ MessageAt(tag.tlvs) = {i}
         /\ Message(tag.tlvs) = tag.tlvs[i].value
         /\ MessageEnd = tag.at[i + 1]
<1>1. Len(tag.tlvs) \in Nat /\ DOMAIN tag.tlvs = 1..Len(tag.tlvs)
  BY T2tAssumption, TlvFact
<1>2. i \in MessageAt(tag.tlvs)
  BY <1>1 DEF MessageAt, Passed
<1>3. ASSUME NEW j \in MessageAt(tag.tlvs) PROVE j = i
  <2>1. /\ j \in 1..Len(tag.tlvs) /\ tag.tlvs[j].type = NdefTag
        /\ \A k \in 1..j - 1 : tag.tlvs[k].type \notin {NdefTag, Terminator}
    BY <1>1 DEF MessageAt
  <2>2. CASE j < i
    <3>1. j \in 1..i - 1
      BY <1>1, <2>1, <2>2
    <3> QED
      BY <2>1, <3>1 DEF Passed
  <2>3. CASE i < j
    <3>1. i \in 1..j - 1
      BY <1>1, <2>1, <2>3
    <3> QED
      BY <2>1, <3>1
  <2> QED
    BY <1>1, <2>1, <2>2, <2>3
<1>4. MessageAt(tag.tlvs) = {i}
  BY <1>2, <1>3
<1>5. (CHOOSE k \in MessageAt(tag.tlvs) : TRUE) = i
  BY <1>4
<1> QED
  BY <1>4, <1>5 DEF Message, MessageEnd

\* There is none behind a terminator, or if no TLV is one.
LEMMA NoMessage ==
  ASSUME tag \in Tags, NEW i \in 1..Len(tag.tlvs) + 1, Passed(i),
         \/ i = Len(tag.tlvs) + 1
         \/ i \in 1..Len(tag.tlvs) /\ tag.tlvs[i].type = Terminator
  PROVE  MessageAt(tag.tlvs) = {} /\ Message(tag.tlvs) = <<>>
<1>1. Len(tag.tlvs) \in Nat /\ DOMAIN tag.tlvs = 1..Len(tag.tlvs)
  BY T2tAssumption, TlvFact
<1>2. ASSUME NEW j \in MessageAt(tag.tlvs) PROVE FALSE
  <2>1. /\ j \in 1..Len(tag.tlvs) /\ tag.tlvs[j].type = NdefTag
        /\ \A k \in 1..j - 1 : tag.tlvs[k].type \notin {NdefTag, Terminator}
    BY <1>1 DEF MessageAt
  <2>2. CASE j < i
    <3>1. j \in 1..i - 1
      BY <1>1, <2>1, <2>2
    <3> QED
      BY <2>1, <3>1 DEF Passed
  <2>3. CASE i < j
    <3>1. i \in 1..j - 1 /\ i # Len(tag.tlvs) + 1
      BY <1>1, <2>1, <2>3
    <3> QED
      BY <2>1, <3>1
  <2>4. CASE i = j
    <3>1. i # Len(tag.tlvs) + 1 /\ NdefTag # Terminator
      BY <1>1, <2>1, <2>4, Sizes DEF NdefTag, Terminator
    <3> QED
      BY <2>1, <2>4, <3>1
  <2> QED
    BY <1>1, <2>1, <2>2, <2>3, <2>4
<1>3. MessageAt(tag.tlvs) = {}
  BY <1>2
<1> QED
  BY <1>3 DEF Message

LEMMA MessageType == ASSUME tag \in Tags PROVE Message(tag.tlvs) \in Seq(Bytes)
<1>1. CASE MessageAt(tag.tlvs) = {}
  BY <1>1 DEF Message
<1>2. CASE MessageAt(tag.tlvs) # {}
  <2> DEFINE m == CHOOSE k \in MessageAt(tag.tlvs) : TRUE
  <2>1. m \in DOMAIN tag.tlvs
    BY <1>2 DEF MessageAt
  <2>2. tag.tlvs[m] \in Tlv
    <3>1. DOMAIN tag.tlvs = 1..Len(tag.tlvs)
      BY T2tAssumption
    <3> QED
      BY <2>1, <3>1, TlvFact
  <2> QED
    BY <1>2, <2>2 DEF Message, Tlv, Bytes
<1> QED
  BY <1>1, <1>2

LEMMA EmptyPrefix == ASSUME NEW S, NEW s \in Seq(S) PROVE IsPrefix(<<>>, s)
<1>1. SubSeq(<<>>, 1, 0) = <<>> /\ SubSeq(s, 1, 0) = <<>>
  BY SubSeqEmpty
<1>2. Len(s) \in Nat /\ Len(<<>>) = 0
  OBVIOUS
<1> QED
  BY <1>1, <1>2 DEF IsPrefix

\* A piece of a sequence from its first element on is a prefix of it, also if
\* it was taken from a copy.
LEMMA CopyPrefix ==
  ASSUME NEW S, NEW u \in Seq(S), NEW v \in Seq(S), Len(v) <= Len(u),
         \A i \in 1..Len(v) : v[i] = u[i]
  PROVE  IsPrefix(v, u)
<1>1. Len(v) \in Nat /\ Len(u) \in Nat
  OBVIOUS
<1>2. 0 + Len(v) <= Len(u) /\ 0 + 1 = 1 /\ 0 + Len(v) = Len(v) /\ 0 + Len(v) <= Len(v)
  BY <1>1
<1>3. /\ SubSeq(u, 1, Len(v)) \in Seq(S) /\ Len(SubSeq(u, 1, Len(v))) = Len(v)
      /\ \A i \in 1..Len(v) : SubSeq(u, 1, Len(v))[i] = u[0 + i]
  BY <1>1, <1>2, Piece
<1>4. \A i \in 1..Len(v) : u[0 + i] = u[i]
  BY <1>1
<1>5. SubSeq(u, 1, Len(v)) = v
  BY <1>3, <1>4, SeqEqual
<1>6. SubSeq(v, 1, Len(v)) = v
  BY SubSeqFull
<1> QED
  BY <1>5, <1>6 DEF IsPrefix

\* It does not lie before a TLV that the walk has come to.
LEMMA NotBefore ==
  ASSUME tag \in Tags, NEW i \in 1..Len(tag.tlvs), Passed(i),
         MessageAt(tag.tlvs) # {}
  PROVE  tag.at[i + 1] <= MessageEnd /\ MessageEnd \in Nat
<1> DEFINE n == Len(tag.tlvs)
           m == CHOOSE k \in MessageAt(tag.tlvs) : TRUE
           at == tag.at
<1>1. n \in Nat /\ DOMAIN tag.tlvs = 1..n
  BY T2tAssumption, TlvFact
<1>2. m \in MessageAt(tag.tlvs)
  OBVIOUS
<1> HIDE DEF m
<1>3. m \in 1..n /\ tag.tlvs[m].type = NdefTag
  BY <1>1, <1>2 DEF MessageAt
<1>4. ~(m < i)
  <2> SUFFICES ASSUME m < i PROVE FALSE
    OBVIOUS
  <2>1. m \in 1..i - 1
    BY <1>1, <1>3
  <2> QED
    BY <1>3, <2>1 DEF Passed
<1>5. /\ n + 1 \in Nat /\ i + 1 \in 1..n + 1 /\ m + 1 \in i + 1..n + 1
      /\ (n + 1) - 1 = n
  BY <1>1, <1>3, <1>4
<1>6. \A j \in 1..n + 1 : at[j] \in Nat
  BY TlvFact
<1>7. ASSUME NEW j \in 1..n PROVE at[j] <= at[j + 1]
  <2>1. /\ Len(Encode(tag.tlvs[j])) \in Nat /\ at[j] \in Nat
        /\ at[j + 1] = at[j] + Len(Encode(tag.tlvs[j]))
    BY TlvFact, SMTT(60)
  <2> QED
    BY <2>1
<1>8. at[i + 1] <= at[m + 1]
  <2> HIDE DEF at, n
  <2> QED
    BY <1>5, <1>6, <1>7, Ascending
<1>9. at[m + 1] \in Nat
  BY <1>1, <1>3, <1>6
<1> QED
  BY <1>8, <1>9 DEF MessageEnd, m

-----------------------------------------------------------------------------
(* The walk.                                                               *)

\* The walk goes on at the next TLV.
LEMMA GoesOn ==
  ASSUME tag \in Tags, NEW i \in 1..Len(tag.tlvs), Passed(i),
         tag.tlvs[i].type \notin {NdefTag, Terminator},
         p' = tag.at[i + 1], UNCHANGED tag
  PROVE  AtTlv'
<1>1. Len(tag.tlvs) \in Nat /\ tag.at[Len(tag.tlvs) + 1] = Len(tag.mem)
      /\ Len(tag.mem) \in Nat
  BY TlvFact
<1>2. Passed(i + 1)
  <2>1. ASSUME NEW j \in 1..(i + 1) - 1
        PROVE  tag.tlvs[j].type \notin {NdefTag, Terminator}
    <3>1. j = i \/ j \in 1..i - 1
      OBVIOUS
    <3> QED
      BY <3>1 DEF Passed
  <2> QED
    BY <2>1 DEF Passed
<1>3. Passed(i + 1)' /\ Passed(Len(tag.tlvs) + 1)' = Passed(Len(tag.tlvs) + 1)
  BY <1>2 DEF Passed
<1>4. CASE i + 1 \in 1..Len(tag.tlvs)
  BY <1>3, <1>4 DEF AtTlv
<1>5. CASE i + 1 = Len(tag.tlvs) + 1
  <2>1. p' >= Len(tag.mem)
    BY <1>1, <1>5
  <2> QED
    BY <1>2, <1>3, <1>5, <2>1 DEF AtTlv
<1> QED
  BY <1>1, <1>4, <1>5

\* Leaving the walk without a message is right if the message is not there or
\* ends behind what was read.
LEMMA LeavesRight ==
  ASSUME IInv, Walked, NothingFound, tpc = "walk", UNCHANGED <<tag, data_buf, ndef_cap, st, rfVars>>,
         ~short /\ ~rfFailed =>
           MessageAt(tag.tlvs) = {} \/ ~(MessageEnd <= got)
  PROVE  OnlyTheMessage' /\ MessageFound'
<1>1. ndef' = <<>>
  BY DEF NothingFound, Walked
<1>2. IsPrefix(<<>>, Message(tag.tlvs))
  BY MessageType, EmptyPrefix DEF IInv
<1>3. OnlyTheMessage'
  BY <1>1, <1>2 DEF OnlyTheMessage
<1>4. ~short /\ ~rfFailed => got = Readable
  BY DEF Walked, AllRead
<1>5. MessageAt(tag.tlvs)' = MessageAt(tag.tlvs) /\ MessageEnd' = MessageEnd
      /\ Readable' = Readable /\ short' = short /\ rfFailed' = rfFailed
  BY DEF MessageEnd, Readable, rfVars
<1>6. MessageFound'
  BY <1>4, <1>5 DEF MessageFound
<1> QED
  BY <1>3, <1>6

\* What is copied at the message TLV is the message, as far as it was read.
LEMMA CopiesMessage ==
  ASSUME IInv, Walked, tpc = "walk", ~short,
         NEW i \in 1..Len(tag.tlvs), Passed(i), tag.tlvs[i].type = NdefTag,
         tag.at[i] < got, Length(tag.at[i] + 1).ok,
         CopyMessage(Length(tag.at[i] + 1).value, Length(tag.at[i] + 1).len),
         UNCHANGED <<tag, ndef_cap, rfVars>>
  PROVE  OnlyTheMessage' /\ MessageFound'
<1> DEFINE l     == Length(tag.at[i] + 1)
           whole == tag.tlvs[i].value
           there == Smaller(l.len, got - l.value)
           k     == Smaller(there, ndef_cap)
<1>1. tag \in Tags /\ data_buf \in Seq(Bytes) /\ BufferIsMemory /\ ndef_cap \in Nat
  BY T2tAssumption DEF IInv, TypeOK, Bytes
<1>2. tag.tlvs[i].type \notin Single
  BY Sizes DEF Single, NdefTag, Terminator
<1>3. /\ l.len = Len(whole) /\ l.value \in Nat
      /\ l.value + l.len = tag.at[i + 1]
      /\ \A j \in 1..l.len : l.value + j <= got => data_buf[l.value + j] = whole[j]
  BY <1>1, <1>2, ReadTlv
<1>4. whole \in Seq(Bytes) /\ Len(whole) \in Nat
  BY <1>1, TlvFact DEF Tlv, Bytes
<1>5. got \in Nat /\ got = Len(data_buf)
  BY <1>1 DEF got
<1>6. l.value <= got
  <2>1. tag.at[i] + 1 \in Nat
    BY SMTT(60), <1>1, TlvFact
  <2> QED
    BY <1>1, <2>1, LengthInside
<1>7. ndef' = SubSeq(data_buf, l.value + 1, l.value + k)
  BY DEF CopyMessage
<1>8. MessageAt(tag.tlvs) = {i} /\ Message(tag.tlvs) = whole
      /\ MessageEnd = tag.at[i + 1]
  BY <1>1, MessageFact
<1>9. /\ MessageAt(tag.tlvs)' = MessageAt(tag.tlvs) /\ MessageEnd' = MessageEnd
      /\ Message(tag.tlvs)' = Message(tag.tlvs) /\ Readable' = Readable
      /\ short' = short /\ rfFailed' = rfFailed /\ ndef_cap' = ndef_cap
  BY DEF Message, MessageEnd, Readable, rfVars
<1> HIDE DEF l, whole
<1>10. /\ k \in Nat /\ k <= Len(whole) /\ l.value + k <= got /\ k <= ndef_cap
       /\ l.value + l.len <= got => k = Smaller(Len(whole), ndef_cap)
  <2>1. l.len \in Nat /\ l.value \in Nat /\ l.len = Len(whole)
    BY <1>3, <1>4
  <2>2. /\ there \in Nat /\ there <= l.len /\ l.value + there <= got
        /\ l.value + l.len <= got => there = l.len
    BY <1>5, <1>6, <2>1 DEF Smaller
  <2> HIDE DEF there
  <2>3. /\ k \in Nat /\ k <= there /\ k <= ndef_cap
    BY <1>1, <2>2 DEF Smaller
  <2>4. l.value + l.len <= got => k = Smaller(Len(whole), ndef_cap)
    BY <2>1, <2>2
  <2> HIDE DEF k
  <2> QED
    BY <1>5, <2>1, <2>2, <2>3, <2>4
<1> HIDE DEF k, there
<1>11. /\ ndef' \in Seq(Bytes) /\ Len(ndef') = k
       /\ \A j \in 1..k : ndef'[j] = data_buf[l.value + j]
  <2>1. /\ data_buf \in Seq(Bytes) /\ l.value \in Nat /\ k \in Nat
        /\ l.value + k <= Len(data_buf)
    BY <1>1, <1>3, <1>5, <1>10
  <2>2. /\ SubSeq(data_buf, l.value + 1, l.value + k) \in Seq(Bytes)
        /\ Len(SubSeq(data_buf, l.value + 1, l.value + k)) = k
        /\ \A j \in 1..k :
             SubSeq(data_buf, l.value + 1, l.value + k)[j] = data_buf[l.value + j]
    <3> DEFINE v == l.value
    <3>1. data_buf \in Seq(Bytes) /\ v \in Nat /\ k \in Nat /\ v + k <= Len(data_buf)
      BY <2>1
    <3> HIDE DEF v
    <3>2. /\ SubSeq(data_buf, v + 1, v + k) \in Seq(Bytes)
          /\ Len(SubSeq(data_buf, v + 1, v + k)) = k
          /\ \A j \in 1..k :
             SubSeq(data_buf, v + 1, v + k)[j] = data_buf[v + j]
      BY <3>1, Piece
    <3> QED
      BY <3>2 DEF v
  <2> QED
    BY <1>7, <2>2
<1>12. ASSUME NEW j \in 1..k PROVE ndef'[j] = whole[j]
  <2>1. j \in 1..l.len /\ l.value + j <= got
    BY <1>3, <1>4, <1>5, <1>10
  <2> QED
    BY <1>3, <1>11, <2>1
<1>13. IsPrefix(ndef', whole)
  BY <1>4, <1>10, <1>11, <1>12, CopyPrefix
<1>14. OnlyTheMessage'
  BY <1>8, <1>9, <1>13 DEF OnlyTheMessage
<1>15. MessageFound'
  <2>1. ~rfFailed => got = Readable
    BY DEF Walked, AllRead
  <2>2. MessageEnd <= got => k = Smaller(Len(whole), ndef_cap)
    BY <1>3, <1>8, <1>10
  <2> QED
    BY <1>8, <1>9, <1>11, <2>1, <2>2 DEF MessageFound, Smaller
<1> QED
  BY <1>14, <1>15

\* The walk may leave: at the end of what was read, at a terminator, and at a
\* TLV whose length was not read.
LEMMA LeavesWalk ==
  ASSUME IInv, Walked, NothingFound, tpc = "walk",
         UNCHANGED <<tag, data_buf, ndef_cap, st, rfVars>>,
         \/ p >= got
         \/ p < got /\ Byte(p) = Terminator
         \/ p < got /\ Byte(p) \notin {0, Terminator} /\ ~Length(p + 1).ok
  PROVE  OnlyTheMessage' /\ MessageFound'
<1>1. /\ tag \in Tags /\ data_buf \in Seq(Bytes) /\ BufferIsMemory
      /\ got \in Nat /\ p \in Nat
  BY DEF IInv, TypeOK, Bytes, got
<1>2. Len(tag.tlvs) \in Nat /\ Len(tag.mem) \in Nat
      /\ \A i \in 1..Len(tag.tlvs) + 1 : tag.at[i] \in Nat
  BY <1>1, TlvFact
<1>3. ASSUME ~short, NEW i \in 1..Len(tag.tlvs), p = tag.at[i], Passed(i)
      PROVE  MessageAt(tag.tlvs) = {} \/ ~(MessageEnd <= got)
  <2>1. MessageAt(tag.tlvs) # {} =>
          tag.at[i + 1] <= MessageEnd /\ MessageEnd \in Nat
    BY <1>1, <1>3, NotBefore
  <2>2. tag.at[i] \in Nat /\ tag.at[i + 1] \in Nat
    BY <1>2
  <2>3. CASE p >= got
    <3>1. tag.at[i] < tag.at[i + 1]
      <4>1. /\ tag.tlvs[i] \in Tlv /\ Len(tag.tlvs[i].value) < Base * Base
            /\ tag.at[i + 1] = tag.at[i] + Len(Encode(tag.tlvs[i]))
        BY <1>1, TlvFact
      <4>2. Len(tag.tlvs[i].value) \in Nat
        BY <4>1 DEF Tlv
      <4>3. Len(Encode(tag.tlvs[i])) \in Nat /\ Len(Encode(tag.tlvs[i])) > 0
        BY <4>1, <4>2, EncodeFact
      <4>4. tag.at[i + 1] = tag.at[i] + Len(Encode(tag.tlvs[i]))
        BY <4>1
      <4> QED
        BY <2>2, <4>3, <4>4
    <3> QED
      BY <1>1, <1>3, <2>1, <2>2, <2>3, <3>1
  <2>4. CASE p < got /\ Byte(p) = Terminator
    <3>1. tag.tlvs[i].type = Terminator
      BY <1>1, <1>3, <2>4, ReadTlv
    <3> QED
      BY <1>1, <1>2, <1>3, <3>1, NoMessage
  <2>5. CASE p < got /\ Byte(p) \notin {0, Terminator} /\ ~Length(p + 1).ok
    <3>1. tag.tlvs[i].type \notin Single
      BY <1>1, <1>3, <2>5, ReadTlv DEF Single
    <3>2. ~(tag.at[i + 1] <= got)
      BY <1>1, <1>3, <2>5, <3>1, ReadTlv
    <3> QED
      BY <1>1, <2>1, <2>2, <3>2
  <2> QED
    BY <2>3, <2>4, <2>5
<1>4. ASSUME ~short PROVE MessageAt(tag.tlvs) = {} \/ ~(MessageEnd <= got)
  <2>1. CASE \E i \in 1..Len(tag.tlvs) : p = tag.at[i] /\ Passed(i)
    BY <1>3, <1>4, <2>1
  <2>2. CASE Passed(Len(tag.tlvs) + 1)
    BY <1>1, <1>2, <2>2, NoMessage
  <2> QED
    BY <1>4, <2>1, <2>2 DEF Walked, AtTlv
<1> QED
  BY <1>4, LeavesRight

\* Behind all TLVs the walk sees zeros.
LEMMA ZerosBehind ==
  ASSUME tag \in Tags, data_buf \in Seq(Bytes), BufferIsMemory, ~short,
         p \in Nat, p < got, p >= Len(tag.mem)
  PROVE  Byte(p) = 0
<1>1. got \in Nat /\ Len(tag.mem) \in Nat
  BY TlvFact DEF got
<1>2. p + 1 \in 1..got /\ ~(p + 1 <= Len(tag.mem))
  BY <1>1
<1> QED
  BY <1>2 DEF BufferIsMemory, Memory, Byte

\* A TLV the walk passes is the one it is at.
LEMMA PassesTlv ==
  ASSUME IInv, Walked, tpc = "walk", ~short, p < got, Byte(p) # Terminator,
         UNCHANGED tag,
         \/ Byte(p) = 0 /\ p' = p + 1
         \/ /\ Byte(p) \notin {0, NdefTag} /\ Length(p + 1).ok
            /\ p' = Length(p + 1).value + Length(p + 1).len
  PROVE  AtTlv'
<1>1. /\ tag \in Tags /\ data_buf \in Seq(Bytes) /\ BufferIsMemory /\ p \in Nat
  BY DEF IInv, TypeOK, Bytes
<1>2. CASE \E i \in 1..Len(tag.tlvs) : p = tag.at[i] /\ Passed(i)
  <2>1. PICK i \in 1..Len(tag.tlvs) : p = tag.at[i] /\ Passed(i)
    BY <1>2
  <2>2. Byte(p) = tag.tlvs[i].type
    BY <1>1, <2>1, ReadTlv
  <2>3. CASE Byte(p) = 0 /\ p' = p + 1
    <3>1. p' = tag.at[i + 1]
      BY <1>1, <2>1, <2>2, <2>3, ReadTlv DEF Single
    <3>2. tag.tlvs[i].type \notin {NdefTag, Terminator}
      BY <2>2, <2>3 DEF NdefTag
    <3> QED
      BY <1>1, <2>1, <3>1, <3>2, GoesOn
  <2>4. CASE /\ Byte(p) \notin {0, NdefTag} /\ Length(p + 1).ok
             /\ p' = Length(p + 1).value + Length(p + 1).len
    <3>1. p' = tag.at[i + 1]
      BY <1>1, <2>1, <2>2, <2>4, ReadTlv DEF Single
    <3> QED
      BY <1>1, <2>1, <2>2, <2>4, <3>1, GoesOn
  <2> QED
    BY <2>3, <2>4
<1>3. CASE p >= Len(tag.mem) /\ Passed(Len(tag.tlvs) + 1)
  <2>1. p' = p + 1
    BY <1>1, <1>3, ZerosBehind
  <2>2. p' >= Len(tag.mem)
    BY <1>1, <1>3, <2>1, TlvFact
  <2> QED
    BY <1>3, <2>2 DEF AtTlv, Passed
<1> QED
  BY <1>2, <1>3 DEF Walked, AtTlv

\* Every pass of the walk.
LEMMA WalkWalked ==
  ASSUME IInv, Walked, WalkTLV
  PROVE  Walked'
<1>1. tpc = "walk" /\ UNCHANGED <<tag, ndef_cap, buf_cap, data_buf, block, st, rfVars>>
  BY DEF WalkTLV
<1>2. AllRead' /\ short' = short
  <2>1. tpc' \in {"walk", "done"}
    BY <1>1 DEF WalkTLV, NothingFound
  <2> QED
    BY <1>1, <2>1 DEF Walked, AllRead, Readable, got, rfVars
<1>3. ASSUME NothingFound,
             \/ p >= got
             \/ p < got /\ Byte(p) = Terminator
             \/ p < got /\ Byte(p) \notin {0, Terminator} /\ ~Length(p + 1).ok
      PROVE  Walked'
  <2>1. OnlyTheMessage' /\ MessageFound'
    BY <1>1, <1>3, LeavesWalk
  <2> QED
    BY <1>2, <1>3, <2>1 DEF Walked, NothingFound
<1>4. ASSUME UNCHANGED <<tpc, ndef>>, p < got, Byte(p) # Terminator,
             \/ Byte(p) = 0 /\ p' = p + 1
             \/ /\ Byte(p) \notin {0, NdefTag} /\ Length(p + 1).ok
                /\ p' = Length(p + 1).value + Length(p + 1).len
      PROVE  Walked'
  <2>1. ~short => AtTlv'
    BY <1>1, <1>4, PassesTlv
  <2>2. OnlyTheMessage' /\ MessageFound'
    BY <1>1, <1>4 DEF Walked, OnlyTheMessage, MessageFound, Message, MessageEnd, Readable, rfVars
  <2> QED
    BY <1>1, <1>2, <1>4, <2>1, <2>2 DEF Walked
<1>5. ASSUME p < got, Byte(p) = NdefTag, Byte(p) \notin {0, Terminator},
             Length(p + 1).ok, tpc' = "done", UNCHANGED p,
             CopyMessage(Length(p + 1).value, Length(p + 1).len)
      PROVE  Walked'
  <2>1. ASSUME ~short PROVE OnlyTheMessage' /\ MessageFound'
    <3>1. tag \in Tags /\ data_buf \in Seq(Bytes) /\ BufferIsMemory /\ p \in Nat
      BY DEF IInv, TypeOK, Bytes
    <3>2. PICK i \in 1..Len(tag.tlvs) : p = tag.at[i] /\ Passed(i)
      <4>1. ~(p >= Len(tag.mem))
        BY <1>5, <2>1, <3>1, ZerosBehind
      <4> QED
        BY <1>1, <2>1, <4>1 DEF Walked, AtTlv
    <3>3. tag.tlvs[i].type = NdefTag
      BY <1>5, <2>1, <3>1, <3>2, ReadTlv
    <3> QED
      BY <1>1, <1>5, <2>1, <3>2, <3>3, CopiesMessage
  <2>2. ASSUME short PROVE OnlyTheMessage' /\ MessageFound'
    <3>1. short'
      BY <1>2, <2>2
    <3> QED
      BY <3>1 DEF OnlyTheMessage, MessageFound
  <2> QED
    BY <1>2, <1>5, <2>1, <2>2 DEF Walked
<1>6. CASE p < got /\ Byte(p) = 0 /\ p' = p + 1 /\ UNCHANGED <<tpc, ndef>>
  <2>1. 0 # Terminator
    BY Sizes DEF Terminator
  <2> QED
    BY <1>4, <1>6, <2>1
<1>7. CASE p < got /\ Byte(p) \notin {0, Terminator}
  BY <1>3, <1>4, <1>5, <1>7 DEF WalkTLV
<1> QED
  BY <1>3, <1>6, <1>7 DEF WalkTLV

-----------------------------------------------------------------------------
(* Before the walk.                                                        *)

\* The messages and what can be read depend on the tag alone.
LEMMA SameTag ==
  ASSUME UNCHANGED tag
  PROVE  /\ Message(tag.tlvs)' = Message(tag.tlvs) /\ MessageEnd' = MessageEnd
         /\ MessageAt(tag.tlvs)' = MessageAt(tag.tlvs) /\ Readable' = Readable
BY DEF Message, MessageEnd, MessageAt, Readable

\* While nothing is reported, the walk stands where it begins.
LEMMA NotYet ==
  ASSUME Walked, tpc \in {"cc", "read"}, UNCHANGED <<tag, p, ndef>>, AllRead',
         tag \in Tags,
         tpc' \in {"read", "walk"} \/ (tpc' = "done" /\ st' = "RS_ERR_NOT_FOUND"),
         ~short' => ~short
  PROVE  Walked'
<1>1. ndef = <<>> /\ p = 0 /\ (~short => AtTlv)
  BY DEF Walked
<1>2. IsPrefix(<<>>, Message(tag.tlvs))
  BY MessageType, EmptyPrefix
<1>3. OnlyTheMessage'
  BY <1>1, <1>2, SameTag DEF OnlyTheMessage
<1>4. MessageFound'
  BY DEF MessageFound
<1>5. ~short' => AtTlv'
  BY <1>1 DEF AtTlv, Passed
<1>6. /\ tpc' # "done" => ndef' = <<>>
      /\ tpc' \in {"cc", "read"} => p' = 0
  BY <1>1
<1> QED
  BY <1>3, <1>4, <1>5, <1>6 DEF Walked

LEMMA InitWalked == Init => Walked
<1> SUFFICES ASSUME Init PROVE Walked
  OBVIOUS
<1>1. /\ tpc = "cc" /\ tag \in Tags /\ data_buf = <<>> /\ block = 4 /\ p = 0
      /\ ndef = <<>>
  BY DEF Init
<1>2. AllRead
  <2>1. 0 \in 0..Reads - 1
    <3>1. MaxBlock - 4 \in Nat /\ 4 \in Nat \ {0}
      BY Sizes
    <3>2. (MaxBlock - 4) \div 4 \in Nat
      BY <3>1, Divides
    <3> QED
      BY <3>2 DEF Reads
  <2>2. block = 4 + 4 * 0
    BY <1>1
  <2> QED
    BY <1>1, <2>1, <2>2 DEF AllRead
<1>3. AtTlv
  <2>1. /\ Len(tag.tlvs) \in Nat /\ tag.at[1] = 0
        /\ tag.at[Len(tag.tlvs) + 1] = Len(tag.mem)
    BY <1>1, TlvFact
  <2>2. CASE Len(tag.tlvs) = 0
    BY <1>1, <2>1, <2>2 DEF AtTlv, Passed
  <2>3. CASE 1 \in 1..Len(tag.tlvs)
    BY <1>1, <2>1, <2>3 DEF AtTlv, Passed
  <2> QED
    BY <2>1, <2>2, <2>3
<1>4. OnlyTheMessage
  BY <1>1, MessageType, EmptyPrefix DEF OnlyTheMessage
<1> QED
  BY <1>1, <1>2, <1>3, <1>4 DEF Walked, MessageFound

LEMMA ReadCCWalked ==
  ASSUME IInv, Walked, ReadCC
  PROVE  Walked'
<1>1. /\ tpc = "cc" /\ tag \in Tags /\ data_buf = <<>> /\ block \in 4..MaxBlock
      /\ UNCHANGED <<tag, ndef_cap, data_buf, block, p, ndef, rfVars>>
  BY DEF ReadCC, IInv, TypeOK, InStep
<1>2. \/ tpc' = "read" /\ buf_cap' = BufCap(tag.size)
      \/ tpc' = "done" /\ st' = "RS_ERR_NOT_FOUND"
  BY DEF ReadCC
<1>3. AllRead'
  <2>1. got' = 0 /\ (block - 4) * BlockLen \in Nat
    <3>1. block - 4 \in Nat
      BY <1>1, Sizes
    <3> QED
      BY <1>1, <3>1, Sizes, SMT DEF got
  <2>2. PICK k \in 0..Reads - 1 : block = 4 + 4 * k
    BY DEF Walked, AllRead
  <2>3. block' = 4 + 4 * k
    BY <1>1, <2>2
  <2>4. got' <= (block' - 4) * BlockLen
    BY <1>1, <2>1
  <2> QED
    BY <1>1, <1>2, <2>2, <2>3, <2>4 DEF AllRead
<1>4. ~short' => ~short
  BY <1>1 DEF rfVars
<1>5. tpc \in {"cc", "read"} /\ UNCHANGED <<tag, p, ndef>>
  BY <1>1
<1>6. tpc' \in {"read", "walk"} \/ (tpc' = "done" /\ st' = "RS_ERR_NOT_FOUND")
  BY <1>2
<1> QED
  BY <1>1, <1>3, <1>4, <1>5, <1>6, NotYet

LEMMA Distributes ==
  ASSUME NEW x \in Nat, NEW y \in Nat, NEW z \in Nat
  PROVE  (x + y) * z = x * z + y * z
BY SMT

\* The k-th READ is of block 4 + 4k, and ends (k + 1) reads into the area.
LEMMA ReadsFact ==
  ASSUME NEW k \in 0..Reads - 1
  PROVE  /\ k \in Nat /\ Reads \in Nat
         /\ (4 + 4 * k) + 4 <= MaxBlock => k + 1 \in 0..Reads - 1
         /\ (4 + 4 * k) + 4 > MaxBlock => k + 1 = Reads
         /\ ((4 + 4 * k) - 4) * BlockLen \in Nat /\ Reads * ReadLen \in Nat
         /\ ((4 + 4 * k) - 4) * BlockLen + ReadLen = (k + 1) * ReadLen
         /\ (((4 + 4 * k) + 4) - 4) * BlockLen = (k + 1) * ReadLen
         /\ (k + 1) * ReadLen <= Reads * ReadLen
<1>1. MaxBlock \in Nat /\ MaxBlock - 4 \in Nat /\ 4 \in Nat \ {0} /\ BlockLen \in Nat /\ BlockLen > 0
  BY Sizes
<1>2. PICK m \in Nat : m = (MaxBlock - 4) \div 4
  BY <1>1, Divides
<1>3. PICK r \in 0..3 : m * 4 + r = MaxBlock - 4
  <2> DEFINE last == MaxBlock - 4
  <2>1. last \in Nat /\ 4 \in Nat \ {0} /\ m = last \div 4
    BY <1>1, <1>2
  <2> HIDE DEF last
  <2>2. last % 4 \in 0..4 - 1 /\ (last \div 4) * 4 + (last % 4) = last
    BY <2>1, Divides
  <2>3. last % 4 \in 0..3 /\ m * 4 + (last % 4) = last
    BY <2>1, <2>2
  <2> QED
    BY <2>3 DEF last
<1>4. k \in Nat /\ k <= m /\ Reads = m + 1
  BY <1>2 DEF Reads
<1>5. /\ (4 + 4 * k) + 4 <= MaxBlock => k + 1 \in 0..Reads - 1
      /\ (4 + 4 * k) + 4 > MaxBlock => k + 1 = Reads
  BY <1>1, <1>3, <1>4
<1>6. ReadLen = 4 * BlockLen /\ ReadLen \in Nat
  BY <1>1 DEF ReadLen
<1>7. (4 + 4 * k) - 4 = 4 * k /\ ((4 + 4 * k) + 4) - 4 = 4 * (k + 1)
  BY <1>4
<1>8. /\ (4 * k) * BlockLen = k * (4 * BlockLen) /\ (4 * k) * BlockLen \in Nat
      /\ (4 * (k + 1)) * BlockLen = (k + 1) * (4 * BlockLen)
  BY <1>1, <1>4, SMT
<1>9. k * ReadLen + ReadLen = (k + 1) * ReadLen /\ Reads * ReadLen \in Nat
  <2>1. Reads \in Nat
    BY <1>4
  <2> QED
    BY <1>4, <1>6, <2>1, SMT
<1>10. (k + 1) * ReadLen <= Reads * ReadLen
  <2>1. PICK d \in Nat : Reads = (k + 1) + d
    <3>1. m - k \in Nat /\ Reads = (k + 1) + (m - k)
      BY <1>4
    <3> QED
      BY <3>1
  <2>2. Reads * ReadLen = (k + 1) * ReadLen + d * ReadLen
    <3> DEFINE x == k + 1
    <3>1. x \in Nat /\ Reads = x + d
      BY <1>4, <2>1
    <3> HIDE DEF x
    <3>2. (x + d) * ReadLen = x * ReadLen + d * ReadLen
      BY <1>6, <3>1, Distributes
    <3> QED
      BY <3>1, <3>2 DEF x
  <2>3. d * ReadLen \in Nat /\ (k + 1) * ReadLen \in Nat
    BY <1>4, <1>6, <2>1, SMT
  <2> QED
    BY <2>2, <2>3
<1> QED
  BY <1>4, <1>5, <1>6, <1>7, <1>8, <1>9, <1>10

\* A READ that is answered.
LEMMA AnswerWalked ==
  ASSUME IInv, Walked, ReadBlock, NEW n \in AnswerLens,
         data_buf' = data_buf \o SubSeq(Answer(block, n), 1, Take(n)),
         \/ block + 4 > MaxBlock /\ tpc' = "walk" /\ block' = block
         \/ block + 4 <= MaxBlock /\ block' = NextBlock(block) /\ tpc' = tpc,
         short' = (short \/ n < ReadLen), rfFailed' = rfFailed
  PROVE  Walked'
<1>1. /\ tpc = "read" /\ tag \in Tags /\ block \in 4..MaxBlock /\ got < buf_cap
      /\ buf_cap = BufCap(tag.size)
      /\ UNCHANGED <<tag, ndef_cap, buf_cap, p, ndef, st>>
  BY DEF ReadBlock, IInv, TypeOK, Walked, AllRead
<1>2. PICK k \in 0..Reads - 1 : block = 4 + 4 * k
  BY DEF Walked, AllRead
<1>3. got \in Nat /\ buf_cap \in Nat /\ ReadLen \in Nat
  BY Sizes DEF IInv, TypeOK, got, ReadLen
<1>4. n \in Nat /\ n <= ReadLen /\ Take(n) \in 0..n
      /\ Take(n) = (IF got + n > buf_cap THEN buf_cap - got ELSE n)
  BY <1>1, <1>3, Sizes DEF AnswerLens, Take
<1>5. got' = got + Take(n)
  <2>1. /\ SubSeq(Answer(block, n), 1, Take(n)) \in Seq(Bytes)
        /\ Len(SubSeq(Answer(block, n), 1, Take(n))) = Take(n)
    BY <1>1, <1>4, Kept
  <2>2. data_buf \in Seq(Bytes)
    BY DEF IInv, TypeOK, Bytes
  <2> QED
    BY <2>1, <2>2, ConcatProperties DEF got
<1>6. ~short' => ~short /\ n = ReadLen
  <2>1. ~short' => ~short /\ ~(n < ReadLen)
    BY Zenon
  <2> QED
    BY <1>3, <1>4, <2>1
<1>7. ~short' => got = (block - 4) * BlockLen
  BY <1>1, <1>3, <1>6 DEF IInv, InStep
<1> DEFINE end == (k + 1) * ReadLen
<1>8. /\ k \in Nat /\ end \in Nat /\ Reads * ReadLen \in Nat
      /\ (block - 4) * BlockLen + ReadLen = end
      /\ ((block + 4) - 4) * BlockLen = end
      /\ end <= Reads * ReadLen
      /\ block + 4 <= MaxBlock => k + 1 \in 0..Reads - 1
      /\ block + 4 > MaxBlock => end = Reads * ReadLen
  <2>1. (k + 1) * ReadLen \in Nat
    BY <1>3, SMT
  <2> QED
    BY <1>2, <2>1, ReadsFact
<1> HIDE DEF end
<1>9. ~short' => got' = Smaller(buf_cap, end)
  <2>1. ~short' => got + n = end
    BY <1>6, <1>7, <1>8
  <2>2. CASE got + n > buf_cap
    <3>1. got' = buf_cap
      BY <1>3, <1>4, <1>5, <2>2
    <3> QED
      BY <1>3, <2>1, <2>2, <3>1 DEF Smaller
  <2>3. CASE ~(got + n > buf_cap)
    <3>1. got' = got + n
      BY <1>4, <1>5, <2>3
    <3> QED
      BY <1>3, <1>4, <2>1, <2>3, <3>1 DEF Smaller
  <2> QED
    BY <2>2, <2>3
<1>10. AllRead'
  <2>1. buf_cap' = BufCap(tag.size)'
    BY <1>1
  <2>2. CASE block + 4 > MaxBlock /\ tpc' = "walk" /\ block' = block
    <3>1. end = Reads * ReadLen
      BY <1>8, <2>2
    <3>2. Readable' = Smaller(buf_cap, end)
      BY <1>1, <3>1 DEF Readable, Reads
    <3> QED
      BY <1>2, <1>9, <2>1, <2>2, <3>2 DEF AllRead
  <2>3. CASE block + 4 <= MaxBlock /\ block' = NextBlock(block) /\ tpc' = tpc
    <3>1. block' = block + 4 /\ block' = 4 + 4 * (k + 1) /\ k + 1 \in 0..Reads - 1
      BY <1>2, <1>8, <2>3 DEF NextBlock
    <3>2. (block' - 4) * BlockLen = end
      BY <1>8, <3>1
    <3>3. Smaller(buf_cap, end) <= end
      BY <1>3, <1>8 DEF Smaller
    <3>4. ~short' => got' <= (block' - 4) * BlockLen
      BY <1>9, <3>2, <3>3
    <3> HIDE DEF Reads
    <3> QED
      BY <1>1, <2>1, <2>3, <3>1, <3>4 DEF AllRead
  <2> QED
    BY <2>2, <2>3
<1>11. tpc \in {"cc", "read"} /\ UNCHANGED <<tag, p, ndef>>
  BY <1>1
<1>13. tpc' \in {"read", "walk"}
  BY <1>1
<1>12. ~short' => ~short
  BY <1>6, Zenon
<1> QED
  BY <1>1, <1>10, <1>11, <1>12, <1>13, NotYet

LEMMA ReadBlockWalked ==
  ASSUME IInv, Walked, ReadBlock
  PROVE  Walked'
<1>1. CASE tpc' = "walk" /\ rfFailed' = TRUE /\ UNCHANGED <<data_buf, block, short>>
  <2>1. /\ tpc = "read" /\ tag \in Tags /\ UNCHANGED <<tag, ndef_cap, buf_cap, p, ndef, st>>
    BY DEF ReadBlock, IInv
  <2>2. AllRead'
    BY <1>1, <2>1 DEF Walked, AllRead
  <2>3. UNCHANGED <<tag, p, ndef>> /\ (~short' => ~short)
    BY <1>1, <2>1
  <2>4. tpc' \in {"read", "walk"}
    BY <1>1
  <2> QED
    BY <2>1, <2>2, <2>3, <2>4, NotYet
<1>2. ASSUME NEW n \in AnswerLens,
             data_buf' = data_buf \o SubSeq(Answer(block, n), 1, Take(n)),
             \/ block + 4 > MaxBlock /\ tpc' = "walk" /\ block' = block
             \/ block + 4 <= MaxBlock /\ block' = NextBlock(block) /\ tpc' = tpc,
             short' = (short \/ n < ReadLen), rfFailed' = rfFailed
      PROVE  Walked'
  BY <1>2, AnswerWalked
<1> QED
  BY <1>1, <1>2 DEF ReadBlock

\* A full buffer holds all that can be read.
LEMMA ReadEnoughWalked ==
  ASSUME IInv, Walked, ReadEnough
  PROVE  Walked'
<1>1. /\ tpc = "read" /\ tpc' = "walk" /\ tag \in Tags /\ got >= buf_cap
      /\ got <= buf_cap /\ got \in Nat /\ buf_cap \in Nat
      /\ buf_cap = BufCap(tag.size)
      /\ UNCHANGED <<tag, ndef_cap, buf_cap, data_buf, block, p, ndef, st, rfVars>>
  BY Sizes DEF ReadEnough, IInv, TypeOK, Walked, AllRead, got
<1>2. PICK k \in 0..Reads - 1 : block = 4 + 4 * k
  BY DEF Walked, AllRead
<1>3. ~short => got = Readable
  <2>1. ~short => got <= (block - 4) * BlockLen
    BY <1>1 DEF Walked, AllRead
  <2>2. /\ (block - 4) * BlockLen \in Nat /\ Reads * ReadLen \in Nat /\ ReadLen \in Nat
        /\ (block - 4) * BlockLen + ReadLen <= Reads * ReadLen
    <3>1. ReadLen \in Nat
      BY Sizes DEF ReadLen
    <3> QED
      BY <1>2, <3>1, ReadsFact
  <2>3. ASSUME ~short PROVE got = Smaller(buf_cap, Reads * ReadLen)
    <3> DEFINE end == Reads * ReadLen
               here == (block - 4) * BlockLen
    <3>1. got <= here /\ here \in Nat /\ end \in Nat /\ here + ReadLen <= end
          /\ ReadLen \in Nat
      BY <2>1, <2>2, <2>3
    <3> HIDE DEF end, here
    <3>2. got = Smaller(buf_cap, end)
      BY <1>1, <3>1 DEF Smaller
    <3> QED
      BY <3>2 DEF end
  <2> QED
    BY <1>1, <2>3 DEF Readable, Reads
<1>4. AllRead'
  <2>1. Readable' = Readable /\ got' = got /\ buf_cap' = BufCap(tag.size)'
        /\ (~short' => ~short)
    BY <1>1 DEF Readable, got, rfVars
  <2>2. block' = 4 + 4 * k
    BY <1>1, <1>2
  <2> HIDE DEF Reads
  <2> QED
    BY <1>1, <1>3, <2>1, <2>2 DEF AllRead
<1>5. UNCHANGED <<tag, p, ndef>> /\ (~short' => ~short)
  BY <1>1 DEF rfVars
<1>6. tpc' \in {"read", "walk"}
  BY <1>1
<1> QED
  BY <1>1, <1>4, <1>5, <1>6, NotYet

LEMMA NextWalked == IInv /\ Walked /\ [Next]_vars => Walked'
<1> SUFFICES ASSUME IInv, Walked, [Next]_vars PROVE Walked'
  OBVIOUS
<1>1. CASE ReadCC
  BY <1>1, ReadCCWalked
<1>2. CASE ReadBlock
  BY <1>2, ReadBlockWalked
<1>3. CASE ReadEnough
  BY <1>3, ReadEnoughWalked
<1>4. CASE WalkTLV
  BY <1>4, WalkWalked
<1>5. CASE UNCHANGED vars
  <2>1. UNCHANGED <<tpc, tag, ndef_cap, buf_cap, data_buf, block, p, ndef, st, rfFailed, short>>
    BY <1>5 DEF vars, rfVars
  <2>2. AllRead' /\ OnlyTheMessage' /\ MessageFound'
    BY <2>1, SameTag DEF Walked, AllRead, OnlyTheMessage, MessageFound, got
  <2>3. ~short' => ~short
    BY <2>1
  <2>4. ~short /\ tpc # "done" => AtTlv'
    BY <2>1 DEF Walked, AtTlv, Passed
  <2> QED
    BY <2>1, <2>2, <2>3, <2>4 DEF Walked
<1> QED
  BY <1>1, <1>2, <1>3, <1>4, <1>5 DEF Next, Done

LEMMA WalkInvariance == Spec => [](IInv /\ Walked)
BY InitInv, NextInv, InitWalked, NextWalked, PTL DEF Spec

\* What is reported is the beginning of the message written to the tag, for
\* every list of TLVs, wherever the area, the buffer or a lost card cuts it.
THEOREM OnlyMessageReported == Spec => []OnlyTheMessage
<1>1. Walked => OnlyTheMessage
  BY DEF Walked
<1> QED
  BY <1>1, WalkInvariance, PTL

\* A message within reach is found and reported whole, whatever TLVs precede
\* it and in either form of the length.
THEOREM MessageReported == Spec => []MessageFound
<1>1. Walked => MessageFound
  BY DEF Walked
<1> QED
  BY <1>1, WalkInvariance, PTL

-----------------------------------------------------------------------------
(* The reader ends.                                                        *)

\* The phases in their order.
Phase == CASE tpc = "cc" -> 0 [] tpc = "read" -> 1 [] tpc = "walk" -> 2
           [] OTHER -> 3

\* A step goes on to a later phase, to a later block of those a READ can
\* name, or to a later byte of those that were read.
Advances ==
  \/ Phase' > Phase
  \/ tpc = "read" /\ tpc' = "read" /\ block' > block /\ block' <= MaxBlock
  \/ /\ tpc = "walk" /\ tpc' = "walk" /\ data_buf' = data_buf
     /\ p' > p /\ p < got

\* Neither loop of the reader can go round for ever: not the one over the
\* blocks, whose 8-bit number never wraps back, nor the one over the TLVs,
\* whatever lengths the tag holds (rs_ndef_read.c:237, 269).
THEOREM ReaderAdvances == Spec => [][Advances]_vars
<1>1. ASSUME IInv, Next, vars' # vars
      PROVE  Advances
  <2>1. CASE ReadCC \/ ReadEnough
    BY <2>1 DEF ReadCC, ReadEnough, Advances, Phase
  <2>2. CASE ReadBlock
    <3>1. block \in Nat /\ MaxBlock \in Nat
      BY <1>1, Sizes DEF IInv, TypeOK
    <3>2. tpc = "read" /\ (tpc' = "walk" \/ (tpc' = "read" /\ block' = block + 4
                                             /\ block + 4 <= MaxBlock))
      BY <2>2 DEF ReadBlock, NextBlock
    <3>3. tpc' = "walk" => Phase' > Phase
      BY <3>2 DEF Phase
    <3>. QED
      BY <3>1, <3>2, <3>3 DEF Advances
  <2>3. CASE WalkTLV
    <3>1. CASE tpc' = "done"
      BY <2>3, <3>1 DEF WalkTLV, Advances, Phase
    <3>2. CASE tpc' # "done"
      <4>1. /\ tpc = "walk" /\ tpc' = "walk" /\ data_buf' = data_buf /\ p < got
            /\ \/ p' = p + 1
               \/ /\ Length(p + 1).ok
                  /\ p' = Length(p + 1).value + Length(p + 1).len
        BY <2>3, <3>2 DEF WalkTLV, NothingFound
      <4>2. p \in Nat /\ p + 1 \in Nat /\ data_buf \in Seq(Bytes)
        BY <1>1 DEF IInv, TypeOK, got, Bytes
      <4>3. Length(p + 1).ok => /\ Length(p + 1).value \in Nat
                                /\ Length(p + 1).value > p + 1
                                /\ Length(p + 1).len \in 0..Base * Base - 1
        BY <4>2, LengthInside
      <4>4. p' > p
        BY <4>1, <4>2, <4>3
      <4>. QED
        BY <4>1, <4>4 DEF Advances
    <3>. QED
      BY <3>1, <3>2
  <2>. QED
    BY <1>1, <2>1, <2>2, <2>3 DEF Next, Done
<1>2. IInv /\ [Next]_vars => [Advances]_vars
  BY <1>1
<1>. QED
  BY <1>2, InitInv, NextInv, PTL DEF Spec
=============================================================================
