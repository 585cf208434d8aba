--------------------------- MODULE NdefDecodeProofs ---------------------------
(***************************************************************************)
(* Proofs about the NDEF record decoder, for every byte width, every limit *)
(* and every message: the decoder stays inside its arrays and the message, *)
(* and recovers the records of a message written in the format.            *)
(***************************************************************************)
EXTENDS NdefDecode, SequenceTheorems, FiniteSetTheorems,
        WellFoundedInduction, TLAPS

\* The inductive invariant: the message never changes, and both properties.
IInv == msg \in Messages /\ TypeOK /\ RecordsInside

\* The decoder has the first records of those written, and stands where the
\* next one begins; it stops behind the last one, at one that is not complete,
\* or, with "truncated", at one there is no room for.
Count == Len(records)

Recovering ==
  msg.written # <<>> =>
    /\ Count <= Len(msg.written) /\ pos = EndOf(Count) /\ pos <= len
    /\ \A i \in 1..Count : Decoded(records[i]) = Written(msg.written[i])
    /\ dpc = "decode" => Count < Len(msg.written) /\ ~truncated
    /\ dpc = "done" =>
         \/ Count = Len(msg.written) /\ ~truncated
         \/ /\ Count < Len(msg.written) /\ EndOf(Count + 1) > len /\ ~truncated
            /\ Count < MaxRecords \/ pos = len
         \/ /\ Count < Len(msg.written) /\ Count = MaxRecords /\ pos < len
            /\ truncated

-----------------------------------------------------------------------------
(* Arithmetic of the base.                                                 *)

\* A number below k, with one more digit, is below k * b.
LEMMA Digit ==
  ASSUME NEW b \in Nat, NEW k \in Nat, NEW a \in 0..k - 1, NEW d \in 0..b - 1
  PROVE  a * b + d \in 0..k * b - 1
<1>1. a * b \in Nat /\ k * b \in Nat
  BY SMT
<1>2. k - 1 - a \in Nat
  BY SMT
<1>3. (k - 1 - a) * b \in Nat
  BY <1>2, SMT
<1>4. (k - 1 - a) * b = k * b - b - a * b
  BY SMT
<1> QED
  BY <1>1, <1>3, <1>4, SMT

\* The range of 32-bit positions is not empty, and wider than a byte.
LEMMA WordFact == Word \in Nat /\ Base <= Word /\ Base \in Nat /\ Base > 1
<1>1. Base \in Nat /\ Base > 1
  BY NdefAssumption
<1>2. ASSUME NEW n \in Nat, n >= Base
      PROVE  n * Base \in Nat /\ n * Base >= Base
  <2>1. (Base - 1) * n \in Nat
    BY <1>1, SMT
  <2>2. n * Base = n + (Base - 1) * n
    BY <1>1, SMT
  <2> QED
    BY <1>1, <1>2, <2>1, <2>2, SMT
<1>3. Base * Base \in Nat /\ Base * Base >= Base
  BY <1>1, <1>2
<1>4. Base * Base * Base \in Nat /\ Base * Base * Base >= Base
  BY <1>2, <1>3
<1>5. Base * Base * Base * Base \in Nat /\ Base * Base * Base * Base >= Base
  BY <1>2, <1>4
<1> QED
  BY <1>1, <1>5 DEF Word

\* A piece of a sequence that begins at address a.
LEMMA Piece ==
  ASSUME NEW S, NEW s \in Seq(S), NEW a \in Nat, NEW n \in Nat, a + n <= Len(s)
  PROVE  /\ SubSeq(s, a + 1, a + n) \in Seq(S)
         /\ Len(SubSeq(s, a + 1, a + n)) = n
         /\ \A i \in 1..n : SubSeq(s, a + 1, a + n)[i] = s[a + i]
<1>1. \A i \in a + 1..a + n : s[i] \in S
  OBVIOUS
<1>2. /\ SubSeq(s, a + 1, a + n) \in Seq(S)
      /\ Len(SubSeq(s, a + 1, a + n))
           = IF a + 1 <= a + n THEN (a + n) - (a + 1) + 1 ELSE 0
      /\ \A i \in 1..(a + n) - (a + 1) + 1 :
           SubSeq(s, a + 1, a + n)[i] = s[(a + 1) + i - 1]
  BY <1>1, SubSeqProperties
<1>3. (a + n) - (a + 1) + 1 = n
  OBVIOUS
<1>4. \A i \in 1..n : (a + 1) + i - 1 = a + i
  OBVIOUS
<1> QED
  BY <1>2, <1>3, <1>4

-----------------------------------------------------------------------------
(* What one pass of the loop reads.                                        *)

\* A position inside the message holds a byte.
LEMMA ByteType ==
  ASSUME msg \in Messages, NEW i \in Nat, i < len
  PROVE  Byte(i) \in 0..Base - 1
  BY SMTT(60), NdefAssumption DEF Byte, len

\* The header fields of a record whose header fits.
LEMMA HeaderType ==
  ASSUME msg \in Messages, NEW q \in Nat, HeaderFits(q)
  PROVE  /\ len \in Nat /\ len <= Word - Base
         /\ TypeAt(q) \in Nat /\ TypeAt(q) >= q + 2
         /\ Byte(q) \in 0..Base - 1
         /\ TypeLen(q) \in 0..Base - 1
         /\ IdLen(q) \in 0..Base - 1
         /\ PayloadLen(q) \in 0..Word - 1
         /\ SR(q) => PayloadLen(q) \in 0..Base - 1
<1>1. len \in Nat /\ len <= Word - Base
  BY NdefAssumption, WordFact DEF len
<1>2. q + 1 < len /\ TypeAt(q) <= len
  BY DEF HeaderFits
<1>3. /\ TypeAt(q) \in Nat /\ TypeAt(q) >= q + 2
      /\ SR(q) => TypeAt(q) >= q + 3
      /\ ~SR(q) => TypeAt(q) >= q + 6
      /\ IL(q) => TypeAt(q) >= q + 3
  BY DEF TypeAt
<1>4. ASSUME NEW i \in Nat, i < len PROVE Byte(i) \in 0..Base - 1
  BY <1>4, ByteType
<1>5. Byte(q) \in 0..Base - 1 /\ TypeLen(q) \in 0..Base - 1
  BY <1>1, <1>2, <1>4 DEF TypeLen
<1>6. IdLen(q) \in 0..Base - 1
  <2>1. CASE IL(q)
    <3>1. TypeAt(q) - 1 \in Nat /\ TypeAt(q) - 1 < len
      BY <1>1, <1>2, <1>3
    <3> QED
      BY <2>1, <3>1, <1>4 DEF IdLen
  <2>2. CASE ~IL(q)
    BY <2>2, WordFact DEF IdLen
  <2> QED
    BY <2>1, <2>2
<1>7. CASE SR(q)
  <2>1. PayloadLen(q) \in 0..Base - 1
    BY <1>1, <1>2, <1>3, <1>4, <1>7 DEF PayloadLen
  <2> QED
    BY <1>1, <1>3, <1>5, <1>6, <2>1, WordFact
<1>8. CASE ~SR(q)
  <2>1. /\ Byte(q + 2) \in 0..Base - 1 /\ Byte(q + 3) \in 0..Base - 1
        /\ Byte(q + 4) \in 0..Base - 1 /\ Byte(q + 5) \in 0..Base - 1
    BY <1>1, <1>2, <1>3, <1>4, <1>8
  <2> DEFINE two   == Byte(q + 2) * Base + Byte(q + 3)
             three == two * Base + Byte(q + 4)
             four  == three * Base + Byte(q + 5)
  <2>2. two \in 0..Base * Base - 1
    BY <2>1, WordFact, Digit
  <2>3. Base * Base \in Nat /\ Base * Base * Base \in Nat
    BY WordFact, SMT
  <2> HIDE DEF two
  <2>4. three \in 0..Base * Base * Base - 1
    BY <2>1, <2>2, <2>3, WordFact, Digit
  <2> HIDE DEF three
  <2>5. four \in 0..Base * Base * Base * Base - 1
    BY <2>1, <2>3, <2>4, WordFact, Digit
  <2>6. PayloadLen(q) = four
    BY <1>8 DEF PayloadLen, two, three
  <2> HIDE DEF four
  <2> QED
    BY <1>1, <1>3, <1>5, <1>6, <1>8, <2>5, <2>6 DEF Word
<1> QED
  BY <1>7, <1>8

\* The record stored of a record that fits.
LEMMA RecordFits ==
  ASSUME msg \in Messages, NEW q \in Nat, Fits(q)
  PROVE  /\ RecordAt(q) \in Record
         /\ After(q) \in 0..Word - 1
         /\ Len(RecordAt(q).type) <= RecordAt(q).type_len
         /\ Len(RecordAt(q).type) <= MaxType
         /\ RecordAt(q).payload <= len
         /\ HasBit(RecordAt(q).flags, SrBit) =>
              RecordAt(q).payload + RecordAt(q).payload_len <= len
<1>1. HeaderFits(q) /\ PayloadAt(q) <= len /\ After(q) <= len
  BY DEF Fits
<1> DEFINE at == TypeAt(q)
           n == Smaller(TypeLen(q), MaxType)
<1>2. /\ len \in Nat /\ len <= Word - Base
      /\ at \in Nat /\ at >= q + 2
      /\ Byte(q) \in 0..Base - 1
      /\ TypeLen(q) \in 0..Base - 1
      /\ IdLen(q) \in 0..Base - 1
      /\ PayloadLen(q) \in 0..Word - 1
      /\ SR(q) => PayloadLen(q) \in 0..Base - 1
  BY <1>1, HeaderType
<1>3. PayloadAt(q) = at + TypeLen(q) + IdLen(q)
  BY DEF PayloadAt
<1> HIDE DEF at
<1>4. PayloadAt(q) \in Nat
  BY <1>2, <1>3, WordFact
<1>5. n \in Nat /\ n <= TypeLen(q) /\ n <= MaxType /\ at + n <= len
  <2>1. n \in Nat /\ n <= TypeLen(q) /\ n <= MaxType
    BY <1>2, NdefAssumption, WordFact DEF Smaller
  <2> QED
    BY <2>1, <1>1, <1>2, <1>3, WordFact
<1> HIDE DEF n
<1>6. /\ SubSeq(msg.bytes, at + 1, at + n) \in Seq(0..Base - 1)
      /\ Len(SubSeq(msg.bytes, at + 1, at + n)) = n
  <2>1. msg.bytes \in Seq(0..Base - 1)
    BY NdefAssumption
  <2>2. at + n <= Len(msg.bytes)
    BY <1>5 DEF len
  <2>3. at \in Nat /\ n \in Nat
    BY <1>2, <1>5
  <2> DEFINE whole == msg.bytes
  <2>4. whole \in Seq(0..Base - 1) /\ at + n <= Len(whole)
    BY <2>1, <2>2
  <2> HIDE DEF whole
  <2>5. /\ SubSeq(whole, at + 1, at + n) \in Seq(0..Base - 1)
        /\ Len(SubSeq(whole, at + 1, at + n)) = n
    BY ZenonT(60), <2>3, <2>4, Piece
  <2> QED
    BY <2>5 DEF whole
<1>7. RecordAt(q) = [flags |-> Byte(q), type |-> SubSeq(msg.bytes, at + 1, at + n),
                     type_len |-> TypeLen(q), payload |-> PayloadAt(q),
                     payload_len |-> PayloadLen(q)]
  BY DEF RecordAt, at, n
<1>8. After(q) \in 0..Word - 1
  BY <1>2, <1>4, WordFact DEF After
<1>9. ASSUME SR(q) PROVE PayloadAt(q) + PayloadLen(q) <= len
  <2>1. PayloadAt(q) + PayloadLen(q) \in 0..Word - 1
    BY <1>1, <1>2, <1>4, <1>9, WordFact
  <2>2. After(q) = PayloadAt(q) + PayloadLen(q)
    BY <2>1, WordFact DEF After
  <2> QED
    BY <2>2, <1>1
<1> QED
  BY <1>1, <1>2, <1>4, <1>5, <1>6, <1>7, <1>8, <1>9 DEF Record, SR

-----------------------------------------------------------------------------
(* The invariant.                                                          *)

LEMMA InitIInv == Init => IInv
<1> SUFFICES ASSUME Init PROVE IInv
  OBVIOUS
<1>1. msg \in Messages /\ records = <<>> /\ pos = 0 /\ dpc = "decode" /\ truncated = FALSE
  BY DEF Init
<1>2. <<>> \in Seq(Record) /\ Len(<<>>) = 0
  OBVIOUS
<1>3. msg.bytes \in Seq(0..Base - 1) /\ Len(msg.bytes) \in 1..Word - Base
  BY <1>1, NdefAssumption
<1>4. TypeOK
  <2>1. pos \in 0..Word - 1
    BY <1>1, WordFact
  <2>2. records \in Seq(Record) /\ Len(records) <= MaxRecords
    BY <1>1, <1>2, NdefAssumption
  <2> QED
    BY <1>1, <1>3, <2>1, <2>2 DEF TypeOK
<1>5. RecordsInside
  BY <1>1 DEF RecordsInside
<1> QED
  BY <1>1, <1>4, <1>5 DEF IInv

\* A step of the loop that stores a record.
LEMMA StoreIInv ==
  ASSUME IInv, ~Full, Fits(pos), UNCHANGED msg,
         records' = Append(records, RecordAt(pos)), pos' = After(pos),
         dpc' \in {"decode", "done"}, UNCHANGED truncated
  PROVE  IInv'
<1>1. /\ msg \in Messages /\ pos \in Nat /\ records \in Seq(Record)
      /\ Len(records) < MaxRecords /\ truncated \in BOOLEAN
  BY NdefAssumption, WordFact DEF IInv, TypeOK, Full
<1> DEFINE r == RecordAt(pos)
<1>2. /\ r \in Record /\ After(pos) \in 0..Word - 1
      /\ Len(r.type) <= r.type_len /\ Len(r.type) <= MaxType
      /\ r.payload <= len
      /\ HasBit(r.flags, SrBit) => r.payload + r.payload_len <= len
  BY <1>1, RecordFits
<1> HIDE DEF r
<1>3. records' = Append(records, r)
  BY DEF r
<1>4. records' \in Seq(Record) /\ Len(records') = Len(records) + 1
  BY <1>1, <1>2, <1>3
<1>5. TypeOK'
  BY <1>1, <1>2, <1>4, NdefAssumption DEF TypeOK, IInv
<1>6. len' = len
  BY DEF len
<1>7. ASSUME NEW i \in DOMAIN records'
      PROVE  /\ Len(records'[i].type) <= records'[i].type_len
             /\ Len(records'[i].type) <= MaxType
             /\ records'[i].payload <= len
             /\ HasBit(records'[i].flags, SrBit) =>
                  records'[i].payload + records'[i].payload_len <= len
  <2>1. CASE i = Len(records) + 1
    <3>1. records'[i] = r
      BY <1>1, <1>2, <1>3, <2>1
    <3> QED
      BY <3>1, <1>2
  <2>2. CASE i # Len(records) + 1
    <3>1. i \in DOMAIN records /\ records'[i] = records[i]
      BY <1>1, <1>2, <1>3, <1>4, <2>2
    <3> QED
      BY <3>1 DEF IInv, RecordsInside
  <2> QED
    BY <2>1, <2>2
<1>8. RecordsInside'
  BY <1>6, <1>7 DEF RecordsInside, HasBit
<1> QED
  BY <1>1, <1>5, <1>8 DEF IInv

LEMMA NextIInv == IInv /\ [Next]_vars => IInv'
<1> SUFFICES ASSUME IInv, [Next]_vars PROVE IInv'
  OBVIOUS
<1>1. ASSUME UNCHANGED <<msg, records>>, pos' = pos, dpc' \in {"decode", "done"},
             truncated' \in BOOLEAN
      PROVE  IInv'
  BY <1>1 DEF IInv, TypeOK, RecordsInside, len, HasBit
<1>2. dpc \in {"decode", "done"} /\ truncated \in BOOLEAN
  BY DEF IInv, TypeOK
<1>3. CASE DecodeRecord
  <2>1. CASE Full /\ truncated' = TRUE /\ dpc' = "done" /\ UNCHANGED <<pos, records>>
    BY <1>1, <1>3, <2>1 DEF DecodeRecord
  <2>2. CASE ~Full /\ ~Fits(pos) /\ dpc' = "done" /\ UNCHANGED <<pos, records, truncated>>
    BY <1>1, <1>2, <1>3, <2>2 DEF DecodeRecord
  <2>3. CASE /\ ~Full /\ Fits(pos)
             /\ records' = Append(records, RecordAt(pos))
             /\ pos' = After(pos)
             /\ dpc' = IF HasBit(Byte(pos), MeBit) THEN "done" ELSE "decode"
             /\ UNCHANGED truncated
    BY <1>3, <2>3, StoreIInv DEF DecodeRecord
  <2> QED
    BY <1>3, <2>1, <2>2, <2>3 DEF DecodeRecord
<1>4. CASE EndOfMessage
  BY <1>1, <1>2, <1>4 DEF EndOfMessage
<1>5. CASE Done \/ UNCHANGED vars
  BY <1>1, <1>2, <1>5 DEF Done, vars
<1> QED
  BY <1>3, <1>4, <1>5 DEF Next

LEMMA DecoderInv == Spec => []IInv
  BY InitIInv, NextIInv, PTL DEF Spec

\* The decoder keeps its output within its arrays: never more than MaxRecords
\* records, never a position past 32 bits.
THEOREM TypeCorrect == Spec => []TypeOK
<1>1. IInv => TypeOK
  BY DEF IInv
<1> QED
  BY <1>1, DecoderInv, PTL

\* Whatever the bytes are, what a decoded record points to lies in the message,
\* except for the payload of a long record.
THEOREM Inside == Spec => []RecordsInside
<1>1. IInv => RecordsInside
  BY DEF IInv
<1> QED
  BY <1>1, DecoderInv, PTL

-----------------------------------------------------------------------------
(* Sequences, and where the records lie.                                   *)

\* A sequence of places of which each is at least the one before it: the first
\* one below an earlier one would be below the one before it.
LEMMA Ascending ==
  ASSUME NEW n \in Nat, NEW at, \A i \in 1..n : at[i] \in Nat,
         \A i \in 1..n - 1 : at[i] <= at[i + 1],
         NEW i \in 1..n, NEW j \in i..n
  PROVE  at[i] <= at[j]
<1> DEFINE T == {k \in Nat : k \in i..n /\ at[k] < at[i]}
<1> SUFFICES ASSUME T # {} PROVE FALSE
  OBVIOUS
<1>1. PICK x \in T : \A y \in T : ~(<<y, x>> \in OpToRel(<, Nat))
  <2>1. T \subseteq Nat
    OBVIOUS
  <2> HIDE DEF T
  <2> QED
    BY <2>1, NatLessThanWellFounded, WFMin
<1>2. x \in i..n /\ x # i /\ at[x] < at[i]
  <2>1. x \in T
    BY <1>1
  <2>2. x \in i..n /\ at[x] < at[i] /\ at[i] \in Nat
    BY <2>1
  <2> QED
    BY <2>2
<1>3. x - 1 \in i..n /\ x - 1 \in 1..n - 1 /\ (x - 1) + 1 = x
  BY <1>2
<1>4. at[x - 1] <= at[x]
  BY <1>3
<1>5. at[x - 1] < at[i]
  BY <1>2, <1>3, <1>4
<1>6. x - 1 \in T
  BY <1>3, <1>5
<1>7. <<x - 1, x>> \in OpToRel(<, Nat)
  BY <1>3 DEF OpToRel
<1> QED
  BY <1>1, <1>6, <1>7

\* Joining two sequences keeps the first and puts the second behind it.
LEMMA Joined ==
  ASSUME NEW S, NEW s \in Seq(S), NEW t \in Seq(S)
  PROVE  /\ s \o t \in Seq(S) /\ Len(s \o t) = Len(s) + Len(t)
         /\ \A k \in 1..Len(s) : (s \o t)[k] = s[k]
         /\ \A k \in 1..Len(t) : (s \o t)[Len(s) + k] = t[k]
<1>1. /\ s \o t \in Seq(S) /\ Len(s \o t) = Len(s) + Len(t)
      /\ \A i \in 1..Len(s) + Len(t) :
           (s \o t)[i] = IF i <= Len(s) THEN s[i] ELSE t[i - Len(s)]
  BY ConcatProperties
<1>2. Len(s) \in Nat /\ Len(t) \in Nat
  OBVIOUS
<1>3. \A k \in 1..Len(s) : k \in 1..Len(s) + Len(t) /\ k <= Len(s)
  BY <1>2
<1>4. \A k \in 1..Len(t) : /\ Len(s) + k \in 1..Len(s) + Len(t)
                           /\ ~(Len(s) + k <= Len(s)) /\ (Len(s) + k) - Len(s) = k
  BY <1>2
<1> QED
  BY <1>1, <1>3, <1>4

\* A number is made of its quotient and its remainder.
LEMMA Parts ==
  ASSUME NEW n \in Nat, NEW b \in Nat \ {0}, NEW q \in Int, NEW r \in Int,
         q = n \div b, r = n % b
  PROVE  n = b * q + r
BY SMT

LEMMA Divides ==
  ASSUME NEW n \in Nat, NEW b \in Nat \ {0}
  PROVE  n \div b \in Nat /\ n % b \in 0..b - 1 /\ (n \div b) * b + (n % b) = n
<1>1. n \div b \in Nat /\ n % b \in 0..b - 1
  BY SMT
<1>2. PICK q \in Nat : q = n \div b
  BY <1>1
<1>3. PICK r \in 0..b-1 : r = n % b
  BY <1>1
<1>4. n = b * q + r
  BY <1>2, <1>3, Parts
<1>5. b * q = q * b
  BY SMT
<1>6. q * b + r = n
  BY <1>4, <1>5
<1> QED
  BY <1>1, <1>2, <1>3, <1>6, Zenon

-----------------------------------------------------------------------------
(* The bytes of a record.                                                  *)

\* Six sequences joined: where each lies (but the fifth, which is skipped).
SixLie(A, B, C, D, E, F) ==
  LET e == A \o B \o C \o D \o E \o F
      b == Len(A)
      c == b + Len(B)
      d == c + Len(C)
      f == d + Len(D) + Len(E)
  IN  /\ Len(e) = f + Len(F)
      /\ \A k \in 1..Len(A) : e[k] = A[k]
      /\ \A k \in 1..Len(B) : e[b + k] = B[k]
      /\ \A k \in 1..Len(C) : e[c + k] = C[k]
      /\ \A k \in 1..Len(D) : e[d + k] = D[k]
      /\ \A k \in 1..Len(F) : e[f + k] = F[k]

LEMMA SixJoined ==
  ASSUME NEW S, NEW A \in Seq(S), NEW B \in Seq(S), NEW C \in Seq(S),
         NEW D \in Seq(S), NEW E \in Seq(S), NEW F \in Seq(S)
  PROVE  SixLie(A, B, C, D, E, F)
<1> DEFINE e == A \o B \o C \o D \o E \o F
           b == Len(A)
           c == b + Len(B)
           d == c + Len(C)
           f == d + Len(D) + Len(E)
<1> DEFINE two   == A \o B
           three == two \o C
           four  == three \o D
           five  == four \o E
<1>1. /\ two \in Seq(S) /\ Len(two) = c
      /\ \A k \in 1..b : two[k] = A[k]
      /\ \A k \in 1..Len(B) : two[b + k] = B[k]
  BY Joined
<1> HIDE DEF two
<1>2. /\ three \in Seq(S) /\ Len(three) = d
      /\ \A k \in 1..c : three[k] = two[k]
      /\ \A k \in 1..Len(C) : three[c + k] = C[k]
  <2>1. two \in Seq(S) /\ C \in Seq(S)
    BY <1>1
  <2>2. /\ two \o C \in Seq(S) /\ Len(two \o C) = Len(two) + Len(C)
        /\ \A k \in 1..Len(two) : (two \o C)[k] = two[k]
        /\ \A k \in 1..Len(C) : (two \o C)[Len(two) + k] = C[k]
    BY <2>1, Joined
  <2> QED
    BY <1>1, <2>2
<1> HIDE DEF three
<1>3. /\ four \in Seq(S) /\ Len(four) = d + Len(D)
      /\ \A k \in 1..d : four[k] = three[k]
      /\ \A k \in 1..Len(D) : four[d + k] = D[k]
  <2>1. three \in Seq(S) /\ D \in Seq(S)
    BY <1>2
  <2>2. /\ three \o D \in Seq(S) /\ Len(three \o D) = Len(three) + Len(D)
        /\ \A k \in 1..Len(three) : (three \o D)[k] = three[k]
        /\ \A k \in 1..Len(D) : (three \o D)[Len(three) + k] = D[k]
    BY <2>1, Joined
  <2> QED
    BY <1>2, <2>2
<1> HIDE DEF four
<1>4. /\ five \in Seq(S) /\ Len(five) = f
      /\ \A k \in 1..d + Len(D) : five[k] = four[k]
  <2>1. four \in Seq(S) /\ E \in Seq(S)
    BY <1>3
  <2>2. /\ four \o E \in Seq(S) /\ Len(four \o E) = Len(four) + Len(E)
        /\ \A k \in 1..Len(four) : (four \o E)[k] = four[k]
        /\ \A k \in 1..Len(E) : (four \o E)[Len(four) + k] = E[k]
    BY <2>1, Joined
  <2> QED
    BY <1>3, <2>2
<1> HIDE DEF five
<1>5. e = five \o F
  BY DEF five, four, three, two
<1> HIDE DEF e
<1>6. /\ Len(e) = f + Len(F)
      /\ \A k \in 1..f : e[k] = five[k]
      /\ \A k \in 1..Len(F) : e[f + k] = F[k]
  <2>1. five \in Seq(S) /\ F \in Seq(S)
    BY <1>4
  <2>2. /\ five \o F \in Seq(S) /\ Len(five \o F) = Len(five) + Len(F)
        /\ \A k \in 1..Len(five) : (five \o F)[k] = five[k]
        /\ \A k \in 1..Len(F) : (five \o F)[Len(five) + k] = F[k]
    BY <2>1, Joined
  <2> QED
    BY <1>4, <1>5, <2>2
<1>7. /\ Len(A) \in Nat /\ Len(B) \in Nat /\ Len(C) \in Nat /\ Len(D) \in Nat
      /\ Len(E) \in Nat /\ b \in Nat /\ c \in Nat /\ d \in Nat /\ f \in Nat
      /\ b <= c /\ c <= d /\ d <= d + Len(D) /\ d + Len(D) <= f
  OBVIOUS
<1>8. \A k \in 1..d + Len(D) : e[k] = four[k]
  <2>1. \A k \in 1..d + Len(D) : k \in 1..f
    BY <1>7
  <2> QED
    BY <1>4, <1>6, <2>1
<1>9. \A k \in 1..d : e[k] = three[k]
  <2>1. \A k \in 1..d : k \in 1..d + Len(D)
    BY <1>7
  <2> QED
    BY <1>3, <1>8, <2>1
<1>10. \A k \in 1..c : e[k] = two[k]
  BY <1>2, <1>7, <1>9
<1>11. \A k \in 1..Len(A) : e[k] = A[k]
  BY <1>1, <1>7, <1>10
<1>12. \A k \in 1..Len(B) : e[b + k] = B[k]
  <2>1. \A k \in 1..Len(B) : b + k \in 1..c
    BY <1>7
  <2> QED
    BY <1>1, <1>10, <2>1
<1>13. \A k \in 1..Len(C) : e[c + k] = C[k]
  <2>1. \A k \in 1..Len(C) : c + k \in 1..d
    BY <1>7
  <2> QED
    BY <1>2, <1>9, <2>1
<1>14. \A k \in 1..Len(D) : e[d + k] = D[k]
  <2>1. \A k \in 1..Len(D) : d + k \in 1..d + Len(D)
    BY <1>7
  <2> QED
    BY <1>3, <1>8, <2>1
<1> QED
  BY <1>6, <1>11, <1>12, <1>13, <1>14 DEF e, SixLie

\* The four bytes of a length are its digits.
LEMMA LongLenFact ==
  ASSUME NEW n \in Nat
  PROVE  LET l == LongLen(n)
         IN  /\ l \in Seq(Nat) /\ Len(l) = 4
             /\ ((l[1] * Base + l[2]) * Base + l[3]) * Base + l[4] = n
<1> DEFINE n1 == n \div Base
           n2 == n1 \div Base
           l == LongLen(n)
<1>1. Base \in Nat \ {0}
  BY WordFact
<1>2. n1 \in Nat /\ n % Base \in 0..Base - 1 /\ n1 * Base + (n % Base) = n
  BY <1>1, Divides
<1>3. n2 \in Nat /\ n1 % Base \in 0..Base - 1 /\ n2 * Base + (n1 % Base) = n1
  <2> HIDE DEF n1
  <2> QED
    BY <1>1, <1>2, Divides
<1>4. /\ n2 \div Base \in Nat /\ n2 % Base \in 0..Base - 1
      /\ (n2 \div Base) * Base + (n2 % Base) = n2
  <2> HIDE DEF n2
  <2> QED
    BY <1>1, <1>3, Divides
<1>5. l = <<n2 \div Base, n2 % Base, n1 % Base, n % Base>>
  BY DEF LongLen
<1> HIDE DEF n1, n2, l
<1>6. n2 % Base \in Nat /\ n1 % Base \in Nat /\ n % Base \in Nat
  BY <1>1, <1>2, <1>3, <1>4
<1>7. l \in Seq(Nat) /\ Len(l) = 4 /\ l[1] = n2 \div Base /\ l[2] = n2 % Base
      /\ l[3] = n1 % Base /\ l[4] = n % Base
  BY <1>4, <1>5, <1>6
<1>8. ((l[1] * Base + l[2]) * Base + l[3]) * Base + l[4] = n
  <2>1. l[1] * Base + l[2] = n2
    BY <1>4, <1>7
  <2>2. n2 * Base + l[3] = n1
    BY <1>3, <1>7
  <2>3. n1 * Base + l[4] = n
    BY <1>2, <1>7
  <2> QED
    BY <2>1, <2>2, <2>3
<1> QED
  BY <1>7, <1>8 DEF l

\* Where a record's type and its payload begin.
IdOf(r) == IF r.il THEN r.id ELSE <<>>
TypeFrom(r) == 2 + (IF r.sr THEN 1 ELSE 4) + (IF r.il THEN 1 ELSE 0)
PayloadFrom(r) == TypeFrom(r) + Len(r.type) + Len(IdOf(r))

LEMMA EncodeFact ==
  ASSUME NEW r \in WrittenRecord, NEW last \in BOOLEAN
  PROVE  LET e == Encode(r, last)
         IN  /\ Len(e) = PayloadFrom(r) + Len(r.payload)
             /\ e[1] = Flags(r, last) /\ e[2] = Len(r.type)
             /\ r.sr => e[3] = Len(r.payload)
             /\ ~r.sr =>
                  ((e[3] * Base + e[4]) * Base + e[5]) * Base + e[6] = Len(r.payload)
             /\ r.il => e[TypeFrom(r)] = Len(r.id)
             /\ \A k \in 1..Len(r.type) : e[TypeFrom(r) + k] = r.type[k]
             /\ \A k \in 1..Len(r.payload) : e[PayloadFrom(r) + k] = r.payload[k]
<1> DEFINE enc == Encode(r, last)
           pre == <<Flags(r, last), Len(r.type)>>
           lng == IF r.sr THEN <<Len(r.payload)>> ELSE LongLen(Len(r.payload))
           idl == IF r.il THEN <<Len(r.id)>> ELSE <<>>
           typ == r.type
           ids == IdOf(r)
           pay == r.payload
<1>1. /\ typ \in Seq(Nat) /\ r.id \in Seq(Nat) /\ pay \in Seq(Nat)
      /\ r.sr \in BOOLEAN /\ r.il \in BOOLEAN
  <2>1. 0..Base - 1 \subseteq Nat
    BY WordFact
  <2> QED
    BY <2>1, SeqMonotonic DEF WrittenRecord
<1>2. Len(typ) \in Nat /\ Len(r.id) \in Nat /\ Len(pay) \in Nat
  BY <1>1
<1>3. pre \in Seq(Nat) /\ Len(pre) = 2 /\ pre[1] = Flags(r, last) /\ pre[2] = Len(typ)
  <2>1. Flags(r, last) \in Nat
    BY NdefAssumption DEF Flags, Flag
  <2> QED
    BY <1>2, <2>1
<1>4. /\ lng \in Seq(Nat)
      /\ r.sr => Len(lng) = 1 /\ lng[1] = Len(pay)
      /\ ~r.sr => /\ Len(lng) = 4
                  /\ ((lng[1] * Base + lng[2]) * Base + lng[3]) * Base + lng[4] = Len(pay)
  <2>1. CASE r.sr
    BY <1>2, <2>1
  <2>2. CASE ~r.sr
    <3> DEFINE m == Len(pay)
    <3>1. m \in Nat
      BY <1>2
    <3> HIDE DEF m
    <3>2. LET h == LongLen(m)
          IN  /\ h \in Seq(Nat) /\ Len(h) = 4
              /\ ((h[1] * Base + h[2]) * Base + h[3]) * Base + h[4] = m
      BY <3>1, LongLenFact
    <3> QED
      BY <2>2, <3>2 DEF m
  <2> QED
    BY <2>1, <2>2
<1>5. idl \in Seq(Nat) /\ Len(idl) = (IF r.il THEN 1 ELSE 0) /\ (r.il => idl[1] = Len(r.id))
  BY <1>2
<1>6. ids \in Seq(Nat) /\ Len(ids) \in Nat
  BY <1>1 DEF IdOf
<1>7. enc = pre \o lng \o idl \o typ \o ids \o pay
  BY DEF Encode, IdOf
<1> HIDE DEF enc, pre, lng, idl, typ, ids, pay
<1> DEFINE idAt == 2 + Len(lng)
           typAt == idAt + Len(idl)
           payAt == typAt + Len(typ) + Len(ids)
<1>8. /\ Len(enc) = payAt + Len(pay)
      /\ \A k \in 1..Len(pre) : enc[k] = pre[k]
      /\ \A k \in 1..Len(lng) : enc[2 + k] = lng[k]
      /\ \A k \in 1..Len(idl) : enc[idAt + k] = idl[k]
      /\ \A k \in 1..Len(typ) : enc[typAt + k] = typ[k]
      /\ \A k \in 1..Len(pay) : enc[payAt + k] = pay[k]
  <2>1. /\ pre \in Seq(Nat) /\ lng \in Seq(Nat) /\ idl \in Seq(Nat)
        /\ typ \in Seq(Nat) /\ ids \in Seq(Nat) /\ pay \in Seq(Nat)
    BY <1>1, <1>3, <1>4, <1>5, <1>6
  <2>2. SixLie(pre, lng, idl, typ, ids, pay)
    BY <2>1, SixJoined
  <2>3. /\ Len(enc) = Len(pre) + Len(lng) + Len(idl) + Len(typ) + Len(ids) + Len(pay)
        /\ \A k \in 1..Len(pre) : enc[k] = pre[k]
        /\ \A k \in 1..Len(lng) : enc[Len(pre) + k] = lng[k]
        /\ \A k \in 1..Len(idl) : enc[Len(pre) + Len(lng) + k] = idl[k]
        /\ \A k \in 1..Len(typ) : enc[Len(pre) + Len(lng) + Len(idl) + k] = typ[k]
        /\ \A k \in 1..Len(pay) :
             enc[Len(pre) + Len(lng) + Len(idl) + Len(typ) + Len(ids) + k] = pay[k]
    BY <1>7, <2>2 DEF SixLie
  <2>4. Len(pre) = 2
    BY <1>3
  <2> QED
    BY <2>3, <2>4
<1>9. idAt = 2 + (IF r.sr THEN 1 ELSE 4) /\ typAt = TypeFrom(r) /\ payAt = PayloadFrom(r)
  BY <1>1, <1>4, <1>5 DEF TypeFrom, PayloadFrom, typ, ids
<1> HIDE DEF idAt, typAt, payAt
<1>10. enc[1] = Flags(r, last) /\ enc[2] = Len(r.type)
  <2>1. 1 \in 1..2 /\ 2 \in 1..2
    OBVIOUS
  <2> QED
    BY <1>3, <1>8, <2>1 DEF typ
<1>11. r.sr => enc[3] = Len(r.payload)
  <2>1. ASSUME r.sr PROVE enc[3] = Len(pay)
    <3>1. Len(lng) = 1 /\ lng[1] = Len(pay) /\ 1 \in 1..1 /\ 2 + 1 = 3
      BY <1>4, <2>1
    <3> QED
      BY <1>8, <3>1
  <2> QED
    BY <2>1 DEF pay
<1>12. ~r.sr => ((enc[3] * Base + enc[4]) * Base + enc[5]) * Base + enc[6] = Len(r.payload)
  <2>1. 1 \in 1..4 /\ 2 \in 1..4 /\ 3 \in 1..4 /\ 4 \in 1..4
        /\ 2 + 1 = 3 /\ 2 + 2 = 4 /\ 2 + 3 = 5 /\ 2 + 4 = 6
    OBVIOUS
  <2>2. ASSUME ~r.sr
        PROVE  /\ enc[3] = lng[1] /\ enc[4] = lng[2] /\ enc[5] = lng[3]
               /\ enc[6] = lng[4]
    <3>1. \A k \in 1..4 : enc[2 + k] = lng[k]
      BY <1>4, <1>8, <2>2
    <3>2. enc[2 + 1] = lng[1] /\ enc[2 + 2] = lng[2] /\ enc[2 + 3] = lng[3]
          /\ enc[2 + 4] = lng[4]
      BY <2>1, <3>1
    <3> QED
      BY <2>1, <3>2
  <2>3. ~r.sr => ((lng[1] * Base + lng[2]) * Base + lng[3]) * Base + lng[4] = Len(pay)
    BY <1>4
  <2> QED
    BY <2>2, <2>3 DEF pay
<1>13. r.il => enc[TypeFrom(r)] = Len(r.id)
  <2>1. ASSUME r.il PROVE enc[TypeFrom(r)] = Len(r.id)
    <3>1. Len(idl) = 1 /\ idl[1] = Len(r.id)
      BY <1>5, <2>1
    <3>2. 1 \in 1..1 /\ idAt + 1 = TypeFrom(r)
      BY <1>9, <2>1 DEF TypeFrom
    <3> QED
      BY <1>8, <3>1, <3>2
  <2> QED
    BY <2>1
<1> QED
  BY <1>8, <1>9, <1>10, <1>11, <1>12, <1>13 DEF enc, typ, pay

-----------------------------------------------------------------------------
(* Where the records lie, and what the decoder reads there.                *)

Total == Len(msg.written)
RecordBytes(i) == Encode(msg.written[i], i = Total)

LEMMA WrittenFact ==
  ASSUME msg \in Messages, msg.written # <<>>
  PROVE  /\ Total \in Nat /\ len \in Nat /\ Word \in Nat
         /\ \A i \in 1..Total : msg.written[i] \in WrittenRecord
         /\ \A i \in 1..Total + 1 : msg.at[i] \in Nat
         /\ msg.at[1] = 0 /\ len <= msg.at[Total + 1] /\ msg.at[Total + 1] < Word
         /\ \A i \in 1..Total :
              /\ Len(RecordBytes(i)) \in Nat /\ Len(RecordBytes(i)) > 0
              /\ msg.at[i + 1] = msg.at[i] + Len(RecordBytes(i))
              /\ \A k \in 1..Len(RecordBytes(i)) :
                   msg.at[i] + k <= len => msg.bytes[msg.at[i] + k] = RecordBytes(i)[k]
<1> DEFINE pieces == Encodings(msg.written)
<1>1. /\ msg.written \in Seq(WrittenRecord) /\ LaidOut(msg.bytes, pieces, msg.at)
      /\ msg.at[Total + 1] < Word
  BY FormatAssumption DEF Total
<1>2. Total \in Nat /\ len \in Nat /\ Word \in Nat
  BY <1>1, NdefAssumption, WordFact DEF Total, len
<1>3. Len(pieces) = Total /\ \A i \in 1..Total : pieces[i] = RecordBytes(i)
  BY <1>2 DEF Encodings, Total, RecordBytes
<1> HIDE DEF pieces
<1>4. \A i \in 1..Total : msg.written[i] \in WrittenRecord
  BY <1>1 DEF Total
<1>5. /\ msg.at \in Seq(Nat) /\ Len(msg.at) = Total + 1 /\ msg.at[1] = 0
      /\ len <= msg.at[Total + 1]
      /\ \A i \in 1..Total :
           /\ msg.at[i + 1] = msg.at[i] + Len(RecordBytes(i))
           /\ \A k \in 1..Len(RecordBytes(i)) :
                msg.at[i] + k <= len => msg.bytes[msg.at[i] + k] = RecordBytes(i)[k]
  BY <1>1, <1>3 DEF LaidOut, len
<1>6. \A i \in 1..Total + 1 : msg.at[i] \in Nat
  BY <1>2, <1>5
<1>7. ASSUME NEW i \in 1..Total
      PROVE  Len(RecordBytes(i)) \in Nat /\ Len(RecordBytes(i)) > 0
  <2> DEFINE w == msg.written[i]
             final == (i = Total)
  <2>1. w \in WrittenRecord /\ final \in BOOLEAN
    BY <1>4
  <2>2. Len(w.type) \in Nat /\ Len(w.id) \in Nat /\ Len(w.payload) \in Nat
        /\ Len(<<>>) = 0
    BY SMTT(60), <2>1 DEF WrittenRecord
  <2>3. RecordBytes(i) = Encode(w, final)
    BY DEF RecordBytes
  <2> HIDE DEF w, final
  <2>4. Len(RecordBytes(i)) = PayloadFrom(w) + Len(w.payload)
    BY <2>1, <2>3, EncodeFact
  <2>5. PayloadFrom(w) \in Nat /\ PayloadFrom(w) > 0
    <3>1. Len(IdOf(w)) \in Nat
      BY <2>2 DEF IdOf
    <3>2. TypeFrom(w) \in Nat /\ TypeFrom(w) > 0
      BY DEF TypeFrom
    <3> QED
      BY <2>2, <3>1, <3>2 DEF PayloadFrom
  <2> QED
    BY <2>2, <2>4, <2>5
<1> QED
  BY <1>1, <1>2, <1>4, <1>5, <1>6, <1>7

\* A record lies behind those before it.
LEMMA InOrder ==
  ASSUME msg \in Messages, msg.written # <<>>,
         NEW i \in 1..Total + 1, NEW j \in i..Total + 1
  PROVE  msg.at[i] <= msg.at[j]
<1> DEFINE places == msg.at
           m == Total + 1
<1>1. \A h \in 1..m : places[h] \in Nat
  BY WrittenFact
<1>2. ASSUME NEW h \in 1..m - 1 PROVE places[h] <= places[h + 1]
  <2>1. Total \in Nat /\ h \in 1..Total
    BY WrittenFact
  <2>2. /\ Len(RecordBytes(h)) \in Nat /\ places[h] \in Nat
        /\ places[h + 1] = places[h] + Len(RecordBytes(h))
    BY <2>1, <1>1, WrittenFact
  <2> QED
    BY <2>2
<1>3. m \in Nat
  BY WrittenFact
<1> HIDE DEF places, m
<1>4. i \in 1..m /\ j \in i..m
  BY DEF m
<1>5. places[i] <= places[j]
  BY <1>1, <1>2, <1>3, <1>4, Ascending
<1> QED
  BY <1>5 DEF places

\* At a record written, the decoder reads that record; it fits if the message
\* holds it whole.
LEMMA ReadsRecord ==
  ASSUME msg \in Messages, msg.written # <<>>, NEW i \in 1..Total,
         NEW q, q = msg.at[i], q < len
  PROVE  LET w == msg.written[i]
         IN  /\ HasBit(Byte(q), MeBit) <=> i = Total
             /\ Fits(q) <=> msg.at[i + 1] <= len
             /\ Fits(q) =>
                  /\ After(q) = msg.at[i + 1]
                  /\ TypeAt(q) = q + TypeFrom(w) /\ TypeLen(q) = Len(w.type)
                  /\ PayloadAt(q) = q + PayloadFrom(w)
                  /\ PayloadLen(q) = Len(w.payload)
<1> DEFINE w == msg.written[i]
           final == (i = Total)
           e == RecordBytes(i)
           n == Len(w.type)
           m == Len(IdOf(w))
           h == Len(w.payload)
           from == TypeFrom(w)
           pfrom == PayloadFrom(w)
           next == msg.at[i + 1]
<1>1. /\ q \in Nat /\ len \in Nat /\ Word \in Nat /\ w \in WrittenRecord
      /\ final \in BOOLEAN /\ i \in 1..Total /\ Total \in Nat
  BY WrittenFact
<1>2. n \in Nat /\ Len(w.id) \in Nat /\ h \in Nat /\ m \in Nat
      /\ w.sr \in BOOLEAN /\ w.il \in BOOLEAN
      /\ m = IF w.il THEN Len(w.id) ELSE 0
  <2>1. n \in Nat /\ Len(w.id) \in Nat /\ h \in Nat
        /\ w.sr \in BOOLEAN /\ w.il \in BOOLEAN
    <3> HIDE DEF w
    <3> QED
      BY <1>1 DEF WrittenRecord
  <2>2. m = IF w.il THEN Len(w.id) ELSE 0
    <3> HIDE DEF w
    <3>1. Len(<<>>) = 0
      OBVIOUS
    <3> QED
      BY <3>1 DEF IdOf
  <2> QED
    BY <2>1, <2>2
<1>3. /\ e = Encode(w, final) /\ Len(e) \in Nat /\ next = q + Len(e)
      /\ \A k \in 1..Len(e) : q + k <= len => msg.bytes[q + k] = e[k]
  BY WrittenFact DEF RecordBytes
<1>4. next \in Nat /\ next < Word
  <2>1. i + 1 \in 1..Total + 1 /\ Total + 1 \in i + 1..Total + 1
    BY <1>1
  <2>2. next <= msg.at[Total + 1] /\ next \in Nat /\ msg.at[Total + 1] \in Nat
        /\ msg.at[Total + 1] < Word
    BY <1>1, <2>1, InOrder, WrittenFact
  <2> QED
    BY <1>1, <2>2
<1>5. /\ from \in Nat /\ pfrom = from + n + m
      /\ from = 2 + (IF w.sr THEN 1 ELSE 4) + (IF w.il THEN 1 ELSE 0)
  BY <1>2 DEF TypeFrom, PayloadFrom
<1> HIDE DEF w, final, e, from, pfrom, next
<1>6. /\ Len(e) = pfrom + h
      /\ e[1] = Flags(w, final) /\ e[2] = n
      /\ w.sr => e[3] = h
      /\ ~w.sr => ((e[3] * Base + e[4]) * Base + e[5]) * Base + e[6] = h
      /\ w.il => e[from] = Len(w.id)
  BY <1>1, <1>3, EncodeFact DEF from, pfrom
<1> HIDE DEF n, m, h
<1>7. from >= 3 /\ from <= Len(e) /\ pfrom <= Len(e) /\ from <= pfrom /\ pfrom \in Nat
  <2>1. Len(e) = pfrom + h
    BY <1>6
  <2>2. from >= 3
    BY <1>5
  <2> QED
    <3>1. n \in Nat /\ h \in Nat /\ m \in Nat
      BY <1>2
    <3>2. from \in Nat /\ pfrom = from + n + m
      BY <1>5
    <3> QED
      BY <2>1, <2>2, <3>1, <3>2
<1>8. ASSUME NEW k \in 1..from, q + k <= len PROVE Byte(q + k - 1) = e[k]
  <2>1. k \in 1..Len(e) /\ (q + k - 1) + 1 = q + k
    BY <1>1, <1>3, <1>5, <1>7
  <2> QED
    BY <1>3, <1>8, <2>1 DEF Byte
<1>9. Byte(q) = Flags(w, final)
  <2>1. 1 \in 1..from /\ q + 1 <= len /\ q + 1 - 1 = q
    BY <1>1, <1>5, <1>7
  <2>2. Byte(q + 1 - 1) = e[1]
    BY <1>8, <2>1
  <2> QED
    BY <1>6, <2>1, <2>2
<1>10. /\ HasBit(Byte(q), MeBit) <=> final
       /\ SR(q) <=> w.sr
       /\ IL(q) <=> w.il
  BY <1>1, <1>2, <1>9, FormatAssumption DEF Flags, SR, IL
<1>11. TypeAt(q) = q + from
  BY SMTT(60), <1>1, <1>5, <1>10 DEF TypeAt
<1>12. HeaderFits(q) <=> q + from <= len
  BY <1>1, <1>5, <1>7, <1>11 DEF HeaderFits
<1>13. ASSUME q + from <= len
       PROVE  /\ TypeLen(q) = n /\ IdLen(q) = m /\ PayloadLen(q) = h
              /\ PayloadAt(q) = q + pfrom /\ After(q) = next
  <2>1. TypeLen(q) = n
    <3>1. 2 \in 1..from /\ q + 2 <= len /\ q + 2 - 1 = q + 1
      BY <1>1, <1>5, <1>7, <1>13
    <3>2. Byte(q + 2 - 1) = e[2]
      BY <1>8, <3>1
    <3> QED
      BY <1>6, <3>1, <3>2 DEF TypeLen
  <2>2. IdLen(q) = m
    <3>1. CASE w.il
      <4>1. from \in 1..from /\ q + from - 1 = TypeAt(q) - 1
        BY SMTT(60), <1>1, <1>5, <1>7, <1>11
      <4>2. Byte(q + from - 1) = e[from]
        BY <1>8, <1>13, <4>1
      <4> QED
        BY <1>2, <1>6, <1>10, <3>1, <4>1, <4>2 DEF IdLen
    <3>2. CASE ~w.il
      BY <1>2, <1>10, <3>2 DEF IdLen
    <3> QED
      BY <3>1, <3>2
  <2>3. PayloadLen(q) = h
    <3>1. CASE w.sr
      <4>1. 3 \in 1..from /\ q + 3 <= len /\ q + 3 - 1 = q + 2
        BY <1>1, <1>5, <1>7, <1>13
      <4>2. Byte(q + 3 - 1) = e[3]
        BY <1>8, <4>1
      <4> QED
        BY <1>6, <1>10, <3>1, <4>1, <4>2 DEF PayloadLen
    <3>2. CASE ~w.sr
      <4>1. /\ 3 \in 1..from /\ q + 3 <= len /\ q + 3 - 1 = q + 2
            /\ 4 \in 1..from /\ q + 4 <= len /\ q + 4 - 1 = q + 3
            /\ 5 \in 1..from /\ q + 5 <= len /\ q + 5 - 1 = q + 4
            /\ 6 \in 1..from /\ q + 6 <= len /\ q + 6 - 1 = q + 5
        BY SMTT(60), <1>1, <1>2, <1>5, <1>13, <3>2
      <4>2. /\ Byte(q + 3 - 1) = e[3] /\ Byte(q + 4 - 1) = e[4]
            /\ Byte(q + 5 - 1) = e[5] /\ Byte(q + 6 - 1) = e[6]
        BY <1>8, <4>1
      <4>3. /\ Byte(q + 2) = e[3] /\ Byte(q + 3) = e[4]
            /\ Byte(q + 4) = e[5] /\ Byte(q + 5) = e[6]
        BY <4>1, <4>2
      <4>4. PayloadLen(q) = ((e[3] * Base + e[4]) * Base + e[5]) * Base + e[6]
        BY <1>10, <3>2, <4>3 DEF PayloadLen
      <4> QED
        BY <1>6, <3>2, <4>4
    <3> QED
      BY <3>1, <3>2
  <2>4. PayloadAt(q) = q + pfrom
    <3>1. n \in Nat /\ m \in Nat /\ from \in Nat /\ pfrom = from + n + m
      BY <1>2, <1>5
    <3>2. PayloadAt(q) = (q + from) + n + m
      BY <1>11, <2>1, <2>2 DEF PayloadAt
    <3> QED
      BY <1>1, <3>1, <3>2
  <2>5. After(q) = next
    <3>1. PayloadAt(q) + PayloadLen(q) = next
      BY <1>1, <1>2, <1>3, <1>6, <1>7, <2>3, <2>4
    <3> QED
      BY <1>1, <1>4, <3>1 DEF After
  <2> QED
    BY <2>1, <2>2, <2>3, <2>4, <2>5
<1>14. Fits(q) <=> next <= len
  <2>1. next <= len => q + from <= len /\ q + pfrom <= len
    BY SMTT(60), <1>1, <1>3, <1>4, <1>5, <1>7
  <2> QED
    BY <1>12, <1>13, <2>1 DEF Fits
<1>15. Fits(q) => q + from <= len
  BY <1>12 DEF Fits
<1> QED
  BY <1>10, <1>11, <1>13, <1>14, <1>15 DEF final, w, n, h, from, pfrom, next

\* A piece of one sequence that another one begins with.
LEMMA SamePiece ==
  ASSUME NEW S, NEW s \in Seq(S), NEW t \in Seq(S), NEW a \in Nat, NEW n \in Nat,
         a + n <= Len(s), n <= Len(t), \A k \in 1..n : s[a + k] = t[k]
  PROVE  SubSeq(s, a + 1, a + n) = SubSeq(t, 1, n)
<1> DEFINE x == SubSeq(s, a + 1, a + n)
           y == SubSeq(t, 0 + 1, 0 + n)
<1>1. x \in Seq(S) /\ Len(x) = n /\ \A i \in 1..n : x[i] = s[a + i]
  BY Piece
<1>2. y \in Seq(S) /\ Len(y) = n /\ \A i \in 1..n : y[i] = t[0 + i]
  <2>1. 0 \in Nat /\ 0 + n <= Len(t)
    OBVIOUS
  <2> QED
    BY <2>1, Piece
<1>3. y = SubSeq(t, 1, n)
  OBVIOUS
<1> HIDE DEF x, y
<1>4. \A i \in 1..n : x[i] = y[i]
  BY <1>1, <1>2
<1>5. x = y
  BY <1>1, <1>2, <1>4, SeqEqual
<1> QED
  BY <1>3, <1>5 DEF x

\* What is stored of a record that fits is what was written of it.
LEMMA StoresRecord ==
  ASSUME msg \in Messages, msg.written # <<>>, NEW i \in 1..Total,
         NEW q, q = msg.at[i], q < len, Fits(q)
  PROVE  Decoded(RecordAt(q)) = Written(msg.written[i])
<1> DEFINE w == msg.written[i]
           e == RecordBytes(i)
           k == Smaller(Len(w.type), MaxType)
           typ == w.type
           pay == w.payload
           from == q + TypeFrom(w)
           pfrom == q + PayloadFrom(w)
           bytes == msg.bytes
           h == Len(w.payload)
           Digits == 0..Base - 1
<1>1. /\ q \in Nat /\ len \in Nat /\ w \in WrittenRecord
      /\ (i = Total) \in BOOLEAN /\ MaxType \in Nat
  BY WrittenFact, NdefAssumption
<1>2. typ \in Seq(Digits) /\ pay \in Seq(Digits) /\ Len(w.id) \in Nat
      /\ bytes \in Seq(Digits) /\ len = Len(bytes)
  <2>1. bytes \in Seq(Digits)
    BY NdefAssumption
  <2>2. typ \in Seq(Digits) /\ pay \in Seq(Digits) /\ w.id \in Seq(Digits)
    BY <1>1 DEF WrittenRecord
  <2>3. Len(w.id) \in Nat
    <3> HIDE DEF w
    <3> QED
      BY <2>2
  <2> QED
    BY <2>1, <2>2, <2>3 DEF len
<1>3. /\ TypeAt(q) = from /\ TypeLen(q) = Len(typ)
      /\ PayloadAt(q) = pfrom /\ PayloadLen(q) = h
      /\ msg.at[i + 1] <= len
  BY ReadsRecord
<1>4. /\ Len(e) = PayloadFrom(w) + h
      /\ \A j \in 1..Len(typ) : e[TypeFrom(w) + j] = typ[j]
      /\ \A j \in 1..h : e[PayloadFrom(w) + j] = pay[j]
  BY <1>1, EncodeFact DEF RecordBytes
<1>5. /\ Len(e) \in Nat /\ msg.at[i + 1] = q + Len(e)
      /\ \A j \in 1..Len(e) : q + j <= len => bytes[q + j] = e[j]
  BY WrittenFact
<1>6. /\ TypeFrom(w) \in Nat /\ Len(typ) \in Nat /\ h \in Nat /\ PayloadFrom(w) \in Nat
      /\ TypeFrom(w) + Len(typ) <= PayloadFrom(w)
  <2>1. Len(IdOf(w)) \in Nat
    <3>1. Len(<<>>) = 0
      OBVIOUS
    <3> QED
      BY <1>2, <3>1 DEF IdOf
  <2>2. TypeFrom(w) \in Nat
    BY DEF TypeFrom
  <2>3. Len(typ) \in Nat /\ h \in Nat
    BY <1>2
  <2> QED
    BY SMTT(60), <2>1, <2>2, <2>3 DEF PayloadFrom
<1>7. \A j \in 1..Len(e) : bytes[q + j] = e[j]
  <2>1. \A j \in 1..Len(e) : q + j <= len
    BY <1>1, <1>3, <1>5
  <2> QED
    BY <1>5, <2>1
<1> HIDE DEF e, typ, pay, w, bytes, Digits, h
<1>8. k \in Nat /\ k <= Len(typ)
  BY <1>1, <1>6 DEF Smaller, typ
<1>9. from \in Nat /\ pfrom \in Nat /\ from + k <= Len(bytes) /\ pfrom + h <= Len(bytes)
  <2>1. /\ q \in Nat /\ Len(bytes) = len /\ len \in Nat
        /\ q + Len(e) <= len /\ Len(e) = PayloadFrom(w) + h
    BY <1>1, <1>2, <1>3, <1>4, <1>5
  <2>2. /\ TypeFrom(w) \in Nat /\ Len(typ) \in Nat /\ h \in Nat
        /\ PayloadFrom(w) \in Nat /\ TypeFrom(w) + Len(typ) <= PayloadFrom(w)
    BY <1>6
  <2> HIDE DEF k
  <2>3. from \in Nat /\ pfrom \in Nat
    <3>1. q \in Nat /\ TypeFrom(w) \in Nat /\ PayloadFrom(w) \in Nat
      BY <2>1, <2>2
    <3> QED
      BY <3>1
  <2>4. pfrom + h <= Len(bytes)
    BY <2>1, <2>2
  <2>5. from + k <= Len(bytes)
    <3>1. from + k <= pfrom
      <4>1. q \in Nat /\ TypeFrom(w) \in Nat /\ PayloadFrom(w) \in Nat
            /\ Len(typ) \in Nat
        BY <2>1, <2>2
      <4>2. TypeFrom(w) + Len(typ) <= PayloadFrom(w)
        BY <2>2
      <4> QED
        BY <1>8, <4>1, <4>2
    <3> HIDE DEF from, pfrom
    <3> QED
      BY <1>8, <2>2, <2>3, <2>4, <2>1, <3>1
  <2> QED
    BY <2>3, <2>4, <2>5
<1>10. \A j \in 1..k : bytes[from + j] = typ[j]
  <2>1. \A j \in 1..k : /\ TypeFrom(w) + j \in 1..Len(e) /\ j \in 1..Len(typ)
                        /\ q + (TypeFrom(w) + j) = from + j
    <3>1. Len(e) = PayloadFrom(w) + h /\ q \in Nat
      BY <1>1, <1>4
    <3> HIDE DEF k
    <3> QED
      BY SMTT(60), <1>6, <1>8, <3>1
  <2> QED
    BY <1>4, <1>7, <2>1
<1>11. \A j \in 1..h : bytes[pfrom + j] = pay[j]
  <2>1. \A j \in 1..h : /\ PayloadFrom(w) + j \in 1..Len(e)
                        /\ q + (PayloadFrom(w) + j) = pfrom + j
    BY SMTT(60), <1>1, <1>4, <1>6
  <2> QED
    BY <1>4, <1>7, <2>1
<1> HIDE DEF k, from, pfrom
<1>12. SubSeq(bytes, from + 1, from + k) = SubSeq(typ, 1, k)
  BY <1>2, <1>8, <1>9, <1>10, SamePiece
<1>13. SubSeq(bytes, pfrom + 1, pfrom + h) = pay
  <2>1. h = Len(pay) /\ h \in Nat /\ h <= Len(pay)
    BY <1>6 DEF h, pay
  <2>2. SubSeq(bytes, pfrom + 1, pfrom + h) = SubSeq(pay, 1, h)
    BY <1>2, <1>9, <1>11, <2>1, SamePiece
  <2>3. SubSeq(pay, 1, Len(pay)) = pay
    BY <1>2
  <2> QED
    BY <2>1, <2>2, <2>3
<1>14. /\ RecordAt(q).type = SubSeq(bytes, from + 1, from + k)
       /\ RecordAt(q).type_len = Len(typ)
       /\ RecordAt(q).payload = pfrom /\ RecordAt(q).payload_len = h
  BY <1>3 DEF RecordAt, k, typ, bytes
<1>15. Decoded(RecordAt(q)) =
         [type |-> SubSeq(typ, 1, k), type_len |-> Len(typ), payload |-> pay]
  <2>1. Decoded(RecordAt(q)) =
          [type |-> RecordAt(q).type, type_len |-> RecordAt(q).type_len,
           payload |-> SubSeq(bytes, RecordAt(q).payload + 1,
                              RecordAt(q).payload + RecordAt(q).payload_len)]
    BY DEF Decoded, bytes
  <2> QED
    BY <1>12, <1>13, <1>14, <2>1
<1> QED
  BY <1>15 DEF Written, k, typ, pay, w

-----------------------------------------------------------------------------
(* The records are recovered.                                              *)

LEMMA InitRecovers == Init => Recovering
<1> SUFFICES ASSUME Init, msg.written # <<>> PROVE Recovering
  BY DEF Recovering
<1>1. msg \in Messages /\ records = <<>> /\ pos = 0 /\ dpc = "decode" /\ truncated = FALSE
  BY DEF Init
<1>2. Count = 0 /\ EndOf(0) = 0 /\ len \in Nat /\ Total \in Nat
  BY <1>1, WrittenFact DEF Count, EndOf
<1>3. Total > 0
  <2>1. msg.written \in Seq(WrittenRecord)
    BY <1>1, FormatAssumption
  <2> QED
    BY <1>2, <2>1 DEF Total
<1> QED
  BY <1>1, <1>2, <1>3 DEF Recovering, Total

\* The next record is stored.
LEMMA StoreRecovers ==
  ASSUME IInv, Recovering, msg.written # <<>>, dpc = "decode", pos < len,
         ~Full, Fits(pos), records' = Append(records, RecordAt(pos)),
         pos' = After(pos), UNCHANGED <<msg, truncated>>,
         dpc' = IF HasBit(Byte(pos), MeBit) THEN "done" ELSE "decode"
  PROVE  Recovering'
<1> DEFINE stored == RecordAt(pos)
<1>1. /\ msg \in Messages /\ records \in Seq(Record) /\ Count \in Nat
      /\ Total \in Nat /\ len \in Nat
  BY WrittenFact DEF IInv, TypeOK, Count
<1>0. PICK i \in Nat : i = Count + 1
  BY <1>1
<1>2. /\ Count < Total /\ ~truncated /\ pos = msg.at[i] /\ i \in 1..Total /\ i \in Nat
  BY <1>0, <1>1 DEF Recovering, EndOf, Total
<1>3. /\ HasBit(Byte(pos), MeBit) <=> i = Total
      /\ msg.at[i + 1] <= len /\ After(pos) = msg.at[i + 1]
  BY <1>1, <1>2, ReadsRecord
<1>4. Decoded(stored) = Written(msg.written[i])
  BY <1>1, <1>2, StoresRecord
<1>5. stored \in Record
  <2>1. pos \in Nat
    BY WordFact DEF IInv, TypeOK
  <2> QED
    BY <1>1, <2>1, RecordFits
<1> HIDE DEF stored
<1>6. /\ Count' = i /\ records'[i] = stored
      /\ \A j \in 1..Count : records'[j] = records[j]
  <2>1. records' = Append(records, stored)
    BY DEF stored
  <2> QED
    BY <1>0, <1>1, <1>5, <2>1 DEF Count
<1>7. \A j \in 1..i : Decoded(records'[j]) = Written(msg.written[j])
  <2>1. ASSUME NEW j \in 1..i PROVE Decoded(records'[j]) = Written(msg.written[j])
    <3>1. CASE j = i
      BY <1>4, <1>6, <3>1
    <3>2. CASE j \in 1..Count
      BY <1>6, <3>2 DEF Recovering
    <3> QED
      <4>1. j = i \/ j \in 1..Count
        BY <1>0, <1>1
      <4> QED
        BY <3>1, <3>2, <4>1
  <2> QED
    BY <2>1
<1>8. /\ len' = len /\ Len(msg.written)' = Total /\ EndOf(i)' = EndOf(i)
      /\ msg.written' = msg.written /\ truncated' = truncated
  BY DEF len, Total, EndOf
<1>9. \A j \in 1..i : Decoded(records[j])' = Written(msg.written[j])'
  BY <1>7 DEF Decoded
<1>10. pos' = EndOf(Count)' /\ pos' <= len'
  BY <1>3, <1>6, <1>8 DEF EndOf, Count
<1>11. /\ dpc' = "decode" => i # Total
       /\ dpc' = "done" => i = Total
  BY <1>3
<1>12. Count' <= Total /\ (i # Total => Count' < Total)
  BY <1>0, <1>1, <1>2, <1>6
<1>13. \A j \in 1..Count' : Decoded(records[j])' = Written(msg.written[j])'
  BY <1>6, <1>9
<1>14. Count' <= Len(msg.written)' /\ ~truncated'
       /\ (dpc' = "decode" => Count' < Len(msg.written)')
       /\ (dpc' = "done" => Count' = Len(msg.written)')
  BY <1>2, <1>6, <1>8, <1>11, <1>12
<1> QED
  BY <1>10, <1>13, <1>14 DEF Recovering

\* The loop is left at a record that does not fit, at one there is no room
\* for, or at the end of what there is of the message.
LEMMA LeaveRecovers ==
  ASSUME IInv, Recovering, msg.written # <<>>, dpc = "decode", dpc' = "done",
         UNCHANGED <<msg, pos, records>>,
         \/ pos < len /\ Full /\ truncated'
         \/ pos < len /\ ~Full /\ ~Fits(pos) /\ truncated' = truncated
         \/ pos >= len /\ truncated' = truncated
  PROVE  Recovering'
<1> DEFINE i == Count + 1
<1>1. /\ msg \in Messages /\ Count \in Nat /\ Count <= MaxRecords
      /\ Total \in Nat /\ len \in Nat /\ MaxRecords \in Nat
  BY WrittenFact, NdefAssumption DEF IInv, TypeOK, Count
<1>2. /\ Count < Total /\ ~truncated /\ pos = msg.at[i] /\ i \in 1..Total
      /\ pos <= len /\ pos = EndOf(Count)
      /\ \A j \in 1..Count : Decoded(records[j]) = Written(msg.written[j])
  BY <1>1 DEF Recovering, EndOf, Total
<1>3. /\ len' = len /\ Len(msg.written)' = Total /\ Count' = Count /\ pos' = pos
      /\ msg.written' = msg.written /\ EndOf(Count)' = EndOf(Count)
      /\ EndOf(Count + 1)' = EndOf(Count + 1)
      /\ \A j \in 1..Count : Decoded(records[j])' = Written(msg.written[j])'
  BY <1>2 DEF len, Total, EndOf, Count, Decoded
<1>4. /\ msg.at[i] \in Nat /\ msg.at[i + 1] \in Nat /\ msg.at[i] < msg.at[i + 1]
  <2>1. i \in 1..Total + 1 /\ i + 1 \in 1..Total + 1 /\ i \in 1..Total
    BY <1>1, <1>2
  <2>2. /\ msg.at[i] \in Nat /\ Len(RecordBytes(i)) \in Nat /\ Len(RecordBytes(i)) > 0
        /\ msg.at[i + 1] = msg.at[i] + Len(RecordBytes(i))
    BY <1>1, <2>1, WrittenFact
  <2> QED
    BY <2>2
<1>5. CASE pos < len /\ Full /\ truncated'
  <2>1. Count = MaxRecords
    BY <1>1, <1>5 DEF Full, Count
  <2> QED
    BY <1>2, <1>3, <1>5, <2>1 DEF Recovering
<1>6. CASE pos < len /\ ~Full /\ ~Fits(pos) /\ truncated' = truncated
  <2>1. Count < MaxRecords
    BY <1>1, <1>6 DEF Full, Count
  <2>2. ~(msg.at[i + 1] <= len)
    BY <1>1, <1>2, <1>6, ReadsRecord
  <2>3. EndOf(Count + 1) > len
    BY <1>1, <1>4, <2>2 DEF EndOf
  <2> QED
    BY <1>2, <1>3, <1>6, <2>1, <2>3 DEF Recovering
<1>7. CASE pos >= len /\ truncated' = truncated
  <2>1. pos = len
    BY <1>1, <1>2, <1>4, <1>7
  <2>2. EndOf(Count + 1) > len
    BY <1>1, <1>2, <1>4, <2>1 DEF EndOf
  <2> QED
    BY <1>2, <1>3, <1>7, <2>1, <2>2 DEF Recovering
<1> QED
  BY <1>5, <1>6, <1>7

LEMMA NextRecovers == IInv /\ Recovering /\ [Next]_vars => Recovering'
<1> SUFFICES ASSUME IInv, Recovering, [Next]_vars, (msg.written # <<>>)'
             PROVE  Recovering'
  BY DEF Recovering
<1>1. msg' = msg /\ msg.written # <<>>
  BY DEF Next, DecodeRecord, EndOfMessage, Done, vars
<1>2. CASE DecodeRecord
  BY <1>1, <1>2, StoreRecovers, LeaveRecovers DEF DecodeRecord
<1>3. CASE EndOfMessage
  BY <1>1, <1>3, LeaveRecovers DEF EndOfMessage
<1>4. CASE Done \/ UNCHANGED vars
  <2>1. UNCHANGED <<msg, dpc, pos, records, truncated>>
    BY <1>4 DEF Done, vars
  <2> QED
    BY <2>1 DEF Recovering, EndOf, len, Count, Decoded
<1> QED
  BY <1>2, <1>3, <1>4 DEF Next

\* How many records the message holds whole.
LEMMA CompleteFact ==
  ASSUME msg \in Messages, msg.written # <<>>, NEW n \in 0..Total,
         EndOf(n) <= len
  PROVE  /\ Complete \in Nat /\ Complete >= n
         /\ (n < Total => EndOf(n + 1) > len) => Complete = n
<1> DEFINE T == {i \in 1..Total : EndOf(i) <= len}
<1>1. Total \in Nat /\ len \in Nat /\ n \in Nat /\ n <= Total
      /\ \A i \in 1..Total + 1 : msg.at[i] \in Nat
  BY WrittenFact
<1>2. Complete = Cardinality(T)
  <2>1. msg.written \in Seq(WrittenRecord)
    BY FormatAssumption
  <2> QED
    <3>1. DOMAIN msg.written = 1..Total
      BY <2>1 DEF Total
    <3> QED
      BY <3>1 DEF Complete
<1>3. IsFiniteSet(T)
  <2>1. IsFiniteSet(1..Total)
    BY <1>1, FS_Interval
  <2> QED
    BY <2>1, FS_Subset
<1>4. IsFiniteSet(1..n) /\ Cardinality(1..n) = n
  BY <1>1, FS_Interval
<1>5. 1..n \subseteq T
  <2>1. ASSUME NEW i \in 1..n PROVE EndOf(i) <= len
    <3>1. i + 1 \in 1..Total + 1 /\ n + 1 \in i + 1..Total + 1 /\ n + 1 \in 1..Total + 1
      BY <1>1
    <3>2. msg.at[i + 1] <= msg.at[n + 1]
      BY <3>1, InOrder
    <3>3. msg.at[i + 1] \in Nat /\ msg.at[n + 1] \in Nat
      BY <1>1, <3>1
    <3> QED
      BY <1>1, <3>2, <3>3 DEF EndOf
  <2> QED
    BY <1>1, <2>1
<1>6. Cardinality(T) \in Nat /\ Cardinality(T) >= n
  <2>1. Cardinality(1..n) <= Cardinality(T)
    BY <1>3, <1>5, FS_Subset
  <2> QED
    BY <1>1, <1>3, <1>4, <2>1, FS_CardinalityType
<1>7. ASSUME n < Total => EndOf(n + 1) > len PROVE T = 1..n
  <2>1. ASSUME NEW i \in T PROVE i \in 1..n
    <3>1. i \in 1..Total /\ msg.at[i + 1] <= len
      BY DEF EndOf
    <3> SUFFICES ASSUME i > n PROVE FALSE
      BY <1>1, <3>1
    <3>2. n < Total /\ (n + 1) + 1 \in 1..Total + 1 /\ i + 1 \in (n + 1) + 1..Total + 1
          /\ i + 1 \in 1..Total + 1
      BY <1>1, <3>1
    <3>3. msg.at[(n + 1) + 1] <= msg.at[i + 1]
      BY <3>2, InOrder
    <3>4. msg.at[(n + 1) + 1] \in Nat /\ msg.at[i + 1] \in Nat
      BY <1>1, <3>2
    <3>5. msg.at[(n + 1) + 1] > len
      BY <1>7, <3>2 DEF EndOf
    <3> QED
      BY <1>1, <3>1, <3>3, <3>4, <3>5
  <2> QED
    BY <1>5, <2>1
<1> HIDE DEF T
<1> QED
  BY <1>2, <1>4, <1>6, <1>7

\* When the loop has ended, what was decoded is what could be.
LEMMA RecoveredThen == IInv /\ Recovering => RecordsRecovered
<1> SUFFICES ASSUME IInv, Recovering, dpc = "done", msg.written # <<>>
             PROVE  /\ [i \in DOMAIN records |-> Decoded(records[i])]
                         = [i \in 1..Smaller(Complete, MaxRecords) |->
                              Written(msg.written[i])]
                    /\ truncated <=> /\ Len(msg.written) > MaxRecords
                                     /\ len > EndOf(MaxRecords)
  BY DEF RecordsRecovered
<1>1. /\ msg \in Messages /\ Count \in Nat /\ Count <= MaxRecords
      /\ Total \in Nat /\ len \in Nat /\ MaxRecords \in Nat /\ truncated \in BOOLEAN
      /\ DOMAIN records = 1..Count
      /\ \A i \in 1..Total + 1 : msg.at[i] \in Nat
  BY WrittenFact, NdefAssumption DEF IInv, TypeOK, Count
<1>2. /\ Count <= Total /\ pos = EndOf(Count) /\ pos <= len
      /\ \A i \in 1..Count : Decoded(records[i]) = Written(msg.written[i])
      /\ \/ Count = Total /\ ~truncated
         \/ /\ Count < Total /\ EndOf(Count + 1) > len /\ ~truncated
            /\ Count < MaxRecords \/ pos = len
         \/ Count < Total /\ Count = MaxRecords /\ pos < len /\ truncated
  BY DEF Recovering, Total
<1>3. /\ Complete \in Nat /\ Complete >= Count
      /\ (Count < Total => EndOf(Count + 1) > len) => Complete = Count
  BY <1>1, <1>2, CompleteFact
<1>4. Smaller(Complete, MaxRecords) = Count
  <2>1. CASE Complete = Count
    BY <1>1, <2>1 DEF Smaller
  <2>2. CASE Count = MaxRecords
    BY <1>1, <1>3, <2>2 DEF Smaller
  <2> QED
    <3>1. \/ Count = Total
          \/ Count < Total /\ EndOf(Count + 1) > len
          \/ Count = MaxRecords
      BY <1>2
    <3>2. Count = Total => ~(Count < Total)
      BY <1>1
    <3> QED
      BY <1>3, <2>1, <2>2, <3>1, <3>2
<1>5. ASSUME Total > MaxRecords PROVE EndOf(Count) <= EndOf(MaxRecords)
                                     /\ (Count < MaxRecords =>
                                           EndOf(Count + 1) <= EndOf(MaxRecords))
                                     /\ EndOf(MaxRecords) \in Nat
                                     /\ EndOf(Count + 1) \in Nat /\ EndOf(Count) \in Nat
  <2>1. /\ Count + 1 \in 1..Total + 1 /\ MaxRecords + 1 \in Count + 1..Total + 1
        /\ MaxRecords + 1 \in 1..Total + 1 /\ (Count + 1) + 1 \in 1..Total + 1
        /\ Count < MaxRecords => MaxRecords + 1 \in (Count + 1) + 1..Total + 1
    BY <1>1, <1>5
  <2>2. msg.at[Count + 1] <= msg.at[MaxRecords + 1]
    BY <1>1, <2>1, InOrder
  <2>3. Count < MaxRecords => msg.at[(Count + 1) + 1] <= msg.at[MaxRecords + 1]
    BY <1>1, <2>1, InOrder
  <2> QED
    BY <1>1, <2>1, <2>2, <2>3 DEF EndOf
<1>6. truncated <=> Total > MaxRecords /\ len > EndOf(MaxRecords)
  <2>1. CASE Count = Total /\ ~truncated
    BY <1>1, <2>1
  <2>2. CASE /\ Count < Total /\ EndOf(Count + 1) > len /\ ~truncated
             /\ Count < MaxRecords \/ pos = len
    <3> SUFFICES ASSUME Total > MaxRecords, len > EndOf(MaxRecords) PROVE FALSE
      BY <2>2
    <3> QED
      BY <1>1, <1>2, <1>5, <2>2
  <2>3. CASE Count < Total /\ Count = MaxRecords /\ pos < len /\ truncated
    BY <1>1, <1>2, <2>3
  <2> QED
    BY <1>2, <2>1, <2>2, <2>3
<1>7. [i \in DOMAIN records |-> Decoded(records[i])]
        = [i \in 1..Smaller(Complete, MaxRecords) |-> Written(msg.written[i])]
  BY <1>1, <1>2, <1>4
<1> QED
  BY <1>6, <1>7 DEF Total

LEMMA RecoveringInv == Spec => [](IInv /\ Recovering)
BY InitIInv, NextIInv, InitRecovers, NextRecovers, PTL DEF Spec

\* Of a message written in the format and cut anywhere, the complete records
\* are decoded, for every number of records, every header form and every
\* length; "truncated" says that there was no room for another one.
THEOREM Recovers == Spec => []RecordsRecovered
BY RecoveredThen, RecoveringInv, PTL

\* A pass of the loop ends it, or stores one more record where there is room.
Advances ==
  \/ dpc' = "done"
  \/ Len(records') = Len(records) + 1 /\ Len(records') <= MaxRecords

\* The loop cannot go on for ever, even where a payload length takes the
\* position back: each pass ends it or stores one more record, and there is
\* room for MaxRecords. DecodeEnds needs nothing else but that it is executed.
THEOREM PassesAreCounted == Spec => [][Advances]_vars
<1>1. ASSUME IInv, Next, dpc' # "done"
      PROVE  Advances
  <2>1. records' = Append(records, RecordAt(pos))
    BY <1>1 DEF Next, DecodeRecord, EndOfMessage, Done, vars
  <2>2. Len(records') <= MaxRecords
    BY <1>1, NextIInv DEF IInv, TypeOK
  <2>3. records \in Seq(Record)
    BY <1>1 DEF IInv, TypeOK
  <2>4. Len(records') = Len(records) + 1
    BY <2>1, <2>3
  <2>. QED
    BY <2>2, <2>4 DEF Advances
<1>2. IInv /\ [Next]_vars => [Advances]_vars
  BY <1>1 DEF Advances
<1>. QED
  BY <1>2, InitIInv, NextIInv, PTL DEF Spec
=============================================================================
