------------------------------ MODULE NdefDecode ------------------------------
(***************************************************************************)
(* rs_ndef_decode_message(): the records of an NDEF message, found one     *)
(* after another by the lengths in their headers.                          *)
(*                                                                         *)
(* A byte is a number below Base, with the three header bits the decoder   *)
(* looks at (0x40, 0x10 and 0x08 in the code) at MeBit, SrBit and IlBit;   *)
(* the TNF is data and left out.  A long payload length has four bytes, as *)
(* in the code, and positions are uint32_t: arithmetic is modulo Base^4.   *)
(* A message is so short (max_ndef_bytes <= 512) that only a long payload  *)
(* length can take a position past the end of that range.                  *)
(* Positions count from 0.  In the code MaxRecords = 8, MaxType = 32.      *)
(***************************************************************************)
EXTENDS Layout, FiniteSets

CONSTANTS
  Base, MeBit, SrBit, IlBit,
  MaxRecords,    \* RS_NDEF_MAX_RECORDS
  MaxType,       \* RS_NDEF_MAX_TYPE_LEN
  Messages       \* the messages given to the decoder:
                 \* [bytes |-> ndef_data up to ndef_len,
                 \*  written |-> the records written, <<>> if not known,
                 \*  at |-> where each of them lies, and where they end]

Word == Base * Base * Base * Base

ASSUME NdefAssumption ==
  /\ Base \in Nat /\ Base > 1
  /\ {MeBit, SrBit, IlBit} \subseteq Nat \ {0}
  /\ MaxRecords \in Nat \ {0} /\ MaxType \in Nat \ {0}
  /\ \A m \in Messages :
       /\ m.bytes \in Seq(0..Base - 1)
       /\ Len(m.bytes) \in 1..Word - Base

VARIABLES
  msg,        \* the message
  dpc,        \* "decode" in the loop, "done" after it
  pos,
  records,    \* out->records up to out->record_count
  truncated   \* out->truncated

vars == <<msg, dpc, pos, records, truncated>>

Byte(i) == msg.bytes[i + 1]
len == Len(msg.bytes)

\* payload is the position the code's pointer points to.
Record == [flags : 0..Base - 1, type : Seq(0..Base - 1), type_len : 0..Base - 1,
           payload : Nat, payload_len : 0..Word - 1]

TypeOK ==
  /\ msg.bytes \in Seq(0..Base - 1) /\ Len(msg.bytes) \in 1..Word - Base
  /\ dpc \in {"decode", "done"}
  /\ pos \in 0..Word - 1
  /\ records \in Seq(Record) /\ Len(records) <= MaxRecords
  /\ truncated \in BOOLEAN

Init ==
  /\ msg \in Messages
  /\ dpc = "decode" /\ pos = 0 /\ records = <<>> /\ truncated = FALSE

-----------------------------------------------------------------------------
(* The record header at position q: flags, type length, payload length in  *)
(* one or four bytes, and the id's length if there is one.                 *)

HasBit(b, bit) == (b \div bit) % 2 = 1
SR(q) == HasBit(Byte(q), SrBit)
IL(q) == HasBit(Byte(q), IlBit)

\* Mutant: the id's length is not read.
NoIdLength(q) == q + 2 + (IF SR(q) THEN 1 ELSE 4)

\* Where the header ends and the type begins.
TypeAt(q) == q + 2 + (IF SR(q) THEN 1 ELSE 4) + (IF IL(q) THEN 1 ELSE 0)

TypeLen(q) == Byte(q + 1)

PayloadLen(q) ==
  IF SR(q) THEN Byte(q + 2)
  ELSE ((Byte(q + 2) * Base + Byte(q + 3)) * Base + Byte(q + 4)) * Base + Byte(q + 5)

IdLen(q) == IF IL(q) THEN Byte(TypeAt(q) - 1) ELSE 0

PayloadAt(q) == TypeAt(q) + TypeLen(q) + IdLen(q)

\* The position after the record, in 32 bits.
After(q) == (PayloadAt(q) + PayloadLen(q)) % Word

HeaderFits(q) == q + 1 < len /\ TypeAt(q) <= len

\* Mutant: the payload is taken as complete.
PayloadUnchecked(q) == HeaderFits(q) /\ PayloadAt(q) <= len

\* Every bounds test of one pass of the loop.
Fits(q) == HeaderFits(q) /\ PayloadAt(q) <= len /\ After(q) <= len

Smaller(a, b) == IF a < b THEN a ELSE b

\* The type is copied up to MaxType bytes; type_len keeps the full length.
RecordAt(q) ==
  [flags |-> Byte(q),
   type |-> SubSeq(msg.bytes, TypeAt(q) + 1, TypeAt(q) + Smaller(TypeLen(q), MaxType)),
   type_len |-> TypeLen(q),
   payload |-> PayloadAt(q), payload_len |-> PayloadLen(q)]

Full == Len(records) >= MaxRecords

\* Mutant: past the limit the last record is overwritten.
OverwriteLast ==
  /\ dpc = "decode" /\ pos < len
  /\ \/ /\ Fits(pos)
        /\ records' = IF Full THEN [records EXCEPT ![MaxRecords] = RecordAt(pos)]
                      ELSE Append(records, RecordAt(pos))
        /\ truncated' = (truncated \/ Full)
        /\ pos' = After(pos)
        /\ dpc' = IF HasBit(Byte(pos), MeBit) THEN "done" ELSE "decode"
     \/ /\ ~Fits(pos)
        /\ dpc' = "done" /\ UNCHANGED <<pos, records, truncated>>
  /\ UNCHANGED msg

\* One pass of the loop. A record that does not fit ends it; what was stored
\* of it lies behind record_count.
DecodeRecord ==
  /\ dpc = "decode" /\ pos < len
  /\ \/ /\ Full
        /\ truncated' = TRUE
        /\ dpc' = "done" /\ UNCHANGED <<pos, records>>
     \/ /\ ~Full /\ ~Fits(pos)
        /\ dpc' = "done" /\ UNCHANGED <<pos, records, truncated>>
     \/ /\ ~Full /\ Fits(pos)
        /\ records' = Append(records, RecordAt(pos))
        /\ pos' = After(pos)
        /\ dpc' = IF HasBit(Byte(pos), MeBit) THEN "done" ELSE "decode"
        /\ UNCHANGED truncated
  /\ UNCHANGED msg

EndOfMessage ==
  /\ dpc = "decode" /\ pos >= len
  /\ dpc' = "done"
  /\ UNCHANGED <<msg, pos, records, truncated>>

Done == dpc = "done" /\ UNCHANGED vars

Next == DecodeRecord \/ EndOfMessage \/ Done

Spec == Init /\ [][Next]_vars

\* The decoder is a loop in a running task.
FairSpec == Spec /\ WF_vars(Next)

-----------------------------------------------------------------------------
(* The format, as a writer of messages applies it: the reference.         *)

\* What is written of a record; the ME bit is set on the last one.
WrittenRecord ==
  [type : Seq(0..Base - 1), id : Seq(0..Base - 1), payload : Seq(0..Base - 1),
   sr : BOOLEAN, il : BOOLEAN]

Flag(cond, bit) == IF cond THEN bit ELSE 0

\* A length in four bytes, the highest first.
LongLen(n) ==
  LET n1 == n \div Base
      n2 == n1 \div Base
  IN  <<n2 \div Base, n2 % Base, n1 % Base, n % Base>>

Flags(r, last) == Flag(last, MeBit) + Flag(r.sr, SrBit) + Flag(r.il, IlBit)

Encode(r, last) ==
  <<Flags(r, last), Len(r.type)>>
    \o (IF r.sr THEN <<Len(r.payload)>> ELSE LongLen(Len(r.payload)))
    \o (IF r.il THEN <<Len(r.id)>> ELSE <<>>)
    \o r.type \o (IF r.il THEN r.id ELSE <<>>) \o r.payload

Encodings(rs) == [i \in 1..Len(rs) |-> Encode(rs[i], i = Len(rs))]

\* The header's bits are three different bits of a byte.  A message whose
\* records are known holds them, and as much of them as fits is in "bytes";
\* whole, it is shorter than a 32-bit position can say.
ASSUME FormatAssumption ==
  /\ \A me, sr, il \in BOOLEAN :
       LET b == Flag(me, MeBit) + Flag(sr, SrBit) + Flag(il, IlBit)
       IN  /\ HasBit(b, MeBit) <=> me
           /\ HasBit(b, SrBit) <=> sr
           /\ HasBit(b, IlBit) <=> il
  /\ \A m \in Messages : m.written # <<>> =>
       /\ m.written \in Seq(WrittenRecord)
       /\ LaidOut(m.bytes, Encodings(m.written), m.at)
       /\ m.at[Len(m.written) + 1] < Word

\* What the application is to see of a record written, and what it sees of
\* one decoded.
Written(r) == [type |-> SubSeq(r.type, 1, Smaller(Len(r.type), MaxType)),
               type_len |-> Len(r.type), payload |-> r.payload]
Decoded(r) == [type |-> r.type, type_len |-> r.type_len,
               payload |-> SubSeq(msg.bytes, r.payload + 1, r.payload + r.payload_len)]

\* Where the i-th record written ends.
EndOf(i) == msg.at[i + 1]

\* How many of the records written the message holds completely.
Complete == Cardinality({i \in DOMAIN msg.written : EndOf(i) <= len})

-----------------------------------------------------------------------------
(* Properties.                                                             *)

\* Of a message written in the format, and cut anywhere, exactly the complete
\* records are decoded, as far as there is room: with their types, ids skipped
\* and payloads; and "truncated" says that the room was too small
\* (rs_ndef_read.c:427-431).
RecordsRecovered ==
  dpc = "done" /\ msg.written # <<>> =>
    /\ [i \in DOMAIN records |-> Decoded(records[i])]
         = [i \in 1..Smaller(Complete, MaxRecords) |-> Written(msg.written[i])]
    /\ truncated <=> /\ Len(msg.written) > MaxRecords
                     /\ len > EndOf(MaxRecords)

\* Whatever the bytes are, a record's type was copied from inside the message,
\* its payload begins inside it, and that of a short record ends inside it
\* (rs_ndef_read.c:471-495).
RecordsInside ==
  \A i \in DOMAIN records :
    LET r == records[i]
    IN  /\ Len(r.type) <= r.type_len /\ Len(r.type) <= MaxType
        /\ r.payload <= len
        /\ HasBit(r.flags, SrBit) => r.payload + r.payload_len <= len

\* "Each record's payload points into ndef_data" (rs_nfc_reader.h), to its
\* last byte.
PayloadInside ==
  \A i \in DOMAIN records : records[i].payload + records[i].payload_len <= len

\* The loop ends, although a payload length can take the position back to
\* where it was (rs_ndef_read.c:427, 499).
DecodeEnds == <>(dpc = "done")
=============================================================================
