------------------------------- MODULE T2tRead -------------------------------
(***************************************************************************)
(* read_t2t_ndef(): the hand-written reader of Type 2 tags.  It reads the  *)
(* capability container, copies the data area into data_buf with READ      *)
(* commands, and walks the TLVs in it to the NDEF message.                 *)
(*                                                                         *)
(* Sizes are constants so that TLC can vary every byte: a byte is a number *)
(* below Base, a block has BlockLen bytes and a READ returns four of them. *)
(* In the code Base = 256, BlockLen = 4, AreaUnit = 8, MaxBlock = 255,     *)
(* TxBufSize = 280.  Data addresses count from block 4.                    *)
(***************************************************************************)
EXTENDS Layout

CONSTANTS
  Base, BlockLen, AreaUnit, MaxBlock, TxBufSize,
  Tags,          \* the tags presented: [size |-> the CC's size byte,
                 \* tlvs |-> what was written to it, a sequence of TLVs,
                 \* mem |-> their encoding, the bytes from block 4 on,
                 \* at |-> where in mem each TLV lies, and where they end]
  Caps           \* the values of ndef_cap

ReadLen   == 4 * BlockLen
NdefTag   == 3          \* 0x03
Terminator == Base - 2  \* 0xFE
LongForm  == Base - 1   \* 0xFF

-----------------------------------------------------------------------------
(* The format, as a writer of tags applies it: the reference for the walk. *)

Single == {0, Terminator}     \* a NULL or terminator TLV is a single byte

Encode(tlv) ==
  IF tlv.type \in Single THEN <<tlv.type>>
  ELSE IF Len(tlv.value) < LongForm
    THEN <<tlv.type, Len(tlv.value)>> \o tlv.value
  ELSE <<tlv.type, LongForm, Len(tlv.value) \div Base, Len(tlv.value) % Base>>
         \o tlv.value

Encodings(tlvs) == [i \in 1..Len(tlvs) |-> Encode(tlvs[i])]

\* A TLV's type is a byte, its value bytes.
Tlv == [type : 0..Base - 1, value : Seq(0..Base - 1)]

\* Where the NDEF message TLV is: the first one, before any terminator.
MessageAt(tlvs) ==
  {i \in DOMAIN tlvs : /\ tlvs[i].type = NdefTag
                       /\ \A j \in 1..i - 1 : tlvs[j].type \notin {NdefTag, Terminator}}

Message(tlvs) ==
  IF MessageAt(tlvs) = {} THEN <<>>
  ELSE tlvs[CHOOSE i \in MessageAt(tlvs) : TRUE].value

-----------------------------------------------------------------------------
ASSUME T2tAssumption ==
  /\ Base \in Nat /\ Base > 5
  /\ BlockLen \in Nat \ {0} /\ AreaUnit \in Nat \ {0}
  /\ MaxBlock \in Nat /\ MaxBlock >= 4
  /\ TxBufSize \in Nat \ {0}
  /\ Caps \subseteq Nat
  /\ \A t \in Tags :
       /\ t.size \in 0..Base - 1
       /\ t.tlvs \in Seq(Tlv)
       /\ \A i \in DOMAIN t.tlvs : Len(t.tlvs[i].value) < Base * Base
       /\ t.mem \in Seq(0..Base - 1)
       /\ LaidOut(t.mem, Encodings(t.tlvs), t.at)
       /\ Len(t.mem) = t.at[Len(t.tlvs) + 1]

VARIABLES
  tpc,        \* where read_t2t_ndef is
  tag,        \* the tag in the field
  ndef_cap,
  buf_cap,
  data_buf,   \* what was read; got is its length
  block,      \* the next block to read
  p,          \* the position in data_buf
  ndef,       \* the bytes copied to ndef_data
  st,
  rfFailed,   \* a READ of the data area has failed
  short       \* one was answered with less than four blocks

rfVars == <<rfFailed, short>>
vars == <<tpc, tag, ndef_cap, buf_cap, data_buf, block, p, ndef, st, rfVars>>

TypeOK ==
  /\ tpc \in {"cc", "read", "walk", "done"}
  /\ ndef_cap \in Caps
  /\ buf_cap \in 0..TxBufSize
  /\ data_buf \in Seq(0..Base - 1) /\ Len(data_buf) <= buf_cap
  /\ block \in 4..MaxBlock
  /\ p \in 0..Len(data_buf) + Base * Base
  /\ ndef \in Seq(0..Base - 1) /\ Len(ndef) <= ndef_cap
  /\ st \in {"RS_OK", "RS_ERR_NOT_FOUND"}
  /\ rfFailed \in BOOLEAN /\ short \in BOOLEAN

got == Len(data_buf)

Init ==
  /\ tpc = "cc"
  /\ tag \in Tags /\ ndef_cap \in Caps
  /\ buf_cap = 0 /\ data_buf = <<>> /\ block = 4 /\ p = 0
  /\ ndef = <<>> /\ st = "RS_OK" /\ rfFailed = FALSE /\ short = FALSE

-----------------------------------------------------------------------------
\* Mutant: the data area is not cut to the buffer.
NoCut(size) == IF size = 0 THEN TxBufSize ELSE size * AreaUnit

\* The data area's size in bytes, cut to the buffer; a size of 0 is ignored.
BufCap(size) ==
  LET area == size * AreaUnit
  IN  IF area = 0 \/ area > TxBufSize THEN TxBufSize ELSE area

\* READ of block 3: the capability container, or no NDEF tag.
ReadCC ==
  /\ tpc = "cc"
  /\ \/ tpc' = "read" /\ buf_cap' = BufCap(tag.size) /\ UNCHANGED st
     \/ tpc' = "done" /\ st' = "RS_ERR_NOT_FOUND" /\ UNCHANGED buf_cap
  /\ UNCHANGED <<tag, ndef_cap, data_buf, block, p, ndef, rfVars>>

\* The byte at address a of the tag's memory, where nothing was written 0.
Memory(a) == IF a <= Len(tag.mem) THEN tag.mem[a] ELSE 0

\* The tag's answer to READ of a block (external): n bytes of its memory.
Answer(b, n) == [i \in 1..n |-> Memory((b - 4) * BlockLen + i)]

\* The lengths the code accepts.
AnswerLens == BlockLen..ReadLen

\* How much of an answer of n bytes is kept.
Take(n) == IF got + n > buf_cap THEN buf_cap - got ELSE n

\* Mutant: the block advances by one.
NextBlockOnly(b) == b + 1

\* A READ answers four blocks.
NextBlock(b) == b + 4

\* One pass of the loop that reads the data area.
ReadBlock ==
  /\ tpc = "read"
  /\ got < buf_cap
  /\ \/ \E n \in AnswerLens :
          /\ data_buf' = data_buf \o SubSeq(Answer(block, n), 1, Take(n))
          /\ \/ block + 4 > MaxBlock /\ tpc' = "walk" /\ UNCHANGED block
             \/ /\ block + 4 <= MaxBlock
                /\ block' = NextBlock(block)
                /\ UNCHANGED tpc
          /\ short' = (short \/ n < ReadLen)
          /\ UNCHANGED rfFailed
     \/ tpc' = "walk" /\ rfFailed' = TRUE /\ UNCHANGED <<data_buf, block, short>>
  /\ UNCHANGED <<tag, ndef_cap, buf_cap, p, ndef, st>>

ReadEnough ==
  /\ tpc = "read"
  /\ got >= buf_cap
  /\ tpc' = "walk"
  /\ UNCHANGED <<tag, ndef_cap, buf_cap, data_buf, block, p, ndef, st, rfVars>>

-----------------------------------------------------------------------------
(* The TLV walk. Positions count from 0, as in the code.                   *)

Byte(i) == data_buf[i + 1]

Smaller(a, b) == IF a < b THEN a ELSE b

\* The walk leaves the loop without a message.
NothingFound ==
  /\ tpc' = "done" /\ UNCHANGED <<p, ndef>>

\* Mutant: a long length is read as a short one.
ShortLength(q) == [ok |-> q < got, len |-> IF q < got THEN Byte(q) ELSE 0,
                   value |-> q + 1]

\* The length field at q, in its one or three byte form, if all of it was
\* read, and where the value begins.
Length(q) ==
  IF q >= got THEN [ok |-> FALSE, len |-> 0, value |-> q]
  ELSE IF Byte(q) # LongForm THEN [ok |-> TRUE, len |-> Byte(q), value |-> q + 1]
  ELSE IF q + 3 > got THEN [ok |-> FALSE, len |-> 0, value |-> q]
  ELSE [ok |-> TRUE, len |-> Byte(q + 1) * Base + Byte(q + 2), value |-> q + 3]

\* The message is copied, as far as it was read and the caller wants it.
CopyMessage(value, len) ==
  LET l == Smaller(len, got - value)
  IN  ndef' = SubSeq(data_buf, value + 1, value + Smaller(l, ndef_cap))

\* One pass of the loop over the TLVs.
WalkTLV ==
  /\ tpc = "walk"
  /\ \/ p >= got /\ NothingFound
     \/ /\ p < got /\ Byte(p) = 0
        /\ p' = p + 1
        /\ UNCHANGED <<tpc, ndef>>
     \/ p < got /\ Byte(p) = Terminator /\ NothingFound
     \/ /\ p < got /\ Byte(p) \notin {0, Terminator}
        /\ LET l == Length(p + 1)
           IN  \/ ~l.ok /\ NothingFound
               \/ /\ l.ok /\ Byte(p) = NdefTag
                  /\ tpc' = "done" /\ CopyMessage(l.value, l.len)
                  /\ UNCHANGED p
               \/ /\ l.ok /\ Byte(p) # NdefTag
                  /\ p' = l.value + l.len
                  /\ UNCHANGED <<tpc, ndef>>
  /\ UNCHANGED <<tag, ndef_cap, buf_cap, data_buf, block, st, rfVars>>

Done == tpc = "done" /\ UNCHANGED vars

Next == ReadCC \/ ReadBlock \/ ReadEnough \/ WalkTLV \/ Done

Spec == Init /\ [][Next]_vars

-----------------------------------------------------------------------------
\* The bytes of the data area the reader can see: the area's size, its buffer
\* and the last block a READ can name.
Readable ==
  Smaller(BufCap(tag.size), ((MaxBlock - 4) \div 4 + 1) * ReadLen)

\* Where the message ends in the tag's memory.
MessageEnd ==
  LET i == CHOOSE k \in MessageAt(tag.tlvs) : TRUE
  IN  tag.at[i + 1]

\* The buffer holds the tag's memory, address by address, if the tag answers
\* READ with four blocks: no gap and no repetition, wherever a READ, the
\* area's end or the last block cuts the data (rs_ndef_read.c:213-233).
BufferIsMemory == ~short => \A i \in 1..got : data_buf[i] = Memory(i)

\* Whatever is reported as NDEF data is the beginning of the message written
\* to the tag: no other TLV, no length byte and no byte from a wrong address
\* gets into it, wherever the area, the buffer or a lost card cuts the data,
\* if the tag answers READ with four blocks (rs_ndef_read.c:202).
OnlyTheMessage == ~short => IsPrefix(ndef, Message(tag.tlvs))

\* A message within reach is found behind any other TLVs, in either form of
\* the length, and is reported whole up to the caller's limit.
MessageFound ==
  tpc = "done" /\ st = "RS_OK" /\ ~rfFailed /\ ~short
      /\ MessageAt(tag.tlvs) # {} /\ MessageEnd <= Readable
    => Len(ndef) = Smaller(Len(Message(tag.tlvs)), ndef_cap)
=============================================================================
