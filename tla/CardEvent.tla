------------------------------ MODULE CardEvent ------------------------------
(***************************************************************************)
(* case LOOP_DATA_EVENT of run_event_loop(): from a card discovered to the *)
(* application's on_card_event.  The adapter activates and classifies the  *)
(* card, the result is filled, its NDEF message read (CardInfo) and a raw  *)
(* frame exchanged with it; then the card is deactivated, and the same     *)
(* result and buffers serve the next one.                                  *)
(*                                                                         *)
(* The chip and the SDK are external: any card may be there, in any        *)
(* protocol it supports, and any call to it may fail.                      *)
(***************************************************************************)
EXTENDS CardInfo, SequencesExt

CONSTANT RawRxSize    \* RAW_RX_BUF_SIZE

UidMax == 10    \* RS_NFC_UID_MAX_BYTES

Tech == {"A", "B", "F", "V", "Extension"}

\* A card: its technology, its identifier in the order of the air interface,
\* and what it announces (SEL_RES & 0x40, or SENSF_RES; SEL_RES & 0x20, or
\* SENSB_RES[10] & 0x01).
ASSUME CardAssumption ==
  /\ RawRxSize \in Nat \ {0}
  /\ \A c \in Cards :
       /\ c.tech \in Tech /\ c.nfcdep \in BOOLEAN /\ c.isodep \in BOOLEAN
       /\ c.uid \in Seq(Nat)
       /\ c.tech = "B" => Len(c.uid) = 4
       /\ c.tech \in {"F", "V"} => Len(c.uid) = 8

VARIABLES
  epc,      \* where the event loop is between two cards
  opts,     \* cfg->read_ndef, run_raw_exchange and max_ndef_bytes
  active,   \* the card activated
  res,      \* card_type, protocol and uid of the result
  raw,      \* res->raw_exchange
  txBuf,    \* whom the frame in g_raw_tx_buf addresses
  rxBuf,    \* whose answer is in g_raw_rx_buf
  event     \* the status of the last on_card_event

eventVars == <<epc, opts, active, res, raw, txBuf, rxBuf, event>>

NoRaw == [valid |-> FALSE, status |-> "RS_OK", tx_len |-> 0, rx_len |-> 0]

CardType == {"T2T", "T3T", "T4A", "T4B", "T5T", "A", "B", "F", "V", "Unknown"}

EventTypes ==
  /\ epc \in {"idle", "ndef", "reading", "raw", "report"}
  /\ opts \in [read_ndef : BOOLEAN, run_raw_exchange : BOOLEAN,
               max_ndef_bytes : 0..MaxNdef + 1]
  /\ active \in Source
  /\ res.card_type \in CardType /\ res.protocol \in Protocol
  /\ res.uid \in Seq(Nat) /\ Len(res.uid) <= UidMax
  /\ raw \in [valid : BOOLEAN, tx_len : 0..15, rx_len : 0..RawRxSize,
              status : {"RS_OK", "RS_ERR_INTERNAL", "RS_ERR_INVALID_CFG"}]
  /\ txBuf \in Seq(Nat)
  /\ rxBuf \in Source
  /\ event \in {"none", "RS_OK", "RS_ERR_INTERNAL", "RS_ERR_NOT_FOUND"}

\* The event loop's variables and those of the read it calls.
EventTypeOK == TypeOK /\ EventTypes

EventInit ==
  /\ Init
  /\ epc = "idle"
  /\ opts \in [read_ndef : BOOLEAN, run_raw_exchange : BOOLEAN,
               max_ndef_bytes : 0..MaxNdef + 1]
  /\ active = None
  /\ res = [card_type |-> "Unknown", protocol |-> "Undefined", uid |-> <<>>]
  /\ raw = NoRaw /\ txBuf = <<>> /\ rxBuf = None
  /\ event = "none"

-----------------------------------------------------------------------------
(* The adapter's view of a card.                                           *)

\* choose_protocol, for a card the chip did not activate itself.
ChooseProtocol(c) ==
  CASE c.tech = "A" -> IF c.nfcdep THEN "NFCDEP" ELSE IF c.isodep THEN "ISODEP" ELSE "T2T"
    [] c.tech = "B" -> IF c.isodep THEN "ISODEP" ELSE "Undefined"
    [] c.tech = "F" -> IF c.nfcdep THEN "NFCDEP" ELSE "T3T"
    [] c.tech = "V" -> "T5T"
    [] c.tech = "Extension" -> "Extension"

\* The protocols the chip itself may have activated the card in (external).
Supported(c) ==
  CASE c.tech = "A" -> (IF c.nfcdep THEN {"NFCDEP"} ELSE {})
                         \cup (IF c.isodep THEN {"ISODEP"} ELSE {})
                         \cup (IF c.nfcdep \/ c.isodep THEN {} ELSE {"T2T"})
    [] c.tech = "B" -> IF c.isodep THEN {"ISODEP"} ELSE {"Undefined"}
    [] c.tech = "F" -> IF c.nfcdep THEN {"NFCDEP", "T3T"} ELSE {"T3T"}
    [] c.tech = "V" -> {"T5T"}
    [] c.tech = "Extension" -> {"Extension"}

\* Mutant: ISO-DEP makes a Type 4A tag of any card.
TypeOfProtocol(c, p) ==
  CASE p = "T2T" -> "T2T" [] p = "ISODEP" -> "T4A" [] p = "T3T" -> "T3T"
    [] p = "T5T" -> "T5T" [] OTHER -> c.tech

\* map_card_type. A technology stands for its card type without a tag type.
MapCardType(c, p) ==
  CASE c.tech = "A" /\ p = "T2T"    -> "T2T"
    [] c.tech = "A" /\ p = "ISODEP" -> "T4A"
    [] c.tech = "B" /\ p = "ISODEP" -> "T4B"
    [] c.tech = "F" /\ p = "T3T"    -> "T3T"
    [] c.tech = "V" /\ p = "T5T"    -> "T5T"
    [] c.tech = "Extension"         -> "Unknown"
    [] OTHER                        -> c.tech

\* Mutant: the identifier of a Type V card is kept in the air's order.
AirOrder(c) ==
  CASE c.tech = "A" -> SubSeq(c.uid, 1, IF Len(c.uid) > UidMax THEN UidMax ELSE Len(c.uid))
    [] c.tech \in {"B", "F", "V"} -> c.uid
    [] OTHER -> <<>>

\* extract_uid: that of a Type V card is turned round.
ExtractUid(c) ==
  CASE c.tech = "A" -> SubSeq(c.uid, 1, IF Len(c.uid) > UidMax THEN UidMax ELSE Len(c.uid))
    [] c.tech \in {"B", "F"} -> c.uid
    [] c.tech = "V" -> Reverse(c.uid)
    [] OTHER -> <<>>

-----------------------------------------------------------------------------
(* case LOOP_DATA_EVENT.                                                   *)

\* Mutant: the result is not set to zero.
ActivateKeepsResult(c) ==
  /\ epc = "idle"
  /\ \E p \in Supported(c) \cup {ChooseProtocol(c)} :
       res' = [card_type |-> MapCardType(c, p), protocol |-> p, uid |-> ExtractUid(c)]
  /\ active' = c
  /\ NewResult
  /\ epc' = IF opts.read_ndef THEN "ndef" ELSE "raw"
  /\ UNCHANGED <<opts, raw, txBuf, rxBuf, event>>

\* rs_nfc_ptx_activate_card finds c active, or activates it; the basic fields.
Activate(c) ==
  /\ epc = "idle"
  /\ \E p \in Supported(c) \cup {ChooseProtocol(c)} :
       res' = [card_type |-> MapCardType(c, p), protocol |-> p, uid |-> ExtractUid(c)]
  /\ active' = c
  /\ NewResult /\ raw' = NoRaw
  /\ epc' = IF opts.read_ndef THEN "ndef" ELSE "raw"
  /\ UNCHANGED <<opts, txBuf, rxBuf, event>>

\* There is no card or it does not answer: an event without a result.
ActivateFails ==
  /\ epc = "idle"
  /\ event' \in {"RS_ERR_INTERNAL", "RS_ERR_NOT_FOUND"}
  /\ UNCHANGED <<vars, epc, opts, active, res, raw, txBuf, rxBuf>>

CallReadCardInfo ==
  /\ epc = "ndef" /\ epc' = "reading"
  /\ ReadCardInfo(active, res.protocol, opts.max_ndef_bytes)
  /\ UNCHANGED <<opts, active, res, raw, txBuf, rxBuf, event>>

\* A step of rs_ndef_read_card_info, or the card leaves meanwhile.
Reading ==
  /\ ReadStep \/ CardLost
  /\ UNCHANGED eventVars

\* It returns; its status is ignored.
ReadReturns ==
  /\ epc = "reading" /\ rpc = "idle"
  /\ epc' = "raw"
  /\ UNCHANGED <<vars, opts, active, res, raw, txBuf, rxBuf, event>>

-----------------------------------------------------------------------------
(* rs_nfc_reader_raw_exchange.                                             *)

FrameLen == [p \in {"T2T", "NFCDEP", "T3T", "T5T"} |->
               CASE p = "T3T" -> 15 [] p = "T5T" -> 11 [] OTHER -> 2]

Nobody == [i \in 1..8 |-> 0]

\* Whom a frame addresses, from the identifier in the result.
Address(p, uid) ==
  CASE p = "T3T" -> IF Len(uid) >= 8 THEN SubSeq(uid, 1, 8) ELSE Nobody
    [] p = "T5T" -> IF Len(uid) >= 8 THEN Reverse(SubSeq(uid, 1, 8)) ELSE Nobody
    [] OTHER -> <<>>

RawWanted == opts.run_raw_exchange /\ res.protocol \notin {"ISODEP", "Undefined"}

SkipRaw ==
  /\ epc = "raw" /\ ~RawWanted
  /\ epc' = "report"
  /\ UNCHANGED <<vars, opts, active, res, raw, txBuf, rxBuf, event>>

\* A protocol there is no frame for.
RefuseRaw ==
  /\ epc = "raw" /\ RawWanted /\ res.protocol \notin DOMAIN FrameLen
  /\ epc' = "report"
  /\ raw' = [valid |-> TRUE, status |-> "RS_ERR_INVALID_CFG", tx_len |-> 0, rx_len |-> 0]
  /\ UNCHANGED <<vars, opts, active, res, txBuf, rxBuf, event>>

\* Mutant: after a failed exchange rx_len still holds the buffer's size.
KeepsRxLen ==
  /\ epc = "raw" /\ RawWanted /\ res.protocol \in DOMAIN FrameLen
  /\ epc' = "report"
  /\ txBuf' = Address(res.protocol, res.uid)
  /\ \E status \in {"RS_OK", "RS_ERR_INTERNAL"}, n \in 0..RawRxSize :
       /\ rxBuf' = IF status = "RS_OK" THEN active ELSE rxBuf
       /\ raw' = [valid |-> TRUE, status |-> status,
                  tx_len |-> FrameLen[res.protocol],
                  rx_len |-> IF status = "RS_OK" THEN n ELSE RawRxSize]
  /\ UNCHANGED <<vars, opts, active, res, event>>

\* rs_nfc_ptx_data_exchange, with an answer of n bytes.
RawExchange ==
  /\ epc = "raw" /\ RawWanted /\ res.protocol \in DOMAIN FrameLen
  /\ epc' = "report"
  /\ txBuf' = Address(res.protocol, res.uid)
  /\ \E status \in {"RS_OK", "RS_ERR_INTERNAL"}, n \in 0..RawRxSize :
       /\ rxBuf' = IF status = "RS_OK" THEN active ELSE rxBuf
       /\ raw' = [valid |-> TRUE, status |-> status,
                  tx_len |-> FrameLen[res.protocol],
                  rx_len |-> IF status = "RS_OK" THEN n ELSE 0]
  /\ UNCHANGED <<vars, opts, active, res, event>>

\* on_card_event with the result; then case LOOP_DEACTIVATE.
Report ==
  /\ epc = "report" /\ epc' = "idle"
  /\ event' = "RS_OK"
  /\ activeCard' = FALSE
  /\ UNCHANGED <<rpc, callVars, compOpen, ndefVars, meta, decoded, rst,
                 opts, active, res, raw, txBuf, rxBuf>>

EventNext ==
  \/ \E c \in Cards : Activate(c)
  \/ ActivateFails
  \/ CallReadCardInfo \/ Reading \/ ReadReturns
  \/ SkipRaw \/ RefuseRaw \/ RawExchange
  \/ Report

allVars == <<vars, eventVars>>
EventSpec == EventInit /\ [][EventNext]_allVars

-----------------------------------------------------------------------------
(* Properties.                                                             *)

\* Nothing the application sees in an event comes from an earlier card, although
\* one result and one pair of buffers serve them all (rs_nfc_reader.c:383-423).
EventIsOfThisCard ==
  epc = "report" =>
    /\ res.uid = ExtractUid(active)
    /\ ndef_present => ndef_data = active
    /\ {meta, decoded} \subseteq {None, active}
    /\ raw.valid => RawWanted
    /\ raw.rx_len > 0 => raw.status = "RS_OK" /\ rxBuf = active

\* The raw frame of a protocol that addresses cards carries the identifier of
\* this one as the card sent it, through two reversals for Type V
\* (rs_nfc_ptx105r.c:194-197, rs_nfc_reader.c:877-888).
RawAddressesTheCard ==
  epc = "report" /\ raw.tx_len > 0 =>
    /\ raw.tx_len = FrameLen[res.protocol]
    /\ res.protocol \in {"T3T", "T5T"} => txBuf = active.uid

\* What is reported as an NFC Forum tag was read as one of that type, and a card
\* of another type was not (rs_nfc_ptx105r.c:98-128, rs_ndef_read.c:352-367).
TagTypeAgrees ==
  epc = "report" =>
    CASE res.protocol \in {"T2T", "T3T", "T5T"} -> res.card_type = res.protocol
      [] res.protocol = "ISODEP" -> res.card_type = IF active.tech = "A" THEN "T4A" ELSE "T4B"
      [] OTHER -> /\ res.card_type \notin {"T2T", "T3T", "T4A", "T4B", "T5T"}
                  /\ ~ndef_present
=============================================================================
