------------------------------ MODULE CardInfo ------------------------------
(***************************************************************************)
(* rs_ndef_read_card_info(): what it leaves in the caller's result, for    *)
(* one card after another, and the life of the SDK's NDEF components it    *)
(* opens (the adapter's rs_nfc_ptx_ndef_*_open and _close).                *)
(*                                                                         *)
(* A field of the result is modelled by the card it was filled from, so    *)
(* that what is left over from an earlier card shows.  The SDK (external)  *)
(* may fail any call: the card can leave the field at any time.  CardEvent *)
(* is the event loop's use of it.                                          *)
(***************************************************************************)
EXTENDS Naturals, FiniteSets

CONSTANTS
  Cards,      \* the cards presented, one per call
  None,       \* a field that says nothing
  MaxNdef     \* RS_NFC_NDEF_MAX_BYTES, the size of ndef_data

ASSUME CardInfoAssumption == MaxNdef \in Nat \ {0} /\ None \notin Cards

\* The SDK components, one per tag type; they share g_ndef_rx_buf/tx_buf.
Component == {"ISODEP", "T5T", "T3T"}
Protocol  == Component \cup {"T2T", "NFCDEP", "Extension", "Undefined"}

VARIABLES
  rpc,           \* where rs_ndef_read_card_info is
  card,          \* the card it reads
  protocol,
  cap,           \* the bytes ndef_data may take of the message
  compOpen,      \* the components open
  activeCard,    \* g_active_reg->ActiveCard is not NULL
  ndef_present,
  ndef_len,
  ndef_data,     \* whose message the buffer holds
  meta,          \* whose tag_type_name, data_area_size and writeable
  decoded,       \* whose records
  rst            \* the status returned

ndefVars == <<ndef_present, ndef_len, ndef_data>>
callVars == <<card, protocol, cap>>
vars == <<rpc, callVars, compOpen, activeCard, ndefVars, meta, decoded, rst>>

Source == Cards \cup {None}

TypeOK ==
  /\ rpc \in {"idle", "open", "t2t", "check", "read", "close", "decode"}
  /\ card \in Source
  /\ protocol \in Protocol
  /\ cap \in 1..MaxNdef
  /\ compOpen \subseteq Component
  /\ activeCard \in BOOLEAN
  /\ ndef_present \in BOOLEAN
  /\ ndef_len \in 0..MaxNdef
  /\ ndef_data \in Source
  /\ meta \in Source
  /\ decoded \in Source
  /\ rst \in {"RS_OK", "RS_ERR_NOT_FOUND", "RS_ERR_INTERNAL"}

Init ==
  /\ rpc = "idle" /\ card = None /\ protocol = "Undefined" /\ cap = MaxNdef
  /\ compOpen = {} /\ activeCard = FALSE
  /\ ndef_present = FALSE /\ ndef_len = 0 /\ ndef_data = None
  /\ meta = None /\ decoded = None /\ rst = "RS_OK"

-----------------------------------------------------------------------------
\* Mutant: an unspecified maximum is passed on as it is.
NoClamp(max_ndef_bytes) == max_ndef_bytes

\* The caller's maximum, where 0 means unspecified.
Clamp(max_ndef_bytes) ==
  IF max_ndef_bytes = 0 \/ max_ndef_bytes > MaxNdef THEN MaxNdef
  ELSE max_ndef_bytes

\* The extended fields; the bytes of ndef_data stay.
ClearFields ==
  /\ ndef_present' = FALSE /\ ndef_len' = 0
  /\ meta' = None /\ decoded' = None
  /\ UNCHANGED ndef_data

\* The caller sets the whole result to zero, the message's bytes included.
NewResult ==
  /\ rpc = "idle"
  /\ ndef_present' = FALSE /\ ndef_len' = 0 /\ ndef_data' = None
  /\ meta' = None /\ decoded' = None
  /\ UNCHANGED <<rpc, callVars, compOpen, activeCard, rst>>

\* The entry: dispatch on the protocol of a card just activated, which the SDK
\* may have lost again by now.
ReadCardInfo(c, p, max_ndef_bytes) ==
  /\ rpc = "idle"
  /\ card' = c /\ protocol' = p /\ cap' = Clamp(max_ndef_bytes)
  /\ activeCard' \in BOOLEAN
  /\ rst' = "RS_OK"
  /\ \/ p \in Component /\ rpc' = "open" /\ ClearFields
     \/ p = "T2T" /\ rpc' = "t2t" /\ ClearFields
     \/ /\ p \notin Component \cup {"T2T"}
        /\ rpc' = "idle"
        /\ ndef_present' = FALSE /\ ndef_len' = 0
        /\ meta' = c /\ decoded' = None
        /\ UNCHANGED ndef_data
  /\ UNCHANGED compOpen

\* rs_nfc_ptx_ndef_open and its siblings. The tag type's name is set whether
\* or not it succeeds; Type 3 needs the active card for its parameters.
OpenComponent ==
  /\ rpc = "open"
  /\ meta' = card
  /\ \/ /\ protocol = "T3T" => activeCard
        /\ compOpen' = compOpen \cup {protocol}
        /\ rpc' = "check"
        /\ UNCHANGED rst
     \/ /\ rpc' = "decode"
        /\ rst' = IF protocol = "T3T" /\ ~activeCard THEN "RS_ERR_NOT_FOUND"
                  ELSE "RS_ERR_INTERNAL"
        /\ UNCHANGED compOpen
  /\ UNCHANGED <<callVars, activeCard, ndefVars, decoded>>

\* Mutant: a card without NDEF leaves its component open.
NoCloseOnFailure ==
  /\ rpc = "check"
  /\ \/ rpc' = "read" /\ UNCHANGED <<rst, ndefVars>>
     \/ /\ rpc' = "decode" /\ rst' = "RS_ERR_NOT_FOUND"
        /\ ndef_present' = FALSE /\ ndef_len' = 0 /\ UNCHANGED ndef_data
  /\ UNCHANGED <<callVars, activeCard, compOpen, meta, decoded>>

\* ptxNDEF_T*TOpCheckMessage: without a message the component is closed.
CheckMessage ==
  /\ rpc = "check"
  /\ \/ /\ rpc' = "read"
        /\ UNCHANGED <<compOpen, ndefVars, rst>>
     \/ /\ rpc' = "decode" /\ rst' = "RS_ERR_NOT_FOUND"
        /\ compOpen' = compOpen \ {protocol}
        /\ ndef_present' = FALSE /\ ndef_len' = 0
        /\ UNCHANGED ndef_data
  /\ UNCHANGED <<callVars, activeCard, meta, decoded>>

\* A message of n bytes, at most cap, was copied into ndef_data.
Copied(n) ==
  /\ ndef_len' = n /\ ndef_present' = (n > 0)
  /\ ndef_data' = IF n > 0 THEN card ELSE ndef_data

\* Mutant: a failed read keeps the flag of an earlier success.
StalePresent ==
  /\ ndef_present' = TRUE /\ ndef_len' = 0
  /\ ndef_data' \in {ndef_data, card}

\* A read that failed may have overwritten a part of it.
NotRead ==
  /\ ndef_present' = FALSE /\ ndef_len' = 0
  /\ ndef_data' \in {ndef_data, card}

\* ptxNDEF_T*TOpReadMessage.
ReadMessage ==
  /\ rpc = "read"
  /\ rpc' = "close"
  /\ (\E n \in 0..cap : Copied(n)) \/ NotRead
  /\ UNCHANGED <<callVars, compOpen, activeCard, meta, decoded, rst>>

\* The metadata of the capability container, and the close. A message that
\* could not be read is no error of the call.
CloseComponent ==
  /\ rpc = "close"
  /\ rpc' = "decode"
  /\ meta' = card
  /\ compOpen' = compOpen \ {protocol}
  /\ UNCHANGED <<callVars, activeCard, ndefVars, decoded, rst>>

\* read_t2t_ndef in one step (see T2tRead).
ReadT2T ==
  /\ rpc = "t2t"
  /\ rpc' = "decode"
  /\ \/ rst' = "RS_ERR_NOT_FOUND" /\ UNCHANGED <<ndefVars, meta>>
     \/ /\ rst' = "RS_OK" /\ meta' = card
        /\ \E n \in 0..cap : Copied(n)
  /\ UNCHANGED <<callVars, compOpen, activeCard, decoded>>

\* Mutant: whatever the buffer holds is decoded.
DecodeAlways ==
  /\ rpc = "decode"
  /\ rpc' = "idle"
  /\ decoded' = ndef_data
  /\ UNCHANGED <<callVars, compOpen, activeCard, ndefVars, meta, rst>>

\* rs_ndef_decode_message on what was read, and the return.
Decode ==
  /\ rpc = "decode"
  /\ rpc' = "idle"
  /\ decoded' = IF ndef_present /\ ndef_len > 0 THEN ndef_data ELSE decoded
  /\ UNCHANGED <<callVars, compOpen, activeCard, ndefVars, meta, rst>>

\* The SDK drops the card (external).
CardLost ==
  /\ activeCard /\ activeCard' = FALSE
  /\ UNCHANGED <<rpc, callVars, compOpen, ndefVars, meta, decoded, rst>>

\* Every step after the entry.
ReadStep ==
  \/ OpenComponent \/ CheckMessage \/ ReadMessage \/ CloseComponent
  \/ ReadT2T \/ Decode

Next ==
  \/ NewResult
  \/ \E c \in Cards, p \in Protocol, m \in 0..MaxNdef + 1 : ReadCardInfo(c, p, m)
  \/ ReadStep
  \/ CardLost

Spec == Init /\ [][Next]_vars

-----------------------------------------------------------------------------
\* On every path out of the call, the failing ones included, no component is
\* left open: the next tag's component gets the shared transfer buffers for
\* itself (rs_ndef_read.c:58, 83, 109, 134, 160, 187).
ComponentsClosed ==
  /\ rpc \in {"idle", "open", "decode"} => compOpen = {}
  /\ Cardinality(compOpen) <= 1

\* Nothing the caller is told was read, parsed or measured comes from an
\* earlier card, although the bytes of ndef_data may.
NoStaleFields ==
  rpc = "idle" =>
    /\ ndef_present => ndef_data = card
    /\ decoded \in {None, card}
    /\ meta \in {None, card}
    /\ decoded # None => ndef_present

\* "present" and the length agree, and the length fits both the buffer and
\* the caller's limit (rs_nfc_reader.h:227-232).
LengthAgrees ==
  rpc = "idle" =>
    /\ ndef_present <=> ndef_len > 0
    /\ ndef_len <= cap
=============================================================================
