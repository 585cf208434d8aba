------------------------------ MODULE CardProofs ------------------------------
(***************************************************************************)
(* Proofs about what a read leaves of a card: the invariants of CardInfo,  *)
(* that the event loop's steps are steps of CardInfo, and the invariants   *)
(* of CardEvent.                                                           *)
(***************************************************************************)
EXTENDS CardEvent, SequenceTheorems, FiniteSetTheorems, TLAPS

-----------------------------------------------------------------------------
(* CardInfo.                                                               *)

\* The open component is that of the protocol being read, while it is read.
ComponentPhase ==
  /\ rpc \in {"check", "read", "close"} => compOpen = {protocol}
  /\ rpc \in {"idle", "open", "t2t", "decode"} => compOpen = {}
  /\ rpc = "open" => protocol \in Component

\* NoStaleFields and LengthAgrees hold at every step, and nothing is decoded
\* before the end.
FieldsOfCard ==
  /\ ndef_present => ndef_data = card
  /\ decoded \in {None, card}
  /\ meta \in {None, card}
  /\ decoded # None => ndef_present
  /\ rpc # "idle" => decoded = None
  /\ ndef_present <=> ndef_len > 0
  /\ ndef_len <= cap

InfoInv == TypeOK /\ ComponentPhase /\ FieldsOfCard

\* TypeOK in two parts.
Flags == ndef_present \in BOOLEAN /\ activeCard \in BOOLEAN
Values ==
  /\ rpc \in {"idle", "open", "t2t", "check", "read", "close", "decode"}
  /\ card \in Source
  /\ protocol \in Protocol
  /\ cap \in 1..MaxNdef
  /\ compOpen \subseteq Component
  /\ ndef_len \in 0..MaxNdef
  /\ ndef_data \in Source
  /\ meta \in Source
  /\ decoded \in Source
  /\ rst \in {"RS_OK", "RS_ERR_NOT_FOUND", "RS_ERR_INTERNAL"}

LEMMA TypeParts == TypeOK <=> Flags /\ Values
BY DEF TypeOK, Flags, Values

LEMMA TypesTogether == Flags' /\ Values' => TypeOK'
BY DEF TypeOK, Flags, Values

LEMMA InitInfo == Init => InfoInv
<1> SUFFICES ASSUME Init PROVE InfoInv
  OBVIOUS
<1>1. Flags
  BY DEF Init, Flags
<1>2. Values
  BY CardInfoAssumption DEF Init, Values, Protocol, Source
<1>3. ComponentPhase /\ FieldsOfCard
  BY CardInfoAssumption DEF Init, ComponentPhase, FieldsOfCard
<1> QED
  BY <1>1, <1>2, <1>3, TypeParts DEF InfoInv

\* The entry of the call.
LEMMA EntryInfo ==
  ASSUME InfoInv, NEW c \in Cards, NEW p \in Protocol, NEW m \in 0..MaxNdef + 1,
         ReadCardInfo(c, p, m)
  PROVE  InfoInv'
<1>1. cap' \in 1..MaxNdef
  BY CardInfoAssumption DEF ReadCardInfo, Clamp
<1>2. Flags'
  BY DEF ReadCardInfo, ClearFields, Flags
<1>3. Values'
  BY <1>1, TypeParts, CardInfoAssumption
  DEF InfoInv, ReadCardInfo, ClearFields, Values, Source
<1>4. ComponentPhase'
  BY DEF InfoInv, ReadCardInfo, ClearFields, ComponentPhase, Component
<1>5. FieldsOfCard'
  BY <1>1, CardInfoAssumption DEF ReadCardInfo, ClearFields, FieldsOfCard
<1> QED
  BY <1>2, <1>3, <1>4, <1>5, TypesTogether DEF InfoInv

\* A message copied, or not.
LEMMA CopyInfo ==
  ASSUME InfoInv, UNCHANGED card,
         (\E n \in 0..cap : Copied(n)) \/ NotRead \/ UNCHANGED ndefVars
  PROVE  /\ ndef_present' \in BOOLEAN
         /\ ndef_len' \in 0..MaxNdef /\ ndef_len' <= cap
         /\ ndef_data' \in Source
         /\ ndef_present' => ndef_data' = card
         /\ ndef_present' <=> ndef_len' > 0
<1>1. /\ cap \in 1..MaxNdef /\ MaxNdef \in Nat /\ card \in Source /\ ndef_data \in Source
      /\ ndef_len \in 0..MaxNdef
  BY CardInfoAssumption, TypeParts DEF InfoInv, Values
<1>2. CASE \E n \in 0..cap : Copied(n)
  <2>1. PICK n \in 0..cap : Copied(n)
    BY <1>2
  <2>2. /\ ndef_present' = (n > 0) /\ ndef_len' = n
        /\ ndef_data' = IF n > 0 THEN card ELSE ndef_data
    BY <2>1 DEF Copied
  <2>3. CASE n > 0
    <3>1. ndef_present' = TRUE
      BY <2>2, <2>3, Zenon
    <3>2. ndef_data' = card /\ ndef_len' = n
      BY <2>2, <2>3
    <3> QED
      BY <1>1, <2>3, <3>1, <3>2
  <2>4. CASE ~(n > 0)
    <3>1. ndef_present' \in BOOLEAN /\ ~ndef_present'
      <4>1. ~ndef_present'
        BY <2>2, <2>4, Zenon
      <4>2. ASSUME NEW P, P = FALSE PROVE P \in BOOLEAN
        BY <4>2
      <4>3. (n > 0) = FALSE
        BY <2>4
      <4> QED
        BY <2>2, <4>1, <4>2, <4>3, Zenon
    <3>2. ndef_data' = ndef_data /\ ndef_len' = n
      BY <2>2, <2>4
    <3> QED
      BY <1>1, <2>4, <3>1, <3>2
  <2> QED
    BY <2>3, <2>4
<1>3. CASE NotRead
  <2>1. ndef_present' \in BOOLEAN /\ ~ndef_present'
    BY <1>3, Zenon DEF NotRead
  <2> QED
    BY <1>1, <1>3, <2>1 DEF NotRead
<1>4. CASE UNCHANGED ndefVars
  <2>1. ndef_present' = ndef_present /\ ndef_present \in BOOLEAN
    BY <1>4, Zenon DEF ndefVars, InfoInv, TypeOK
  <2> QED
    BY <1>1, <1>4, <2>1 DEF InfoInv, FieldsOfCard, ndefVars
<1> QED
  BY <1>2, <1>3, <1>4

\* A step after the entry, seen from the fields: the message may be copied,
\* the metadata set, and the end decodes.
LEMMA StepFields ==
  ASSUME InfoInv, ReadStep
  PROVE  /\ UNCHANGED <<callVars, activeCard>>
         /\ (\E n \in 0..cap : Copied(n)) \/ NotRead \/ UNCHANGED ndefVars
         /\ meta' \in {meta, card}
         /\ \/ UNCHANGED decoded
            \/ Decode
<1> USE DEF ReadStep
<1>1. CASE OpenComponent
  BY <1>1 DEF OpenComponent
<1>2. CASE CheckMessage
  BY <1>2 DEF CheckMessage, NotRead, ndefVars
<1>3. CASE ReadMessage
  BY <1>3 DEF ReadMessage
<1>4. CASE CloseComponent
  BY <1>4 DEF CloseComponent
<1>5. CASE ReadT2T
  BY <1>5 DEF ReadT2T
<1>6. CASE Decode
  BY <1>6 DEF Decode
<1> QED
  BY <1>1, <1>2, <1>3, <1>4, <1>5, <1>6

\* The same step seen from the component.
LEMMA StepComponent ==
  ASSUME InfoInv, ReadStep
  PROVE  /\ rpc' \in {"idle", "check", "read", "close", "decode"}
         /\ compOpen' \subseteq Component
         /\ ComponentPhase'
         /\ rst' \in {"RS_OK", "RS_ERR_NOT_FOUND", "RS_ERR_INTERNAL"}
         /\ rpc # "idle"
         /\ rpc' = "idle" => Decode
<1> USE DEF ReadStep, ComponentPhase, InfoInv, callVars
<1>0. /\ compOpen \subseteq Component
      /\ rst \in {"RS_OK", "RS_ERR_NOT_FOUND", "RS_ERR_INTERNAL"}
  BY TypeParts DEF Values
<1>1. CASE OpenComponent
  BY <1>0, <1>1 DEF OpenComponent
<1>2. CASE CheckMessage
  BY <1>0, <1>2 DEF CheckMessage
<1>3. CASE ReadMessage
  BY <1>0, <1>3 DEF ReadMessage
<1>4. CASE CloseComponent
  BY <1>0, <1>4 DEF CloseComponent
<1>5. CASE ReadT2T
  BY <1>0, <1>5 DEF ReadT2T
<1>6. CASE Decode
  BY <1>0, <1>6 DEF Decode
<1> QED
  BY <1>1, <1>2, <1>3, <1>4, <1>5, <1>6

LEMMA StepInfo ==
  ASSUME InfoInv, ReadStep
  PROVE  InfoInv'
<1>1. /\ UNCHANGED <<card, protocol, cap, activeCard>>
      /\ meta' \in {meta, card}
      /\ UNCHANGED decoded \/ Decode
  BY StepFields DEF callVars
<1>2. /\ ndef_present' \in BOOLEAN
      /\ ndef_len' \in 0..MaxNdef /\ ndef_len' <= cap
      /\ ndef_data' \in Source
      /\ ndef_present' => ndef_data' = card
      /\ ndef_present' <=> ndef_len' > 0
  BY <1>1, StepFields, CopyInfo
<1>3. /\ rpc' \in {"idle", "check", "read", "close", "decode"}
      /\ compOpen' \subseteq Component
      /\ ComponentPhase'
      /\ rst' \in {"RS_OK", "RS_ERR_NOT_FOUND", "RS_ERR_INTERNAL"}
      /\ rpc # "idle"
      /\ rpc' = "idle" => Decode
  BY StepComponent
<1>4. Flags'
  BY <1>1, <1>2, TypeParts DEF InfoInv, Flags
<1>5. decoded = None
  BY <1>3 DEF InfoInv, FieldsOfCard
<1>6. /\ decoded' \in {None, card}
      /\ decoded' # None => ndef_present'
      /\ rpc' # "idle" => decoded' = None
  <2>1. CASE Decode
    BY <2>1, <1>5 DEF InfoInv, FieldsOfCard, Decode, ndefVars
  <2>2. CASE UNCHANGED decoded
    BY <2>2, <1>5
  <2> QED
    BY <1>1, <2>1, <2>2
<1>7. Values'
  BY <1>1, <1>2, <1>3, <1>6, TypeParts DEF InfoInv, Values, Source
<1>8. FieldsOfCard'
  BY <1>1, <1>2, <1>3, <1>6 DEF InfoInv, FieldsOfCard
<1> QED
  BY <1>3, <1>4, <1>7, <1>8, TypesTogether DEF InfoInv

LEMMA NextInfo == InfoInv /\ [Next]_vars => InfoInv'
<1> SUFFICES ASSUME InfoInv, [Next]_vars PROVE InfoInv'
  OBVIOUS
<1>1. CASE NewResult
  <2>1. Flags'
    BY <1>1, TypeParts DEF InfoInv, NewResult, Flags
  <2>2. Values'
    BY <1>1, TypeParts, CardInfoAssumption DEF InfoInv, NewResult, callVars, Values, Source
  <2>3. ComponentPhase' /\ FieldsOfCard'
    BY <1>1, TypeParts, CardInfoAssumption
    DEF InfoInv, NewResult, callVars, ComponentPhase, FieldsOfCard, Values
  <2> QED
    BY <2>1, <2>2, <2>3, TypesTogether DEF InfoInv
<1>2. CASE CardLost
  <2>1. Flags'
    BY <1>2, TypeParts DEF InfoInv, CardLost, Flags, ndefVars
  <2>2. Values' /\ ComponentPhase' /\ FieldsOfCard'
    BY <1>2, TypeParts
    DEF InfoInv, CardLost, callVars, ndefVars, Values, ComponentPhase, FieldsOfCard
  <2> QED
    BY <2>1, <2>2, TypesTogether DEF InfoInv
<1>3. CASE UNCHANGED vars
  BY <1>3, Zenon DEF InfoInv, TypeOK, ComponentPhase, FieldsOfCard, vars, callVars, ndefVars
<1> QED
  BY <1>1, <1>2, <1>3, EntryInfo, StepInfo DEF Next

LEMMA InfoInvariant == Spec => []InfoInv
BY InitInfo, NextInfo, PTL DEF Spec

\* Every variable keeps to its values.
THEOREM TypeCorrect == Spec => []TypeOK
<1>1. InfoInv => TypeOK
  BY DEF InfoInv
<1> QED
  BY <1>1, InfoInvariant, PTL

\* No path through the readers leaves an SDK component open.
THEOREM AllClosed == Spec => []ComponentsClosed
<1>1. InfoInv => ComponentsClosed
  <2> SUFFICES ASSUME InfoInv PROVE ComponentsClosed
    OBVIOUS
  <2>1. compOpen = {} \/ compOpen = {protocol}
    BY DEF InfoInv, ComponentPhase, TypeOK
  <2>2. Cardinality({}) = 0 /\ Cardinality({protocol}) = 1
    BY FS_EmptySet, FS_Singleton
  <2>3. Cardinality(compOpen) <= 1
    BY <2>1, <2>2
  <2> QED
    BY <2>3 DEF InfoInv, ComponentPhase, ComponentsClosed
<1> QED
  BY <1>1, InfoInvariant, PTL

\* Whatever SDK call fails, no field tells of an earlier card.
THEOREM NothingStale == Spec => []NoStaleFields
<1>1. InfoInv => NoStaleFields
  BY DEF InfoInv, FieldsOfCard, NoStaleFields
<1> QED
  BY <1>1, InfoInvariant, PTL

\* The length fits the buffer and the caller's limit, and agrees with the flag.
THEOREM LengthRight == Spec => []LengthAgrees
<1>1. InfoInv => LengthAgrees
  BY DEF InfoInv, FieldsOfCard, LengthAgrees
<1> QED
  BY <1>1, InfoInvariant, PTL

-----------------------------------------------------------------------------
(* The classification of a card.                                           *)

LEMMA CardFact ==
  ASSUME NEW c \in Cards
  PROVE  /\ c.tech \in Tech /\ c.nfcdep \in BOOLEAN /\ c.isodep \in BOOLEAN
         /\ c.uid \in Seq(Nat)
         /\ c.tech = "B" => Len(c.uid) = 4
         /\ c.tech \in {"F", "V"} => Len(c.uid) = 8
BY CardAssumption

\* The adapter chooses a protocol the card supports.
LEMMA ChoosesSupported ==
  ASSUME NEW c \in Cards
  PROVE  ChooseProtocol(c) \in Supported(c) /\ Supported(c) \subseteq Protocol
<1>1. c.tech \in Tech
  BY CardFact
<1>2. CASE c.tech = "A"
  BY <1>2 DEF ChooseProtocol, Supported, Protocol, Component
<1>3. CASE c.tech = "B"
  BY <1>3 DEF ChooseProtocol, Supported, Protocol, Component
<1>4. CASE c.tech = "F"
  BY <1>4 DEF ChooseProtocol, Supported, Protocol, Component
<1>5. CASE c.tech = "V"
  BY <1>5 DEF ChooseProtocol, Supported, Protocol, Component
<1>6. CASE c.tech = "Extension"
  BY <1>6 DEF ChooseProtocol, Supported, Protocol, Component
<1> QED
  BY <1>1, <1>2, <1>3, <1>4, <1>5, <1>6 DEF Tech

\* The technologies behind a protocol.
LEMMA ProtocolTech ==
  ASSUME NEW c \in Cards, NEW p \in Supported(c)
  PROVE  /\ p = "T2T" => c.tech = "A"
         /\ p = "T3T" => c.tech = "F"
         /\ p = "T5T" => c.tech = "V"
         /\ p = "ISODEP" => c.tech \in {"A", "B"}
<1>1. c.tech \in Tech
  BY CardFact
<1> QED
  BY <1>1 DEF Supported, Tech

\* The card type agrees with the protocol.
LEMMA TypeOfCard ==
  ASSUME NEW c \in Cards, NEW p \in Supported(c)
  PROVE  /\ MapCardType(c, p) \in CardType
         /\ CASE p \in {"T2T", "T3T", "T5T"} -> MapCardType(c, p) = p
              [] p = "ISODEP" -> MapCardType(c, p) = IF c.tech = "A" THEN "T4A" ELSE "T4B"
              [] OTHER -> MapCardType(c, p) \notin {"T2T", "T3T", "T4A", "T4B", "T5T"}
<1>1. c.tech \in Tech
  BY CardFact
<1> QED
  BY <1>1, ProtocolTech DEF MapCardType, CardType, Tech

LEMMA ReverseFact ==
  ASSUME NEW s \in Seq(Nat)
  PROVE  /\ Reverse(s) \in Seq(Nat) /\ Len(Reverse(s)) = Len(s)
         /\ \A i \in 1..Len(s) : Reverse(s)[i] = s[Len(s) - i + 1]
BY DEF Reverse

LEMMA ReverseOf8 ==
  ASSUME NEW s \in Seq(Nat), Len(s) = 8
  PROVE  /\ Reverse(s) \in Seq(Nat) /\ Len(Reverse(s)) = 8
         /\ \A i \in 1..8 : Reverse(s)[i] = s[8 - i + 1]
<1>1. /\ Reverse(s) \in Seq(Nat) /\ Len(Reverse(s)) = Len(s)
      /\ \A i \in 1..Len(s) : Reverse(s)[i] = s[Len(s) - i + 1]
  BY ReverseFact, Zenon
<1> QED
  BY <1>1

\* The identifier of the result fits its array.
LEMMA UidType ==
  ASSUME NEW c \in Cards
  PROVE  ExtractUid(c) \in Seq(Nat) /\ Len(ExtractUid(c)) <= UidMax
<1>1. c.tech \in Tech /\ c.uid \in Seq(Nat) /\ Len(c.uid) \in Nat
  BY CardFact
<1>2. CASE c.tech = "A"
  <2> DEFINE n == IF Len(c.uid) > UidMax THEN UidMax ELSE Len(c.uid)
  <2>1. n \in Nat /\ n <= UidMax /\ n <= Len(c.uid)
    BY <1>1 DEF UidMax
  <2>2. ExtractUid(c) = SubSeq(c.uid, 1, n)
    BY <1>2 DEF ExtractUid
  <2> HIDE DEF n
  <2>3. \A i \in 1..n : c.uid[i] \in Nat
    BY <1>1, <2>1
  <2>4. SubSeq(c.uid, 1, n) \in Seq(Nat) /\ Len(SubSeq(c.uid, 1, n)) <= n
    BY <2>1, <2>3, SubSeqProperties
  <2> QED
    BY <2>1, <2>2, <2>4 DEF UidMax
<1>3. CASE c.tech \in {"B", "F"}
  <2>1. Len(c.uid) <= 8
    <3>1. (c.tech = "B" => Len(c.uid) = 4) /\ (c.tech \in {"F", "V"} => Len(c.uid) = 8)
      BY CardFact, Zenon
    <3>2. Len(c.uid) = 4 \/ Len(c.uid) = 8
      BY <1>3, <3>1, Zenon
    <3>3. ASSUME NEW n, n = 4 \/ n = 8 PROVE n <= 8
      BY <3>3
    <3> QED
      BY <3>2, <3>3, Zenon
  <2>2. ExtractUid(c) = c.uid
    BY <1>3 DEF ExtractUid
  <2> QED
    BY <1>1, <2>1, <2>2 DEF UidMax
<1>4. CASE c.tech = "V"
  <2>1. Len(c.uid) = 8
    BY <1>4, CardFact
  <2>2. ExtractUid(c) = Reverse(c.uid)
    BY <1>4 DEF ExtractUid
  <2>3. Reverse(c.uid) \in Seq(Nat) /\ Len(Reverse(c.uid)) = 8
    BY <1>1, <2>1, ReverseFact
  <2> QED
    BY <2>2, <2>3 DEF UidMax
<1>5. CASE c.tech = "Extension"
  BY <1>5 DEF ExtractUid, UidMax
<1> QED
  BY <1>1, <1>2, <1>3, <1>4, <1>5 DEF Tech

\* The frame that addresses a card carries its identifier as on the air.
LEMMA AddressOfCard ==
  ASSUME NEW c \in Cards, NEW p \in Supported(c)
  PROVE  p \in {"T3T", "T5T"} => Address(p, ExtractUid(c)) = c.uid
<1>1. ASSUME NEW s \in Seq(Nat), Len(s) = 8 PROVE SubSeq(s, 1, 8) = s
  BY <1>1, SubSeqFull
<1>2. CASE p = "T3T"
  <2>1. c.tech = "F" /\ c.uid \in Seq(Nat) /\ Len(c.uid) = 8
    BY <1>2, ProtocolTech, CardFact
  <2>2. ExtractUid(c) = c.uid
    BY <2>1 DEF ExtractUid
  <2>3. SubSeq(c.uid, 1, 8) = c.uid
    BY <1>1, <2>1
  <2>4. Address(p, c.uid) = c.uid
    BY <1>2, <2>1, <2>3 DEF Address
  <2> QED
    BY <2>2, <2>4
<1>3. CASE p = "T5T"
  <2>1. c.tech = "V" /\ c.uid \in Seq(Nat) /\ Len(c.uid) = 8
    BY <1>3, ProtocolTech, CardFact
  <2>2. ExtractUid(c) = Reverse(c.uid)
    BY <2>1 DEF ExtractUid
  <2> DEFINE r == Reverse(c.uid)
  <2>3. r \in Seq(Nat) /\ Len(r) = 8 /\ \A i \in 1..8 : r[i] = c.uid[8 - i + 1]
    BY <2>1, ReverseOf8, Zenon
  <2> HIDE DEF r
  <2>4. Address(p, r) = Reverse(r)
    <3>1. SubSeq(r, 1, 8) = r
      BY <1>1, <2>3
    <3>2. Len(r) >= 8
      BY <2>3
    <3>3. Address(p, r) = Reverse(SubSeq(r, 1, 8))
      BY <1>3, <3>2, Zenon DEF Address
    <3> QED
      BY <3>1, <3>3
  <2>5. /\ Reverse(r) \in Seq(Nat) /\ Len(Reverse(r)) = 8
        /\ \A i \in 1..8 : Reverse(r)[i] = r[8 - i + 1]
    BY <2>1, <2>3, ReverseOf8, Zenon
  <2>6. \A i \in 1..8 : Reverse(r)[i] = c.uid[i]
    <3> SUFFICES ASSUME NEW i \in 1..8 PROVE Reverse(r)[i] = c.uid[i]
      OBVIOUS
    <3>1. 8 - i + 1 \in 1..8 /\ 8 - (8 - i + 1) + 1 = i
      OBVIOUS
    <3>2. r[8 - i + 1] = c.uid[8 - (8 - i + 1) + 1]
      BY <2>3, <3>1, Zenon
    <3> QED
      BY <2>5, <3>1, <3>2, Zenon
  <2>7. Reverse(r) = c.uid
    BY <2>1, <2>5, <2>6, SeqEqual, Zenon
  <2> QED
    BY <2>2, <2>4, <2>7 DEF r
<1> QED
  BY <1>2, <1>3

LEMMA AddressType ==
  ASSUME NEW p, NEW uid \in Seq(Nat)
  PROVE  Address(p, uid) \in Seq(Nat)
<1>1. Nobody \in Seq(Nat) /\ <<>> \in Seq(Nat)
  BY DEF Nobody
<1>2. ASSUME Len(uid) >= 8
      PROVE  SubSeq(uid, 1, 8) \in Seq(Nat) /\ Reverse(SubSeq(uid, 1, 8)) \in Seq(Nat)
  <2>1. \A i \in 1..8 : uid[i] \in Nat
    BY <1>2
  <2>2. SubSeq(uid, 1, 8) \in Seq(Nat)
    BY <2>1, SubSeqProperties
  <2> QED
    BY <2>2, ReverseFact
<1> QED
  BY <1>1, <1>2 DEF Address

-----------------------------------------------------------------------------
(* CardEvent.                                                              *)

\* Since its activation the result describes the active card.
Filled ==
  epc # "idle" =>
    /\ active \in Cards
    /\ res.protocol \in Supported(active)
    /\ res.uid = ExtractUid(active)
    /\ res.card_type = MapCardType(active, res.protocol)

\* The read is of the active card, or was never made.
ReadPhase ==
  /\ epc # "reading" => rpc = "idle"
  /\ epc = "reading" => card = active
  /\ epc \in {"raw", "report"} =>
       card = active \/ (~ndef_present /\ meta = None /\ decoded = None)
  /\ epc \in {"reading", "raw", "report"} /\ res.protocol \notin Component \cup {"T2T"} =>
       ~ndef_present /\ rpc = "idle"

\* What the raw exchange left.
RawPhase ==
  /\ epc \in {"ndef", "reading", "raw"} => raw = NoRaw
  /\ epc = "report" =>
       /\ raw.valid => RawWanted
       /\ raw.rx_len > 0 => raw.status = "RS_OK" /\ rxBuf = active
       /\ raw.tx_len > 0 => /\ raw.tx_len = FrameLen[res.protocol]
                            /\ txBuf = Address(res.protocol, res.uid)

EventInv == InfoInv /\ EventTypes /\ Filled /\ ReadPhase /\ RawPhase

LEMMA InitEvent == EventInit => EventInv
<1> SUFFICES ASSUME EventInit PROVE EventInv
  OBVIOUS
<1>1. InfoInv
  BY InitInfo DEF EventInit
<1>2. EventTypes
  BY CardAssumption
  DEF EventInit, NoRaw, EventTypes, CardType, Protocol, Source, UidMax
<1>3. Filled /\ ReadPhase /\ RawPhase
  BY DEF EventInit, Init, Filled, ReadPhase, RawPhase
<1> QED
  BY <1>1, <1>2, <1>3 DEF EventInv

\* What a reader of the event loop's step may use.
LEMMA EventFacts ==
  ASSUME EventInv
  PROVE  /\ RawRxSize \in Nat \ {0}
         /\ MaxNdef \in Nat \ {0}
         /\ activeCard \in BOOLEAN
         /\ opts.max_ndef_bytes \in 0..MaxNdef + 1
         /\ epc # "idle" => active \in Cards /\ res.protocol \in Protocol
BY CardAssumption, CardInfoAssumption, Zenon
DEF EventInv, InfoInv, TypeOK, EventTypes, Filled

\* Every step of the event loop is one of CardInfo, or none.
LEMMA EventStep ==
  ASSUME EventInv, [EventNext]_allVars
  PROVE  [Next]_vars
<1>1. ASSUME NEW c \in Cards, Activate(c) PROVE Next
  BY <1>1 DEF Activate, Next
<1>2. CASE ActivateFails \/ ReadReturns \/ SkipRaw \/ RefuseRaw \/ RawExchange
  BY <1>2 DEF ActivateFails, ReadReturns, SkipRaw, RefuseRaw, RawExchange
<1>3. CASE CallReadCardInfo
  <2>1. ReadCardInfo(active, res.protocol, opts.max_ndef_bytes)
    BY <1>3 DEF CallReadCardInfo
  <2>2. active \in Cards /\ res.protocol \in Protocol /\ opts.max_ndef_bytes \in 0..MaxNdef + 1
    BY <1>3, EventFacts DEF CallReadCardInfo
  <2> QED
    BY <2>1, <2>2 DEF Next
<1>4. CASE Reading
  BY <1>4 DEF Reading, Next
<1>5. CASE Report
  <2>1. CASE activeCard
    BY <1>5, <2>1 DEF Report, CardLost, Next
  <2>2. CASE ~activeCard
    <3>1. activeCard' = activeCard
      BY <1>5, <2>2, EventFacts DEF Report
    <3> QED
      BY <1>5, <3>1 DEF Report, vars
  <2> QED
    BY <2>1, <2>2
<1>6. CASE UNCHANGED allVars
  BY <1>6 DEF allVars
<1> QED
  BY <1>1, <1>2, <1>3, <1>4, <1>5, <1>6 DEF EventNext

\* The part of the invariant that is CardEvent's.
Event == EventTypes /\ Filled /\ ReadPhase /\ RawPhase

LEMMA ActivateEvent ==
  ASSUME EventInv, NEW c \in Cards, Activate(c)
  PROVE  Event'
<1>1. PICK p \in Supported(c) \cup {ChooseProtocol(c)} :
        res' = [card_type |-> MapCardType(c, p), protocol |-> p, uid |-> ExtractUid(c)]
  BY DEF Activate
<1>2. p \in Supported(c) /\ p \in Protocol
  BY ChoosesSupported
<1>3. /\ res'.card_type = MapCardType(c, p) /\ res'.protocol = p
      /\ res'.uid = ExtractUid(c)
  BY <1>1
<1>4. /\ MapCardType(c, p) \in CardType
      /\ ExtractUid(c) \in Seq(Nat) /\ Len(ExtractUid(c)) <= UidMax
  BY <1>2, TypeOfCard, UidType
<1>5. /\ active' = c /\ raw' = NoRaw /\ epc' \in {"ndef", "raw"} /\ rpc' = "idle"
      /\ ndef_present' = FALSE /\ meta' = None /\ decoded' = None
      /\ UNCHANGED <<opts, txBuf, rxBuf, event>>
  BY DEF Activate, NewResult, EventInv, ReadPhase
<1>6. NoRaw \in [valid : BOOLEAN, tx_len : 0..15, rx_len : 0..RawRxSize,
                 status : {"RS_OK", "RS_ERR_INTERNAL", "RS_ERR_INVALID_CFG"}]
  BY CardAssumption DEF NoRaw
<1>7. EventTypes'
  BY <1>2, <1>3, <1>4, <1>5, <1>6 DEF EventTypes, EventInv, Source
<1>8. Filled'
  BY <1>2, <1>3, <1>5 DEF Filled
<1>9. ReadPhase' /\ RawPhase'
  BY <1>5 DEF ReadPhase, RawPhase
<1> QED
  BY <1>7, <1>8, <1>9 DEF Event

LEMMA FailEvent ==
  ASSUME EventInv, ActivateFails
  PROVE  Event'
<1>1. EventTypes'
  BY DEF ActivateFails, EventInv, EventTypes
<1>2. Filled' /\ ReadPhase' /\ RawPhase'
  BY DEF ActivateFails, EventInv, Filled, ReadPhase, RawPhase, vars
<1> QED
  BY <1>1, <1>2 DEF Event

LEMMA CallEvent ==
  ASSUME EventInv, CallReadCardInfo
  PROVE  Event'
<1>1. /\ epc = "ndef" /\ epc' = "reading" /\ card' = active
      /\ UNCHANGED <<opts, active, res, raw, txBuf, rxBuf, event>>
      /\ ndef_present' = FALSE
      /\ res.protocol \notin Component \cup {"T2T"} => rpc' = "idle"
  BY DEF CallReadCardInfo, ReadCardInfo, ClearFields
<1>2. EventTypes'
  BY <1>1 DEF EventInv, EventTypes
<1>3. Filled' /\ ReadPhase' /\ RawPhase'
  BY <1>1 DEF EventInv, Filled, ReadPhase, RawPhase
<1> QED
  BY <1>2, <1>3 DEF Event

LEMMA ReadingEvent ==
  ASSUME EventInv, Reading
  PROVE  Event'
<1>1. UNCHANGED <<epc, opts, active, res, raw, txBuf, rxBuf, event>>
  BY DEF Reading, eventVars
<1>2. EventTypes' /\ Filled' /\ RawPhase'
  BY <1>1 DEF EventInv, EventTypes, Filled, RawPhase, RawWanted
<1>3. ReadPhase'
  <2>1. CASE ReadStep
    <3>1. rpc # "idle" /\ card' = card
      BY <2>1, StepFields, StepComponent DEF EventInv, callVars
    <3> QED
      BY <1>1, <3>1 DEF EventInv, ReadPhase
  <2>2. CASE CardLost
    BY <1>1, <2>2 DEF EventInv, ReadPhase, CardLost, callVars, ndefVars
  <2> QED
    BY <2>1, <2>2 DEF Reading
<1> QED
  BY <1>2, <1>3 DEF Event

LEMMA PassEvent ==
  ASSUME EventInv, ReadReturns \/ SkipRaw
  PROVE  Event'
<1>1. /\ UNCHANGED <<vars, opts, active, res, raw, txBuf, rxBuf, event>>
      /\ rpc = "idle"
      /\ \/ epc = "reading" /\ epc' = "raw"
         \/ epc = "raw" /\ epc' = "report"
  BY DEF ReadReturns, SkipRaw, EventInv, ReadPhase
<1>2. EventTypes' /\ Filled'
  BY <1>1 DEF EventInv, EventTypes, Filled
<1>3. ReadPhase'
  BY <1>1 DEF EventInv, ReadPhase, vars, callVars, ndefVars
<1>4. RawPhase'
  BY <1>1 DEF EventInv, RawPhase, NoRaw
<1> QED
  BY <1>2, <1>3, <1>4 DEF Event

LEMMA RawEvent ==
  ASSUME EventInv, RefuseRaw \/ RawExchange
  PROVE  Event'
<1>1. /\ UNCHANGED <<vars, opts, active, res, event>>
      /\ epc = "raw" /\ epc' = "report" /\ RawWanted
  BY DEF RefuseRaw, RawExchange
<1>2. res.uid \in Seq(Nat) /\ rxBuf \in Source /\ txBuf \in Seq(Nat) /\ active \in Cards
  BY <1>1 DEF EventInv, EventTypes, Filled
<1>3. /\ raw' \in [valid : BOOLEAN, tx_len : 0..15, rx_len : 0..RawRxSize,
                   status : {"RS_OK", "RS_ERR_INTERNAL", "RS_ERR_INVALID_CFG"}]
      /\ txBuf' \in Seq(Nat) /\ rxBuf' \in Source
      /\ raw'.rx_len > 0 => raw'.status = "RS_OK" /\ rxBuf' = active
      /\ raw'.tx_len > 0 => /\ raw'.tx_len = FrameLen[res.protocol]
                            /\ txBuf' = Address(res.protocol, res.uid)
  <2>1. CASE RefuseRaw
    BY <1>2, <2>1, CardAssumption DEF RefuseRaw
  <2>2. CASE RawExchange
    <3>1. PICK status \in {"RS_OK", "RS_ERR_INTERNAL"}, n \in 0..RawRxSize :
            /\ rxBuf' = IF status = "RS_OK" THEN active ELSE rxBuf
            /\ raw' = [valid |-> TRUE, status |-> status,
                       tx_len |-> FrameLen[res.protocol],
                       rx_len |-> IF status = "RS_OK" THEN n ELSE 0]
      BY <2>2 DEF RawExchange
    <3>2. FrameLen[res.protocol] \in 0..15 /\ txBuf' = Address(res.protocol, res.uid)
      BY <2>2 DEF RawExchange, FrameLen
    <3>3. txBuf' \in Seq(Nat)
      BY <1>2, <3>2, AddressType
    <3> QED
      BY <1>2, <3>1, <3>2, <3>3, CardAssumption DEF Source
  <2> QED
    BY <2>1, <2>2
<1>4. EventTypes'
  BY <1>1, <1>3 DEF EventInv, EventTypes
<1>5. Filled' /\ ReadPhase'
  BY <1>1 DEF EventInv, Filled, ReadPhase, vars, callVars, ndefVars
<1>6. RawPhase'
  BY <1>1, <1>3 DEF RawPhase, RawWanted
<1> QED
  BY <1>4, <1>5, <1>6 DEF Event

LEMMA ReportEvent ==
  ASSUME EventInv, Report
  PROVE  Event'
<1>1. EventTypes'
  BY DEF Report, EventInv, EventTypes
<1>2. Filled' /\ ReadPhase' /\ RawPhase'
  BY DEF Report, EventInv, Filled, ReadPhase, RawPhase
<1> QED
  BY <1>1, <1>2 DEF Event

LEMMA NextEvent == EventInv /\ [EventNext]_allVars => EventInv'
<1> SUFFICES ASSUME EventInv, [EventNext]_allVars PROVE EventInv'
  OBVIOUS
<1>1. InfoInv'
  BY EventStep, NextInfo DEF EventInv
<1>2. CASE UNCHANGED allVars
  <2>1. EventTypes' /\ Filled' /\ ReadPhase'
    BY <1>2 DEF EventInv, allVars, eventVars, vars, callVars, ndefVars,
                EventTypes, Filled, ReadPhase
  <2>2. RawPhase'
    BY <1>2 DEF EventInv, allVars, eventVars, RawPhase, RawWanted
  <2> QED
    BY <1>1, <2>1, <2>2 DEF EventInv
<1>3. CASE EventNext
  <2>1. Event'
    BY <1>3, ActivateEvent, FailEvent, CallEvent, ReadingEvent, PassEvent, RawEvent,
       ReportEvent DEF EventNext
  <2> QED
    BY <1>1, <2>1 DEF Event, EventInv
<1> QED
  BY <1>2, <1>3

LEMMA EventInvariant == EventSpec => []EventInv
BY InitEvent, NextEvent, PTL DEF EventSpec

\* The event loop uses the readers as CardInfo lets a caller use them, so what
\* is proved of them holds of every event.
THEOREM EventRefinesRead == EventSpec => Spec
<1>1. EventInit => Init
  BY DEF EventInit
<1>2. EventInv /\ [EventNext]_allVars => [Next]_vars
  BY EventStep
<1> QED
  BY <1>1, <1>2, EventInvariant, PTL DEF EventSpec, Spec

\* Every variable of the event loop keeps to its values.
THEOREM EventTypeCorrect == EventSpec => []EventTypeOK
<1>1. EventInv => EventTypeOK
  BY DEF EventInv, InfoInv, EventTypeOK
<1> QED
  BY <1>1, EventInvariant, PTL

\* No event carries anything of an earlier card.
THEOREM OnlyThisCard == EventSpec => []EventIsOfThisCard
<1>1. EventInv => EventIsOfThisCard
  BY DEF EventInv, InfoInv, FieldsOfCard, Filled, ReadPhase, RawPhase, EventIsOfThisCard
<1> QED
  BY <1>1, EventInvariant, PTL

\* The raw frame addresses the card by the identifier it sent.
THEOREM Addressed == EventSpec => []RawAddressesTheCard
<1>1. EventInv => RawAddressesTheCard
  <2> SUFFICES ASSUME EventInv, epc = "report", raw.tx_len > 0
               PROVE  /\ raw.tx_len = FrameLen[res.protocol]
                      /\ res.protocol \in {"T3T", "T5T"} => txBuf = active.uid
    BY DEF RawAddressesTheCard
  <2>1. raw.tx_len = FrameLen[res.protocol] /\ txBuf = Address(res.protocol, res.uid)
    BY DEF EventInv, RawPhase
  <2>2. active \in Cards /\ res.protocol \in Supported(active) /\ res.uid = ExtractUid(active)
    BY DEF EventInv, Filled
  <2> QED
    BY <2>1, <2>2, AddressOfCard
<1> QED
  BY <1>1, EventInvariant, PTL

\* The tag type reported is the one the card was read as.
THEOREM TypesAgree == EventSpec => []TagTypeAgrees
<1>1. EventInv => TagTypeAgrees
  <2> SUFFICES ASSUME EventInv, epc = "report" PROVE TagTypeAgrees
    BY DEF TagTypeAgrees
  <2>1. /\ active \in Cards /\ res.protocol \in Supported(active)
        /\ res.card_type = MapCardType(active, res.protocol)
    BY DEF EventInv, Filled
  <2>2. res.protocol \notin Component \cup {"T2T"} => ~ndef_present
    BY DEF EventInv, ReadPhase
  <2>3. CASE res.protocol \in {"T2T", "T3T", "T5T"}
    BY <2>1, <2>3, TypeOfCard DEF TagTypeAgrees
  <2>4. CASE res.protocol = "ISODEP"
    BY <2>1, <2>4, TypeOfCard DEF TagTypeAgrees
  <2>5. CASE res.protocol \notin {"T2T", "T3T", "T5T", "ISODEP"}
    <3>1. res.card_type \notin {"T2T", "T3T", "T4A", "T4B", "T5T"}
      BY <2>1, <2>5, TypeOfCard
    <3> QED
      BY <2>2, <2>5, <3>1 DEF TagTypeAgrees, Component
  <2> QED
    BY <2>3, <2>4, <2>5
<1> QED
  BY <1>1, EventInvariant, PTL
=============================================================================
