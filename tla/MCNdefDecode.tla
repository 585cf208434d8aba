---------------------------- MODULE MCNdefDecode ----------------------------
(* An instance of NdefDecode for TLC: bytes below 8, whose three bits are  *)
(* the header's; messages of up to three records cut at every byte, every  *)
(* message of up to four bytes, and long records with every sort of length.*)
EXTENDS NdefDecode

Kinds ==
  {[type |-> <<>>,        id |-> <<>>,     payload |-> <<>>,     sr |-> TRUE,  il |-> FALSE],
   [type |-> <<5>>,       id |-> <<>>,     payload |-> <<6, 7>>, sr |-> TRUE,  il |-> FALSE],
   [type |-> <<5, 4, 3>>, id |-> <<2, 2>>, payload |-> <<1>>,    sr |-> TRUE,  il |-> TRUE],
   [type |-> <<2, 4>>,    id |-> <<>>,     payload |-> <<7, 0>>, sr |-> FALSE, il |-> FALSE],
   [type |-> <<1>>,       id |-> <<3>>,    payload |-> [i \in 1..9 |-> 4],
    sr |-> FALSE, il |-> TRUE]}

WrittenMessages == UNION {[1..n -> Kinds] : n \in 1..3}

\* Cut anywhere behind the first byte.
Cuts(w) ==
  LET pieces == Encodings(w)
      whole == FlattenSeq(pieces)
      places == Places(pieces)
  IN  {[bytes |-> SubSeq(whole, 1, n), written |-> w, at |-> places] :
         n \in 1..Len(whole)}

CutMessages == UNION {Cuts(w) : w \in WrittenMessages}

NotKnown(bytes) == [bytes |-> bytes, written |-> <<>>, at |-> <<0>>]

AnyBytes ==
  {NotKnown(b) : b \in UNION {[1..n -> 0..7] : n \in 1..4}}

\* A record in front, then a long one with a length near 0 or near 8^4.
AnyLength ==
  {NotKnown(front \o <<h, t, w, w, w, x>> \o tail) :
     front \in {<<>>, <<2, 0, 1, 5>>}, h \in {0, 1, 4}, t \in 0..1,
     w \in {0, 7}, x \in 0..7, tail \in {<<>>, <<0, 2>>}}

SmallMessages == CutMessages \cup AnyBytes \cup AnyLength
=============================================================================
