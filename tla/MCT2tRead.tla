------------------------------ MODULE MCT2tRead ------------------------------
(* An instance of T2tRead for TLC: bytes below 8, blocks of one byte, and  *)
(* every tag with up to three TLVs out of six.                             *)
EXTENDS T2tRead

\* Values that hold every byte, the NDEF type, the terminator and the long
\* form's mark included.
ValueOf(n) == [i \in 1..n |-> (i + 2) % 8]

Tlvs ==
  {[type |-> t, value |-> <<>>] : t \in {0, 6}}
    \cup {[type |-> 1, value |-> ValueOf(2)]}
    \cup {[type |-> 3, value |-> ValueOf(n)] : n \in {1, 4, 8}}

Written == UNION {[1..n -> Tlvs] : n \in 0..3}

TagOf(z, w) ==
  [size |-> z, tlvs |-> w, mem |-> FlattenSeq(Encodings(w)), at |-> Places(Encodings(w))]

SmallTags == {TagOf(z, w) : z \in {0, 2, 6}, w \in Written}
=============================================================================
