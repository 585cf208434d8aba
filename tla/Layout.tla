-------------------------------- MODULE Layout --------------------------------
(***************************************************************************)
(* A sequence of bytes that was written piece by piece: the TLVs of a tag  *)
(* (T2tRead), the records of an NDEF message (NdefDecode).                 *)
(***************************************************************************)
EXTENDS Naturals, SequencesExt

\* The bytes hold the pieces one after another, without a gap: the i-th piece
\* lies behind the first at[i] bytes, and the last one ends at the last
\* element of "at".  The bytes may end before that, in the middle of a piece.
LaidOut(bytes, pieces, at) ==
  /\ at \in Seq(Nat) /\ Len(at) = Len(pieces) + 1
  /\ at[1] = 0 /\ Len(bytes) <= at[Len(at)]
  /\ \A i \in 1..Len(pieces) :
       /\ at[i + 1] = at[i] + Len(pieces[i])
       /\ \A k \in 1..Len(pieces[i]) :
            at[i] + k <= Len(bytes) => bytes[at[i] + k] = pieces[i][k]

\* Where the pieces lie when they are joined.
Places(pieces) ==
  [i \in 1..Len(pieces) + 1 |-> Len(FlattenSeq(SubSeq(pieces, 1, i - 1)))]
=============================================================================
