----------------------------- MODULE MCCardEvent -----------------------------
(* An instance of CardEvent for TLC: one card of every technology and of   *)
(* every protocol, with identifiers of every length.                       *)
EXTENDS CardEvent

Uid(first, n) == [i \in 1..n |-> first + i]

SomeCards ==
  {[tech |-> "A", uid |-> Uid(10, 4),  nfcdep |-> FALSE, isodep |-> FALSE],
   [tech |-> "A", uid |-> Uid(20, 7),  nfcdep |-> FALSE, isodep |-> TRUE],
   [tech |-> "A", uid |-> Uid(30, 10), nfcdep |-> TRUE,  isodep |-> TRUE],
   [tech |-> "B", uid |-> Uid(40, 4),  nfcdep |-> FALSE, isodep |-> TRUE],
   [tech |-> "B", uid |-> Uid(50, 4),  nfcdep |-> FALSE, isodep |-> FALSE],
   [tech |-> "F", uid |-> Uid(60, 8),  nfcdep |-> TRUE,  isodep |-> FALSE],
   [tech |-> "V", uid |-> Uid(70, 8),  nfcdep |-> FALSE, isodep |-> FALSE],
   [tech |-> "Extension", uid |-> <<>>, nfcdep |-> FALSE, isodep |-> FALSE]}
=============================================================================
