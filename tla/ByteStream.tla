------------------------------ MODULE ByteStream ------------------------------
(***************************************************************************)
(* What a pair of Cryptors promises to the two ends of a connection: each  *)
(* end gets the bytes the other one gave, in order, none lost and none     *)
(* made up.  Nothing is said of initialisation vectors or of how the       *)
(* connection cuts the stream.                                             *)
(***************************************************************************)
EXTENDS Integers, SequencesExt

CONSTANTS Peers, Bytes

VARIABLES
  given,  \* [Peers -> what an end has passed to encrypt()]
  got     \* [Peers -> what an end has been handed by decrypt()]

Other(p) == CHOOSE q \in Peers : q # p

Init == given = [p \in Peers |-> <<>>] /\ got = [p \in Peers |-> <<>>]

Give(p) ==
  /\ given'[p] \in Seq(Bytes) /\ IsPrefix(given[p], given'[p])
  /\ given' = [given EXCEPT ![p] = given'[p]]
  /\ UNCHANGED got

Get(p) ==
  /\ \E n \in Len(got[p]) .. Len(given[Other(p)]) :
       got' = [got EXCEPT ![p] = SubSeq(given[Other(p)], 1, n)]
  /\ UNCHANGED given

Next == \E p \in Peers : Give(p) \/ Get(p)

Spec == Init /\ [][Next]_<<given, got>>
=============================================================================
