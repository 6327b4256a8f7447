------------------------------ MODULE MCKVNet -------------------------------
(***************************************************************************)
(* Small instances of KVNet for TLC.                                       *)
(***************************************************************************)
EXTENDS KVNet

(* Three keys in a single bucket of two slots: the third is refused.       *)
ThreeHash == << <<2, 5, 7>>, <<3, 8, 9>> >>

(* Two clients that share their first key.                                 *)
SharedKeys == [c \in Client |-> IF c = "c1" THEN <<1, 2>> ELSE <<1, 3>>]

=============================================================================
