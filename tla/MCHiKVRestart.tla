--------------------------- MODULE MCHiKVRestart ----------------------------
(***************************************************************************)
(* A small instance of HiKVRestart for TLC.                                *)
(***************************************************************************)
EXTENDS HiKVRestart

(* Two keys without a collision, each with a bucket of its own.            *)
DistinctHash == << <<2, 5>>, <<4, 7>> >>
=============================================================================
