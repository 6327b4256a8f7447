----------------------------- MODULE MCHiKVBench ----------------------------
(***************************************************************************)
(* Small instances of HiKVBench for TLC.                                   *)
(***************************************************************************)
EXTENDS HiKVBench

OneKeyHash == << <<2>>, <<3>> >>
=============================================================================
