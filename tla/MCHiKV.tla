------------------------------- MODULE MCHiKV -------------------------------
(***************************************************************************)
(* Small instances of HiKV for TLC.                                        *)
(***************************************************************************)
EXTENDS HiKV

(* Four keys over two buckets of two slots.  1 and 2 have a bucket of each *)
(* parity, 3 has the same bucket twice, and the two hashes of 4 are those  *)
(* of 3 and 1, so that 1, 3 and 4 collide and 2 does not.                  *)
CollidingHash == << <<2, 5, 4, 4>>, <<3, 8, 6, 2>> >>

(* Two keys without a collision.                                           *)
DistinctHash == << <<2, 5>>, <<3, 8>> >>

=============================================================================
