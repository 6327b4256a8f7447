------------------------------ MODULE MCBTree ------------------------------
(***************************************************************************)
(* Small instances of BTree for TLC: ascending, descending and equal keys, *)
(* enough of them for a tree of three levels.  Three threads, two of which *)
(* are slow to post one split, meet each other on an inner page; what      *)
(* comes after a race is not of interest there.                            *)
(***************************************************************************)
EXTENDS BTree

TwoQueues == << <<1, 3, 5, 7, 9, 11>>, <<12, 10, 8, 6, 5, 4>> >>

ThreeQueues ==
  << <<10, 8, 16, 16, 11, 15, 14, 2, 20, 4, 6, 12, 6, 9, 7>>, <<21>>, <<19>> >>

Unraced == ~raced
=============================================================================
