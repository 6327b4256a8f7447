----------------------------- MODULE MCFastFair ----------------------------
(***************************************************************************)
(* Small instances of FastFair for TLC.                                    *)
(***************************************************************************)
EXTENDS FastFair

(* Five records, keys of two words; 2 and 5 were put with the same key.    *)
TwoWordKeys == << <<1, 5>>, <<2, 3>>, <<2, 6>>, <<1, 7>>, <<2, 3>> >>
TwoWordBounds == {<< <<1, 0>>, <<9, 0>> >>, << <<1, 6>>, <<2, 4>> >>}

(* Five records, keys that are copied in one piece.                        *)
OneWordKeys == << <<2>>, <<6>>, <<4>>, <<3>>, <<3>> >>
OneWordBounds == {<< <<2>>, <<5>> >>}

(* Three records, of which the first and the last end alike.               *)
LikeKeys == << <<2, 7>>, <<2, 5>>, <<1, 7>> >>
LikeBounds == {<< <<2, 6>>, <<9, 0>> >>}
=============================================================================
