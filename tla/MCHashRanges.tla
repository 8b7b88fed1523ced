---------------------------- MODULE MCHashRanges ----------------------------
(***************************************************************************)
(* The subdivision at the code's own sizes, 30 and 1000: from a range that *)
(* sits at a boundary of some level, drill down into any of its pieces.    *)
(***************************************************************************)
EXTENDS Subdivision

MCFirsts == {1, 2, 62}
MCLengths == {1, 2, 29, 30, 31, 60, 61, 999, 1000, 1001, 2000, 2001}
=============================================================================
