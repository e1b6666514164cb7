--------------------------- MODULE MCPhyFrameSync ---------------------------
(* The synchroniser at one sixty-fourth of its size: the proportions that   *)
(* matter are kept (M, M/2 and M/4 samples; a timeout that is half an       *)
(* evaluation interval off; a frame period inside the search).              *)
EXTENDS PhyFrameSync

AnyOffset == {-1, 0, 1}
=============================================================================
