----------------------------- MODULE MCFrameLink -----------------------------
(* The link with a symbol of one sixteenth of its size and a payload of    *)
(* two symbols for twenty: M/4 is 16, a period is 6 more than a multiple   *)
(* of M/4 as 22850 is 66 more, and the search ends 4 samples behind a      *)
(* multiple of M/4 from the STS as in the code it ends 64 behind.          *)
EXTENDS FrameLink

(* The slope of a strong signal, and one in noise.                         *)
BothSlopes == {<<11, 24>>, <<21, 37>>}
NoOffset == {0}
=============================================================================
