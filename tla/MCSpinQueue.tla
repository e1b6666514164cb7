----------------------------- MODULE MCSpinQueue -----------------------------
(* Three threads, as in the program: the radio thread that pushes, the      *)
(* consumer, and main, which resizes and flushes.  Any of them may call     *)
(* anything.  The largest limit bounds the queue.                           *)
EXTENDS SpinQueue

Limits == {1, 2}
=============================================================================
