------------------------- MODULE MCLimeRadioThread -------------------------
(* Small instances of LimeRadioThread.                                     *)
EXTENDS LimeRadioThread

(* Two blocks to transmit, of one and of two samples, and an empty one.    *)
CONSTANTS a, b
MCTxBlock == {[timestampFirstSample |-> 0, data |-> d] : d \in {<<>>, <<a>>, <<a, b>>}}
=============================================================================
