--------------------------- MODULE MCChainAnchor ---------------------------
(* Two calls of at most two attempts, one observer, a Long whose low half   *)
(* has three bits.                                                          *)
EXTENDS ChainAnchor

MCCalls == 1 .. 2
MCObservers == {"o1"}
MCAmounts == {1, 4}

=============================================================================
