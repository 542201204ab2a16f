--------------------------- MODULE MCUserAccounts --------------------------
(* Two users, one of them without an e-mail, two handlers, one number in   *)
(* three formats.                                                          *)
EXTENDS UserAccounts, TLC

CONSTANTS p1, p2

MCProcs == {p1, p2}
MCUsers == 1 .. 2
MCNumbers == {"n"}
MCMailed == {1}
MCSymmetry == Permutations(MCProcs)

=============================================================================
