--------------------------- MODULE MCAuthSessions --------------------------
(* Two handlers.  They are interchangeable.                                *)
EXTENDS AuthSessions, TLC

CONSTANTS p1, p2

MCProcs == {p1, p2}
MCSymmetry == Permutations(MCProcs)

=============================================================================
