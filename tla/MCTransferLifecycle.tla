------------------------ MODULE MCTransferLifecycle ------------------------
(***************************************************************************)
(* Model checking TransferLifecycle: one transaction of any of the four    *)
(* kinds, with few requests, settlement cycles and chain workers.          *)
(***************************************************************************)
EXTENDS TransferLifecycle, TLC

CONSTANTS r1, r2, j1, j2, w1, w2

Symmetry == Permutations({r1, r2}) \cup Permutations({j1, j2})
              \cup Permutations({w1, w2})
=============================================================================
