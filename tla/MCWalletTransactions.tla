------------------------ MODULE MCWalletTransactions ------------------------
(***************************************************************************)
(* TLC instance of WalletTransactions: database transactions and keys are  *)
(* interchangeable; users are not (their order is the lock order).         *)
(***************************************************************************)
EXTENDS WalletTransactions, TLC

Symmetry == Permutations(Procs) \cup Permutations(Keys)

=============================================================================
