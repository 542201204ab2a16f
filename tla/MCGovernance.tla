---------------------------- MODULE MCGovernance ----------------------------
(***************************************************************************)
(* TLC instance of Governance: two founders, one with two clients and one  *)
(* with none, two newcomers, one with a client that can vote for the other *)
(* before it is a member and after, and a policy that shortens expiry.     *)
(***************************************************************************)
EXTENDS Governance, TLC

CONSTANTS kufi, bank, shop, cafe, kufi1, kufi2, cafe1

SmallMSPs == {kufi, bank, shop, cafe}
SmallLists == {{kufi, bank}}
Newcomers == {shop, cafe}
SmallClients == {kufi1, kufi2, cafe1}
SmallMspOf == [c \in SmallClients |-> IF c = cafe1 THEN cafe ELSE kufi]

MajorityPolicy(hours) == [policyType |-> "MAJORITY", expiryHours |-> hours]
LongMajority == MajorityPolicy(2)
ShorterExpiry == {MajorityPolicy(1)}

Symmetry == Permutations(Requests) \cup Permutations({kufi1, kufi2})

=============================================================================
