----------------------------- MODULE MCNotifier -----------------------------
(***************************************************************************)
(* TLC instance of Notifier: an internal transfer from alice to bob and   *)
(* another event; alice has no settings row yet and switches e-mail on.    *)
(* No symmetry is declared because the run checks liveness.                *)
(***************************************************************************)
EXTENDS Notifier

CONSTANTS e1, e2, alice, bob, r1

MCMessage ==
    [e \in Events |->
        [eventType |-> IF e = e1 THEN "transaction.completed"
                       ELSE "transaction.failed",
         internal |-> TRUE, from |-> alice, to |-> bob]]

MCOpenings == {[x \in Users |-> IF x = alice THEN "none" ELSE "off"]}

MCWants == [r \in Requests |-> [user |-> alice, email |-> "on"]]

=============================================================================
