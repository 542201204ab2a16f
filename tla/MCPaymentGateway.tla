------------------------- MODULE MCPaymentGateway --------------------------
(* Two payments in three attempts from a wallet of ten, which the low half *)
(* of a Long can just not show.  The plans: transfers that use up the      *)
(* wallet, a withdrawal beside a transfer that are more than it has,       *)
(* amounts at the hard limit and beyond the Long's low half, a funding     *)
(* source's payments, and external transfers of which one is a spike.      *)
EXTENDS PaymentGateway

P(kind, amount, keyed) == [kind |-> kind, amount |-> amount, keyed |-> keyed]

MCPayments == 1 .. 2
MCPlans == {
    <<P("transfer", 2, TRUE), P("transfer", 8, TRUE)>>,
    <<P("transfer", 3, FALSE), P("withdrawal", 8, TRUE)>>,
    <<P("transfer", 9, FALSE), P("topup", 11, TRUE)>>,
    <<P("topup", 3, FALSE), P("withdrawal", 2, FALSE)>>,
    <<P("external", 1, FALSE), P("external", 5, TRUE)>> }
MCBalances == {10}

=============================================================================
