-------------------------- MODULE MCPartnerAdapter --------------------------
(* Two transfers, two checks, two restarts.  The environments: every kind   *)
(* of partner with its defaults, switched on and off, an unknown partner,   *)
(* and the overrides that change what is sent and signed.                   *)
EXTENDS PartnerAdapter

E(alias, style, mode, fields, static) ==
    [alias |-> alias, style |-> style, mode |-> mode, fields |-> fields,
     static |-> static, enabled |-> TRUE, url |-> TRUE, secret |-> TRUE]

On == { E("MOMO_WALLET", "", "", <<>>, <<>>), E("VNP", "", "", <<>>, <<>>),
        E("ZLP", "", "", <<>>, [app_user |-> "constant"]),
        E("TCB", "", "", <<>>, <<>>),
        E("VNP", "", "", <<>>, [vnp_Amount |-> "constant"]),
        E("ZALOPAY", "GENERIC", "", <<>>, <<>>),
        E("VCB", "", "PAYLOAD_FIELDS_HMAC", <<>>, <<>>),
        E("MOMO", "", "HEADER_CANONICAL", <<"orderId">>, <<>>) }

MCEnvs == On \cup {[e EXCEPT !.enabled = FALSE] : e \in On}
             \cup {E("", "", "", <<>>, <<>>),
                   [E("VNPAY", "BANK", "", <<>>, <<>>) EXCEPT !.secret = FALSE],
                   [E("MOMO", "", "", <<>>, <<>>) EXCEPT !.url = FALSE]}

\* 1003, -1 and UNSUCCESSFUL are refusals in no table; 24 resembles nothing.
MCOtherCodes == { <<"1", "0", "0", "3">>, <<"-", "1">>,
                  <<"UN", "SUCCESS", "FUL">>, <<"2", "4">> }

MCSymmetry == Permutations(Transfers) \cup Permutations(Checks)

=============================================================================
