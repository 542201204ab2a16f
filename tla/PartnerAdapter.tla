--------------------------- MODULE PartnerAdapter ---------------------------
(***************************************************************************)
(* The partner adapter of the outside-payment service: how a partner's     *)
(* configuration is resolved, what a request to it carries and what its    *)
(* signature covers, how the partner's JSON answer is read as SUBMITTED,   *)
(* SETTLED or FAILED, and what that does to the external_transfers rows.   *)
(*                                                                         *)
(* A text is a sequence of symbols, a run of letters being one symbol and  *)
(* a digit another, because the reader looks for one text inside another.  *)
(* A JSON body is a function from paths (sequences of keys) to texts, a    *)
(* payload a function from field names to what the field holds.            *)
(***************************************************************************)
EXTENDS Naturals, FiniteSets, Sequences, SequencesExt

CONSTANTS Transfers,     \* the transactions handed to the service
          Checks,        \* checkTransfer calls
          Envs,          \* the environments the service may be started with
          OtherCodes,    \* refusals in words outside the mapping tables
          MaxRestarts    \* bound: restarts of the service

VARIABLES env,           \* the environment the service runs with
          restarts,      \* restarts so far
          call,          \* call[t]: how far initiateTransfer of t has come
          row,           \* row[t]: the external_transfers row of t
          check,         \* check[k]: the transfer call k asks the partner about
          partner,       \* partner[t]: what the partner did with t
          sent,          \* history: the requests sent to the partner
          mishaps        \* history: mishaps[t], what went wrong for t

partnerVars == <<env, restarts, call, row, check, partner, sent, mishaps>>

-----------------------------------------------------------------------------
(* Resolving the partner's configuration.                                  *)

\* An environment: what a caller names the partner, whether the partner is
\* switched on with a base URL, and the settings that override the defaults
\* ("" and <<>> leave the default in force).
IsEnv(e) ==
    /\ e = [alias |-> e.alias, style |-> e.style, mode |-> e.mode,
            enabled |-> e.enabled, url |-> e.url, secret |-> e.secret,
            fields |-> e.fields, static |-> e.static]
    /\ e.alias \in STRING /\ e.style \in STRING /\ e.mode \in STRING
    /\ e.enabled \in BOOLEAN /\ e.url \in BOOLEAN /\ e.secret \in BOOLEAN
    /\ e.fields \in Seq(STRING)
    /\ DOMAIN e.static \subseteq STRING

ASSUME PartnerAssumption ==
    /\ \A e \in Envs : IsEnv(e)
    /\ Transfers \cap {"idle", "done"} = {}   \* what check[k] says of no transfer
    /\ MaxRestarts \in Nat

PartnerCodes == {"MOMO", "VNPAY", "ZALOPAY", "TECHCOMBANK", "VIETCOMBANK"}
Banks == {"TECHCOMBANK", "VIETCOMBANK"}

normalizeKnownPartnerCode(raw) ==
    CASE raw = "" -> "BANK_DEFAULT"
      [] raw \in {"MOMO", "MOMO_WALLET"} -> "MOMO"
      [] raw \in {"VNPAY", "VN_PAY", "VNP"} -> "VNPAY"
      [] raw \in {"ZALOPAY", "ZALO_PAY", "ZLP"} -> "ZALOPAY"
      [] raw \in {"TECHCOMBANK", "TECHCOM", "TCB"} -> "TECHCOMBANK"
      [] raw \in {"VIETCOMBANK", "VIETCOM", "VCB"} -> "VIETCOMBANK"
      [] OTHER -> raw

\* A code without an environment prefix has no configuration at all.
partnerPrefixByCode(code) == IF code \in PartnerCodes THEN code ELSE ""

defaultRequestStyleFor(code) ==
    IF code \in Banks THEN "BANK"
    ELSE IF code \in PartnerCodes THEN code ELSE "GENERIC"

RequestStyles == {"MOMO", "BANK", "VNPAY", "ZALOPAY", "GENERIC"}

resolveRequestStyle(raw, fallback) ==
    IF raw \in RequestStyles THEN raw ELSE fallback

defaultSignatureModeFor(code) ==
    CASE code = "VNPAY" -> "VNPAY_QUERY_SHA512"
      [] code = "ZALOPAY" -> "ZALOPAY_MAC_SHA256"
      [] OTHER -> "LEGACY_HEADER_SHA256"

SignatureModes == {"LEGACY_HEADER_SHA256", "HEADER_CANONICAL",
                   "VNPAY_QUERY_SHA512", "ZALOPAY_MAC_SHA256",
                   "PAYLOAD_FIELDS_HMAC"}

resolveSignatureMode(raw, fallback) ==
    IF raw \in SignatureModes THEN raw ELSE fallback

\* Mutant: the order number is left out of the fields to sign.
SignatureFieldsWithoutOrder(code) ==
    IF code = "ZALOPAY"
    THEN <<"app_id", "app_user", "amount", "app_time", "embed_data", "item">>
    ELSE <<>>

defaultSignatureFieldsFor(code) ==
    IF code = "ZALOPAY"
    THEN <<"app_id", "app_trans_id", "app_user", "amount", "app_time",
           "embed_data", "item">>
    ELSE <<>>

parseStringList(raw, fallback) == IF raw # <<>> THEN raw ELSE fallback

NoConfig == [partnerCode |-> "none"]

\* What a handler works with: NoConfig sends the transfer to the mock.
resolvePartnerRuntimeConfig(e) ==
    LET code == normalizeKnownPartnerCode(e.alias)
    IN IF partnerPrefixByCode(code) = "" \/ ~e.enabled \/ ~e.url
       THEN NoConfig
       ELSE [partnerCode |-> code,
             requestStyle |-> resolveRequestStyle(e.style,
                                          defaultRequestStyleFor(code)),
             signatureMode |-> resolveSignatureMode(e.mode,
                                          defaultSignatureModeFor(code)),
             signatureFields |-> parseStringList(e.fields,
                                          defaultSignatureFieldsFor(code)),
             apiSecret |-> e.secret,
             static |-> e.static]

-----------------------------------------------------------------------------
(* What is sent.                                                           *)

\* Object spread: the later object's fields win.
Spread(payload, static) ==
    [f \in DOMAIN payload \cup DOMAIN static |->
        IF f \in DOMAIN static THEN static[f] ELSE payload[f]]

buildInitiatePayload(style, static) ==
    LET payload ==
        CASE style = "MOMO" ->
                [requestId |-> "fresh", orderId |-> "transaction",
                 amount |-> "amount", accountNo |-> "account",
                 orderInfo |-> "note", partnerCode |-> "client"]
          [] style = "BANK" ->
                [requestId |-> "fresh", requestTime |-> "time",
                 transactionId |-> "transaction",
                 referenceId |-> "transaction", accountNo |-> "account",
                 amount |-> "amount", description |-> "note"]
          [] style = "VNPAY" ->
                [vnp_TxnRef |-> "transaction", vnp_OrderInfo |-> "note",
                 vnp_Amount |-> "amount", vnp_CurrCode |-> "currency"]
          [] style = "ZALOPAY" ->
                [app_id |-> "client", app_trans_id |-> "transaction",
                 app_user |-> "account", app_time |-> "time",
                 amount |-> "amount", item |-> "constant",
                 embed_data |-> "constant", description |-> "note"]
          [] OTHER ->
                [transactionId |-> "transaction", partnerCode |-> "client",
                 accountNo |-> "account", amount |-> "amount",
                 note |-> "note", requestId |-> "fresh"]
    IN Spread(payload, static)

buildCheckPayload(style) ==
    CASE style = "MOMO" ->
            [requestId |-> "fresh", orderId |-> "transaction",
             partnerRef |-> "reference"]
      [] style = "BANK" ->
            [requestId |-> "fresh", transactionId |-> "transaction",
             referenceId |-> "reference", partnerRef |-> "reference"]
      [] style = "VNPAY" ->
            [vnp_TxnRef |-> "transaction", vnp_TransactionNo |-> "reference"]
      [] style = "ZALOPAY" ->
            [app_id |-> "client", app_trans_id |-> "transaction",
             zp_trans_id |-> "reference"]
      [] OTHER ->
            [partnerCode |-> "client", partnerRef |-> "reference",
             transactionId |-> "transaction", requestId |-> "fresh"]

\* The values a list of fields picks from a payload; a field the payload lacks
\* contributes an empty text.
buildCanonicalFromFields(payload, fields) ==
    {payload[f] : f \in Range(fields) \cap DOMAIN payload}

\* What the signature of a request covers ("header" stands for the time stamp
\* and the nonce); the empty set is a request without a signature.
applySignature(config, payload) ==
    LET whole  == Range(payload)
        listed == buildCanonicalFromFields(payload, config.signatureFields)
    IN CASE ~config.apiSecret -> {}
         [] config.signatureMode = "VNPAY_QUERY_SHA512" -> whole
         [] config.signatureMode \in {"ZALOPAY_MAC_SHA256",
                                      "PAYLOAD_FIELDS_HMAC"} -> listed
         [] config.signatureMode = "HEADER_CANONICAL" ->
               IF config.signatureFields # <<>> THEN listed ELSE whole
         [] OTHER -> {"header"} \cup whole

\* callPartnerApi: the signed request that leaves the service.
Request(kind, config) ==
    LET payload == IF kind = "initiate"
                   THEN buildInitiatePayload(config.requestStyle,
                                             config.static)
                   ELSE buildCheckPayload(config.requestStyle)
    IN [kind |-> kind, config |-> config, names |-> Range(payload),
        signed |-> applySignature(config, payload)]

-----------------------------------------------------------------------------
(* How an answer is read.                                                  *)

StatusPaths ==
    << <<"status">>, <<"state">>, <<"resultCode">>, <<"code">>,
       <<"data", "status">>, <<"data", "state">>, <<"data", "resultCode">>,
       <<"data", "code">> >>

\* The words every partner's answers are looked through for.
FailedWords ==
    { <<"FAIL">>, <<"FAIL", "ED">>, <<"ERROR">>, <<"REJECT">>, <<"CANCEL">>,
      <<"DENY">>, <<"DECLINED">>, <<"4", "0", "0">>, <<"4", "0", "1">>,
      <<"4", "0", "3">>, <<"4", "0", "4">>, <<"4", "2", "9">>, <<"5", "0", "0">> }
SuccessWords == { <<"SUCCESS">>, <<"SUCCEEDED">>, <<"SETTLED">>, <<"COMPLETED">>, <<"DONE">> }
PendingWords == { <<"PENDING">>, <<"PROCESSING">>, <<"SUBMITTED">>, <<"QUEUED">>, <<"ACCEPTED">> }

\* defaultFieldMappingFor: the status paths and the three word tables.
defaultFieldMappingFor(code) ==
    LET Mapping(paths, success, pending) ==
            [statusPaths |-> StatusPaths \o paths, failedTokens |-> FailedWords,
             successTokens |-> SuccessWords \cup success,
             pendingTokens |-> PendingWords \cup pending]
    IN CASE code = "MOMO" ->
              Mapping(<< <<"transStatus">> >>,
                      { <<"0">>, <<"0", "0">> }, { <<"1">> })
         [] code \in Banks ->
              Mapping(<< <<"responseCode">> >>,
                      { <<"0">>, <<"0", "0">>, <<"2", "0", "0">>,
                        <<"APPROVED">> },
                      { <<"1", "0", "2">>, <<"2", "0", "2">> })
         [] code = "VNPAY" ->
              Mapping(<< <<"vnp_ResponseCode">> >>,
                      { <<"0", "0">> }, { <<"0", "9">> })
         [] code = "ZALOPAY" ->
              Mapping(<< <<"return_code">> >>, { <<"1">> }, { <<"2">> })
         [] OTHER -> Mapping(<<>>, {}, {})

\* String.includes
Includes(text, part) ==
    \E i \in 0 .. Len(text) - Len(part) :
        SubSeq(text, i + 1, i + Len(part)) = part

matchesAnyToken(text, tokens) == \E part \in tokens : Includes(text, part)

\* findByKeyDeep: the places of a body where a key occurs at any depth.
findByKeyDeep(body, key) == {p \in DOMAIN body : Last(p) = key}

\* The first path on a list that is in a set.
FirstIn(paths, good) ==
    paths[CHOOSE i \in DOMAIN paths :
            paths[i] \in good /\ \A j \in 1 .. i - 1 : paths[j] \notin good]

\* pickString: the first listed path that holds a text, and when none does, the
\* first listed key that occurs anywhere in the body.
pickString(body, paths) ==
    LET direct == Range(paths) \cap DOMAIN body
        deep   == {p \in Range(paths) : Len(p) = 1 /\ findByKeyDeep(body, p[1]) # {}}
    IN IF direct # {} THEN body[FirstIn(paths, direct)]
       ELSE IF deep # {}
       THEN body[CHOOSE p \in findByKeyDeep(body, FirstIn(paths, deep)[1]) : TRUE]
       ELSE <<>>

\* An answer: its HTTP status and its body.
Ok(answer) == answer.http < 400

extractStatus(answer, mode, mapping) ==
    LET raw == pickString(answer.body, mapping.statusPaths)
        unread == IF Ok(answer) THEN "SUBMITTED" ELSE "FAILED"
    IN IF matchesAnyToken(raw, mapping.failedTokens) THEN "FAILED"
       ELSE IF matchesAnyToken(raw, mapping.successTokens)
       THEN IF mode = "initiate" THEN "SUBMITTED" ELSE "SETTLED"
       ELSE IF matchesAnyToken(raw, mapping.pendingTokens) THEN "SUBMITTED"
       ELSE unread

\* initiateViaPartner: any error status makes the transfer FAILED.
InitiateStatus(answer, mapping) ==
    IF Ok(answer) THEN extractStatus(answer, "initiate", mapping) ELSE "FAILED"

\* Mutant: a server error is read like any other answer.
CheckStatusOfErrors(answer, mapping) ==
    extractStatus(answer, "check", mapping)

\* checkViaPartner: a server error says nothing.
CheckStatus(answer, mapping) ==
    IF answer.http >= 500 THEN "none" ELSE extractStatus(answer, "check", mapping)

-----------------------------------------------------------------------------
(* What the partner says (external).  It words its decision with the words *)
(* the service keeps for it, a refusal also with codes of its own; it puts *)
(* the word at one of the known places, with or without an envelope that   *)
(* tells of the transport, or answers with a body that tells nothing.      *)

Says(code, state) ==
    LET mapping == defaultFieldMappingFor(code)
    IN CASE state = "pending" -> mapping.pendingTokens
         [] state = "settled" -> mapping.successTokens
         [] OTHER -> mapping.failedTokens \cup OtherCodes

\* A partner does not refuse with the service's word for a success.
ASSUME OtherCodesAssumption ==
    \A code \in PartnerCodes :
        OtherCodes \cap defaultFieldMappingFor(code).successTokens = {}

Bodies(code, state) ==
    LET mapping == defaultFieldMappingFor(code)
        plain   == {p \in Range(mapping.statusPaths) \cup
                          {<<"response", "status">>} : p[1] # "code"}
    IN {[p \in {place} |-> w] : w \in Says(code, state), place \in plain}
       \cup {[p \in {<<"code">>, <<"data", "status">>} |->
                IF p = <<"code">> THEN <<"SUCCESS">> ELSE w]
                : w \in Says(code, state)}

Answers(code, state) ==
    [http : {200}, body : Bodies(code, state)]
      \cup [http : {200, 404, 429, 503}, body : {<<>>}]

\* A word that is none of the success words and yet holds one of them, which
\* is how one table's words are read as another's.
Shadowed(text, mapping) ==
    /\ text \notin mapping.successTokens
    /\ matchesAnyToken(text, mapping.successTokens)
    /\ ~matchesAnyToken(text, mapping.failedTokens)

\* An answer whose envelope is read for its content.
Enveloped(answer) == Cardinality(DOMAIN answer.body) > 1

\* The mishap there is in reading an answer to a check, if any.
Misreading(answer, mapping) ==
    IF Enveloped(answer) THEN {"envelope"}
    ELSE IF Shadowed(pickString(answer.body, mapping.statusPaths), mapping)
    THEN {"shadowed"}
    ELSE IF ~Ok(answer) /\ answer.http < 500 THEN {"refused check"} ELSE {}

\* What a submission and a check can yield, for each partner and what it did.
InitiateReadings ==
    [code \in PartnerCodes |-> [state \in {"pending", "settled", "failed"} |->
        {[status |-> InitiateStatus(answer, defaultFieldMappingFor(code)),
          mishap |-> IF Ok(answer) THEN {} ELSE {"error answer"}]
            : answer \in Answers(code, state)}]]

CheckReadings ==
    [code \in PartnerCodes |-> [state \in {"pending", "settled", "failed"} |->
        {[status |-> CheckStatus(answer, defaultFieldMappingFor(code)),
          mishap |-> Misreading(answer, defaultFieldMappingFor(code))]
            : answer \in Answers(code, state)}]]

-----------------------------------------------------------------------------
NoRow == [status |-> "ABSENT"]

\* References: the partner's own for a transfer, one it gives out repeatedly,
\* one the service makes up at random, and one it makes up from the clock only,
\* which two calls of the same millisecond share.
References == {<<"own", t>> : t \in Transfers} \cup {<<"made", t>> : t \in Transfers}
                \cup {<<"repeated">>, <<"clock">>}
Rows == [status : {"SUBMITTED", "SETTLED", "FAILED"}, ref : References]

MishapKinds == {"lost answer", "error answer", "collision", "restart", "switched",
                "envelope", "shadowed", "refused check"}

PartnerTypeOK ==
    /\ env \in Envs /\ restarts \in 0 .. MaxRestarts
    /\ call \in [Transfers -> {"idle", "asking", "done"}]
    /\ row \in [Transfers -> Rows \cup {NoRow}]
    /\ check \in [Checks -> Transfers \cup {"idle", "done"}]
    /\ partner \in [Transfers -> {"none", "sent", "pending", "settled", "failed"}]
    /\ \A q \in sent : q.signed \subseteq q.names \cup {"header"}
    /\ mishaps \in [Transfers -> SUBSET MishapKinds]

PartnerInit ==
    /\ env \in Envs
    /\ restarts = 0
    /\ call = [t \in Transfers |-> "idle"]
    /\ row = [t \in Transfers |-> NoRow]
    /\ check = [k \in Checks |-> "idle"]
    /\ partner = [t \in Transfers |-> "none"]
    /\ sent = {}
    /\ mishaps = [t \in Transfers |-> {}]

Config == resolvePartnerRuntimeConfig(env)

\* repository.save of a new row: partnerRef is a unique column.
Insert(t, status, ref, sofar) ==
    LET taken == \E u \in Transfers : row[u] # NoRow /\ row[u].ref = ref
    IN /\ call' = [call EXCEPT ![t] = "done"]
       /\ row' = IF taken THEN row
                 ELSE [row EXCEPT ![t] = [status |-> status, ref |-> ref]]
       /\ mishaps' = IF taken THEN [sofar EXCEPT ![t] = @ \cup {"collision"}]
                     ELSE sofar

\* initiateTransfer with a configured partner, up to the HTTP call.
Initiate(t) ==
    /\ call[t] = "idle" /\ row[t] = NoRow
    /\ Config # NoConfig
    /\ call' = [call EXCEPT ![t] = "asking"]
    /\ sent' = sent \cup {Request("initiate", Config)}
    /\ partner' = [partner EXCEPT ![t] = IF @ = "none" THEN "sent" ELSE @]
    /\ UNCHANGED <<env, restarts, row, check, mishaps>>

\* initiateTransfer without one: the mock submits under a reference of its own.
InitiateMock(t) ==
    /\ call[t] = "idle" /\ row[t] = NoRow
    /\ Config = NoConfig
    /\ Insert(t, "SUBMITTED", <<"made", t>>, mishaps)
    /\ UNCHANGED <<env, restarts, check, partner, sent>>

\* The partner (external) takes or refuses a submission it received.
PartnerTakes(t) ==
    /\ partner[t] = "sent"
    /\ \E s \in {"pending", "failed"} : partner' = [partner EXCEPT ![t] = s]
    /\ UNCHANGED <<env, restarts, call, row, check, sent, mishaps>>

\* The partner (external) decides.
PartnerDecides(t) ==
    /\ partner[t] = "pending"
    /\ \E s \in {"settled", "failed"} : partner' = [partner EXCEPT ![t] = s]
    /\ UNCHANGED <<env, restarts, call, row, check, sent, mishaps>>

\* initiateViaPartner reads the answer and initiateTransfer stores it under the
\* partner's reference or one it makes up.
InitiateAnswered(t) ==
    /\ call[t] = "asking"
    /\ partner[t] \notin {"none", "sent"}
    /\ \E read \in InitiateReadings[Config.partnerCode][partner[t]],
          ref \in {<<"own", t>>, <<"repeated">>, <<"made", t>>} :
          Insert(t, read.status, ref,
                 [mishaps EXCEPT ![t] = @ \cup read.mishap])
    /\ UNCHANGED <<env, restarts, check, partner, sent>>

\* The catch branch of initiateViaPartner: time-out, connection or body lost.
InitiateRaises(t) ==
    /\ call[t] = "asking"
    /\ LET lost == [mishaps EXCEPT ![t] = @ \cup {"lost answer"}]
       IN \E ref \in {<<"made", t>>, <<"clock">>} :
            Insert(t, "FAILED", ref, lost)
    /\ UNCHANGED <<env, restarts, check, partner, sent>>

-----------------------------------------------------------------------------
\* checkTransfer of a SUBMITTED row with a configured partner, up to the call.
CheckAsks(k, t) ==
    /\ check[k] = "idle"
    /\ row[t] # NoRow /\ row[t].status = "SUBMITTED"
    /\ Config # NoConfig
    /\ check' = [check EXCEPT ![k] = t]
    /\ sent' = sent \cup {Request("check", Config)}
    /\ UNCHANGED <<env, restarts, call, row, partner, mishaps>>

\* checkTransfer without one: the mock settles once its delay has passed; the
\* row may be one that a partner holds.
CheckMock(k, t) ==
    /\ check[k] = "idle"
    /\ row[t] # NoRow /\ row[t].status = "SUBMITTED"
    /\ Config = NoConfig
    /\ check' = [check EXCEPT ![k] = "done"]
    /\ \/ row' = [row EXCEPT ![t].status = "SETTLED"]
       \/ UNCHANGED row
    /\ UNCHANGED <<env, restarts, call, partner, sent, mishaps>>

\* The partner's view of a transfer it has no record of is a refusal.
Known(t) == IF partner[t] \in {"none", "sent"} THEN "failed" ELSE partner[t]

\* checkViaPartner reads the answer; a final status is saved over the row,
\* whatever another check made of it meanwhile.
CheckAnswered(k) ==
    \E t \in Transfers :
    /\ check[k] = t
    /\ check' = [check EXCEPT ![k] = "done"]
    /\ \E read \in CheckReadings[Config.partnerCode][Known(t)] :
       IF read.status \in {"SETTLED", "FAILED"}
       THEN /\ row' = [row EXCEPT ![t].status = read.status]
            /\ mishaps' = [mishaps EXCEPT ![t] = @ \cup read.mishap]
       ELSE UNCHANGED <<row, mishaps>>
    /\ UNCHANGED <<env, restarts, call, partner, sent>>

\* The catch branch of checkViaPartner.
CheckRaises(k) ==
    /\ check[k] \in Transfers
    /\ check' = [check EXCEPT ![k] = "done"]
    /\ UNCHANGED <<env, restarts, call, row, partner, sent, mishaps>>

\* The service is stopped and started with the partner switched on or off; the
\* calls under way are gone, and the caller may repeat a submission.
Restart ==
    /\ restarts < MaxRestarts
    /\ restarts' = restarts + 1
    /\ \E e \in Envs : e = [env EXCEPT !.enabled = e.enabled] /\ env' = e
    /\ check' = [k \in Checks |-> IF check[k] \in Transfers THEN "done"
                                  ELSE check[k]]
    /\ call' = [t \in Transfers |-> IF call[t] = "asking" THEN "idle"
                                    ELSE call[t]]
    /\ mishaps' = [t \in Transfers |->
                     mishaps[t]
                       \cup (IF call[t] = "asking" THEN {"restart"} ELSE {})
                       \cup (IF env'.enabled # env.enabled
                             THEN {"switched"} ELSE {})]
    /\ UNCHANGED <<row, partner, sent>>

PartnerNext ==
    \/ \E t \in Transfers : \/ Initiate(t) \/ InitiateMock(t)
                            \/ PartnerTakes(t) \/ PartnerDecides(t)
                            \/ InitiateAnswered(t) \/ InitiateRaises(t)
    \/ \E k \in Checks, t \in Transfers : CheckAsks(k, t) \/ CheckMock(k, t)
    \/ \E k \in Checks : CheckAnswered(k) \/ CheckRaises(k)
    \/ Restart

PartnerSpec == PartnerInit /\ [][PartnerNext]_partnerVars

-----------------------------------------------------------------------------
(* Properties.                                                             *)

Status(t) == row[t].status

\* A transfer the partner was asked to make is settled here only when the
\* partner settled it, unless the service was switched to the mock meanwhile,
\* took the envelope for the content or a word for another it contains.
SettledIsTrue ==
    \A t \in Transfers :
        /\ Status(t) = "SETTLED" /\ partner[t] # "none"
        /\ mishaps[t] \cap {"switched", "envelope", "shadowed"} = {}
        => partner[t] = "settled"

\* A transfer the partner holds or has settled is failed here (and a withdrawal
\* refunded) only after a lost or an error answer to the submission or a check
\* that was refused below 500, for a rate limit say; or the mock stored the row of
\* a submission that was still on its way to the partner, and the partner, switched
\* on again, was asked about the transfer before it took it.
FailedIsTrue ==
    \A t \in Transfers :
        Status(t) = "FAILED" /\ partner[t] \in {"pending", "settled"}
        => \/ mishaps[t] \cap {"lost answer", "error answer", "refused check"} # {}
           \/ {"restart", "switched"} \subseteq mishaps[t]

\* What the partner took is recorded here once its call is over, except when the
\* partner gave a reference that another row already has or the service was
\* stopped before the row was stored.
TakenIsRecorded ==
    \A t \in Transfers :
        /\ partner[t] \in {"pending", "settled"} /\ call[t] # "asking"
        /\ mishaps[t] \cap {"collision", "restart"} = {}
        => row[t] # NoRow

\* The fields of a submission that hold the transaction or the amount.
PaymentFields(style) ==
    LET payload == buildInitiatePayload(style, <<>>)
    IN {f \in DOMAIN payload : payload[f] \in {"transaction", "amount"}}

\* With a secret, the signature of a submission covers the transaction and the
\* amount unless it is made from listed fields and these, or the payload style,
\* are not the partner's own; or static fields of the configuration replace the
\* payment's.
SignatureCoversPayment ==
    \A q \in sent :
        /\ q.kind = "initiate" /\ q.config.apiSecret
        /\ ~ {"transaction", "amount"} \subseteq q.signed
        => \/ LET code == q.config.partnerCode
              IN /\ q.config.signatureMode \in {"ZALOPAY_MAC_SHA256",
                                       "PAYLOAD_FIELDS_HMAC", "HEADER_CANONICAL"}
                 /\ \/ q.config.requestStyle # defaultRequestStyleFor(code)
                    \/ q.config.signatureFields # defaultSignatureFieldsFor(code)
                    \/ defaultSignatureFieldsFor(code) = <<>>
           \/ DOMAIN q.config.static \cap PaymentFields(q.config.requestStyle) # {}

\* The row tells what the partner did: a taken transfer is recorded, SETTLED and
\* FAILED are the partner's decisions, in whatever order checks are answered,
\* but for the mishaps named.
RowTellsThePartner == SettledIsTrue /\ FailedIsTrue /\ TakenIsRecorded

=============================================================================
