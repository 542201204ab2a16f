--------------------------- MODULE PaymentGateway ---------------------------
(***************************************************************************)
(* One user's payments through the API gateway: a client that tries again, *)
(* the gateway's handlers with their time-outs, the risk assessment in the *)
(* transaction service with its statistics cache, the step-up check, and   *)
(* the creation of the transaction, which is atomic here (the persist      *)
(* functions are WalletTransactions' subject, the partner's submission     *)
(* TransferLifecycle's; here it works or fails at once) and may end in an  *)
(* error, before its commit or after it.  Transfers go to one wallet or to *)
(* one external account; top-ups and withdrawals to one funding source.    *)
(***************************************************************************)
EXTENDS Naturals, Integers, Sequences, FiniteSets

CONSTANTS Payments,     \* payments the user means to make, each once
          Plans,        \* what they are: functions to [kind, amount, keyed]
          Balances,     \* balances the wallet may start with
          MaxAttempts,  \* bound on the client's attempts, all payments together
          HardAmount,   \* ATO_FALLBACK_HARD_AMOUNT
          FailOpen,     \* ATO_FAIL_OPEN
          MaxEntries,   \* ATO_STATS_CACHE_MAX_ENTRIES
          Word          \* 2^32 of a protobuf Long's low half, scaled down

Kinds == {"transfer", "external", "topup", "withdrawal"}

ASSUME PaymentGatewayAssumption ==
    /\ Plans \subseteq [Payments -> [kind : Kinds, amount : Nat \ {0}, keyed : BOOLEAN]]
    /\ Balances \subseteq Nat
    /\ MaxAttempts \in Nat /\ HardAmount \in Nat /\ MaxEntries \in Nat
    /\ FailOpen \in BOOLEAN
    /\ Word \in Nat \ {0} /\ Word % 2 = 0

Requests == Payments \X (1 .. MaxAttempts)

VARIABLES
    plan,      \* plan[p]: kind, amount and whether the client sends a key
    client,    \* client[p]: attempts, what the client was told, balance shown
    request,   \* request[<<p, a>>]: the gateway's handler of that attempt
    create,    \* create[r]: the call that creates the transaction
    book,      \* transactions in the order they were created
    balance,   \* the wallet
    linked,    \* the funding source's row exists
    cache,     \* statsCache, oldest entry first
    unsure     \* payments an attempt of which timed out, or was made and answered
               \* with an error (history)

vars == <<plan, client, request, create, book, balance, linked, cache, unsure>>
service == <<create, book, balance, linked>>

-----------------------------------------------------------------------------
Unknown == -Word     \* no balance shown
NoStats == [count |-> 0, sum |-> 0]
Dest(kind) == CASE kind = "transfer" -> "wallet"
                [] kind = "external" -> "account"
                [] OTHER -> "source"

Stats == [count : 0 .. Cardinality(Requests), sum : Nat]

TypeOK ==
    /\ plan \in Plans
    /\ \A p \in Payments :
          /\ client[p].attempt \in 0 .. MaxAttempts
          /\ client[p].told \in {"nothing", "waiting", "accepted", "failed", "refused", "error"}
          /\ client[p].shown \in Int
    /\ \A r \in Requests :
          /\ request[r].pc \in {"none", "target", "assess", "stats", "score", "proof",
                                "create", "done"}
          /\ request[r].balance \in Int
          /\ request[r].stats \in Stats
          /\ request[r].asOf \in 0 .. Len(book)
          /\ request[r].missed \in BOOLEAN
          /\ request[r].gone \in BOOLEAN
    /\ create \in [Requests -> {"none", "unproven", "proven", "done"}]
    /\ \A i \in 1 .. Len(book) : book[i].pay \in Payments
    /\ balance \in Int
    /\ linked \in BOOLEAN
    /\ Len(cache) <= MaxEntries
    /\ unsure \subseteq Payments

NoRequest == [pc |-> "none", balance |-> 0, stats |-> NoStats,
              asOf |-> 0, missed |-> FALSE, gone |-> FALSE]

Init ==
    /\ plan \in Plans
    /\ balance \in Balances
    /\ client = [p \in Payments |-> [attempt |-> 0, told |-> "nothing", shown |-> Unknown]]
    /\ request = [r \in Requests |-> NoRequest]
    /\ create = [r \in Requests |-> "none"]
    /\ book = << >>
    /\ linked = FALSE
    /\ cache = << >>
    /\ unsure = {}

Kind(r) == plan[r[1]].kind

\* normalizeAmount on the Long an int64 field decodes to: the low half is signed,
\* a non-zero high half gives NaN (-1 here: both are refused alike).
NormalizeAmount(a) ==
    IF a < Word THEN (IF a < Word \div 2 THEN a ELSE a - Word) ELSE -1

Amount(r) == NormalizeAmount(plan[r[1]].amount)

\* The handler answers the client, if it still waits, and ends.
Answer(r, told, shown) ==
    /\ request' = [request EXCEPT ![r] = [NoRequest EXCEPT !.pc = "done"]]
    /\ client' = IF request[r].gone THEN client
                 ELSE [client EXCEPT ![r[1]].told = told, ![r[1]].shown = shown]

Step(r, pc) == request' = [request EXCEPT ![r].pc = pc]
Assessed(r, pc) ==
    request' = [request EXCEPT ![r] = [NoRequest EXCEPT !.pc = pc, !.asOf = request[r].asOf]]

-----------------------------------------------------------------------------
(* The client and the gateway's handler                                    *)

\* A transfer names its recipient; top-ups and withdrawals name a funding source,
\* which the handler looks up first.  From there the three routes are alike.
FirstCall(kind) == IF kind \in {"transfer", "external"} THEN "assess" ELSE "target"

\* The client tries a payment whose outcome it does not know, or that failed or
\* was refused.
Send(p) ==
    LET r == <<p, client[p].attempt + 1>> IN
    /\ client[p].told \in {"nothing", "failed", "refused", "error"}
    /\ Cardinality({q \in Requests : request[q].pc # "none"}) < MaxAttempts
    /\ client' = [client EXCEPT ![p].attempt = @ + 1, ![p].told = "waiting"]
    /\ request' = [request EXCEPT ![r].pc = FirstCall(Kind(r))]
    /\ UNCHANGED <<plan, service, cache, unsure>>

\* resolveFundingSourceRiskTarget: the source must be one of the user's.
ResolveTarget(r) ==
    /\ request[r].pc = "target"
    /\ IF linked THEN Step(r, "assess") /\ UNCHANGED client
                 ELSE Answer(r, "refused", Unknown)
    /\ UNCHANGED <<plan, service, cache, unsure>>

\* The rxjs time-out of the call the handler waits for; what the service has
\* been asked to do, it does.
Timeout(r) ==
    LET assessing == request[r].pc \in {"assess", "stats", "score"} IN
    /\ request[r].pc \notin {"none", "done"} /\ ~request[r].gone
    /\ client' = [client EXCEPT ![r[1]].told = "error"]
    /\ IF assessing THEN request' = [request EXCEPT ![r].gone = TRUE] ELSE Assessed(r, "done")
    /\ unsure' = unsure \cup {r[1]}
    /\ UNCHANGED <<plan, service, cache>>

\* A call before the creation fails at once: the service stops, or its database
\* does not answer.  (The auth service's errors are CheckProof's.)
CallFails(r) ==
    /\ request[r].pc \in {"target", "assess", "stats", "score"} /\ ~request[r].gone
    /\ Answer(r, "error", Unknown)
    /\ UNCHANGED <<plan, service, cache, unsure>>

-----------------------------------------------------------------------------
(* assessTransferRisk                                                      *)

\* validate, and the sender's balance.
Assess(r) ==
    /\ request[r].pc = "assess"
    /\ IF Amount(r) > 0
       THEN /\ request' = [request EXCEPT ![r].pc = "stats", ![r].balance = balance,
                                          ![r].asOf = Len(book)]
            /\ UNCHANGED client
       ELSE Answer(r, "refused", Unknown)
    /\ UNCHANGED <<plan, service, cache, unsure>>

\* The query of getDestinationStats.  Top-ups and withdrawals are stored with
\* the masked account number and looked for by the funding source's id.
QueriedStats(dest) ==
    LET found == {i \in 1 .. Len(book) : /\ dest # "source" /\ Dest(book[i].kind) = dest
                                          /\ ~book[i].failed}
        Sum[i \in 0 .. Len(book)] ==
            IF i = 0 THEN 0 ELSE Sum[i - 1] + (IF i \in found THEN book[i].amount ELSE 0)
    IN [count |-> Cardinality(found), sum |-> Sum[Len(book)]]

Earlier(x, y) == IF x < y THEN x ELSE y

\* getDestinationStats up to the query's answer.
ReadStats(r) ==
    LET hits == {i \in 1 .. Len(cache) : cache[i].dest = Dest(Kind(r)) /\ cache[i].fresh} IN
    /\ request[r].pc = "stats"
    /\ \/ \E i \in hits :
             request' = [request EXCEPT ![r].pc = "score", ![r].stats = cache[i].stats,
                                        ![r].asOf = Earlier(@, cache[i].asOf)]
       \/ /\ hits = {}
          /\ request' = [request EXCEPT ![r].pc = "score", ![r].missed = TRUE,
                                        ![r].stats = QueriedStats(Dest(Kind(r)))]
    /\ UNCHANGED <<plan, client, service, cache, unsure>>

\* cacheDestinationStats: Map.set keeps an entry's place; one entry too many
\* drops the first.
CacheStats(dest, stats, asOf) ==
    LET entry == [dest |-> dest, stats |-> stats, asOf |-> asOf, fresh |-> TRUE]
        known == \E i \in 1 .. Len(cache) : cache[i].dest = dest
        set == IF known
               THEN [i \in 1 .. Len(cache) |-> IF cache[i].dest = dest THEN entry ELSE cache[i]]
               ELSE Append(cache, entry)
    IN cache' = IF Len(set) <= MaxEntries THEN set ELSE Tail(set)

\* fallbackReasons: is there any?
Remarkable(amount, bal, stats) ==
    \/ amount >= HardAmount
    \/ bal > 0 /\ 10 * amount >= 9 * bal
    \/ stats.sum > 0 /\ amount * stats.count >= 5 * stats.sum

\* Mutant: ATO_FAIL_OPEN lets everything pass while the model is down.
RequiresStepUpFailingOpen(verdict, remarkable) ==
    \/ verdict = "ATO_SUSPECTED"
    \/ verdict = "UNAVAILABLE" /\ ~FailOpen
    \/ verdict = "LEGITIMATE" /\ remarkable

\* requiresStepUp, with the model's verdict or without one.
RequiresStepUp(verdict, remarkable) ==
    \/ verdict = "ATO_SUSPECTED"
    \/ verdict = "UNAVAILABLE" /\ ~FailOpen
    \/ remarkable

\* callAtoModel: a verdict, or none (no URL, time-out, error or unusable answer).
Verdicts == {"LEGITIMATE", "ATO_SUSPECTED", "UNAVAILABLE"}

\* The rest of the assessment: the cache entry, the model's answer, the rules.
Score(r, verdict) ==
    LET q == request[r] IN
    /\ q.pc = "score"
    /\ IF q.missed THEN CacheStats(Dest(Kind(r)), q.stats, q.asOf) ELSE UNCHANGED cache
    /\ \/ /\ q.gone
          /\ Assessed(r, "done")
          /\ UNCHANGED create
       \/ /\ ~q.gone /\ RequiresStepUp(verdict, Remarkable(Amount(r), q.balance, q.stats))
          /\ Assessed(r, "proof")
          /\ UNCHANGED create
       \/ /\ ~q.gone /\ ~RequiresStepUp(verdict, Remarkable(Amount(r), q.balance, q.stats))
          /\ Assessed(r, "create")
          /\ create' = [create EXCEPT ![r] = "unproven"]
    /\ UNCHANGED <<plan, client, book, balance, linked, unsure>>

\* The risk-assessment route, or another user's payment to the same wallet or
\* account: the cache is everybody's.  (An assessment for yet another destination can
\* only push entries out, as their expiry does.)
Preview(dest) ==
    /\ \E p \in Payments : Dest(plan[p].kind) = dest
    /\ \A i \in 1 .. Len(cache) : ~(cache[i].dest = dest /\ cache[i].fresh)
    /\ CacheStats(dest, QueriedStats(dest), Len(book))
    /\ UNCHANGED <<plan, client, request, service, unsure>>

CacheExpires(i) ==
    /\ cache[i].fresh
    /\ cache' = [cache EXCEPT ![i].fresh = FALSE]
    /\ UNCHANGED <<plan, client, request, service, unsure>>

\* verifyStepUpToken: the token is on file, unexpired, the user's own and, where
\* both name a device, of the same one; it is not used up.
Proofs == {"none", "face", "own", "expired", "foreign", "otherDevice"}
VerifyStepUpToken(token) == token = "own"

\* requireStepUpIfNeeded: the request says that the face was verified, or has a
\* step-up token the auth service accepts.  An error of that call (answered is
\* FALSE) counts as no.
CheckProof(r, proof, answered) ==
    /\ request[r].pc = "proof"
    /\ IF proof = "face" \/ (answered /\ VerifyStepUpToken(proof))
       THEN /\ Step(r, "create")
            /\ create' = [create EXCEPT ![r] = "proven"]
            /\ UNCHANGED client
       ELSE Answer(r, "refused", Unknown) /\ UNCHANGED create
    /\ UNCHANGED <<plan, book, balance, linked, cache, unsure>>

-----------------------------------------------------------------------------
(* The transaction service                                                 *)

\* createFundingSource finds the row or inserts it; of two inserts at once the
\* unique index refuses one, which then finds the other's.
CreateFundingSource ==
    /\ ~linked
    /\ linked' = TRUE
    /\ UNCHANGED <<plan, client, request, create, book, balance, cache, unsure>>

\* Mutant: a new key for every request, whatever the client sent.
KeyAlwaysNew(r) == r

\* The idempotency key: the client's, or a new one for every attempt.
KeyOf(r) == IF plan[r[1]].keyed THEN <<r[1], 0>> ELSE r

\* int64ToNumber on a balance in the answer: zero when the high half is not.
Int64ToNumber(b) == IF b < Word THEN (IF b < Word \div 2 THEN b ELSE b - Word) ELSE 0

Debit(kind, amount) == IF kind = "topup" THEN 0 ELSE amount

\* What the handler does with the service's answer, if it still waits.
Reply(r, told, shown) ==
    IF request[r].pc = "create" THEN Answer(r, told, shown) ELSE UNCHANGED <<request, client>>

\* createTransfer, createTopupIntent and createWithdrawalRequest for a key that
\* is there already.
ExecuteExisting(r) ==
    /\ create[r] \in {"unproven", "proven"}
    /\ \E i \in 1 .. Len(book) : book[i].key = KeyOf(r)
    /\ create' = [create EXCEPT ![r] = "done"]
    /\ LET failed == \E i \in 1 .. Len(book) : book[i].key = KeyOf(r) /\ book[i].failed
       IN Reply(r, IF failed THEN "failed" ELSE "accepted", Int64ToNumber(balance))
    /\ UNCHANGED <<plan, book, balance, linked, cache, unsure>>

\* The creation ends in an error before its commit: nothing is made.
CreateFails(r) ==
    /\ create[r] \in {"unproven", "proven"}
    /\ create' = [create EXCEPT ![r] = "done"]
    /\ Reply(r, "error", Unknown)
    /\ UNCHANGED <<plan, book, balance, linked, cache, unsure>>

\* What a payment may have taken from the wallet when its creation ends.  A top-up's
\* money comes with its settlement; a withdrawal the partner fails is paid back,
\* unless rollbackWithdrawalDebit throws, and a failed external transfer is not.
Taken(kind, amount, fails, answered) ==
    (IF answered THEN {} ELSE {Debit(kind, amount)})
    \cup {IF fails /\ kind = "withdrawal" THEN 0 ELSE Debit(kind, amount)}

NewTransaction(r, fails, taken) ==
    [key |-> KeyOf(r), pay |-> r[1], kind |-> Kind(r), amount |-> Amount(r), failed |-> fails,
     taken |-> taken, proven |-> create[r] = "proven",
     remarkable |-> Remarkable(Amount(r), balance, QueriedStats(Dest(Kind(r)))),
     stale |-> request[r].asOf < Len(book)]

\* Mutant: the row is written before the balance is checked, and stays.
ExecuteUnchecked(r, fails, answered) ==
    LET debit == Debit(Kind(r), Amount(r)) IN
    /\ create[r] \in {"unproven", "proven"}
    /\ fails => Kind(r) # "transfer"
    /\ \A i \in 1 .. Len(book) : book[i].key # KeyOf(r)
    /\ create' = [create EXCEPT ![r] = "done"]
    /\ book' = Append(book, NewTransaction(r, fails, IF debit <= balance THEN debit ELSE 0))
    /\ IF debit <= balance
       THEN balance' = balance - debit /\ Reply(r, "accepted", Int64ToNumber(balance'))
       ELSE Reply(r, "refused", Unknown) /\ UNCHANGED balance
    /\ UNCHANGED <<plan, linked, cache, unsure>>

\* The same for a new key, with money enough or not.  After the commit a later
\* statement may throw or the service stop; the answer then is an error.
Execute(r, fails, answered) ==
    /\ create[r] \in {"unproven", "proven"}
    /\ fails => Kind(r) # "transfer"
    /\ \A i \in 1 .. Len(book) : book[i].key # KeyOf(r)
    /\ create' = [create EXCEPT ![r] = "done"]
    /\ \/ /\ Debit(Kind(r), Amount(r)) <= balance
          /\ \E taken \in Taken(Kind(r), Amount(r), fails, answered) :
                /\ book' = Append(book, NewTransaction(r, fails, taken))
                /\ balance' = balance - taken
          /\ \/ /\ answered
                /\ Reply(r, IF fails THEN "failed" ELSE "accepted", Int64ToNumber(balance'))
                /\ UNCHANGED unsure
             \/ /\ ~answered
                /\ Reply(r, "error", Unknown)
                /\ unsure' = IF fails THEN unsure ELSE unsure \cup {r[1]}
       \/ /\ Debit(Kind(r), Amount(r)) > balance
          /\ answered
          /\ Reply(r, "refused", Unknown)
          /\ UNCHANGED <<book, balance, unsure>>
    /\ UNCHANGED <<plan, linked, cache>>

Next ==
    \/ \E p \in Payments : Send(p)
    \/ \E r \in Requests :
          \/ ResolveTarget(r) \/ Timeout(r) \/ CallFails(r) \/ Assess(r) \/ ReadStats(r)
          \/ \E verdict \in Verdicts : Score(r, verdict)
          \/ \E proof \in Proofs, answered \in BOOLEAN : CheckProof(r, proof, answered)
          \/ ExecuteExisting(r) \/ CreateFails(r)
          \/ \E fails, answered \in BOOLEAN : Execute(r, fails, answered)
    \/ \E i \in 1 .. Len(cache) : CacheExpires(i)
    \/ \E dest \in {"wallet", "account"} : Preview(dest)
    \/ CreateFundingSource

Spec == Init /\ [][Next]_vars

-----------------------------------------------------------------------------
(* Properties                                                              *)

Paid(p) == {i \in 1 .. Len(book) : book[i].pay = p /\ ~book[i].failed}

\* A payment is made at most once when the client sends an idempotency key, in
\* whatever order its attempts time out, fail, are refused and are carried out; one
\* without a key (randomUUID per request) can be made again only after an attempt
\* timed out, or was made and answered with an error.  An error before the commit
\* makes nothing twice.
PaidOnce ==
    \A p \in Payments :
        Cardinality(Paid(p)) > 1 => ~plan[p].keyed /\ p \in unsure

\* The gateway's answer is true: an accepted payment is made, and a refused or
\* failed one is not, and one answered with an error only if the error came after
\* the commit, unless an earlier attempt timed out or ended so.  (Then the risk
\* check, which comes before the idempotency check, may refuse what has been
\* paid, or the attempt may still be under way.)
AnswerIsTrue ==
    \A p \in Payments :
        /\ client[p].told = "accepted" => Paid(p) # {}
        /\ client[p].told \in {"refused", "failed", "error"} /\ Paid(p) # {} => p \in unsure

\* A payment made without step-up was below every rule of fallbackReasons on
\* the balance and the statistics at the moment it was made, whether the model
\* answered or not, unless another payment was made after the assessment read
\* the wallet or the cached statistics.
UnprovenIsUnremarkable ==
    \A i \in 1 .. Len(book) :
        ~book[i].proven /\ book[i].remarkable => book[i].stale

\* The wallet's balance now and before each of the transactions in the book.
BalancesHad ==
    LET After[i \in 0 .. Len(book)] ==
            IF i = Len(book) THEN balance
            ELSE After[i + 1] + book[i + 1].taken
    IN {After[i] : i \in 0 .. Len(book)}

\* The balance shown with an accepted or failed payment (int64ToNumber) is one the
\* wallet has had, unless it has had more than a Long's low half can show.
ShownBalanceIsReal ==
    \A p \in Payments :
        client[p].told \in {"accepted", "failed"} =>
            \/ client[p].shown \in BalancesHad
            \/ \E b \in BalancesHad : b >= Word \div 2

\* What the client is told is so: the outcome of the payment and, with it, a
\* balance the wallet has had, but for attempts that timed out or failed after
\* their commit and balances too large for a Long's low half.
AnswersAreTrue == AnswerIsTrue /\ ShownBalanceIsReal

=============================================================================
