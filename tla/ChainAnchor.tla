---------------------------- MODULE ChainAnchor ----------------------------
(***************************************************************************)
(* Anchoring one wallet transaction: the chain worker's calls, the chain   *)
(* service's AnchorTransfer with its retries, the gateway's SubmitTransfer *)
(* with its idempotency, nonce and receipt stores, the payment chaincode   *)
(* and the observer nodes.  All calls carry the transaction's idempotency  *)
(* key; each call has its own nonce, which its retries share.  The ledger  *)
(* key of an intent is the Fabric transaction id, so every submission is a *)
(* new intent.                                                             *)
(***************************************************************************)
EXTENDS Naturals, Integers, FiniteSets

CONSTANTS Calls,         \* AnchorTransfer calls the chain worker may make
          MaxRetries,    \* maxRetries of anchorTransfer
          MaxTxs,        \* bound on Fabric transactions
          Observers,     \* observer nodes (CHAIN_OBSERVER_URLS)
          RequireQuorum, \* CHAIN_REQUIRE_TRANSPARENCY_QUORUM
          Amounts,       \* amounts a wallet transaction may have
          Word,          \* 2^32 of a protobuf Long's low half, scaled down
          MaxFaults      \* bound on time-outs, lost answers, errors, crashes

ASSUME ChainAnchorAssumption ==
    /\ MaxRetries \in Nat /\ MaxTxs \in Nat /\ MaxFaults \in Nat
    /\ RequireQuorum \in BOOLEAN
    /\ IsFiniteSet(Observers)
    /\ Amounts \subseteq Nat \ {0}
    /\ Word \in Nat \ {0} /\ Word % 2 = 0

Attempts == 0 .. MaxRetries
Requests == Calls \X Attempts       \* one POST /v1/transfer each
Txs == 1 .. MaxTxs
NoTx == 0

VARIABLES
    row,        \* the worker's row: amount, chainStatus and chainTxId
    call,       \* call[c]: AnchorTransfer call c in the chain service
    waits,      \* the call the worker waits for, if any
    request,    \* request[<<c, a>>]: the gateway's handler of that POST
    idem, nonces, receipts,              \* the gateway's stores in memory
    idemDisk, nonceDisk, receiptDisk,    \* and their files
    writes,     \* file writes in the background
    ledger,     \* ledger[t]: how far Fabric transaction t has come
    seen,       \* seen[o]: transactions in the ledger of observer o
    computed,   \* transactions whose receipt has a computed block hash
    faults,     \* faults so far
    hurt        \* why a second intent could have been submitted (history)

worker == <<row, call, waits>>
memory == <<idem, nonces, receipts>>
disk == <<idemDisk, nonceDisk, receiptDisk, writes>>
chain == <<ledger, seen, computed>>
bounds == <<faults, hurt>>
vars == <<worker, request, memory, disk, chain, bounds>>

-----------------------------------------------------------------------------
Bodies == {"partial", "full"}   \* partial: a receipt that lists no endorsements
Hashes == {"ledger", "computed"} \* where the block hash of a receipt comes from
NoEntry == [tx |-> NoTx, body |-> "none"]
Entries == [tx : Txs, body : Bodies] \cup {NoEntry}

\* The chain service's side of a call; "answered" has the parsed 200 answer.
CallState == [pc : {"idle", "posting", "answered", "done"}, attempt : Attempts,
              entry : Entries]

\* The gateway handler's next step; "ok", "refused" are answers on the way back.
RequestState == [pc : {"none", "idem", "nonce", "add", "submit", "commit",
                       "store", "ok", "refused", "dead"},
                 tx : Txs \cup {NoTx}, entry : Entries]

Gone == [pc |-> "dead", tx |-> NoTx, entry |-> NoEntry]   \* stopped, or answered

Causes == {"crash", "race"}

TypeOK ==
    /\ row \in [amount : Amounts, status : {"PENDING", "ANCHORED"},
                tx : Txs \cup {NoTx}]
    /\ call \in [Calls -> CallState]
    /\ waits \subseteq Calls
    /\ request \in [Requests -> RequestState]
    /\ idem \in Entries /\ idemDisk \in Entries
    /\ nonces \subseteq Calls /\ nonceDisk \subseteq Calls
    /\ receipts \in [Txs -> Bodies \cup {"none"}]
    /\ receiptDisk \in [Txs -> Bodies \cup {"none"}]
    /\ writes \subseteq {"idem", "receipt"} \X Entries
    /\ ledger \in [Txs -> {"unused", "ordered", "committed"}]
    /\ seen \in [Observers -> SUBSET Txs]
    /\ computed \subseteq Txs
    /\ faults \in 0 .. MaxFaults
    /\ hurt \subseteq Causes

Init ==
    /\ row \in [amount : Amounts, status : {"PENDING"}, tx : {NoTx}]
    /\ call = [c \in Calls |-> [pc |-> "idle", attempt |-> 0, entry |-> NoEntry]]
    /\ waits = {}
    /\ request = [r \in Requests |-> [pc |-> "none", tx |-> NoTx, entry |-> NoEntry]]
    /\ idem = NoEntry /\ idemDisk = NoEntry
    /\ nonces = {} /\ nonceDisk = {}
    /\ receipts = [t \in Txs |-> "none"] /\ receiptDisk = [t \in Txs |-> "none"]
    /\ writes = {}
    /\ ledger = [t \in Txs |-> "unused"]
    /\ seen = [o \in Observers |-> {}]
    /\ computed = {}
    /\ faults = 0 /\ hurt = {}

Committed == {t \in Txs : ledger[t] = "committed"}

Fault == faults < MaxFaults /\ faults' = faults + 1
Hurt(cause) == hurt' = hurt \cup {cause}

-----------------------------------------------------------------------------
(* The chain worker and the chain service                                  *)

\* normalizeAmount on the Long that int64 decodes to: the low half is signed,
\* and a non-zero high half gives NaN (-1 here: both are refused alike).
NormalizeAmount(a) ==
    IF a < Word THEN (IF a < Word \div 2 THEN a ELSE a - Word) ELSE -1

\* callAnchorTransfer: the worker has no transaction id yet and no call of its
\* own open; the call has a new nonce, and the service posts.  An amount that
\* normalises to nothing positive is refused, which leaves the row as it is.
AnchorTransfer(c) ==
    /\ row.status = "PENDING" /\ row.tx = NoTx
    /\ NormalizeAmount(row.amount) > 0
    /\ waits = {}
    /\ call[c].pc = "idle"
    /\ waits' = {c}
    /\ call' = [call EXCEPT ![c].pc = "posting"]
    /\ request' = [request EXCEPT ![<<c, 0>>].pc = "idem"]
    /\ UNCHANGED <<row, memory, disk, chain, bounds>>

\* The worker's own time-out: the row stays pending, the service carries on.
WorkerTimeout(c) ==
    /\ c \in waits
    /\ waits' = waits \ {c}
    /\ Fault
    /\ UNCHANGED <<row, call, request, memory, disk, chain, hurt>>

Current(c) == <<c, call[c].attempt>>

\* toGrpcException: the error reaches the worker, whose row stays pending.
Fail(c) ==
    /\ call' = [call EXCEPT ![c].pc = "done"]
    /\ waits' = waits \ {c}

\* The catch branch of anchorTransfer for an error without a response, which
\* isTransientError holds for.
RetryOrFail(c) ==
    IF call[c].attempt < MaxRetries
    THEN /\ call' = [call EXCEPT ![c].attempt = @ + 1]
         /\ request' = [request EXCEPT ![<<c, call[c].attempt + 1>>].pc = "idem"]
         /\ UNCHANGED waits
    ELSE Fail(c) /\ UNCHANGED request

\* No answer in time although the handler lives.
PostTimeout(c) ==
    /\ call[c].pc = "posting"
    /\ request[Current(c)].pc # "dead"
    /\ RetryOrFail(c)
    /\ Fault
    /\ UNCHANGED <<row, memory, disk, chain, hurt>>

\* The connection breaks because the gateway stopped.
ConnectionLost(c) ==
    /\ call[c].pc = "posting"
    /\ request[Current(c)].pc = "dead"
    /\ RetryOrFail(c)
    /\ UNCHANGED <<row, memory, disk, chain, bounds>>

\* 409 for a replay, 400 for a stale timestamp and 500 for Fabric errors are
\* answers that isTransientError does not hold for.
PostRefused(c) ==
    /\ call[c].pc = "posting"
    /\ request[Current(c)].pc = "refused"
    /\ Fail(c)
    /\ request' = [request EXCEPT ![Current(c)] = Gone]
    /\ UNCHANGED <<row, memory, disk, chain, bounds>>

\* The 200 answer.
PostAnswered(c) ==
    /\ call[c].pc = "posting"
    /\ request[Current(c)].pc = "ok"
    /\ call' = [call EXCEPT ![c].pc = "answered", ![c].entry = request[Current(c)].entry]
    /\ request' = [request EXCEPT ![Current(c)] = Gone]
    /\ UNCHANGED <<row, waits, memory, disk, chain, bounds>>

\* buildResultFromReceipt (a committed receipt is valid, so FAILED does not
\* occur): only a receipt that lists its endorsements is
\* complete enough to be ANCHORED.
ReceiptStatus(body) == IF body = "full" THEN "ANCHORED" ELSE "PENDING"

\* enrichWithObserverConfirmations, given the observers that confirm; the
\* signature and time stamp it ends with leave the status alone.
RequiredQuorum == (1 + Cardinality(Observers)) \div 2 + 1
EnrichedStatus(body, confirming) ==
    IF /\ RequireQuorum
       /\ Observers # {}
       /\ 1 + Cardinality(confirming) < RequiredQuorum
    THEN "PENDING"
    ELSE ReceiptStatus(body)

\* collectObserverConfirmations asks one after the other.  An observer that does
\* not have the transaction, or whose answer is lost, is left out, and so is one
\* that reports another block hash than the receipt; an observer that could not
\* query the block reports none.
Confirming(t) == {o \in Observers : t \in seen[o]}
Agreeing(t) == IF t \in computed THEN {} ELSE Confirming(t)
Confirmations(t, confirming) ==
    \/ confirming = Agreeing(t) /\ UNCHANGED faults
    \/ confirming \subseteq Confirming(t) /\ confirming # Agreeing(t) /\ Fault

\* applyChainResult for an answer with a transaction id.
ApplyChainResult(t, status) == row' = [row EXCEPT !.tx = t, !.status = status]

\* The rest of anchorTransfer and the worker's use of its result, which nobody
\* takes when the worker has timed out.
AnchorReturns(c) ==
    LET t == call[c].entry.tx IN
    /\ call[c].pc = "answered"
    /\ \E confirming \in SUBSET Confirming(t) :
          /\ Confirmations(t, confirming)
          /\ IF c \in waits
             THEN ApplyChainResult(t, EnrichedStatus(call[c].entry.body, confirming))
             ELSE UNCHANGED row
    /\ waits' = waits \ {c}
    /\ call' = [call EXCEPT ![c].pc = "done", ![c].entry = NoEntry]
    /\ UNCHANGED <<request, memory, disk, chain, hurt>>

\* Mutant: a stored receipt is answered as it is.
PollStoredReceipt(rebuilt) ==
    LET t == row.tx
    IN /\ row.status = "PENDING" /\ t # NoTx
       /\ receipts[t] # "none"
       /\ ~rebuilt
       /\ \E confirming \in SUBSET Confirming(t) :
             /\ Confirmations(t, confirming)
             /\ ApplyChainResult(t, EnrichedStatus(receipts[t], confirming))
       /\ UNCHANGED <<call, waits, request, memory, disk, chain, hurt>>

\* rebuildReceiptFromLedger adds the endorsements of the committed envelope.
RebuiltBody(t, rebuilt) == IF rebuilt THEN "full" ELSE receipts[t]

\* getReceipt for a row that has its transaction id.  The gateway's GetReceipt
\* first rebuilds a partial receipt from the ledger, if the query succeeds, and
\* keeps its block hash; a receipt it does not have is a 404, which leaves the
\* row as it is.
PollReceipt(rebuilt) ==
    LET t == row.tx
        body == RebuiltBody(t, rebuilt)
    IN /\ row.status = "PENDING" /\ t # NoTx
       /\ receipts[t] # "none"
       /\ rebuilt <=> receipts[t] = "partial"
       /\ receipts' = [receipts EXCEPT ![t] = body]
       /\ writes' = IF rebuilt
                    THEN writes \cup {<<"receipt", [tx |-> t, body |-> body]>>}
                    ELSE writes
       /\ \E confirming \in SUBSET Confirming(t) :
             /\ Confirmations(t, confirming)
             /\ ApplyChainResult(t, EnrichedStatus(body, confirming))
       /\ UNCHANGED <<call, waits, request, idem, nonces, idemDisk, nonceDisk,
                      receiptDisk, chain, hurt>>

-----------------------------------------------------------------------------
(* The gateway's SubmitTransfer                                            *)

To(r, pc) == request' = [request EXCEPT ![r].pc = pc]

\* An answer is lost when the service has stopped waiting for it.
Answer(r, pc, entry) ==
    request' = [request EXCEPT ![r] =
                  IF call[r[1]].pc = "posting" /\ Current(r[1]) = r
                  THEN [pc |-> pc, tx |-> NoTx, entry |-> entry]
                  ELSE Gone]
Refuse(r) == Answer(r, "refused", NoEntry)

\* Handlers that have missed the key and not stored it yet.
Unstored == {r \in Requests : request[r].pc \in {"nonce", "add", "submit", "commit", "store"}}

\* Look the idempotency key up.
IdempotencyHit(r) ==
    /\ request[r].pc = "idem"
    /\ idem # NoEntry
    /\ Answer(r, "ok", idem)
    /\ UNCHANGED <<worker, memory, disk, chain, bounds>>

\* Mutant: the key is not looked up.
IdempotencyIgnored(r) ==
    /\ request[r].pc = "idem"
    /\ To(r, "nonce")
    /\ hurt' = hurt \cup {"race" : q \in {q \in Unstored : q[1] # r[1]}}
    /\ UNCHANGED <<worker, memory, disk, chain, faults>>

IdempotencyMiss(r) ==
    /\ request[r].pc = "idem"
    /\ idem = NoEntry
    /\ To(r, "nonce")
    /\ hurt' = hurt \cup {"race" : q \in {q \in Unstored : q[1] # r[1]}}
    /\ UNCHANGED <<worker, memory, disk, chain, faults>>

\* nonceStore.Exists; Add takes the lock again, so another handler of the same
\* call may be between the two.
NonceExists(r) ==
    /\ request[r].pc = "nonce"
    /\ r[1] \in nonces
    /\ Refuse(r)
    /\ UNCHANGED <<worker, memory, disk, chain, bounds>>

NonceNew(r) ==
    /\ request[r].pc = "nonce"
    /\ r[1] \notin nonces
    /\ To(r, "add")
    /\ hurt' = hurt \cup {"race" : q \in {q \in Requests :
                              q[1] = r[1] /\ request[q].pc = "add"}}
    /\ UNCHANGED <<worker, memory, disk, chain, faults>>

\* The request's timestamp is outside the window, or ahead of the gateway's clock.
TimestampRefused(r) ==
    /\ request[r].pc = "add"
    /\ Refuse(r)
    /\ Fault
    /\ UNCHANGED <<worker, memory, disk, chain, hurt>>

NonceAdd(r) ==
    /\ request[r].pc = "add"
    /\ nonces' = nonces \cup {r[1]}
    /\ To(r, "submit")
    /\ UNCHANGED <<worker, idem, receipts, disk, chain, bounds>>

\* Endorse and submit CreateTransferIntent under a new transaction id.
Submit(r) ==
    /\ request[r].pc = "submit"
    /\ \E t \in Txs :
          /\ ledger[t] = "unused"
          /\ \A u \in Txs : ledger[u] = "unused" => t <= u
          /\ ledger' = [ledger EXCEPT ![t] = "ordered"]
          /\ request' = [request EXCEPT ![r].pc = "commit", ![r].tx = t]
    /\ UNCHANGED <<worker, memory, disk, seen, computed, bounds>>

\* No endorsement, and none after the retries of submitWithRetry.
EndorseFails(r) ==
    /\ request[r].pc = "submit"
    /\ Refuse(r)
    /\ Fault
    /\ UNCHANGED <<worker, memory, disk, chain, hurt>>

\* Mutant: the answer does not wait for the commit.
CommitNotAwaited(r) ==
    /\ request[r].pc = "commit"
    /\ To(r, "store")
    /\ UNCHANGED <<worker, memory, disk, chain, bounds>>

\* commit.Status() reports the transaction valid.
CommitStatus(r) ==
    /\ request[r].pc = "commit"
    /\ request[r].tx \in Committed
    /\ To(r, "store")
    /\ UNCHANGED <<worker, memory, disk, chain, bounds>>

\* commit.Status() fails although the orderer has the transaction: a retryable
\* error submits again, any other is answered with 500.
CommitStatusLost(r, retryable) ==
    /\ request[r].pc = "commit"
    /\ IF retryable THEN To(r, "submit") ELSE Refuse(r)
    /\ Fault
    /\ Hurt("race")
    /\ UNCHANGED <<worker, memory, disk, chain>>

\* Build the receipt and store it under both keys; the files follow later.
\* The receipt is partial when neither the ledger nor the endorsed envelope
\* gave the endorsements; its block hash is computed when GetBlockByTxID fails.
StoreReceipt(r, body, hash) ==
    LET e == [tx |-> request[r].tx, body |-> body] IN
    /\ request[r].pc = "store"
    /\ IF body = "full" /\ hash = "ledger" THEN UNCHANGED faults ELSE Fault
    /\ computed' = IF hash = "computed" THEN computed \cup {e.tx} ELSE computed
    /\ receipts' = [receipts EXCEPT ![e.tx] = body]
    /\ idem' = e
    /\ writes' = writes \cup {<<"idem", e>>, <<"receipt", e>>}
    /\ Answer(r, "ok", e)
    /\ UNCHANGED <<worker, nonces, idemDisk, nonceDisk, receiptDisk, ledger, seen, hurt>>

-----------------------------------------------------------------------------
(* Files, expiry and crashes of the gateway                                *)

\* The goroutines that write files run in any order.
WriteIdem(e) ==
    /\ <<"idem", e>> \in writes
    /\ idemDisk' = e
    /\ writes' = writes \ {<<"idem", e>>}
    /\ UNCHANGED <<worker, request, memory, nonceDisk, receiptDisk, chain, bounds>>

WriteReceipt(e) ==
    /\ <<"receipt", e>> \in writes
    /\ receiptDisk' = [receiptDisk EXCEPT ![e.tx] = e.body]
    /\ writes' = writes \ {<<"receipt", e>>}
    /\ UNCHANGED <<worker, request, memory, idemDisk, nonceDisk, chain, bounds>>

\* The nonce store's cleanup goroutine persists once a minute.
PersistNonces ==
    /\ nonceDisk # nonces
    /\ nonceDisk' = nonces
    /\ UNCHANGED <<worker, request, memory, idemDisk, receiptDisk, writes, chain, bounds>>

\* The key's TTL runs out; cleanup removes the entry and its file.
IdempotencyExpires ==
    /\ idem # NoEntry
    /\ idem' = NoEntry /\ idemDisk' = NoEntry
    /\ Fault
    /\ Hurt("race")
    /\ UNCHANGED <<worker, request, nonces, receipts, nonceDisk, receiptDisk, writes, chain>>

\* The gateway stops and starts again.  Handlers and background writes are
\* gone, and a file that was being rewritten is unreadable and skipped.
Crash(tornNonces, tornIdem) ==
    /\ tornIdem => \E e \in Entries : <<"idem", e>> \in writes
    /\ idemDisk' = IF tornIdem THEN NoEntry ELSE idemDisk
    /\ nonceDisk' = IF tornNonces THEN {} ELSE nonceDisk
    /\ idem' = idemDisk' /\ nonces' = nonceDisk' /\ receipts' = receiptDisk
    /\ writes' = {}
    /\ request' = [r \in Requests |->
                     IF request[r].pc = "none" THEN request[r] ELSE Gone]
    /\ Fault
    /\ Hurt("crash")
    /\ UNCHANGED <<worker, receiptDisk, chain>>

-----------------------------------------------------------------------------
(* Fabric                                                                  *)

\* The orderer puts the transaction into a block, which the gateway's peer and
\* CreateTransferIntent's PutState commit.
CommitBlock(t) ==
    /\ ledger[t] = "ordered"
    /\ ledger' = [ledger EXCEPT ![t] = "committed"]
    /\ UNCHANGED <<worker, request, memory, disk, seen, computed, bounds>>

\* An observer's peer receives the block: ObserveTransaction finds it.
Observe(o, t) ==
    /\ t \in Committed \ seen[o]
    /\ seen' = [seen EXCEPT ![o] = @ \cup {t}]
    /\ UNCHANGED <<worker, request, memory, disk, ledger, computed, bounds>>

-----------------------------------------------------------------------------
ServiceStep ==
    \/ \E c \in Calls : ConnectionLost(c) \/ PostRefused(c) \/ PostAnswered(c)
                        \/ AnchorReturns(c)

HandlerStep ==
    \E r \in Requests :
        \/ IdempotencyHit(r) \/ IdempotencyMiss(r)
        \/ NonceExists(r) \/ NonceNew(r) \/ NonceAdd(r)
        \/ Submit(r) \/ CommitStatus(r) \/ StoreReceipt(r, "full", "ledger")

\* The receipt lacks what a query of the ledger would have given.
IncompleteReceipt ==
    \E r \in Requests : \/ StoreReceipt(r, "partial", "ledger")
                        \/ \E body \in Bodies : StoreReceipt(r, body, "computed")

FaultStep ==
    \/ \E c \in Calls : WorkerTimeout(c) \/ PostTimeout(c)
    \/ \E r \in Requests :
          \/ TimestampRefused(r) \/ EndorseFails(r)
          \/ \E retryable \in BOOLEAN : CommitStatusLost(r, retryable)
    \/ IdempotencyExpires
    \/ \E tornNonces, tornIdem \in BOOLEAN : Crash(tornNonces, tornIdem)

FileStep == \E e \in Entries : WriteIdem(e) \/ WriteReceipt(e)

FabricStep == \E t \in Txs : CommitBlock(t) \/ \E o \in Observers : Observe(o, t)

NewCall == \E c \in Calls : AnchorTransfer(c)
Poll == \E rebuilt \in BOOLEAN : PollReceipt(rebuilt)

Next == NewCall \/ ServiceStep \/ Poll \/ HandlerStep \/ IncompleteReceipt
        \/ FaultStep \/ FileStep \/ PersistNonces \/ FabricStep

\* The worker ticks on an interval, Go and Node run what they started, and
\* Fabric orders and distributes blocks; no fault has to happen.
Fairness == /\ WF_vars(NewCall) /\ WF_vars(ServiceStep) /\ WF_vars(Poll)
            /\ WF_vars(HandlerStep) /\ WF_vars(FabricStep)

Spec == Init /\ [][Next]_vars /\ Fairness

-----------------------------------------------------------------------------
(* Properties                                                              *)

\* What the wallet calls anchored is on the ledger, and with the quorum switch
\* on the majority of all nodes had confirmed it: no order of commit, receipt
\* rebuilding and observer answers lets applyChainResult record it earlier.
AnchoredIsOnLedger ==
    row.status = "ANCHORED" =>
        /\ row.tx \in Committed
        /\ RequireQuorum =>
              2 * (1 + Cardinality(Confirming(row.tx))) > 1 + Cardinality(Observers)

\* The gateway's stores never run ahead of the ledger: after any crash, torn
\* file or late background write, a receipt or idempotency entry it would
\* answer from is one of a committed transaction whose receipt was built.
StoresTellTheLedger ==
    /\ \A t \in Txs : receipts[t] # "none" \/ receiptDisk[t] # "none" => t \in Committed
    /\ idem # NoEntry \/ idemDisk # NoEntry => {idem.tx, idemDisk.tx} \ {NoTx} \subseteq Committed

\* SubmitTransfer's key and nonce keep the transaction to one intent on the
\* chain, through every time-out, refused and retried request, unless the
\* gateway crashed, lost a commit status or let the key expire, two calls were
\* past the key look-up at once, or two retries were between Exists and Add.
DuplicateIntentHasACause ==
    Cardinality({t \in Txs : ledger[t] # "unused"}) > 1 => hurt # {}

\* The chain worker gets every transaction anchored in the end whose amount
\* survives the Long conversion.  The ways out are a receipt the gateway lost in
\* a crash after the worker had its transaction id (the worker then polls for it
\* for ever and never submits again), and, with the quorum switch on, a receipt
\* with a computed block hash: rebuildReceiptFromLedger keeps it, and no observer
\* that reports the hash of its block is counted.
EventuallyAnchored ==
    (row.amount < Word \div 2) ~>
        \/ row.status = "ANCHORED"
        \/ "crash" \in hurt /\ row.tx # NoTx /\ receipts[row.tx] = "none"
        \/ RequireQuorum /\ row.tx \in computed

\* Every record is backed by the ledger: the wallet's ANCHORED and the entries of
\* the gateway's stores, in memory and on disk.
RecordsAreBacked == AnchoredIsOnLedger /\ StoresTellTheLedger

=============================================================================
