-------------------------- MODULE TransferLifecycle --------------------------
(***************************************************************************)
(* The life of ONE wallet transaction (one idempotency key) across the     *)
(* transaction service, the outside-payment service and the settlement     *)
(* service.                                                                *)
(*                                                                         *)
(* A request handler persists the transaction, awaits the outside-payment  *)
(* call and then writes its in-memory entity back with txRepo.save; so do  *)
(* the chain workers.  Every await is a step, and a save overwrites the    *)
(* row with the copy read before the await.  markSettlement holds the lock *)
(* of the row from its first read to its commit, so nobody else writes the *)
(* row meanwhile; but it looks for an earlier credit before it waits for   *)
(* the wallet, and a handler's rollback does not take the lock of the row. *)
(***************************************************************************)
EXTENDS OutsidePayment, Naturals

CONSTANTS Workers,              \* chain workers (ticks of service replicas)
          ChainAsyncMaxRetries, \* CHAIN_ASYNC_MAX_RETRIES, 0 = unlimited
          MaxAttempts,          \* bound on chainRetryCount
          MaxFaults             \* bound on crashes of the service and on database
                                \* errors in its transactions

ASSUME RetriesAssumption == ChainAsyncMaxRetries \in Nat
ASSUME BoundsAssumption == MaxAttempts \in Nat /\ MaxFaults \in Nat

\* Client requests that carry the key or ask for the transaction: each makes at
\* most one InitiateTransfer call.
Requests == Calls

\* Settlement cycles: each makes at most one CheckTransfer call at a time.
Jobs == Polls

VARIABLES type,    \* what kind of transaction the key stands for
          row,     \* the row of the transactions table
          debits,  \* DEBIT entries of the transaction in the ledger
          credits, \* CREDIT entries of the transaction in the ledger
          events,  \* event types put into the outbox for the transaction
          req,     \* req[r]: request handler r
          job,     \* job[j]: what settlement cycle j does with the transaction
          sent,    \* MarkSettlement calls on their way, by their decision
          mark,    \* the markSettlement transaction that holds the row's lock
          worker,  \* worker[w]: chain worker w
          faults,  \* crashes and database errors so far
          stranded \* a handler stopped before the refund of a row it had saved
                   \* as FAILED (history)

settlementVars == <<job, sent, mark>>
txVars == <<type, row, debits, credits, events, req, settlementVars, worker, faults, stranded>>
vars == <<opVars, txVars>>

-----------------------------------------------------------------------------
Types == {"INTERNAL", "TRANSFER", "DEPOSIT", "WITHDRAWAL"}

TransactionStatus == {"PENDING", "COMPLETED", "FAILED"}
SettlementStatus == {"NONE", "PENDING", "SETTLED", "FAILED"}
ChainStatus == {"PENDING", "ANCHORED", "FAILED"}
FinalSettlement == {"SETTLED", "FAILED"}

\* The columns the handlers branch on.  ref: externalRef is set; due: the worker
\* may claim the row (chainNextAttemptAt is null or has passed).
TransactionEntity ==
    [status : TransactionStatus, settlement : SettlementStatus,
     chain : ChainStatus, retry : Nat,
     ref : BOOLEAN, due : BOOLEAN]

NoRow == [status |-> "ABSENT"]
Copy == TransactionEntity \cup {NoRow}

Events == {"pending", "failed", "completed", "chain.completed"}

ReqPC == {"new", "persist", "submit", "await", "rollback", "refund", "saveFailed",
          "anchor", "touch", "enqueue", "refresh", "done"}
JobPC == {"idle", "check", "poll"}
WorkerPC == {"idle", "claimed", "calling", "event"}

\* What a markSettlement transaction is to set, and whether it is to credit the
\* wallet.
NoMark == [settlement |-> "none", credits |-> FALSE]
Marks == [settlement : FinalSettlement, credits : BOOLEAN] \cup {NoMark}

\* Nobody holds the lock of the row.
Unlocked == mark = NoMark

TypeOK ==
    /\ OPTypeOK
    /\ type \in Types
    /\ row \in Copy
    /\ debits \in Nat /\ credits \in Nat
    /\ events \subseteq Events
    /\ req \in [Requests -> [pc : ReqPC, tx : Copy, simulate : BOOLEAN]]
    /\ job \in [Jobs -> JobPC]
    /\ sent \subseteq FinalSettlement
    /\ mark \in Marks
    /\ worker \in [Workers -> [pc : WorkerPC, tx : Copy, new : SUBSET Events]]
    /\ faults \in 0..MaxFaults
    /\ stranded \in BOOLEAN

IsExternal == type # "INTERNAL"

IdleWorker == [pc |-> "idle", tx |-> NoRow, new |-> {}]
NewRequest(sim) == [pc |-> "new", tx |-> NoRow, simulate |-> sim]
Done == [pc |-> "done", tx |-> NoRow, simulate |-> FALSE]

\* Only createWithdrawalRequest takes the simulateFailure flag.
Init ==
    /\ OPInit
    /\ type \in Types
    /\ row = NoRow
    /\ debits = 0 /\ credits = 0
    /\ events = {}
    /\ \E sim \in [Requests -> IF type = "WITHDRAWAL" THEN BOOLEAN ELSE {FALSE}] :
          req = [r \in Requests |-> NewRequest(sim[r])]
    /\ job = [j \in Jobs |-> "idle"]
    /\ sent = {} /\ mark = NoMark
    /\ worker = [w \in Workers |-> IdleWorker]
    /\ faults = 0 /\ stranded = FALSE

-----------------------------------------------------------------------------
(* Column updates the service makes on an entity in memory. *)

MarkChainPending(tx) ==
    [tx EXCEPT !.chain = "PENDING", !.retry = @ + 1, !.due = FALSE]

ReconcileBusinessStatus(tx) ==
    IF /\ tx.status # "FAILED"
       /\ \/ ~IsExternal
          \/ tx.settlement = "SETTLED" /\ tx.chain = "ANCHORED"
    THEN [tx EXCEPT !.status = "COMPLETED"]
    ELSE tx

\* What the chain service answers, "OTHER" for a status that is none of the
\* entity's and "ERROR" for an exception or timeout.
ChainResults == {"ANCHORED", "FAILED", "PENDING", "OTHER", "ERROR"}

\* Mutant: the status is stored as it was answered.
StoreChainResult(tx, result) ==
    CASE result = "ANCHORED" ->
           ReconcileBusinessStatus([tx EXCEPT !.chain = "ANCHORED", !.retry = 0,
                                              !.due = TRUE])
      [] result = "ERROR" -> MarkChainPending(tx)
      [] OTHER -> [tx EXCEPT !.chain = result, !.due = TRUE]

ApplyChainResult(tx, result) ==
    CASE result = "ANCHORED" ->
           ReconcileBusinessStatus([tx EXCEPT !.chain = "ANCHORED", !.retry = 0,
                                              !.due = TRUE])
      [] result = "FAILED" -> [tx EXCEPT !.chain = "FAILED", !.due = TRUE]
      [] OTHER -> MarkChainPending(tx)

\* The answers an entity may get within the bound on its attempts.
ResultsFor(tx) ==
    IF tx.retry < MaxAttempts THEN ChainResults ELSE {"ANCHORED", "FAILED"}

\* The retry limit of the worker.
GiveUpChain(tx) ==
    IF /\ ChainAsyncMaxRetries > 0
       /\ tx.chain = "PENDING"
       /\ tx.retry >= ChainAsyncMaxRetries
    THEN [tx EXCEPT !.chain = "FAILED", !.due = TRUE]
    ELSE tx

\* enqueueTransactionEvent: the event type follows the entity's status.
EventOf(tx) == CASE tx.status = "FAILED" -> "failed"
                 [] tx.status = "COMPLETED" -> "completed"
                 [] tx.status = "PENDING" -> "pending"

Goto(r, pc, tx) == req' = [req EXCEPT ![r].pc = pc, ![r].tx = tx]
Finish(r) == req' = [req EXCEPT ![r] = Done]

-----------------------------------------------------------------------------
(* Request handlers: createTransfer, createTopupIntent, createWithdrawal-   *)
(* Request.                                                                 *)

\* The idempotency check before the database transaction.
Receive(r) ==
    /\ req[r].pc = "new"
    /\ IF row = NoRow THEN Goto(r, "persist", NoRow) ELSE Finish(r)
    /\ UNCHANGED <<opVars, type, row, debits, credits, events, settlementVars, worker, faults, stranded>>

\* Where the handler goes with the persisted (or duplicate) transaction.
AfterPersist(r) == CASE ~IsExternal -> "touch"
                     [] IsExternal /\ req[r].simulate -> "rollback"
                     [] IsExternal /\ ~req[r].simulate -> "submit"

\* The row as persistTransfer, persistTopupIntent and persistWithdrawalRequest
\* create it; only a transfer is due for anchoring at once.
CreatedRow == [status |-> "PENDING",
               settlement |-> IF IsExternal THEN "PENDING" ELSE "NONE",
               chain |-> "PENDING", retry |-> 0, ref |-> FALSE,
               due |-> type \in {"INTERNAL", "TRANSFER"}]

\* One database transaction: wallet debit, receiver credit and ledger entries.
PersistNew(r) ==
    /\ req[r].pc = "persist"
    /\ row = NoRow
    /\ row' = CreatedRow
    /\ debits' = IF type = "DEPOSIT" THEN debits ELSE debits + 1
    /\ credits' = IF type = "INTERNAL" THEN credits + 1 ELSE credits
    /\ Goto(r, AfterPersist(r), row')
    /\ UNCHANGED <<opVars, type, events, settlementVars, worker, faults, stranded>>

\* Mutant: no duplicate check inside the database transaction.
PersistTwice(r) ==
    /\ req[r].pc = "persist"
    /\ row # NoRow
    /\ debits' = debits + 1
    /\ Goto(r, AfterPersist(r), row)
    /\ UNCHANGED <<opVars, type, row, credits, events, settlementVars, worker, faults, stranded>>

\* The duplicate check inside the database transaction found the row: the
\* handler goes on with it as if it had created it.
PersistDuplicate(r) ==
    /\ req[r].pc = "persist"
    /\ row # NoRow
    /\ Goto(r, AfterPersist(r), row)
    /\ UNCHANGED <<opVars, type, row, debits, credits, events, settlementVars, worker, faults, stranded>>

\* The database transaction is rolled back: wallet missing or short of money, or
\* the unique index on idempotencyKey refuses a second insert.
PersistRejected(r) ==
    /\ req[r].pc = "persist"
    /\ Finish(r)
    /\ UNCHANGED <<opVars, type, row, debits, credits, events, settlementVars, worker, faults, stranded>>

\* submitOutsideTransfer sends InitiateTransfer and waits.
Submit(r) ==
    /\ req[r].pc = "submit"
    /\ call[r] = "unsent"
    /\ call' = [call EXCEPT ![r] = "sent"]
    /\ Goto(r, "await", req[r].tx)
    /\ UNCHANGED <<transfer, partner, poll, type, row, debits, credits, events, settlementVars, worker, faults, stranded>>

FailedCopy(tx) == [tx EXCEPT !.status = "FAILED", !.settlement = "FAILED"]

\* A failed withdrawal is rolled back, a failed deposit anchored at once; a
\* failed external transfer is neither.
AfterSubmission(tx) ==
    CASE tx.status = "FAILED" /\ type = "WITHDRAWAL" -> "rollback"
      [] tx.status = "FAILED" /\ type = "DEPOSIT" -> "anchor"
      [] OTHER -> "enqueue"

\* The save at the end of submitOutsideTransfer and the branch on its outcome.
SaveSubmission(r, tx) ==
    /\ Unlocked
    /\ row' = tx
    /\ Goto(r, AfterSubmission(tx), tx)
    /\ UNCHANGED <<opVars, type, debits, credits, events, settlementVars, worker, faults, stranded>>

\* The outside-payment service answered: any status but SUBMITTED is a rejection.
SubmitAnswered(r) ==
    /\ req[r].pc = "await"
    /\ call[r] \in {"replySUBMITTED", "replySETTLED", "replyFAILED"}
    /\ LET tx == [req[r].tx EXCEPT !.ref = TRUE]
       IN SaveSubmission(r, IF call[r] = "replySUBMITTED" THEN tx ELSE FailedCopy(tx))

\* Mutant: a submission that fails with an exception is not rolled back.
SubmitFailedNoRollback(r) ==
    /\ req[r].pc = "await" /\ Unlocked
    /\ row' = FailedCopy(req[r].tx)
    /\ Goto(r, "enqueue", row')
    /\ UNCHANGED <<opVars, type, debits, credits, events, settlementVars, worker, faults, stranded>>

\* OUTSIDE_PAYMENT_TIMEOUT_MS passed, or the call failed; the call itself may
\* still be running in the other service.
SubmitFailed(r) ==
    /\ req[r].pc = "await"
    /\ SaveSubmission(r, FailedCopy(req[r].tx))

\* rollbackWithdrawalDebit, first read: an existing CREDIT entry ends it.
RollbackCheck(r) ==
    /\ req[r].pc = "rollback"
    /\ Goto(r, CASE credits = 0 -> "refund"
                 [] credits > 0 /\ req[r].simulate -> "saveFailed"
                 [] credits > 0 /\ ~req[r].simulate -> "anchor", req[r].tx)
    /\ UNCHANGED <<opVars, type, row, debits, credits, events, settlementVars, worker, faults, stranded>>

\* rollbackWithdrawalDebit, wallet locked: credit and ledger entry.
RollbackRefund(r) ==
    /\ req[r].pc = "refund"
    /\ credits' = credits + 1
    /\ Goto(r, IF req[r].simulate THEN "saveFailed" ELSE "anchor", req[r].tx)
    /\ UNCHANGED <<opVars, type, row, debits, events, settlementVars, worker, faults, stranded>>

\* simulateFailure: the failed status is saved after the rollback.
SaveSimulatedFailure(r) ==
    /\ req[r].pc = "saveFailed" /\ Unlocked
    /\ row' = FailedCopy(req[r].tx)
    /\ Goto(r, "anchor", row')
    /\ UNCHANGED <<opVars, type, debits, credits, events, settlementVars, worker, faults, stranded>>

\* anchorToChain: the chain call and the save of its result.
AnchorToChain(r) ==
    /\ req[r].pc = "anchor" /\ Unlocked
    /\ \E result \in ResultsFor(req[r].tx) :
          /\ row' = ApplyChainResult(req[r].tx, result)
          /\ Goto(r, "enqueue", row')
    /\ UNCHANGED <<opVars, type, debits, credits, events, settlementVars, worker, faults, stranded>>

\* createTransfer, internal: make the transaction due for the chain worker.
TouchInternal(r) ==
    /\ req[r].pc = "touch"
    /\ IF req[r].tx.status # "FAILED"
       THEN /\ Unlocked
            /\ row' = [req[r].tx EXCEPT !.due = TRUE]
            /\ Goto(r, "enqueue", row')
       ELSE /\ UNCHANGED row
            /\ Goto(r, "enqueue", req[r].tx)
    /\ UNCHANGED <<opVars, type, debits, credits, events, settlementVars, worker, faults, stranded>>

\* The outbox insert at the end of every handler, in a transaction of its own.
Enqueue(r) ==
    /\ req[r].pc = "enqueue"
    /\ events' = events \cup {EventOf(req[r].tx)}
    /\ Finish(r)
    /\ UNCHANGED <<opVars, type, row, debits, credits, settlementVars, worker, faults, stranded>>

\* getTransaction: the receipt of an anchored transaction that lacks its quorum
\* is fetched again; any other read changes nothing.
GetTransaction(r) ==
    /\ req[r].pc = "new"
    /\ row # NoRow /\ row.chain = "ANCHORED"
    /\ Goto(r, "refresh", row)
    /\ UNCHANGED <<opVars, type, row, debits, credits, events, settlementVars, worker, faults, stranded>>

\* refreshAnchoredReceiptTransparency: a receipt that differs is saved with the
\* whole copy read before the call; the same receipt or an error saves nothing.
RefreshReceipt(r) ==
    /\ req[r].pc = "refresh"
    /\ \/ UNCHANGED row
       \/ Unlocked /\ row' = req[r].tx
    /\ Finish(r)
    /\ UNCHANGED <<opVars, type, debits, credits, events, settlementVars, worker, faults, stranded>>

Fault == faults < MaxFaults /\ faults' = faults + 1

\* The handlers r in R stop in their rollback, which follows the save of the
\* FAILED row unless the failure is simulated.
Strand(R) ==
    stranded' = \/ stranded
                \/ \E r \in R : req[r].pc \in {"rollback", "refund"} /\ ~req[r].simulate

\* A database error ends the handler: what its current database transaction did
\* is rolled back and the exception reaches the caller.
RequestFails(r) ==
    /\ req[r].pc \in ReqPC \ {"new", "persist", "submit", "done"}
    /\ Fault
    /\ Finish(r)
    /\ Strand({r})
    /\ UNCHANGED <<opVars, type, row, debits, credits, events, settlementVars, worker>>

-----------------------------------------------------------------------------
(* markSettlement: one database transaction under the lock of the row; it   *)
(* does not look at the settlement status the row already has.              *)

\* Mutant: a deposit's credit does not look for an earlier CREDIT entry.
SettlementCreditsAgain(s) ==
    \/ s = "SETTLED" /\ type = "DEPOSIT"
    \/ credits = 0 /\ s = "FAILED" /\ type = "WITHDRAWAL"

\* Mutant: a refund does not look for an earlier CREDIT entry.
SettlementRefundsAgain(s) ==
    \/ credits = 0 /\ s = "SETTLED" /\ type = "DEPOSIT"
    \/ s = "FAILED" /\ type = "WITHDRAWAL"

\* applyDepositCreditIfNeeded and rollbackWithdrawalDebitUsingManager: a wallet
\* is credited unless the transaction already has a CREDIT entry.
SettlementCredits(s) ==
    /\ credits = 0
    /\ \/ s = "SETTLED" /\ type = "DEPOSIT"
       \/ s = "FAILED" /\ type = "WITHDRAWAL"

Marked(s) ==
    [row EXCEPT !.settlement = s,
                !.status = IF s = "SETTLED" THEN "COMPLETED" ELSE "FAILED",
                !.due = @ \/ row.chain = "PENDING"]

\* The lock of the row, and the look for a CREDIT entry; the lock of the wallet
\* is still to come.
BeginMark(s) ==
    /\ row # NoRow /\ Unlocked
    /\ mark' = [settlement |-> s, credits |-> SettlementCredits(s)]

\* Mutant: the event is built from the row before the update.
MarkSettlementStaleEvent ==
    /\ ~Unlocked
    /\ credits' = IF mark.credits THEN credits + 1 ELSE credits
    /\ row' = Marked(mark.settlement)
    /\ events' = events \cup {EventOf(row)}
    /\ mark' = NoMark
    /\ UNCHANGED <<opVars, type, debits, req, job, sent, worker, faults, stranded>>

\* The wallet is locked and credited, the row saved, the event put into the
\* outbox, and all of it committed.
MarkSettlement ==
    /\ ~Unlocked
    /\ credits' = IF mark.credits THEN credits + 1 ELSE credits
    /\ row' = Marked(mark.settlement)
    /\ events' = events \cup {EventOf(row')}
    /\ mark' = NoMark
    /\ UNCHANGED <<opVars, type, debits, req, job, sent, worker, faults, stranded>>

\* The wallet is missing, or the database fails: all of it is rolled back.
MarkAborts ==
    /\ ~Unlocked
    /\ Fault
    /\ mark' = NoMark
    /\ UNCHANGED <<opVars, type, row, debits, credits, events, req, job, sent, worker, stranded>>

-----------------------------------------------------------------------------
(* The settlement service: processCandidate for this transaction.  A cycle  *)
(* does nothing more with it once it has sent a MarkSettlement call: it     *)
(* awaits the answer, but for SETTLEMENT_RPC_TIMEOUT_MS only, so it may     *)
(* list the transaction again while the call is still under way.            *)

\* What listSettlementCandidates selects.
IsCandidate == row # NoRow /\ IsExternal /\ row.settlement = "PENDING"

\* Mutant: transactions without a reference are not listed.
ListSubmitted(j) ==
    /\ job[j] = "idle"
    /\ IsCandidate /\ row.ref
    /\ job' = [job EXCEPT ![j] = "check"]
    /\ UNCHANGED <<opVars, type, row, debits, credits, events, req, sent, mark, worker, faults, stranded>>

\* listSettlementCandidates returned the transaction; without a reference it is
\* to be marked FAILED at once.
ListCandidate(j) ==
    /\ job[j] = "idle"
    /\ IsCandidate
    /\ IF row.ref
       THEN job' = [job EXCEPT ![j] = "check"] /\ UNCHANGED sent
       ELSE sent' = sent \cup {"FAILED"} /\ UNCHANGED job
    /\ UNCHANGED <<opVars, type, row, debits, credits, events, req, mark, worker, faults, stranded>>

\* The CheckTransfer call for a candidate that has a reference.
CheckTransfer(j) ==
    /\ job[j] = "check"
    /\ CheckRead(j)
    /\ job' = [job EXCEPT ![j] = "poll"]
    /\ UNCHANGED <<type, row, debits, credits, events, req, sent, mark, worker, faults, stranded>>

\* Its answer decides whether and how the transaction is marked.
CheckAnswered(j) ==
    /\ job[j] = "poll"
    /\ poll[j] \in {"isSUBMITTED", "isSETTLED", "isFAILED"}
    /\ poll' = [poll EXCEPT ![j] = "idle"]
    /\ job' = [job EXCEPT ![j] = "idle"]
    /\ sent' = sent \cup (CASE poll[j] = "isSETTLED" -> {"SETTLED"}
                            [] poll[j] = "isFAILED" -> {"FAILED"}
                            [] poll[j] = "isSUBMITTED" -> {})
    /\ UNCHANGED <<call, transfer, partner, type, row, debits, credits, events, req, mark, worker, faults, stranded>>

\* SETTLEMENT_RPC_TIMEOUT_MS passed: the candidate is skipped in this cycle.
CheckTimeout(j) ==
    /\ job[j] = "poll"
    /\ poll[j] \in {"isSUBMITTED", "isSETTLED", "isFAILED"}
    /\ poll' = [poll EXCEPT ![j] = "idle"]
    /\ job' = [job EXCEPT ![j] = "idle"]
    /\ UNCHANGED <<call, transfer, partner, type, row, debits, credits, events, req, sent, mark, worker, faults, stranded>>

\* A MarkSettlement call gets the lock of the row, which may be after
\* SETTLEMENT_RPC_TIMEOUT_MS, when its cycle has given it up and gone on.
Mark(s) ==
    /\ s \in sent
    /\ BeginMark(s)
    /\ sent' = sent \ {s}
    /\ UNCHANGED <<opVars, type, row, debits, credits, events, req, job, worker, faults, stranded>>

\* The call is lost on its way; its cycle skips the candidate.
MarkLost(s) ==
    /\ s \in sent
    /\ sent' = sent \ {s}
    /\ UNCHANGED <<opVars, type, row, debits, credits, events, req, job, mark, worker, faults, stranded>>

-----------------------------------------------------------------------------
(* The chain worker: claimDueChainTransactions and                          *)
(* processPendingChainTransaction.                                          *)

\* Mutant: internal transfers are not ready without a settlement.
ClaimSettledOnly(w) ==
    /\ worker[w].pc = "idle" /\ Unlocked
    /\ row # NoRow /\ row.chain = "PENDING" /\ row.status # "FAILED" /\ row.due
    /\ row.settlement \in FinalSettlement
    /\ row' = [row EXCEPT !.due = FALSE]
    /\ worker' = [worker EXCEPT ![w].pc = "claimed"]
    /\ UNCHANGED <<opVars, type, debits, credits, events, req, settlementVars, faults, stranded>>

\* claimDueChainTransactions skips a locked row.
Claim(w) ==
    /\ worker[w].pc = "idle" /\ Unlocked
    /\ row # NoRow /\ row.chain = "PENDING" /\ row.status # "FAILED" /\ row.due
    /\ ~IsExternal \/ row.settlement \in FinalSettlement
    /\ row' = [row EXCEPT !.due = FALSE]
    /\ worker' = [worker EXCEPT ![w].pc = "claimed"]
    /\ UNCHANGED <<opVars, type, debits, credits, events, req, settlementVars, faults, stranded>>

\* The row is read again; nothing is done unless it is still open.
Load(w) ==
    /\ worker[w].pc = "claimed"
    /\ worker' = [worker EXCEPT ![w] =
                    IF row.chain # "PENDING" \/ row.status = "FAILED"
                    THEN IdleWorker
                    ELSE [pc |-> "calling", tx |-> row, new |-> {}]]
    /\ UNCHANGED <<opVars, type, row, debits, credits, events, req, settlementVars, faults, stranded>>

\* The chain service answered (AnchorTransfer or GetReceipt): the copy is
\* updated and saved.
ProcessResult(w) ==
    /\ worker[w].pc = "calling" /\ Unlocked
    /\ LET old == worker[w].tx
       IN \E result \in ResultsFor(old) :
          LET tx == ReconcileBusinessStatus(GiveUpChain(ApplyChainResult(old, result)))
              new == (IF tx.chain = "ANCHORED" THEN {"chain.completed"} ELSE {})
                       \cup (IF old.status # "COMPLETED" /\ tx.status = "COMPLETED"
                             THEN {"completed"} ELSE {})
          IN /\ row' = tx
             /\ worker' = [worker EXCEPT ![w] =
                             IF new = {} THEN IdleWorker
                             ELSE [pc |-> "event", tx |-> NoRow, new |-> new]]
    /\ UNCHANGED <<opVars, type, debits, credits, events, req, settlementVars, faults, stranded>>

\* The worker's outbox inserts, after its save.
WorkerEvent(w) ==
    /\ worker[w].pc = "event"
    /\ events' = events \cup worker[w].new
    /\ worker' = [worker EXCEPT ![w] = IdleWorker]
    /\ UNCHANGED <<opVars, type, row, debits, credits, req, settlementVars, faults, stranded>>

-----------------------------------------------------------------------------
\* chainNextAttemptAt passes: a lease, the first delay or a backoff is over.
BecomesDue ==
    /\ row # NoRow /\ ~row.due
    /\ row' = [row EXCEPT !.due = TRUE]
    /\ UNCHANGED <<opVars, type, debits, credits, events, req, settlementVars, worker, faults, stranded>>

\* The transaction service dies: its handlers, workers and open database
\* transactions are gone, the database and the calls in the other services remain.
Crash ==
    /\ Fault
    /\ req' = [r \in Requests |-> IF req[r].pc = "new" THEN req[r] ELSE Done]
    /\ worker' = [w \in Workers |-> IdleWorker]
    /\ mark' = NoMark
    /\ Strand(Requests)
    /\ UNCHANGED <<opVars, type, row, debits, credits, events, job, sent>>

RequestStep(r) ==
    \/ Receive(r) \/ PersistNew(r) \/ PersistDuplicate(r) \/ PersistRejected(r)
    \/ Submit(r) \/ SubmitAnswered(r) \/ SubmitFailed(r)
    \/ RollbackCheck(r) \/ RollbackRefund(r) \/ SaveSimulatedFailure(r)
    \/ AnchorToChain(r) \/ TouchInternal(r) \/ Enqueue(r)
    \/ GetTransaction(r) \/ RefreshReceipt(r) \/ RequestFails(r)

JobStep(j) == \/ ListCandidate(j) \/ CheckTransfer(j) \/ CheckAnswered(j)
              \/ CheckTimeout(j)

WorkerStep(w) == Claim(w) \/ Load(w) \/ ProcessResult(w) \/ WorkerEvent(w)

OutsideStep == OPNext /\ UNCHANGED txVars

Next == \/ \E r \in Requests : RequestStep(r)
        \/ \E j \in Jobs : JobStep(j)
        \/ \E w \in Workers : WorkerStep(w)
        \/ \E s \in FinalSettlement : Mark(s) \/ MarkLost(s)
        \/ MarkSettlement \/ MarkAborts
        \/ OutsideStep
        \/ BecomesDue
        \/ Crash

Spec == Init /\ [][Next]_vars
-----------------------------------------------------------------------------
(* Safety. *)

\* A deposit is credited at most once, whatever duplicate requests, overlapping
\* settlement cycles, late MarkSettlement calls and crashes do; a deposit shown
\* as COMPLETED has been credited; and a credit exists only if the partner
\* settled the submission the external_transfers row stands for
\* (applyDepositCreditIfNeeded under the row lock of markSettlement).
DepositSafety ==
    type = "DEPOSIT" =>
        /\ credits <= 1
        /\ row # NoRow /\ row.status = "COMPLETED" => credits = 1
        /\ credits = 1 => transfer # NoTransfer /\ partner[transfer.by] = "settled"

\* However many requests carry the key, the sender is debited exactly once, in
\* the database transaction that creates the row (persistTransfer and
\* persistWithdrawalRequest: duplicate check plus unique index).
DebitedOnce ==
    debits = IF row = NoRow \/ type = "DEPOSIT" THEN 0 ELSE 1

\* An external transaction shown as COMPLETED has its completion event in the
\* outbox, even if the service crashed in between: markSettlement enqueues the
\* event in the transaction that changes the status.
ExternalCompletionAnnounced ==
    IsExternal /\ row # NoRow /\ row.status = "COMPLETED" => "completed" \in events

\* Once a withdrawal has been refunded, nobody decides to refund it: it is
\* refunded again only by a handler's rollback or a markSettlement transaction
\* that had looked for the reversal entry before the first refund and was then
\* waiting for the wallet (rollbackWithdrawalDebitUsingManager looks before it
\* locks the wallet, and the handler's rollback does not lock the row).
SecondRefundOverlapped ==
    [][type = "WITHDRAWAL" /\ credits > 0
         => /\ \A r \in Requests : req'[r].pc = "refund" => req[r].pc = "refund"
            /\ mark'.credits => mark.credits
            /\ credits' > credits =>
                 \/ \E r \in Requests : req[r].pc = "refund" /\ req'[r].pc # "refund"
                 \/ mark.credits /\ mark' = NoMark]_vars

-----------------------------------------------------------------------------
(* Liveness.  The services' event loops keep running (weak fairness of every *)
(* step that is theirs); the partner decides; a call that is repeated for    *)
(* ever gets through once, and a poll repeated for ever sees the decision    *)
(* (strong fairness).  Requests, timeouts and crashes are not fair.          *)

RequestProgress(r) ==
    \/ PersistNew(r) \/ PersistDuplicate(r) \/ Submit(r) \/ SubmitAnswered(r)
    \/ SubmitFailed(r) \/ RollbackCheck(r) \/ RollbackRefund(r)
    \/ SaveSimulatedFailure(r) \/ AnchorToChain(r) \/ TouchInternal(r) \/ Enqueue(r)
    \/ RefreshReceipt(r)

PollDecides(j) == CheckSave(j) /\ transfer'.status # "SUBMITTED" /\ UNCHANGED txVars

Fairness ==
    /\ \A r \in Requests : WF_vars(RequestProgress(r))
    /\ \A j \in Jobs :
          /\ WF_vars(ListCandidate(j)) /\ WF_vars(CheckTransfer(j))
          /\ SF_vars(CheckAnswered(j))
          /\ WF_vars(CheckSave(j) /\ UNCHANGED txVars) /\ SF_vars(PollDecides(j))
    /\ \A w \in Workers : WF_vars(WorkerStep(w))
    /\ \A s \in FinalSettlement : SF_vars(Mark(s))
    /\ WF_vars(MarkSettlement)
    /\ WF_vars(BecomesDue)

FairSpec == Spec /\ Fairness

\* Every external transaction that was persisted is finalised for good, even
\* when its handler crashed before or during the submission: the settlement
\* cycle fails a transaction that has no reference and polls one that has.
EventuallySettled ==
    <>[](IsExternal /\ row # NoRow => row.settlement \in FinalSettlement)

\* With a retry limit, the chain worker does not leave a transaction that is
\* not FAILED waiting for its anchor for ever.
EventuallyAnchoredOrGivenUp ==
    <>[](row # NoRow /\ row.status # "FAILED" => row.chain # "PENDING")

\* A failed withdrawal is refunded in the end, whether the submission, the
\* settlement or the simulation failed it, unless a handler stopped between the
\* save of the FAILED row and the refund: then the row is no candidate any more
\* (submitOutsideTransfer saves before rollbackWithdrawalDebit, whose error
\* reaches the client only).
FailedWithdrawalIsRefunded ==
    <>[](/\ ~stranded /\ type = "WITHDRAWAL"
         /\ row # NoRow /\ row.status = "FAILED"
         => credits >= 1)

=============================================================================
