----------------------- MODULE TransferLifecycle_proofs -----------------------
(***************************************************************************)
(* Type correctness and the safety of TransferLifecycle (deposits, debits, *)
(* refunds, completion events), for any number of requests, settlement     *)
(* cycles, chain workers and crashes.                                      *)
(***************************************************************************)
EXTENDS TransferLifecycle, TLAPS

-----------------------------------------------------------------------------
(* What the handlers may rely on besides the types: who holds a copy.       *)

HandlerPC == ReqPC \ {"new", "persist", "done"}

ReqOK ==
    /\ req \in [Requests -> [pc : ReqPC, tx : Copy, simulate : BOOLEAN]]
    /\ \A r \in Requests : req[r].pc \in HandlerPC => req[r].tx \in TransactionEntity

\* Everything but the handlers.
RestOK ==
    /\ OPTypeOK /\ type \in Types /\ row \in Copy
    /\ debits \in Nat /\ credits \in Nat /\ events \subseteq Events
    /\ job \in [Jobs -> JobPC] /\ sent \subseteq FinalSettlement /\ mark \in Marks
    /\ worker \in [Workers -> [pc : WorkerPC, tx : Copy, new : SUBSET Events]]
    /\ faults \in 0..MaxFaults /\ stranded \in BOOLEAN
    /\ \A w \in Workers : worker[w].pc = "calling" => worker[w].tx \in TransactionEntity
    /\ \A w \in Workers : worker[w].pc = "claimed" => row \in TransactionEntity
    /\ \A j \in Jobs : poll[j] = "read" => transfer \in TransferRow
    /\ \A j \in Jobs : job[j] # "idle" => row \in TransactionEntity
    /\ sent # {} \/ ~Unlocked => row \in TransactionEntity

TypeInv == ReqOK /\ RestOK

USE DEF Requests, Jobs, settlementVars

-----------------------------------------------------------------------------
(* Operators on entities and statuses. *)

\* Every column update yields an entity again.
LEMMA EntityUpdates ==
    ASSUME NEW tx \in TransactionEntity
    PROVE  /\ MarkChainPending(tx) \in TransactionEntity
           /\ ReconcileBusinessStatus(tx) \in TransactionEntity
           /\ GiveUpChain(tx) \in TransactionEntity
           /\ FailedCopy(tx) \in TransactionEntity
           /\ [tx EXCEPT !.ref = TRUE] \in TransactionEntity
           /\ [tx EXCEPT !.due = TRUE] \in TransactionEntity
           /\ [tx EXCEPT !.due = FALSE] \in TransactionEntity
           /\ EventOf(tx) \in Events
<1>1. tx.retry + 1 \in Nat
  BY DEF TransactionEntity
<1>2. MarkChainPending(tx) \in TransactionEntity
  BY <1>1 DEF MarkChainPending, TransactionEntity, ChainStatus
<1>3. ReconcileBusinessStatus(tx) \in TransactionEntity
  BY DEF ReconcileBusinessStatus, TransactionEntity, TransactionStatus
<1>4. GiveUpChain(tx) \in TransactionEntity
  BY DEF GiveUpChain, TransactionEntity, ChainStatus
<1>5. FailedCopy(tx) \in TransactionEntity
  BY DEF FailedCopy, TransactionEntity, TransactionStatus, SettlementStatus
<1>6. /\ [tx EXCEPT !.ref = TRUE] \in TransactionEntity
      /\ [tx EXCEPT !.due = TRUE] \in TransactionEntity
      /\ [tx EXCEPT !.due = FALSE] \in TransactionEntity
  BY DEF TransactionEntity
<1>7. EventOf(tx) \in Events
  BY DEF EventOf, Events, TransactionEntity, TransactionStatus
<1> QED BY <1>2, <1>3, <1>4, <1>5, <1>6, <1>7

\* Within the bound on the attempts the answers are those of the chain service.
LEMMA ResultsAreAnswers ==
    ASSUME NEW tx, NEW result \in ResultsFor(tx)
    PROVE  result \in ChainResults
BY DEF ResultsFor, ChainResults

\* The result of a chain call yields an entity again.
LEMMA ChainResultUpdates ==
    ASSUME NEW tx \in TransactionEntity, NEW result \in ChainResults
    PROVE  ApplyChainResult(tx, result) \in TransactionEntity
<1> DEFINE anchored == [tx EXCEPT !.chain = "ANCHORED", !.retry = 0, !.due = TRUE]
           failed == [tx EXCEPT !.chain = "FAILED", !.due = TRUE]
<1>a. anchored \in TransactionEntity
  BY DEF TransactionEntity, ChainStatus
<1>b. failed \in TransactionEntity
  BY DEF TransactionEntity, ChainStatus
<1>1. anchored \in TransactionEntity /\ failed \in TransactionEntity
  BY <1>a, <1>b
<1>2. ReconcileBusinessStatus(anchored) \in TransactionEntity
  BY <1>1, EntityUpdates
<1>3. CASE result = "ANCHORED"
  BY <1>2, <1>3 DEF ApplyChainResult
<1>4. CASE result = "FAILED"
  BY <1>1, <1>4 DEF ApplyChainResult
<1>5. CASE result \in {"PENDING", "OTHER", "ERROR"}
  BY <1>5, EntityUpdates DEF ApplyChainResult
<1> QED BY <1>3, <1>4, <1>5 DEF ChainResults

\* The row markSettlement writes is an entity.
LEMMA MarkedRow ==
    ASSUME NEW s \in FinalSettlement, row \in TransactionEntity
    PROVE  Marked(s) \in TransactionEntity
BY DEF Marked, TransactionEntity, FinalSettlement, SettlementStatus, TransactionStatus

\* The row a persist creates is an entity.
LEMMA CreatedRowIsEntity == CreatedRow \in TransactionEntity
BY DEF CreatedRow, TransactionEntity, TransactionStatus, SettlementStatus, ChainStatus

\* An entity is not the absent row.
LEMMA NoRowIsNoEntity == NoRow \notin TransactionEntity
BY DEF NoRow, TransactionEntity, TransactionStatus

-----------------------------------------------------------------------------
(* Type correctness. *)

\* The handlers' part of the invariant is preserved by every move of a handler
\* that keeps a copy when it needs one.
LEMMA GotoOK ==
    ASSUME ReqOK, NEW r \in Requests, NEW pc \in ReqPC, NEW tx \in Copy,
           pc \in HandlerPC => tx \in TransactionEntity,
           Goto(r, pc, tx)
    PROVE  ReqOK'
<1>1. req' \in [Requests -> [pc : ReqPC, tx : Copy, simulate : BOOLEAN]]
  BY ZenonT(60) DEF ReqOK, Goto
<1>2. ASSUME NEW q \in Requests, req'[q].pc \in HandlerPC
      PROVE  req'[q].tx \in TransactionEntity
  <2>1. CASE q = r
    BY <1>2, <2>1 DEF ReqOK, Goto
  <2>2. CASE q # r
    BY <1>2, <2>2 DEF ReqOK, Goto
  <2> QED BY <2>1, <2>2
<1> QED BY <1>1, <1>2 DEF ReqOK

\* A handler that ends keeps nothing.
LEMMA FinishOK ==
    ASSUME ReqOK, NEW r \in Requests, Finish(r)
    PROVE  ReqOK'
<1>1. Done \in [pc : ReqPC, tx : Copy, simulate : BOOLEAN] /\ Done.pc \notin HandlerPC
  BY DEF Done, ReqPC, Copy, HandlerPC
<1>2. req' \in [Requests -> [pc : ReqPC, tx : Copy, simulate : BOOLEAN]]
  BY <1>1 DEF ReqOK, Finish
<1>3. ASSUME NEW q \in Requests, req'[q].pc \in HandlerPC
      PROVE  req'[q].tx \in TransactionEntity
  BY <1>1, <1>3 DEF ReqOK, Finish
<1> QED BY <1>2, <1>3 DEF ReqOK

\* The invariant of the types is stronger than TypeOK.
LEMMA TypeInvImpliesTypeOK == TypeInv => TypeOK
BY DEF TypeInv, TypeOK, ReqOK, RestOK

\* A step that only writes the row, the ledger and the outbox keeps the rest
\* well typed if it writes an entity.
LEMMA WriteOK ==
    ASSUME RestOK, row' \in TransactionEntity \/ row' = row,
           debits' \in Nat, credits' \in Nat, events' \subseteq Events,
           faults' \in 0..MaxFaults, stranded' \in BOOLEAN,
           UNCHANGED <<opVars, type, settlementVars, worker>>
    PROVE  RestOK'
BY DEF RestOK, OPTypeOK, opVars, Copy, Unlocked

\* Every step of a request handler.
LEMMA RequestTypes ==
    ASSUME TypeInv, NEW r \in Requests, RequestStep(r)
    PROVE  TypeInv'
<1>0. ReqOK /\ RestOK /\ req[r].pc \in ReqPC /\ req[r].tx \in Copy
  BY DEF TypeInv, ReqOK
<1>n. /\ debits \in Nat /\ credits \in Nat /\ events \subseteq Events
      /\ faults \in 0..MaxFaults /\ stranded \in BOOLEAN
  BY <1>0 DEF RestOK
<1>h. req[r].pc \in HandlerPC => req[r].tx \in TransactionEntity
  BY <1>0 DEF ReqOK
<1>p. AfterPersist(r) \in HandlerPC
  BY DEF AfterPersist, HandlerPC, ReqPC
<1>k. \A tx : AfterSubmission(tx) \in HandlerPC
  BY DEF AfterSubmission, HandlerPC, ReqPC
<1>c. TransactionEntity \subseteq Copy /\ NoRow \in Copy /\ HandlerPC \subseteq ReqPC
  BY DEF Copy, HandlerPC
<1>q. /\ {"submit", "await", "rollback", "refund", "saveFailed", "anchor", "touch", "enqueue",
          "refresh"} \subseteq HandlerPC
      /\ "persist" \in ReqPC /\ "persist" \notin HandlerPC
  BY DEF HandlerPC, ReqPC
<1>1. CASE Receive(r)
  <2>1. ReqOK'
    BY <1>0, <1>1, <1>c, <1>q, GotoOK, FinishOK DEF Receive
  <2> QED BY <2>1, <1>0, <1>n, <1>1, WriteOK DEF Receive, TypeInv
<1>2. CASE PersistNew(r)
  <2>1. row' \in TransactionEntity
    BY <1>2, CreatedRowIsEntity DEF PersistNew
  <2>2. ReqOK'
    BY <1>0, <1>2, <1>p, <1>c, <2>1, GotoOK DEF PersistNew
  <2>3. debits' \in Nat /\ credits' \in Nat
    BY <1>n, <1>2 DEF PersistNew
  <2> QED BY <2>1, <2>2, <2>3, <1>0, <1>n, <1>2, WriteOK DEF PersistNew, TypeInv
<1>3. CASE PersistDuplicate(r)
  <2>1. row \in TransactionEntity
    BY <1>0, <1>3 DEF PersistDuplicate, RestOK, Copy
  <2>2. ReqOK'
    BY <1>0, <1>3, <1>p, <1>c, <2>1, GotoOK DEF PersistDuplicate
  <2> QED BY <2>2, <1>0, <1>n, <1>3, WriteOK DEF PersistDuplicate, TypeInv
<1>4. CASE PersistRejected(r)
  <2>1. ReqOK'
    BY <1>0, <1>4, FinishOK DEF PersistRejected
  <2> QED BY <2>1, <1>0, <1>n, <1>4, WriteOK DEF PersistRejected, TypeInv
<1>5. CASE Submit(r)
  <2>1. ReqOK'
    BY <1>0, <1>h, <1>q, <1>c, <1>5, GotoOK DEF Submit
  <2>2. call' \in [Calls -> CallState]
    BY <1>0, <1>5 DEF Submit, RestOK, OPTypeOK, CallState
  <2> QED BY <2>1, <2>2, <1>0, <1>5 DEF Submit, RestOK, OPTypeOK, Unlocked, TypeInv
<1>s. ASSUME NEW tx \in TransactionEntity, SaveSubmission(r, tx)
      PROVE  TypeInv'
  <2>1. ReqOK'
    BY <1>0, <1>s, <1>k, <1>c, GotoOK DEF SaveSubmission
  <2> QED BY <2>1, <1>0, <1>n, <1>s, WriteOK DEF SaveSubmission, TypeInv
<1>6. CASE SubmitAnswered(r)
  <2>1. req[r].tx \in TransactionEntity
    BY <1>6, <1>h, <1>q DEF SubmitAnswered
  <2> DEFINE tx == [req[r].tx EXCEPT !.ref = TRUE]
  <2>2. tx \in TransactionEntity /\ FailedCopy(tx) \in TransactionEntity
    BY <2>1, EntityUpdates
  <2> QED BY <2>2, <1>6, <1>s DEF SubmitAnswered
<1>7. CASE SubmitFailed(r)
  <2>1. FailedCopy(req[r].tx) \in TransactionEntity
    BY <1>7, <1>h, <1>q, EntityUpdates DEF SubmitFailed
  <2> QED BY <2>1, <1>7, <1>s DEF SubmitFailed
<1>8. CASE RollbackCheck(r)
  <2>1. req[r].tx \in TransactionEntity
    BY <1>8, <1>h, <1>q DEF RollbackCheck
  <2>2. PICK pc \in {"refund", "saveFailed", "anchor"} : Goto(r, pc, req[r].tx)
    BY <1>8, <1>n DEF RollbackCheck
  <2>3. ReqOK'
    BY <1>0, <2>1, <2>2, <1>q, <1>c, GotoOK
  <2> QED BY <2>3, <1>0, <1>n, <1>8, WriteOK DEF RollbackCheck, TypeInv
<1>9. CASE RollbackRefund(r)
  <2>1. req[r].tx \in TransactionEntity
    BY <1>9, <1>h, <1>q DEF RollbackRefund
  <2>2. ReqOK'
    BY <1>0, <2>1, <1>9, <1>q, <1>c, GotoOK DEF RollbackRefund
  <2>3. credits' \in Nat
    BY <1>n, <1>9 DEF RollbackRefund
  <2> QED BY <2>2, <2>3, <1>0, <1>n, <1>9, WriteOK DEF RollbackRefund, TypeInv
<1>10. CASE SaveSimulatedFailure(r)
  <2>1. row' \in TransactionEntity
    BY <1>10, <1>h, <1>q, EntityUpdates DEF SaveSimulatedFailure
  <2>2. ReqOK'
    BY <1>0, <2>1, <1>10, <1>q, <1>c, GotoOK DEF SaveSimulatedFailure
  <2> QED BY <2>1, <2>2, <1>0, <1>n, <1>10, WriteOK DEF SaveSimulatedFailure, TypeInv
<1>11. CASE AnchorToChain(r)
  <2>1. req[r].tx \in TransactionEntity
    BY <1>11, <1>h, <1>q DEF AnchorToChain
  <2>2. row' \in TransactionEntity
    BY <2>1, <1>11, ResultsAreAnswers, ChainResultUpdates DEF AnchorToChain
  <2>3. ReqOK'
    BY <1>0, <2>2, <1>11, <1>q, <1>c, GotoOK DEF AnchorToChain
  <2> QED BY <2>2, <2>3, <1>0, <1>n, <1>11, WriteOK DEF AnchorToChain, TypeInv
<1>12. CASE TouchInternal(r)
  <2>1. req[r].tx \in TransactionEntity /\ [req[r].tx EXCEPT !.due = TRUE] \in TransactionEntity
    BY <1>12, <1>h, <1>q, EntityUpdates DEF TouchInternal
  <2>2. ReqOK'
    BY <1>0, <2>1, <1>12, <1>q, <1>c, GotoOK DEF TouchInternal
  <2> QED BY <2>1, <2>2, <1>0, <1>n, <1>12, WriteOK DEF TouchInternal, TypeInv
<1>13. CASE Enqueue(r)
  <2>1. EventOf(req[r].tx) \in Events
    BY <1>13, <1>h, <1>q, EntityUpdates DEF Enqueue
  <2>2. ReqOK'
    BY <1>0, <1>13, FinishOK DEF Enqueue
  <2> QED BY <2>1, <2>2, <1>0, <1>n, <1>13, WriteOK DEF Enqueue, TypeInv
<1>14. CASE GetTransaction(r)
  <2>1. row \in TransactionEntity
    BY <1>0, <1>14 DEF GetTransaction, RestOK, Copy
  <2>2. ReqOK'
    BY <1>0, <1>14, <1>q, <1>c, <2>1, GotoOK DEF GetTransaction
  <2> QED BY <2>2, <1>0, <1>n, <1>14, WriteOK DEF GetTransaction, TypeInv
<1>15. CASE RefreshReceipt(r)
  <2>1. req[r].tx \in TransactionEntity
    BY <1>15, <1>h, <1>q DEF RefreshReceipt
  <2>2. ReqOK'
    BY <1>0, <1>15, FinishOK DEF RefreshReceipt
  <2> QED BY <2>1, <2>2, <1>0, <1>n, <1>15, WriteOK DEF RefreshReceipt, TypeInv
<1>16. CASE RequestFails(r)
  <2>1. ReqOK'
    BY <1>0, <1>16, FinishOK DEF RequestFails
  <2>2. faults' \in 0..MaxFaults
    BY <1>n, <1>16, BoundsAssumption DEF RequestFails, Fault
  <2>3. stranded' \in BOOLEAN
    BY <1>16 DEF RequestFails, Strand
  <2> QED BY <2>1, <2>2, <2>3, <1>0, <1>n, <1>16, WriteOK DEF RequestFails, TypeInv
<1> QED
  BY <1>1, <1>2, <1>3, <1>4, <1>5, <1>6, <1>7, <1>8, <1>9, <1>10, <1>11, <1>12, <1>13,
     <1>14, <1>15, <1>16
  DEF RequestStep

\* The steps of markSettlement: its look, its commit and its abort.
LEMMA MarkTypes ==
    ASSUME TypeInv,
           \/ \E s \in FinalSettlement : Mark(s) \/ MarkLost(s)
           \/ MarkSettlement \/ MarkAborts
    PROVE  TypeInv'
<1>0. ReqOK /\ RestOK
  BY DEF TypeInv
<1>r. req' = req => ReqOK'
  BY <1>0 DEF ReqOK
<1>1. ASSUME NEW s \in FinalSettlement, Mark(s) PROVE TypeInv'
  <2>1. row \in TransactionEntity /\ sent' \subseteq FinalSettlement
    BY <1>0, <1>1 DEF Mark, RestOK
  <2>2. SettlementCredits(s) \in BOOLEAN
    BY DEF SettlementCredits
  <2>3. mark' \in Marks
    BY <1>1, <2>2 DEF Mark, BeginMark, Marks
  <2> QED BY <2>1, <2>3, <1>0, <1>r, <1>1 DEF Mark, RestOK, OPTypeOK, opVars, TypeInv
<1>2. ASSUME NEW s \in FinalSettlement, MarkLost(s) PROVE TypeInv'
  BY <1>0, <1>r, <1>2 DEF MarkLost, RestOK, OPTypeOK, opVars, Unlocked, TypeInv
<1>3. CASE MarkSettlement
  <2>1. row \in TransactionEntity /\ mark.settlement \in FinalSettlement
    BY <1>0, <1>3 DEF MarkSettlement, RestOK, Marks, Unlocked
  <2>2. row' \in TransactionEntity
    BY <2>1, <1>3, MarkedRow DEF MarkSettlement
  <2>3. credits' \in Nat
    BY <1>0, <1>3 DEF MarkSettlement, RestOK
  <2>4. events' \subseteq Events
    BY <1>0, <1>3, <2>2, EntityUpdates DEF MarkSettlement, RestOK
  <2>5. mark' \in Marks
    BY <1>3 DEF MarkSettlement, Marks
  <2> QED BY <2>2, <2>3, <2>4, <2>5, <1>0, <1>r, <1>3
          DEF MarkSettlement, RestOK, OPTypeOK, opVars, Copy, TypeInv
<1>4. CASE MarkAborts
  <2>1. faults' \in 0..MaxFaults
    BY <1>0, <1>4, BoundsAssumption DEF MarkAborts, Fault, RestOK
  <2>2. row \in TransactionEntity /\ mark' \in Marks
    BY <1>0, <1>4 DEF MarkAborts, RestOK, Marks
  <2> QED BY <2>1, <2>2, <1>0, <1>r, <1>4 DEF MarkAborts, RestOK, OPTypeOK, opVars, TypeInv
<1> QED BY <1>1, <1>2, <1>3, <1>4

\* Every step of a settlement cycle.
LEMMA JobTypes ==
    ASSUME TypeInv, NEW j \in Jobs, JobStep(j)
    PROVE  TypeInv'
<1>0. ReqOK /\ RestOK
  BY DEF TypeInv
<1>r. req' = req => ReqOK'
  BY <1>0 DEF ReqOK
<1>1. CASE ListCandidate(j)
  <2>1. row \in TransactionEntity
    BY <1>0, <1>1 DEF ListCandidate, IsCandidate, RestOK, Copy
  <2>2. job' \in [Jobs -> JobPC] /\ sent' \subseteq FinalSettlement
    BY <1>0, <1>1 DEF ListCandidate, RestOK, JobPC, FinalSettlement
  <2> QED BY <2>1, <2>2, <1>0, <1>r, <1>1 DEF ListCandidate, RestOK, OPTypeOK, opVars, TypeInv
<1>2. CASE CheckTransfer(j)
  <2>1. row \in TransactionEntity
    BY <1>0, <1>2 DEF CheckTransfer, RestOK
  <2>2. transfer \in TransferRow
    BY <1>0, <1>2 DEF CheckTransfer, CheckRead, RestOK, OPTypeOK
  <2>3. job' \in [Jobs -> JobPC] /\ poll' \in [Polls -> PollState]
    BY <1>0, <1>2, <2>2
    DEF CheckTransfer, CheckRead, RestOK, OPTypeOK, JobPC, PollState, Answer, TransferRow,
        TransferStatus
  <2> QED BY <2>1, <2>2, <2>3, <1>0, <1>r, <1>2
          DEF CheckTransfer, CheckRead, RestOK, OPTypeOK, TypeInv
<1>3. CASE CheckAnswered(j) \/ CheckTimeout(j)
  <2>1. row \in TransactionEntity
    BY <1>0, <1>3 DEF CheckAnswered, CheckTimeout, RestOK
  <2>2. /\ job' \in [Jobs -> JobPC] /\ poll' \in [Polls -> PollState]
        /\ \A p \in Polls : poll'[p] = "read" => poll[p] = "read"
    BY <1>0, <1>3 DEF CheckAnswered, CheckTimeout, RestOK, OPTypeOK, JobPC, PollState
  <2>3. sent' \subseteq FinalSettlement
    BY <1>0, <1>3 DEF CheckAnswered, CheckTimeout, RestOK, FinalSettlement
  <2> QED BY <2>1, <2>2, <2>3, <1>0, <1>r, <1>3
          DEF CheckAnswered, CheckTimeout, RestOK, OPTypeOK, TypeInv
<1> QED BY <1>1, <1>2, <1>3 DEF JobStep

\* Every step of a chain worker.
LEMMA WorkerTypes ==
    ASSUME TypeInv, NEW w \in Workers, WorkerStep(w)
    PROVE  TypeInv'
<1>0. ReqOK /\ RestOK
  BY DEF TypeInv
<1>r. req' = req => ReqOK'
  BY <1>0 DEF ReqOK
<1> DEFINE WorkerSet == [pc : WorkerPC, tx : Copy, new : SUBSET Events]
<1>i. IdleWorker \in WorkerSet /\ IdleWorker.pc = "idle"
  BY DEF IdleWorker, WorkerPC, Copy
<1>1. CASE Claim(w)
  <2>1. row \in TransactionEntity
    BY <1>0, <1>1 DEF Claim, RestOK, Copy
  <2>2. row' \in TransactionEntity
    BY <2>1, <1>1, EntityUpdates DEF Claim
  <2>3. worker' \in [Workers -> WorkerSet]
    BY <1>0, <1>1, SMTT(60) DEF Claim, RestOK, WorkerPC
  <2>4. \A v \in Workers : worker'[v].pc = "calling" => worker'[v].tx \in TransactionEntity
    BY <1>0, <1>1 DEF Claim, RestOK
  <2> QED BY <2>2, <2>3, <2>4, <1>0, <1>r, <1>1 DEF Claim, RestOK, OPTypeOK, opVars, Copy, TypeInv
<1>2. CASE Load(w)
  <2>1. row \in TransactionEntity
    BY <1>0, <1>2 DEF Load, RestOK
  <2>2. worker' \in [Workers -> WorkerSet]
    BY <1>0, <1>2, <1>i, <2>1 DEF Load, RestOK, WorkerPC, Copy
  <2>3. \A v \in Workers : worker'[v].pc = "calling" => worker'[v].tx \in TransactionEntity
    BY <1>0, <1>2, <1>i, <2>1, SMTT(60) DEF Load, RestOK
  <2> QED BY <2>1, <2>2, <2>3, <1>0, <1>r, <1>2 DEF Load, RestOK, OPTypeOK, opVars, TypeInv
<1>3. CASE ProcessResult(w)
  <2>1. worker[w].tx \in TransactionEntity
    BY <1>0, <1>3 DEF ProcessResult, RestOK
  <2>2. row' \in TransactionEntity
    <3>1. PICK result \in ResultsFor(worker[w].tx) :
             row' = ReconcileBusinessStatus(GiveUpChain(ApplyChainResult(worker[w].tx, result)))
      BY <1>3, ZenonT(60) DEF ProcessResult
    <3> QED BY <2>1, <3>1, ResultsAreAnswers, ChainResultUpdates, EntityUpdates
  <2>3. PICK next \in WorkerSet : next.pc \in {"idle", "event"} /\ worker' = [worker EXCEPT ![w] = next]
    BY <1>3, <1>i DEF ProcessResult, WorkerPC, Copy, Events
  <2>4. worker' \in [Workers -> WorkerSet]
    BY <1>0, <2>3 DEF RestOK
  <2>5. \A v \in Workers : worker'[v].pc = "calling" => worker'[v].tx \in TransactionEntity
    BY <1>0, <2>3 DEF RestOK
  <2> QED BY <2>2, <2>4, <2>5, <1>0, <1>r, <1>3 DEF ProcessResult, RestOK, OPTypeOK, opVars, Copy, TypeInv
<1>4. CASE WorkerEvent(w)
  <2>1. worker' \in [Workers -> WorkerSet] /\ worker[w] \in WorkerSet
    BY <1>0, <1>4, <1>i DEF WorkerEvent, RestOK
  <2>2. \A v \in Workers : worker'[v].pc = "calling" => worker'[v].tx \in TransactionEntity
    BY <1>0, <1>4, <1>i DEF WorkerEvent, RestOK
  <2>3. \A v \in Workers : worker'[v].pc = "claimed" => worker[v].pc = "claimed"
    BY <1>0, <1>4, <1>i DEF WorkerEvent, RestOK
  <2>4. events' \subseteq Events
    BY <1>0, <1>4, <2>1 DEF WorkerEvent, RestOK
  <2> QED BY <2>1, <2>2, <2>3, <2>4, <1>0, <1>r, <1>4 DEF WorkerEvent, RestOK, OPTypeOK, opVars, Unlocked, TypeInv
<1> QED BY <1>1, <1>2, <1>3, <1>4 DEF WorkerStep

\* Every step of the outside-payment service and of the partner.
LEMMA OutsideTypes ==
    ASSUME TypeInv, OutsideStep
    PROVE  TypeInv'
<1>0. ReqOK /\ RestOK /\ OPTypeOK
  BY DEF TypeInv, RestOK
<1>u. UNCHANGED txVars
  BY DEF OutsideStep
<1>s. ASSUME OPTypeOK', \A p \in Polls : poll'[p] = "read" => transfer' \in TransferRow
      PROVE  TypeInv'
  <2>1. ReqOK'
    BY <1>0, <1>u DEF ReqOK, txVars
  <2>2. RestOK'
    BY <1>0, <1>u, <1>s DEF RestOK, Unlocked, txVars
  <2> QED BY <2>1, <2>2 DEF TypeInv
<1>a. \A p \in Polls : poll[p] = "read" => transfer \in TransferRow
  BY <1>0 DEF RestOK
<1>1. ASSUME NEW c \in Calls, InitiateLookup(c)
      PROVE  TypeInv'
  <2>1. transfer # NoTransfer => Reply(transfer.status) \in CallState
    BY <1>0 DEF OPTypeOK, Reply, TransferRow, TransferStatus, CallState
  <2>2. call' \in [Calls -> CallState]
    BY <1>0, <1>1, <2>1 DEF InitiateLookup, OPTypeOK, CallState
  <2> QED BY <1>0, <1>1, <1>a, <1>s, <2>2 DEF InitiateLookup, OPTypeOK
<1>2. ASSUME NEW c \in Calls, PartnerAccepts(c) \/ PartnerFails(c) \/ PartnerDecides(c)
      PROVE  TypeInv'
  <2>1. call' \in [Calls -> CallState] /\ partner' \in [Calls -> PartnerState]
    BY <1>0, <1>2 DEF PartnerAccepts, PartnerFails, PartnerDecides, OPTypeOK, CallState, PartnerState
  <2> QED BY <1>0, <1>2, <1>a, <1>s, <2>1 DEF PartnerAccepts, PartnerFails, PartnerDecides, OPTypeOK
<1>3. ASSUME NEW c \in Calls, InitiateInsert(c)
      PROVE  TypeInv'
  <2>1. call' \in [Calls -> CallState]
    BY <1>0, <1>3 DEF InitiateInsert, OPTypeOK, CallState, Reply
  <2>2. transfer' \in TransferRow \/ transfer' = transfer
    BY <1>3 DEF InitiateInsert, TransferRow, TransferStatus
  <2> QED BY <1>0, <1>3, <1>a, <1>s, <2>1, <2>2 DEF InitiateInsert, OPTypeOK
<1>4. ASSUME NEW p \in Polls, CheckSave(p)
      PROVE  TypeInv'
  <2>1. transfer \in TransferRow
    BY <1>4, <1>a DEF CheckSave
  <2>2. transfer' \in TransferRow
    BY <1>4, <2>1 DEF CheckSave, TransferRow, TransferStatus
  <2>3. PICK s \in TransferStatus : poll' = [poll EXCEPT ![p] = Answer(s)]
    BY <1>4 DEF CheckSave, PolledStatus, TransferStatus
  <2>4. Answer(s) \in PollState
    BY <2>3 DEF Answer, PollState, TransferStatus
  <2>5. poll' \in [Polls -> PollState]
    BY <1>0, <2>3, <2>4 DEF OPTypeOK
  <2> QED BY <1>0, <1>4, <1>s, <2>2, <2>5 DEF CheckSave, OPTypeOK
<1> QED BY <1>1, <1>2, <1>3, <1>4 DEF OutsideStep, OPNext

\* The inductive type invariant holds initially ...
LEMMA TypeInvariantInit == ASSUME Init PROVE TypeInv
<1>1. PICK sim \in [Requests -> BOOLEAN] : req = [r \in Requests |-> NewRequest(sim[r])]
  BY DEF Init
<1>2. ReqOK
  BY <1>1 DEF ReqOK, NewRequest, ReqPC, Copy, HandlerPC
<1>3. OPTypeOK
  BY DEF Init, OPInit, OPTypeOK, CallState, PartnerState, PollState
<1>4. worker \in [Workers -> [pc : WorkerPC, tx : Copy, new : SUBSET Events]]
  BY DEF Init, IdleWorker, WorkerPC, Copy
<1>5. faults \in 0..MaxFaults /\ stranded \in BOOLEAN /\ mark \in Marks /\ Unlocked
  <2>1. faults = 0 /\ stranded = FALSE /\ mark = NoMark
    BY DEF Init
  <2>2. 0 \in 0..MaxFaults
    BY BoundsAssumption
  <2> QED BY <2>1, <2>2 DEF Marks, Unlocked
<1>6. RestOK
  BY <1>3, <1>4, <1>5
  DEF Init, OPInit, RestOK, Copy, JobPC, IdleWorker, Marks, Unlocked
<1> QED BY <1>2, <1>6 DEF TypeInv

\* ... is preserved by every step ...
LEMMA TypeInvariantStep ==
    ASSUME TypeInv, [Next]_vars
    PROVE  TypeInv'
<1>0. ReqOK /\ RestOK
  BY DEF TypeInv
<1>r. req' = req => ReqOK'
  BY <1>0 DEF ReqOK
<1>2. CASE BecomesDue
  <2>1. row' \in TransactionEntity
    BY <1>0, <1>2, EntityUpdates DEF BecomesDue, RestOK, Copy
  <2> QED BY <2>1, <1>0, <1>r, <1>2, WriteOK DEF BecomesDue, RestOK, TypeInv
<1>3. CASE Crash
  <2>1. Done \in [pc : ReqPC, tx : Copy, simulate : BOOLEAN] /\ Done.pc \notin HandlerPC
    BY DEF Done, ReqPC, Copy, HandlerPC
  <2>2. ReqOK'
    BY <1>0, <1>3, <2>1 DEF Crash, ReqOK
  <2>3. IdleWorker \in [pc : WorkerPC, tx : Copy, new : SUBSET Events] /\ IdleWorker.pc = "idle"
    BY DEF IdleWorker, WorkerPC, Copy
  <2>4. faults' \in 0..MaxFaults /\ stranded' \in BOOLEAN
    BY <1>0, <1>3, BoundsAssumption DEF Crash, Fault, Strand, RestOK
  <2>5. mark' = NoMark /\ NoMark \in Marks
    BY <1>3 DEF Crash, Marks
  <2> QED BY <2>2, <2>3, <2>4, <2>5, <1>0, <1>3
          DEF Crash, RestOK, OPTypeOK, opVars, Unlocked, TypeInv
<1>4. CASE UNCHANGED vars
  BY <1>0, <1>r, <1>4, WriteOK DEF vars, txVars, RestOK, TypeInv
<1> QED BY <1>2, <1>3, <1>4, RequestTypes, MarkTypes, JobTypes, WorkerTypes, OutsideTypes
        DEF Next

\* ... and so always holds, for any constants.
LEMMA TypeInvariant == Spec => []TypeInv
<1>1. Init => TypeInv
  BY TypeInvariantInit
<1>2. TypeInv /\ [Next]_vars => TypeInv'
  BY TypeInvariantStep
<1> QED BY <1>1, <1>2, PTL DEF Spec

\* Every state of the transaction, its handlers, settlement cycles and workers
\* has its type, for any number of them: no handler writes a column outside its
\* domain back into the transactions table.
THEOREM TypeCorrect == Spec => []TypeOK
BY TypeInvariant, TypeInvImpliesTypeOK, PTL

-----------------------------------------------------------------------------
(* Deposit safety.  Credits and statuses live in different rows and copies   *)
(* of the transaction travel through awaits, so the invariant speaks about   *)
(* every copy: one that shows money as arrived was taken after the credit.   *)

Arrived(tx) == tx.status = "COMPLETED" \/ tx.settlement = "SETTLED"

Credited(tx) == tx \in TransactionEntity /\ Arrived(tx) => credits = 1

\* The submission behind the external_transfers row was settled.
Backed == transfer \in TransferRow /\ partner[transfer.by] = "settled"

\* Some part of the system holds the partner's SETTLED.
SettledSeen ==
    \/ credits = 1
    \/ "SETTLED" \in sent \/ mark.settlement = "SETTLED"
    \/ \E j \in Jobs : poll[j] = "isSETTLED"
    \/ transfer \in TransferRow /\ transfer.status = "SETTLED"

Replied == {"replySUBMITTED", "replySETTLED", "replyFAILED", "replyERROR"}

\* A markSettlement transaction under way still finds what it saw: a deposit is
\* credited by nobody else.
LookHolds == ~Unlocked => (mark.credits <=> credits = 0 /\ mark.settlement = "SETTLED")

DepositInv ==
    /\ credits <= 1
    /\ LookHolds
    /\ Credited(row)
    /\ \A r \in Requests : /\ Credited(req[r].tx)
                           /\ ~req[r].simulate
                           /\ req[r].pc \notin {"rollback", "refund", "saveFailed"}
    /\ \A w \in Workers : Credited(worker[w].tx)
    /\ SettledSeen => Backed
    /\ transfer \in TransferRow => call[transfer.by] \in Replied

\* The inductive invariant: the type of a transaction never changes.
Inv == TypeInv /\ (type = "DEPOSIT" => DepositInv)

\* No update of an external transaction's entity makes the money arrive; a
\* failure takes it back.
LEMMA ArrivedUpdates ==
    ASSUME IsExternal, NEW tx \in TransactionEntity, NEW result \in ChainResults
    PROVE  /\ Arrived(ApplyChainResult(tx, result)) => Arrived(tx)
           /\ Arrived(GiveUpChain(tx)) => Arrived(tx)
           /\ Arrived(ReconcileBusinessStatus(tx)) => Arrived(tx)
           /\ ~Arrived(FailedCopy(tx))
           /\ Arrived([tx EXCEPT !.ref = TRUE]) => Arrived(tx)
           /\ Arrived([tx EXCEPT !.due = TRUE]) => Arrived(tx)
           /\ Arrived([tx EXCEPT !.due = FALSE]) => Arrived(tx)
<1>1. Arrived(ReconcileBusinessStatus(tx)) => Arrived(tx)
  BY DEF Arrived, ReconcileBusinessStatus, TransactionEntity
<1>2. Arrived(GiveUpChain(tx)) => Arrived(tx)
  BY DEF Arrived, GiveUpChain, TransactionEntity
<1>3. /\ ~Arrived(FailedCopy(tx))
      /\ Arrived([tx EXCEPT !.ref = TRUE]) => Arrived(tx)
      /\ Arrived([tx EXCEPT !.due = TRUE]) => Arrived(tx)
      /\ Arrived([tx EXCEPT !.due = FALSE]) => Arrived(tx)
  BY DEF Arrived, FailedCopy, TransactionEntity
<1>4. Arrived(ApplyChainResult(tx, result)) => Arrived(tx)
  <2>1. CASE result = "ANCHORED"
    <3> DEFINE anchored == [tx EXCEPT !.chain = "ANCHORED", !.retry = 0, !.due = TRUE]
    <3>1. Arrived(anchored) => Arrived(tx)
      BY DEF Arrived, TransactionEntity
    <3>2. Arrived(ReconcileBusinessStatus(anchored)) => Arrived(anchored)
      BY DEF Arrived, ReconcileBusinessStatus, TransactionEntity
    <3> QED BY <2>1, <3>1, <3>2 DEF ApplyChainResult
  <2>2. CASE result = "FAILED"
    BY <2>2 DEF ApplyChainResult, Arrived, TransactionEntity
  <2>3. CASE result \in {"PENDING", "OTHER", "ERROR"}
    BY <2>3 DEF ApplyChainResult, MarkChainPending, Arrived, TransactionEntity
  <2> QED BY <2>1, <2>2, <2>3 DEF ChainResults
<1> QED BY <1>1, <1>2, <1>3, <1>4

\* A handler moves on with an entity that shows no more than some credited one.
LEMMA GotoCredited ==
    ASSUME TypeInv, DepositInv, NEW r \in Requests,
           NEW pc \in ReqPC \ {"rollback", "refund", "saveFailed"}, NEW tx,
           Goto(r, pc, tx), credits' = credits,
           tx \in TransactionEntity /\ Arrived(tx) => credits = 1
    PROVE  \A q \in Requests : /\ Credited(req[q].tx)'
                              /\ ~req'[q].simulate
                              /\ req'[q].pc \notin {"rollback", "refund", "saveFailed"}
<1> SUFFICES ASSUME NEW q \in Requests
             PROVE  /\ Credited(req[q].tx)' /\ ~req'[q].simulate
                    /\ req'[q].pc \notin {"rollback", "refund", "saveFailed"}
  OBVIOUS
<1>1. req \in [Requests -> [pc : ReqPC, tx : Copy, simulate : BOOLEAN]]
  BY DEF TypeInv, ReqOK
<1>2. CASE q = r
  <2>1. req'[q].tx = tx /\ req'[q].pc = pc /\ req'[q].simulate = req[q].simulate
    BY <1>1, <1>2 DEF Goto
  <2> QED BY <2>1 DEF DepositInv, Credited
<1>3. CASE q # r
  <2>1. req'[q] = req[q]
    BY <1>1, <1>3 DEF Goto
  <2> QED BY <2>1 DEF DepositInv, Credited
<1> QED BY <1>2, <1>3

\* A step that leaves the payment side, the cycles and the workers alone.
LEMMA RequestCredited ==
    ASSUME TypeInv, DepositInv, credits' = credits, Credited(row)',
           \A q \in Requests : /\ Credited(req[q].tx)'
                              /\ ~req'[q].simulate
                              /\ req'[q].pc \notin {"rollback", "refund", "saveFailed"},
           UNCHANGED <<opVars, settlementVars, worker>>
    PROVE  DepositInv'
<1>1. \A w \in Workers : Credited(worker[w].tx)'
  BY DEF DepositInv, Credited
<1>2. (SettledSeen => Backed)'
  BY DEF DepositInv, SettledSeen, Backed, opVars
<1>3. (transfer \in TransferRow => call[transfer.by] \in Replied)'
  BY DEF DepositInv, opVars
<1> QED BY <1>1, <1>2, <1>3 DEF DepositInv, LookHolds, Unlocked

\* Request handlers never credit a deposit.
LEMMA RequestDeposit ==
    ASSUME TypeInv, type = "DEPOSIT", DepositInv, NEW r \in Requests, RequestStep(r)
    PROVE  DepositInv'
<1>e. IsExternal
  BY DEF IsExternal
<1>h. req[r].pc \in HandlerPC => req[r].tx \in TransactionEntity
  BY DEF TypeInv, ReqOK
<1>p. /\ req[r].pc \notin {"rollback", "refund", "saveFailed"} /\ ~req[r].simulate
      /\ Credited(req[r].tx) /\ Credited(row)
  BY DEF DepositInv
<1>q. req \in [Requests -> [pc : ReqPC, tx : Copy, simulate : BOOLEAN]] /\ row \in Copy
  BY DEF TypeInv, ReqOK, RestOK
<1> DEFINE Calm == \A q \in Requests : /\ Credited(req[q].tx)'
                                      /\ ~req'[q].simulate
                                      /\ req'[q].pc \notin {"rollback", "refund", "saveFailed"}
<1>f. ASSUME Finish(r), credits' = credits
      PROVE  Calm
  <2> SUFFICES ASSUME NEW q \in Requests
               PROVE  /\ Credited(req[q].tx)' /\ ~req'[q].simulate
                      /\ req'[q].pc \notin {"rollback", "refund", "saveFailed"}
    OBVIOUS
  <2>1. CASE q = r
    BY <1>f, <1>q, <2>1, NoRowIsNoEntity DEF Finish, Done, Credited
  <2>2. CASE q # r
    <3>1. req'[q] = req[q]
      BY <1>f, <1>q, <2>2 DEF Finish
    <3> QED BY <3>1, <1>f DEF DepositInv, Credited
  <2> QED BY <2>1, <2>2
<1>u. row' = row /\ credits' = credits => Credited(row)'
  BY <1>p DEF Credited
<1>1. CASE Receive(r)
  <2>1. Calm
    BY <1>1, <1>f, GotoCredited, NoRowIsNoEntity DEF Receive, ReqPC
  <2> QED BY <2>1, <1>1, <1>u, RequestCredited DEF Receive
<1>2. CASE PersistNew(r)
  <2>1. AfterPersist(r) = "submit"
    BY <1>p, <1>e DEF AfterPersist
  <2>2. row' = CreatedRow /\ ~Arrived(row')
    BY <1>2 DEF PersistNew, CreatedRow, Arrived, IsExternal
  <2>3. credits' = credits /\ Credited(row)'
    BY <1>2, <2>2 DEF PersistNew, Credited
  <2>4. Calm
    BY <1>2, <2>1, <2>2, <2>3, GotoCredited DEF PersistNew, ReqPC
  <2> QED BY <2>3, <2>4, <1>2, RequestCredited DEF PersistNew
<1>3. CASE PersistDuplicate(r)
  <2>1. AfterPersist(r) = "submit"
    BY <1>p, <1>e DEF AfterPersist
  <2>2. Calm
    BY <1>3, <2>1, <1>p, GotoCredited DEF PersistDuplicate, ReqPC, Credited
  <2> QED BY <2>2, <1>3, <1>u, RequestCredited DEF PersistDuplicate
<1>4. CASE PersistRejected(r)
  BY <1>4, <1>f, <1>u, RequestCredited DEF PersistRejected
<1>5. CASE Submit(r)
  <2>1. Calm
    BY <1>5, <1>p, GotoCredited DEF Submit, ReqPC, Credited
  <2>2. transfer \in TransferRow => call'[transfer.by] \in Replied
    <3> SUFFICES ASSUME transfer \in TransferRow
                 PROVE  call'[transfer.by] \in Replied
      OBVIOUS
    <3>1. call[transfer.by] \in Replied /\ call[r] \notin Replied /\ transfer.by \in Calls
      BY <1>5 DEF DepositInv, Submit, Replied, TransferRow
    <3> QED BY <3>1, <1>5 DEF Submit, TypeInv, RestOK, OPTypeOK
  <2>3. (SettledSeen => Backed)'
    BY <1>5 DEF Submit, DepositInv, SettledSeen, Backed
  <2>4. \A w \in Workers : Credited(worker[w].tx)'
    BY <1>5 DEF Submit, DepositInv, Credited
  <2> QED BY <2>1, <2>2, <2>3, <2>4, <1>5, <1>u DEF Submit, DepositInv, LookHolds, Unlocked
<1>s. ASSUME NEW tx \in TransactionEntity, Arrived(tx) => credits = 1, SaveSubmission(r, tx)
      PROVE  DepositInv'
  <2>1. AfterSubmission(tx) \in {"anchor", "enqueue"}
    BY DEF AfterSubmission
  <2>2. Calm
    BY <1>s, <2>1, GotoCredited DEF SaveSubmission, ReqPC
  <2>3. Credited(row)'
    BY <1>s DEF SaveSubmission, Credited
  <2> QED BY <2>2, <2>3, <1>s, RequestCredited DEF SaveSubmission
<1>6. CASE SubmitAnswered(r)
  <2>1. req[r].tx \in TransactionEntity
    BY <1>6, <1>h DEF SubmitAnswered, HandlerPC, ReqPC
  <2> DEFINE tx == [req[r].tx EXCEPT !.ref = TRUE]
  <2>2. /\ tx \in TransactionEntity /\ FailedCopy(tx) \in TransactionEntity
        /\ Arrived(tx) => credits = 1
        /\ ~Arrived(FailedCopy(tx))
    <3>1. tx \in TransactionEntity
      BY <2>1, EntityUpdates
    <3>2. \E result : result \in ChainResults
      BY DEF ChainResults
    <3> QED BY <3>1, <3>2, <2>1, <1>e, <1>p, EntityUpdates, ArrivedUpdates DEF Credited
  <2> QED BY <2>2, <1>6, <1>s DEF SubmitAnswered
<1>7. CASE SubmitFailed(r)
  <2>1. req[r].tx \in TransactionEntity
    BY <1>7, <1>h DEF SubmitFailed, HandlerPC, ReqPC
  <2>2. FailedCopy(req[r].tx) \in TransactionEntity /\ ~Arrived(FailedCopy(req[r].tx))
    <3>1. \E result : result \in ChainResults
      BY DEF ChainResults
    <3> QED BY <3>1, <2>1, <1>e, EntityUpdates, ArrivedUpdates
  <2> QED BY <2>2, <1>7, <1>s DEF SubmitFailed
<1>8. CASE RollbackCheck(r) \/ RollbackRefund(r) \/ SaveSimulatedFailure(r)
  BY <1>8, <1>p DEF RollbackCheck, RollbackRefund, SaveSimulatedFailure
<1>9. CASE AnchorToChain(r)
  <2>1. req[r].tx \in TransactionEntity
    BY <1>9, <1>h DEF AnchorToChain, HandlerPC, ReqPC
  <2>2. PICK result \in ChainResults : /\ row' = ApplyChainResult(req[r].tx, result)
                                       /\ Goto(r, "enqueue", row')
    BY <1>9, ResultsAreAnswers DEF AnchorToChain
  <2>3. credits' = credits /\ (Arrived(row') => credits = 1)
    BY <2>1, <2>2, <1>9, <1>e, <1>p, ArrivedUpdates DEF AnchorToChain, Credited
  <2>4. Calm
    BY <2>2, <2>3, GotoCredited DEF ReqPC
  <2>5. Credited(row)'
    BY <2>3 DEF Credited, Arrived
  <2> QED BY <2>3, <2>4, <2>5, <1>9, RequestCredited DEF AnchorToChain
<1>10. CASE TouchInternal(r)
  <2>1. req[r].tx \in TransactionEntity
    BY <1>10, <1>h DEF TouchInternal, HandlerPC, ReqPC
  <2> DEFINE tx == [req[r].tx EXCEPT !.due = TRUE]
  <2>2. Arrived(tx) => credits = 1
    <3>1. \E result : result \in ChainResults
      BY DEF ChainResults
    <3> QED BY <3>1, <2>1, <1>e, <1>p, ArrivedUpdates DEF Credited
  <2>3. Calm
    BY <2>1, <2>2, <1>10, <1>p, GotoCredited DEF TouchInternal, ReqPC, Credited
  <2>4. Credited(row)'
    BY <2>2, <1>10, <1>p DEF TouchInternal, Credited, Arrived
  <2> QED BY <2>3, <2>4, <1>10, RequestCredited DEF TouchInternal
<1>11. CASE Enqueue(r)
  BY <1>11, <1>f, <1>u, RequestCredited DEF Enqueue
<1>12. CASE GetTransaction(r)
  <2>1. Calm
    BY <1>12, <1>p, GotoCredited DEF GetTransaction, ReqPC, Credited
  <2> QED BY <2>1, <1>12, <1>u, RequestCredited DEF GetTransaction
<1>13. CASE RefreshReceipt(r)
  <2>1. Credited(row)'
    BY <1>13, <1>p DEF RefreshReceipt, Credited
  <2> QED BY <2>1, <1>13, <1>f, RequestCredited DEF RefreshReceipt
<1>14. CASE RequestFails(r)
  BY <1>14, <1>f, <1>u, RequestCredited DEF RequestFails
<1> QED BY <1>1, <1>2, <1>3, <1>4, <1>5, <1>6, <1>7, <1>8, <1>9, <1>10, <1>11, <1>12, <1>13,
           <1>14
        DEF RequestStep

\* markSettlement credits a deposit once, and only for the partner's SETTLED.
LEMMA MarkDeposit ==
    ASSUME TypeInv, type = "DEPOSIT", DepositInv,
           \/ \E s \in FinalSettlement : Mark(s) \/ MarkLost(s)
           \/ MarkSettlement \/ MarkAborts
    PROVE  DepositInv'
<1>0. /\ credits \in Nat /\ credits <= 1 /\ (SettledSeen => Backed)
      /\ mark \in Marks /\ (~Unlocked => row \in TransactionEntity)
  BY DEF TypeInv, RestOK, DepositInv
<1>b. UNCHANGED opVars => (Backed <=> Backed')
  BY DEF Backed, opVars
<1>s. ASSUME UNCHANGED <<opVars, req, worker, job>>, Credited(row)', credits' <= 1, LookHolds',
             credits = 1 => credits' = 1, SettledSeen' => Backed
      PROVE  DepositInv'
  <2>1. /\ \A r \in Requests : Credited(req[r].tx)'
        /\ \A w \in Workers : Credited(worker[w].tx)'
    BY <1>s DEF DepositInv, Credited
  <2> QED BY <2>1, <1>s, <1>b DEF DepositInv, opVars
<1>1. ASSUME NEW s \in FinalSettlement, Mark(s) PROVE DepositInv'
  <2>1. mark' = [settlement |-> s, credits |-> credits = 0 /\ s = "SETTLED"]
    BY <1>1 DEF Mark, BeginMark, SettlementCredits
  <2>2. LookHolds'
    BY <1>1, <2>1 DEF Mark, LookHolds
  <2>3. SettledSeen' => SettledSeen
    BY <1>1, <2>1 DEF Mark, SettledSeen, opVars
  <2>4. Credited(row)'
    BY <1>1 DEF Mark, DepositInv, Credited
  <2> QED BY <1>0, <1>1, <1>s, <2>2, <2>3, <2>4 DEF Mark
<1>2. ASSUME NEW s \in FinalSettlement, MarkLost(s) PROVE DepositInv'
  <2>1. LookHolds' /\ Credited(row)'
    BY <1>2 DEF MarkLost, DepositInv, LookHolds, Unlocked, Credited
  <2>2. SettledSeen' => SettledSeen
    BY <1>2 DEF MarkLost, SettledSeen, opVars
  <2> QED BY <1>0, <1>2, <1>s, <2>1, <2>2 DEF MarkLost
<1>3. CASE MarkSettlement
  <2>0. /\ row \in TransactionEntity /\ mark.settlement \in FinalSettlement
        /\ (mark.credits <=> credits = 0 /\ mark.settlement = "SETTLED")
    BY <1>0, <1>3 DEF MarkSettlement, DepositInv, LookHolds, Unlocked, Marks
  <2>1. /\ credits' <= 1 /\ (credits = 1 => credits' = 1)
        /\ mark.settlement = "SETTLED" => credits' = 1
        /\ credits' = 1 => credits = 1 \/ mark.settlement = "SETTLED"
    BY <1>0, <1>3, <2>0 DEF MarkSettlement
  <2>2. Arrived(row') => mark.settlement = "SETTLED"
    BY <1>3, <2>0 DEF MarkSettlement, Marked, Arrived, TransactionEntity
  <2>3. Credited(row)' /\ LookHolds'
    BY <1>3, <2>1, <2>2 DEF MarkSettlement, Credited, Arrived, LookHolds, Unlocked
  <2>4. SettledSeen' => SettledSeen
    BY <1>3, <2>1 DEF MarkSettlement, SettledSeen, opVars, NoMark
  <2> QED BY <1>0, <1>3, <1>s, <2>1, <2>3, <2>4 DEF MarkSettlement
<1>4. CASE MarkAborts
  <2>1. LookHolds' /\ Credited(row)'
    BY <1>4 DEF MarkAborts, DepositInv, LookHolds, Unlocked, Credited
  <2>2. SettledSeen' => SettledSeen
    BY <1>4 DEF MarkAborts, SettledSeen, opVars, NoMark
  <2> QED BY <1>0, <1>4, <1>s, <2>1, <2>2 DEF MarkAborts
<1> QED BY <1>1, <1>2, <1>3, <1>4

\* Settlement cycles.
LEMMA JobDeposit ==
    ASSUME TypeInv, type = "DEPOSIT", DepositInv, NEW j \in Jobs, JobStep(j)
    PROVE  DepositInv'
<1>t. /\ job \in [Jobs -> JobPC] /\ poll \in [Jobs -> PollState]
      /\ row \in Copy /\ transfer \in TransferRow \cup {NoTransfer}
  BY DEF TypeInv, RestOK, OPTypeOK
<1>s. ASSUME UNCHANGED <<credits, row, req, mark, worker, call, transfer, partner>>,
             SettledSeen' => SettledSeen
      PROVE  DepositInv'
  <2>1. /\ Credited(row)' /\ \A w \in Workers : Credited(worker[w].tx)'
        /\ \A r \in Requests : Credited(req[r].tx)'
    BY <1>s DEF DepositInv, Credited
  <2>2. (SettledSeen => Backed)'
    BY <1>s DEF DepositInv, Backed
  <2> QED BY <1>s, <2>1, <2>2 DEF DepositInv, LookHolds, Unlocked
<1>1. CASE ListCandidate(j)
  <2>1. "SETTLED" \in sent' => "SETTLED" \in sent
    BY <1>1 DEF ListCandidate
  <2> QED BY <2>1, <1>1, <1>s DEF ListCandidate, SettledSeen, opVars
<1>2. CASE CheckTransfer(j)
  <2>2. \A i \in Jobs : poll'[i] = "isSETTLED" =>
           poll[i] = "isSETTLED" \/ (transfer \in TransferRow /\ transfer.status = "SETTLED")
    <3>1. transfer \in TransferRow /\ transfer.status \in TransferStatus
      BY <1>2, <1>t DEF CheckTransfer, CheckRead, TransferRow
    <3> DEFINE x == IF transfer.status = "SUBMITTED" THEN "read" ELSE Answer(transfer.status)
    <3>2. poll' = [poll EXCEPT ![j] = x]
      BY <1>2 DEF CheckTransfer, CheckRead
    <3>3. x = "isSETTLED" => transfer.status = "SETTLED"
      BY <3>1 DEF Answer, TransferStatus
    <3> HIDE DEF x
    <3>4. poll'[j] = x /\ \A i \in Jobs \ {j} : poll'[i] = poll[i]
      BY <3>2, <1>t
    <3> QED BY <3>1, <3>3, <3>4
  <2> QED BY <2>2, <1>2, <1>s DEF CheckTransfer, CheckRead, SettledSeen
<1>3. CASE CheckAnswered(j) \/ CheckTimeout(j)
  <2>1. "SETTLED" \in sent' => "SETTLED" \in sent \/ poll[j] = "isSETTLED"
    BY <1>3, <1>t DEF CheckAnswered, CheckTimeout
  <2>2. \A i \in Jobs : poll'[i] = "isSETTLED" => poll[i] = "isSETTLED"
    BY <1>3, <1>t DEF CheckAnswered, CheckTimeout
  <2> QED BY <2>1, <2>2, <1>3, <1>s DEF CheckAnswered, CheckTimeout, SettledSeen
<1> QED BY <1>1, <1>2, <1>3 DEF JobStep

\* Chain workers: a copy shows the money as arrived only if it did before.
LEMMA WorkerDeposit ==
    ASSUME TypeInv, type = "DEPOSIT", DepositInv, NEW w \in Workers, WorkerStep(w)
    PROVE  DepositInv'
<1>e. IsExternal
  BY DEF IsExternal
<1>t. /\ worker \in [Workers -> [pc : WorkerPC, tx : Copy, new : SUBSET Events]]
      /\ row \in Copy
  BY DEF TypeInv, RestOK
<1>s. ASSUME UNCHANGED <<opVars, credits, req, settlementVars>>, Credited(row)',
             \A v \in Workers : Credited(worker[v].tx)'
      PROVE  DepositInv'
  <2>1. \A r \in Requests : Credited(req[r].tx)'
    BY <1>s DEF DepositInv, Credited
  <2>2. (SettledSeen => Backed)'
    BY <1>s DEF DepositInv, SettledSeen, Backed, opVars
  <2> QED BY <1>s, <2>1, <2>2 DEF DepositInv, LookHolds, Unlocked, opVars
<1>v. ASSUME credits' = credits, NEW x, worker' = [worker EXCEPT ![w] = x],
             x.tx \in TransactionEntity /\ Arrived(x.tx) => credits = 1
      PROVE  \A v \in Workers : Credited(worker[v].tx)'
  BY <1>t, <1>v DEF DepositInv, Credited
<1>i. IdleWorker.tx \notin TransactionEntity
  BY NoRowIsNoEntity DEF IdleWorker
<1>1. CASE Claim(w)
  <2>1. row \in TransactionEntity
    BY <1>t, <1>1 DEF Claim, Copy
  <2>2. Arrived(row') => Arrived(row)
    <3>1. \E result : result \in ChainResults
      BY DEF ChainResults
    <3> QED BY <3>1, <2>1, <1>1, <1>e, ArrivedUpdates DEF Claim
  <2>3. Credited(row)'
    BY <2>1, <2>2, <1>1 DEF Claim, DepositInv, Credited, Arrived
  <2>4. \A v \in Workers : Credited(worker[v].tx)'
    BY <1>t, <1>1 DEF Claim, DepositInv, Credited
  <2> QED BY <2>3, <2>4, <1>1, <1>s DEF Claim
<1>2. CASE Load(w)
  <2>1. Credited(row)'
    BY <1>2 DEF Load, DepositInv, Credited
  <2> DEFINE x == IF row.chain # "PENDING" \/ row.status = "FAILED" THEN IdleWorker
                  ELSE [pc |-> "calling", tx |-> row, new |-> {}]
  <2>2. worker' = [worker EXCEPT ![w] = x] /\ (x = IdleWorker \/ x.tx = row)
    BY <1>2 DEF Load
  <2>3. \A v \in Workers : Credited(worker[v].tx)'
    <3>1. x.tx \in TransactionEntity /\ Arrived(x.tx) => credits = 1
      BY <2>2, <1>i DEF DepositInv, Credited
    <3> QED BY <3>1, <2>2, <1>2, <1>v DEF Load
  <2> QED BY <2>1, <2>3, <1>2, <1>s DEF Load
<1>3. CASE ProcessResult(w)
  <2>1. worker[w].tx \in TransactionEntity /\ Credited(worker[w].tx)
    BY <1>3 DEF ProcessResult, TypeInv, RestOK, DepositInv
  <2>2. PICK result \in ChainResults :
           row' = ReconcileBusinessStatus(GiveUpChain(ApplyChainResult(worker[w].tx, result)))
    BY <1>3, ResultsAreAnswers, ZenonT(60) DEF ProcessResult
  <2>3. Arrived(row') => Arrived(worker[w].tx)
    BY <2>1, <2>2, <1>e, ArrivedUpdates, EntityUpdates, ChainResultUpdates
  <2>4. Credited(row)'
    BY <2>1, <2>3, <1>3 DEF ProcessResult, Credited, Arrived
  <2>5. PICK n : worker' = [worker EXCEPT ![w] =
                              IF n = {} THEN IdleWorker
                              ELSE [pc |-> "event", tx |-> NoRow, new |-> n]]
    BY <1>3, Zenon DEF ProcessResult
  <2> DEFINE x == IF n = {} THEN IdleWorker ELSE [pc |-> "event", tx |-> NoRow, new |-> n]
  <2>6. \A v \in Workers : Credited(worker[v].tx)'
    <3>1. x.tx = NoRow /\ worker' = [worker EXCEPT ![w] = x] /\ credits' = credits
      BY <2>5, <1>3 DEF IdleWorker, ProcessResult
    <3> HIDE DEF x
    <3> QED BY <3>1, <1>v, NoRowIsNoEntity
  <2> QED BY <2>4, <2>6, <1>3, <1>s DEF ProcessResult
<1>4. CASE WorkerEvent(w)
  <2>1. Credited(row)'
    BY <1>4 DEF WorkerEvent, DepositInv, Credited
  <2>2. \A v \in Workers : Credited(worker[v].tx)'
    BY <1>4, <1>i, <1>v DEF WorkerEvent
  <2> QED BY <2>1, <2>2, <1>4, <1>s DEF WorkerEvent
<1> QED BY <1>1, <1>2, <1>3, <1>4 DEF WorkerStep

\* The payment side: the row's submission stays the same, and is only SETTLED
\* once the partner settled it.
LEMMA OutsideDeposit ==
    ASSUME TypeInv, type = "DEPOSIT", DepositInv, OutsideStep
    PROVE  DepositInv'
<1>t. /\ call \in [Calls -> CallState] /\ partner \in [Calls -> PartnerState]
      /\ poll \in [Polls -> PollState] /\ transfer \in TransferRow \cup {NoTransfer}
  BY DEF TypeInv, RestOK, OPTypeOK
<1>u. UNCHANGED txVars
  BY DEF OutsideStep
<1>n. NoTransfer \notin TransferRow
  BY DEF NoTransfer, TransferRow, TransferStatus
<1>s. ASSUME SettledSeen' => Backed',
             transfer' \in TransferRow => call'[transfer'.by] \in Replied
      PROVE  DepositInv'
  <2>1. /\ Credited(row)' /\ \A w \in Workers : Credited(worker[w].tx)'
        /\ \A r \in Requests : Credited(req[r].tx)'
    BY <1>u DEF DepositInv, Credited, txVars
  <2> QED BY <1>s, <1>u, <2>1 DEF DepositInv, LookHolds, Unlocked, txVars
<1>c. ASSUME NEW c \in Calls, NEW s \in CallState, call' = [call EXCEPT ![c] = s],
             call[c] \notin Replied \/ s \in Replied, transfer' = transfer
      PROVE  transfer' \in TransferRow => call'[transfer'.by] \in Replied
  <2> SUFFICES ASSUME transfer \in TransferRow
               PROVE  call'[transfer.by] \in Replied
    BY <1>c
  <2>1. call[transfer.by] \in Replied /\ transfer.by \in Calls
    BY DEF DepositInv, TransferRow
  <2> QED BY <2>1, <1>c, <1>t
<1>r. \A s \in TransferStatus : Reply(s) \in Replied /\ Reply(s) \in CallState
  BY DEF Reply, TransferStatus, Replied, CallState
<1>1. ASSUME NEW c \in Calls, InitiateLookup(c) PROVE DepositInv'
  <2> DEFINE s == IF transfer = NoTransfer THEN "calling" ELSE Reply(transfer.status)
  <2>1. s \in CallState
    BY <1>t, <1>r DEF TransferRow, CallState
  <2>2. call' = [call EXCEPT ![c] = s] /\ call[c] \notin Replied
    BY <1>1 DEF InitiateLookup, Replied
  <2> HIDE DEF s
  <2>3. transfer' \in TransferRow => call'[transfer'.by] \in Replied
    BY <2>1, <2>2, <1>1, <1>c DEF InitiateLookup
  <2>4. SettledSeen' => Backed'
    BY <1>1, <1>u DEF InitiateLookup, DepositInv, SettledSeen, Backed, txVars
  <2> QED BY <2>3, <2>4, <1>s
<1>2. ASSUME NEW c \in Calls, PartnerAccepts(c) \/ PartnerFails(c) PROVE DepositInv'
  <2>1. transfer' \in TransferRow => call'[transfer'.by] \in Replied
    BY <1>2, <1>c DEF PartnerAccepts, PartnerFails, Replied, CallState
  <2>2. transfer \in TransferRow => partner'[transfer.by] = partner[transfer.by]
    <3> SUFFICES ASSUME transfer \in TransferRow
                 PROVE  partner'[transfer.by] = partner[transfer.by]
      OBVIOUS
    <3>1. call[transfer.by] \in Replied /\ call[c] \notin Replied /\ transfer.by \in Calls
      BY <1>2 DEF DepositInv, TransferRow, PartnerAccepts, PartnerFails, Replied
    <3> QED BY <3>1, <1>2, <1>t DEF PartnerAccepts, PartnerFails
  <2>3. SettledSeen' => SettledSeen
    BY <1>2, <1>u DEF PartnerAccepts, PartnerFails, SettledSeen, txVars
  <2>4. Backed => Backed'
    BY <1>2, <2>2 DEF PartnerAccepts, PartnerFails, Backed
  <2> QED BY <2>1, <2>3, <2>4, <1>s DEF DepositInv
<1>3. ASSUME NEW c \in Calls, InitiateInsert(c) PROVE DepositInv'
  <2> DEFINE s == IF call[c] = "insertSUBMITTED" THEN "SUBMITTED" ELSE "FAILED"
  <2>1. CASE transfer = NoTransfer
    <3>1. /\ transfer' = [status |-> s, by |-> c] /\ call' = [call EXCEPT ![c] = Reply(s)]
          /\ s \in TransferStatus /\ s # "SETTLED"
      BY <1>3, <2>1 DEF InitiateInsert, TransferStatus
    <3> HIDE DEF s
    <3>2. call'[transfer'.by] \in Replied
      BY <3>1, <1>t, <1>r
    <3>3. ~Backed
      BY <2>1, <1>n DEF Backed
    <3>4. SettledSeen' => SettledSeen
      BY <1>3, <3>1, <1>u DEF InitiateInsert, SettledSeen, txVars
    <3> QED BY <3>2, <3>3, <3>4, <1>s DEF DepositInv
  <2>2. CASE transfer # NoTransfer
    <3>1. call' = [call EXCEPT ![c] = "replyERROR"] /\ transfer' = transfer
      BY <1>3, <2>2 DEF InitiateInsert
    <3>2. transfer' \in TransferRow => call'[transfer'.by] \in Replied
      BY <3>1, <1>c DEF Replied, CallState
    <3>3. SettledSeen' => Backed'
      BY <3>1, <1>3, <1>u DEF InitiateInsert, DepositInv, SettledSeen, Backed, txVars
    <3> QED BY <3>2, <3>3, <1>s
  <2> QED BY <2>1, <2>2
<1>4. ASSUME NEW c \in Calls, PartnerDecides(c) PROVE DepositInv'
  <2>1. transfer' \in TransferRow => call'[transfer'.by] \in Replied
    BY <1>4 DEF PartnerDecides, DepositInv
  <2>2. SettledSeen' => SettledSeen
    BY <1>4, <1>u DEF PartnerDecides, SettledSeen, txVars
  <2>3. Backed => Backed'
    BY <1>4, <1>t DEF PartnerDecides, Backed, TransferRow
  <2> QED BY <2>1, <2>2, <2>3, <1>s DEF DepositInv
<1>5. ASSUME NEW p \in Polls, CheckSave(p) PROVE DepositInv'
  <2>1. PICK s \in PolledStatus :
           /\ poll' = [poll EXCEPT ![p] = Answer(s)]
           /\ transfer' = IF s \in {"SETTLED", "FAILED"}
                          THEN [transfer EXCEPT !.status = s] ELSE transfer
    BY <1>5 DEF CheckSave
  <2>2. transfer \in TransferRow
    BY <1>5 DEF CheckSave, TypeInv, RestOK
  <2>3. transfer' \in TransferRow /\ transfer'.by = transfer.by /\ UNCHANGED <<call, partner>>
    BY <2>1, <2>2, <1>5 DEF CheckSave, TransferRow, TransferStatus
  <2>4. CASE s = "SETTLED"
    <3>1. Backed'
      BY <2>3, <2>4 DEF Backed, PolledStatus
    <3> QED BY <3>1, <2>2, <2>3, <1>s DEF DepositInv
  <2>5. CASE s # "SETTLED"
    <3>1. s \in {"SUBMITTED", "FAILED"}
      BY <2>5 DEF PolledStatus
    <3>2. /\ Answer(s) # "isSETTLED"
          /\ transfer'.status = "SETTLED" => transfer.status = "SETTLED"
      BY <3>1, <2>1, <2>2 DEF Answer, TransferRow
    <3>3. \A i \in Polls : poll'[i] = "isSETTLED" => poll[i] = "isSETTLED"
      BY <3>2, <2>1, <1>t
    <3>4. SettledSeen' => SettledSeen
      BY <3>2, <3>3, <2>2, <2>3, <1>u DEF SettledSeen, txVars, Jobs
    <3>5. Backed => Backed'
      BY <2>3 DEF Backed
    <3> QED BY <3>4, <3>5, <2>2, <2>3, <1>s DEF DepositInv
  <2> QED BY <2>4, <2>5
<1> QED BY <1>1, <1>2, <1>3, <1>4, <1>5 DEF OutsideStep, OPNext

-----------------------------------------------------------------------------
\* A transaction keeps its type.
LEMMA TypeNeverChanges ==
    ASSUME [Next]_vars
    PROVE  type' = type
<1>1. ASSUME NEW r \in Requests, RequestStep(r) PROVE type' = type
  BY <1>1 DEF RequestStep, Receive, PersistNew, PersistDuplicate, PersistRejected, Submit,
     SubmitAnswered, SubmitFailed, SaveSubmission, RollbackCheck, RollbackRefund,
     SaveSimulatedFailure, AnchorToChain, TouchInternal, Enqueue, GetTransaction,
     RefreshReceipt, RequestFails
<1>2. ASSUME NEW j \in Jobs, JobStep(j) PROVE type' = type
  BY <1>2 DEF JobStep, ListCandidate, CheckTransfer, CheckAnswered, CheckTimeout
<1>3. ASSUME NEW w \in Workers, WorkerStep(w) PROVE type' = type
  BY <1>3 DEF WorkerStep, Claim, Load, ProcessResult, WorkerEvent
<1> QED BY <1>1, <1>2, <1>3
        DEF Next, Mark, MarkLost, MarkSettlement, MarkAborts, OutsideStep, BecomesDue, Crash,
            vars, txVars

\* The inductive invariant of the deposit argument.
LEMMA DepositInvariant == Spec => []Inv
<1>1. Init => Inv
  <2> SUFFICES ASSUME Init, type = "DEPOSIT", TypeInv PROVE DepositInv
    BY TypeInvariantInit DEF Inv
  <2>1. PICK sim \in [Requests -> {FALSE}] : req = [r \in Requests |-> NewRequest(sim[r])]
    BY DEF Init
  <2>2. \A r \in Requests : /\ req[r].tx = NoRow /\ ~req[r].simulate /\ req[r].pc = "new"
    BY <2>1 DEF NewRequest
  <2>3. \A w \in Workers : worker[w].tx = NoRow
    BY DEF Init, IdleWorker
  <2>4. transfer \notin TransferRow
    BY DEF Init, OPInit, NoTransfer, TransferRow, TransferStatus
  <2>5. ~SettledSeen
    BY <2>4 DEF Init, OPInit, SettledSeen, NoMark
  <2> QED BY <2>2, <2>3, <2>4, <2>5, NoRowIsNoEntity
          DEF Init, DepositInv, LookHolds, Unlocked, Credited
<1>2. Inv /\ [Next]_vars => Inv'
  <2> SUFFICES ASSUME Inv, [Next]_vars PROVE Inv'
    OBVIOUS
  <2>t. TypeInv' /\ type' = type
    BY TypeInvariantStep, TypeNeverChanges DEF Inv
  <2> SUFFICES ASSUME type = "DEPOSIT" PROVE DepositInv'
    BY <2>t DEF Inv
  <2>0. TypeInv /\ DepositInv
    BY DEF Inv
  <2>s. ASSUME UNCHANGED <<opVars, credits, job, sent>>, mark' \in {mark, NoMark}, Credited(row)',
               \A w \in Workers : Credited(worker[w].tx)',
               \A r \in Requests : /\ Credited(req[r].tx)' /\ ~req'[r].simulate
                                   /\ req'[r].pc \notin {"rollback", "refund", "saveFailed"}
        PROVE  DepositInv'
    <3>1. (SettledSeen => Backed)'
      BY <2>0, <2>s DEF DepositInv, SettledSeen, Backed, opVars, NoMark
    <3> QED BY <2>0, <2>s, <3>1 DEF DepositInv, LookHolds, Unlocked, opVars
  <2>2. CASE BecomesDue
    <3>1. row \in TransactionEntity
      BY <2>0, <2>2 DEF BecomesDue, TypeInv, RestOK, Copy
    <3>2. Arrived(row') => Arrived(row)
      <4>1. \E result : result \in ChainResults
        BY DEF ChainResults
      <4> QED BY <4>1, <3>1, <2>2, ArrivedUpdates DEF BecomesDue, IsExternal
    <3>3. Credited(row)'
      BY <2>0, <3>1, <3>2, <2>2 DEF BecomesDue, DepositInv, Credited, Arrived
    <3>4. /\ \A w \in Workers : Credited(worker[w].tx)'
          /\ \A r \in Requests : Credited(req[r].tx)'
      BY <2>0, <2>2 DEF BecomesDue, DepositInv, Credited
    <3> QED BY <2>0, <2>2, <2>s, <3>3, <3>4 DEF BecomesDue, DepositInv
  <2>3. CASE Crash
    <3>1. \A r \in Requests : req'[r] = req[r] \/ req'[r] = Done
      BY <2>3 DEF Crash
    <3>2. \A r \in Requests : /\ Credited(req[r].tx)' /\ ~req'[r].simulate
                              /\ req'[r].pc \notin {"rollback", "refund", "saveFailed"}
      BY <2>0, <2>3, <3>1, NoRowIsNoEntity DEF Crash, Done, DepositInv, Credited
    <3>3. \A w \in Workers : Credited(worker[w].tx)'
      BY <2>3, NoRowIsNoEntity DEF Crash, IdleWorker, Credited
    <3>4. Credited(row)'
      BY <2>0, <2>3 DEF Crash, DepositInv, Credited
    <3> QED BY <2>3, <2>s, <3>2, <3>3, <3>4 DEF Crash
  <2>4. CASE UNCHANGED vars
    <3>1. /\ \A w \in Workers : Credited(worker[w].tx)'
          /\ \A r \in Requests : Credited(req[r].tx)'
          /\ Credited(row)'
      BY <2>0, <2>4 DEF vars, txVars, DepositInv, Credited
    <3> QED BY <2>0, <2>4, <2>s, <3>1 DEF vars, txVars, DepositInv
  <2> QED BY <2>0, <2>2, <2>3, <2>4, RequestDeposit, MarkDeposit, JobDeposit, WorkerDeposit,
             OutsideDeposit DEF Next
<1> QED BY <1>1, <1>2, PTL DEF Spec

\* A deposit is credited at most once and only against the partner's settlement,
\* and is never shown as COMPLETED without the credit, for any number of duplicate
\* requests, settlement cycles, chain workers and crashes: markSettlement's credit
\* check under the row lock suffices although it ignores the status the row has.
THEOREM DepositSafe == Spec => []DepositSafety
<1>1. Inv => DepositSafety
  <2> SUFFICES ASSUME Inv, type = "DEPOSIT" PROVE DepositSafety
    BY DEF DepositSafety
  <2>1. DepositInv /\ row \in Copy
    BY DEF Inv, TypeInv, RestOK
  <2>2. row # NoRow /\ row.status = "COMPLETED" => credits = 1
    BY <2>1 DEF DepositInv, Credited, Arrived, Copy
  <2>3. credits = 1 => Backed
    BY <2>1 DEF DepositInv, SettledSeen
  <2>4. NoTransfer \notin TransferRow
    BY DEF NoTransfer, TransferRow, TransferStatus
  <2> QED BY <2>1, <2>2, <2>3, <2>4 DEF DepositSafety, DepositInv, Backed
<1> QED BY <1>1, DepositInvariant, PTL

-----------------------------------------------------------------------------
(* The single debit.  Handlers and workers write back rows they hold in      *)
(* memory, so the row must be shown to exist wherever a copy of it does.     *)

RowInv ==
    /\ DebitedOnce
    /\ \A r \in Requests : req[r].pc \in HandlerPC => row # NoRow
    /\ \A w \in Workers : worker[w].pc = "calling" => row # NoRow

\* A row is never lost and never debited again.
LEMMA RowStays ==
    ASSUME TypeInv, row \in TransactionEntity, [Next]_vars
    PROVE  row' \in TransactionEntity /\ debits' = debits
<1>n. row # NoRow
  BY NoRowIsNoEntity
<1>1. ASSUME NEW r \in Requests, RequestStep(r)
      PROVE  row' \in TransactionEntity /\ debits' = debits
  <2>h. req[r].pc \in HandlerPC => req[r].tx \in TransactionEntity
    BY DEF TypeInv, ReqOK
  <2>q. {"await", "saveFailed", "anchor", "touch", "refresh"} \subseteq HandlerPC
    BY DEF HandlerPC, ReqPC
  <2>1. CASE \/ Receive(r) \/ PersistDuplicate(r) \/ PersistRejected(r) \/ Submit(r)
             \/ RollbackCheck(r) \/ RollbackRefund(r) \/ Enqueue(r) \/ GetTransaction(r)
             \/ RequestFails(r)
    BY <2>1 DEF Receive, PersistDuplicate, PersistRejected, Submit, RollbackCheck,
                RollbackRefund, Enqueue, GetTransaction, RequestFails
  <2>2. CASE PersistNew(r)
    BY <2>2, <1>n DEF PersistNew
  <2>3. CASE SubmitAnswered(r)
    <3>1. req[r].tx \in TransactionEntity
      BY <2>3, <2>h, <2>q DEF SubmitAnswered
    <3> DEFINE tx == [req[r].tx EXCEPT !.ref = TRUE]
    <3>2. tx \in TransactionEntity /\ FailedCopy(tx) \in TransactionEntity
      BY <3>1, EntityUpdates
    <3> QED BY <3>2, <2>3 DEF SubmitAnswered, SaveSubmission
  <2>4. CASE SubmitFailed(r)
    BY <2>4, <2>h, <2>q, EntityUpdates DEF SubmitFailed, SaveSubmission
  <2>5. CASE SaveSimulatedFailure(r)
    BY <2>5, <2>h, <2>q, EntityUpdates DEF SaveSimulatedFailure
  <2>6. CASE AnchorToChain(r)
    BY <2>6, <2>h, <2>q, ResultsAreAnswers, ChainResultUpdates DEF AnchorToChain
  <2>7. CASE TouchInternal(r)
    BY <2>7, <2>h, <2>q, EntityUpdates DEF TouchInternal
  <2>8. CASE RefreshReceipt(r)
    BY <2>8, <2>h, <2>q DEF RefreshReceipt
  <2> QED BY <1>1, <2>1, <2>2, <2>3, <2>4, <2>5, <2>6, <2>7, <2>8 DEF RequestStep
<1>2. ASSUME NEW j \in Jobs, JobStep(j)
      PROVE  row' \in TransactionEntity /\ debits' = debits
  BY <1>2 DEF JobStep, ListCandidate, CheckTransfer, CheckAnswered, CheckTimeout
<1>3. ASSUME NEW w \in Workers, WorkerStep(w)
      PROVE  row' \in TransactionEntity /\ debits' = debits
  <2>1. CASE Claim(w)
    BY <2>1, EntityUpdates DEF Claim
  <2>2. CASE ProcessResult(w)
    <3>1. worker[w].tx \in TransactionEntity
      BY <2>2 DEF ProcessResult, TypeInv, RestOK
    <3>2. row' \in TransactionEntity
      <4>1. PICK result \in ResultsFor(worker[w].tx) :
               row' = ReconcileBusinessStatus(GiveUpChain(ApplyChainResult(worker[w].tx, result)))
        BY <2>2, ZenonT(60) DEF ProcessResult
      <4> QED BY <3>1, <4>1, ResultsAreAnswers, ChainResultUpdates, EntityUpdates
    <3> QED BY <3>2, <2>2 DEF ProcessResult
  <2> QED BY <1>3, <2>1, <2>2 DEF WorkerStep, Load, WorkerEvent
<1>4. CASE MarkSettlement
  <2>1. mark.settlement \in FinalSettlement
    BY <1>4 DEF MarkSettlement, TypeInv, RestOK, Marks, Unlocked
  <2> QED BY <2>1, <1>4, MarkedRow DEF MarkSettlement
<1>5. CASE BecomesDue
  BY <1>5, EntityUpdates DEF BecomesDue
<1>6. CASE OutsideStep \/ MarkAborts \/ Crash \/ UNCHANGED vars
  BY <1>6 DEF OutsideStep, MarkAborts, Crash, vars, txVars
<1>7. ASSUME NEW s \in FinalSettlement, Mark(s) \/ MarkLost(s)
      PROVE  row' \in TransactionEntity /\ debits' = debits
  BY <1>7 DEF Mark, MarkLost
<1> QED BY <1>1, <1>2, <1>3, <1>4, <1>5, <1>6, <1>7 DEF Next

\* As long as there is no row, only persisting creates one, with its debit.
LEMMA RowBegins ==
    ASSUME TypeInv, RowInv, row = NoRow, [Next]_vars
    PROVE  \/ /\ row' = NoRow /\ debits' = debits
              /\ \A r \in Requests : req'[r].pc \in HandlerPC => req[r].pc \in HandlerPC
              /\ \A w \in Workers : worker'[w].pc = "calling" => worker[w].pc = "calling"
           \/ /\ row' \in TransactionEntity
              /\ debits' = IF type = "DEPOSIT" THEN debits ELSE debits + 1
<1>n. row \notin TransactionEntity
  BY NoRowIsNoEntity
<1>q. /\ req \in [Requests -> [pc : ReqPC, tx : Copy, simulate : BOOLEAN]]
      /\ \A r \in Requests : req[r].pc \notin HandlerPC
      /\ {"submit", "await", "rollback", "refund", "saveFailed", "anchor", "touch", "enqueue",
          "refresh"} \subseteq HandlerPC
      /\ "persist" \notin HandlerPC /\ "done" \notin HandlerPC
  BY DEF TypeInv, ReqOK, RowInv, HandlerPC, ReqPC
<1>w. /\ \A w \in Workers : worker[w].pc \notin {"calling", "claimed"}
      /\ worker \in [Workers -> [pc : WorkerPC, tx : Copy, new : SUBSET Events]]
  BY <1>n DEF TypeInv, RestOK, RowInv
<1>j. (\A j \in Jobs : job[j] = "idle") /\ sent = {} /\ Unlocked
  BY <1>n DEF TypeInv, RestOK
<1>1. ASSUME NEW r \in Requests, RequestStep(r)
      PROVE  \/ PersistNew(r)
             \/ /\ (Finish(r) \/ Goto(r, "persist", NoRow))
                /\ UNCHANGED <<row, debits, worker>>
  BY <1>1, <1>q DEF RequestStep, Receive, PersistDuplicate, PersistRejected, Submit,
     SubmitAnswered, SubmitFailed, RollbackCheck, RollbackRefund, SaveSimulatedFailure,
     AnchorToChain, TouchInternal, Enqueue, GetTransaction, RefreshReceipt, RequestFails
<1>2. ASSUME NEW r \in Requests, PersistNew(r)
      PROVE  /\ row' \in TransactionEntity
             /\ debits' = IF type = "DEPOSIT" THEN debits ELSE debits + 1
  BY <1>2, CreatedRowIsEntity DEF PersistNew
<1>3. ASSUME NEW r \in Requests, Finish(r) \/ Goto(r, "persist", NoRow)
      PROVE  \A q \in Requests : req'[q].pc \in HandlerPC => req[q].pc \in HandlerPC
  BY <1>3, <1>q DEF Finish, Goto, Done
<1>4. ASSUME NEW j \in Jobs, JobStep(j) PROVE FALSE
  BY <1>4, <1>j DEF JobStep, ListCandidate, IsCandidate, CheckTransfer, CheckAnswered,
                    CheckTimeout
<1>5. ASSUME NEW w \in Workers, WorkerStep(w)
      PROVE  /\ UNCHANGED <<row, debits, req>>
             /\ \A v \in Workers : worker'[v].pc = "calling" => worker[v].pc = "calling"
  BY <1>5, <1>w DEF WorkerStep, Claim, Load, ProcessResult, WorkerEvent, IdleWorker
<1>6. ASSUME NEW s \in FinalSettlement, Mark(s) \/ MarkLost(s) PROVE FALSE
  BY <1>6, <1>j DEF Mark, MarkLost
<1>7. ~BecomesDue /\ ~MarkSettlement /\ ~MarkAborts
  BY <1>j DEF BecomesDue, MarkSettlement, MarkAborts
<1>8. CASE Crash
  BY <1>8, <1>q DEF Crash, Done, IdleWorker
<1>9. CASE OutsideStep \/ UNCHANGED vars
  BY <1>9 DEF OutsideStep, vars, txVars
<1> QED BY <1>1, <1>2, <1>3, <1>4, <1>5, <1>6, <1>7, <1>8, <1>9 DEF Next

\* The row exists wherever a copy of it does, and has been debited once.
LEMMA RowInvariant == Spec => [](TypeInv /\ RowInv)
<1>1. Init => TypeInv /\ RowInv
  <2> SUFFICES ASSUME Init PROVE RowInv
    BY TypeInvariantInit
  <2>1. PICK sim \in [Requests -> BOOLEAN] : req = [r \in Requests |-> NewRequest(sim[r])]
    BY DEF Init
  <2> QED BY <2>1 DEF Init, RowInv, DebitedOnce, NewRequest, HandlerPC, IdleWorker
<1>2. TypeInv /\ RowInv /\ [Next]_vars => TypeInv' /\ RowInv'
  <2> SUFFICES ASSUME TypeInv, RowInv, [Next]_vars PROVE RowInv'
    BY TypeInvariantStep
  <2>1. type' = type /\ row \in Copy /\ debits \in Nat
    BY TypeNeverChanges DEF TypeInv, RestOK
  <2>2. CASE row \in TransactionEntity
    <3>1. row' # NoRow /\ row # NoRow /\ debits' = debits
      BY <2>2, RowStays, NoRowIsNoEntity
    <3> QED BY <3>1, <2>1 DEF RowInv, DebitedOnce
  <2>3. CASE row = NoRow
    <3>1. debits = 0
      BY <2>3 DEF RowInv, DebitedOnce
    <3>2. row' \in TransactionEntity => row' # NoRow
      BY NoRowIsNoEntity
    <3> QED BY <2>1, <2>3, <3>1, <3>2, RowBegins DEF RowInv, DebitedOnce
  <2> QED BY <2>1, <2>2, <2>3 DEF Copy
<1> QED BY <1>1, <1>2, PTL DEF Spec

\* Whatever number of requests carry the idempotency key, and whatever crashes,
\* the sender is debited exactly once, together with the row (persistTransfer,
\* persistWithdrawalRequest).
THEOREM DebitedExactlyOnce == Spec => []DebitedOnce
<1>1. RowInv => DebitedOnce
  BY DEF RowInv
<1> QED BY <1>1, RowInvariant, PTL

\* Once a withdrawal has been refunded nobody decides to refund it, and whoever
\* credits it again had looked for the reversal before the first refund and was
\* waiting for the wallet: a handler's rollback or a markSettlement transaction
\* (rollbackWithdrawalDebitUsingManager), for any number of requests, settlement
\* cycles, late calls and database errors.
THEOREM SecondRefundsOverlap == Spec => SecondRefundOverlapped
<1> DEFINE NoneDecides == \A r \in Requests : req'[r].pc = "refund" => req[r].pc = "refund"
           NoneLooks == mark'.credits => mark.credits
           Decided == credits' > credits =>
                        \/ \E r \in Requests : req[r].pc = "refund" /\ req'[r].pc # "refund"
                        \/ mark.credits /\ mark' = NoMark
<1>1. ASSUME TypeInv, [Next]_vars, type = "WITHDRAWAL", credits > 0
      PROVE  NoneDecides /\ NoneLooks /\ Decided
  <2>t. /\ credits \in Nat /\ ~(credits > credits) /\ credits # 0
        /\ req \in [Requests -> [pc : ReqPC, tx : Copy, simulate : BOOLEAN]]
    BY <1>1 DEF TypeInv, RestOK, ReqOK
  <2>k. /\ \A tx : AfterSubmission(tx) # "refund"
        /\ \A r : AfterPersist(r) # "refund"
    BY DEF AfterSubmission, AfterPersist
  <2>g. ASSUME NEW r \in Requests, NEW pc, NEW tx, pc # "refund", Goto(r, pc, tx) \/ Finish(r)
        PROVE  NoneDecides /\ req'[r].pc # "refund"
    BY <2>t, <2>g DEF Goto, Finish, Done
  <2>u. ASSUME req' = req, mark' \in {mark, NoMark}, credits' = credits
        PROVE  NoneDecides /\ NoneLooks /\ Decided
    BY <2>t, <2>u DEF NoMark
  <2>1. ASSUME NEW r \in Requests, RequestStep(r) PROVE NoneDecides /\ NoneLooks /\ Decided
    <3>1. CASE RollbackRefund(r)
      <4>1. PICK pc \in {"saveFailed", "anchor"} : Goto(r, pc, req[r].tx)
        BY <3>1 DEF RollbackRefund
      <4>2. NoneDecides /\ req'[r].pc # "refund"
        BY <4>1, <2>g
      <4> QED BY <4>2, <3>1 DEF RollbackRefund
    <3>2. CASE RollbackCheck(r)
      <4>1. PICK pc \in {"saveFailed", "anchor"} : Goto(r, pc, req[r].tx)
        BY <3>2, <1>1, <2>t DEF RollbackCheck
      <4>2. NoneDecides
        BY <4>1, <2>g
      <4> QED BY <4>2, <3>2, <2>t DEF RollbackCheck
    <3>3. CASE ~RollbackRefund(r) /\ ~RollbackCheck(r)
      <4>1. \E pc, tx : pc # "refund" /\ (Goto(r, pc, tx) \/ Finish(r))
        BY <2>1, <3>3, <2>k DEF RequestStep, Receive, PersistNew, PersistDuplicate,
           PersistRejected, Submit, SubmitAnswered, SubmitFailed, SaveSubmission,
           SaveSimulatedFailure, AnchorToChain, TouchInternal, Enqueue, GetTransaction,
           RefreshReceipt, RequestFails
      <4>2. credits' = credits /\ mark' = mark
        BY <1>1, <2>1, <3>3 DEF RequestStep, Receive, PersistNew, PersistDuplicate,
           PersistRejected, Submit, SubmitAnswered, SubmitFailed, SaveSubmission,
           SaveSimulatedFailure, AnchorToChain, TouchInternal, Enqueue, GetTransaction,
           RefreshReceipt, RequestFails
      <4> QED BY <4>1, <4>2, <2>g, <2>t
    <3> QED BY <3>1, <3>2, <3>3
  <2>2. CASE MarkSettlement
    <3>1. credits' > credits => mark.credits
      BY <2>2, <2>t DEF MarkSettlement
    <3> QED BY <3>1, <2>2, <2>t DEF MarkSettlement, NoMark
  <2>3. ASSUME NEW s \in FinalSettlement, Mark(s)
        PROVE  NoneDecides /\ NoneLooks /\ Decided
    <3>1. ~SettlementCredits(s)
      BY <2>t DEF SettlementCredits
    <3>2. ~mark'.credits
      BY <2>3, <3>1 DEF Mark, BeginMark
    <3> QED BY <2>3, <3>2, <2>t DEF Mark
  <2>4. ASSUME NEW j \in Jobs, JobStep(j) PROVE NoneDecides /\ NoneLooks /\ Decided
    BY <2>4, <2>u DEF JobStep, ListCandidate, CheckTransfer, CheckAnswered, CheckTimeout
  <2>5. ASSUME NEW w \in Workers, WorkerStep(w) PROVE NoneDecides /\ NoneLooks /\ Decided
    BY <2>5, <2>u DEF WorkerStep, Claim, Load, ProcessResult, WorkerEvent
  <2>6. CASE \/ \E s \in FinalSettlement : MarkLost(s)
             \/ MarkAborts \/ OutsideStep \/ BecomesDue \/ UNCHANGED vars
    BY <2>6, <2>u DEF MarkLost, MarkAborts, OutsideStep, BecomesDue, vars, txVars
  <2>7. CASE Crash
    <3>1. \A r \in Requests : req'[r] \in {req[r], Done}
      BY <2>7 DEF Crash
    <3> QED BY <3>1, <2>7, <2>t DEF Crash, Done, NoMark
  <2> QED BY <1>1, <2>1, <2>2, <2>3, <2>4, <2>5, <2>6, <2>7 DEF Next
<1>2. TypeInv /\ [Next]_vars =>
         [type = "WITHDRAWAL" /\ credits > 0 => NoneDecides /\ NoneLooks /\ Decided]_vars
  BY <1>1
<1> QED BY <1>2, TypeInvariant, PTL DEF Spec, SecondRefundOverlapped

-----------------------------------------------------------------------------
(* The completion event.  A stale save can bring COMPLETED back into the row *)
(* long after it was overwritten, so the invariant again covers all copies.  *)

\* A copy that shows the money as arrived is covered by the events E.
Announced(tx, E) == tx \in TransactionEntity /\ Arrived(tx) => "completed" \in E

CopiesAnnounced ==
    /\ Announced(row, events)
    /\ \A r \in Requests : Announced(req[r].tx, events)
    /\ \A w \in Workers : Announced(worker[w].tx, events)

AnnouncedInv == TypeInv /\ (IsExternal => CopiesAnnounced)

\* Events are only added to the outbox.
LEMMA EventsStay ==
    ASSUME [Next]_vars
    PROVE  events \subseteq events'
<1>1. ASSUME NEW r \in Requests, RequestStep(r) PROVE events \subseteq events'
  BY <1>1 DEF RequestStep, Receive, PersistNew, PersistDuplicate, PersistRejected, Submit,
     SubmitAnswered, SubmitFailed, SaveSubmission, RollbackCheck, RollbackRefund,
     SaveSimulatedFailure, AnchorToChain, TouchInternal, Enqueue, GetTransaction,
     RefreshReceipt, RequestFails
<1>2. ASSUME NEW j \in Jobs, JobStep(j) PROVE events \subseteq events'
  BY <1>2 DEF JobStep, ListCandidate, CheckTransfer, CheckAnswered, CheckTimeout
<1>3. ASSUME NEW w \in Workers, WorkerStep(w) PROVE events \subseteq events'
  BY <1>3 DEF WorkerStep, Claim, Load, ProcessResult, WorkerEvent
<1> QED BY <1>1, <1>2, <1>3
        DEF Next, Mark, MarkLost, MarkSettlement, MarkAborts, OutsideStep, BecomesDue, Crash,
            vars, txVars

\* A handler that moves on with an announced copy leaves all copies announced.
LEMMA GotoAnnounced ==
    ASSUME TypeInv, CopiesAnnounced, events \subseteq events', NEW r \in Requests,
           NEW pc, NEW tx, Goto(r, pc, tx) \/ Finish(r),
           Announced(tx, events'), Announced(row', events'), worker' = worker
    PROVE  CopiesAnnounced'
<1>1. req \in [Requests -> [pc : ReqPC, tx : Copy, simulate : BOOLEAN]]
  BY DEF TypeInv, ReqOK
<1>2. ASSUME NEW q \in Requests PROVE req'[q].tx \in {tx, NoRow, req[q].tx}
  BY <1>1 DEF Goto, Finish, Done
<1>3. ASSUME NEW q \in Requests PROVE Announced(req'[q].tx, events')
  BY <1>2, NoRowIsNoEntity DEF CopiesAnnounced, Announced
<1>4. \A w \in Workers : Announced(worker'[w].tx, events')
  BY DEF CopiesAnnounced, Announced
<1> QED BY <1>3, <1>4 DEF CopiesAnnounced

\* The handlers of an external transaction.
LEMMA RequestAnnounced ==
    ASSUME TypeInv, IsExternal, CopiesAnnounced, events \subseteq events',
           NEW r \in Requests, RequestStep(r)
    PROVE  CopiesAnnounced'
<1>h. req[r].pc \in HandlerPC => req[r].tx \in TransactionEntity
  BY DEF TypeInv, ReqOK
<1>q. {"await", "saveFailed", "anchor", "touch", "refresh"} \subseteq HandlerPC
  BY DEF HandlerPC, ReqPC
<1>r. "PENDING" \in ChainResults
  BY DEF ChainResults
<1>a. /\ Announced(req[r].tx, events') /\ Announced(row, events') /\ Announced(NoRow, events')
  BY NoRowIsNoEntity DEF CopiesAnnounced, Announced
<1>1. CASE Receive(r) \/ PersistRejected(r) \/ RequestFails(r)
  BY <1>1, <1>a, GotoAnnounced DEF Receive, PersistRejected, RequestFails
<1>2. CASE PersistNew(r)
  <2>1. Announced(row', events')
    BY <1>2 DEF PersistNew, CreatedRow, Arrived, Announced, IsExternal
  <2> QED BY <1>2, <2>1, GotoAnnounced DEF PersistNew
<1>3. CASE PersistDuplicate(r) \/ GetTransaction(r)
  BY <1>3, <1>a, GotoAnnounced DEF PersistDuplicate, GetTransaction
<1>4. CASE Submit(r) \/ RollbackCheck(r) \/ RollbackRefund(r)
  BY <1>4, <1>a, GotoAnnounced DEF Submit, RollbackCheck, RollbackRefund
<1>5. CASE Enqueue(r)
  BY <1>5, <1>a, GotoAnnounced DEF Enqueue
<1>s. ASSUME NEW tx, Announced(tx, events'), SaveSubmission(r, tx)
      PROVE  CopiesAnnounced'
  BY <1>s, GotoAnnounced DEF SaveSubmission
<1>6. CASE SubmitAnswered(r)
  <2>1. req[r].tx \in TransactionEntity
    BY <1>6, <1>h, <1>q DEF SubmitAnswered
  <2> DEFINE tx == [req[r].tx EXCEPT !.ref = TRUE]
  <2>2. tx \in TransactionEntity /\ (Arrived(tx) => Arrived(req[r].tx))
    BY <2>1, <1>r, EntityUpdates, ArrivedUpdates
  <2>3. ~Arrived(FailedCopy(tx))
    BY <2>2, <1>r, ArrivedUpdates
  <2>4. Announced(tx, events') /\ Announced(FailedCopy(tx), events')
    BY <2>1, <2>2, <2>3, <1>a DEF Announced
  <2> QED BY <2>4, <1>6, <1>s DEF SubmitAnswered
<1>7. CASE SubmitFailed(r)
  <2>1. ~Arrived(FailedCopy(req[r].tx))
    BY <1>7, <1>h, <1>q, <1>r, ArrivedUpdates DEF SubmitFailed
  <2> QED BY <2>1, <1>7, <1>s DEF SubmitFailed, Announced
<1>8. CASE SaveSimulatedFailure(r)
  <2>1. ~Arrived(FailedCopy(req[r].tx))
    BY <1>8, <1>h, <1>q, <1>r, ArrivedUpdates DEF SaveSimulatedFailure
  <2>2. Announced(row', events')
    BY <2>1, <1>8 DEF SaveSimulatedFailure, Announced
  <2> QED BY <2>2, <1>8, GotoAnnounced DEF SaveSimulatedFailure
<1>9. CASE AnchorToChain(r)
  <2>1. PICK result \in ChainResults : /\ row' = ApplyChainResult(req[r].tx, result)
                                       /\ Goto(r, "enqueue", row')
    BY <1>9, ResultsAreAnswers DEF AnchorToChain
  <2>2. req[r].tx \in TransactionEntity
    BY <1>9, <1>h, <1>q DEF AnchorToChain
  <2>3. Arrived(row') => Arrived(req[r].tx)
    BY <2>1, <2>2, ArrivedUpdates
  <2>4. Announced(row', events')
    BY <2>2, <2>3, <1>a DEF Announced
  <2> QED BY <2>1, <2>4, <1>9, GotoAnnounced DEF AnchorToChain
<1>10. CASE TouchInternal(r)
  <2>1. req[r].tx \in TransactionEntity
    BY <1>10, <1>h, <1>q DEF TouchInternal
  <2>2. Arrived([req[r].tx EXCEPT !.due = TRUE]) => Arrived(req[r].tx)
    BY <2>1, <1>r, ArrivedUpdates
  <2>3. Announced(row', events')
    BY <2>1, <2>2, <1>10, <1>a DEF TouchInternal, Announced
  <2> QED BY <2>3, <1>10, <1>a, GotoAnnounced DEF TouchInternal
<1>11. CASE RefreshReceipt(r)
  <2>1. Announced(row', events')
    BY <1>11, <1>a DEF RefreshReceipt
  <2> QED BY <2>1, <1>11, <1>a, GotoAnnounced DEF RefreshReceipt
<1> QED BY <1>1, <1>2, <1>3, <1>4, <1>5, <1>6, <1>7, <1>8, <1>9, <1>10, <1>11 DEF RequestStep

\* markSettlement puts the event into the outbox with the status it writes.
LEMMA MarkAnnounces ==
    ASSUME TypeInv, MarkSettlement
    PROVE  Announced(row', events')
<1> DEFINE s == mark.settlement
<1>0. row \in TransactionEntity /\ s \in FinalSettlement
  BY DEF MarkSettlement, TypeInv, RestOK, Marks, Unlocked
<1>1. row' = Marked(s) /\ EventOf(Marked(s)) \in events'
  BY DEF MarkSettlement
<1>2. Marked(s).status = IF s = "SETTLED" THEN "COMPLETED" ELSE "FAILED"
  BY <1>0 DEF Marked, TransactionEntity
<1>3. Marked(s).settlement = s
  BY <1>0 DEF Marked, TransactionEntity
<1> QED BY <1>0, <1>1, <1>2, <1>3 DEF Announced, Arrived, EventOf, FinalSettlement

\* A step that changes no copy but the row.
LEMMA RowAnnounced ==
    ASSUME CopiesAnnounced, events \subseteq events', UNCHANGED <<req, worker>>,
           Announced(row', events')
    PROVE  CopiesAnnounced'
BY DEF CopiesAnnounced, Announced

\* The chain workers of an external transaction.
LEMMA WorkerAnnounced ==
    ASSUME TypeInv, IsExternal, CopiesAnnounced, events \subseteq events',
           NEW w \in Workers, WorkerStep(w)
    PROVE  CopiesAnnounced'
<1>t. /\ worker \in [Workers -> [pc : WorkerPC, tx : Copy, new : SUBSET Events]]
      /\ row \in Copy
  BY DEF TypeInv, RestOK
<1>r. "PENDING" \in ChainResults
  BY DEF ChainResults
<1>i. Announced(IdleWorker.tx, events') /\ Announced(NoRow, events')
  BY NoRowIsNoEntity DEF IdleWorker, Announced
<1>s. ASSUME req' = req, Announced(row', events'),
             \A v \in Workers : Announced(worker'[v].tx, events')
      PROVE  CopiesAnnounced'
  BY <1>s DEF CopiesAnnounced, Announced
<1>a. /\ Announced(row, events')
      /\ \A v \in Workers : Announced(worker[v].tx, events')
  BY DEF CopiesAnnounced, Announced
<1>v. ASSUME NEW x, worker' = [worker EXCEPT ![w] = x], Announced(x.tx, events')
      PROVE  \A v \in Workers : Announced(worker'[v].tx, events')
  BY <1>t, <1>v, <1>a
<1>1. CASE Claim(w)
  <2>1. row \in TransactionEntity
    BY <1>t, <1>1 DEF Claim, Copy
  <2>2. Arrived(row') => Arrived(row)
    BY <1>r, <2>1, <1>1, ArrivedUpdates DEF Claim
  <2>3. Announced(row', events')
    BY <1>a, <2>1, <2>2 DEF Announced
  <2>4. \A v \in Workers : worker'[v].tx = worker[v].tx
    BY <1>t, <1>1 DEF Claim
  <2> QED BY <2>3, <2>4, <1>1, <1>a, <1>s DEF Claim
<1>2. CASE Load(w)
  <2> DEFINE x == IF row.chain # "PENDING" \/ row.status = "FAILED" THEN IdleWorker
                  ELSE [pc |-> "calling", tx |-> row, new |-> {}]
  <2>1. worker' = [worker EXCEPT ![w] = x] /\ (x = IdleWorker \/ x.tx = row)
    BY <1>2 DEF Load
  <2> HIDE DEF x
  <2>2. Announced(x.tx, events')
    BY <2>1, <1>i, <1>a
  <2> QED BY <2>1, <2>2, <1>2, <1>a, <1>s, <1>v DEF Load
<1>3. CASE ProcessResult(w)
  <2>1. worker[w].tx \in TransactionEntity
    BY <1>3 DEF ProcessResult, TypeInv, RestOK
  <2>2. PICK result \in ChainResults :
           row' = ReconcileBusinessStatus(GiveUpChain(ApplyChainResult(worker[w].tx, result)))
    BY <1>3, ResultsAreAnswers, ZenonT(60) DEF ProcessResult
  <2>3. Arrived(row') => Arrived(worker[w].tx)
    BY <2>1, <2>2, ArrivedUpdates, EntityUpdates, ChainResultUpdates
  <2>4. Announced(row', events')
    BY <2>1, <2>3, <1>a DEF Announced
  <2>5. PICK n : worker' = [worker EXCEPT ![w] =
                              IF n = {} THEN IdleWorker
                              ELSE [pc |-> "event", tx |-> NoRow, new |-> n]]
    BY <1>3, Zenon DEF ProcessResult
  <2> DEFINE x == IF n = {} THEN IdleWorker ELSE [pc |-> "event", tx |-> NoRow, new |-> n]
  <2>6. x.tx = NoRow /\ worker' = [worker EXCEPT ![w] = x]
    BY <2>5 DEF IdleWorker
  <2> HIDE DEF x
  <2> QED BY <2>4, <2>6, <1>3, <1>i, <1>s, <1>v DEF ProcessResult
<1>4. CASE WorkerEvent(w)
  BY <1>4, <1>a, <1>i, <1>s, <1>v DEF WorkerEvent
<1> QED BY <1>1, <1>2, <1>3, <1>4 DEF WorkerStep

\* The invariant of the completion event.
LEMMA AnnouncedInvariant == Spec => []AnnouncedInv
<1>1. Init => AnnouncedInv
  <2> SUFFICES ASSUME Init PROVE CopiesAnnounced
    BY TypeInvariantInit DEF AnnouncedInv
  <2>1. PICK sim \in [Requests -> BOOLEAN] : req = [r \in Requests |-> NewRequest(sim[r])]
    BY DEF Init
  <2>2. row = NoRow /\ (\A r \in Requests : req[r].tx = NoRow)
        /\ (\A w \in Workers : worker[w].tx = NoRow)
    BY <2>1 DEF Init, NewRequest, IdleWorker
  <2> QED BY <2>2, NoRowIsNoEntity DEF CopiesAnnounced, Announced
<1>2. AnnouncedInv /\ [Next]_vars => AnnouncedInv'
  <2> SUFFICES ASSUME AnnouncedInv, [Next]_vars PROVE AnnouncedInv'
    OBVIOUS
  <2>t. TypeInv /\ TypeInv' /\ type' = type /\ events \subseteq events'
    BY TypeInvariantStep, TypeNeverChanges, EventsStay DEF AnnouncedInv
  <2> SUFFICES ASSUME IsExternal PROVE CopiesAnnounced'
    BY <2>t DEF AnnouncedInv, IsExternal
  <2>0. CopiesAnnounced
    BY DEF AnnouncedInv
  <2>a. Announced(row, events')
    BY <2>0, <2>t DEF CopiesAnnounced, Announced
  <2>1. ASSUME NEW r \in Requests, RequestStep(r) PROVE CopiesAnnounced'
    BY <2>0, <2>t, <2>1, RequestAnnounced
  <2>2. ASSUME NEW w \in Workers, WorkerStep(w) PROVE CopiesAnnounced'
    BY <2>0, <2>t, <2>2, WorkerAnnounced
  <2>3. ASSUME NEW j \in Jobs, JobStep(j) PROVE CopiesAnnounced'
    BY <2>0, <2>t, <2>a, <2>3, RowAnnounced
    DEF JobStep, ListCandidate, CheckTransfer, CheckAnswered, CheckTimeout
  <2>4. CASE MarkSettlement
    <3>1. Announced(row', events')
      BY <2>t, <2>4, MarkAnnounces
    <3> QED BY <2>0, <2>t, <2>4, <3>1, RowAnnounced DEF MarkSettlement
  <2>8. CASE MarkAborts \/ \E s \in FinalSettlement : Mark(s) \/ MarkLost(s)
    BY <2>0, <2>t, <2>a, <2>8, RowAnnounced DEF MarkAborts, Mark, MarkLost
  <2>5. CASE BecomesDue
    <3>1. row \in TransactionEntity /\ "PENDING" \in ChainResults
      BY <2>t, <2>5 DEF BecomesDue, TypeInv, RestOK, Copy, ChainResults
    <3>2. Arrived(row') => Arrived(row)
      BY <3>1, <2>5, ArrivedUpdates DEF BecomesDue
    <3>3. Announced(row', events')
      BY <3>1, <3>2, <2>a DEF Announced
    <3> QED BY <2>0, <2>t, <2>5, <3>3, RowAnnounced DEF BecomesDue
  <2>6. CASE Crash
    <3>1. /\ \A r \in Requests : req'[r].tx \in {req[r].tx, NoRow}
          /\ \A w \in Workers : worker'[w].tx = NoRow
          /\ row' = row /\ events' = events
      BY <2>6 DEF Crash, Done, IdleWorker
    <3> QED BY <2>0, <3>1, NoRowIsNoEntity DEF CopiesAnnounced, Announced
  <2>7. CASE OutsideStep \/ UNCHANGED vars
    BY <2>0, <2>7 DEF OutsideStep, vars, txVars, CopiesAnnounced, Announced
  <2> QED BY <2>1, <2>2, <2>3, <2>4, <2>5, <2>6, <2>7, <2>8 DEF Next
<1> QED BY <1>1, <1>2, PTL DEF Spec

\* An external transaction shown as COMPLETED has its completion event in the
\* outbox, for any number of handlers, workers and crashes, and although stale
\* copies are saved over the row: the status and the event are written in one
\* database transaction (markSettlement), and nothing else completes it.
THEOREM CompletionsAnnounced == Spec => []ExternalCompletionAnnounced
<1>1. AnnouncedInv => ExternalCompletionAnnounced
  BY DEF AnnouncedInv, TypeInv, RestOK, Copy, CopiesAnnounced, Announced, Arrived,
         ExternalCompletionAnnounced
<1> QED BY <1>1, AnnouncedInvariant, PTL

=============================================================================
