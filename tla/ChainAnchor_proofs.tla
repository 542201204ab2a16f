------------------------ MODULE ChainAnchor_proofs -------------------------
(***************************************************************************)
(* Proofs about ChainAnchor, for any number of calls, retries, Fabric      *)
(* transactions, observers and faults: every record of an anchored         *)
(* transaction is backed by the ledger, and without a crash, an expired    *)
(* key or a race there is at most one intent.                              *)
(***************************************************************************)
EXTENDS ChainAnchor, FiniteSetTheorems, TLAPS

\* A handler that waits for a commit or has seen it knows its transaction.
HasTx == \A r \in Requests :
            request[r].pc \in {"commit", "store"} => request[r].tx \in Txs

ChainType == TypeOK /\ HasTx

-----------------------------------------------------------------------------
(* What a handler's step does to the table of handlers                     *)

\* To moves one handler and leaves what it knows.
LEMMA ToStep ==
    ASSUME ChainType, NEW r \in Requests, NEW pc, To(r, pc),
           pc \in {"idem", "nonce", "add", "submit", "store"},
           pc = "store" => request[r].tx \in Txs
    PROVE  /\ request' \in [Requests -> RequestState]
           /\ HasTx'
           /\ request'[r].pc = pc /\ request'[r].tx = request[r].tx
           /\ request'[r].entry = request[r].entry
           /\ \A q \in Requests : q # r => request'[q] = request[q]
  BY DEF ChainType, TypeOK, HasTx, To, RequestState

\* Answer ends one handler: its answer is on the way, or lost.
LEMMA AnswerStep ==
    ASSUME ChainType, NEW r \in Requests, NEW pc \in {"ok", "refused"},
           NEW entry \in Entries, Answer(r, pc, entry)
    PROVE  /\ request' \in [Requests -> RequestState]
           /\ HasTx'
           /\ request'[r].pc \in {pc, "dead"}
           /\ request'[r].entry \in {entry, NoEntry}
           /\ \A q \in Requests : q # r => request'[q] = request[q]
  <1> DEFINE new == IF call[r[1]].pc = "posting" /\ Current(r[1]) = r
                    THEN [pc |-> pc, tx |-> NoTx, entry |-> entry] ELSE Gone
  <1>1. /\ new \in RequestState /\ new.pc \in {pc, "dead"}
        /\ new.entry \in {entry, NoEntry}
    BY DEF RequestState, Gone, NoTx, Entries
  <1>2. request' = [request EXCEPT ![r] = new]
    BY DEF Answer
  <1> HIDE DEF new
  <1> QED
    BY <1>1, <1>2 DEF ChainType, TypeOK, HasTx

\* Submit takes an unused transaction and keeps it.
LEMMA SubmitStep ==
    ASSUME ChainType, NEW r \in Requests, Submit(r)
    PROVE  \E t \in Txs :
              /\ ledger[t] = "unused" /\ ledger' = [ledger EXCEPT ![t] = "ordered"]
              /\ request' \in [Requests -> RequestState] /\ HasTx'
              /\ request'[r].pc = "commit" /\ request'[r].tx = t
              /\ request'[r].entry = request[r].entry
              /\ \A q \in Requests : q # r => request'[q] = request[q]
  <1>0. PICK t \in Txs :
          /\ ledger[t] = "unused" /\ ledger' = [ledger EXCEPT ![t] = "ordered"]
          /\ request' = [request EXCEPT ![r].pc = "commit", ![r].tx = t]
    BY DEF Submit
  <1> DEFINE new == [pc |-> "commit", tx |-> t, entry |-> request[r].entry]
  <1>1. /\ request[r] \in RequestState /\ new \in RequestState
        /\ new.pc = "commit" /\ new.tx = t /\ new.entry = request[r].entry
    BY DEF ChainType, TypeOK, RequestState
  <1>2. new = [request[r] EXCEPT !.pc = "commit", !.tx = t]
    BY <1>1 DEF RequestState
  <1>3. request' = [request EXCEPT ![r] = new]
    BY <1>0, <1>2
  <1>4. /\ request' \in [Requests -> RequestState] /\ HasTx'
        /\ request'[r] = new
        /\ \A q \in Requests : q # r => request'[q] = request[q]
    <2> HIDE DEF new
    <2> QED
      BY <1>1, <1>3 DEF ChainType, TypeOK, HasTx
  <1> HIDE DEF new
  <1> QED
    BY <1>0, <1>1, <1>4, Zenon

\* The absent entry is an entry.
LEMMA NoEntryIsEntry == NoEntry \in Entries
  BY DEF Entries

\* The requests of a call, and the one it waits for.
LEMMA RequestsOfCall ==
    ASSUME ChainType, NEW c \in Calls
    PROVE  /\ Current(c) \in Requests
           /\ MaxRetries \in Nat /\ call[c].attempt \in Nat /\ 0 \in Attempts
           /\ call[c].attempt < MaxRetries =>
                /\ call[c].attempt + 1 \in Attempts
                /\ <<c, call[c].attempt + 1>> \in Requests
           /\ <<c, 0>> \in Requests
  BY ChainAnchorAssumption DEF ChainType, TypeOK, CallState, Current, Requests, Attempts

\* Ending a handler whose answer was taken.
LEMMA GoneStep ==
    ASSUME ChainType, NEW r \in Requests, request' = [request EXCEPT ![r] = Gone]
    PROVE  /\ request' \in [Requests -> RequestState]
           /\ HasTx'
           /\ request'[r] = Gone
           /\ \A q \in Requests : q # r => request'[q] = request[q]
  <1>1. Gone \in RequestState /\ Gone.pc = "dead"
    BY DEF RequestState, Gone, NoTx, Entries
  <1> QED
    BY <1>1 DEF ChainType, TypeOK, HasTx

\* Counting a fault stays within the bound.
LEMMA FaultType == ASSUME ChainType, Fault PROVE faults' \in 0 .. MaxFaults
  BY ChainAnchorAssumption DEF ChainType, TypeOK, Fault

-----------------------------------------------------------------------------
(* Types                                                                   *)

\* A retry, or the error that ends the call, keeps the types.
LEMMA RetryType ==
    ASSUME ChainType, NEW c \in Calls, RetryOrFail(c)
    PROVE  /\ call' \in [Calls -> CallState] /\ waits' \subseteq Calls
           /\ request' \in [Requests -> RequestState] /\ HasTx'
  <1>1. CASE call[c].attempt < MaxRetries
    <2> DEFINE n == call[c].attempt + 1
    <2>1. n \in Attempts /\ <<c, n>> \in Requests
      BY <1>1, RequestsOfCall
    <2>2. /\ call' = [call EXCEPT ![c].attempt = n]
          /\ To(<<c, n>>, "idem") /\ waits' = waits
      BY <1>1 DEF RetryOrFail, To
    <2>3. call' \in [Calls -> CallState]
      <3> HIDE DEF n
      <3> QED
        BY <2>1, <2>2, SMTT(60) DEF ChainType, TypeOK, CallState
    <2>4. request' \in [Requests -> RequestState] /\ HasTx'
      <3> HIDE DEF n
      <3> QED
        BY <2>1, <2>2, ToStep
    <2> QED
      BY <2>2, <2>3, <2>4 DEF ChainType, TypeOK
  <1>2. CASE ~(call[c].attempt < MaxRetries)
    <2>1. Fail(c) /\ request' = request
      BY <1>2 DEF RetryOrFail
    <2> QED
      BY <2>1 DEF Fail, ChainType, TypeOK, HasTx, CallState
  <1> QED
    BY <1>1, <1>2

\* The chain service's steps keep the types.
LEMMA ServiceType ==
    ASSUME ChainType, NEW c \in Calls,
           \/ AnchorTransfer(c) \/ WorkerTimeout(c) \/ PostTimeout(c)
           \/ ConnectionLost(c) \/ PostRefused(c) \/ PostAnswered(c)
    PROVE  ChainType'
  <1> USE DEF memory, disk, chain, bounds, worker
  <1>1. CASE AnchorTransfer(c)
    <2>1. <<c, 0>> \in Requests /\ To(<<c, 0>>, "idem")
      BY <1>1, RequestsOfCall DEF AnchorTransfer, To
    <2>2. request' \in [Requests -> RequestState] /\ HasTx'
      BY <2>1, ToStep
    <2>3. call' \in [Calls -> CallState] /\ waits' \subseteq Calls
      BY <1>1 DEF AnchorTransfer, ChainType, TypeOK, CallState
    <2> QED
      BY <1>1, <2>2, <2>3 DEF AnchorTransfer, ChainType, TypeOK
  <1>2. CASE WorkerTimeout(c)
    BY <1>2, FaultType DEF WorkerTimeout, ChainType, TypeOK, HasTx
  <1>3. CASE PostTimeout(c)
    BY <1>3, RetryType, FaultType DEF PostTimeout, ChainType, TypeOK
  <1>4. CASE ConnectionLost(c)
    BY <1>4, RetryType DEF ConnectionLost, ChainType, TypeOK
  <1>5. CASE PostRefused(c)
    <2>1. request' \in [Requests -> RequestState] /\ HasTx'
      BY <1>5, GoneStep, RequestsOfCall DEF PostRefused
    <2>2. call' \in [Calls -> CallState] /\ waits' \subseteq Calls
      BY <1>5 DEF PostRefused, Fail, ChainType, TypeOK, CallState
    <2> QED
      BY <1>5, <2>1, <2>2 DEF PostRefused, ChainType, TypeOK
  <1>6. CASE PostAnswered(c)
    <2>1. request' \in [Requests -> RequestState] /\ HasTx'
      BY <1>6, GoneStep, RequestsOfCall DEF PostAnswered
    <2>2. request[Current(c)].entry \in Entries
      BY RequestsOfCall DEF ChainType, TypeOK, RequestState
    <2>3. call' \in [Calls -> CallState]
      <3> DEFINE e == request[Current(c)].entry
                 new == [call[c] EXCEPT !.pc = "answered", !.entry = e]
      <3>1. call[c] \in CallState /\ call \in [Calls -> CallState]
        BY DEF ChainType, TypeOK
      <3>2. new \in CallState
        BY <2>2, <3>1 DEF CallState
      <3>3. call' = [call EXCEPT ![c] = new]
        BY <1>6 DEF PostAnswered
      <3> HIDE DEF new
      <3> QED
        BY <3>1, <3>2, <3>3
    <2> QED
      BY <1>6, <2>1, <2>3 DEF PostAnswered, ChainType, TypeOK
  <1> QED
    BY <1>1, <1>2, <1>3, <1>4, <1>5, <1>6

\* What the worker records has a type.
LEMMA StatusType ==
    ASSUME NEW body, NEW confirming
    PROVE  EnrichedStatus(body, confirming) \in {"PENDING", "ANCHORED"}
  BY DEF EnrichedStatus, ReceiptStatus

\* The row that an answer, or a receipt, of transaction t leaves.
Recorded(t, body) ==
    \E confirming \in SUBSET Confirming(t) :
        row' = [row EXCEPT !.tx = t, !.status = EnrichedStatus(body, confirming)]

\* The worker records an answer it still waits for, and every receipt it polls.
LEMMA RowStep ==
    /\ \A c \in Calls : AnchorReturns(c) =>
          row' = row \/ Recorded(call[c].entry.tx, call[c].entry.body)
    /\ \A rebuilt \in BOOLEAN : PollReceipt(rebuilt) =>
          Recorded(row.tx, RebuiltBody(row.tx, rebuilt))
  <1>1. ASSUME NEW c \in Calls, AnchorReturns(c)
        PROVE  row' = row \/ Recorded(call[c].entry.tx, call[c].entry.body)
    BY <1>1, Zenon DEF AnchorReturns, ApplyChainResult, Recorded
  <1>2. ASSUME NEW rebuilt \in BOOLEAN, PollReceipt(rebuilt)
        PROVE  Recorded(row.tx, RebuiltBody(row.tx, rebuilt))
    BY <1>2, Zenon DEF PollReceipt, ApplyChainResult, Recorded
  <1> QED
    BY <1>1, <1>2

\* A recorded row has the row's type.
LEMMA RecordedType ==
    ASSUME ChainType, NEW t \in Txs \cup {NoTx}, NEW body, Recorded(t, body)
    PROVE  row' \in [amount : Amounts, status : {"PENDING", "ANCHORED"}, tx : Txs \cup {NoTx}]
  <1> PICK s \in {"PENDING", "ANCHORED"} : row' = [row EXCEPT !.tx = t, !.status = s]
    BY StatusType, Zenon DEF Recorded
  <1> QED
    BY DEF ChainType, TypeOK

\* The worker's use of an answer or a receipt keeps the types.
LEMMA WorkerType ==
    ASSUME ChainType, \/ \E c \in Calls : AnchorReturns(c)
                      \/ \E rebuilt \in BOOLEAN : PollReceipt(rebuilt)
    PROVE  ChainType'
  <1> USE DEF memory, disk, chain, bounds, worker
  <1>1. ASSUME NEW c \in Calls, AnchorReturns(c) PROVE ChainType'
    <2>1. call[c].entry.tx \in Txs \cup {NoTx} /\ call[c].entry \in Entries
      BY DEF ChainType, TypeOK, CallState, Entries, NoEntry
    <2>2. row' \in [amount : Amounts, status : {"PENDING", "ANCHORED"}, tx : Txs \cup {NoTx}]
      BY <1>1, <2>1, RowStep, RecordedType DEF ChainType, TypeOK
    <2>3. faults' \in 0 .. MaxFaults
      BY <1>1, FaultType DEF AnchorReturns, Confirmations, ChainType, TypeOK
    <2>4. call' \in [Calls -> CallState] /\ waits' \subseteq Calls
      BY <1>1, NoEntryIsEntry DEF AnchorReturns, ChainType, TypeOK, CallState
    <2> QED
      BY <1>1, <2>2, <2>3, <2>4 DEF AnchorReturns, ChainType, TypeOK, HasTx
  <1>2. ASSUME NEW rebuilt \in BOOLEAN, PollReceipt(rebuilt) PROVE ChainType'
    <2> DEFINE t == row.tx
               body == RebuiltBody(t, rebuilt)
    <2>1. t \in Txs
      BY <1>2 DEF PollReceipt, ChainType, TypeOK
    <2>2. body \in Bodies
      BY <1>2, <2>1 DEF PollReceipt, RebuiltBody, ChainType, TypeOK, Bodies
    <2>3. /\ receipts' = [receipts EXCEPT ![t] = body]
          /\ writes' \subseteq writes \cup {<<"receipt", [tx |-> t, body |-> body]>>}
      BY <1>2 DEF PollReceipt
    <2>a. row' \in [amount : Amounts, status : {"PENDING", "ANCHORED"}, tx : Txs \cup {NoTx}]
      BY <1>2, <2>1, RowStep, RecordedType
    <2>4. faults' \in 0 .. MaxFaults
      BY <1>2, FaultType DEF PollReceipt, Confirmations, ChainType, TypeOK
    <2>5. /\ call' = call /\ waits' = waits /\ request' = request /\ idem' = idem
          /\ nonces' = nonces /\ idemDisk' = idemDisk /\ nonceDisk' = nonceDisk
          /\ receiptDisk' = receiptDisk /\ ledger' = ledger /\ seen' = seen /\ hurt' = hurt
          /\ computed' = computed
      BY <1>2 DEF PollReceipt
    <2> HIDE DEF t, body
    <2>6. [tx |-> t, body |-> body] \in Entries
      BY <2>1, <2>2 DEF Entries
    <2>7. writes' \subseteq {"idem", "receipt"} \X Entries
      BY <2>3, <2>6 DEF ChainType, TypeOK
    <2>8. receipts' \in [Txs -> Bodies \cup {"none"}]
      BY <2>1, <2>2, <2>3 DEF ChainType, TypeOK
    <2> QED
      BY <2>a, <2>4, <2>5, <2>7, <2>8 DEF ChainType, TypeOK, HasTx
  <1> QED
    BY <1>1, <1>2

\* The gateway's handlers keep the types.
LEMMA HandlerType ==
    ASSUME ChainType, NEW r \in Requests,
           \/ IdempotencyHit(r) \/ IdempotencyMiss(r) \/ NonceExists(r) \/ NonceNew(r)
           \/ TimestampRefused(r) \/ NonceAdd(r) \/ Submit(r) \/ EndorseFails(r)
           \/ CommitStatus(r) \/ \E retryable \in BOOLEAN : CommitStatusLost(r, retryable)
    PROVE  ChainType'
  <1> USE DEF memory, disk, chain, bounds, worker
  <1>0. r[1] \in Calls
    BY DEF Requests
  <1>1. CASE IdempotencyHit(r)
    <2>1. request' \in [Requests -> RequestState] /\ HasTx'
      BY <1>1, AnswerStep DEF IdempotencyHit, ChainType, TypeOK
    <2> QED
      BY <1>1, <2>1 DEF IdempotencyHit, ChainType, TypeOK
  <1>2. CASE IdempotencyMiss(r)
    <2>1. request' \in [Requests -> RequestState] /\ HasTx'
      BY <1>2, ToStep DEF IdempotencyMiss
    <2>2. hurt' \subseteq Causes
      BY <1>2 DEF IdempotencyMiss, ChainType, TypeOK, Causes
    <2> QED
      BY <1>2, <2>1, <2>2 DEF IdempotencyMiss, ChainType, TypeOK
  <1>3. CASE NonceExists(r)
    <2>1. request' \in [Requests -> RequestState] /\ HasTx'
      BY <1>3, AnswerStep, NoEntryIsEntry DEF NonceExists, Refuse
    <2> QED
      BY <1>3, <2>1 DEF NonceExists, ChainType, TypeOK
  <1>4. CASE NonceNew(r)
    <2>1. request' \in [Requests -> RequestState] /\ HasTx'
      BY <1>4, ToStep DEF NonceNew
    <2>2. hurt' \subseteq Causes
      BY <1>4 DEF NonceNew, ChainType, TypeOK, Causes
    <2> QED
      BY <1>4, <2>1, <2>2 DEF NonceNew, ChainType, TypeOK
  <1>5. CASE TimestampRefused(r) \/ EndorseFails(r)
    <2>1. request' \in [Requests -> RequestState] /\ HasTx'
      BY <1>5, AnswerStep, NoEntryIsEntry DEF TimestampRefused, EndorseFails, Refuse
    <2> QED
      BY <1>5, <2>1, FaultType DEF TimestampRefused, EndorseFails, ChainType, TypeOK
  <1>6. CASE NonceAdd(r)
    <2>1. request' \in [Requests -> RequestState] /\ HasTx'
      BY <1>6, ToStep DEF NonceAdd
    <2> QED
      BY <1>0, <1>6, <2>1 DEF NonceAdd, ChainType, TypeOK
  <1>7. CASE Submit(r)
    <2> PICK t \in Txs :
          /\ ledger' = [ledger EXCEPT ![t] = "ordered"]
          /\ request' \in [Requests -> RequestState] /\ HasTx'
      BY <1>7, SubmitStep
    <2>2. ledger' \in [Txs -> {"unused", "ordered", "committed"}]
      BY DEF ChainType, TypeOK
    <2> QED
      BY <1>7, <2>2 DEF Submit, ChainType, TypeOK
  <1>8. CASE CommitStatus(r)
    <2>1. request' \in [Requests -> RequestState] /\ HasTx'
      BY <1>8, ToStep DEF CommitStatus, Committed
    <2> QED
      BY <1>8, <2>1 DEF CommitStatus, ChainType, TypeOK
  <1>9. ASSUME NEW retryable \in BOOLEAN, CommitStatusLost(r, retryable) PROVE ChainType'
    <2>1. request' \in [Requests -> RequestState] /\ HasTx'
      BY <1>9, AnswerStep, ToStep, NoEntryIsEntry DEF CommitStatusLost, Refuse
    <2> QED
      BY <1>9, <2>1, FaultType DEF CommitStatusLost, Hurt, Causes, ChainType, TypeOK
  <1> QED
    BY <1>1, <1>2, <1>3, <1>4, <1>5, <1>6, <1>7, <1>8, <1>9

\* Storing a receipt keeps the types.
LEMMA StoreType ==
    ASSUME ChainType, NEW r \in Requests, NEW body \in Bodies, NEW hash \in Hashes,
             StoreReceipt(r, body, hash)
    PROVE  /\ ChainType'
           /\ [tx |-> request[r].tx, body |-> body] \in Entries
           /\ request[r].tx \in Txs
  <1> USE DEF memory, disk, chain, bounds, worker
  <1> DEFINE t == request[r].tx
             e == [tx |-> t, body |-> body]
  <1>1. t \in Txs
    BY DEF StoreReceipt, ChainType, HasTx
  <1>2. e \in Entries /\ e.tx = t
    BY <1>1 DEF Entries
  <1>3. /\ receipts' = [receipts EXCEPT ![t] = body]
        /\ idem' = e /\ writes' = writes \cup {<<"idem", e>>, <<"receipt", e>>}
        /\ Answer(r, "ok", e)
        /\ Fault \/ faults' = faults
        /\ UNCHANGED <<worker, nonces, idemDisk, nonceDisk, receiptDisk, ledger, seen, hurt>>
        /\ computed' \in {computed, computed \cup {t}}
    BY <1>2 DEF StoreReceipt
  <1> HIDE DEF e
  <1>4. request' \in [Requests -> RequestState] /\ HasTx'
    BY <1>2, <1>3, AnswerStep
  <1>5. writes' \subseteq {"idem", "receipt"} \X Entries
    BY <1>2, <1>3 DEF ChainType, TypeOK
  <1>6. receipts' \in [Txs -> Bodies \cup {"none"}] /\ idem' \in Entries
    BY <1>1, <1>2, <1>3 DEF ChainType, TypeOK
  <1>7. ChainType'
    BY <1>3, <1>4, <1>5, <1>6, FaultType DEF ChainType, TypeOK
  <1> QED
    BY <1>1, <1>2, <1>7 DEF e

\* Files, expiry, crashes and Fabric keep the types.
LEMMA OutsideType ==
    ASSUME ChainType,
           \/ FileStep \/ PersistNonces \/ IdempotencyExpires \/ FabricStep
           \/ \E tornNonces, tornIdem \in BOOLEAN : Crash(tornNonces, tornIdem)
    PROVE  ChainType'
  <1> USE DEF memory, disk, chain, bounds, worker
  <1>1. ASSUME NEW e \in Entries, WriteIdem(e) \/ WriteReceipt(e) PROVE ChainType'
    <2>1. e.body \in Bodies \cup {"none"}
      BY DEF Entries, NoEntry
    <2>2. receiptDisk' \in [Txs -> Bodies \cup {"none"}]
      BY <1>1, <2>1 DEF WriteIdem, WriteReceipt, ChainType, TypeOK
    <2> QED
      BY <1>1, <2>2 DEF WriteIdem, WriteReceipt, ChainType, TypeOK, HasTx
  <1>2. CASE PersistNonces
    BY <1>2 DEF PersistNonces, ChainType, TypeOK, HasTx
  <1>3. CASE IdempotencyExpires
    BY <1>3, FaultType, NoEntryIsEntry
       DEF IdempotencyExpires, Hurt, Causes, ChainType, TypeOK, HasTx
  <1>4. ASSUME NEW t \in Txs, CommitBlock(t) PROVE ChainType'
    BY <1>4 DEF CommitBlock, ChainType, TypeOK, HasTx
  <1>5. ASSUME NEW t \in Txs, NEW o \in Observers, Observe(o, t) PROVE ChainType'
    <2>1. seen' \in [Observers -> SUBSET Txs]
      BY <1>5 DEF Observe, ChainType, TypeOK
    <2> QED
      BY <1>5, <2>1 DEF Observe, ChainType, TypeOK, HasTx
  <1>6. ASSUME NEW tornNonces \in BOOLEAN, NEW tornIdem \in BOOLEAN,
               Crash(tornNonces, tornIdem)
        PROVE  ChainType'
    <2>1. Gone \in RequestState /\ Gone.pc = "dead"
      BY DEF RequestState, Gone, NoTx, Entries
    <2>2. request' \in [Requests -> RequestState] /\ HasTx'
      BY <1>6, <2>1 DEF Crash, ChainType, TypeOK, HasTx
    <2>3. idem' \in Entries /\ idemDisk' \in Entries
      BY <1>6, NoEntryIsEntry DEF Crash, ChainType, TypeOK
    <2>4. nonces' \subseteq Calls /\ nonceDisk' \subseteq Calls
      BY <1>6 DEF Crash, ChainType, TypeOK
    <2>5. hurt' \subseteq Causes /\ faults' \in 0 .. MaxFaults
      BY <1>6, FaultType DEF Crash, Hurt, Causes, ChainType, TypeOK
    <2> QED
      BY <1>6, <2>2, <2>3, <2>4, <2>5 DEF Crash, ChainType, TypeOK
  <1> QED
    BY <1>1, <1>2, <1>3, <1>4, <1>5, <1>6 DEF FileStep, FabricStep

\* Every step keeps the types.
LEMMA ChainTypeStep == ASSUME ChainType, [Next]_vars PROVE ChainType'
  <1>1. CASE UNCHANGED vars
    BY <1>1 DEF vars, worker, memory, disk, chain, bounds, ChainType, TypeOK, HasTx
  <1>2. CASE NewCall \/ ServiceStep \/ Poll
    BY <1>2, ServiceType, WorkerType DEF NewCall, ServiceStep, Poll
  <1>3. CASE HandlerStep \/ IncompleteReceipt
    BY <1>3, HandlerType, StoreType DEF HandlerStep, IncompleteReceipt, Bodies, Hashes
  <1>4. CASE FaultStep
    BY <1>4, ServiceType, HandlerType, OutsideType DEF FaultStep
  <1>5. CASE FileStep \/ PersistNonces \/ FabricStep
    BY <1>5, OutsideType
  <1> QED
    BY <1>1, <1>2, <1>3, <1>4, <1>5 DEF Next

\* The types hold at the start.
LEMMA InitChainType == Init => ChainType
  <1> SUFFICES ASSUME Init PROVE ChainType
    OBVIOUS
  <1>1. call \in [Calls -> CallState] /\ 0 \in Attempts
    BY ChainAnchorAssumption, NoEntryIsEntry DEF Init, CallState, Attempts
  <1>2. request \in [Requests -> RequestState] /\ HasTx
    BY NoEntryIsEntry DEF Init, RequestState, HasTx
  <1>3. row \in [amount : Amounts, status : {"PENDING", "ANCHORED"}, tx : Txs \cup {NoTx}]
    BY DEF Init
  <1>4. faults \in 0 .. MaxFaults /\ hurt \subseteq Causes
    BY ChainAnchorAssumption DEF Init
  <1> QED
    BY <1>1, <1>2, <1>3, <1>4, NoEntryIsEntry DEF Init, ChainType, TypeOK

-----------------------------------------------------------------------------
(* Every record is backed by the ledger.  The stores and the answers on    *)
(* their way have to be followed too: the worker records what it is told,  *)
(* long after the commit the answer is about.                              *)

\* The entry, if it is one, is about a committed transaction.
Backed(e) == e = NoEntry \/ e.tx \in Committed

\* What the gateway has in memory, on disk and in writes under way.
StoresBacked ==
    /\ Backed(idem) /\ Backed(idemDisk)
    /\ \A t \in Txs : receipts[t] # "none" \/ receiptDisk[t] # "none" => t \in Committed
    /\ \A w \in writes : Backed(w[2])

\* The answers the chain service has, the ones on the way, and the handlers
\* that are about to store a receipt.
AnswersBacked ==
    /\ \A c \in Calls : Backed(call[c].entry)
    /\ \A r \in Requests :
          /\ Backed(request[r].entry)
          /\ request[r].pc = "store" => request[r].tx \in Committed

BackedInv == ChainType /\ StoresBacked /\ AnswersBacked /\ AnchoredIsOnLedger

\* A committed transaction stays on the ledger and an observer keeps its blocks.
LEMMA LedgerGrows ==
    ASSUME ChainType, [Next]_vars
    PROVE  /\ Committed \subseteq Committed'
           /\ \A o \in Observers : seen[o] \subseteq seen'[o]
  <1> USE DEF memory, disk, chain, bounds, worker
  <1>1. CASE ledger' = ledger /\ seen' = seen
    BY <1>1 DEF Committed
  <1>2. ASSUME NEW r \in Requests, Submit(r)
        PROVE  /\ Committed \subseteq Committed'
               /\ \A o \in Observers : seen[o] \subseteq seen'[o]
    <2>1. seen' = seen
      BY <1>2 DEF Submit
    <2> QED
      BY <1>2, <2>1, SubmitStep DEF Committed, ChainType, TypeOK
  <1>3. ASSUME NEW t \in Txs, CommitBlock(t)
        PROVE  /\ Committed \subseteq Committed'
               /\ \A o \in Observers : seen[o] \subseteq seen'[o]
    BY <1>3 DEF CommitBlock, Committed, ChainType, TypeOK
  <1>4. ASSUME NEW t \in Txs, NEW o \in Observers, Observe(o, t)
        PROVE  /\ Committed \subseteq Committed'
               /\ \A p \in Observers : seen[p] \subseteq seen'[p]
    BY <1>4 DEF Observe, Committed, ChainType, TypeOK
  <1>5. CASE NewCall \/ ServiceStep \/ Poll
    BY <1>1, <1>5 DEF NewCall, ServiceStep, Poll, AnchorTransfer, ConnectionLost, PostRefused,
                      PostAnswered, AnchorReturns, PollReceipt
  <1>6. CASE HandlerStep \/ IncompleteReceipt
    BY <1>1, <1>2, <1>6, ZenonT(60) DEF HandlerStep, IncompleteReceipt, IdempotencyHit, IdempotencyMiss,
            NonceExists, NonceNew, NonceAdd, CommitStatus, StoreReceipt
  <1>7. CASE FaultStep
    BY <1>1, <1>7 DEF FaultStep, WorkerTimeout, PostTimeout, TimestampRefused, EndorseFails,
            CommitStatusLost, IdempotencyExpires, Crash
  <1>8. CASE FileStep \/ PersistNonces \/ FabricStep
    BY <1>1, <1>3, <1>4, <1>8 DEF FileStep, WriteIdem, WriteReceipt, PersistNonces, FabricStep
  <1>9. CASE UNCHANGED vars
    BY <1>1, <1>9 DEF vars
  <1> QED
    BY <1>5, <1>6, <1>7, <1>8, <1>9 DEF Next

\* The arithmetic of the majority.
LEMMA Majority ==
    ASSUME NEW n \in Nat, NEW m \in Nat, NEW k \in Nat, n <= m
    PROVE  /\ 2 * (1 + n) > 1 + k => 2 * (1 + m) > 1 + k
           /\ ~(1 + n < (1 + k) \div 2 + 1) => 2 * (1 + m) > 1 + k
           /\ k = 0 => 2 * (1 + m) > 1 + k
  OBVIOUS

\* The confirmations counted are confirmations there are.
LEMMA Confirmed ==
    ASSUME NEW S, S \subseteq Observers, NEW T, T \subseteq Observers, S \subseteq T
    PROVE  /\ Cardinality(S) \in Nat /\ Cardinality(T) \in Nat
           /\ Cardinality(Observers) \in Nat
           /\ Cardinality(S) <= Cardinality(T)
           /\ Observers = {} => Cardinality(Observers) = 0
  <1>1. IsFiniteSet(Observers) /\ IsFiniteSet(T) /\ IsFiniteSet(S)
    BY ChainAnchorAssumption, FS_Subset
  <1> QED
    BY <1>1, FS_Subset, FS_CardinalityType, FS_EmptySet

\* A row that did not change stays anchored: confirmations only come in.
LEMMA AnchoredStays ==
    ASSUME ChainType, ChainType', AnchoredIsOnLedger, row' = row,
           Committed \subseteq Committed',
           \A o \in Observers : seen[o] \subseteq seen'[o]
    PROVE  AnchoredIsOnLedger'
  <1> SUFFICES ASSUME row.status = "ANCHORED"
               PROVE  /\ row.tx \in Committed'
                      /\ RequireQuorum => 2 * (1 + Cardinality(Confirming(row.tx)'))
                                              > 1 + Cardinality(Observers)
    BY DEF AnchoredIsOnLedger, Confirming
  <1>1. Confirming(row.tx) \subseteq Confirming(row.tx)'
    BY DEF Confirming
  <1>2. /\ Cardinality(Confirming(row.tx)) \in Nat /\ Cardinality(Confirming(row.tx)') \in Nat
        /\ Cardinality(Observers) \in Nat
        /\ Cardinality(Confirming(row.tx)) <= Cardinality(Confirming(row.tx)')
    BY <1>1, Confirmed DEF Confirming
  <1>3. RequireQuorum => 2 * (1 + Cardinality(Confirming(row.tx))) > 1 + Cardinality(Observers)
    BY DEF AnchoredIsOnLedger
  <1> QED
    BY <1>2, <1>3, Majority DEF AnchoredIsOnLedger

\* What the worker records as anchored, from an entry that is backed, is.
LEMMA RecordedIsBacked ==
    ASSUME ChainType, NEW t \in Txs \cup {NoTx}, NEW body, Recorded(t, body),
           body = "full" => t \in Committed, Committed' = Committed, seen' = seen
    PROVE  AnchoredIsOnLedger'
  <1>1. PICK confirming \in SUBSET Confirming(t) :
          row' = [row EXCEPT !.tx = t, !.status = EnrichedStatus(body, confirming)]
    BY DEF Recorded
  <1>2. row'.tx = t /\ row'.status = EnrichedStatus(body, confirming)
    BY <1>1 DEF ChainType, TypeOK
  <1> SUFFICES ASSUME EnrichedStatus(body, confirming) = "ANCHORED"
               PROVE  /\ t \in Committed
                      /\ RequireQuorum => 2 * (1 + Cardinality(Confirming(t)))
                                              > 1 + Cardinality(Observers)
    BY <1>2 DEF AnchoredIsOnLedger, Confirming
  <1>3. body = "full" /\ (~RequireQuorum \/ Observers = {}
                          \/ ~(1 + Cardinality(confirming) < RequiredQuorum))
    BY DEF EnrichedStatus, ReceiptStatus
  <1>4. /\ Cardinality(confirming) \in Nat /\ Cardinality(Confirming(t)) \in Nat
        /\ Cardinality(Observers) \in Nat
        /\ Cardinality(confirming) <= Cardinality(Confirming(t))
        /\ Observers = {} => Cardinality(Observers) = 0
    BY Confirmed DEF Confirming
  <1> QED
    BY <1>3, <1>4, Majority DEF RequiredQuorum

\* The stores change when a receipt is stored or rebuilt, written, or lost.
LEMMA StoresStep ==
    ASSUME BackedInv, [Next]_vars PROVE StoresBacked'
  <1> USE DEF memory, disk, chain, bounds, worker
  <1>0. Committed \subseteq Committed'
    BY LedgerGrows DEF BackedInv
  <1>1. CASE UNCHANGED <<idem, idemDisk, receipts, receiptDisk, writes>>
    BY <1>0, <1>1 DEF BackedInv, StoresBacked, Backed
  <1>2. ASSUME NEW r \in Requests, NEW body \in Bodies, NEW hash \in Hashes,
             StoreReceipt(r, body, hash)
        PROVE  StoresBacked'
    <2> DEFINE t == request[r].tx
               e == [tx |-> t, body |-> body]
    <2>1. t \in Committed /\ e.tx = t
      BY <1>2 DEF StoreReceipt, BackedInv, AnswersBacked
    <2>2. /\ receipts' = [receipts EXCEPT ![t] = body]
          /\ idem' = e /\ writes' = writes \cup {<<"idem", e>>, <<"receipt", e>>}
          /\ idemDisk' = idemDisk /\ receiptDisk' = receiptDisk
      BY <1>2, <2>1 DEF StoreReceipt
    <2> HIDE DEF e
    <2>3. \A w \in writes' : Backed(w[2])'
      BY <1>0, <2>1, <2>2 DEF BackedInv, StoresBacked, Backed
    <2>4. \A u \in Txs : receipts'[u] # "none" \/ receiptDisk'[u] # "none" => u \in Committed'
      BY <1>0, <2>1, <2>2 DEF BackedInv, StoresBacked, ChainType, TypeOK
    <2> QED
      BY <1>0, <2>1, <2>2, <2>3, <2>4 DEF BackedInv, StoresBacked, Backed
  <1>3. ASSUME NEW rebuilt \in BOOLEAN, PollReceipt(rebuilt) PROVE StoresBacked'
    <2> DEFINE t == row.tx
               e == [tx |-> t, body |-> RebuiltBody(t, rebuilt)]
    <2>1. /\ t \in Txs /\ receipts[t] # "none"
          /\ writes' \subseteq writes \cup {<<"receipt", e>>}
          /\ receipts' = [receipts EXCEPT ![t] = RebuiltBody(t, rebuilt)]
          /\ idem' = idem /\ idemDisk' = idemDisk /\ receiptDisk' = receiptDisk
      BY <1>3 DEF PollReceipt, BackedInv, ChainType, TypeOK
    <2>2. t \in Committed /\ e.tx = t
      BY <2>1 DEF BackedInv, StoresBacked
    <2> HIDE DEF e
    <2>3. \A w \in writes' : Backed(w[2])'
      BY <1>0, <2>1, <2>2 DEF BackedInv, StoresBacked, Backed
    <2>4. \A u \in Txs : receipts'[u] # "none" \/ receiptDisk'[u] # "none" => u \in Committed'
      BY <1>0, <2>1, <2>2 DEF BackedInv, StoresBacked, ChainType, TypeOK
    <2> QED
      BY <1>0, <2>1, <2>2, <2>3, <2>4 DEF BackedInv, StoresBacked, Backed
  <1>4. ASSUME NEW e \in Entries, WriteIdem(e) PROVE StoresBacked'
    BY <1>0, <1>4 DEF WriteIdem, BackedInv, StoresBacked, Backed
  <1>5. ASSUME NEW e \in Entries, WriteReceipt(e) PROVE StoresBacked'
    <2>1. e.body = "none" \/ e.tx \in Committed
      BY <1>5 DEF WriteReceipt, BackedInv, StoresBacked, Backed, NoEntry
    <2>2. \A u \in Txs : receiptDisk'[u] # "none" => u \in Committed'
      BY <1>0, <1>5, <2>1 DEF WriteReceipt, BackedInv, StoresBacked, ChainType, TypeOK
    <2> QED
      BY <1>0, <1>5, <2>2 DEF WriteReceipt, BackedInv, StoresBacked, Backed
  <1>6. CASE IdempotencyExpires
    BY <1>0, <1>6 DEF IdempotencyExpires, BackedInv, StoresBacked, Backed
  <1>7. ASSUME NEW tornNonces \in BOOLEAN, NEW tornIdem \in BOOLEAN,
               Crash(tornNonces, tornIdem)
        PROVE  StoresBacked'
    BY <1>0, <1>7 DEF Crash, BackedInv, StoresBacked, Backed
  <1>8. CASE NewCall \/ ServiceStep \/ Poll
    BY <1>1, <1>3, <1>8, ZenonT(60) DEF NewCall, ServiceStep, Poll, AnchorTransfer, ConnectionLost,
            PostRefused, PostAnswered, AnchorReturns
  <1>9. CASE HandlerStep \/ IncompleteReceipt
    BY <1>1, <1>2, <1>9, ZenonT(60) DEF HandlerStep, IncompleteReceipt, IdempotencyHit, IdempotencyMiss,
            NonceExists, NonceNew, NonceAdd, Submit, CommitStatus, Bodies, Hashes
  <1>10. CASE FaultStep
    BY <1>1, <1>6, <1>7, <1>10 DEF FaultStep, WorkerTimeout, PostTimeout, TimestampRefused,
            EndorseFails, CommitStatusLost
  <1>11. CASE FileStep \/ PersistNonces \/ FabricStep
    BY <1>1, <1>4, <1>5, <1>11 DEF FileStep, PersistNonces, FabricStep, CommitBlock, Observe
  <1>12. CASE UNCHANGED vars
    BY <1>1, <1>12 DEF vars
  <1> QED
    BY <1>8, <1>9, <1>10, <1>11, <1>12 DEF Next

\* One handler's new state is backed, the others are as they were.
LEMMA HandlersBacked ==
    ASSUME BackedInv, [Next]_vars, NEW r \in Requests,
           \A q \in Requests : q # r => request'[q] = request[q],
           Backed(request'[r].entry),
           request'[r].pc = "store" => request'[r].tx \in Committed
    PROVE  (\A q \in Requests : /\ Backed(request[q].entry)
                                /\ request[q].pc = "store" => request[q].tx \in Committed)'
  BY LedgerGrows DEF BackedInv, AnswersBacked, Backed

\* A call's entry, if it changes, comes from a handler's answer.
LEMMA AnswersStep ==
    ASSUME BackedInv, [Next]_vars PROVE AnswersBacked'
  <1> USE DEF memory, disk, chain, bounds, worker
  <1>0. ChainType /\ Committed \subseteq Committed'
    BY LedgerGrows DEF BackedInv
  <1> DEFINE CallsBacked == \A c \in Calls : Backed(call[c].entry)
             RequestsBacked == \A r \in Requests :
                    /\ Backed(request[r].entry)
                    /\ request[r].pc = "store" => request[r].tx \in Committed
  <1>1. CallsBacked' /\ RequestsBacked' => AnswersBacked'
    BY DEF AnswersBacked
  <1>2. (\A c \in Calls : call'[c].entry \in {call[c].entry, NoEntry}) => CallsBacked'
    BY <1>0 DEF BackedInv, AnswersBacked, Backed
  <1>3. request' = request => RequestsBacked'
    BY <1>0 DEF BackedInv, AnswersBacked, Backed
  <1>4. ASSUME NEW r \in Requests, NEW pc, To(r, pc),
               pc \in {"idem", "nonce", "add", "submit", "store"},
               pc = "store" => request[r].tx \in Committed
        PROVE  RequestsBacked'
    <2>1. pc = "store" => request[r].tx \in Txs
      BY <1>4 DEF Committed
    <2> QED
      BY <1>0, <1>4, <2>1, ToStep, HandlersBacked DEF BackedInv, AnswersBacked
  <1>5. ASSUME NEW r \in Requests, NEW pc \in {"ok", "refused"}, NEW e \in Entries,
               Answer(r, pc, e), Backed(e)
        PROVE  RequestsBacked'
    <2>1. Backed(NoEntry)
      BY DEF Backed
    <2> QED
      BY <1>0, <1>5, <2>1, AnswerStep, HandlersBacked
  <1>6. ASSUME NEW r \in Requests, Refuse(r) PROVE RequestsBacked'
    BY <1>5, <1>6, NoEntryIsEntry DEF Refuse, Backed
  <1>7. ASSUME NEW r \in Requests, request' = [request EXCEPT ![r] = Gone]
        PROVE  RequestsBacked'
    <2>1. Backed(Gone.entry) /\ Gone.pc = "dead"
      BY DEF Backed, Gone
    <2> QED
      BY <1>0, <1>7, <2>1, GoneStep, HandlersBacked
  <1>8. ASSUME NEW c \in Calls, RetryOrFail(c) PROVE CallsBacked' /\ RequestsBacked'
    <2>1. \A d \in Calls : call'[d].entry = call[d].entry
      BY <1>0, <1>8 DEF RetryOrFail, Fail, ChainType, TypeOK, CallState
    <2>2. CASE call[c].attempt < MaxRetries
      <3>1. To(<<c, call[c].attempt + 1>>, "idem")
        BY <1>8, <2>2 DEF RetryOrFail, To
      <3> QED
        BY <1>0, <1>2, <1>4, <2>1, <2>2, <3>1, RequestsOfCall
    <2>3. CASE ~(call[c].attempt < MaxRetries)
      BY <1>2, <1>3, <1>8, <2>1, <2>3 DEF RetryOrFail
    <2> QED
      BY <2>2, <2>3
  <1>9. ASSUME NEW c \in Calls, AnchorTransfer(c) PROVE AnswersBacked'
    <2>1. \A d \in Calls : call'[d].entry = call[d].entry
      BY <1>0, <1>9 DEF AnchorTransfer, ChainType, TypeOK, CallState
    <2>2. To(<<c, 0>>, "idem")
      BY <1>9 DEF AnchorTransfer, To
    <2> QED
      BY <1>0, <1>1, <1>2, <1>4, <2>1, <2>2, RequestsOfCall
  <1>10. ASSUME NEW c \in Calls, PostRefused(c) PROVE AnswersBacked'
    <2>1. \A d \in Calls : call'[d].entry = call[d].entry
      BY <1>0, <1>10 DEF PostRefused, Fail, ChainType, TypeOK, CallState
    <2> QED
      BY <1>0, <1>1, <1>2, <1>7, <1>10, <2>1, RequestsOfCall DEF PostRefused
  <1>11. ASSUME NEW c \in Calls, PostAnswered(c) PROVE AnswersBacked'
    <2>1. \A d \in Calls : call'[d].entry \in {call[d].entry, request[Current(c)].entry}
      BY <1>0, <1>11 DEF PostAnswered, ChainType, TypeOK, CallState
    <2>2. CallsBacked'
      BY <1>0, <2>1, RequestsOfCall DEF BackedInv, AnswersBacked, Backed
    <2> QED
      BY <1>0, <1>1, <1>7, <1>11, <2>2, RequestsOfCall DEF PostAnswered
  <1>12. ASSUME NEW c \in Calls, AnchorReturns(c) PROVE AnswersBacked'
    <2>1. \A d \in Calls : call'[d].entry \in {call[d].entry, NoEntry}
      BY <1>0, <1>12 DEF AnchorReturns, ChainType, TypeOK, CallState
    <2> QED
      BY <1>1, <1>2, <1>3, <1>12, <2>1 DEF AnchorReturns
  <1>13. ASSUME NEW r \in Requests, NEW body \in Bodies, NEW hash \in Hashes,
             StoreReceipt(r, body, hash)
         PROVE  AnswersBacked'
    <2> DEFINE e == [tx |-> request[r].tx, body |-> body]
    <2>1. e \in Entries
      BY <1>0, <1>13, StoreType
    <2>2. Backed(e)
      BY <1>13 DEF StoreReceipt, Backed, BackedInv, AnswersBacked
    <2>3. Answer(r, "ok", e) /\ call' = call
      BY <1>13 DEF StoreReceipt
    <2> HIDE DEF e
    <2> QED
      BY <1>1, <1>2, <1>5, <2>1, <2>2, <2>3
  <1>14. ASSUME NEW tornNonces \in BOOLEAN, NEW tornIdem \in BOOLEAN,
                Crash(tornNonces, tornIdem)
         PROVE  AnswersBacked'
    <2>1. \A r \in Requests : request'[r] \in {request[r], Gone}
      BY <1>14 DEF Crash
    <2>2. Gone.entry = NoEntry /\ Gone.pc = "dead"
      BY DEF Gone
    <2>3. RequestsBacked'
      BY <1>0, <2>1, <2>2 DEF BackedInv, AnswersBacked, Backed
    <2> QED
      BY <1>1, <1>2, <1>14, <2>3 DEF Crash
  <1>15. ASSUME NEW r \in Requests,
                \/ IdempotencyHit(r) \/ IdempotencyMiss(r) \/ NonceExists(r) \/ NonceNew(r)
                \/ TimestampRefused(r) \/ NonceAdd(r) \/ EndorseFails(r) \/ CommitStatus(r)
                \/ \E retryable \in BOOLEAN : CommitStatusLost(r, retryable)
         PROVE  AnswersBacked'
    <2>1. call' = call
      BY <1>15 DEF IdempotencyHit, IdempotencyMiss, NonceExists, NonceNew, TimestampRefused,
                   NonceAdd, EndorseFails, CommitStatus, CommitStatusLost
    <2>2. ASSUME IdempotencyHit(r) PROVE RequestsBacked'
      BY <1>5, <2>2 DEF IdempotencyHit, BackedInv, StoresBacked, ChainType, TypeOK
    <2>3. ASSUME IdempotencyMiss(r) \/ NonceNew(r) \/ NonceAdd(r) \/ CommitStatus(r)
          PROVE  RequestsBacked'
      BY <1>4, <2>3 DEF IdempotencyMiss, NonceNew, NonceAdd, CommitStatus
    <2>4. ASSUME NonceExists(r) \/ TimestampRefused(r) \/ EndorseFails(r)
          PROVE  RequestsBacked'
      BY <1>6, <2>4 DEF NonceExists, TimestampRefused, EndorseFails
    <2>5. ASSUME NEW retryable \in BOOLEAN, CommitStatusLost(r, retryable)
          PROVE  RequestsBacked'
      BY <1>4, <1>6, <2>5 DEF CommitStatusLost
    <2>6. RequestsBacked'
      <3> HIDE DEF RequestsBacked
      <3> QED
        BY <1>15, <2>2, <2>3, <2>4, <2>5
    <2> QED
      BY <1>1, <1>2, <2>1, <2>6
  <1>16. ASSUME NEW r \in Requests, Submit(r) PROVE AnswersBacked'
    <2>1. call' = call
      BY <1>16 DEF Submit
    <2>2. RequestsBacked'
      BY <1>0, <1>16, SubmitStep, HandlersBacked DEF BackedInv, AnswersBacked
    <2> QED
      BY <1>1, <1>2, <2>1, <2>2
  <1> HIDE DEF CallsBacked, RequestsBacked
  <1>17. CASE UNCHANGED <<call, request>>
    BY <1>1, <1>2, <1>3, <1>17
  <1>18. CASE NewCall \/ ServiceStep \/ Poll
    BY <1>1, <1>8, <1>9, <1>10, <1>11, <1>12, <1>17, <1>18
       DEF NewCall, ServiceStep, Poll, ConnectionLost, PollReceipt
  <1>19. CASE HandlerStep \/ IncompleteReceipt
    BY <1>13, <1>15, <1>16, <1>19 DEF HandlerStep, IncompleteReceipt, Bodies, Hashes
  <1>20. CASE FaultStep
    BY <1>1, <1>8, <1>14, <1>15, <1>17, <1>20
       DEF FaultStep, WorkerTimeout, PostTimeout, IdempotencyExpires
  <1>21. CASE FileStep \/ PersistNonces \/ FabricStep
    BY <1>17, <1>21 DEF FileStep, WriteIdem, WriteReceipt, PersistNonces, FabricStep,
                        CommitBlock, Observe
  <1>22. CASE UNCHANGED vars
    BY <1>17, <1>22 DEF vars
  <1> QED
    BY <1>18, <1>19, <1>20, <1>21, <1>22 DEF Next

\* Every step keeps the records backed.
LEMMA BackedStep == ASSUME BackedInv, [Next]_vars PROVE BackedInv'
  <1> USE DEF memory, disk, chain, bounds, worker
  <1>0. /\ ChainType /\ ChainType' /\ AnchoredIsOnLedger
        /\ Committed \subseteq Committed'
        /\ \A o \in Observers : seen[o] \subseteq seen'[o]
    BY ChainTypeStep, LedgerGrows DEF BackedInv
  <1>1. row' = row => AnchoredIsOnLedger'
    BY <1>0, AnchoredStays
  <1>2. ASSUME NEW c \in Calls, AnchorReturns(c) PROVE AnchoredIsOnLedger'
    <2> DEFINE e == call[c].entry
    <2>1. e.tx \in Txs \cup {NoTx} /\ (e.body = "full" => e # NoEntry)
      BY <1>0 DEF ChainType, TypeOK, CallState, Entries, NoEntry
    <2>2. e.body = "full" => e.tx \in Committed
      BY <2>1 DEF BackedInv, AnswersBacked, Backed
    <2>3. Committed' = Committed /\ seen' = seen
      BY <1>2 DEF AnchorReturns, Committed
    <2>4. row' = row \/ Recorded(e.tx, e.body)
      BY <1>2, RowStep
    <2> HIDE DEF e
    <2> QED
      BY <1>0, <1>1, <2>1, <2>2, <2>3, <2>4, RecordedIsBacked
  <1>3. ASSUME NEW rebuilt \in BOOLEAN, PollReceipt(rebuilt) PROVE AnchoredIsOnLedger'
    <2>1. row.tx \in Txs /\ row.tx \in Committed
      BY <1>0, <1>3 DEF PollReceipt, ChainType, TypeOK, BackedInv, StoresBacked
    <2>2. Committed' = Committed /\ seen' = seen
      BY <1>3 DEF PollReceipt, Committed
    <2> QED
      BY <1>0, <1>3, <2>1, <2>2, RowStep, RecordedIsBacked
  <1>4. AnchoredIsOnLedger'
    <2>1. CASE NewCall \/ ServiceStep \/ Poll
      BY <1>1, <1>2, <1>3, <2>1 DEF NewCall, ServiceStep, Poll, AnchorTransfer, ConnectionLost,
            PostRefused, PostAnswered
    <2>2. CASE HandlerStep \/ IncompleteReceipt
      BY <1>1, <2>2 DEF HandlerStep, IncompleteReceipt, IdempotencyHit, IdempotencyMiss,
            NonceExists, NonceNew, NonceAdd, Submit, CommitStatus, StoreReceipt
    <2>3. CASE FaultStep
      BY <1>1, <2>3 DEF FaultStep, WorkerTimeout, PostTimeout, TimestampRefused, EndorseFails,
            CommitStatusLost, IdempotencyExpires, Crash
    <2>4. CASE FileStep \/ PersistNonces \/ FabricStep \/ UNCHANGED vars
      BY <1>1, <2>4 DEF FileStep, WriteIdem, WriteReceipt, PersistNonces, FabricStep,
            CommitBlock, Observe, vars
    <2> QED
      BY <2>1, <2>2, <2>3, <2>4 DEF Next
  <1> QED
    BY <1>0, <1>4, StoresStep, AnswersStep DEF BackedInv

\* Nothing is recorded at the start.
LEMMA InitBacked == Init => BackedInv
  <1> SUFFICES ASSUME Init PROVE BackedInv
    OBVIOUS
  <1>1. row.status = "PENDING"
    BY DEF Init
  <1>2. StoresBacked
    BY DEF Init, StoresBacked, Backed
  <1>3. AnswersBacked
    BY DEF Init, AnswersBacked, Backed
  <1> QED
    BY <1>1, <1>2, <1>3, InitChainType DEF BackedInv, AnchoredIsOnLedger

\* What the wallet calls ANCHORED and every receipt and idempotency entry of the
\* gateway, in memory or in a file, is about a committed transaction, and with
\* the quorum switch on a majority of the nodes has it: applyChainResult,
\* storeReceipt and the stores' files never run ahead of the ledger.
THEOREM EveryRecordIsBacked == Spec => []RecordsAreBacked
  <1>1. Init => BackedInv
    BY InitBacked
  <1>2. BackedInv /\ [Next]_vars => BackedInv'
    BY BackedStep
  <1>3. BackedInv => RecordsAreBacked
    <2> SUFFICES ASSUME BackedInv PROVE RecordsAreBacked
      OBVIOUS
    <2>1. idem.tx \in Committed \cup {NoTx} /\ idemDisk.tx \in Committed \cup {NoTx}
      BY DEF BackedInv, StoresBacked, Backed, NoEntry
    <2> QED
      BY <2>1 DEF BackedInv, StoresBacked, RecordsAreBacked, StoresTellTheLedger
  <1> QED
    BY <1>1, <1>2, <1>3, PTL DEF Spec

-----------------------------------------------------------------------------
(* One intent, as long as nothing is in hurt.  The key and the nonce do    *)
(* this together: the key keeps a second call out once a receipt is        *)
(* stored, the nonce keeps a second request of the same call out before.   *)

\* Handlers from the nonce check on, and the ones past it.
Admitted == {r \in Requests : request[r].pc \in {"add", "submit", "commit", "store"}}
Noted == {r \in Requests : request[r].pc \in {"submit", "commit", "store"}}

\* A handler that waits for a commit, or has it, for transaction t.
Holds(r, t) == request[r].pc \in {"commit", "store"} /\ request[r].tx = t

\* Requests that have not been posted yet have no handler.
Unposted == \A r \in Requests :
    (call[r[1]].pc = "idle" \/ r[2] > call[r[1]].attempt) => request[r].pc = "none"

\* Only one call is past the key, only one of its requests past the nonce; once
\* the receipt is stored the rest will be refused.
OneAtATime ==
    /\ \A q, r \in Unstored : q[1] = r[1]
    /\ \A q, r \in Admitted : q = r
    /\ \A r \in Noted : r[1] \in nonces
    /\ idem # NoEntry => \A r \in Unstored : request[r].pc = "nonce" /\ r[1] \in nonces

\* A transaction once submitted is held by its handler or stored under the key,
\* and there is one.
OneIntent ==
    /\ \A t \in Txs : ledger[t] # "unused" =>
          idem # NoEntry \/ \E r \in Requests : Holds(r, t)
    /\ \A t, u \in Txs : ledger[t] # "unused" /\ ledger[u] # "unused" => t = u

IntentInv == ChainType /\ Unposted /\ (hurt = {} => OneAtATime /\ OneIntent)

\* A step of one posted handler leaves the unposted requests alone.
LEMMA HandlerUnposted ==
    ASSUME Unposted, NEW r \in Requests, request[r].pc # "none", call' = call,
           \A q \in Requests : q # r => request'[q] = request[q]
    PROVE  Unposted'
  BY DEF Unposted

\* Only posting a request starts its handler.
LEMMA UnpostedStep == ASSUME IntentInv, [Next]_vars PROVE Unposted'
  <1> USE DEF memory, disk, chain, bounds, worker
  <1>0. ChainType /\ Unposted
    BY DEF IntentInv
  <1>1. CASE UNCHANGED <<call, request>>
    BY <1>0, <1>1 DEF Unposted
  <1>2. ASSUME NEW c \in Calls, RetryOrFail(c), call[c].pc = "posting" PROVE Unposted'
    <2>1. CASE call[c].attempt < MaxRetries
      <3> DEFINE n == call[c].attempt + 1
      <3>1. /\ n \in Nat /\ n > call[c].attempt /\ call[c].attempt \in Nat
            /\ <<c, n>> \in Requests /\ To(<<c, n>>, "idem")
        <4>1. To(<<c, n>>, "idem")
          BY <1>2, <2>1 DEF RetryOrFail, To
        <4>2. call[c].attempt \in Nat /\ <<c, n>> \in Requests
          BY <1>0, <2>1, RequestsOfCall
        <4> QED
          BY <4>1, <4>2
      <3>2. /\ \A d \in Calls : call'[d].pc = call[d].pc /\ (d # c => call'[d] = call[d])
            /\ call'[c].attempt = n
        BY <1>0, <1>2, <2>1 DEF RetryOrFail, ChainType, TypeOK, CallState
      <3> HIDE DEF n
      <3>3. \A q \in Requests : q # <<c, n>> => request'[q] = request[q]
        BY <1>0, <3>1, ToStep
      <3> SUFFICES ASSUME NEW q \in Requests,
                          call'[q[1]].pc = "idle" \/ q[2] > call'[q[1]].attempt
                   PROVE  request'[q].pc = "none"
        BY DEF Unposted
      <3>4. q[1] \in Calls /\ q[2] \in Nat
        BY ChainAnchorAssumption DEF Requests, Attempts
      <3>5. CASE q[1] = c
        BY <1>0, <1>2, <3>1, <3>2, <3>3, <3>4, <3>5 DEF Unposted
      <3>6. CASE q[1] # c
        BY <1>0, <3>2, <3>3, <3>4, <3>6 DEF Unposted
      <3> QED
        BY <3>5, <3>6
    <2>2. CASE ~(call[c].attempt < MaxRetries)
      <3>1. request' = request /\ Fail(c)
        BY <1>2, <2>2 DEF RetryOrFail
      <3>2. \A d \in Calls : /\ call'[d].attempt = call[d].attempt
                             /\ call'[d].pc = "idle" => call[d].pc = "idle"
        BY <1>0, <3>1 DEF Fail, ChainType, TypeOK, CallState
      <3> QED
        BY <1>0, <3>1, <3>2 DEF Unposted, Requests
    <2> QED
      BY <2>1, <2>2
  <1>3. ASSUME NEW c \in Calls, AnchorTransfer(c) PROVE Unposted'
    <2>1. /\ call[c].attempt \in Nat /\ <<c, 0>> \in Requests /\ To(<<c, 0>>, "idem")
      BY <1>0, <1>3, RequestsOfCall DEF AnchorTransfer, To
    <2>2. /\ \A d \in Calls : call'[d].attempt = call[d].attempt /\ (d # c => call'[d] = call[d])
          /\ call'[c].pc = "posting" /\ call[c].pc = "idle"
      BY <1>0, <1>3 DEF AnchorTransfer, ChainType, TypeOK, CallState
    <2>3. \A q \in Requests : q # <<c, 0>> => request'[q] = request[q]
      BY <1>0, <2>1, ToStep
    <2> SUFFICES ASSUME NEW q \in Requests,
                        call'[q[1]].pc = "idle" \/ q[2] > call'[q[1]].attempt
                 PROVE  request'[q].pc = "none"
      BY DEF Unposted
    <2>4. q[1] \in Calls /\ q[2] \in Nat
      BY ChainAnchorAssumption DEF Requests, Attempts
    <2>5. CASE q[1] = c
      BY <1>0, <2>1, <2>2, <2>3, <2>4, <2>5 DEF Unposted
    <2>6. CASE q[1] # c
      BY <1>0, <2>2, <2>3, <2>4, <2>6 DEF Unposted
    <2> QED
      BY <2>5, <2>6
  <1>4. ASSUME NEW c \in Calls, PostRefused(c) \/ PostAnswered(c) PROVE Unposted'
    <2>1. \A d \in Calls : /\ call'[d].attempt = call[d].attempt
                           /\ call'[d].pc = "idle" => call[d].pc = "idle"
      BY <1>0, <1>4 DEF PostRefused, Fail, PostAnswered, ChainType, TypeOK, CallState
    <2>2. /\ request[Current(c)].pc # "none"
          /\ \A q \in Requests : q # Current(c) => request'[q] = request[q]
      BY <1>0, <1>4, GoneStep, RequestsOfCall DEF PostRefused, PostAnswered
    <2> QED
      BY <1>0, <2>1, <2>2 DEF Unposted, Requests
  <1>5. ASSUME NEW c \in Calls, AnchorReturns(c) PROVE Unposted'
    <2>1. \A d \in Calls : /\ call'[d].attempt = call[d].attempt
                           /\ call'[d].pc = "idle" => call[d].pc = "idle"
      BY <1>0, <1>5 DEF AnchorReturns, ChainType, TypeOK, CallState
    <2> QED
      BY <1>0, <1>5, <2>1 DEF AnchorReturns, Unposted, Requests
  <1>6. ASSUME NEW r \in Requests, NEW pc, To(r, pc), request[r].pc # "none", call' = call,
               pc \in {"nonce", "add", "submit"} \/ (pc = "store" /\ request[r].tx \in Txs)
        PROVE  Unposted'
    BY <1>0, <1>6, ToStep, HandlerUnposted
  <1>7. ASSUME NEW r \in Requests, NEW pc \in {"ok", "refused"}, NEW e \in Entries,
               Answer(r, pc, e), request[r].pc # "none", call' = call
        PROVE  Unposted'
    BY <1>0, <1>7, AnswerStep, HandlerUnposted
  <1>8. ASSUME NEW r \in Requests, Refuse(r), request[r].pc # "none", call' = call
        PROVE  Unposted'
    BY <1>7, <1>8, NoEntryIsEntry DEF Refuse
  <1>9. ASSUME NEW r \in Requests, IdempotencyHit(r) PROVE Unposted'
    BY <1>0, <1>7, <1>9 DEF IdempotencyHit, ChainType, TypeOK
  <1>10. ASSUME NEW r \in Requests, IdempotencyMiss(r) \/ NonceNew(r) \/ NonceAdd(r)
                                    \/ CommitStatus(r)
         PROVE  Unposted'
    BY <1>6, <1>10 DEF IdempotencyMiss, NonceNew, NonceAdd, CommitStatus, Committed
  <1>11. ASSUME NEW r \in Requests, NonceExists(r) \/ TimestampRefused(r) \/ EndorseFails(r)
         PROVE  Unposted'
    BY <1>8, <1>11 DEF NonceExists, TimestampRefused, EndorseFails
  <1>12. ASSUME NEW r \in Requests, Submit(r) PROVE Unposted'
    <2>1. request[r].pc # "none" /\ call' = call
      BY <1>12 DEF Submit
    <2> QED
      BY <1>0, <1>12, <2>1, SubmitStep, HandlerUnposted
  <1>13. ASSUME NEW r \in Requests, NEW retryable \in BOOLEAN, CommitStatusLost(r, retryable)
         PROVE  Unposted'
    BY <1>6, <1>8, <1>13 DEF CommitStatusLost
  <1>14. ASSUME NEW r \in Requests, NEW body \in Bodies, NEW hash \in Hashes,
             StoreReceipt(r, body, hash) PROVE Unposted'
    <2> DEFINE e == [tx |-> request[r].tx, body |-> body]
    <2>1. e \in Entries
      BY <1>0, <1>14, StoreType
    <2>2. Answer(r, "ok", e) /\ request[r].pc # "none" /\ call' = call
      BY <1>14 DEF StoreReceipt
    <2> HIDE DEF e
    <2> QED
      BY <1>7, <2>1, <2>2
  <1>15. ASSUME NEW tornNonces \in BOOLEAN, NEW tornIdem \in BOOLEAN,
                Crash(tornNonces, tornIdem)
         PROVE  Unposted'
    BY <1>0, <1>15 DEF Crash, Unposted
  <1>16. CASE NewCall \/ ServiceStep \/ Poll
    BY <1>1, <1>2, <1>3, <1>4, <1>5, <1>16
       DEF NewCall, ServiceStep, Poll, ConnectionLost, PollReceipt
  <1>17. CASE HandlerStep \/ IncompleteReceipt
    BY <1>9, <1>10, <1>11, <1>12, <1>14, <1>17 DEF HandlerStep, IncompleteReceipt, Bodies, Hashes
  <1>18. CASE FaultStep
    BY <1>1, <1>2, <1>11, <1>13, <1>15, <1>18
       DEF FaultStep, WorkerTimeout, PostTimeout, IdempotencyExpires
  <1>19. CASE FileStep \/ PersistNonces \/ FabricStep \/ UNCHANGED vars
    BY <1>1, <1>19 DEF FileStep, WriteIdem, WriteReceipt, PersistNonces, FabricStep,
                       CommitBlock, Observe, vars
  <1> QED
    BY <1>16, <1>17, <1>18, <1>19 DEF Next

\* A handler that comes to its end, or a request that is posted, without having
\* submitted leaves the one intent alone.
LEMMA EndsQuietly ==
    ASSUME ChainType, OneAtATime, OneIntent, NEW r \in Requests,
           \A q \in Requests : q # r => request'[q] = request[q],
           request'[r].pc \notin {"nonce", "add", "submit", "commit", "store"},
           request[r].pc \notin {"commit", "store"},
           idem' = idem, nonces' = nonces, ledger' = ledger
    PROVE  OneAtATime' /\ OneIntent'
  <1>1. Unstored' \subseteq Unstored \ {r} /\ Admitted' \subseteq Admitted /\ Noted' \subseteq Noted
    BY DEF Unstored, Admitted, Noted
  <1>2. \A q \in Unstored' : request'[q] = request[q]
    BY <1>1 DEF Unstored
  <1>3. OneAtATime'
    BY <1>1, <1>2 DEF OneAtATime
  <1>4. \A t \in Txs, q \in Requests : Holds(q, t) => Holds(q, t)'
    BY DEF Holds
  <1> QED
    BY <1>3, <1>4 DEF OneIntent

\* The key was missed: nothing is stored, and nobody of another call is under way.
LEMMA MissKeepsOne ==
    ASSUME ChainType, OneAtATime, OneIntent, NEW r \in Requests, IdempotencyMiss(r), hurt' = {}
    PROVE  OneAtATime' /\ OneIntent'
  <1> USE DEF memory, disk, chain, bounds, worker
  <1>1. /\ request'[r].pc = "nonce" /\ request[r].pc = "idem"
        /\ \A q \in Requests : q # r => request'[q] = request[q]
        /\ idem = NoEntry /\ idem' = idem /\ nonces' = nonces /\ ledger' = ledger
    BY ToStep DEF IdempotencyMiss
  <1>2. \A q \in Unstored : q[1] = r[1]
    <2> SUFFICES ASSUME NEW q \in Unstored, q[1] # r[1] PROVE FALSE
      OBVIOUS
    <2>1. "race" \in hurt'
      BY DEF IdempotencyMiss
    <2> QED
      BY <2>1
  <1>3. Unstored' = Unstored \cup {r} /\ Admitted' = Admitted /\ Noted' = Noted
    BY <1>1 DEF Unstored, Admitted, Noted
  <1>4. OneAtATime'
    BY <1>1, <1>2, <1>3 DEF OneAtATime
  <1>5. \A t \in Txs, q \in Requests : Holds(q, t) => Holds(q, t)'
    BY <1>1 DEF Holds
  <1> QED
    BY <1>1, <1>4, <1>5 DEF OneIntent

\* The nonce is new: no request of the call is past the check.
LEMMA NonceKeepsOne ==
    ASSUME ChainType, OneAtATime, OneIntent, NEW r \in Requests, NonceNew(r), hurt' = {}
    PROVE  OneAtATime' /\ OneIntent'
  <1> USE DEF memory, disk, chain, bounds, worker
  <1>1. /\ request'[r].pc = "add" /\ request[r].pc = "nonce" /\ r[1] \notin nonces
        /\ \A q \in Requests : q # r => request'[q] = request[q]
        /\ idem' = idem /\ nonces' = nonces /\ ledger' = ledger
    BY ToStep DEF NonceNew
  <1>2. \A q \in Requests : q[1] = r[1] => request[q].pc # "add"
    <2> SUFFICES ASSUME NEW q \in Requests, q[1] = r[1], request[q].pc = "add" PROVE FALSE
      OBVIOUS
    <2>1. "race" \in hurt'
      BY DEF NonceNew
    <2> QED
      BY <2>1
  <1>3. Unstored' = Unstored /\ Admitted' = Admitted \cup {r} /\ Noted' = Noted /\ r \in Unstored
    BY <1>1 DEF Unstored, Admitted, Noted
  <1>4. Admitted = {}
    BY <1>1, <1>2, <1>3 DEF OneAtATime, Admitted, Noted, Unstored
  <1>5. idem = NoEntry
    BY <1>1, <1>3 DEF OneAtATime
  <1>6. OneAtATime'
    BY <1>1, <1>3, <1>4, <1>5 DEF OneAtATime
  <1>7. \A t \in Txs, q \in Requests : Holds(q, t) => Holds(q, t)'
    BY <1>1 DEF Holds
  <1> QED
    BY <1>1, <1>6, <1>7 DEF OneIntent

\* Adding the nonce and reading the commit status move the one handler on.
LEMMA MovesOn ==
    ASSUME ChainType, OneAtATime, OneIntent, NEW r \in Requests, NonceAdd(r) \/ CommitStatus(r)
    PROVE  OneAtATime' /\ OneIntent'
  <1> USE DEF memory, disk, chain, bounds, worker
  <1>1. /\ \/ request[r].pc = "add" /\ request'[r].pc = "submit"
           \/ request[r].pc = "commit" /\ request'[r].pc = "store"
        /\ request'[r].tx = request[r].tx
        /\ \A q \in Requests : q # r => request'[q] = request[q]
    BY ToStep DEF NonceAdd, CommitStatus, Committed
  <1>2. /\ idem' = idem /\ nonces \subseteq nonces' /\ ledger' = ledger
        /\ r[1] \in nonces'
    <2>1. CASE NonceAdd(r)
      BY <2>1 DEF NonceAdd
    <2>2. CASE CommitStatus(r)
      BY <2>2 DEF CommitStatus, OneAtATime, Noted
    <2> QED
      BY <2>1, <2>2
  <1>3. Unstored' = Unstored /\ Admitted' = Admitted /\ Noted' \subseteq Noted \cup {r}
        /\ r \in Unstored
    BY <1>1 DEF Unstored, Admitted, Noted
  <1>4. idem = NoEntry
    BY <1>1, <1>3 DEF OneAtATime
  <1>5. OneAtATime'
    BY <1>2, <1>3, <1>4 DEF OneAtATime
  <1>6. \A t \in Txs, q \in Requests : Holds(q, t) => Holds(q, t)'
    BY <1>1 DEF Holds
  <1> QED
    BY <1>2, <1>5, <1>6 DEF OneIntent

\* A handler at submit is the first to submit anything.
LEMMA SubmitsOnce ==
    ASSUME ChainType, OneAtATime, OneIntent, NEW r \in Requests, Submit(r)
    PROVE  OneAtATime' /\ OneIntent'
  <1> USE DEF memory, disk, chain, bounds, worker
  <1>1. request[r].pc = "submit" /\ idem' = idem /\ nonces' = nonces
    BY DEF Submit
  <1>2. PICK t \in Txs :
              /\ ledger' = [ledger EXCEPT ![t] = "ordered"]
              /\ request'[r].pc = "commit" /\ request'[r].tx = t
              /\ \A q \in Requests : q # r => request'[q] = request[q]
    BY SubmitStep
  <1>3. Unstored' = Unstored /\ Admitted' = Admitted /\ Noted' = Noted
        /\ r \in Unstored /\ r \in Admitted
    BY <1>1, <1>2 DEF Unstored, Admitted, Noted
  <1>4. idem = NoEntry
    BY <1>1, <1>3 DEF OneAtATime
  <1>5. OneAtATime'
    BY <1>1, <1>3, <1>4 DEF OneAtATime
  <1>6. \A u \in Txs : ledger[u] = "unused"
    <2> SUFFICES ASSUME NEW u \in Txs, ledger[u] # "unused" PROVE FALSE
      OBVIOUS
    <2>1. PICK q \in Requests : Holds(q, u)
      BY <1>4 DEF OneIntent
    <2>2. q \in Admitted /\ q # r
      BY <1>1, <2>1 DEF Holds, Admitted
    <2> QED
      BY <1>3, <2>2 DEF OneAtATime
  <1>7. \A u \in Txs : ledger'[u] # "unused" => u = t
    BY <1>2, <1>6 DEF ChainType, TypeOK
  <1>8. Holds(r, t)'
    BY <1>2 DEF Holds
  <1> QED
    BY <1>5, <1>7, <1>8 DEF OneIntent

\* The receipt is stored: whoever is left of the call will be refused.
LEMMA StoresOnce ==
    ASSUME ChainType, OneAtATime, OneIntent, NEW r \in Requests, NEW body \in Bodies,
           NEW hash \in Hashes, StoreReceipt(r, body, hash)
    PROVE  OneAtATime' /\ OneIntent'
  <1> USE DEF memory, disk, chain, bounds, worker
  <1> DEFINE e == [tx |-> request[r].tx, body |-> body]
  <1>1. e \in Entries /\ e # NoEntry
    BY StoreType DEF NoEntry, Bodies
  <1>2. /\ request[r].pc = "store" /\ idem' = e /\ nonces' = nonces /\ ledger' = ledger
        /\ Answer(r, "ok", e)
    BY DEF StoreReceipt
  <1> HIDE DEF e
  <1>3. /\ request'[r].pc \in {"ok", "dead"}
        /\ \A q \in Requests : q # r => request'[q] = request[q]
    BY <1>1, <1>2, AnswerStep
  <1>4. /\ Unstored' = Unstored \ {r} /\ Admitted' = Admitted \ {r} /\ Noted' \subseteq Noted
        /\ r \in Unstored /\ r \in Admitted /\ r \in Noted
    BY <1>2, <1>3 DEF Unstored, Admitted, Noted
  <1>5. \A q \in Unstored' : request'[q].pc = "nonce" /\ q[1] \in nonces'
    <2> TAKE q \in Unstored'
    <2>1. q \in Unstored /\ q # r /\ q \in Requests /\ request'[q] = request[q]
      BY <1>3, <1>4 DEF Unstored
    <2>2. q \notin Admitted
      BY <1>4, <2>1 DEF OneAtATime
    <2>3. request[q].pc = "nonce"
      BY <2>1, <2>2 DEF Admitted, Unstored
    <2>4. q[1] = r[1] /\ r[1] \in nonces
      BY <1>4, <2>1 DEF OneAtATime
    <2> QED
      BY <1>2, <2>1, <2>3, <2>4
  <1>6. OneAtATime'
    BY <1>2, <1>4, <1>5 DEF OneAtATime
  <1> QED
    BY <1>1, <1>2, <1>6 DEF OneIntent

\* Every step keeps to one intent, or writes down its cause.
LEMMA IntentStep == ASSUME IntentInv, [Next]_vars PROVE IntentInv'
  <1> USE DEF memory, disk, chain, bounds, worker
  <1> DEFINE One == OneAtATime /\ OneIntent
  <1>0. ChainType /\ ChainType' /\ Unposted /\ Unposted' /\ (hurt = {} => One)
    BY ChainTypeStep, UnpostedStep DEF IntentInv
  <1> SUFFICES ASSUME hurt' = {} PROVE One'
    BY <1>0 DEF IntentInv
  <1>1. UNCHANGED <<request, idem, nonces, ledger, hurt>> => One'
    BY <1>0 DEF OneAtATime, OneIntent, Unstored, Admitted, Noted, Holds
  <1> HIDE DEF One
  <1>2. ASSUME NEW r \in Requests, hurt' = hurt, idem' = idem, nonces' = nonces,
               ledger' = ledger,
               \A q \in Requests : q # r => request'[q] = request[q],
               request'[r].pc \in {"idem", "ok", "refused", "dead"},
               request[r].pc \notin {"commit", "store"}
        PROVE  One'
    BY <1>0, <1>2, EndsQuietly DEF One
  <1>3. ASSUME NEW r \in Requests, To(r, "idem"), request[r].pc = "none",
               UNCHANGED <<hurt, idem, nonces, ledger>>
        PROVE  One'
    BY <1>0, <1>2, <1>3, ToStep
  <1>4. ASSUME NEW r \in Requests, NEW pc \in {"ok", "refused"}, NEW e \in Entries,
               Answer(r, pc, e), request[r].pc \notin {"commit", "store"},
               UNCHANGED <<hurt, idem, nonces, ledger>>
        PROVE  One'
    BY <1>0, <1>2, <1>4, AnswerStep
  <1>5. ASSUME NEW c \in Calls, RetryOrFail(c), UNCHANGED <<hurt, idem, nonces, ledger>>
        PROVE  One'
    <2>1. CASE call[c].attempt < MaxRetries
      <3> DEFINE n == call[c].attempt + 1
      <3>1. To(<<c, n>>, "idem")
        BY <1>5, <2>1 DEF RetryOrFail, To
      <3>2. call[c].attempt \in Nat /\ <<c, n>> \in Requests
        BY <1>0, <2>1, RequestsOfCall
      <3>3. n > call[c].attempt
        BY <3>2
      <3> HIDE DEF n
      <3>4. request[<<c, n>>].pc = "none"
        BY <1>0, <3>2, <3>3 DEF Unposted
      <3> QED
        BY <1>3, <1>5, <3>1, <3>2, <3>4
    <2>2. CASE ~(call[c].attempt < MaxRetries)
      BY <1>1, <1>5, <2>2 DEF RetryOrFail
    <2> QED
      BY <2>1, <2>2
  <1>6. ASSUME NEW c \in Calls, AnchorTransfer(c) PROVE One'
    <2>1. <<c, 0>> \in Requests /\ To(<<c, 0>>, "idem") /\ call[c].pc = "idle"
      BY <1>0, <1>6, RequestsOfCall DEF AnchorTransfer, To
    <2>2. request[<<c, 0>>].pc = "none"
      BY <1>0, <2>1 DEF Unposted
    <2> QED
      BY <1>3, <1>6, <2>1, <2>2 DEF AnchorTransfer
  <1>7. ASSUME NEW c \in Calls, PostRefused(c) \/ PostAnswered(c) PROVE One'
    <2>1. /\ request[Current(c)].pc \in {"ok", "refused"}
          /\ request' = [request EXCEPT ![Current(c)] = Gone]
          /\ UNCHANGED <<hurt, idem, nonces, ledger>>
      BY <1>7 DEF PostRefused, PostAnswered
    <2>2. /\ request'[Current(c)].pc = "dead" /\ Current(c) \in Requests
          /\ \A q \in Requests : q # Current(c) => request'[q] = request[q]
      BY <1>0, <2>1, GoneStep, RequestsOfCall DEF Gone
    <2> QED
      BY <1>2, <2>1, <2>2
  <1>8. ASSUME NEW r \in Requests, IdempotencyHit(r) PROVE One'
    BY <1>0, <1>4, <1>8 DEF IdempotencyHit, ChainType, TypeOK
  <1>9. ASSUME NEW r \in Requests, NonceExists(r) \/ TimestampRefused(r) \/ EndorseFails(r)
        PROVE  One'
    BY <1>4, <1>9, NoEntryIsEntry DEF NonceExists, TimestampRefused, EndorseFails, Refuse
  <1>10. ASSUME NEW r \in Requests, IdempotencyMiss(r) PROVE One'
    <2>1. hurt = {}
      BY <1>10 DEF IdempotencyMiss
    <2> QED
      BY <1>0, <1>10, <2>1, MissKeepsOne DEF One
  <1>11. ASSUME NEW r \in Requests, NonceNew(r) PROVE One'
    <2>1. hurt = {}
      BY <1>11 DEF NonceNew
    <2> QED
      BY <1>0, <1>11, <2>1, NonceKeepsOne DEF One
  <1>12. ASSUME NEW r \in Requests, NonceAdd(r) \/ CommitStatus(r) PROVE One'
    <2>1. hurt = {}
      BY <1>12 DEF NonceAdd, CommitStatus
    <2> QED
      BY <1>0, <1>12, <2>1, MovesOn DEF One
  <1>13. ASSUME NEW r \in Requests, Submit(r) PROVE One'
    <2>1. hurt = {}
      BY <1>13 DEF Submit
    <2> QED
      BY <1>0, <1>13, <2>1, SubmitsOnce DEF One
  <1>14. ASSUME NEW r \in Requests, NEW body \in Bodies, NEW hash \in Hashes,
             StoreReceipt(r, body, hash) PROVE One'
    <2>1. hurt = {}
      BY <1>14 DEF StoreReceipt
    <2> QED
      BY <1>0, <1>14, <2>1, StoresOnce DEF One
  <1>15. ASSUME NEW t \in Txs, CommitBlock(t) PROVE One'
    <2>1. \A u \in Txs : ledger'[u] = "unused" <=> ledger[u] = "unused"
      BY <1>0, <1>15 DEF CommitBlock, ChainType, TypeOK
    <2>2. UNCHANGED <<request, idem, nonces, hurt>>
      BY <1>15 DEF CommitBlock
    <2> QED
      BY <1>0, <2>1, <2>2
         DEF One, OneAtATime, OneIntent, Unstored, Admitted, Noted, Holds
  <1>16. CASE NewCall \/ ServiceStep \/ Poll
    BY <1>1, <1>5, <1>6, <1>7, <1>16
       DEF NewCall, ServiceStep, Poll, ConnectionLost, AnchorReturns, PollReceipt
  <1>17. CASE HandlerStep \/ IncompleteReceipt
    BY <1>8, <1>9, <1>10, <1>11, <1>12, <1>13, <1>14, <1>17
       DEF HandlerStep, IncompleteReceipt, Bodies, Hashes
  <1>18. CASE FaultStep
    BY <1>1, <1>5, <1>9, <1>18
       DEF FaultStep, WorkerTimeout, PostTimeout, IdempotencyExpires, CommitStatusLost, Crash, Hurt
  <1>19. CASE FileStep \/ PersistNonces \/ FabricStep \/ UNCHANGED vars
    BY <1>1, <1>15, <1>19 DEF FileStep, WriteIdem, WriteReceipt, PersistNonces, FabricStep,
                              Observe, vars
  <1> QED
    BY <1>16, <1>17, <1>18, <1>19 DEF Next

\* Nobody is under way at the start.
LEMMA InitIntent == Init => IntentInv
  <1> SUFFICES ASSUME Init PROVE IntentInv
    OBVIOUS
  <1>1. Unposted
    BY DEF Init, Unposted
  <1>2. Unstored = {} /\ Admitted = {} /\ Noted = {}
    BY DEF Init, Unstored, Admitted, Noted
  <1>3. OneAtATime
    BY <1>2 DEF OneAtATime
  <1>4. OneIntent
    BY DEF Init, OneIntent
  <1> QED
    BY <1>1, <1>3, <1>4, InitChainType DEF IntentInv

\* SubmitTransfer's key and nonce keep a wallet transaction to one intent on the
\* chain through every time-out, refusal and retry of any number of calls, as
\* long as the gateway neither crashes, loses a commit status nor lets the key
\* expire, and no race of the listed kinds happens.
THEOREM DuplicatesHaveACause == Spec => []DuplicateIntentHasACause
  <1>1. Init => IntentInv
    BY InitIntent
  <1>2. IntentInv /\ [Next]_vars => IntentInv'
    BY IntentStep
  <1>3. IntentInv => DuplicateIntentHasACause
    <2> SUFFICES ASSUME IntentInv, hurt = {}
                 PROVE  ~(Cardinality({t \in Txs : ledger[t] # "unused"}) > 1)
      BY DEF DuplicateIntentHasACause
    <2> DEFINE used == {t \in Txs : ledger[t] # "unused"}
    <2>1. \A t, u \in used : t = u
      BY DEF IntentInv, OneIntent
    <2>2. used = {} \/ \E t \in used : used = {t}
      BY <2>1
    <2> HIDE DEF used
    <2>3. Cardinality(used) \in {0, 1}
      BY <2>2, FS_EmptySet, FS_Singleton
    <2> QED
      BY <2>3 DEF used
  <1> QED
    BY <1>1, <1>2, <1>3, PTL DEF Spec

=============================================================================
