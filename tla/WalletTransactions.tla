------------------------- MODULE WalletTransactions -------------------------
(***************************************************************************)
(* The database transactions that change wallets, at the level of row      *)
(* locks: persistTransfer, persistTopupIntent, persistWithdrawalRequest,   *)
(* the credit of markSettlement and the refund of rollbackWithdrawalDebit, *)
(* with createWallet and reconcileWallets beside them.                     *)
(*                                                                         *)
(* PostgreSQL (external) runs them under READ COMMITTED.  SELECT ... FOR   *)
(* UPDATE on an existing row waits for its lock; on a missing row it       *)
(* returns nothing at once.  INSERT waits for an uncommitted insert of the *)
(* same unique value and fails if that one commits.  Uncommitted writes    *)
(* are invisible, so a transaction's writes are applied by its commit.     *)
(***************************************************************************)
EXTENDS Integers, Sequences, Functions

CONSTANTS NumUsers,   \* users by the rank localeCompare gives their ids
          Procs,      \* concurrent database transactions
          Keys,       \* idempotency keys
          Amounts,    \* amounts a request may carry
          OpeningMax, \* bound on the balances a wallet starts with
          AutoFix     \* SETTLEMENT_RECONCILE_AUTOFIX

ASSUME NumUsersAssumption == NumUsers \in Nat
ASSUME AmountsAssumption == Amounts \subseteq Nat \ {0}
ASSUME OpeningMaxAssumption == OpeningMax \in Nat
ASSUME AutoFixAssumption == AutoFix \in BOOLEAN

Users == 1..NumUsers
Nobody == 0
ASSUME NobodyAssumption == Nobody \notin Procs

VARIABLES wallets,   \* users with a committed wallet row
          balance,   \* the committed balance column, 0 without a row
          ledger,    \* ledger[u]: committed ledger entries of u's wallet
          txs,       \* keys of committed transactions
          credited,  \* keys of committed transactions with a CREDIT of their own
          lock,      \* lock[u]: who holds the row, or an uncommitted insert, of u
          keyLock,   \* keyLock[k]: the same for the transactions row of key k
          pc, op,    \* where database transaction p is, and what it does
          want,      \* want[p]: wallets p still has to lock
          seen,      \* seen[p][u]: balance of u as p read it under its lock
          rec        \* the reconcileWallets call

tables == <<wallets, balance, ledger, txs, credited>>
locals == <<pc, op, want, seen>>
vars == <<tables, lock, keyLock, locals, rec>>

-----------------------------------------------------------------------------
Kinds == {"transfer", "payout", "topup", "deposit", "refund"}

\* A validated request: an internal transfer has two different parties
\* (validateCreateTransfer), the others one.
Operation == {o \in [kind : Kinds, from : Users, to : Users, amount : Amounts, key : Keys] :
                o.kind = "transfer" <=> o.from # o.to}

NoOp == [kind |-> "none"]

\* deposit and refund credit an existing transaction, the others create one.
Creates(o) == o.kind \in {"transfer", "payout", "topup"}

\* What the operation does to the balance of u.
Delta(o, u) == CASE o.kind = "topup" -> 0
                 [] o.kind \in {"transfer", "payout"} /\ u = o.from -> 0 - o.amount
                 [] OTHER -> o.amount

\* A missing wallet is created, except that of someone who has to pay.
MayCreate(o, u) == \/ o.kind \in {"topup", "deposit"}
                   \/ o.kind = "transfer" /\ u # o.from

Entry == [before : Int, delta : Int]
PCs == {"idle", "row", "lock", "insert", "check", "key", "commit"}
NoRec == [pc |-> "idle", todo |-> {}, read |-> [u \in Users |-> 0], at |-> 0, expected |-> 0]

TypeOK ==
    /\ wallets \subseteq Users /\ balance \in [Users -> Int]
    /\ ledger \in [Users -> Seq(Entry)]
    /\ txs \subseteq Keys /\ credited \subseteq Keys
    /\ lock \in [Users -> Procs \cup {Nobody}]
    /\ keyLock \in [Keys -> Procs \cup {Nobody}]
    /\ pc \in [Procs -> PCs] /\ op \in [Procs -> Operation \cup {NoOp}]
    /\ want \in [Procs -> SUBSET Users]
    /\ seen \in [Procs -> [Users -> Int]]
    /\ rec \in [pc : {"idle", "scan", "save"}, todo : SUBSET Users,
                read : [Users -> Int], at : 0..NumUsers, expected : Int]

Init ==
    /\ wallets \in SUBSET Users
    /\ balance \in [Users -> 0..OpeningMax]
    /\ \A u \in Users \ wallets : balance[u] = 0
    /\ ledger = [u \in Users |-> <<>>]
    /\ txs = {} /\ credited = {}
    /\ lock = [u \in Users |-> Nobody] /\ keyLock = [k \in Keys |-> Nobody]
    /\ pc = [p \in Procs |-> "idle"]
    /\ op = [p \in Procs |-> NoOp]
    /\ want = [p \in Procs |-> {}]
    /\ seen = [p \in Procs |-> [u \in Users |-> 0]]
    /\ rec = NoRec

-----------------------------------------------------------------------------
(* One database transaction. *)

Goto(p, s) == pc' = [pc EXCEPT ![p] = s]

Release(p) ==
    /\ lock' = [u \in Users |-> IF lock[u] = p THEN Nobody ELSE lock[u]]
    /\ keyLock' = [k \in Keys |-> IF keyLock[k] = p THEN Nobody ELSE keyLock[k]]
    /\ Goto(p, "idle")
    /\ want' = [want EXCEPT ![p] = {}]
    /\ seen' = [seen EXCEPT ![p] = [u \in Users |-> 0]]
    /\ op' = [op EXCEPT ![p] = NoOp]

\* startTransaction and the first read.  A creating operation ends at once if
\* its key has a row (not modelled as a step); a credit names an existing row.
\* markSettlement locks that row before it looks for a CREDIT entry, while
\* rollbackWithdrawalDebit looks at once.
Begin(p, o) ==
    /\ pc[p] = "idle"
    /\ Creates(o) <=> o.key \notin txs
    /\ op' = [op EXCEPT ![p] = o]
    /\ want' = [want EXCEPT ![p] = {o.from, o.to}]
    /\ \/ Creates(o) /\ Goto(p, "lock")
       \/ ~Creates(o) /\ Goto(p, "row")
       \/ o.kind = "refund" /\ o.key \notin credited /\ Goto(p, "lock")
    /\ UNCHANGED <<tables, lock, keyLock, seen, rec>>

\* markSettlement: the transactions row is locked, then the CREDIT looked up.
LockRow(p) ==
    /\ pc[p] = "row"
    /\ keyLock[op[p].key] = Nobody
    /\ op[p].key \notin credited
    /\ keyLock' = [keyLock EXCEPT ![op[p].key] = p]
    /\ Goto(p, "lock")
    /\ UNCHANGED <<tables, lock, op, want, seen, rec>>

\* Mutant: the sender is locked first (no sort).
NextUserUnsorted(p) == IF op[p].from \in want[p] THEN op[p].from ELSE op[p].to

\* usersToLock.sort: the smallest user that is not locked yet.
NextUser(p) == CHOOSE u \in want[p] : \A v \in want[p] : u <= v

\* Where p goes once it holds u.
Locked(p, u) ==
    /\ lock' = [lock EXCEPT ![u] = p]
    /\ want' = [want EXCEPT ![p] = @ \ {u}]
    /\ Goto(p, IF want[p] = {u} THEN "check" ELSE "lock")

\* Mutant: the SELECT has no FOR UPDATE and does not wait.
LockWalletUnlocked(p) ==
    /\ pc[p] = "lock"
    /\ LET u == NextUser(p)
       IN /\ u \in wallets
          /\ seen' = [seen EXCEPT ![p][u] = balance[u]]
          /\ Locked(p, u)
    /\ UNCHANGED <<tables, keyLock, op, rec>>

\* SELECT ... FOR UPDATE of an existing wallet.
LockWallet(p) ==
    /\ pc[p] = "lock"
    /\ LET u == NextUser(p)
       IN /\ u \in wallets
          /\ lock[u] = Nobody
          /\ seen' = [seen EXCEPT ![p][u] = balance[u]]
          /\ Locked(p, u)
    /\ UNCHANGED <<tables, keyLock, op, rec>>

\* SELECT ... FOR UPDATE returned no wallet, and one may be created.
WalletMissing(p) ==
    /\ pc[p] = "lock"
    /\ NextUser(p) \notin wallets
    /\ MayCreate(op[p], NextUser(p))
    /\ Goto(p, "insert")
    /\ UNCHANGED <<tables, lock, keyLock, op, want, seen, rec>>

\* The insert of the missing wallet.
InsertWallet(p) ==
    /\ pc[p] = "insert"
    /\ LET u == NextUser(p)
       IN /\ u \notin wallets
          /\ lock[u] = Nobody
          /\ Locked(p, u)
    /\ UNCHANGED <<tables, keyLock, op, seen, rec>>

Funds(p) == \A u \in {op[p].from, op[p].to} : Delta(op[p], u) < 0
                                               => seen[p][u] + Delta(op[p], u) >= 0

\* The wallet writes; what is left is the transactions row, if one is created.
CheckFunds(p) ==
    /\ pc[p] = "check"
    /\ Funds(p)
    /\ Goto(p, IF Creates(op[p]) THEN "key" ELSE "commit")
    /\ UNCHANGED <<tables, lock, keyLock, op, want, seen, rec>>

\* Mutant: no unique index on idempotencyKey.
InsertKeyTwice(p) ==
    /\ pc[p] = "key"
    /\ Goto(p, "commit")
    /\ UNCHANGED <<tables, lock, keyLock, op, want, seen, rec>>

\* The insert into transactions: idempotencyKey is unique.
InsertKey(p) ==
    /\ pc[p] = "key"
    /\ keyLock[op[p].key] = Nobody
    /\ op[p].key \notin txs
    /\ keyLock' = [keyLock EXCEPT ![op[p].key] = p]
    /\ Goto(p, "commit")
    /\ UNCHANGED <<tables, lock, op, want, seen, rec>>

\* Every write of the transaction becomes visible: balances computed from what
\* was read, one ledger entry per changed wallet.
Commit(p) ==
    /\ pc[p] = "commit"
    /\ LET o == op[p]
           parties == {o.from, o.to}
           changed == {u \in parties : Delta(o, u) # 0}
       IN /\ wallets' = wallets \cup parties
          /\ balance' = [u \in Users |-> IF u \in changed THEN seen[p][u] + Delta(o, u)
                                         ELSE balance[u]]
          /\ ledger' = [u \in Users |->
                          IF u \in changed
                          THEN Append(ledger[u], [before |-> seen[p][u], delta |-> Delta(o, u)])
                          ELSE ledger[u]]
          /\ txs' = txs \cup {o.key}
          /\ credited' = IF Creates(o) THEN credited ELSE credited \cup {o.key}
    /\ Release(p)
    /\ UNCHANGED rec

\* What makes p fail: a payer without a wallet, too little money, a wallet or key
\* that someone else's commit created in between, a CREDIT that exists already.
Rejected(p) ==
    \/ pc[p] = "row" /\ keyLock[op[p].key] = Nobody /\ op[p].key \in credited
    \/ pc[p] = "lock" /\ NextUser(p) \notin wallets /\ ~MayCreate(op[p], NextUser(p))
    \/ pc[p] = "insert" /\ NextUser(p) \in wallets
    \/ pc[p] = "check" /\ ~Funds(p)
    \/ pc[p] = "key" /\ op[p].key \in txs

Reject(p) ==
    /\ Rejected(p)
    /\ Release(p)
    /\ UNCHANGED <<tables, rec>>

\* The connection or the service is lost: PostgreSQL rolls back.
ConnectionLost(p) ==
    /\ pc[p] # "idle"
    /\ Release(p)
    /\ UNCHANGED <<tables, rec>>

-----------------------------------------------------------------------------
\* createWallet: a losing insert reads the winner's row, so it never fails.
CreateWallet(u) ==
    /\ u \notin wallets /\ lock[u] = Nobody
    /\ wallets' = wallets \cup {u}
    /\ UNCHANGED <<balance, ledger, txs, credited, lock, keyLock, locals, rec>>

(* reconcileWallets: no lock and no transaction around its reads.  Without  *)
(* autoFix it only reports, which leaves no trace.                          *)

LedgerDelta(u) == SumFunction([i \in DOMAIN ledger[u] |-> ledger[u][i].delta])

\* What the ledger says the balance should be; the opening balance is what the
\* first entry found.
ExpectedBalance(u) == ledger[u][1].before + LedgerDelta(u)

ListWallets ==
    /\ AutoFix
    /\ rec.pc = "idle"
    /\ wallets # {}
    /\ rec' = [pc |-> "scan", todo |-> wallets, read |-> balance, at |-> 0, expected |-> 0]
    /\ UNCHANGED <<tables, lock, keyLock, locals>>

\* The loop goes on after wallet u.
After(u) == IF rec.todo = {u} THEN NoRec
            ELSE [rec EXCEPT !.pc = "scan", !.todo = @ \ {u}, !.at = 0, !.expected = 0]

\* Mutant: only a balance that is too low is fixed.
ReconcileUpwards(u) ==
    /\ rec.pc = "scan" /\ u \in rec.todo
    /\ rec' = IF ledger[u] # <<>> /\ ExpectedBalance(u) > rec.read[u]
              THEN [rec EXCEPT !.pc = "save", !.at = u, !.expected = ExpectedBalance(u)]
              ELSE After(u)
    /\ UNCHANGED <<tables, lock, keyLock, locals>>

\* A wallet without entries or in agreement with its ledger is skipped.
ReconcileWallet(u) ==
    /\ rec.pc = "scan" /\ u \in rec.todo
    /\ rec' = IF ledger[u] # <<>> /\ ExpectedBalance(u) # rec.read[u]
              THEN [rec EXCEPT !.pc = "save", !.at = u, !.expected = ExpectedBalance(u)]
              ELSE After(u)
    /\ UNCHANGED <<tables, lock, keyLock, locals>>

\* walletRepo.save: the UPDATE waits for the row and overwrites what it finds.
SaveWallet ==
    /\ rec.pc = "save" /\ lock[rec.at] = Nobody
    /\ balance' = [balance EXCEPT ![rec.at] = rec.expected]
    /\ rec' = After(rec.at)
    /\ UNCHANGED <<wallets, ledger, txs, credited, lock, keyLock, locals>>

-----------------------------------------------------------------------------
ProcStep(p) ==
    \/ LockRow(p) \/ LockWallet(p) \/ WalletMissing(p) \/ InsertWallet(p)
    \/ CheckFunds(p) \/ InsertKey(p) \/ Commit(p) \/ Reject(p)

ReconcileStep == ListWallets \/ (\E u \in Users : ReconcileWallet(u)) \/ SaveWallet

Next ==
    \/ \E p \in Procs : \/ \E o \in Operation : Begin(p, o)
                        \/ ProcStep(p)
                        \/ ConnectionLost(p)
    \/ \E u \in Users : CreateWallet(u)
    \/ ReconcileStep

Spec == Init /\ [][Next]_vars

\* PostgreSQL grants a row lock in the order of the requests, so a step that
\* waits for one again and again gets through; requests and losses are not fair.
FairSpec ==
    /\ Spec
    /\ \A p \in Procs : SF_vars(ProcStep(p))
    /\ WF_vars(ListWallets) /\ WF_vars(\E u \in Users : ReconcileWallet(u))
    /\ SF_vars(SaveWallet)

-----------------------------------------------------------------------------
(* Properties. *)

\* p cannot go on before q ends: q holds the row, or an uncommitted insert of the
\* unique value, that p needs next.
WaitsFor(p, q) ==
    /\ p # q
    /\ \/ pc[p] = "row" /\ keyLock[op[p].key] = q
       \/ pc[p] = "lock" /\ NextUser(p) \in wallets /\ lock[NextUser(p)] = q
       \/ pc[p] = "insert" /\ NextUser(p) \notin wallets /\ lock[NextUser(p)] = q
       \/ pc[p] = "key" /\ op[p].key \notin txs /\ keyLock[op[p].key] = q

\* No set of database transactions waits for itself: "Lock wallets in
\* deterministic order to avoid deadlocks" (persistTransfer), with the waits for
\* auto-created wallets, for equal idempotency keys and for markSettlement's row
\* lock counted too.
NoDeadlock ==
    \A S \in (SUBSET Procs) \ {{}} : \E p \in S : \A q \in S : ~WaitsFor(p, q)

\* Every wallet's ledger is a chain without gaps: each entry starts from the
\* balance the one before it left, and the last one left the current balance.
\* reconcileWallets presupposes it when it adds the entries to the opening balance.
LedgerExplainsBalance ==
    \A u \in Users : \A i \in 1..Len(ledger[u]) :
        ledger[u][i].before + ledger[u][i].delta =
            IF i = Len(ledger[u]) THEN balance[u] ELSE ledger[u][i + 1].before

\* The row locks and unique indexes make the operations serialisable: "Persist
\* within a serialisable DB transaction" (createTransfer).  In particular no
\* interleaving of debits overdraws a wallet.
WB == INSTANCE WalletBook
      WITH Users <- Users, Keys <- Keys, Amounts <- Amounts,
           wallets <- wallets, balance <- balance, txs <- txs
BookKept == WB!BookSpec

\* With autoFix, reconcileWallets can overwrite a balance that changed after it
\* added up the ledger, but once the transactions are over it repairs what it
\* broke: every balance agrees with its ledger for good.
AutoFixConverges ==
    <>[](\A u \in Users : ledger[u] # <<>> => balance[u] = ExpectedBalance(u))

=============================================================================
