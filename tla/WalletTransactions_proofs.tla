---------------------- MODULE WalletTransactions_proofs ----------------------
(***************************************************************************)
(* Proofs about WalletTransactions, for every number of users, database    *)
(* transactions and keys:                                                  *)
(*  - NoDeadlock, with and without autoFix: whoever waits waits for someone*)
(*    of a higher rank, and ranks are bounded;                             *)
(*  - LedgerExplainsBalance and the refinement of WalletBook, without      *)
(*    autoFix: the balance a transaction read under its lock is still the  *)
(*    balance when it commits.                                             *)
(***************************************************************************)
EXTENDS WalletTransactions, TLAPS, WellFoundedInduction

-----------------------------------------------------------------------------
(* The invariant of the locks.  It says nothing about balances, so that it *)
(* holds whatever reconcileWallets writes.                                  *)

Parties(p) == {op[p].from, op[p].to}

LockType ==
    /\ wallets \subseteq Users /\ txs \subseteq Keys
    /\ lock \in [Users -> Procs \cup {Nobody}]
    /\ keyLock \in [Keys -> Procs \cup {Nobody}]
    /\ pc \in [Procs -> PCs] /\ op \in [Procs -> Operation \cup {NoOp}]
    /\ want \in [Procs -> SUBSET Users]

\* What a database transaction that has begun has done so far.
OpenOK(p) ==
    pc[p] # "idle" =>
        /\ op[p] \in Operation
        /\ want[p] \subseteq Parties(p)
        /\ want[p] = {} <=> pc[p] \in {"check", "key", "commit"}
        /\ \A u \in Parties(p) \ want[p] : lock[u] = p
        /\ ~Creates(op[p]) => op[p].key \in txs /\ pc[p] # "key"
        /\ Creates(op[p]) => pc[p] # "row"
        /\ Creates(op[p]) /\ pc[p] = "commit" =>
                op[p].key \notin txs /\ keyLock[op[p].key] = p

\* Who holds a wallet row has it behind it, in the order of the users.
HolderOK(u, p) ==
    lock[u] = p =>
        /\ pc[p] \in {"lock", "insert", "check", "key", "commit"}
        /\ u \in Parties(p) /\ u \notin want[p]
        /\ \A v \in want[p] : u < v

\* Who holds a transactions row locked it before any wallet, or has just
\* inserted it and is about to commit.
KeyHolderOK(k, p) ==
    keyLock[k] = p =>
        /\ op[p].key = k
        /\ pc[p] \in {"lock", "insert", "check", "commit"}
        /\ Creates(op[p]) => pc[p] = "commit" /\ k \notin txs

LockInv ==
    /\ LockType
    /\ \A p \in Procs : OpenOK(p)
    /\ \A u \in Users, p \in Procs : HolderOK(u, p)
    /\ \A k \in Keys, p \in Procs : KeyHolderOK(k, p)

\* A nonempty set of at most two numbers has a smallest one.
LEMMA SmallestOfTwo ==
    ASSUME NEW a \in Int, NEW b \in Int, NEW W \in SUBSET {a, b}, W # {}
    PROVE  \E u \in W : \A v \in W : u <= v
<1>1. CASE a \in W /\ (b \in W => a <= b)
  <2>1. \A v \in W : a <= v
    BY <1>1
  <2> QED BY <1>1, <2>1
<1>2. CASE b \in W /\ (a \in W => b <= a)
  <2>1. \A v \in W : b <= v
    BY <1>2
  <2> QED BY <1>2, <2>1
<1>3. a \in W \/ b \in W
  OBVIOUS
<1> QED BY <1>1, <1>2, <1>3

\* The wallet that is locked next is the first of those still to be locked.
LEMMA NextUserIsSmallest ==
    ASSUME LockInv, NEW p \in Procs, pc[p] \in {"lock", "insert"}
    PROVE  /\ NextUser(p) \in want[p] /\ NextUser(p) \in Users
           /\ NextUser(p) \in Nat
           /\ \A v \in want[p] : NextUser(p) <= v
<1>1. /\ op[p] \in Operation /\ want[p] \subseteq {op[p].from, op[p].to}
      /\ want[p] # {} /\ want[p] \subseteq Users
  BY DEF LockInv, LockType, OpenOK, Parties, PCs
<1>2. op[p].from \in Int /\ op[p].to \in Int
  BY <1>1, NumUsersAssumption DEF Operation, Users
<1>3. \E u \in want[p] : \A v \in want[p] : u <= v
  BY <1>1, <1>2, SmallestOfTwo
<1>4. NextUser(p) \in want[p] /\ \A v \in want[p] : NextUser(p) <= v
  BY <1>3 DEF NextUser
<1> QED BY <1>1, <1>4, NumUsersAssumption DEF Users

\* The lock invariant holds at first: nobody holds anything.
LEMMA InitLockInv == Init => LockInv
<1> SUFFICES ASSUME Init PROVE LockInv
  OBVIOUS
<1>1. \A k \in Keys, p \in Procs : keyLock[k] # p
  BY NobodyAssumption DEF Init
<1>2. \A u \in Users, p \in Procs : lock[u] # p
  BY NobodyAssumption DEF Init
<1>3. LockType
  BY DEF Init, LockType, PCs
<1> QED BY <1>1, <1>2, <1>3 DEF LockInv, OpenOK, HolderOK, KeyHolderOK, Init

\* A step of p that leaves the tables and locks alone keeps what the others have.
LEMMA OthersKeepTheirs ==
    ASSUME LockInv, NEW p \in Procs, LockType',
           \A q \in Procs \ {p} : pc'[q] = pc[q] /\ op'[q] = op[q] /\ want'[q] = want[q],
           \A u \in Users : lock'[u] # lock[u] => lock[u] \in {p, Nobody} /\ lock'[u] \in {p, Nobody},
           \A k \in Keys : keyLock'[k] # keyLock[k]
                           => keyLock[k] \in {p, Nobody} /\ keyLock'[k] \in {p, Nobody},
           txs \subseteq txs',
           \A q \in Procs \ {p} : Creates(op[q]) /\ pc[q] = "commit" => op[q].key \notin txs',
           OpenOK(p)',
           \A u \in Users : HolderOK(u, p)', 
           \A k \in Keys : KeyHolderOK(k, p)'
    PROVE  LockInv'
<1>1. ASSUME NEW q \in Procs \ {p} PROVE OpenOK(q)'
  <2>1. OpenOK(q) /\ q \in Procs /\ q # Nobody
    BY <1>1, NobodyAssumption DEF LockInv
  <2>2. SUFFICES ASSUME pc[q] # "idle"
                 PROVE  OpenOK(q)'
    BY DEF OpenOK
  <2>3. /\ op[q] \in Operation /\ Parties(q)' = Parties(q) /\ Parties(q) \subseteq Users
        /\ op[q].key \in Keys
    BY <2>1, <2>2, <1>1 DEF OpenOK, Parties, Operation
  <2>4. \A u \in Parties(q) \ want[q] : lock'[u] = q
    BY <2>1, <2>2, <2>3 DEF OpenOK
  <2>5. Creates(op[q]) /\ pc[q] = "commit" => op[q].key \notin txs' /\ keyLock'[op[q].key] = q
    BY <2>1, <2>2, <2>3, <1>1 DEF OpenOK
  <2> QED BY <2>1, <2>2, <2>3, <2>4, <2>5, <1>1 DEF OpenOK
<1>2. ASSUME NEW q \in Procs \ {p}, NEW u \in Users PROVE HolderOK(u, q)'
  <2>1. HolderOK(u, q) /\ q # Nobody
    BY <1>2, NobodyAssumption DEF LockInv
  <2> QED BY <2>1, <1>2 DEF HolderOK, Parties
<1>3. ASSUME NEW q \in Procs \ {p}, NEW k \in Keys PROVE KeyHolderOK(k, q)'
  <2>1. KeyHolderOK(k, q) /\ q # Nobody
    BY <1>3, NobodyAssumption DEF LockInv
  <2> QED BY <2>1, <1>3 DEF KeyHolderOK
<1> QED BY <1>1, <1>2, <1>3 DEF LockInv

\* A transaction that ends gives everything back.
LEMMA ReleaseLockInv ==
    ASSUME LockInv, NEW p \in Procs, Release(p),
           wallets' \subseteq Users, txs \subseteq txs', txs' \subseteq Keys,
           \A q \in Procs \ {p} : Creates(op[q]) /\ pc[q] = "commit" => op[q].key \notin txs'
    PROVE  LockInv'
<1>1. LockType'
  BY DEF LockInv, LockType, Release, Goto, PCs
<1>2. /\ \A u \in Users : lock'[u] # p
      /\ \A k \in Keys : keyLock'[k] # p
      /\ pc'[p] = "idle"
  BY NobodyAssumption DEF LockInv, LockType, Release, Goto
<1>3. /\ \A q \in Procs \ {p} : pc'[q] = pc[q] /\ op'[q] = op[q] /\ want'[q] = want[q]
      /\ \A u \in Users : lock'[u] # lock[u] => lock[u] = p /\ lock'[u] = Nobody
      /\ \A k \in Keys : keyLock'[k] # keyLock[k] => keyLock[k] = p /\ keyLock'[k] = Nobody
  BY DEF LockInv, LockType, Release, Goto
<1>4. OpenOK(p)' /\ (\A u \in Users : HolderOK(u, p)') /\ (\A k \in Keys : KeyHolderOK(k, p)')
  BY <1>2 DEF OpenOK, HolderOK, KeyHolderOK
<1> QED BY <1>1, <1>3, <1>4, OthersKeepTheirs

\* The lock p takes on its next wallet, whether the row exists or is inserted.
LEMMA LockedLockInv ==
    ASSUME LockInv, NEW p \in Procs, pc[p] \in {"lock", "insert"},
           lock[NextUser(p)] = Nobody, Locked(p, NextUser(p)),
           UNCHANGED <<wallets, txs, keyLock, op>>
    PROVE  LockInv'
<1> DEFINE n == NextUser(p)
<1>1. n \in want[p] /\ n \in Users /\ \A v \in want[p] : n <= v
  BY NextUserIsSmallest
<1>2. OpenOK(p) /\ op[p] \in Operation /\ want[p] \subseteq Parties(p) /\ want[p] \subseteq Users
  BY DEF LockInv, LockType, OpenOK
<1>3. /\ lock' = [lock EXCEPT ![n] = p] /\ want' = [want EXCEPT ![p] = @ \ {n}]
      /\ pc' = [pc EXCEPT ![p] = IF want[p] = {n} THEN "check" ELSE "lock"]
  BY DEF Locked, Goto
<1>4. LockType'
  BY <1>1, <1>3 DEF LockInv, LockType, PCs
<1>5. /\ want'[p] = want[p] \ {n} /\ lock'[n] = p /\ op'[p] = op[p]
      /\ pc'[p] = IF want[p] = {n} THEN "check" ELSE "lock"
      /\ \A u \in Users \ {n} : lock'[u] = lock[u]
      /\ Parties(p)' = Parties(p)
  BY <1>1, <1>3 DEF LockInv, LockType, Parties
<1>6. OpenOK(p)'
  <2>1. Parties(p) \subseteq Users
    BY <1>2 DEF Parties, Operation
  <2>2. \A u \in Parties(p) \ want'[p] : lock'[u] = p
    BY <1>1, <1>2, <1>5, <2>1 DEF OpenOK
  <2>3. want'[p] = {} <=> (pc'[p] \in {"check", "key", "commit"})
    BY <1>1, <1>5
  <2> QED BY <1>2, <1>5, <2>2, <2>3 DEF OpenOK
<1>7. \A u \in Users : HolderOK(u, p)'
  <2> SUFFICES ASSUME NEW u \in Users, lock'[u] = p PROVE HolderOK(u, p)'
    BY DEF HolderOK
  <2>1. Users \subseteq Int
    BY NumUsersAssumption DEF Users
  <2>2. CASE u = n
    BY <1>1, <1>2, <1>5, <2>1, <2>2 DEF HolderOK
  <2>3. CASE u # n
    <3>1. HolderOK(u, p) /\ lock[u] = p
      BY <1>5, <2>3 DEF LockInv
    <3> QED BY <1>5, <3>1 DEF HolderOK
  <2> QED BY <2>2, <2>3
<1>8. \A k \in Keys : KeyHolderOK(k, p)'
  BY <1>5 DEF KeyHolderOK, LockInv
<1>9. \A q \in Procs \ {p} : Creates(op[q]) /\ pc[q] = "commit" => op[q].key \notin txs'
  <2> TAKE q \in Procs \ {p}
  <2> QED BY DEF LockInv, OpenOK
<1>10. /\ \A q \in Procs \ {p} : pc'[q] = pc[q] /\ op'[q] = op[q] /\ want'[q] = want[q]
       /\ \A u \in Users : lock'[u] # lock[u] => lock[u] \in {p, Nobody} /\ lock'[u] \in {p, Nobody}
       /\ \A k \in Keys : keyLock'[k] = keyLock[k]
  BY <1>1, <1>3, <1>5 DEF LockInv, LockType
<1> HIDE DEF n
<1> QED BY <1>4, <1>6, <1>7, <1>8, <1>9, <1>10, OthersKeepTheirs

\* Other transactions about to commit a new key still find it absent.
LEMMA KeysStayFree ==
    ASSUME LockInv, NEW p \in Procs
    PROVE  \A q \in Procs \ {p} : Creates(op[q]) /\ pc[q] = "commit" => op[q].key \notin txs
BY DEF LockInv, OpenOK

\* A step of p that changes no wallet row lock, and of the keys only its own.
LEMMA LocalLockInv ==
    ASSUME LockInv, NEW p \in Procs, NEW k \in Keys, NEW s \in PCs,
           op[p].key = k,
           s \in {"lock", "insert", "key", "commit"} /\ pc[p] # "idle",
           Goto(p, s),
           UNCHANGED <<wallets, txs, lock, op, want>>,
           s = "lock" => pc[p] = "row",
           s = "insert" => pc[p] = "lock",
           s \in {"key", "commit"} => pc[p] \in {"check", "key"},
           s = "key" => Creates(op[p]),
           s = "commit" => (Creates(op[p]) <=> pc[p] = "key"),
           \/ s \in {"insert", "key"} /\ keyLock' = keyLock
           \/ s = "commit" /\ pc[p] = "check" /\ keyLock' = keyLock
           \/ /\ s = "lock" \/ (s = "commit" /\ pc[p] = "key" /\ k \notin txs)
              /\ keyLock[k] = Nobody
              /\ keyLock' = [keyLock EXCEPT ![k] = p]
    PROVE  LockInv'
<1>1. LockType'
  BY DEF LockInv, LockType, Goto
<1>2. /\ pc'[p] = s /\ op' = op /\ want' = want /\ lock' = lock /\ txs' = txs
      /\ Parties(p)' = Parties(p)
      /\ OpenOK(p) /\ op[p] \in Operation
  BY DEF LockInv, LockType, Goto, OpenOK, Parties
<1>3. \A j \in Keys \ {k} : keyLock'[j] = keyLock[j]
  BY DEF LockInv, LockType
<1>4. OpenOK(p)'
  <2>1. want[p] = {} <=> s \in {"check", "key", "commit"}
    BY <1>2 DEF OpenOK
  <2>2. Creates(op[p]) /\ s = "commit" => k \notin txs /\ keyLock'[k] = p
    BY DEF LockInv, LockType
  <2> QED BY <1>2, <2>1, <2>2 DEF OpenOK
<1>5. \A u \in Users : HolderOK(u, p)'
  BY <1>2 DEF HolderOK, LockInv
<1>6. \A j \in Keys : KeyHolderOK(j, p)'
  <2> TAKE j \in Keys
  <2>1. KeyHolderOK(j, p)
    BY DEF LockInv
  <2>2. CASE keyLock'[j] = keyLock[j]
    BY <1>2, <2>1, <2>2 DEF KeyHolderOK, OpenOK
  <2>3. CASE keyLock'[j] # keyLock[j]
    <3>1. j = k
      BY <1>3, <2>3
    <3> QED BY <1>2, <2>3, <3>1 DEF KeyHolderOK, OpenOK
  <2> QED BY <2>2, <2>3
<1>7. /\ \A q \in Procs \ {p} : pc'[q] = pc[q] /\ op'[q] = op[q] /\ want'[q] = want[q]
      /\ \A u \in Users : lock'[u] = lock[u]
      /\ \A j \in Keys : keyLock'[j] # keyLock[j]
                         => keyLock[j] \in {p, Nobody} /\ keyLock'[j] \in {p, Nobody}
  BY <1>3 DEF LockInv, LockType, Goto
<1> QED BY <1>1, <1>2, <1>4, <1>5, <1>6, <1>7, KeysStayFree, OthersKeepTheirs

\* startTransaction.
LEMMA BeginLockInv ==
    ASSUME LockInv, NEW p \in Procs, NEW o \in Operation, Begin(p, o)
    PROVE  LockInv'
<1>1. /\ o.from \in Users /\ o.to \in Users /\ o.key \in Keys
  BY DEF Operation
<1>2. /\ pc[p] = "idle" /\ UNCHANGED <<wallets, txs, lock, keyLock>>
      /\ op' = [op EXCEPT ![p] = o] /\ want' = [want EXCEPT ![p] = {o.from, o.to}]
      /\ pc' = [pc EXCEPT ![p] = pc'[p]]
      /\ pc'[p] \in {"lock", "row"} /\ (pc'[p] = "row" => ~Creates(o))
      /\ ~Creates(o) => o.key \in txs
  <2>1. ~Creates(o) => o.key \in txs
    BY DEF Begin
  <2>2. pc' \in {[pc EXCEPT ![p] = "lock"], [pc EXCEPT ![p] = "row"]}
    BY DEF Begin, Goto
  <2>3. ~Creates(o) \/ pc' = [pc EXCEPT ![p] = "lock"]
    BY DEF Begin, Goto
  <2> QED BY <2>1, <2>2, <2>3 DEF Begin, tables, LockInv, LockType
<1>3. LockType'
  BY <1>1, <1>2 DEF LockInv, LockType, PCs
<1>4. op'[p] = o /\ want'[p] = {o.from, o.to}
  BY <1>2 DEF LockInv, LockType
<1>5. /\ \A u \in Users : lock'[u] # p
      /\ \A k \in Keys : keyLock'[k] # p
  BY <1>2 DEF LockInv, HolderOK, KeyHolderOK
<1>6. OpenOK(p)'
  BY <1>2, <1>4 DEF OpenOK, Parties
<1>7. (\A u \in Users : HolderOK(u, p)') /\ (\A k \in Keys : KeyHolderOK(k, p)')
  BY <1>5 DEF HolderOK, KeyHolderOK
<1>8. /\ \A q \in Procs \ {p} : pc'[q] = pc[q] /\ op'[q] = op[q] /\ want'[q] = want[q]
      /\ lock' = lock /\ keyLock' = keyLock /\ txs' = txs
  BY <1>2 DEF LockInv, LockType
<1> QED BY <1>3, <1>6, <1>7, <1>8, KeysStayFree, OthersKeepTheirs

\* The commit of p leaves the keys of others that are about to commit free.
LEMMA CommitLockInv ==
    ASSUME LockInv, NEW p \in Procs, Commit(p)
    PROVE  LockInv'
<1>1. /\ pc[p] = "commit" /\ OpenOK(p) /\ op[p] \in Operation
  BY DEF Commit, LockInv, OpenOK
<1>2. op[p].key \in Keys /\ {op[p].from, op[p].to} \subseteq Users
  BY <1>1 DEF Operation
<1>3. /\ Release(p) /\ txs' = txs \cup {op[p].key}
      /\ wallets' = wallets \cup {op[p].from, op[p].to}
  BY DEF Commit
<1>4. \A q \in Procs \ {p} : Creates(op[q]) /\ pc[q] = "commit" => op[q].key \notin txs'
  BY <1>1, <1>3 DEF LockInv, OpenOK
<1>5. wallets' \subseteq Users /\ txs \subseteq txs' /\ txs' \subseteq Keys
  BY <1>2, <1>3 DEF LockInv, LockType
<1> QED BY <1>3, <1>4, <1>5, ReleaseLockInv

\* Every step keeps the lock invariant.
LEMMA NextLockInv == LockInv /\ [Next]_vars => LockInv'
<1> SUFFICES ASSUME LockInv, [Next]_vars PROVE LockInv'
  OBVIOUS
<1>1. ASSUME NEW p \in Procs, NEW o \in Operation, Begin(p, o) PROVE LockInv'
  BY <1>1, BeginLockInv
<1>2. ASSUME NEW p \in Procs, pc[p] # "idle" PROVE op[p].key \in Keys /\ OpenOK(p)
  BY <1>2 DEF LockInv, OpenOK, Operation
<1>3. ASSUME NEW p \in Procs, LockRow(p) PROVE LockInv'
  BY <1>2, <1>3, LocalLockInv DEF LockRow, tables, PCs
<1>4. ASSUME NEW p \in Procs, LockWallet(p) PROVE LockInv'
  BY <1>4, LockedLockInv DEF LockWallet, tables
<1>5. ASSUME NEW p \in Procs, WalletMissing(p) PROVE LockInv'
  BY <1>2, <1>5, LocalLockInv DEF WalletMissing, tables, PCs
<1>6. ASSUME NEW p \in Procs, InsertWallet(p) PROVE LockInv'
  BY <1>6, LockedLockInv DEF InsertWallet, tables
<1>7. ASSUME NEW p \in Procs, CheckFunds(p) PROVE LockInv'
  <2>1. CASE Creates(op[p])
    BY <2>1, <1>2, <1>7, LocalLockInv DEF CheckFunds, tables, PCs
  <2>2. CASE ~Creates(op[p])
    BY <2>2, <1>2, <1>7, LocalLockInv DEF CheckFunds, tables, PCs
  <2> QED BY <2>1, <2>2
<1>8. ASSUME NEW p \in Procs, InsertKey(p) PROVE LockInv'
  <2>1. pc[p] = "key" /\ Creates(op[p])
    BY <1>2, <1>8 DEF InsertKey, OpenOK
  <2> QED BY <2>1, <1>2, <1>8, LocalLockInv DEF InsertKey, tables, PCs
<1>9. ASSUME NEW p \in Procs, Commit(p) PROVE LockInv'
  BY <1>9, CommitLockInv
<1>10. ASSUME NEW p \in Procs, Reject(p) \/ ConnectionLost(p) PROVE LockInv'
  <2>1. Release(p) /\ UNCHANGED <<wallets, txs>>
    BY <1>10 DEF Reject, ConnectionLost, tables
  <2>2. wallets' \subseteq Users /\ txs' \subseteq Keys
    BY <2>1 DEF LockInv, LockType
  <2> QED BY <2>1, <2>2, ReleaseLockInv, KeysStayFree
<1>11. ASSUME NEW u \in Users, CreateWallet(u) PROVE LockInv'
  BY <1>11 DEF CreateWallet, LockInv, LockType, OpenOK, HolderOK, KeyHolderOK, Parties, locals
<1>12. ASSUME UNCHANGED <<wallets, txs, lock, keyLock, pc, op, want>> PROVE LockInv'
  BY <1>12 DEF LockInv, LockType, OpenOK, HolderOK, KeyHolderOK, Parties
<1>13. ASSUME ReconcileStep PROVE LockInv'
  BY <1>12, <1>13 DEF ReconcileStep, ListWallets, ReconcileWallet, SaveWallet, tables, locals
<1>14. CASE UNCHANGED vars
  BY <1>12, <1>14 DEF vars, tables, locals
<1> QED BY <1>1, <1>3, <1>4, <1>5, <1>6, <1>7, <1>8, <1>9, <1>10, <1>11, <1>13, <1>14
        DEF Next, ProcStep

\* So it always holds, with or without autoFix.
LEMMA LockInvariant == Spec => []LockInv
BY InitLockInv, NextLockInv, PTL DEF Spec

-----------------------------------------------------------------------------
(* Waiting leads upwards. *)

Rank(p) == CASE pc[p] = "row" -> 0
             [] pc[p] \in {"lock", "insert"} -> NextUser(p)
             [] pc[p] = "key" -> NumUsers + 1
             [] OTHER -> NumUsers + 2

\* The rank of a transaction is a number, at most NumUsers + 2.
LEMMA RankIsBounded ==
    ASSUME LockInv, NEW p \in Procs
    PROVE  Rank(p) \in 0..(NumUsers + 2)
<1>1. CASE pc[p] \in {"lock", "insert"}
  BY <1>1, NextUserIsSmallest, NumUsersAssumption DEF Rank, Users
<1>2. CASE pc[p] \notin {"lock", "insert"}
  BY <1>2, NumUsersAssumption DEF Rank
<1> QED BY <1>1, <1>2

\* Whoever p waits for has a higher rank.
LEMMA WaitingRises ==
    ASSUME LockInv, NEW p \in Procs, NEW q \in Procs, WaitsFor(p, q)
    PROVE  Rank(p) < Rank(q)
<1>1. OpenOK(p) /\ OpenOK(q) /\ pc[q] \in PCs
  BY DEF LockInv, LockType
<1>2. CASE pc[p] = "row" /\ keyLock[op[p].key] = q
  <2>1. /\ op[p] \in Operation /\ ~Creates(op[p])
    BY <1>1, <1>2 DEF OpenOK
  <2>2. op[p].key \in Keys /\ op[p].key \in txs
    BY <1>1, <1>2, <2>1 DEF OpenOK, Operation
  <2>3. pc[q] \in {"lock", "insert", "check", "commit"}
    BY <1>2, <2>2 DEF LockInv, KeyHolderOK
  <2>4. Rank(p) = 0
    BY <1>2 DEF Rank
  <2>5. CASE pc[q] \in {"lock", "insert"}
    BY <2>4, <2>5, NextUserIsSmallest DEF Rank, Users
  <2>6. CASE pc[q] \in {"check", "commit"}
    BY <2>4, <2>6, NumUsersAssumption DEF Rank
  <2> QED BY <2>3, <2>5, <2>6
<1>3. CASE pc[p] \in {"lock", "insert"} /\ lock[NextUser(p)] = q
  <2>1. NextUser(p) \in Users /\ Rank(p) = NextUser(p)
    BY <1>3, NextUserIsSmallest DEF Rank
  <2>2. /\ pc[q] \in {"lock", "insert", "check", "key", "commit"}
        /\ \A v \in want[q] : NextUser(p) < v
    BY <1>3, <2>1 DEF LockInv, HolderOK
  <2>3. CASE pc[q] \in {"lock", "insert"}
    BY <2>1, <2>2, <2>3, NextUserIsSmallest DEF Rank
  <2>4. CASE pc[q] \in {"check", "key", "commit"}
    BY <2>1, <2>4, NumUsersAssumption DEF Rank, Users
  <2> QED BY <2>2, <2>3, <2>4
<1>4. CASE pc[p] = "key" /\ op[p].key \notin txs /\ keyLock[op[p].key] = q
  <2>1. op[p] \in Operation
    BY <1>1, <1>4 DEF OpenOK
  <2>2. op[p].key \in Keys
    BY <2>1 DEF Operation
  <2>3. op[q].key = op[p].key /\ pc[q] = "commit"
    BY <1>1, <1>4, <2>2 DEF LockInv, KeyHolderOK, OpenOK
  <2> QED BY <1>4, <2>3, NumUsersAssumption DEF Rank
<1> QED BY <1>2, <1>3, <1>4 DEF WaitsFor

\* A nonempty set of transactions has one of the highest rank.
LEMMA HighestRank ==
    ASSUME LockInv, NEW S \in SUBSET Procs, S # {}
    PROVE  \E p \in S : \A q \in S : ~(Rank(p) < Rank(q))
<1> DEFINE D == {NumUsers + 2 - Rank(p) : p \in S}
<1>1. D \in SUBSET Nat /\ D # {}
  BY RankIsBounded, NumUsersAssumption
<1>2. PICK n \in D : \A m \in D : n <= m
  <2> HIDE DEF D
  <2>1. PICK n \in D : \A m \in D : ~(<<m, n>> \in OpToRel(<, Nat))
    BY <1>1, NatLessThanWellFounded, WFMin
  <2>2. \A m \in D : n <= m
    <3> TAKE m \in D
    <3>1. m \in Nat /\ n \in Nat
      BY <1>1
    <3>2. m < n => <<m, n>> \in OpToRel(<, Nat)
      BY <3>1 DEF OpToRel
    <3>3. ~(m < n)
      BY <2>1, <3>2, Zenon
    <3> QED BY <3>1, <3>3
  <2> QED BY <2>2
<1>3. PICK p \in S : n = NumUsers + 2 - Rank(p)
  BY <1>2
<1>4. \A q \in S : ~(Rank(p) < Rank(q))
  <2> TAKE q \in S
  <2>1. n <= NumUsers + 2 - Rank(q)
    BY <1>2
  <2> QED BY <2>1, <1>3, RankIsBounded, NumUsersAssumption
<1> QED BY <1>3, <1>4

\* No set of database transactions waits for itself, whatever the number of
\* users, transactions and keys, and whether reconcileWallets repairs or not.
THEOREM DeadlockFree == Spec => []NoDeadlock
<1>1. LockInv => NoDeadlock
  BY WaitingRises, HighestRank DEF NoDeadlock
<1> QED BY <1>1, LockInvariant, PTL

-----------------------------------------------------------------------------
(* The invariant of the books, without autoFix. *)

\* The entries chain up to the balance b.
Explains(l, b) ==
    \A i \in 1..Len(l) : l[i].before + l[i].delta = IF i = Len(l) THEN b ELSE l[i + 1].before

BookType ==
    /\ balance \in [Users -> Nat] /\ ledger \in [Users -> Seq(Entry)]
    /\ seen \in [Procs -> [Users -> Int]]

\* What p read under its locks is still so; it read nothing else.
SeenOK(p) == \A u \in Users : seen[p][u] = IF lock[u] = p THEN balance[u] ELSE 0

\* Whoever pays has a wallet, and enough in it once that has been checked.
PayerOK(p) ==
    pc[p] # "idle" =>
        /\ op[p].kind \in {"transfer", "payout"} /\ op[p].from \notin want[p]
                => op[p].from \in wallets
        /\ pc[p] = "insert" => MayCreate(op[p], NextUser(p))
        /\ pc[p] \in {"key", "commit"} => Funds(p)

BookInv ==
    /\ BookType
    /\ \A u \in Users \ wallets : balance[u] = 0
    /\ \A p \in Procs : SeenOK(p) /\ PayerOK(p)
    /\ rec.pc = "idle"
    /\ \A u \in Users : Explains(ledger[u], balance[u])

\* An operation changes a balance by an amount, up or down.
LEMMA DeltaType ==
    ASSUME NEW o \in Operation, NEW u \in {o.from, o.to}
    PROVE  Delta(o, u) \in Int /\ o.amount \in Nat /\ o.amount > 0
<1>1. o.amount \in Nat /\ o.amount > 0
  <2>1. o.amount \in Amounts
    BY DEF Operation
  <2>2. o.amount \in Nat \ {0}
    BY <2>1, AmountsAssumption, Zenon
  <2> QED BY <2>2
<1> QED BY <1>1 DEF Delta

\* An entry that starts from the balance the chain left extends the chain.
LEMMA AppendExplains ==
    ASSUME NEW l \in Seq(Entry), NEW b \in Int, NEW d \in Int, Explains(l, b)
    PROVE  Explains(Append(l, [before |-> b, delta |-> d]), b + d)
<1> DEFINE e == [before |-> b, delta |-> d]
           m == Append(l, e)
<1>1. Len(m) = Len(l) + 1 /\ m[Len(l) + 1] = e /\ \A i \in 1..Len(l) : m[i] = l[i]
  OBVIOUS
<1>2. Len(l) \in Nat
  OBVIOUS
<1>3. e.before = b /\ e.delta = d
  OBVIOUS
<1> HIDE DEF m, e
<1>4. ASSUME NEW i \in 1..Len(m)
      PROVE  m[i].before + m[i].delta = IF i = Len(m) THEN b + d ELSE m[i + 1].before
  <2>1. CASE i = Len(l) + 1
    BY <1>1, <1>2, <1>3, <2>1
  <2>2. CASE i = Len(l)
    BY <1>1, <1>2, <1>3, <1>4, <2>2 DEF Explains
  <2>3. CASE i < Len(l)
    BY <1>1, <1>2, <1>4, <2>3 DEF Explains
  <2> QED BY <1>1, <1>2, <1>4, <2>1, <2>2, <2>3
<1> QED BY <1>4 DEF Explains, m, e

\* The books are right at first: no entries, no wallet below zero.
LEMMA InitBookInv == Init => BookInv
<1> SUFFICES ASSUME Init PROVE BookInv
  OBVIOUS
<1>1. BookType
  BY OpeningMaxAssumption DEF Init, BookType
<1>2. \A p \in Procs : SeenOK(p) /\ PayerOK(p)
  BY NobodyAssumption DEF Init, SeenOK, PayerOK
<1>3. \A u \in Users : Explains(ledger[u], balance[u])
  BY DEF Init, Explains
<1> QED BY <1>1, <1>2, <1>3 DEF Init, BookInv, NoRec

\* A transaction that ends without a write changes nothing but its own reads.
LEMMA ReleaseSeen ==
    ASSUME LockInv, BookInv, NEW p \in Procs, Release(p)
    PROVE  /\ seen' \in [Procs -> [Users -> Int]]
           /\ \A u \in Users : seen'[p][u] = 0 /\ lock'[u] # p
           /\ \A q \in Procs \ {p} :
                /\ seen'[q] = seen[q] /\ pc'[q] = pc[q] /\ op'[q] = op[q] /\ want'[q] = want[q]
                /\ \A u \in Users : lock'[u] = q <=> lock[u] = q
           /\ pc'[p] = "idle"
BY NobodyAssumption DEF LockInv, LockType, BookInv, BookType, Release, Goto

\* A step that changes neither the tables, the wallet locks nor what was read.
LEMMA LocalBookInv ==
    ASSUME LockInv, BookInv, NEW p \in Procs,
           UNCHANGED <<wallets, balance, ledger, lock, seen, rec>>,
           \A q \in Procs \ {p} : pc'[q] = pc[q] /\ op'[q] = op[q] /\ want'[q] = want[q],
           PayerOK(p)'
    PROVE  BookInv'
<1>1. ASSUME NEW q \in Procs \ {p} PROVE PayerOK(q)'
  BY <1>1, SMTT(60) DEF BookInv, PayerOK, Funds, NextUser
<1>2. \A q \in Procs : SeenOK(q)'
  BY DEF BookInv, SeenOK
<1> QED BY <1>1, <1>2 DEF BookInv, BookType

\* The lock on the next wallet: what p reads under it is the balance, or 0 for a
\* wallet that p inserts.
LEMMA LockedBookInv ==
    ASSUME LockInv, BookInv, NEW p \in Procs, pc[p] \in {"lock", "insert"},
           lock[NextUser(p)] = Nobody, Locked(p, NextUser(p)),
           UNCHANGED <<wallets, balance, ledger, op, rec>>,
           \/ /\ NextUser(p) \in wallets
              /\ seen' = [seen EXCEPT ![p][NextUser(p)] = balance[NextUser(p)]]
           \/ /\ NextUser(p) \notin wallets
              /\ MayCreate(op[p], NextUser(p))
              /\ seen' = seen
    PROVE  BookInv'
<1> DEFINE n == NextUser(p)
<1>1. n \in want[p] /\ n \in Users
  BY NextUserIsSmallest
<1>2. /\ lock' = [lock EXCEPT ![n] = p] /\ want' = [want EXCEPT ![p] = @ \ {n}]
      /\ pc' = [pc EXCEPT ![p] = IF want[p] = {n} THEN "check" ELSE "lock"]
  BY DEF Locked, Goto
<1>3. /\ \A q \in Procs \ {p} : pc'[q] = pc[q] /\ want'[q] = want[q] /\ seen'[q] = seen[q]
      /\ want'[p] = want[p] \ {n} /\ lock'[n] = p /\ pc'[p] \in {"check", "lock"}
      /\ \A u \in Users \ {n} : lock'[u] = lock[u] /\ seen'[p][u] = seen[p][u]
      /\ seen' \in [Procs -> [Users -> Int]]
  <2>1. /\ \A q \in Procs \ {p} : pc'[q] = pc[q] /\ want'[q] = want[q]
        /\ want'[p] = want[p] \ {n} /\ lock'[n] = p /\ pc'[p] \in {"check", "lock"}
        /\ \A u \in Users \ {n} : lock'[u] = lock[u]
    BY <1>1, <1>2 DEF LockInv, LockType
  <2>2. seen \in [Procs -> [Users -> Int]] /\ balance[n] \in Int
    BY <1>1 DEF BookInv, BookType
  <2>3. seen' = seen \/ seen' = [seen EXCEPT ![p] = [seen[p] EXCEPT ![n] = balance[n]]]
    OBVIOUS
  <2> HIDE DEF n
  <2>4. /\ \A q \in Procs \ {p} : seen'[q] = seen[q]
        /\ \A u \in Users \ {n} : seen'[p][u] = seen[p][u]
        /\ seen' \in [Procs -> [Users -> Int]]
    BY <1>1, <2>2, <2>3
  <2> QED BY <2>1, <2>4
<1>4. p # Nobody
  BY NobodyAssumption
<1>5. seen'[p][n] = balance[n]
  <2>1. CASE n \in wallets
    BY <1>1, <2>1 DEF BookInv, BookType
  <2>2. CASE n \notin wallets
    BY <1>1, <1>4, <2>2 DEF BookInv, BookType, SeenOK
  <2> QED BY <2>1, <2>2
<1>6. ASSUME NEW q \in Procs PROVE SeenOK(q)'
  <2>0. SeenOK(q) /\ q # Nobody
    BY NobodyAssumption DEF BookInv
  <2>1. CASE q = p
    BY <1>3, <1>5, <2>0, <2>1 DEF SeenOK
  <2>2. CASE q # p
    <3> SUFFICES ASSUME NEW u \in Users
                 PROVE  seen'[q][u] = IF lock'[u] = q THEN balance'[u] ELSE 0
      BY DEF SeenOK
    <3> QED BY <1>1, <1>3, <2>0, <2>2 DEF SeenOK
  <2> QED BY <2>1, <2>2
<1>7. ASSUME NEW q \in Procs PROVE PayerOK(q)'
  <2>1. CASE q = p
    <3>1. op[p].kind \in {"transfer", "payout"} /\ op[p].from = n => n \in wallets
      BY DEF MayCreate
    <3> QED BY <1>3, <2>1, <3>1 DEF PayerOK, BookInv
  <2>2. CASE q # p
    BY <1>3, <2>2, ZenonT(60) DEF PayerOK, BookInv, Funds, NextUser
  <2> QED BY <2>1, <2>2
<1> QED BY <1>3, <1>6, <1>7 DEF BookInv, BookType

\* At its commit p holds the rows of its parties, and the balances it computes
\* from what it read are the balances as they are, changed by the amount.
LEMMA CommitBalances ==
    ASSUME LockInv, BookInv, NEW p \in Procs, Commit(p)
    PROVE  /\ op[p] \in Operation
           /\ \A u \in Parties(p) : u \in Users /\ lock[u] = p /\ seen[p][u] = balance[u]
           /\ balance' = [u \in Users |-> IF u \in Parties(p) THEN balance[u] + Delta(op[p], u)
                                          ELSE balance[u]]
           /\ \A u \in Users : balance'[u] \in Nat
           /\ \A u \in Users : ledger'[u] = IF u \in Parties(p) /\ Delta(op[p], u) # 0
                THEN Append(ledger[u], [before |-> balance[u], delta |-> Delta(op[p], u)])
                ELSE ledger[u]
<1>1. pc[p] = "commit" /\ OpenOK(p) /\ SeenOK(p) /\ PayerOK(p)
  BY DEF Commit, LockInv, BookInv
<1>2. op[p] \in Operation /\ want[p] = {} /\ \A u \in Parties(p) : lock[u] = p
  BY <1>1 DEF OpenOK
<1>3. Parties(p) \subseteq Users
  BY <1>2 DEF Parties, Operation
<1>4. \A u \in Parties(p) : seen[p][u] = balance[u] /\ balance[u] \in Nat
  BY <1>1, <1>2, <1>3 DEF SeenOK, BookInv, BookType
<1>5. \A u \in Parties(p) : Delta(op[p], u) \in Int
  BY <1>2, DeltaType DEF Parties
<1>6. balance' = [u \in Users |-> IF u \in Parties(p) /\ Delta(op[p], u) # 0
                                  THEN seen[p][u] + Delta(op[p], u) ELSE balance[u]]
  BY DEF Commit, Parties
<1>7. balance' = [u \in Users |-> IF u \in Parties(p) THEN balance[u] + Delta(op[p], u)
                                  ELSE balance[u]]
  BY <1>3, <1>4, <1>5, <1>6
<1>8. \A u \in Parties(p) : Delta(op[p], u) < 0 => balance[u] + Delta(op[p], u) >= 0
  BY <1>1, <1>4 DEF PayerOK, Funds, Parties
<1>9. \A u \in Users : balance'[u] \in Nat
  BY <1>4, <1>5, <1>7, <1>8 DEF BookInv, BookType
<1>10. \A u \in Users : ledger'[u] = IF u \in Parties(p) /\ Delta(op[p], u) # 0
           THEN Append(ledger[u], [before |-> balance[u], delta |-> Delta(op[p], u)])
           ELSE ledger[u]
  <2>1. ledger' = [u \in Users |->
                     IF u \in Parties(p) /\ Delta(op[p], u) # 0
                     THEN Append(ledger[u], [before |-> seen[p][u], delta |-> Delta(op[p], u)])
                     ELSE ledger[u]]
    BY DEF Commit, Parties
  <2> QED BY <2>1, <1>4
<1> QED BY <1>2, <1>3, <1>4, <1>7, <1>9, <1>10

\* A commit keeps the books: every entry starts from the balance before it.
LEMMA CommitBookInv ==
    ASSUME LockInv, BookInv, NEW p \in Procs, Commit(p)
    PROVE  BookInv'
<1>1. Release(p) /\ wallets' = wallets \cup Parties(p) /\ rec' = rec
  BY DEF Commit, Parties
<1>2. \A u \in Parties(p) : u \in Users /\ lock[u] = p
  BY CommitBalances
<1>3. ledger' = [u \in Users |-> ledger'[u]]
  BY DEF Commit
<1>4. \A u \in Parties(p) : Delta(op[p], u) \in Int
  BY CommitBalances, DeltaType DEF Parties
<1>5. ASSUME NEW u \in Users PROVE ledger'[u] \in Seq(Entry) /\ Explains(ledger'[u], balance'[u])
  <2>1. ledger[u] \in Seq(Entry) /\ balance[u] \in Int /\ Explains(ledger[u], balance[u])
    BY DEF BookInv, BookType
  <2>2. CASE u \in Parties(p) /\ Delta(op[p], u) # 0
    <3>1. /\ balance'[u] = balance[u] + Delta(op[p], u)
          /\ ledger'[u] = Append(ledger[u], [before |-> balance[u], delta |-> Delta(op[p], u)])
      BY <2>2, CommitBalances
    <3>2. [before |-> balance[u], delta |-> Delta(op[p], u)] \in Entry
      BY <1>4, <2>1, <2>2 DEF Entry
    <3> QED BY <1>4, <2>1, <2>2, <3>1, <3>2, AppendExplains
  <2>3. CASE ~(u \in Parties(p) /\ Delta(op[p], u) # 0)
    <3>1. ledger'[u] = ledger[u]
      BY <2>3, CommitBalances
    <3>2. balance'[u] = IF u \in Parties(p) THEN balance[u] + Delta(op[p], u) ELSE balance[u]
      BY CommitBalances
    <3>3. balance'[u] = balance[u]
      BY <2>1, <2>3, <3>2
    <3> QED BY <2>1, <3>1, <3>3
  <2> QED BY <2>2, <2>3
<1>6. BookType'
  <2>1. balance' \in [Users -> Nat]
    BY CommitBalances
  <2>2. ledger' \in [Users -> Seq(Entry)]
    BY <1>3, <1>5
  <2> QED BY <1>1, <2>1, <2>2, ReleaseSeen DEF BookType
<1>7. \A u \in Users \ wallets' : balance'[u] = 0
  BY <1>1, CommitBalances DEF BookInv
<1>8. ASSUME NEW q \in Procs PROVE SeenOK(q)' /\ PayerOK(q)'
  <2>1. CASE q = p
    BY <1>1, <2>1, ReleaseSeen DEF SeenOK, PayerOK
  <2>2. CASE q # p
    <3>1. \A u \in Users : lock[u] = q => balance'[u] = balance[u]
      BY <1>2, <2>2, CommitBalances
    <3>2. SeenOK(q) /\ PayerOK(q)
      BY DEF BookInv
    <3>3. SeenOK(q)'
      BY <1>1, <2>2, <3>1, <3>2, ReleaseSeen DEF SeenOK
    <3>4. PayerOK(q)'
      BY <1>1, <2>2, <3>2, ReleaseSeen, ZenonT(60) DEF PayerOK, Funds, NextUser
    <3> QED BY <3>3, <3>4
  <2> QED BY <2>1, <2>2
<1> QED BY <1>1, <1>5, <1>6, <1>7, <1>8 DEF BookInv

\* Every step keeps the books, as long as reconcileWallets only reports.
LEMMA NextBookInv == ~AutoFix /\ LockInv /\ BookInv /\ [Next]_vars => BookInv'
<1> SUFFICES ASSUME ~AutoFix, LockInv, BookInv, [Next]_vars PROVE BookInv'
  OBVIOUS
<1>1. ASSUME NEW p \in Procs, NEW o \in Operation, Begin(p, o) PROVE BookInv'
  <2>1. /\ UNCHANGED <<wallets, balance, ledger, lock, seen, rec>>
        /\ \A q \in Procs \ {p} : pc'[q] = pc[q] /\ op'[q] = op[q] /\ want'[q] = want[q]
        /\ pc'[p] \in {"lock", "row"} /\ op'[p] = o /\ o.from \in want'[p]
    BY <1>1 DEF Begin, Goto, tables, LockInv, LockType
  <2> QED BY <2>1, LocalBookInv DEF PayerOK
<1>2. ASSUME NEW p \in Procs, LockRow(p) \/ WalletMissing(p) \/ CheckFunds(p) \/ InsertKey(p)
      PROVE  BookInv'
  <2>1. /\ UNCHANGED <<wallets, balance, ledger, lock, seen, rec, op, want>>
        /\ \A q \in Procs \ {p} : pc'[q] = pc[q]
        /\ pc[p] # "idle"
        /\ pc'[p] \in {"key", "commit"} => Funds(p)
        /\ pc'[p] = "insert" => MayCreate(op[p], NextUser(p))
    BY <1>2 DEF LockRow, WalletMissing, CheckFunds, InsertKey, Goto, tables, LockInv, LockType,
                BookInv, PayerOK
  <2>2. (Funds(p) => Funds(p)') /\ NextUser(p)' = NextUser(p)
    BY <2>1 DEF Funds, NextUser
  <2> QED BY <2>1, <2>2, LocalBookInv DEF PayerOK, BookInv
<1>3. ASSUME NEW p \in Procs, LockWallet(p) PROVE BookInv'
  BY <1>3, LockedBookInv DEF LockWallet, tables
<1>4. ASSUME NEW p \in Procs, InsertWallet(p) PROVE BookInv'
  <2>1. MayCreate(op[p], NextUser(p))
    BY <1>4 DEF InsertWallet, BookInv, PayerOK
  <2> QED BY <1>4, <2>1, LockedBookInv DEF InsertWallet, tables
<1>5. ASSUME NEW p \in Procs, Commit(p) PROVE BookInv'
  BY <1>5, CommitBookInv
<1>6. ASSUME NEW p \in Procs, Reject(p) \/ ConnectionLost(p) PROVE BookInv'
  <2>1. Release(p) /\ UNCHANGED <<wallets, balance, ledger, rec>>
    BY <1>6 DEF Reject, ConnectionLost, tables
  <2>2. ASSUME NEW q \in Procs PROVE SeenOK(q)' /\ PayerOK(q)'
    <3>1. CASE q = p
      BY <2>1, <3>1, ReleaseSeen DEF SeenOK, PayerOK
    <3>2. CASE q # p
      <4>1. SeenOK(q)'
        BY <2>1, <3>2, ReleaseSeen DEF SeenOK, BookInv
      <4>2. PayerOK(q)
        BY DEF BookInv
      <4>3. PayerOK(q)'
        BY <2>1, <3>2, <4>2, ReleaseSeen, ZenonT(60) DEF PayerOK, Funds, NextUser
      <4> QED BY <4>1, <4>3
    <3> QED BY <3>1, <3>2
  <2> QED BY <2>1, <2>2, ReleaseSeen DEF BookInv, BookType
<1>7. ASSUME NEW u \in Users, CreateWallet(u) PROVE BookInv'
  BY <1>7, ZenonT(60) DEF CreateWallet, locals, BookInv, BookType, SeenOK, PayerOK, Funds, NextUser
<1>8. ~ReconcileStep
  BY DEF ReconcileStep, ListWallets, ReconcileWallet, SaveWallet, BookInv
<1>9. CASE UNCHANGED vars
  BY <1>9, ZenonT(60) DEF vars, tables, locals, BookInv, BookType, SeenOK, PayerOK, Funds, NextUser
<1> QED BY <1>1, <1>2, <1>3, <1>4, <1>5, <1>6, <1>7, <1>8, <1>9 DEF Next, ProcStep

\* So, without autoFix, both invariants always hold.
LEMMA BookInvariant ==
    ASSUME ~AutoFix
    PROVE  Spec => [](LockInv /\ BookInv)
<1>1. Init => LockInv /\ BookInv
  BY InitLockInv, InitBookInv
<1>2. LockInv /\ BookInv /\ [Next]_vars => LockInv' /\ BookInv'
  BY NextLockInv, NextBookInv
<1> QED BY <1>1, <1>2, PTL DEF Spec

\* Without autoFix every wallet's ledger is a chain without gaps that ends at the
\* current balance, whatever the interleaving of transfers, payouts, top-ups,
\* settlements, refunds and lost connections.
THEOREM LedgerAlwaysExplains ==
    ASSUME ~AutoFix
    PROVE  Spec => []LedgerExplainsBalance
<1>1. BookInv => LedgerExplainsBalance
  BY DEF BookInv, Explains, LedgerExplainsBalance
<1> QED BY <1>1, BookInvariant, PTL

-----------------------------------------------------------------------------
(* The refinement of WalletBook. *)

\* The commit of one database transaction is one operation on the book.
LEMMA CommitIsBookStep ==
    ASSUME LockInv, BookInv, NEW p \in Procs, Commit(p)
    PROVE  WB!BookNext
<1> DEFINE o == op[p]
<1>1. /\ o \in Operation /\ pc[p] = "commit" /\ OpenOK(p) /\ PayerOK(p)
      /\ want[p] = {}
  BY CommitBalances DEF Commit, LockInv, BookInv, OpenOK
<1>2. /\ o.from \in Users /\ o.to \in Users /\ o.amount \in Amounts /\ o.key \in Keys
      /\ o.kind \in Kinds /\ (o.kind = "transfer" <=> o.from # o.to)
  BY <1>1 DEF Operation
<1>3. o.amount \in Nat /\ o.amount > 0
  BY <1>1, DeltaType
<1>4. /\ txs' = txs \cup {o.key} /\ wallets' = wallets \cup {o.from, o.to}
  BY DEF Commit
<1>5. /\ balance \in [Users -> Nat]
      /\ balance' = [u \in Users |-> IF u \in {o.from, o.to} THEN balance[u] + Delta(o, u)
                                     ELSE balance[u]]
  BY CommitBalances DEF Parties, BookInv, BookType
<1>6. \A u \in {o.from, o.to} : Delta(o, u) < 0 => balance[u] + Delta(o, u) >= 0
  BY <1>1, CommitBalances DEF PayerOK, Funds, Parties
<1>7. Creates(o) => o.key \notin txs
  BY <1>1 DEF OpenOK
<1>8. ~Creates(o) => o.key \in txs
  BY <1>1 DEF OpenOK
<1>9. o.kind \in {"transfer", "payout"} => o.from \in wallets
  BY <1>1 DEF PayerOK
<1> HIDE DEF o
<1>10. CASE o.kind = "transfer"
  <2>1. /\ o.from # o.to /\ Delta(o, o.from) = 0 - o.amount /\ Delta(o, o.to) = o.amount
    BY <1>2, <1>10 DEF Delta
  <2>2. /\ balance[o.from] >= o.amount
        /\ balance' = [balance EXCEPT ![o.from] = @ - o.amount, ![o.to] = @ + o.amount]
    <3>1. balance[o.from] \in Nat /\ 0 - o.amount < 0
      BY <1>2, <1>3, <1>5
    <3>2. balance[o.from] + (0 - o.amount) >= 0
      BY <1>6, <2>1, <3>1
    <3>3. \A u \in Users : balance'[u] = IF u = o.from THEN balance[u] - o.amount
                                         ELSE IF u = o.to THEN balance[u] + o.amount
                                         ELSE balance[u]
      BY <1>2, <1>3, <1>5, <2>1
    <3>4. balance[o.from] >= o.amount
      BY <1>3, <3>1, <3>2
    <3> QED BY <1>2, <1>5, <2>1, <3>3, <3>4
  <2>3. WB!Move(o.from, o.to, o.amount, o.key)
    BY <1>4, <1>7, <1>9, <1>10, <2>1, <2>2 DEF WB!Move, Creates
  <2> QED BY <1>2, <2>3 DEF WB!BookNext
<1>11. CASE o.kind = "payout"
  <2>1. /\ o.from = o.to /\ Delta(o, o.from) = 0 - o.amount
    BY <1>2, <1>11 DEF Delta
  <2>2. /\ balance[o.from] >= o.amount
        /\ balance' = [balance EXCEPT ![o.from] = @ - o.amount]
    <3>1. balance[o.from] \in Nat /\ 0 - o.amount < 0
      BY <1>2, <1>3, <1>5
    <3>2. balance[o.from] + (0 - o.amount) >= 0
      BY <1>6, <2>1, <3>1
    <3>3. \A u \in Users : balance'[u] = IF u = o.from THEN balance[u] - o.amount
                                         ELSE balance[u]
      BY <1>2, <1>3, <1>5, <2>1
    <3>4. balance[o.from] >= o.amount
      BY <1>3, <3>1, <3>2
    <3> QED BY <1>2, <1>5, <2>1, <3>3, <3>4
  <2>3. WB!TakeOut(o.from, o.amount, o.key)
    BY <1>4, <1>7, <1>9, <1>11, <2>1, <2>2 DEF WB!TakeOut, Creates
  <2> QED BY <1>2, <2>3 DEF WB!BookNext
<1>12. CASE o.kind = "topup"
  <2>1. /\ o.from = o.to /\ Delta(o, o.from) = 0
    BY <1>2, <1>12 DEF Delta
  <2>2. balance' = balance
    BY <1>2, <1>5, <2>1
  <2>3. WB!Announce(o.from, o.key)
    BY <1>4, <1>7, <1>12, <2>1, <2>2 DEF WB!Announce, Creates
  <2> QED BY <1>2, <2>3 DEF WB!BookNext
<1>13. CASE o.kind \in {"deposit", "refund"}
  <2>1. /\ o.from = o.to /\ Delta(o, o.from) = o.amount
    BY <1>2, <1>13 DEF Delta
  <2>2. balance' = [balance EXCEPT ![o.from] = @ + o.amount]
    BY <1>2, <1>3, <1>5, <2>1
  <2>3. WB!PutIn(o.from, o.amount, o.key)
    BY <1>4, <1>8, <1>13, <2>1, <2>2 DEF WB!PutIn, Creates
  <2> QED BY <1>2, <2>3 DEF WB!BookNext
<1> QED BY <1>2, <1>10, <1>11, <1>12, <1>13 DEF Kinds

\* Row locks under READ COMMITTED implement operations that take effect at once:
\* without autoFix, every step is a step of the book or leaves the book alone.
THEOREM ImplementsBook ==
    ASSUME ~AutoFix
    PROVE  Spec => BookKept
<1>1. Init => WB!BookInit
  BY OpeningMaxAssumption DEF Init, WB!BookInit
<1>2. LockInv /\ BookInv /\ [Next]_vars => [WB!BookNext]_(WB!bookVars)
  <2> SUFFICES ASSUME LockInv, BookInv, [Next]_vars
               PROVE  WB!BookNext \/ UNCHANGED <<wallets, balance, txs>>
    BY DEF WB!bookVars
  <2>1. ASSUME NEW p \in Procs, Commit(p) PROVE WB!BookNext
    BY <2>1, CommitIsBookStep
  <2>2. ASSUME NEW u \in Users, CreateWallet(u) PROVE WB!BookNext
    BY <2>2 DEF CreateWallet, WB!BookNext, WB!Open
  <2>3. ASSUME NEW p \in Procs, NEW o \in Operation, Begin(p, o)
        PROVE  UNCHANGED <<wallets, balance, txs>>
    BY <2>3 DEF Begin, tables
  <2>4. ASSUME NEW p \in Procs,
               \/ LockRow(p) \/ LockWallet(p) \/ WalletMissing(p) \/ InsertWallet(p)
               \/ CheckFunds(p) \/ InsertKey(p) \/ Reject(p) \/ ConnectionLost(p)
        PROVE  UNCHANGED <<wallets, balance, txs>>
    BY <2>4 DEF LockRow, LockWallet, WalletMissing, InsertWallet, CheckFunds, InsertKey, Reject,
                ConnectionLost, tables
  <2>5. ~ReconcileStep
    BY DEF ReconcileStep, ListWallets, ReconcileWallet, SaveWallet, BookInv
  <2>6. CASE UNCHANGED vars
    BY <2>6 DEF vars, tables
  <2> QED BY <2>1, <2>2, <2>3, <2>4, <2>5, <2>6 DEF Next, ProcStep
<1> QED BY <1>1, <1>2, BookInvariant, PTL DEF Spec, BookKept, WB!BookSpec

=============================================================================
