----------------------------- MODULE WalletBook -----------------------------
(***************************************************************************)
(* What the wallet operations of the transaction service promise: each one *)
(* takes effect at once and alone ("Persist within a serialisable DB       *)
(* transaction", createTransfer).  WalletTransactions implements it with   *)
(* row locks under READ COMMITTED.                                         *)
(***************************************************************************)
EXTENDS Integers

CONSTANTS Users,     \* wallet owners (one currency)
          Keys,      \* idempotency keys
          Amounts    \* amounts a request may carry

VARIABLES wallets,   \* users that have a wallet
          balance,   \* balance[u], 0 for a user without a wallet
          txs        \* keys that have a row in the transactions table

bookVars == <<wallets, balance, txs>>

BookInit ==
    /\ wallets \subseteq Users
    /\ balance \in [Users -> Nat]
    /\ \A u \in Users \ wallets : balance[u] = 0
    /\ txs = {}

\* An internal transfer moves money the sender has, once per key.
Move(from, to, amount, key) ==
    /\ from \in wallets /\ from # to
    /\ balance[from] >= amount
    /\ key \notin txs
    /\ balance' = [balance EXCEPT ![from] = @ - amount, ![to] = @ + amount]
    /\ wallets' = wallets \cup {to}
    /\ txs' = txs \cup {key}

\* An external transfer or a withdrawal takes money the user has, once per key.
TakeOut(from, amount, key) ==
    /\ from \in wallets
    /\ balance[from] >= amount
    /\ key \notin txs
    /\ balance' = [balance EXCEPT ![from] = @ - amount]
    /\ txs' = txs \cup {key}
    /\ UNCHANGED wallets

\* A top-up request only registers the transaction.
Announce(user, key) ==
    /\ key \notin txs
    /\ txs' = txs \cup {key}
    /\ wallets' = wallets \cup {user}
    /\ UNCHANGED balance

\* A settled deposit or the refund of a failed withdrawal.
PutIn(user, amount, key) ==
    /\ key \in txs
    /\ balance' = [balance EXCEPT ![user] = @ + amount]
    /\ wallets' = wallets \cup {user}
    /\ UNCHANGED txs

Open(user) ==
    /\ wallets' = wallets \cup {user}
    /\ UNCHANGED <<balance, txs>>

BookNext ==
    \/ \E from, to \in Users, amount \in Amounts, key \in Keys : Move(from, to, amount, key)
    \/ \E user \in Users, amount \in Amounts, key \in Keys :
          TakeOut(user, amount, key) \/ PutIn(user, amount, key)
    \/ \E user \in Users, key \in Keys : Announce(user, key)
    \/ \E user \in Users : Open(user)

BookSpec == BookInit /\ [][BookNext]_bookVars

=============================================================================
