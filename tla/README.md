# TLA+ verification of the Kufi e-wallet and its chain

TLA+ modules translated from the source of this repository, the TLC
configurations that check them on small instances, and TLAPS proofs of the
results that hold for every instance. `PROJECT.json` lists the components, runs,
source lines of every definition, hazards, mutants and theorems. Paths below
are relative to the repository root.

To check: `tlc -config <run>.cfg <module>` for a run of section 4,
`tlapm <module>_proofs.tla` for the proofs. Every property of a run has a mutant,
a plausible slip in the modelled code (an operator marked `Mutant:` beside the
definition it replaces), under which TLC finds the property violated.

## 1. The system

Kufi is an e-wallet of NestJS services that talk gRPC, each with its own
PostgreSQL tables, Kafka for notifications and a Hyperledger Fabric network
behind a Go gateway.

| Component | State | Operations | Correct when |
|---|---|---|---|
| transaction service (`e-wallet/transaction-service`) | `wallets`, `transactions`, `ledger_entries`, `funding_sources` | transfer, top-up, withdrawal, MarkSettlement, ReconcileWallets, chain worker | a key moves money once; balances are the ledger; a transaction reaches a final state |
| transaction outbox (`.../src/events`) | event rows with lease, attempts, status | enqueue, claim, publish, back off, give up | no event is lost; PUBLISHED means published |
| outside-payment service | `external_transfers` | InitiateTransfer, CheckTransfer through partner adapters | the row tells what the partner decided |
| settlement service | a `running` flag | cron cycle: list pending transfers, poll, MarkSettlement, reconcile | every external transaction is settled or failed, once |
| notification service | `notifications`, settings | Kafka consumer, mail | every event is notified |
| chain service | none | AnchorTransfer, GetReceipt with retries | a retry does not anchor twice |
| chain gateway (`chain/internal/api`, `fabric`, `receipt`) | receipt, idempotency and nonce files | SubmitTransfer, GetReceipt, ObserveTransaction | a key is submitted once, also after a restart |
| payment chaincode | transfer intents in the world state | create, settle, cancel | an intent ends once |
| governance chaincode | join requests, votes, policy, organisation registry | RequestJoin, ApproveJoin, RejectJoin, UpdatePolicy, RegisterExistingOrgs | admission by majority, one vote each, final decisions |
| node manager (`chain/internal/nodemgr`) | peers and join requests in JSON files | submit, gossip, vote, approve, sign | the nodes agree on who joins |
| auth service | users, sessions, one-time codes, step-up tokens | login, refresh, OTP, PIN, KYC | a refresh token or code works once |
| API gateway (`e-wallet/api-gateway`) with the ATO assessment | attempts under way, statistics cache | transfer, top-up, withdrawal with risk check and step-up | a payment is made once, the answer is true |
| monitoring system, AML scoring, mobile app, evaluation | snapshots, models, screens, measurements | probes, scoring, UI, load tests | nothing here feeds back |

How they interact. The gateway calls the transaction service. A handler persists
a transaction in one database transaction, then awaits the outside-payment
service, then saves its in-memory entity. The settlement service polls: it lists
pending external transactions, asks the outside-payment service, and calls
MarkSettlement, which locks the row. The chain worker inside the transaction
service claims settled rows and calls the chain service, which calls the chain
gateway, which submits to Fabric. State changes put events into the outbox; a
dispatcher publishes them to Kafka; the notification service consumes them. The
node managers decide off chain who joins and update the channel; the governance
chaincode records the same decision on it.

What is hard. Entities are read before an await and written whole after it, so
every concurrent change can be overwritten. Several replicas, cycles and workers
run at once with leases and time-outs instead of locks. A time-out does not say
whether the callee acted. Fabric calls are computed on a state that may be gone
when they commit. Any process may stop between two steps. The hazards are listed
with their lines in `PROJECT.json`.

## 2. Modules

```
OutsidePayment <- TransferLifecycle <- MCTransferLifecycle, TransferLifecycle_proofs
PartnerAdapter                      <- MCPartnerAdapter, Boundary_proofs
WalletBook <= WalletTransactions    <- MCWalletTransactions, WalletTransactions_proofs
Outbox <- Notifier                  <- MCNotifier, Notifier_proofs
ChainAnchor                         <- MCChainAnchor, ChainAnchor_proofs
PaymentGateway                      <- MCPaymentGateway, Boundary_proofs
AuthSessions                        <- MCAuthSessions, AuthSessions_proofs
UserAccounts                        <- MCUserAccounts, UserAccounts_proofs
Governance                          <- MCGovernance, Admission_proofs
NodeManager                         <- MCNodeManager, Admission_proofs
                                       (<- is extended by, <= is refined by)
```

Throughout, every `await`, remote call or unlocked file access ends a step, and a
TypeORM `save` is a whole-row overwrite with the copy read earlier.

**TransferLifecycle** (with **OutsidePayment**) follows one transaction, that is
one idempotency key, through all the handlers, cycles and workers that touch it.
`row` is its row in `transactions`; `debits` and `credits` count its ledger
entries; `req[r]` is a request handler with the copy of the entity it holds,
`job[j]` a settlement cycle, `worker[w]` a chain worker; `sent` are
MarkSettlement calls on their way, also those whose caller gave up. `mark` is
the markSettlement transaction that holds the row's lock: it looks for a CREDIT
entry first, then waits for the wallet, and credits, saves and commits in a
second step, between which a handler's rollback, that does not lock the row, can
refund. A database error may end a handler at each statement (`RequestFails`)
and a markSettlement transaction (`MarkAborts`); a handler that ends between the
save of a FAILED row and its refund is `stranded`. The chain service's answer is
a choice; so is the partner's decision.

**PartnerAdapter** is what OutsidePayment leaves out: how a partner's settings
are resolved from the environment (`env`), what a request to it carries and what
its signature covers (`sent`), and how its answer is read as SUBMITTED, SETTLED or
FAILED. `call[t]` is an initiateTransfer, `check[k]` a checkTransfer, `row[t]` the
`external_transfers` row and `partner[t]` what the partner really did. The reader
looks for one text inside another, so a text is a sequence of symbols and a JSON
body a function from paths to texts. It is the other side of the gateway's
payments, so the proofs about both share **Boundary_proofs**; its specification is
`PartnerSpec`.

**WalletTransactions** is the transaction service seen from the wallets: the
database transactions of many keys at the level of row locks, uncommitted inserts
of unique values and READ COMMITTED reads, plus createWallet and reconcileWallets.
**WalletBook** is the abstract specification: an atomic book in which money moves
in one step, a key is used once and no balance goes below zero. The instance
`WB == INSTANCE WalletBook WITH ...` maps the committed wallets, balances and
transactions to the book, and `BookKept` says that WalletTransactions implements
it.

**Outbox** models the event rows and the dispatchers of several replicas (claim
with a lease, publish, save, back-off, giving up) with a budget of faults: a
crash, a save that fails after the send, an answer that comes too late, a lease
that ends too early. **Notifier** composes it with the Kafka topic, the consumer
group, the e-mails and the settings requests, which create a user's default row
as the consumer does. The group subscribes without `fromBeginning` and commits
nothing before its first message: `offset` is 0 until then, a consumer that stops
before starts again at the topic's end, and what it had been given is `skipped`.

**ChainAnchor** anchors one transaction: the worker's `row`, the chain service's
`call[c]` with its retries, the gateway's handler `request[<<c, a>>]` of each
POST, its idempotency, nonce and receipt stores in memory and on disk with the
writes that go on in the background, Fabric's `ledger` and what each observer has
`seen`. A submission, its commit and the answer about it are separate steps; a
crash loses the memory and may tear a file that is being written.

**PaymentGateway** is one user's payments: a client that tries again, the
gateway's handler `request[<<p, a>>]` of each attempt with its time-outs, the
assessment with `cache`, the step-up, and the call that creates the transaction,
which goes on after its caller gave up. The creation is atomic here because
WalletTransactions and TransferLifecycle take it apart; what matters here is its
answer, which may be an error before the commit (`CreateFails`) or after it
(`Execute` with `answered` FALSE), or never come. A transfer goes to a wallet or
to an external account. `taken` is what a transaction in the book took from the
wallet: nothing from a failed withdrawal that was paid back, the amount of a
failed external transfer, which is not.

**AuthSessions** has the `auth_sessions` and `auth_otps` rows of one user and
the handlers `proc[p]` that refresh, log out, log out everywhere, store and
consume codes, beside the cleanup job's deletes. A handler can stop at each step
(`Stop`); `cut` are codes whose storing or use ended half done. **UserAccounts**
has the `users` and `kyc_profiles` rows and the handlers that log in, change
profiles, set PINs and submit KYC, with the operators that read them (login,
sign-up, recipient look-up, QR tokens). `Mailed` are the users whose column
`email` is set: the look-up of the sign-in page answers "not found" for the
others.

**Governance** models the governance chaincode. A call is first endorsed (the
guards are evaluated, `call[c]`, `at[c]`), then committed if nothing it read has
been written since (`stale`), which is how Fabric validates a read set. A call
that returns an error has no effect. The RequestJoin scan is a range query, which
Fabric validates again at commit, so it counts as read. castVote compares the
voter with the requester only, so the votes of organisations outside the registry
count, and the model lets them vote (`Applicants`).

**NodeManager** is the off-chain side of the same admission: `file[n]` is node
n's copy of the join request, `known[n]` its peers, `task[<<v, n>>]` what n does
about the vote of v (load, append, save, decide, update the channel, store the
new peer, announce it: each a step of its own). Handlers of one node overlap and
each message is sent once. A stop loses what runs and may tear the file that is
being written (`os.WriteFile` truncates it first), a request's or the peers'. An
update may take effect and be reported as failed. The orderer gets the votes of
the peers in `routed`, whose `node.json` has its address. The specification is
`NodeSpec`; **Admission_proofs** has the proofs about both sides.

## 3. What is abstracted

- One currency; users are numbers in the order `localeCompare` gives their ids.
- CheckTransfer's look-up is one step because it is one query. MarkSettlement is
  two: what it does before it waits for the wallet, and the rest.
- TransferLifecycle's attempts at the chain are counted up to `MaxAttempts`; the
  code's counter has no limit, and a run's last attempt gets a final answer.
- PaymentGateway: another user's payment to the same destination only matters for
  the statistics cache (`Preview`). A database error of an assessment is its end.
- NodeManager: the heartbeat's `UpdatePeerLastSeen` writes a time nobody decides
  by and is left out, so `peers.json` is only torn by the write of a new peer.
- Time: deadlines (leases, back-off, expiry of tokens, codes and keys) are flags
  that become due in any order; Governance counts hours up
  to a bound.
- A batch of candidates is handled one by one, so TransferLifecycle keeps one
  transaction; other transactions interact with it through the wallets only, and
  those are WalletTransactions' subject.
- Integers: amounts travel as protobuf Longs of which only the low half is read;
  `Word` is 2^32 scaled down, and the conversion keeps its sign.
- Hashes and signatures are what they cover. The wording of messages and e-mails,
  logging and response mapping are left out.
- External, modelled by what the code may meet: Firebase, SMTP, the partners'
  answers, PostgreSQL's locks, Kafka's topic and offsets, Fabric's ordering and
  validation.
- Governance: client clocks agree with the network's; RegisterExistingOrgs is
  called with the lists of founders in `OrgLists`; the threshold percentage is
  not kept because no branch reads it.

History variables record why a case the code does not rule out could arise
(`raced`, `hurt`, `mishaps`, `faults`, `unsure`, `unchecked`, ...). Apart from the
budget of faults no guard reads them. The properties name these cases as their
only exceptions, so TLC shows that there is no other way to the bad state.

## 4. Runs

| Run | Shows |
|---|---|
| `lifecycle_duplicates` | two requests with one key (or one and a read that refreshes the receipt), a cycle, a worker and a late call: one debit; a deposit credited at most once and only if settled; a withdrawal is refunded a second time only by a handler or a markSettlement transaction that had looked for the reversal before the first refund |
| `lifecycle_liveness` | two overlapping cycles and a crash or database error anywhere: the transaction is finalised, and anchored or given up; external completions are announced; a failed withdrawal is refunded unless its handler ended between the FAILED row and the refund |
| `partner_adapter` | each kind of partner with lost and error answers, static fields and two restarts that switch it off and on: the row says settled or failed only if the partner did so, what the partner took is recorded, and the signature covers transaction and amount, each but for the causes the property names |
| `wallets_serial` | the locks make the operations implement WalletBook; the ledger explains every balance; no cycle of waiting transactions, over wallets, auto-created wallets, keys and transaction rows |
| `wallets_autofix` | reconciliation with autofix races transfers and repairs what it breaks once they stop |
| `outbox_dispatch` | with a fault anywhere: PUBLISHED rows are in the topic, duplicates need a fault, every event is published or given up, and what the group is given is notified, but for a first message its consumer dies on; a stored choice is changed by its owner's request only |
| `chain_anchor` | with a time-out, lost status, torn file or crash: what is recorded as anchored is on the ledger and confirmed by a majority, the stores never run ahead of the ledger, a second intent has a cause, and a transaction is anchored in the end, but for a lost receipt and, with the quorum, a computed block hash |
| `payment_gateway` | two payments in three attempts: a keyed payment is made once, one without a key again only after a time-out or an error that came after a commit; an answer is true but for the same cases; a payment without step-up was unremarkable unless another came between, the balance shown is real |
| `auth_sessions` | rotation, logout, one-time codes and the cleanup job: a rotated or revoked token stays dead, tokens and codes work once, the code last sent works, but for overlapping calls, unsent codes and handlers that stopped half way |
| `auth_accounts` | logins, profiles, PINs and KYC with a crash: acknowledged writes stand, a number names one user and leads to it in every format, at sign-in if the user has an e-mail, no review without a profile, both KYC pages agree, but for overlaps and unchecked numbers |
| `governance_votes` | racing requests and votes, two clients of one organisation: one pending request, one vote each, outcome as voted, decisions final, no late vote counts and nobody is registered without votes of more than half as many organisations as were counted, members or not, while a policy changes and requests expire |
| `nodes_gossip` | an orderer and two peers with overlapping handlers and a fault: no approval or update without a majority, one update, which the file tells unless its answer was lost, handled votes stay, a majority is noticed and the new peer known, but for the named faults |

Bounds. Two requests with one key are enough for a duplicate to race at each
step of the first; two cycles and the calls they sent for every order of two
decisions; one crash or database error at any step for each recovery path
(`MaxFaults`), one attempt at the chain and, with a retry, two (`MaxAttempts`).
Wallets: two users and two keys let opposite transfers, equal keys and
auto-created wallets meet; two transactions rule out a cycle of two, and longer
ones are ruled out by proof. Outbox: two dispatchers, a batch of one of two
events and one fault let a dispatcher die or be overtaken by its successor; one
retry reaches the limit. Chain: two calls of two attempts, three Fabric
transactions and one observer (so the majority is both), amounts below and at
half of a `Word` of 8, one fault. Payments: two payments with and without keys
in three attempts, a wallet of 10, a hard limit of 9, a cache of one entry and a
`Word` of 20, so that amounts and balances lie on both sides of each limit; five
plans for the pairs of kinds that share a wallet, a destination or a source.
Sessions: two handlers, three tokens, two codes, five calls: a token, its
successor and a rival. Accounts: two users, one without an e-mail, who contend
for one number in three formats, four calls, one crash. Partner: two transfers
(for the shared reference), two checks of one row, two restarts (a partner
switched off and on again), every partner with its defaults and the overrides
that change what is sent. Governance: two founders (kufi with two clients, bank
with none) and two newcomers, one with a client that may vote for the other
before it is a member and after, two requests, two calls in flight, three points
in time and a policy that shortens the expiry; the registry starts empty or with
the founders and grows, so the roundings of the majority occur. Nodes: an
orderer and two peers, who know each other or of whom one knows nobody or one
cannot reach the orderer, two votes, one fault.

One fault is enough where each exception is caused by one; combinations of
faults are not explored. The constants `Max...`, `OpeningMax` and `Word` name the
bounds. The runs switch deadlock checking off because these systems stop when no
request is left.

Fairness. The services' event loops and timers run for ever, so their own steps
are weakly fair. A poll or a call repeated for ever gets an answer once, a
partner asked for ever has decided once, and PostgreSQL grants a lock in the
order of the requests: these are strongly fair. In ChainAnchor the worker, the
chain service, the gateway's handlers and Fabric are weakly fair. Requests,
time-outs, crashes and faults are never fair. NodeManager states what must
happen in the end as what holds whenever nothing is under way (`Quiet`), since
every handler ends after a few steps.

## 5. Proofs

The constants are arbitrary, subject to the named ASSUMEs: bounds and amounts are
natural numbers, sets that are counted are finite, tables have their types. So a
theorem holds for any number of users, handlers, retries and crashes, where a run
shows it for two or three. Each theorem is `Spec => []P` or, for an action
property, `Spec => P`. None of the properties is inductive: nearly always because
a handler acts on what it read some steps ago. The invariants below say what is
still true of that.

**TransferLifecycle_proofs**

- `TypeCorrect`: `TypeOK`.
- `DepositSafe`: a deposit is credited at most once, only for a partner submission
  that settled, and is not COMPLETED without the credit. `Inv` covers every copy
  of the row: one that shows the money as arrived was taken after the credit, and
  a decision in a cycle or a late call is backed by the partner's.
- `DebitedExactlyOnce`: `RowInv` adds that where a copy is held there is a row, so
  no save can bring the row into being without its debit.
- `SecondRefundsOverlap`: the only steps that credit a withdrawal are the commit
  of a markSettlement transaction and a handler's rollback, and both decide
  before they wait for the wallet; once there is a reversal nobody decides to
  make one.
- `CompletionsAnnounced`: `AnnouncedInv` says of every copy that shows the money
  as arrived that the event is in the outbox, because a stale save can bring
  COMPLETED back long after it was overwritten.

**WalletTransactions_proofs**

- `DeadlockFree`: no cycle of waiting transactions of any length, with or without
  autofix. `LockInv` says what each transaction holds at each of its steps, and
  that wallets are locked in the order of the users. Whoever waits then waits for
  someone of a higher `Rank`, and ranks are bounded (`WaitingRises`,
  `HighestRank`).
- `LedgerAlwaysExplains`, `ImplementsBook`: the ledger entries of a wallet chain
  up to its balance, and the module implements WalletBook, so nobody is overdrawn
  and a key is used once. `BookInv` says that what a transaction read under its
  locks is still so, and that funds once checked are there at commit. Both assume
  `~AutoFix`, the default (`settlement.service.ts:239`, `.env.example:10`): with
  it reconcileWallets writes balances without the lock, and both are false until
  it has repaired what it broke.

**Notifier_proofs** (with the Outbox)

- `PublishedWasSent`: `PublishInv` follows the PUBLISHED mark through the copies
  dispatchers hold and the catch branch that saves them again.
- `NotifiedOnce`: without faults the lease is a lock (`Solo`): whoever has a task
  on an event holds its live lease alone, and the consumer counts each copy of
  the topic once (`ConsumerInv`).
- `ChoicesStand`: from the types and the guards of the requests.

**ChainAnchor_proofs**

- `EveryRecordIsBacked`: `BackedInv` says of every receipt and entry, in the
  stores, on disk, in a handler or in an answer on its way, that its transaction
  is committed, and seen by a majority where that is claimed; the ledger only
  grows (`LedgerGrows`).
- `DuplicatesHaveACause`: `IntentInv` says that without a mishap one call at most
  is past the key look-up, with one of its requests past the nonce
  (`OneAtATime`), and that a transaction once submitted is held by its handler or
  stored under the key (`OneIntent`).

**Boundary_proofs**, the gateway

- `PaymentsAreMadeOnce`, `OutcomesAreTrue`: `PayInv`. With a key the book refuses
  a second transaction (`KeysInv`). Without one it is the client: a payment none
  of whose attempts timed out, or was made and answered with an error, has one
  attempt under way, and was not made unless the client knows (`Sure`).
- `OutcomesAndBalancesAreTrue`: also the balance shown is one the wallet has had.
  `BalancesHad` adds up the book backwards with a recursive function. That such a
  function exists for every book (`AfterExists`), and that one transaction more
  adds one balance and leaves the others (`AfterAppend`), is shown by a smallest
  counterexample (`WFMin` on the naturals) instead of by induction.
- `UnprovenPaymentsAreOrdinary`: `FreshInv` says that what an assessment or a
  cache entry read is what the wallet and the book say, as long as the book has
  not grown since.

**Boundary_proofs**, the partner

- `RowsAreTrue`: `PartnerInv` says of each transfer what the row, the partner
  and the mishaps have to do with each other. While a submission is under way
  the partner was sent it and nothing is stored (`AskingSent`); a transfer the
  partner was sent is without configuration only if the partner was switched off
  (`SentSwitched`), and submitted again only after a restart (`SentRestarted`);
  a row of a submission the partner has not looked at yet has a cause
  (`StoredUnderWay`). What an answer can be read as is a matter of texts:
  `FirstInIsIn`, `BodySays` and `TextRead` say which word of a body is found,
  `ReadAsFailed` and `ReadAsSuccess` which table it can match, from the tables'
  own words compared symbol by symbol (`KindWordsNotFailed`, `WordsMatch`). The
  first attempt failed at `FailedIsTrue`: it needs two restarts, and the run had
  one (section 6).
- `PaymentsAreSigned`: every request is made from the configuration of an
  environment (`SentOK`), and for each payload style and signature mode the
  signature covers transaction and amount, but for the exceptions. It failed at
  first as well, for static fields that replace the payment's (section 6).
- Assumed are only that an environment is a record of the settings
  (`PartnerAssumption`) and that a partner does not refuse with the service's own
  word for a success (`OtherCodesAssumption`).

**AuthSessions_proofs**

- `RevocationsStand`: every save of a session row writes it as revoked
  (`DeadStays`).
- `TokensAlwaysRotate`: `TokenInv` says that the token a handler past its save
  rotates is dead and, unless calls overlapped, has no successor yet.
- `CodesAlwaysWorkOnce`: `CodeInv` says, as long as no calls for the subject have
  overlapped, which codes can be live under a handler that stores or consumes
  one, and what a handler that stopped half way has left.

**UserAccounts_proofs**

- `AcknowledgedWritesAlwaysStand`: `AckInv`, a row no two operations overlapped on
  is the sum of the writes made of it and the only handler's copy is that row.
- `NumbersAlwaysIdentify`: `NumberInv`, a number that never came in unchecked has
  one user and at most one handler that brings it, whose look-up still holds. The
  first attempt at this proof failed, and rightly: a save of a stale copy can put
  back a number that was given to someone else since, a case that takes two
  numbers and six calls and so lies outside the run's bounds. The property now
  names it (`PutsBack`).
- `KycAlwaysConsistent`: `KycInv`, a copy in review belongs to a user with a
  profile, and the two statuses agree but between the two saves.

**Admission_proofs**, the chaincode

- `OnePending`, `VotesCountOnce`, `DecisionsAreFinal`: a commit does not repeat
  the contract's checks. `FreshCalls` is what is missing: a call that is not stale
  still satisfies the guard it was endorsed under, because a commit that could
  falsify it writes a key the call has read (`FreshAfterWrite`).
- `OutcomesFollowVotes`, `MembersAreAdmitted`: `Tallies` says what the votes
  counted for a request amount to; a vote adds one to one side. Who may vote is
  not part of it, for the contract does not ask.
- `LateVotesAreNotCounted`: `FreshInTime`, a vote that is not stale was proposed
  before the expiry by the policy that still holds.

**Admission_proofs**, the node managers

- `NodesInvariant`: `NodesInv`. A handler saves a copy it made some steps ago,
  so nothing said of the files alone is inductive. `HandlersOK` says what the
  copy of a running handler is worth: the request's total, a vote really cast,
  and from the save on what the file held then. `FileSource` and `CopySource`
  say where every file and copy of the next state comes from; that votes are
  true (`VotesTrue`) and every approval rests on enough of them (`EnoughTrue`)
  follows from these.
- `NodesUpdateForMajority`: `EnoughTrue`, and `OneExecutes`: without an overlap
  one handler of the orderer's node updates, and the file says approved from
  then on, unless the update was reported as failed or the file torn.
- `NodesVotesStay`: an action property; a save that drops a vote was made from a
  copy that is out of date.
- `NodesNewsArrives`: the account of what is on its way. While nothing but the
  announcement was lost and no handlers overlapped at the orderer's node, every
  approval is in its file, in a message or in a handler about to save it
  (`ApprovalsArrive`), and a majority in its file is about to be counted
  (`CountIsDue`); an announcement is still to be made, sent, delivered or lost,
  or its handler stopped (`NewsSent`). In a quiet state only the named causes
  are left.

Left to TLC:

- Liveness (`EventuallySettled`, `EventuallyAnchoredOrGivenUp`,
  `FailedWithdrawalIsRefunded`, `AutoFixConverges`, `EventuallyDispatched`,
  `EventuallyNotified`, `EventuallyAnchored`): the prover has no fairness
  reasoning. Every other property of a run is a theorem.
- The wallets with autofix, but for `DeadlockFree`.

The `TypeOK` of TransferLifecycle and the `PartnerTypeOK` are proved as such. The
proofs of the other modules contain the types they need in their invariants.

## 6. Where the code does less than one would expect

Seen while modelling. The properties name these cases as exceptions, or the model
contains them and no property excludes them.

- `transactions.service.ts:1607`: the look for a reversal comes before the lock
  of the wallet (1617), and the rollback of a failed submission does not lock
  the row. The handler and a settlement cycle that fails the same withdrawal can
  both find none and refund it twice, in either order
  (`SecondRefundOverlapped`).
- `transactions.service.ts:1594`: rollbackWithdrawalDebit rethrows after the row
  was saved as FAILED (1002). The row is no settlement candidate any more and
  nobody refunds the withdrawal; a stop in between has the same effect
  (`FailedWithdrawalIsRefunded`).
- `transactions.service.ts:1002`: the save after a submission writes back a copy
  that may be older than a settlement; a final settlement is pending again until
  the next cycle.
- `transactions.service.ts:1236`: reading a transaction whose receipt lacks its
  quorum saves the whole copy again, with the same effect.
- `transactions.service.ts:1116`: the chain worker looks at the chain and business
  status only and anchors such a reopened row.
- `transactions.service.ts:1125`: a worker that holds the transaction id of a
  receipt the gateway lost polls for it for ever (`EventuallyAnchored`).
- `handlers.go:366` (chain gateway): if the block cannot be read when the
  receipt is built, a computed hash takes its place and stays (475, 742).
  Observers who report the real one are not counted
  (`chain.adapter.service.ts:550`), so with the quorum switch on the row stays
  PENDING for ever (`EventuallyAnchored`).
- `notifications.service.ts:51`: without `fromBeginning` and before the first
  commit, a consumer that dies on its first message starts again after it
  (`EventuallyNotified`).
- `transactions.service.ts:431`: createTransfer can fail after its commit, and the
  client that is told an error tries again: without a key it pays twice
  (`PaidOnce`). With one, the gateway's risk check, which comes first, may refuse
  the second attempt of a payment that was made (`AnswersAreTrue`).
- `transactions.service.ts:423`: the submission of an external transfer that fails
  leaves the sender debited; only withdrawals are paid back.
- `auth-internal.controller.ts:678`: storeOtpCode deletes the user's live codes
  before it inserts the new one (697). A stop in between leaves the code the
  user was sent last dead and no other (`CodesWorkOnce`).
- `auth.service.ts:135`: the sign-in page finds nobody by the number of a user
  without an e-mail (`NumbersIdentify`).
- `governance.go:233`: EXPIRED is written by a call that returns an error, so the
  write is never committed and the request stays PENDING.
- `governance.go:283`: with an empty registry one approval is required of no
  organisation: the first one registers the newcomer, and because no further
  approval is possible the request is stored as REJECTED.
- `governance.go:202`: castVote does not look whether the voter is in the
  registry; votes of organisations outside it count towards the majority
  (`AdmittedByVotes`).
- `governance.go:144`: the policy's type and threshold are stored, no branch reads
  them.
- `auth.service.ts:193`: two refreshes that overlap both succeed
  (`TokensRotate`); a login brings in a phone number without looking for its
  owner (`NumbersIdentify`).
- `users.service.ts:282`: a save of a copy read before a profile change puts the
  old phone number back, also after another user, in another format, was given it
  (`NumbersIdentify`).
- `manager.go:170`: of two votes handled at once by a node one can be lost
  (`HandledVotesStay`), and the channel be updated twice
  (`UpdateFollowsMajority`).
- `manager.go:303`: an update whose acknowledgement is lost has taken effect and
  the request is stored as REJECTED (`UpdateFollowsMajority`); a stop between
  the update and the announcement (316) leaves the peers without the news
  (`NewsArrives`).
- `store.go:191`: a stop inside `os.WriteFile` tears a request's file or the
  peers', and a node that cannot read its peers goes on with none
  (`NewsArrives`).
- `manager.go:337`: the address of an orderer without an external host is empty,
  and a peer that stores it sends the orderer no votes (`gossip.go:51`).
- The partner adapter takes a word for another it contains and an error answer to
  a submission for a failure (`RowTellsThePartner`).
- `transfers.service.ts:102` (outside-payment service): a partner that is switched
  off and on again while it has a submission. Switched off, the caller's repeated
  call stores the mock's row; switched on, a check asks the partner about it, and
  if the partner has not taken the submission yet the row fails, for good, of a
  transfer the partner then makes (`FailedIsTrue`).
- `transfers.service.ts:307` (the same): the configured static fields are spread
  over the payload last. One that has the name of the order or the amount replaces
  the payment's, and the signature covers the constant (`SignatureCoversPayment`).

## 7. Not modelled

Left out: receipt hashing and signatures (pure functions over bytes), Fabric
operations (docker, configtxgen and peer commands), the payment chaincode's
SettleTransferIntent and CancelTransferIntent (nothing calls them), read-only
routes and queries, test accounts, AML and ATO models (scores of one request),
the monitoring system (it probes the other parts on a timer, stores snapshots and
shows them, and feeds nothing back), the mobile app and the load tests.
