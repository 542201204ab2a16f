--------------------------- MODULE Boundary_proofs --------------------------
(***************************************************************************)
(* Proofs about the two boundaries of the system.                          *)
(*                                                                         *)
(* PaymentGateway, for any payments, plans, amounts and number of          *)
(* attempts: a payment is made once, the outcome the client is told is so, *)
(* and a payment without step-up was below every rule when it was made.    *)
(*                                                                         *)
(* PartnerAdapter, for any transfers, checks, environments, refusals and   *)
(* number of restarts: a row tells what the partner did but for the        *)
(* mishaps named, and the signature covers the payment.                    *)
(***************************************************************************)
EXTENDS PaymentGateway, PartnerAdapter, FiniteSetTheorems, SequenceTheorems,
        WellFoundedInduction, TLAPS

Tolds == {"nothing", "waiting", "accepted", "failed", "refused", "error"}
Steps == {"none", "target", "assess", "stats", "score", "proof", "create", "done"}
Dests == {"wallet", "account", "source"}

ClientState == [attempt : Nat, told : Tolds, shown : Int]

\* S is a set of statistics.  What QueriedStats adds up is not needed: two
\* queries of the same book give the same.
RequestState(S) == [pc : Steps, balance : Int, stats : S, asOf : Nat,
                    missed : BOOLEAN, gone : BOOLEAN]
CacheEntry(S) == [dest : Dests, stats : S, asOf : Nat, fresh : BOOLEAN]

Transaction == [key : Payments \X Nat, pay : Payments, kind : Kinds, amount : Int,
                failed : BOOLEAN, taken : Int, proven : BOOLEAN, remarkable : BOOLEAN,
                stale : BOOLEAN]

Typed(S) ==
    /\ plan \in Plans
    /\ client \in [Payments -> ClientState]
    /\ NoStats \in S
    /\ request \in [Requests -> RequestState(S)]
    /\ create \in [Requests -> {"none", "unproven", "proven", "done"}]
    /\ book \in Seq(Transaction)
    /\ balance \in Int
    /\ linked \in BOOLEAN
    /\ cache \in Seq(CacheEntry(S))
    /\ unsure \subseteq Payments

GatewayType == \E S : Typed(S)

-----------------------------------------------------------------------------
(* What a step does to the handlers, the client and the book               *)

\* The statistics there may be after a step.
More(S) ==
    S \cup {QueriedStats("wallet"), QueriedStats("account"), QueriedStats("source")}

\* Handlers other than r are left alone.
Others(r) == \A q \in Requests : q # r => request'[q] = request[q]

\* The plan of a payment.
LEMMA PlanType ==
    ASSUME NEW S, Typed(S), NEW r \in Requests
    PROVE  /\ r[1] \in Payments /\ r[2] \in Nat /\ r[2] > 0 /\ r = <<r[1], r[2]>>
           /\ plan[r[1]].keyed \in BOOLEAN /\ plan[r[1]].amount \in Nat
           /\ Kind(r) \in Kinds /\ Amount(r) \in Int
           /\ KeyOf(r) \in Payments \X Nat
           /\ Dest(Kind(r)) \in Dests
  <1>1. r[1] \in Payments /\ r[2] \in Nat /\ r[2] > 0 /\ r = <<r[1], r[2]>>
    BY PaymentGatewayAssumption DEF Requests
  <1>2. plan[r[1]] \in [kind : Kinds, amount : Nat \ {0}, keyed : BOOLEAN]
    BY <1>1, PaymentGatewayAssumption DEF Typed
  <1>3. Kind(r) \in Kinds /\ Dest(Kind(r)) \in Dests
    BY <1>2 DEF Kind, Dest, Dests
  <1>4. Amount(r) \in Int
    BY <1>2, PaymentGatewayAssumption DEF Amount, NormalizeAmount
  <1>5. KeyOf(r) \in Payments \X Nat
    BY <1>1, <1>2 DEF KeyOf
  <1> QED
    BY <1>1, <1>2, <1>3, <1>4, <1>5

\* The next step of one handler.
LEMMA StepStep ==
    ASSUME NEW S, Typed(S), NEW r \in Requests, NEW pc \in Steps, Step(r, pc)
    PROVE  /\ request' \in [Requests -> RequestState(S)] /\ Others(r)
           /\ request'[r].pc = pc /\ request'[r].asOf = request[r].asOf
           /\ request'[r].gone = request[r].gone
  BY ZenonT(60) DEF Typed, Step, Others, RequestState

\* A handler that has not started.
LEMMA NoRequestType ==
    ASSUME NEW S, Typed(S)
    PROVE  /\ NoRequest \in RequestState(S)
           /\ NoRequest.pc = "none" /\ NoRequest.asOf = 0 /\ ~NoRequest.gone
           /\ NoRequest.stats = NoStats /\ NoRequest.balance = 0
  <1>1. NoStats \in S
    BY DEF Typed
  <1>2. NoRequest \in RequestState(S)
    <2>1. 0 \in Int /\ 0 \in Nat /\ "none" \in Steps /\ FALSE \in BOOLEAN
      BY DEF Steps
    <2> QED
      BY <1>1, <2>1, Zenon DEF NoRequest, RequestState
  <1>3. /\ NoRequest.pc = "none" /\ NoRequest.asOf = 0 /\ ~NoRequest.gone
        /\ NoRequest.stats = NoStats /\ NoRequest.balance = 0
    BY Zenon DEF NoRequest
  <1> QED
    BY <1>2, <1>3

\* Once assessed a handler keeps nothing but what it was assessed on.
LEMMA AssessedStep ==
    ASSUME NEW S, Typed(S), NEW r \in Requests, NEW pc \in Steps, Assessed(r, pc)
    PROVE  /\ request' \in [Requests -> RequestState(S)] /\ Others(r)
           /\ request'[r].pc = pc /\ request'[r].asOf = request[r].asOf
           /\ ~request'[r].gone
  <1> DEFINE new == [NoRequest EXCEPT !.pc = pc, !.asOf = request[r].asOf]
  <1>1. /\ new \in RequestState(S) /\ new.pc = pc /\ new.asOf = request[r].asOf
        /\ ~new.gone
    BY NoRequestType DEF RequestState, Typed
  <1>2. request' = [request EXCEPT ![r] = new]
    BY DEF Assessed
  <1> HIDE DEF new
  <1> QED
    BY <1>1, <1>2 DEF Typed, Others

\* An answer ends the handler; a client that still waits takes it.
LEMMA AnswerStep ==
    ASSUME NEW S, Typed(S), NEW r \in Requests, NEW told \in Tolds, NEW shown \in Int,
           Answer(r, told, shown)
    PROVE  /\ request' \in [Requests -> RequestState(S)] /\ Others(r)
           /\ request'[r] = [NoRequest EXCEPT !.pc = "done"]
           /\ request'[r].pc = "done" /\ request'[r].asOf = 0 /\ ~request'[r].gone
           /\ client' \in [Payments -> ClientState]
           /\ request[r].gone => client' = client
           /\ \A p \in Payments : /\ client'[p].attempt = client[p].attempt
                                  /\ p # r[1] => client'[p] = client[p]
           /\ ~request[r].gone => client'[r[1]].told = told
  <1> DEFINE new == [NoRequest EXCEPT !.pc = "done"]
  <1>1. /\ new \in RequestState(S) /\ new.pc = "done" /\ new.asOf = 0
        /\ ~new.gone
    BY NoRequestType DEF RequestState, Typed, Steps
  <1>2. request' = [request EXCEPT ![r] = new]
    BY DEF Answer
  <1>3. /\ request' \in [Requests -> RequestState(S)] /\ Others(r) /\ request'[r] = new
    <2> HIDE DEF new
    <2> QED
      BY <1>1, <1>2 DEF Typed, Others
  <1>4. r[1] \in Payments
    BY PlanType
  <1>5. CASE request[r].gone
    <2>1. client' = client
      BY <1>5 DEF Answer
    <2> HIDE DEF new
    <2> QED
      BY <1>1, <1>3, <1>5, <2>1 DEF Typed, new
  <1>6. CASE ~request[r].gone
    <2>1. client' = [client EXCEPT ![r[1]].told = told, ![r[1]].shown = shown]
      BY <1>6 DEF Answer
    <2>2. /\ client' \in [Payments -> ClientState]
          /\ \A p \in Payments : /\ client'[p].attempt = client[p].attempt
                                 /\ p # r[1] => client'[p] = client[p]
          /\ client'[r[1]].told = told
      <3> DEFINE c == [client[r[1]] EXCEPT !.told = told, !.shown = shown]
      <3>1. client[r[1]] \in ClientState /\ client \in [Payments -> ClientState]
        BY <1>4 DEF Typed
      <3>2. c \in ClientState /\ c.told = told /\ c.attempt = client[r[1]].attempt
        BY <3>1 DEF ClientState
      <3>3. client' = [client EXCEPT ![r[1]] = c]
        BY <2>1
      <3> HIDE DEF c
      <3> QED
        BY <1>4, <3>1, <3>2, <3>3
    <2> HIDE DEF new
    <2> QED
      BY <1>1, <1>3, <1>6, <2>2 DEF new
  <1> QED
    BY <1>5, <1>6

\* Setting an entry of the cache: what is in it then is the entry or was there.
LEMMA CacheStep ==
    ASSUME NEW S, Typed(S), NEW dest \in Dests, NEW stats \in S,
           NEW asOf \in Nat, CacheStats(dest, stats, asOf)
    PROVE  /\ cache' \in Seq(CacheEntry(S))
           /\ \A j \in 1 .. Len(cache') :
                 \/ cache'[j].dest = dest /\ cache'[j].stats = stats /\ cache'[j].asOf = asOf
                 \/ \E i \in 1 .. Len(cache) : cache'[j] = cache[i]
  <1> DEFINE entry == [dest |-> dest, stats |-> stats, asOf |-> asOf, fresh |-> TRUE]
             known == \E i \in 1 .. Len(cache) : cache[i].dest = dest
             new == [i \in 1 .. Len(cache) |-> IF cache[i].dest = dest THEN entry ELSE cache[i]]
             set == IF known THEN new ELSE Append(cache, entry)
  <1>1. entry \in CacheEntry(S)
    <2>1. TRUE \in BOOLEAN
      OBVIOUS
    <2> QED
      BY <2>1, Zenon DEF CacheEntry
  <1>3. /\ cache \in Seq(CacheEntry(S)) /\ Len(cache) \in Nat
        /\ \A i \in 1 .. Len(cache) : cache[i] \in CacheEntry(S)
    BY DEF Typed
  <1>4. cache' = IF Len(set) <= MaxEntries THEN set ELSE Tail(set)
    BY DEF CacheStats
  <1>10. entry.dest = dest /\ entry.stats = stats /\ entry.asOf = asOf
    BY Zenon
  <1> HIDE DEF entry
  <1>5. /\ new \in Seq(CacheEntry(S)) /\ Len(new) = Len(cache)
        /\ \A j \in 1 .. Len(new) : new[j] = entry \/ \E i \in 1 .. Len(cache) : new[j] = cache[i]
    BY <1>1, <1>3
  <1>6. /\ Append(cache, entry) \in Seq(CacheEntry(S))
        /\ \A j \in 1 .. Len(Append(cache, entry)) :
              Append(cache, entry)[j] = entry
              \/ \E i \in 1 .. Len(cache) : Append(cache, entry)[j] = cache[i]
    BY <1>1, <1>3
  <1>7. /\ set \in Seq(CacheEntry(S)) /\ Len(set) \in Nat
        /\ \A j \in 1 .. Len(set) : set[j] = entry \/ \E i \in 1 .. Len(cache) : set[j] = cache[i]
    <2> HIDE DEF known, new
    <2> QED
      BY <1>5, <1>6
  <1> HIDE DEF set
  <1>8. CASE Len(set) <= MaxEntries
    BY <1>4, <1>7, <1>8, <1>10
  <1>9. CASE ~(Len(set) <= MaxEntries)
    <2>1. set # << >>
      BY <1>7, <1>9, PaymentGatewayAssumption
    <2>2. /\ Tail(set) \in Seq(CacheEntry(S)) /\ Len(Tail(set)) = Len(set) - 1
          /\ \A i \in 1 .. Len(Tail(set)) : Tail(set)[i] = set[i + 1]
      BY <1>7, <2>1, HeadTailProperties
    <2>3. \A j \in 1 .. Len(Tail(set)) :
             Tail(set)[j] = entry \/ \E i \in 1 .. Len(cache) : Tail(set)[j] = cache[i]
      <3> TAKE j \in 1 .. Len(Tail(set))
      <3>1. j + 1 \in 1 .. Len(set) /\ Tail(set)[j] = set[j + 1]
        BY <1>7, <2>2
      <3> QED
        BY <1>7, <3>1
    <2> QED
      BY <1>4, <1>9, <2>2, <2>3, <1>10
  <1> QED
    BY <1>8, <1>9

\* A record of the fields a transaction has.
LEMMA TransactionFields ==
    ASSUME NEW k \in Payments \X Nat, NEW p \in Payments, NEW d \in Kinds, NEW a \in Int,
           NEW f \in BOOLEAN, NEW t \in Int,
           NEW v \in BOOLEAN, NEW m \in BOOLEAN, NEW s \in BOOLEAN,
           NEW n, n = [key |-> k, pay |-> p, kind |-> d, amount |-> a, failed |-> f,
                       taken |-> t, proven |-> v, remarkable |-> m, stale |-> s]
    PROVE  /\ n \in Transaction
           /\ n.key = k /\ n.pay = p /\ n.failed = f /\ n.taken = t /\ n.proven = v
           /\ n.remarkable = m /\ n.stale = s
  <1>1. n.key = k /\ n.pay = p /\ n.failed = f /\ n.taken = t
    BY Zenon
  <1>2. n.proven = v /\ n.remarkable = m /\ n.stale = s
    BY Zenon
  <1>3. n \in Transaction
    BY Zenon DEF Transaction
  <1> QED
    BY <1>1, <1>2, <1>3

\* The transaction that is added, and the book with it.
LEMMA NewTransactionType ==
    ASSUME NEW S, Typed(S), NEW r \in Requests, NEW fails \in BOOLEAN, NEW taken \in Int
    PROVE  /\ NewTransaction(r, fails, taken) \in Transaction
           /\ NewTransaction(r, fails, taken).taken = taken
           /\ NewTransaction(r, fails, taken).key = KeyOf(r)
           /\ NewTransaction(r, fails, taken).pay = r[1]
           /\ NewTransaction(r, fails, taken).failed <=> fails
           /\ NewTransaction(r, fails, taken).proven <=> create[r] = "proven"
           /\ NewTransaction(r, fails, taken).remarkable <=>
                  Remarkable(Amount(r), balance, QueriedStats(Dest(Kind(r))))
           /\ NewTransaction(r, fails, taken).stale <=> request[r].asOf < Len(book)
  <1> DEFINE rem == Remarkable(Amount(r), balance, QueriedStats(Dest(Kind(r))))
             prv == create[r] = "proven"
             stl == request[r].asOf < Len(book)
  <1>1. prv \in BOOLEAN /\ stl \in BOOLEAN
    OBVIOUS
  <1>2. rem \in BOOLEAN
    BY Zenon DEF Remarkable
  <1>3. NewTransaction(r, fails, taken) =
          [key |-> KeyOf(r), pay |-> r[1], kind |-> Kind(r), amount |-> Amount(r),
           failed |-> fails, taken |-> taken, proven |-> prv, remarkable |-> rem, stale |-> stl]
    BY Zenon DEF NewTransaction
  <1> HIDE DEF rem, prv, stl
  <1>4. /\ r[1] \in Payments /\ KeyOf(r) \in Payments \X Nat /\ Kind(r) \in Kinds
        /\ Amount(r) \in Int
    BY PlanType
  <1>5. /\ NewTransaction(r, fails, taken) \in Transaction
        /\ NewTransaction(r, fails, taken).key = KeyOf(r)
        /\ NewTransaction(r, fails, taken).pay = r[1]
        /\ NewTransaction(r, fails, taken).failed = fails
        /\ NewTransaction(r, fails, taken).taken = taken
        /\ NewTransaction(r, fails, taken).proven = prv
        /\ NewTransaction(r, fails, taken).remarkable = rem
        /\ NewTransaction(r, fails, taken).stale = stl
    BY <1>1, <1>2, <1>3, <1>4, TransactionFields, SMTT(120)
  <1> QED
    BY <1>5, Zenon DEF rem, prv, stl

\* More statistics, the same types.
LEMMA MoreStats ==
    ASSUME NEW S
    PROVE  /\ Typed(S) => Typed(More(S))
           /\ S \subseteq More(S)
           /\ \A dest \in Dests : QueriedStats(dest) \in More(S)
           /\ [Requests -> RequestState(S)] \subseteq [Requests -> RequestState(More(S))]
           /\ Seq(CacheEntry(S)) \subseteq Seq(CacheEntry(More(S)))
  <1>1. S \subseteq More(S) /\ \A dest \in Dests : QueriedStats(dest) \in More(S)
    BY DEF More, Dests
  <1> HIDE DEF More
  <1>2. RequestState(S) \subseteq RequestState(More(S))
        /\ CacheEntry(S) \subseteq CacheEntry(More(S))
    BY <1>1 DEF RequestState, CacheEntry
  <1>3. Seq(CacheEntry(S)) \subseteq Seq(CacheEntry(More(S)))
    BY <1>2
  <1>4. Typed(S) => Typed(More(S))
    BY <1>1, <1>2, <1>3 DEF Typed
  <1> QED
    BY <1>1, <1>2, <1>3, <1>4

\* A new attempt.
LEMMA SendStep ==
    ASSUME NEW S, Typed(S), NEW p \in Payments, Send(p)
    PROVE  LET r == <<p, client[p].attempt + 1>> IN
           /\ request' \in [Requests -> RequestState(S)] /\ Others(r)
           /\ r \in Requests => /\ request'[r].pc \in {"assess", "target"}
                                /\ request'[r].asOf = request[r].asOf
                                /\ request'[r].gone <=> request[r].gone
           /\ client' \in [Payments -> ClientState]
           /\ client'[p].attempt = client[p].attempt + 1 /\ client'[p].told = "waiting"
           /\ \A o \in Payments : o # p => client'[o] = client[o]
  <1> DEFINE r == <<p, client[p].attempt + 1>>
             pc == FirstCall(Kind(r))
  <1>1. pc \in {"assess", "target"} /\ pc \in Steps
    BY DEF FirstCall, Steps
  <1>2. request' = [request EXCEPT ![r].pc = pc]
    BY DEF Send
  <1>3. client' = [client EXCEPT ![p].attempt = client[p].attempt + 1, ![p].told = "waiting"]
    BY DEF Send
  <1>4. /\ client' \in [Payments -> ClientState]
        /\ client'[p].attempt = client[p].attempt + 1 /\ client'[p].told = "waiting"
        /\ \A o \in Payments : o # p => client'[o] = client[o]
    <2> DEFINE n == client[p].attempt + 1
               c == [client[p] EXCEPT !.attempt = n, !.told = "waiting"]
    <2>1. client[p] \in ClientState /\ client \in [Payments -> ClientState]
      BY DEF Typed
    <2>2. n \in Nat
      BY <2>1 DEF ClientState
    <2>3. client' = [client EXCEPT ![p] = c]
      BY <1>3
    <2>4. c \in ClientState /\ c.told = "waiting" /\ c.attempt = n
      <3> HIDE DEF n
      <3> QED
        BY <2>1, <2>2 DEF ClientState, Tolds
    <2> HIDE DEF c
    <2> QED
      BY <2>1, <2>3, <2>4
  <1> HIDE DEF r, pc
  <1>5. /\ request' \in [Requests -> RequestState(S)] /\ Others(r)
        /\ r \in Requests => /\ request'[r].pc = pc
                             /\ request'[r].asOf = request[r].asOf
                             /\ request'[r].gone <=> request[r].gone
    BY <1>1, <1>2, ZenonT(120) DEF Typed, Others, RequestState
  <1> QED
    BY <1>1, <1>4, <1>5 DEF r

\* The time-out ends the handler, or leaves the assessment to itself.
LEMMA TimeoutStep ==
    ASSUME NEW S, Typed(S), NEW r \in Requests, Timeout(r)
    PROVE  /\ request' \in [Requests -> RequestState(S)] /\ Others(r)
           /\ request'[r].asOf = request[r].asOf
           /\ \/ request'[r].pc = "done"
              \/ /\ request[r].pc \in {"assess", "stats", "score"}
                 /\ request'[r].pc = request[r].pc
                 /\ request'[r].balance = request[r].balance
                 /\ request'[r].stats = request[r].stats
           /\ client' \in [Payments -> ClientState]
           /\ \A p \in Payments : /\ client'[p].attempt = client[p].attempt
                                  /\ p # r[1] => client'[p] = client[p]
           /\ client'[r[1]].told = "error" /\ unsure' = unsure \cup {r[1]}
  <1>1. r[1] \in Payments
    BY PlanType
  <1>2. /\ client' = [client EXCEPT ![r[1]].told = "error"]
        /\ unsure' = unsure \cup {r[1]}
    BY DEF Timeout
  <1>3. /\ client' \in [Payments -> ClientState]
        /\ \A p \in Payments : /\ client'[p].attempt = client[p].attempt
                               /\ p # r[1] => client'[p] = client[p]
        /\ client'[r[1]].told = "error"
    BY <1>1, <1>2, ZenonT(60) DEF Typed, ClientState, Tolds
  <1>4. CASE request[r].pc \in {"assess", "stats", "score"}
    <2>1. request' = [request EXCEPT ![r].gone = TRUE]
      BY <1>4 DEF Timeout
    <2> DEFINE new == [request[r] EXCEPT !.gone = TRUE]
    <2>2. request[r] \in RequestState(S)
      BY DEF Typed
    <2>3. /\ new \in RequestState(S) /\ new.pc = request[r].pc /\ new.asOf = request[r].asOf
          /\ new.balance = request[r].balance /\ new.stats = request[r].stats
      BY <2>2 DEF RequestState
    <2>4. request' = [request EXCEPT ![r] = new]
      BY <2>1
    <2> HIDE DEF new
    <2>5. request' \in [Requests -> RequestState(S)] /\ Others(r) /\ request'[r] = new
      BY <2>3, <2>4 DEF Typed, Others
    <2> QED
      BY <1>2, <1>3, <1>4, <2>3, <2>5
  <1>5. CASE request[r].pc \notin {"assess", "stats", "score"}
    <2>1. Assessed(r, "done")
      BY <1>5 DEF Timeout
    <2> QED
      BY <1>2, <1>3, <2>1, AssessedStep DEF Steps
  <1> QED
    BY <1>4, <1>5

\* The assessment reads the wallet.
LEMMA AssessStep ==
    ASSUME NEW S, Typed(S), NEW r \in Requests, Assess(r), Amount(r) > 0
    PROVE  /\ request' \in [Requests -> RequestState(S)] /\ Others(r)
           /\ request'[r].pc = "stats" /\ request'[r].balance = balance
           /\ request'[r].asOf = Len(book) /\ (request'[r].gone <=> request[r].gone)
           /\ client' = client
  <1> DEFINE n == Len(book)
             new == [request[r] EXCEPT !.pc = "stats", !.balance = balance, !.asOf = n]
  <1>1. request[r] \in RequestState(S) /\ n \in Nat /\ balance \in Int
    BY DEF Typed
  <1>2. request' = [request EXCEPT ![r] = new] /\ client' = client
    BY DEF Assess
  <1> HIDE DEF n
  <1>3. /\ new \in RequestState(S) /\ new.pc = "stats" /\ new.balance = balance
        /\ new.asOf = n /\ (new.gone <=> request[r].gone)
    BY <1>1 DEF RequestState, Steps
  <1> HIDE DEF new
  <1>4. request' \in [Requests -> RequestState(S)] /\ Others(r) /\ request'[r] = new
    BY <1>2, <1>3 DEF Typed, Others
  <1> QED
    BY <1>2, <1>3, <1>4 DEF n

\* The statistics come from the cache, which may be behind, or from the book.
LEMMA ReadStep ==
    ASSUME NEW S, Typed(S), NEW r \in Requests, ReadStats(r)
    PROVE  /\ request' \in [Requests -> RequestState(More(S))] /\ Others(r)
           /\ request'[r].pc = "score" /\ request'[r].balance = request[r].balance
           /\ request'[r].gone <=> request[r].gone
           /\ \/ \E i \in 1 .. Len(cache) :
                    /\ cache[i].dest = Dest(Kind(r)) /\ cache[i] \in CacheEntry(S)
                    /\ request'[r].stats = cache[i].stats
                    /\ request'[r].asOf = Earlier(request[r].asOf, cache[i].asOf)
              \/ /\ request'[r].stats = QueriedStats(Dest(Kind(r)))
                 /\ request'[r].asOf = request[r].asOf
  <1> DEFINE T == More(S)
             q == request[r]
  <1>1. q \in RequestState(T) /\ request \in [Requests -> RequestState(T)]
    BY MoreStats DEF Typed
  <1>2. Dest(Kind(r)) \in Dests
    BY PlanType
  <1>3. S \subseteq T /\ QueriedStats(Dest(Kind(r))) \in T
    BY <1>2, MoreStats
  <1>4. ASSUME NEW i \in 1 .. Len(cache), cache[i].dest = Dest(Kind(r)),
               request' = [request EXCEPT ![r].pc = "score", ![r].stats = cache[i].stats,
                                          ![r].asOf = Earlier(@, cache[i].asOf)]
        PROVE  /\ request' \in [Requests -> RequestState(More(S))] /\ Others(r)
               /\ request'[r].pc = "score" /\ request'[r].balance = request[r].balance
               /\ request'[r].gone <=> request[r].gone
               /\ cache[i] \in CacheEntry(S)
               /\ request'[r].stats = cache[i].stats
               /\ request'[r].asOf = Earlier(request[r].asOf, cache[i].asOf)
    <2> DEFINE a == Earlier(q.asOf, cache[i].asOf)
               s == cache[i].stats
               new == [q EXCEPT !.pc = "score", !.stats = s, !.asOf = a]
    <2>1. cache[i] \in CacheEntry(S)
      BY DEF Typed
    <2>2. s \in T /\ a \in Nat
      <3> HIDE DEF T
      <3> QED
        BY <1>1, <1>3, <2>1 DEF CacheEntry, RequestState, Earlier
    <2>3. request' = [request EXCEPT ![r] = new]
      BY <1>4
    <2> HIDE DEF a, s, q, T
    <2>4. /\ new \in RequestState(T) /\ new.pc = "score" /\ new.stats = s /\ new.asOf = a
          /\ new.balance = q.balance /\ (new.gone <=> q.gone)
      BY <1>1, <2>2 DEF RequestState, Steps
    <2> HIDE DEF new
    <2>5. request' \in [Requests -> RequestState(T)] /\ Others(r) /\ request'[r] = new
      BY <1>1, <2>3, <2>4 DEF Others
    <2> QED
      BY <2>1, <2>4, <2>5 DEF a, s, q, T
  <1>5. ASSUME request' = [request EXCEPT ![r].pc = "score", ![r].missed = TRUE,
                                          ![r].stats = QueriedStats(Dest(Kind(r)))]
        PROVE  /\ request' \in [Requests -> RequestState(More(S))] /\ Others(r)
               /\ request'[r].pc = "score" /\ request'[r].balance = request[r].balance
               /\ request'[r].gone <=> request[r].gone
               /\ request'[r].stats = QueriedStats(Dest(Kind(r)))
               /\ request'[r].asOf = request[r].asOf
    <2> DEFINE s == QueriedStats(Dest(Kind(r)))
               new == [q EXCEPT !.pc = "score", !.missed = TRUE, !.stats = s]
    <2>1. request' = [request EXCEPT ![r] = new]
      BY <1>5
    <2>2. s \in T
      BY <1>3
    <2> HIDE DEF s, q, T
    <2>3. /\ new \in RequestState(T) /\ new.pc = "score" /\ new.stats = s /\ new.asOf = q.asOf
          /\ new.balance = q.balance /\ (new.gone <=> q.gone)
      BY <1>1, <2>2 DEF RequestState, Steps
    <2> HIDE DEF new
    <2>4. request' \in [Requests -> RequestState(T)] /\ Others(r) /\ request'[r] = new
      BY <1>1, <2>1, <2>3 DEF Others
    <2> QED
      BY <2>3, <2>4 DEF s, q, T
  <1>6. \/ \E i \in 1 .. Len(cache) :
              /\ cache[i].dest = Dest(Kind(r))
              /\ request' = [request EXCEPT ![r].pc = "score", ![r].stats = cache[i].stats,
                                            ![r].asOf = Earlier(@, cache[i].asOf)]
        \/ request' = [request EXCEPT ![r].pc = "score", ![r].missed = TRUE,
                                      ![r].stats = QueriedStats(Dest(Kind(r)))]
    BY Zenon DEF ReadStats
  <1> QED
    BY <1>4, <1>5, <1>6, Zenon

\* What the service answers reaches the handler only while it waits.
LEMMA ReplyType ==
    ASSUME NEW S, Typed(S), NEW r \in Requests, NEW told \in Tolds, NEW shown \in Int,
           Reply(r, told, shown)
    PROVE  /\ request' \in [Requests -> RequestState(S)] /\ Others(r)
           /\ client' \in [Payments -> ClientState]
  BY AnswerStep DEF Reply, Others, Typed

\* Balances and what is shown of them are numbers.
LEMMA MoneyType ==
    ASSUME NEW S, Typed(S), NEW r \in Requests
    PROVE  /\ Unknown \in Int
           /\ \A fails, answered \in BOOLEAN :
                 Taken(Kind(r), Amount(r), fails, answered) \subseteq Int
           /\ \A b \in Int : Int64ToNumber(b) \in Int
  <1>1. Word \in Nat /\ Amount(r) \in Int
    BY PlanType, PaymentGatewayAssumption
  <1> QED
    BY <1>1 DEF Unknown, Debit, Taken, Int64ToNumber

\* The client's and the handler's steps keep the types.
LEMMA HandlerTyped ==
    ASSUME NEW S, NEW T, T = More(S), Typed(S), NEW r \in Requests,
           \/ ResolveTarget(r) \/ Timeout(r) \/ CallFails(r) \/ Assess(r) \/ ReadStats(r)
           \/ \E proof \in Proofs, answered \in BOOLEAN : CheckProof(r, proof, answered)
    PROVE  Typed(T)'
  <1> USE DEF service
  <1>0. /\ S \subseteq T /\ [Requests -> RequestState(S)] \subseteq [Requests -> RequestState(T)]
        /\ Seq(CacheEntry(S)) \subseteq Seq(CacheEntry(T)) /\ NoStats \in T
        /\ Unknown \in Int /\ {"refused", "error"} \subseteq Tolds
        /\ {"assess", "create", "proof", "done"} \subseteq Steps /\ r[1] \in Payments
    BY MoreStats, MoneyType, PlanType DEF Typed, Tolds, Steps
  <1>1. CASE ResolveTarget(r)
    <2>1. /\ request' \in [Requests -> RequestState(S)] /\ client' \in [Payments -> ClientState]
      BY <1>0, <1>1, StepStep, AnswerStep DEF ResolveTarget, Typed
    <2> QED
      BY <1>0, <1>1, <2>1 DEF ResolveTarget, Typed
  <1>2. CASE Timeout(r)
    <2>1. /\ request' \in [Requests -> RequestState(S)] /\ client' \in [Payments -> ClientState]
          /\ unsure' \subseteq Payments
      BY <1>0, <1>2, TimeoutStep DEF Typed
    <2> QED
      BY <1>0, <1>2, <2>1 DEF Timeout, Typed
  <1>3. CASE Assess(r)
    <2>1. /\ request' \in [Requests -> RequestState(S)] /\ client' \in [Payments -> ClientState]
      <3>1. CASE Amount(r) > 0
        BY <1>3, <3>1, AssessStep DEF Typed
      <3>2. CASE ~(Amount(r) > 0)
        BY <1>0, <1>3, <3>2, AnswerStep, SMTT(60) DEF Assess
      <3> QED
        BY <3>1, <3>2
    <2> QED
      BY <1>0, <1>3, <2>1 DEF Assess, Typed
  <1>4. CASE ReadStats(r)
    <2>1. request' \in [Requests -> RequestState(T)]
      BY <1>4, ReadStep
    <2> QED
      BY <1>0, <1>4, <2>1 DEF ReadStats, Typed
  <1>5. ASSUME NEW proof \in Proofs, NEW answered \in BOOLEAN, CheckProof(r, proof, answered)
        PROVE  Typed(T)'
    <2>1. /\ request' \in [Requests -> RequestState(S)] /\ client' \in [Payments -> ClientState]
      BY <1>0, <1>5, StepStep, AnswerStep DEF CheckProof, Typed
    <2>2. create' \in [Requests -> {"none", "unproven", "proven", "done"}]
      BY <1>5 DEF CheckProof, Typed
    <2> QED
      BY <1>0, <1>5, <2>1, <2>2 DEF CheckProof, Typed
  <1>6. CASE CallFails(r)
    <2>1. /\ request' \in [Requests -> RequestState(S)] /\ client' \in [Payments -> ClientState]
      BY <1>0, <1>6, AnswerStep DEF CallFails
    <2> QED
      BY <1>0, <1>6, <2>1 DEF CallFails, Typed
  <1> QED
    BY <1>1, <1>2, <1>3, <1>4, <1>5, <1>6

\* Scoring, and the other steps at the cache, keep the types.
LEMMA CacheTyped ==
    ASSUME NEW S, NEW T, T = More(S), Typed(S),
           \/ \E r \in Requests : \E verdict \in Verdicts : Score(r, verdict)
           \/ \E dest \in {"wallet", "account"} : Preview(dest)
           \/ \E i \in 1 .. Len(cache) : CacheExpires(i)
    PROVE  Typed(T)'
  <1> USE DEF service
  <1>0. /\ S \subseteq T /\ [Requests -> RequestState(S)] \subseteq [Requests -> RequestState(T)]
        /\ Seq(CacheEntry(S)) \subseteq Seq(CacheEntry(T)) /\ NoStats \in T
        /\ {"create", "proof", "done"} \subseteq Steps /\ {"wallet", "account"} \subseteq Dests
        /\ \A dest \in Dests : QueriedStats(dest) \in T
        /\ Typed(T)
    BY MoreStats DEF Typed, Steps, Dests
  <1>1. ASSUME NEW r \in Requests, NEW verdict \in Verdicts, Score(r, verdict) PROVE Typed(T)'
    <2>1. request' \in [Requests -> RequestState(S)]
      BY <1>0, <1>1, AssessedStep DEF Score
    <2>2. cache' \in Seq(CacheEntry(T))
      <3>1. /\ request[r].stats \in S /\ request[r].asOf \in Nat /\ Dest(Kind(r)) \in Dests
        BY PlanType DEF Typed, RequestState
      <3> QED
        BY <1>0, <1>1, <3>1, CacheStep DEF Score, Typed
    <2>3. create' \in [Requests -> {"none", "unproven", "proven", "done"}]
      BY <1>1 DEF Score, Typed
    <2> QED
      BY <1>0, <1>1, <2>1, <2>2, <2>3 DEF Score, Typed
  <1>2. ASSUME NEW dest \in {"wallet", "account"}, Preview(dest) PROVE Typed(T)'
    <2>1. Len(book) \in Nat
      BY DEF Typed
    <2>2. cache' \in Seq(CacheEntry(T))
      BY <1>0, <1>2, <2>1, CacheStep DEF Preview
    <2> QED
      BY <1>0, <1>2, <2>2 DEF Preview, Typed
  <1>3. ASSUME NEW i \in 1 .. Len(cache), CacheExpires(i) PROVE Typed(T)'
    <2> DEFINE new == [cache[i] EXCEPT !.fresh = FALSE]
    <2>1. cache[i] \in CacheEntry(S)
      BY DEF Typed
    <2>2. new \in CacheEntry(S)
      BY <2>1 DEF CacheEntry
    <2>3. cache' = [cache EXCEPT ![i] = new]
      BY <1>3 DEF CacheExpires
    <2> HIDE DEF new
    <2>4. cache' \in Seq(CacheEntry(S))
      BY <2>2, <2>3, ExceptSeq DEF Typed
    <2> QED
      BY <1>0, <1>3, <2>4 DEF CacheExpires, Typed
  <1> QED
    BY <1>1, <1>2, <1>3

\* What Execute answers and adds: a transaction with its answer, or with an error
\* after its commit, or nothing.
LEMMA ExecuteStep ==
    ASSUME NEW S, Typed(S), NEW r \in Requests, NEW fails \in BOOLEAN,
           NEW answered \in BOOLEAN, Execute(r, fails, answered)
    PROVE  /\ request' \in [Requests -> RequestState(S)] /\ Others(r)
           /\ client' \in [Payments -> ClientState] /\ unsure' \subseteq Payments
           /\ \/ /\ \E taken \in Int :
                       /\ book' = Append(book, NewTransaction(r, fails, taken))
                       /\ balance' = balance - taken /\ balance' \in Int
                 /\ \/ /\ unsure' = unsure
                       /\ Reply(r, IF fails THEN "failed" ELSE "accepted",
                                Int64ToNumber(balance'))
                    \/ /\ unsure' = IF fails THEN unsure ELSE unsure \cup {r[1]}
                       /\ Reply(r, "error", Unknown)
              \/ /\ book' = book /\ balance' = balance /\ unsure' = unsure
                 /\ Reply(r, "refused", Unknown)
  <1>1. /\ Unknown \in Int /\ balance \in Int /\ r[1] \in Payments /\ unsure \subseteq Payments
        /\ Taken(Kind(r), Amount(r), fails, answered) \subseteq Int
        /\ \A b \in Int : Int64ToNumber(b) \in Int
    BY MoneyType, PlanType DEF Typed
  <1>2. \/ /\ \E taken \in Taken(Kind(r), Amount(r), fails, answered) :
                 /\ book' = Append(book, NewTransaction(r, fails, taken))
                 /\ balance' = balance - taken
           /\ \/ /\ unsure' = unsure
                 /\ Reply(r, IF fails THEN "failed" ELSE "accepted", Int64ToNumber(balance'))
              \/ /\ unsure' = IF fails THEN unsure ELSE unsure \cup {r[1]}
                 /\ Reply(r, "error", Unknown)
        \/ /\ book' = book /\ balance' = balance /\ unsure' = unsure
           /\ Reply(r, "refused", Unknown)
    BY Zenon DEF Execute
  <1>3. {"failed", "accepted", "refused", "error"} \subseteq Tolds
    BY DEF Tolds
  <1>4. CASE /\ book' = book /\ balance' = balance /\ unsure' = unsure
             /\ Reply(r, "refused", Unknown)
    BY <1>1, <1>3, <1>4, ReplyType
  <1>5. CASE /\ \E taken \in Taken(Kind(r), Amount(r), fails, answered) :
                   /\ book' = Append(book, NewTransaction(r, fails, taken))
                   /\ balance' = balance - taken
             /\ \/ /\ unsure' = unsure
                   /\ Reply(r, IF fails THEN "failed" ELSE "accepted", Int64ToNumber(balance'))
                \/ /\ unsure' = IF fails THEN unsure ELSE unsure \cup {r[1]}
                   /\ Reply(r, "error", Unknown)
    <2>1. PICK taken \in Taken(Kind(r), Amount(r), fails, answered) :
             /\ book' = Append(book, NewTransaction(r, fails, taken))
             /\ balance' = balance - taken
      BY <1>5
    <2>2. taken \in Int /\ balance' \in Int /\ Int64ToNumber(balance') \in Int
      BY <1>1, <2>1
    <2>3. unsure' \subseteq Payments
      BY <1>1, <1>5
    <2>4. ASSUME NEW told \in Tolds, NEW shown \in Int, Reply(r, told, shown)
          PROVE  /\ request' \in [Requests -> RequestState(S)] /\ Others(r)
                 /\ client' \in [Payments -> ClientState]
      BY <2>4, ReplyType
    <2>5. /\ request' \in [Requests -> RequestState(S)] /\ Others(r)
          /\ client' \in [Payments -> ClientState]
      BY <1>1, <1>3, <1>5, <2>2, <2>4
    <2> QED
      BY <1>5, <2>1, <2>2, <2>3, <2>5, Zenon
  <1> QED
    BY <1>2, <1>4, <1>5, Zenon

\* Appending to the book.
LEMMA BookGrows ==
    ASSUME NEW S, Typed(S), NEW r \in Requests, NEW fails \in BOOLEAN,
           NEW taken \in Int, book' = Append(book, NewTransaction(r, fails, taken))
    PROVE  /\ book' \in Seq(Transaction)
           /\ Len(book) \in Nat /\ Len(book') = Len(book) + 1
           /\ \A i \in 1 .. Len(book) : book'[i] = book[i]
           /\ book'[Len(book) + 1] = NewTransaction(r, fails, taken)
  <1>1. book \in Seq(Transaction) /\ NewTransaction(r, fails, taken) \in Transaction
    BY NewTransactionType DEF Typed
  <1> QED
    BY <1>1, AppendProperties, LenProperties

\* The transaction service keeps the types.
LEMMA ServiceTyped ==
    ASSUME NEW S, NEW T, T = More(S), Typed(S),
           \/ \E r \in Requests : ExecuteExisting(r) \/ CreateFails(r)
           \/ \E r \in Requests : \E fails, answered \in BOOLEAN : Execute(r, fails, answered)
           \/ CreateFundingSource
    PROVE  Typed(T)'
  <1> USE DEF service
  <1>0. /\ S \subseteq T /\ [Requests -> RequestState(S)] \subseteq [Requests -> RequestState(T)]
        /\ Seq(CacheEntry(S)) \subseteq Seq(CacheEntry(T)) /\ NoStats \in T
        /\ {"failed", "accepted", "refused", "error"} \subseteq Tolds
    BY MoreStats DEF Typed, Tolds
  <1>1. ASSUME NEW r \in Requests, ExecuteExisting(r) PROVE Typed(T)'
    <2>1. Int64ToNumber(balance) \in Int
      BY MoneyType DEF Typed
    <2>2. request' \in [Requests -> RequestState(S)] /\ client' \in [Payments -> ClientState]
      BY <1>0, <1>1, <2>1, ReplyType DEF ExecuteExisting
    <2>3. create' \in [Requests -> {"none", "unproven", "proven", "done"}]
      BY <1>1 DEF ExecuteExisting, Typed
    <2> QED
      BY <1>0, <1>1, <2>2, <2>3 DEF ExecuteExisting, Typed
  <1>2. ASSUME NEW r \in Requests, NEW fails \in BOOLEAN, NEW answered \in BOOLEAN,
               Execute(r, fails, answered)
        PROVE  Typed(T)'
    <2>1. create' \in [Requests -> {"none", "unproven", "proven", "done"}]
      BY <1>2 DEF Execute, Typed
    <2>2. book' \in Seq(Transaction) /\ balance' \in Int
      BY <1>2, ExecuteStep, BookGrows, SMTT(60) DEF Typed
    <2>3. /\ request' \in [Requests -> RequestState(S)] /\ client' \in [Payments -> ClientState]
          /\ unsure' \subseteq Payments
      BY <1>2, ExecuteStep
    <2>4. plan' = plan /\ linked' = linked /\ cache' = cache
      BY <1>2 DEF Execute
    <2> QED
      BY <1>0, <2>1, <2>2, <2>3, <2>4 DEF Typed
  <1>3. CASE CreateFundingSource
    BY <1>0, <1>3 DEF CreateFundingSource, Typed
  <1>4. ASSUME NEW r \in Requests, CreateFails(r) PROVE Typed(T)'
    <2>1. request' \in [Requests -> RequestState(S)] /\ client' \in [Payments -> ClientState]
      BY <1>0, <1>4, MoneyType, ReplyType DEF CreateFails
    <2>2. create' \in [Requests -> {"none", "unproven", "proven", "done"}]
      BY <1>4 DEF CreateFails, Typed
    <2> QED
      BY <1>0, <1>4, <2>1, <2>2 DEF CreateFails, Typed
  <1> QED
    BY <1>1, <1>2, <1>3, <1>4

\* Every step keeps the types.
LEMMA TypedStep == ASSUME GatewayType, [Next]_vars PROVE GatewayType'
  <1> USE DEF service
  <1> PICK S : Typed(S)
    BY DEF GatewayType
  <1> PICK T : T = More(S)
    OBVIOUS
  <1>0. /\ S \subseteq T /\ [Requests -> RequestState(S)] \subseteq [Requests -> RequestState(T)]
        /\ Seq(CacheEntry(S)) \subseteq Seq(CacheEntry(T)) /\ NoStats \in T
    BY MoreStats DEF Typed
  <1>1. ASSUME NEW p \in Payments, Send(p) PROVE Typed(T)'
    <2>1. request' \in [Requests -> RequestState(S)] /\ client' \in [Payments -> ClientState]
      BY <1>1, SendStep
    <2> QED
      BY <1>0, <1>1, <2>1 DEF Send, Typed
  <1>2. ASSUME UNCHANGED vars PROVE Typed(T)'
    BY <1>0, <1>2 DEF vars, Typed
  <1>3. Typed(T)'
    <2>1. ASSUME NEW r \in Requests,
                 \/ ResolveTarget(r) \/ Timeout(r) \/ CallFails(r) \/ Assess(r) \/ ReadStats(r)
                 \/ \E proof \in Proofs, answered \in BOOLEAN : CheckProof(r, proof, answered)
          PROVE  Typed(T)'
      BY <2>1, HandlerTyped
    <2>2. ASSUME \/ \E r \in Requests : \E verdict \in Verdicts : Score(r, verdict)
                 \/ \E dest \in {"wallet", "account"} : Preview(dest)
                 \/ \E i \in 1 .. Len(cache) : CacheExpires(i)
          PROVE  Typed(T)'
      BY <2>2, CacheTyped
    <2>3. ASSUME \/ \E r \in Requests : ExecuteExisting(r) \/ CreateFails(r)
                 \/ \E r \in Requests : \E fails, answered \in BOOLEAN :
                       Execute(r, fails, answered)
                 \/ CreateFundingSource
          PROVE  Typed(T)'
      BY <2>3, ServiceTyped
    <2> QED
      BY <1>1, <1>2, <2>1, <2>2, <2>3 DEF Next
  <1> QED
    BY <1>3 DEF GatewayType

\* The types hold at the start.
LEMMA InitTyped == Init => GatewayType
  <1> SUFFICES ASSUME Init PROVE Typed({NoStats})
    BY DEF GatewayType
  <1>1. client \in [Payments -> ClientState]
    BY PaymentGatewayAssumption DEF Init, ClientState, Tolds, Unknown
  <1>2. NoRequest \in RequestState({NoStats})
    <2>1. 0 \in Int /\ 0 \in Nat /\ "none" \in Steps /\ FALSE \in BOOLEAN
      BY DEF Steps
    <2> QED
      BY <2>1, Zenon DEF NoRequest, RequestState
  <1>3. request \in [Requests -> RequestState({NoStats})]
    BY <1>2, Zenon DEF Init
  <1>4. balance \in Int
    BY PaymentGatewayAssumption DEF Init
  <1>5. book \in Seq(Transaction) /\ cache \in Seq(CacheEntry({NoStats}))
    BY DEF Init
  <1> QED
    BY <1>1, <1>3, <1>4, <1>5 DEF Init, Typed

-----------------------------------------------------------------------------
(* A payment is made once.  With a key the book itself sees to it; without *)
(* one it is the client, who tries again only what it knows to have failed *)
(* and so never has two attempts under way, until a time-out, and nothing  *)
(* is made twice until an error comes after a commit.                      *)

\* A key stands for one payment, and for all attempts of it if the client sent
\* it, and no two transactions have the same.
KeysInv ==
    /\ \A i \in 1 .. Len(book) :
          /\ book[i].key[1] = book[i].pay
          /\ plan[book[i].pay].keyed => book[i].key[2] = 0
    /\ \A i, j \in 1 .. Len(book) : book[i].key = book[j].key => i = j

\* The client was told "accepted" about payments that have been made.
AcceptedInv == \A p \in Payments : client[p].told = "accepted" => Paid(p) # {}

Created(r) == create[r] \in {"unproven", "proven"}
Active(r) == request[r].pc \notin {"none", "done"} \/ Created(r)

\* A payment none of whose attempts timed out or was made and answered with an
\* error has at most one attempt under way, whose handler waits, and was not made
\* unless the client knows it.
Sure(p) ==
    /\ \A r \in Requests : r[1] = p =>
          /\ ~request[r].gone
          /\ Active(r) => r[2] = client[p].attempt /\ client[p].told = "waiting"
          /\ Created(r) => request[r].pc = "create"
    /\ client[p].told # "accepted" => Paid(p) = {}
    /\ \A i, j \in Paid(p) : i = j

SureInv == \A p \in Payments : p \notin unsure => Sure(p)

\* The service has an order only of a handler that has come that far, and
\* attempts not made yet have no handler.
Ordered == \A r \in Requests :
    /\ Created(r) => request[r].pc \in {"create", "done"}
    /\ r[2] > client[r[1]].attempt => request[r].pc = "none"

PayInv == GatewayType /\ Ordered /\ KeysInv /\ AcceptedInv /\ SureInv

\* The book after a new transaction.
LEMMA PaidStep ==
    ASSUME NEW S, Typed(S), NEW r \in Requests, NEW fails \in BOOLEAN, NEW p \in Payments,
           NEW taken \in Int, book' = Append(book, NewTransaction(r, fails, taken))
    PROVE  Paid(p)' = IF p = r[1] /\ ~fails THEN Paid(p) \cup {Len(book) + 1} ELSE Paid(p)
  <1> DEFINE n == NewTransaction(r, fails, taken)
  <1>1. /\ Len(book) \in Nat /\ Len(book') = Len(book) + 1
        /\ \A i \in 1 .. Len(book) : book'[i] = book[i]
        /\ book'[Len(book) + 1] = n
    BY BookGrows
  <1>2. n.pay = r[1] /\ (n.failed <=> fails)
    BY NewTransactionType
  <1> HIDE DEF n
  <1>3. Paid(p)' = {i \in 1 .. Len(book) + 1 : book'[i].pay = p /\ ~book'[i].failed}
    BY <1>1 DEF Paid
  <1>4. \A i \in 1 .. Len(book) + 1 : i \in 1 .. Len(book) \/ i = Len(book) + 1
    BY <1>1
  <1>5. Len(book) + 1 \in 1 .. Len(book) + 1 /\ 1 .. Len(book) \subseteq 1 .. Len(book) + 1
    BY <1>1
  <1> QED
    BY <1>1, <1>2, <1>3, <1>4, <1>5, SMTT(30) DEF Paid

\* A step of one attempt concerns no other payment.
LEMMA SureFrame ==
    ASSUME NEW S, Typed(S), SureInv, NEW r \in Requests, Others(r),
           \A q \in Requests : q # r => create'[q] = create[q],
           \A p \in Payments : p # r[1] => client'[p] = client[p] /\ Paid(p)' = Paid(p),
           unsure \subseteq unsure',
           r[1] \notin unsure' => Sure(r[1])'
    PROVE  SureInv'
  <1> SUFFICES ASSUME NEW p \in Payments, p \notin unsure', p # r[1] PROVE Sure(p)'
    BY DEF SureInv
  <1>1. Sure(p) /\ client'[p] = client[p] /\ Paid(p)' = Paid(p)
    BY DEF SureInv
  <1>2. \A q \in Requests : q[1] = p => request'[q] = request[q] /\ create'[q] = create[q]
    BY DEF Others
  <1>3. ASSUME NEW q \in Requests, q[1] = p
        PROVE  /\ ~request'[q].gone
               /\ Active(q)' => q[2] = client'[p].attempt /\ client'[p].told = "waiting"
               /\ Created(q)' => request'[q].pc = "create"
    BY <1>1, <1>2, <1>3 DEF Sure, Active, Created
  <1>4. /\ client'[p].told # "accepted" => Paid(p)' = {}
        /\ \A i, j \in Paid(p)' : i = j
    BY <1>1 DEF Sure
  <1> QED
    BY <1>3, <1>4, Zenon DEF Sure

\* The attempt under way goes on.
LEMMA SureMoves ==
    ASSUME NEW S, Typed(S), NEW r \in Requests, Sure(r[1]), Active(r), Others(r),
           \A q \in Requests : q # r => create'[q] = create[q],
           ~request'[r].gone, Created(r)' => request'[r].pc = "create",
           client'[r[1]] = client[r[1]], Paid(r[1])' = Paid(r[1])
    PROVE  Sure(r[1])'
  <1>1. r[2] = client[r[1]].attempt /\ client[r[1]].told = "waiting"
    BY DEF Sure
  <1>2. ASSUME NEW q \in Requests, q[1] = r[1]
        PROVE  /\ ~request'[q].gone
               /\ Active(q)' => q[2] = client'[r[1]].attempt /\ client'[r[1]].told = "waiting"
               /\ Created(q)' => request'[q].pc = "create"
    <2>1. CASE q = r
      BY <1>1, <2>1
    <2>2. CASE q # r
      BY <1>2, <2>2 DEF Sure, Others, Active, Created
    <2> QED
      BY <2>1, <2>2
  <1>3. /\ client'[r[1]].told # "accepted" => Paid(r[1])' = {}
        /\ \A i, j \in Paid(r[1])' : i = j
    BY DEF Sure
  <1> QED
    BY <1>2, <1>3, Zenon DEF Sure

\* The attempt under way ends.
LEMMA SureEnds ==
    ASSUME NEW S, Typed(S), NEW r \in Requests, Sure(r[1]), Active(r), Others(r),
           \A q \in Requests : q # r => create'[q] = create[q],
           ~request'[r].gone, request'[r].pc = "done", ~Created(r)',
           client'[r[1]].told # "accepted" => Paid(r[1])' = {},
           \A i, j \in Paid(r[1])' : i = j
    PROVE  Sure(r[1])'
  <1>1. r[2] = client[r[1]].attempt /\ client[r[1]].told = "waiting"
    BY DEF Sure
  <1>2. ASSUME NEW q \in Requests, q[1] = r[1]
        PROVE  ~Active(q)' /\ ~Created(q)' /\ ~request'[q].gone
    <2>1. CASE q = r
      BY <2>1 DEF Active
    <2>2. CASE q # r
      <3>1. ~Active(q) /\ ~request[q].gone
        <4>1. ~(q[2] = r[2])
          BY <1>2, <2>2, PlanType
        <4> QED
          BY <1>1, <1>2, <4>1 DEF Sure
      <3> QED
        BY <2>2, <3>1 DEF Others, Active, Created
    <2> QED
      BY <2>1, <2>2
  <1> QED
    BY <1>2, Zenon DEF Sure

\* The book and the plan stay: so do the keys and what has been paid.
LEMMA BookSame ==
    ASSUME book' = book, plan' = plan
    PROVE  KeysInv => KeysInv' /\ \A p \in Payments : Paid(p)' = Paid(p)
  BY DEF KeysInv, Paid

\* A new attempt is the only one under way.
LEMMA SendPay ==
    ASSUME NEW S, Typed(S), AcceptedInv, SureInv, NEW p \in Payments, Send(p)
    PROVE  AcceptedInv' /\ SureInv'
  <1> USE DEF service
  <1> DEFINE r == <<p, client[p].attempt + 1>>
  <1>1. /\ Others(r)
        /\ r \in Requests => (request'[r].gone <=> request[r].gone)
        /\ client'[p].attempt = client[p].attempt + 1 /\ client'[p].told = "waiting"
        /\ \A o \in Payments : o # p => client'[o] = client[o]
    BY SendStep
  <1>2. /\ create' = create /\ unsure' = unsure /\ book' = book
        /\ client[p].told \notin {"waiting", "accepted"}
        /\ \A o \in Payments : Paid(o)' = Paid(o)
    BY DEF Send, Paid
  <1> HIDE DEF r
  <1>3. AcceptedInv'
    BY <1>1, <1>2 DEF AcceptedInv
  <1>4. ASSUME NEW o \in Payments, o \notin unsure', o # p PROVE Sure(o)'
    <2>1. Sure(o) /\ client'[o] = client[o] /\ Paid(o)' = Paid(o)
      BY <1>1, <1>2, <1>4 DEF SureInv
    <2>2. ASSUME NEW q \in Requests, q[1] = o
          PROVE  /\ ~request'[q].gone
                 /\ Active(q)' => q[2] = client'[o].attempt /\ client'[o].told = "waiting"
                 /\ Created(q)' => request'[q].pc = "create"
      <3>1. q # r
        BY <1>4, <2>2 DEF r
      <3> QED
        BY <1>1, <1>2, <2>1, <2>2, <3>1 DEF Others, Sure, Active, Created
    <2>3. /\ client'[o].told # "accepted" => Paid(o)' = {}
          /\ \A i, j \in Paid(o)' : i = j
      BY <2>1 DEF Sure
    <2> QED
      BY <2>2, <2>3, Zenon DEF Sure
  <1>5. ASSUME p \notin unsure' PROVE Sure(p)'
    <2>1. Sure(p) /\ Paid(p)' = {} /\ Paid(p)' = Paid(p)
      BY <1>2, <1>5 DEF SureInv, Sure
    <2>2. ASSUME NEW q \in Requests, q[1] = p
          PROVE  /\ ~request'[q].gone
                 /\ Active(q)' => q[2] = client'[p].attempt /\ client'[p].told = "waiting"
                 /\ Created(q)' => request'[q].pc = "create"
      <3>1. ~Active(q) /\ ~request[q].gone
        BY <1>2, <2>1, <2>2 DEF Sure
      <3>2. CASE q = r
        <4>1. q[2] = client'[p].attempt /\ client'[p].told = "waiting"
          BY <1>1, <3>2 DEF r
        <4>2. ~Created(q)' /\ ~request'[q].gone
          BY <1>1, <1>2, <3>1, <3>2 DEF Active, Created
        <4> QED
          BY <4>1, <4>2
      <3>3. CASE q # r
        BY <1>1, <1>2, <3>1, <3>3 DEF Others, Active, Created
      <3> QED
        BY <3>2, <3>3
    <2>3. \A i, j \in Paid(p)' : i = j
      BY <2>1
    <2> QED
      BY <2>1, <2>2, <2>3, Zenon DEF Sure
  <1> QED
    BY <1>3, <1>4, <1>5 DEF SureInv

\* A refusal, or an error, before anything was created.
LEMMA RefusalPay ==
    ASSUME NEW S, Typed(S), AcceptedInv, SureInv, NEW r \in Requests,
           NEW told \in {"refused", "failed", "error"}, NEW shown \in Int, Answer(r, told, shown),
           Active(r), ~Created(r)', unsure' = unsure,
           \A q \in Requests : q # r => create'[q] = create[q],
           \A p \in Payments : Paid(p)' = Paid(p)
    PROVE  AcceptedInv' /\ SureInv'
  <1>1. told \in Tolds /\ r[1] \in Payments
    BY PlanType DEF Tolds
  <1>2. /\ Others(r) /\ request'[r].pc = "done" /\ ~request'[r].gone
        /\ request[r].gone => client' = client
        /\ \A p \in Payments : p # r[1] => client'[p] = client[p]
        /\ ~request[r].gone => client'[r[1]].told = told
    BY <1>1, AnswerStep
  <1>3. AcceptedInv'
    <2>1. \A p \in Payments : client'[p].told = "accepted" => client[p].told = "accepted"
      BY <1>1, <1>2 DEF Typed, RequestState
    <2> QED
      BY <2>1 DEF AcceptedInv
  <1>4. ASSUME r[1] \notin unsure' PROVE Sure(r[1])'
    <2>1. Sure(r[1])
      BY <1>1, <1>4 DEF SureInv
    <2>2. Paid(r[1])' = {}
      <3>1. client[r[1]].told = "waiting"
        BY <2>1 DEF Sure
      <3> QED
        BY <1>1, <2>1, <3>1 DEF Sure
    <2> QED
      BY <1>2, <2>1, <2>2, SureEnds
  <1> QED
    BY <1>2, <1>3, <1>4, SureFrame

\* The attempt goes on and nothing is created or answered.
LEMMA MovePay ==
    ASSUME NEW S, Typed(S), AcceptedInv, SureInv, NEW r \in Requests, Active(r), Others(r),
           Created(r)' => request'[r].pc = "create", request'[r].gone => request[r].gone,
           client' = client, unsure' = unsure,
           \A q \in Requests : q # r => create'[q] = create[q],
           \A p \in Payments : Paid(p)' = Paid(p)
    PROVE  AcceptedInv' /\ SureInv'
  <1>1. r[1] \in Payments
    BY PlanType
  <1>2. AcceptedInv'
    BY DEF AcceptedInv
  <1>3. ASSUME r[1] \notin unsure' PROVE Sure(r[1])'
    <2>1. Sure(r[1])
      BY <1>1, <1>3 DEF SureInv
    <2>2. ~request'[r].gone
      BY <2>1 DEF Sure
    <2> QED
      BY <1>1, <2>1, <2>2, SureMoves
  <1> QED
    BY <1>2, <1>3, SureFrame

\* A step of a handler that has started keeps the order.
LEMMA OrderedFrame ==
    ASSUME NEW S, Typed(S), Ordered, NEW r \in Requests, Others(r), request[r].pc # "none",
           \A q \in Requests : q # r => create'[q] = create[q],
           \A p \in Payments : client'[p].attempt = client[p].attempt,
           Created(r)' => request'[r].pc \in {"create", "done"}
    PROVE  Ordered'
  <1> SUFFICES ASSUME NEW q \in Requests
               PROVE  /\ Created(q)' => request'[q].pc \in {"create", "done"}
                      /\ q[2] > client'[q[1]].attempt => request'[q].pc = "none"
    BY DEF Ordered
  <1>1. q[1] \in Payments
    BY PlanType
  <1>2. CASE q = r
    BY <1>1, <1>2 DEF Ordered
  <1>3. CASE q # r
    BY <1>1, <1>3 DEF Ordered, Others, Created
  <1> QED
    BY <1>2, <1>3

\* A new attempt is made once.
LEMMA SendOrdered ==
    ASSUME NEW S, Typed(S), Ordered, NEW p \in Payments, Send(p) PROVE Ordered'
  <1> USE DEF service
  <1> DEFINE r == <<p, client[p].attempt + 1>>
  <1>1. /\ Others(r)
        /\ client'[p].attempt = client[p].attempt + 1
        /\ \A o \in Payments : o # p => client'[o] = client[o]
    BY SendStep
  <1>2. create' = create /\ client[p].attempt \in Nat
    BY DEF Send, Typed, ClientState
  <1> SUFFICES ASSUME NEW q \in Requests
               PROVE  /\ Created(q)' => request'[q].pc \in {"create", "done"}
                      /\ q[2] > client'[q[1]].attempt => request'[q].pc = "none"
    BY DEF Ordered
  <1>3. q[1] \in Payments /\ q[2] \in Nat /\ q = <<q[1], q[2]>>
    BY PlanType
  <1>4. CASE q = r
    <2>1. q[1] = p /\ q[2] = client[p].attempt + 1
      BY <1>4
    <2>2. request[q].pc = "none"
      BY <1>2, <2>1 DEF Ordered
    <2>3. ~Created(q)'
      BY <1>2, <2>2 DEF Ordered, Created
    <2> QED
      BY <1>1, <1>2, <2>1, <2>3
  <1>5. CASE q # r
    <2>1. request'[q] = request[q]
      BY <1>1, <1>5 DEF Others
    <2>2. q[2] > client'[q[1]].attempt => q[2] > client[q[1]].attempt
      BY <1>1, <1>2, <1>3
    <2> QED
      BY <1>2, <2>1, <2>2 DEF Ordered, Created
  <1> QED
    BY <1>4, <1>5

\* A payment is not made by a step of a handler before its creation.
LEMMA HandlerPay ==
    ASSUME NEW S, Typed(S), Ordered, KeysInv, AcceptedInv, SureInv, NEW r \in Requests,
           \/ ResolveTarget(r) \/ CallFails(r) \/ Assess(r) \/ ReadStats(r)
           \/ \E verdict \in Verdicts : Score(r, verdict)
           \/ \E proof \in Proofs, answered \in BOOLEAN : CheckProof(r, proof, answered)
    PROVE  Ordered' /\ KeysInv' /\ AcceptedInv' /\ SureInv'
  <1> USE DEF service
  <1>0. /\ book' = book /\ plan' = plan /\ unsure' = unsure
        /\ request[r].pc \in {"target", "assess", "stats", "score", "proof"}
    BY DEF ResolveTarget, CallFails, Assess, ReadStats, Score, CheckProof
  <1>1. /\ KeysInv' /\ \A p \in Payments : Paid(p)' = Paid(p)
    BY <1>0, BookSame
  <1>2. /\ Active(r) /\ ~Created(r)
        /\ {"assess", "create", "proof", "done"} \subseteq Steps
        /\ {"refused", "error"} \subseteq Tolds /\ Unknown \in Int
    BY <1>0, MoneyType DEF Active, Ordered, Steps, Tolds
  <1>3. ASSUME NEW told \in {"refused", "error"}, Answer(r, told, Unknown), create' = create
        PROVE  Ordered' /\ AcceptedInv' /\ SureInv'
    <2>1. AcceptedInv' /\ SureInv'
      BY <1>0, <1>1, <1>2, <1>3, RefusalPay DEF Created
    <2>2. /\ Others(r) /\ request'[r].pc = "done"
          /\ \A p \in Payments : client'[p].attempt = client[p].attempt
      BY <1>2, <1>3, AnswerStep
    <2>3. Ordered'
      BY <1>0, <1>3, <2>2, OrderedFrame
    <2> QED
      BY <2>1, <2>3
  <1>4. ASSUME Others(r), client' = client, request'[r].gone => request[r].gone,
               \/ create' = create
               \/ /\ \A q \in Requests : q # r => create'[q] = create[q]
                  /\ request'[r].pc = "create"
        PROVE  Ordered' /\ AcceptedInv' /\ SureInv'
    <2>1. /\ \A q \in Requests : q # r => create'[q] = create[q]
          /\ Created(r)' => request'[r].pc = "create"
      BY <1>2, <1>4 DEF Created
    <2>2. AcceptedInv' /\ SureInv'
      BY <1>0, <1>1, <1>2, <1>4, <2>1, MovePay
    <2>3. Ordered'
      BY <1>0, <1>4, <2>1, OrderedFrame
    <2> QED
      BY <2>2, <2>3
  <1>5. ASSUME ResolveTarget(r) PROVE Ordered' /\ AcceptedInv' /\ SureInv'
    BY <1>2, <1>3, <1>4, <1>5, StepStep DEF ResolveTarget
  <1>6. ASSUME Assess(r) PROVE Ordered' /\ AcceptedInv' /\ SureInv'
    <2>1. CASE Amount(r) > 0
      BY <1>4, <1>6, <2>1, AssessStep DEF Assess
    <2>2. CASE ~(Amount(r) > 0)
      BY <1>3, <1>6, <2>2 DEF Assess
    <2> QED
      BY <2>1, <2>2, SMTT(60)
  <1>7. ASSUME ReadStats(r) PROVE Ordered' /\ AcceptedInv' /\ SureInv'
    <2>1. create' = create /\ client' = client
      BY <1>7 DEF ReadStats
    <2>2. Others(r) /\ (request'[r].gone => request[r].gone)
      BY <1>7, ReadStep
    <2> QED
      BY <1>4, <2>1, <2>2, SMTT(60)
  <1>8. ASSUME NEW verdict \in Verdicts, Score(r, verdict)
        PROVE  Ordered' /\ AcceptedInv' /\ SureInv'
    <2>1. client' = client
      BY <1>8 DEF Score
    <2>2. \/ Assessed(r, "done") /\ create' = create
          \/ Assessed(r, "proof") /\ create' = create
          \/ Assessed(r, "create") /\ create' = [create EXCEPT ![r] = "unproven"]
      BY <1>8 DEF Score
    <2>3. Others(r) /\ ~request'[r].gone
      BY <1>2, <2>2, AssessedStep
    <2>4. \/ create' = create
          \/ /\ \A q \in Requests : q # r => create'[q] = create[q]
             /\ request'[r].pc = "create"
      BY <1>2, <2>2, AssessedStep DEF Typed
    <2> QED
      BY <1>4, <2>1, <2>3, <2>4
  <1>9. ASSUME NEW proof \in Proofs, NEW answered \in BOOLEAN, CheckProof(r, proof, answered)
        PROVE  Ordered' /\ AcceptedInv' /\ SureInv'
    <2>1. CASE Step(r, "create") /\ create' = [create EXCEPT ![r] = "proven"] /\ client' = client
      <3>1. Others(r) /\ request'[r].pc = "create" /\ request'[r].gone = request[r].gone
        BY <1>2, <2>1, StepStep
      <3>2. \A q \in Requests : q # r => create'[q] = create[q]
        BY <2>1 DEF Typed
      <3> QED
        BY <1>4, <2>1, <3>1, <3>2
    <2>2. CASE Answer(r, "refused", Unknown) /\ create' = create
      BY <1>3, <2>2
    <2> QED
      BY <1>9, <2>1, <2>2 DEF CheckProof
  <1>10. ASSUME CallFails(r) PROVE Ordered' /\ AcceptedInv' /\ SureInv'
    BY <1>3, <1>10 DEF CallFails
  <1>11. Ordered' /\ AcceptedInv' /\ SureInv'
    BY <1>5, <1>6, <1>7, <1>8, <1>9, <1>10
  <1> QED
    BY <1>1, <1>11, SMTT(60)

\* After a time-out the payment is unsure.
LEMMA TimeoutPay ==
    ASSUME NEW S, Typed(S), Ordered, KeysInv, AcceptedInv, SureInv, NEW r \in Requests, Timeout(r)
    PROVE  Ordered' /\ KeysInv' /\ AcceptedInv' /\ SureInv'
  <1> USE DEF service
  <1>1. /\ book' = book /\ plan' = plan /\ create' = create
        /\ request[r].pc \notin {"none", "done"}
    BY DEF Timeout
  <1>2. KeysInv' /\ \A p \in Payments : Paid(p)' = Paid(p)
    BY <1>1, BookSame
  <1>3. /\ Others(r) /\ r[1] \in Payments
        /\ request'[r].pc = "done" \/ (request[r].pc # "create" /\ request'[r].pc = request[r].pc)
        /\ \A p \in Payments : /\ client'[p].attempt = client[p].attempt
                               /\ p # r[1] => client'[p] = client[p]
        /\ client'[r[1]].told = "error" /\ unsure' = unsure \cup {r[1]}
    BY TimeoutStep, PlanType
  <1>4. Ordered'
    <2>1. Created(r)' => request'[r].pc \in {"create", "done"}
      BY <1>1, <1>3 DEF Ordered, Created
    <2> QED
      BY <1>1, <1>3, <2>1, OrderedFrame
  <1>5. AcceptedInv'
    BY <1>2, <1>3 DEF AcceptedInv
  <1>6. SureInv'
    BY <1>1, <1>2, <1>3, SureFrame
  <1> QED
    BY <1>2, <1>4, <1>5, <1>6

\* The answer of the service: the handler of a sure payment takes it.
LEMMA ReplyStep ==
    ASSUME NEW S, Typed(S), Ordered, AcceptedInv, SureInv, NEW r \in Requests, Created(r),
           create' = [create EXCEPT ![r] = "done"], unsure' \in {unsure, unsure \cup {r[1]}},
           NEW told \in {"accepted", "failed", "refused", "error"}, NEW shown \in Int,
           Reply(r, told, shown),
           \A p \in Payments : p # r[1] => Paid(p)' = Paid(p),
           Paid(r[1]) \subseteq Paid(r[1])',
           told = "accepted" => Paid(r[1])' # {},
           told # "accepted" => Paid(r[1])' = Paid(r[1]) \/ r[1] \in unsure',
           Paid(r[1]) = {} => \A i, j \in Paid(r[1])' : i = j
    PROVE  Ordered' /\ AcceptedInv' /\ SureInv'
  <1>1. /\ told \in Tolds /\ r[1] \in Payments /\ ~Created(r)' /\ Active(r)
        /\ request[r].pc \in {"create", "done"} /\ unsure \subseteq unsure'
        /\ \A q \in Requests : q # r => create'[q] = create[q]
    BY PlanType DEF Tolds, Created, Active, Ordered, Typed
  <1>2. CASE request[r].pc = "create"
    <2>1. Answer(r, told, shown)
      BY <1>2 DEF Reply
    <2>2. /\ Others(r) /\ request'[r].pc = "done" /\ ~request'[r].gone
          /\ request[r].gone => client' = client
          /\ \A p \in Payments : /\ client'[p].attempt = client[p].attempt
                                 /\ p # r[1] => client'[p] = client[p]
          /\ ~request[r].gone => client'[r[1]].told = told
      BY <1>1, <2>1, AnswerStep
    <2>3. Ordered'
      BY <1>1, <1>2, <2>2, OrderedFrame
    <2>4. AcceptedInv'
      <3> SUFFICES ASSUME NEW p \in Payments, client'[p].told = "accepted" PROVE Paid(p)' # {}
        BY DEF AcceptedInv
      <3>1. CASE p # r[1]
        BY <2>2, <3>1 DEF AcceptedInv
      <3>2. CASE p = r[1] /\ request[r].gone
        <4>1. Paid(p) # {}
          BY <2>2, <3>2 DEF AcceptedInv
        <4> QED
          BY <3>2, <4>1
      <3>3. CASE p = r[1] /\ ~request[r].gone
        BY <2>2, <3>3
      <3> QED
        BY <3>1, <3>2, <3>3
    <2>5. ASSUME r[1] \notin unsure' PROVE Sure(r[1])'
      <3>1. Sure(r[1])
        BY <1>1, <2>5 DEF SureInv
      <3>2. client[r[1]].told = "waiting" /\ ~request[r].gone
        BY <1>1, <3>1 DEF Sure
      <3>3. Paid(r[1]) = {}
        BY <3>1, <3>2 DEF Sure
      <3>4. /\ client'[r[1]].told # "accepted" => Paid(r[1])' = {}
            /\ \A i, j \in Paid(r[1])' : i = j
        BY <2>2, <2>5, <3>2, <3>3
      <3> QED
        BY <1>1, <2>2, <3>1, <3>4, SureEnds
    <2> QED
      BY <1>1, <2>2, <2>3, <2>4, <2>5, SureFrame
  <1>3. CASE request[r].pc = "done"
    <2>1. request' = request /\ client' = client
      BY <1>3 DEF Reply
    <2>2. Others(r)
      BY <2>1 DEF Others
    <2>3. Ordered'
      BY <1>1, <1>3, <2>1, <2>2, OrderedFrame
    <2>4. AcceptedInv'
      <3> SUFFICES ASSUME NEW p \in Payments, client[p].told = "accepted" PROVE Paid(p)' # {}
        BY <2>1 DEF AcceptedInv
      <3>1. Paid(p) # {}
        BY DEF AcceptedInv
      <3> QED
        BY <3>1
    <2>5. r[1] \in unsure
      BY <1>1, <1>3 DEF SureInv, Sure
    <2> QED
      BY <1>1, <2>1, <2>2, <2>3, <2>4, <2>5, SureFrame
  <1> QED
    BY <1>1, <1>2, <1>3

\* The key of an attempt.
LEMMA KeyFacts ==
    ASSUME NEW S, Typed(S), NEW r \in Requests
    PROVE  /\ KeyOf(r)[1] = r[1]
           /\ plan[r[1]].keyed => KeyOf(r)[2] = 0
  BY PlanType DEF KeyOf

\* A repeated key is answered from the book.
LEMMA ExistingPay ==
    ASSUME NEW S, Typed(S), Ordered, KeysInv, AcceptedInv, SureInv, NEW r \in Requests,
           ExecuteExisting(r)
    PROVE  Ordered' /\ KeysInv' /\ AcceptedInv' /\ SureInv'
  <1> DEFINE failed == \E i \in 1 .. Len(book) : book[i].key = KeyOf(r) /\ book[i].failed
             told == IF failed THEN "failed" ELSE "accepted"
  <1>1. /\ book' = book /\ plan' = plan /\ unsure' = unsure /\ Created(r)
        /\ create' = [create EXCEPT ![r] = "done"]
        /\ Reply(r, told, Int64ToNumber(balance))
    BY Zenon DEF ExecuteExisting, Created
  <1>2. KeysInv' /\ \A p \in Payments : Paid(p)' = Paid(p)
    BY <1>1, BookSame
  <1>3. Int64ToNumber(balance) \in Int /\ r[1] \in Payments
    BY MoneyType, PlanType DEF Typed
  <1>4. ASSUME ~failed PROVE Paid(r[1]) # {}
    <2> PICK i \in 1 .. Len(book) : book[i].key = KeyOf(r)
      BY DEF ExecuteExisting
    <2>1. ~book[i].failed
      BY <1>4
    <2>2. book[i].pay = r[1]
      BY KeyFacts DEF KeysInv
    <2> QED
      BY <2>1, <2>2 DEF Paid
  <1>5. told \in {"accepted", "failed", "refused"} /\ (told = "accepted" => ~failed)
    OBVIOUS
  <1> HIDE DEF told, failed
  <1>6. Ordered' /\ AcceptedInv' /\ SureInv'
    BY <1>1, <1>2, <1>3, <1>4, <1>5, ReplyStep
  <1> QED
    BY <1>2, <1>6

\* An error before the commit makes nothing.
LEMMA FailurePay ==
    ASSUME NEW S, Typed(S), Ordered, KeysInv, AcceptedInv, SureInv, NEW r \in Requests,
           CreateFails(r)
    PROVE  Ordered' /\ KeysInv' /\ AcceptedInv' /\ SureInv'
  <1>1. /\ book' = book /\ plan' = plan /\ unsure' = unsure /\ Created(r)
        /\ create' = [create EXCEPT ![r] = "done"]
        /\ Reply(r, "error", Unknown)
    BY Zenon DEF CreateFails, Created
  <1>2. KeysInv' /\ \A p \in Payments : Paid(p)' = Paid(p)
    BY <1>1, BookSame
  <1>3. Unknown \in Int /\ r[1] \in Payments
    BY MoneyType, PlanType
  <1>4. Ordered' /\ AcceptedInv' /\ SureInv'
    BY <1>1, <1>2, <1>3, ReplyStep
  <1> QED
    BY <1>2, <1>4

\* A new key: the transaction is added, or refused for want of money.
LEMMA ExecutePay ==
    ASSUME NEW S, Typed(S), Ordered, KeysInv, AcceptedInv, SureInv, NEW r \in Requests,
           NEW fails \in BOOLEAN, NEW answered \in BOOLEAN, Execute(r, fails, answered)
    PROVE  Ordered' /\ KeysInv' /\ AcceptedInv' /\ SureInv'
  <1>1. /\ plan' = plan /\ Created(r)
        /\ create' = [create EXCEPT ![r] = "done"]
        /\ \A i \in 1 .. Len(book) : book[i].key # KeyOf(r)
    BY DEF Execute, Created
  <1>2. r[1] \in Payments
    BY PlanType
  <1>3. ASSUME NEW taken \in Int, book' = Append(book, NewTransaction(r, fails, taken)),
               NEW told \in {"accepted", "failed", "error"}, NEW shown \in Int,
               Reply(r, told, shown), unsure' \in {unsure, unsure \cup {r[1]}},
               told = "accepted" => ~fails,
               told # "accepted" => fails \/ r[1] \in unsure'
        PROVE  Ordered' /\ KeysInv' /\ AcceptedInv' /\ SureInv'
    <2>1. \A p \in Payments :
             Paid(p)' = IF p = r[1] /\ ~fails THEN Paid(p) \cup {Len(book) + 1} ELSE Paid(p)
      BY <1>3, PaidStep
    <2>3. Ordered' /\ AcceptedInv' /\ SureInv'
      <3>1. /\ told \in {"accepted", "failed", "refused", "error"} /\ Reply(r, told, shown)
        BY <1>3
      <3>2. \A p \in Payments : p # r[1] => Paid(p)' = Paid(p)
        BY <2>1
      <3>3. /\ Paid(r[1]) \subseteq Paid(r[1])'
            /\ told = "accepted" => Paid(r[1])' # {}
            /\ told # "accepted" => Paid(r[1])' = Paid(r[1]) \/ r[1] \in unsure'
            /\ Paid(r[1]) = {} => \A i, j \in Paid(r[1])' : i = j
        BY <1>2, <1>3, <2>1
      <3> QED
        BY <1>1, <1>3, <3>1, <3>2, <3>3, ReplyStep
    <2>4. KeysInv'
      <3> DEFINE n == NewTransaction(r, fails, taken)
      <3>1. /\ Len(book) \in Nat /\ Len(book') = Len(book) + 1
            /\ \A i \in 1 .. Len(book) : book'[i] = book[i]
            /\ book'[Len(book) + 1] = n
        BY <1>3, BookGrows
      <3>2. n.key = KeyOf(r) /\ n.pay = r[1]
        BY NewTransactionType
      <3> HIDE DEF n
      <3>3. \A i \in 1 .. Len(book') : i \in 1 .. Len(book) \/ i = Len(book) + 1
        BY <3>1
      <3>4. ASSUME NEW i \in 1 .. Len(book')
            PROVE  /\ book'[i].key[1] = book'[i].pay
                   /\ plan[book'[i].pay].keyed => book'[i].key[2] = 0
        BY <3>1, <3>2, <3>3, KeyFacts DEF KeysInv
      <3>5. ASSUME NEW i \in 1 .. Len(book'), NEW j \in 1 .. Len(book'),
                   book'[i].key = book'[j].key
            PROVE  i = j
        BY <1>1, <3>1, <3>2, <3>3, <3>5 DEF KeysInv
      <3> QED
        BY <1>1, <3>4, <3>5 DEF KeysInv
    <2> QED
      BY <2>3, <2>4
  <1>4. ASSUME book' = book, unsure' = unsure, NEW shown \in Int, Reply(r, "refused", shown)
        PROVE  Ordered' /\ KeysInv' /\ AcceptedInv' /\ SureInv'
    <2>1. KeysInv' /\ \A p \in Payments : Paid(p)' = Paid(p)
      BY <1>1, <1>4, BookSame
    <2> QED
      BY <1>1, <1>2, <1>4, <2>1, ReplyStep
  <1>5. Unknown \in Int /\ \A b \in Int : Int64ToNumber(b) \in Int
    BY MoneyType
  <1>6. CASE /\ \E taken \in Int :
                   /\ book' = Append(book, NewTransaction(r, fails, taken))
                   /\ balance' = balance - taken /\ balance' \in Int
             /\ \/ /\ unsure' = unsure
                   /\ Reply(r, IF fails THEN "failed" ELSE "accepted", Int64ToNumber(balance'))
                \/ /\ unsure' = IF fails THEN unsure ELSE unsure \cup {r[1]}
                   /\ Reply(r, "error", Unknown)
    <2>1. PICK taken \in Int : /\ book' = Append(book, NewTransaction(r, fails, taken))
                               /\ balance' \in Int
      BY <1>6
    <2>2. CASE /\ unsure' = unsure
               /\ Reply(r, IF fails THEN "failed" ELSE "accepted", Int64ToNumber(balance'))
      <3>1. CASE fails
        BY <1>3, <1>5, <2>1, <2>2, <3>1
      <3>2. CASE ~fails
        BY <1>3, <1>5, <2>1, <2>2, <3>2
      <3> QED
        BY <3>1, <3>2
    <2>3. CASE /\ unsure' = IF fails THEN unsure ELSE unsure \cup {r[1]}
               /\ Reply(r, "error", Unknown)
      BY <1>3, <1>5, <2>1, <2>3
    <2> QED
      BY <1>6, <2>2, <2>3
  <1> QED
    BY <1>4, <1>5, <1>6, ExecuteStep

\* Every step keeps the payments' invariant.
LEMMA PayStep == ASSUME PayInv, [Next]_vars PROVE PayInv'
  <1> USE DEF service
  <1>0. GatewayType /\ GatewayType' /\ Ordered /\ KeysInv /\ AcceptedInv /\ SureInv
    BY TypedStep DEF PayInv
  <1> DEFINE Rest == Ordered /\ KeysInv /\ AcceptedInv /\ SureInv
  <1> SUFFICES Rest'
    BY <1>0 DEF PayInv
  <1> PICK S : Typed(S)
    BY <1>0 DEF GatewayType
  <1>1. ASSUME NEW p \in Payments, Send(p) PROVE Rest'
    <2>1. book' = book /\ plan' = plan
      BY <1>1 DEF Send
    <2> QED
      BY <1>0, <1>1, <2>1, SendPay, SendOrdered, BookSame
  <1>2. ASSUME NEW r \in Requests, Timeout(r) PROVE Rest'
    BY <1>0, <1>2, TimeoutPay
  <1>3. ASSUME NEW r \in Requests,
               \/ ResolveTarget(r) \/ CallFails(r) \/ Assess(r) \/ ReadStats(r)
               \/ \E verdict \in Verdicts : Score(r, verdict)
               \/ \E proof \in Proofs, answered \in BOOLEAN : CheckProof(r, proof, answered)
        PROVE  Rest'
    BY <1>0, <1>3, HandlerPay
  <1>4. ASSUME NEW r \in Requests, ExecuteExisting(r) PROVE Rest'
    BY <1>0, <1>4, ExistingPay
  <1>5. ASSUME NEW r \in Requests, NEW fails \in BOOLEAN, NEW answered \in BOOLEAN,
               Execute(r, fails, answered)
        PROVE  Rest'
    BY <1>0, <1>5, ExecutePay
  <1>6. ASSUME UNCHANGED <<plan, client, request, create, book, unsure>> PROVE Rest'
    BY <1>0, <1>6 DEF Ordered, KeysInv, AcceptedInv, SureInv, Sure, Active, Created, Paid
  <1> HIDE DEF Rest
  <1>7. CASE (\E i \in 1 .. Len(cache) : CacheExpires(i))
             \/ (\E dest \in {"wallet", "account"} : Preview(dest)) \/ CreateFundingSource
             \/ UNCHANGED vars
    BY <1>6, <1>7 DEF CacheExpires, Preview, CreateFundingSource, vars
  <1>8. ASSUME NEW r \in Requests, CreateFails(r) PROVE Rest'
    BY <1>0, <1>8, FailurePay DEF Rest
  <1> QED
    BY <1>1, <1>2, <1>3, <1>4, <1>5, <1>7, <1>8 DEF Next

\* No payment has been tried at the start.
LEMMA InitPay == Init => PayInv
  <1> SUFFICES ASSUME Init PROVE PayInv
    OBVIOUS
  <1>1. GatewayType
    BY InitTyped
  <1>2. Len(book) = 0 /\ \A p \in Payments : Paid(p) = {}
    BY DEF Init, Paid
  <1>3. KeysInv
    BY <1>2 DEF KeysInv
  <1>4. AcceptedInv
    BY DEF Init, AcceptedInv
  <1>5. NoRequest.pc = "none" /\ ~NoRequest.gone
    BY Zenon DEF NoRequest
  <1>6. \A r \in Requests : request[r] = NoRequest /\ create[r] = "none"
    BY Zenon DEF Init
  <1>7. Ordered
    BY <1>5, <1>6 DEF Ordered, Created
  <1>8. SureInv
    BY <1>2, <1>5, <1>6 DEF SureInv, Sure, Active, Created
  <1> QED
    BY <1>1, <1>3, <1>4, <1>7, <1>8 DEF PayInv

\* The invariant holds throughout.
LEMMA AlwaysPayInv == Spec => []PayInv
  <1>1. Init => PayInv
    BY InitPay
  <1>2. PayInv /\ [Next]_vars => PayInv'
    BY PayStep
  <1> QED
    BY <1>1, <1>2, PTL DEF Spec

\* A payment with an idempotency key is made at most once, one without at most
\* once as long as no attempt of it timed out or was answered with an error after
\* its commit: createTransfer's and the intents'
\* key look-up and the client's retries together, for any number of payments.
THEOREM PaymentsAreMadeOnce == Spec => []PaidOnce
  <1>1. PayInv => PaidOnce
    <2> SUFFICES ASSUME PayInv, NEW p \in Payments, ~(~plan[p].keyed /\ p \in unsure)
                 PROVE  ~(Cardinality(Paid(p)) > 1)
      BY DEF PaidOnce
    <2>1. ASSUME NEW i \in Paid(p), NEW j \in Paid(p) PROVE i = j
      <3>1. CASE plan[p].keyed
        <4> PICK S : Typed(S)
          BY DEF PayInv, GatewayType
        <4>1. i \in 1 .. Len(book) /\ j \in 1 .. Len(book) /\ book[i].pay = p /\ book[j].pay = p
          BY DEF Paid
        <4>2. book[i].key \in Payments \X Nat /\ book[j].key \in Payments \X Nat
          <5>1. book[i] \in Transaction /\ book[j] \in Transaction
            BY <4>1, ElementOfSeq DEF Typed
          <5> QED
            BY <5>1 DEF Transaction
        <4>3. book[i].key = book[j].key
          BY <3>1, <4>1, <4>2, SMTT(60) DEF PayInv, KeysInv
        <4> QED
          BY <4>1, <4>3 DEF PayInv, KeysInv
      <3>2. CASE p \notin unsure
        BY <3>2 DEF PayInv, SureInv, Sure
      <3> QED
        BY <3>1, <3>2
    <2>2. Paid(p) = {} \/ \E i \in Paid(p) : Paid(p) = {i}
      BY <2>1
    <2>3. Cardinality(Paid(p)) \in {0, 1}
      BY <2>2, FS_EmptySet, FS_Singleton
    <2> QED
      BY <2>3
  <1> QED
    BY <1>1, AlwaysPayInv, PTL

\* What the client is told of a payment's outcome is so: an accepted payment is
\* made, and a refused or failed one, or one that ended in an error, is not unless
\* an attempt timed out or was made and answered with an error.
THEOREM OutcomesAreTrue == Spec => []AnswerIsTrue
  <1>1. PayInv => AnswerIsTrue
    BY DEF PayInv, AcceptedInv, SureInv, Sure, AnswerIsTrue
  <1> QED
    BY <1>1, AlwaysPayInv, PTL

-----------------------------------------------------------------------------
(* The balances shown.  BalancesHad walks back through the book from the   *)
(* wallet's balance; a transaction more adds one balance to it and leaves  *)
(* the others.                                                             *)

\* What a transaction took from the wallet.
Cost(e) == e.taken

\* f gives the wallet's balance before each transaction of s, b being the last.
IsAfter(f, s, b) ==
    f = [i \in 0 .. Len(s) |-> IF i = Len(s) THEN b ELSE f[i + 1] + Cost(s[i + 1])]

\* There is such a function for every book.
LEMMA AfterExists ==
    ASSUME NEW T, NEW s \in Seq(T), NEW b
    PROVE  \E f : IsAfter(f, s, b)
  <1> DEFINE L == Len(s)
             Ends(g, k) == /\ g = [i \in (L - k) .. L |-> g[i]]
                           /\ g[L] = b
                           /\ \A i \in (L - k) .. L - 1 : g[i] = g[i + 1] + Cost(s[i + 1])
             D == {k \in 0 .. L : ~ \E g : Ends(g, k)}
  <1>0. L \in Nat
    OBVIOUS
  <1>1. D = {}
    <2> SUFFICES ASSUME D # {} PROVE FALSE
      OBVIOUS
    <2>1. PICK n \in D : \A m \in D : ~(<<m, n>> \in OpToRel(<, Nat))
      <3>1. D \in SUBSET Nat
        BY <1>0
      <3> HIDE DEF D
      <3> QED BY <3>1, NatLessThanWellFounded, WFMin
    <2>2. n \in Nat /\ n <= L
      BY <1>0
    <2>3. n # 0
      <3> DEFINE g == [i \in L .. L |-> b]
      <3>1. Ends(g, 0)
        BY <1>0
      <3> HIDE DEF g, Ends
      <3>2. ~ \E h : Ends(h, n)
        OBVIOUS
      <3> QED BY <3>1, <3>2
    <2>4. n - 1 \notin D
      <3>1. n - 1 \in Nat /\ n - 1 < n
        BY <2>2, <2>3
      <3>2. <<n - 1, n>> \in OpToRel(<, Nat)
        BY <2>2, <3>1 DEF OpToRel
      <3> QED BY <2>1, <3>2, Zenon
    <2>5. PICK g : Ends(g, n - 1)
      <3> HIDE DEF Ends
      <3> QED BY <1>0, <2>2, <2>3, <2>4
    <2> DEFINE h == [i \in (L - n) .. L |-> IF i = L - n THEN g[i + 1] + Cost(s[i + 1]) ELSE g[i]]
    <2>6. Ends(h, n)
      <3>1. h = [i \in (L - n) .. L |-> h[i]]
        OBVIOUS
      <3>2. h[L] = b
        BY <1>0, <2>2, <2>3, <2>5
      <3>3. ASSUME NEW i \in (L - n) .. L - 1 PROVE h[i] = h[i + 1] + Cost(s[i + 1])
        <4>1. i \in Int /\ i + 1 \in (L - n) .. L /\ i + 1 # L - n /\ i \in (L - n) .. L
          BY <1>0, <2>2, <2>3
        <4>2. h[i + 1] = g[i + 1]
          BY <4>1
        <4>3. CASE i = L - n
          BY <4>1, <4>2, <4>3
        <4>4. CASE i # L - n
          <5>1. i \in (L - (n - 1)) .. L - 1
            BY <1>0, <2>2, <2>3, <4>4
          <5>2. g[i] = g[i + 1] + Cost(s[i + 1])
            BY <2>5, <5>1
          <5> QED BY <4>1, <4>2, <4>4, <5>2
        <4> QED BY <4>3, <4>4
      <3> QED BY <3>1, <3>2, <3>3
    <2>7. ~ Ends(h, n)
      <3> HIDE DEF Ends, h
      <3> QED OBVIOUS
    <2> QED BY <2>6, <2>7
  <1>2. PICK g : Ends(g, L)
    <2> HIDE DEF Ends
    <2> QED BY <1>0, <1>1
  <1>3. IsAfter([i \in 0 .. L |-> g[i]], s, b)
    <2> DEFINE f == [i \in 0 .. L |-> g[i]]
    <2>1. ASSUME NEW i \in 0 .. L
          PROVE  f[i] = IF i = L THEN b ELSE f[i + 1] + Cost(s[i + 1])
      <3>1. CASE i = L
        BY <1>0, <1>2, <3>1
      <3>2. CASE i # L
        <4>1. i \in (L - L) .. L - 1 /\ i + 1 \in 0 .. L
          BY <1>0, <3>2
        <4>2. g[i] = g[i + 1] + Cost(s[i + 1])
          BY <1>2, <4>1
        <4> QED BY <3>2, <4>1, <4>2
      <3> QED BY <3>1, <3>2
    <2>2. f = [i \in 0 .. L |-> IF i = L THEN b ELSE f[i + 1] + Cost(s[i + 1])]
      BY <2>1
    <2> QED BY <2>2 DEF IsAfter
  <1> QED BY <1>3

\* The balances before each transaction of s.
After(s, b) == CHOOSE f : IsAfter(f, s, b)

\* After(s, b) is such a function.
LEMMA AfterIs ==
    ASSUME NEW T, NEW s \in Seq(T), NEW b
    PROVE  IsAfter(After(s, b), s, b)
  BY AfterExists, Zenon DEF After

\* The balances from the first to the one before transaction n + 1.
AllOf(f, n) == {f[i] : i \in 0 .. n}

\* They are what BalancesHad collects.
LEMMA BalancesAfter ==
    /\ BalancesHad = AllOf(After(book, balance), Len(book))
    /\ BalancesHad' = AllOf(After(book', balance'), Len(book'))
  BY DEF BalancesHad, IsAfter, Cost, After, AllOf

\* A transaction more: the balances before it stay, and there is one more.
LEMMA AfterAppend ==
    ASSUME NEW T, NEW s \in Seq(T), NEW e \in T, NEW b \in Int, Cost(e) \in Int,
           NEW f, IsAfter(f, s, b), NEW g, IsAfter(g, Append(s, e), b - Cost(e))
    PROVE  AllOf(g, Len(s) + 1) = AllOf(f, Len(s)) \cup {b - Cost(e)}
  <1> DEFINE L == Len(s)
             D == {k \in 0 .. L : g[L - k] # f[L - k]}
  <1>0. /\ L \in Nat /\ Len(Append(s, e)) = L + 1
        /\ Append(s, e)[L + 1] = e
        /\ \A j \in 1 .. L : Append(s, e)[j] = s[j]
    OBVIOUS
  <1>1. \A i \in 0 .. L : f[i] = IF i = L THEN b ELSE f[i + 1] + Cost(s[i + 1])
    BY Zenon DEF IsAfter
  <1>2. \A i \in 0 .. L + 1 :
          g[i] = IF i = L + 1 THEN b - Cost(e) ELSE g[i + 1] + Cost(Append(s, e)[i + 1])
    BY <1>0, Zenon DEF IsAfter
  <1>3. g[L + 1] = b - Cost(e)
    BY <1>0, <1>2
  <1>4. g[L] = b /\ f[L] = b
    BY <1>0, <1>1, <1>2, <1>3
  <1>5. D = {}
    <2> SUFFICES ASSUME D # {} PROVE FALSE
      OBVIOUS
    <2>1. PICK n \in D : \A m \in D : ~(<<m, n>> \in OpToRel(<, Nat))
      <3>1. D \in SUBSET Nat
        BY <1>0
      <3> HIDE DEF D
      <3> QED BY <3>1, NatLessThanWellFounded, WFMin
    <2>2. n \in Nat /\ n <= L /\ g[L - n] # f[L - n]
      BY <1>0
    <2>3. n # 0
      BY <1>0, <1>4, <2>2
    <2>4. n - 1 \notin D
      <3>1. n - 1 \in Nat /\ n - 1 < n
        BY <2>2, <2>3
      <3>2. <<n - 1, n>> \in OpToRel(<, Nat)
        BY <2>2, <3>1 DEF OpToRel
      <3> QED BY <2>1, <3>2, Zenon
    <2>5. g[L - n + 1] = f[L - n + 1]
      <3>1. n - 1 \in 0 .. L /\ L - (n - 1) = L - n + 1
        BY <1>0, <2>2, <2>3
      <3> QED BY <2>4, <3>1
    <2>6. /\ L - n \in 0 .. L + 1 /\ L - n \in 0 .. L /\ L - n # L /\ L - n # L + 1
          /\ L - n + 1 \in 1 .. L
      BY <1>0, <2>2, <2>3
    <2>7. g[L - n] = g[L - n + 1] + Cost(Append(s, e)[L - n + 1])
      BY <1>2, <2>6
    <2>8. f[L - n] = f[L - n + 1] + Cost(s[L - n + 1])
      BY <1>1, <2>6
    <2> QED BY <1>0, <2>2, <2>5, <2>6, <2>7, <2>8
  <1>6. \A i \in 0 .. L : g[i] = f[i]
    <2> TAKE i \in 0 .. L
    <2>1. L - i \in 0 .. L /\ L - (L - i) = i
      BY <1>0
    <2> QED BY <1>5, <2>1
  <1>7. \A i : i \in 0 .. L + 1 <=> i \in 0 .. L \/ i = L + 1
    BY <1>0
  <1> HIDE DEF D, L
  <1>8. {g[i] : i \in 0 .. L + 1} = {f[i] : i \in 0 .. L} \cup {b - Cost(e)}
    BY <1>3, <1>6, <1>7
  <1> QED BY <1>8 DEF L, AllOf

\* A balance shown is one of B or too large to be shown.
Real(v, B) == v \in B \/ \E b \in B : b >= Word \div 2

\* What a client is shown of p stays, or no balance goes with what it is told now.
ShownKept(p) ==
    client'[p].told \in {"accepted", "failed"} =>
        client[p].told \in {"accepted", "failed"} /\ client'[p].shown = client[p].shown

\* The wallet's balance now is one it has had.
LEMMA BalanceNow ==
    ASSUME NEW S, Typed(S) PROVE balance \in BalancesHad
  <1> DEFINE f == After(book, balance)
  <1>1. IsAfter(f, book, balance) /\ Len(book) \in Nat
    BY AfterIs DEF Typed
  <1>2. f[Len(book)] = balance
    <2> HIDE DEF f
    <2>1. Len(book) \in 0 .. Len(book)
      BY <1>1
    <2>2. \A i \in 0 .. Len(book) :
            f[i] = IF i = Len(book) THEN balance ELSE f[i + 1] + Cost(book[i + 1])
      BY <1>1, Zenon DEF IsAfter
    <2> QED BY <2>1, <2>2, Zenon
  <1>3. Len(book) \in 0 .. Len(book)
    BY <1>1
  <1> QED BY <1>2, <1>3, BalancesAfter, Zenon DEF AllOf

\* A new transaction adds the balance it leaves.
LEMMA BalancesGrow ==
    ASSUME NEW S, Typed(S), NEW r \in Requests, NEW fails \in BOOLEAN,
           NEW taken \in Int, book' = Append(book, NewTransaction(r, fails, taken)),
           balance' = balance - taken
    PROVE  BalancesHad' = BalancesHad \cup {balance'}
  <1> DEFINE e == NewTransaction(r, fails, taken)
  <1>1. book \in Seq(Transaction) /\ e \in Transaction /\ balance \in Int
    BY NewTransactionType DEF Typed
  <1>2. Cost(e) = taken
    BY NewTransactionType DEF Cost
  <1>5. Cost(e) \in Int /\ balance' = balance - Cost(e)
    BY <1>2
  <1> HIDE DEF e
  <1>6. /\ IsAfter(After(book, balance), book, balance)
        /\ IsAfter(After(book', balance'), Append(book, e), balance - Cost(e))
    <2>1. Append(book, e) \in Seq(Transaction) /\ book' = Append(book, e)
      BY <1>1 DEF e
    <2>2. IsAfter(After(book', balance'), book', balance')
      BY <2>1, AfterIs
    <2>3. IsAfter(After(book', balance'), Append(book, e), balance - Cost(e))
      BY <1>5, <2>1, <2>2, Zenon
    <2> QED BY <1>1, <2>3, AfterIs
  <1>7. AllOf(After(book', balance'), Len(book) + 1)
          = AllOf(After(book, balance), Len(book)) \cup {balance - Cost(e)}
    BY <1>1, <1>5, <1>6, AfterAppend
  <1>8. Len(book') = Len(book) + 1
    BY BookGrows
  <1> QED BY <1>5, <1>7, <1>8, BalancesAfter, Zenon

\* What int64ToNumber makes of a balance.
LEMMA ShownIsReal ==
    ASSUME NEW b \in Int, NEW B, b \in B PROVE Real(Int64ToNumber(b), B)
  <1>1. Word \div 2 \in Int /\ Word \in Int /\ Word \div 2 <= Word
    BY PaymentGatewayAssumption
  <1> QED BY <1>1 DEF Int64ToNumber, Real

\* An answer shows the client what it says.
LEMMA AnswerShows ==
    ASSUME NEW S, Typed(S), NEW r \in Requests, NEW told \in Tolds, NEW shown \in Int,
           Answer(r, told, shown) \/ Reply(r, told, shown), NEW p \in Payments
    PROVE  \/ client'[p] = client[p]
           \/ client'[p].told = told /\ client'[p].shown = shown
  <1>1. r[1] \in Payments
    BY PlanType
  <1>2. \/ client' = client
        \/ client' = [client EXCEPT ![r[1]].told = told, ![r[1]].shown = shown]
    BY DEF Answer, Reply
  <1>3. CASE client' = client
    BY <1>3
  <1>4. CASE client' = [client EXCEPT ![r[1]].told = told, ![r[1]].shown = shown]
    <2>1. client \in [Payments -> ClientState]
      BY DEF Typed
    <2>2. CASE p = r[1]
      BY <1>1, <1>4, <2>1, <2>2 DEF ClientState
    <2>3. CASE p # r[1]
      BY <1>1, <1>4, <2>1, <2>3
    <2> QED BY <2>2, <2>3
  <1> QED BY <1>2, <1>3, <1>4

\* Every step shows nothing or a balance the wallet has had.
LEMMA ShownStep ==
    ASSUME GatewayType, ShownBalanceIsReal, [Next]_vars PROVE ShownBalanceIsReal'
  <1> PICK S : Typed(S)
    BY DEF GatewayType
  <1>0. \A p \in Payments : client[p].told \in {"accepted", "failed"} =>
                              Real(client[p].shown, BalancesHad)
    BY DEF ShownBalanceIsReal, Real
  <1> DEFINE Shown(p) == client'[p].told \in {"accepted", "failed"} =>
                            Real(client'[p].shown, BalancesHad')
  <1> SUFFICES ASSUME NEW p \in Payments PROVE Shown(p)
    BY Zenon DEF ShownBalanceIsReal, Real
  <1>1. ASSUME BalancesHad \subseteq BalancesHad', ShownKept(p) PROVE Shown(p)
    BY <1>0, <1>1 DEF ShownKept, Real
  <1>2. ASSUME book' = book, balance' = balance PROVE BalancesHad \subseteq BalancesHad'
    BY <1>2, BalancesAfter
  <1>3. ASSUME NEW r \in Requests, NEW told \in {"refused", "error"},
               Answer(r, told, Unknown) \/ Reply(r, told, Unknown)
        PROVE  ShownKept(p)
    <2>1. Unknown \in Int /\ told \in Tolds
      BY MoneyType DEF Tolds
    <2> QED BY <1>3, <2>1, AnswerShows DEF ShownKept
  <1>4. ASSUME NEW r \in Requests, NEW told \in {"accepted", "failed"}, balance' \in Int,
               balance' \in BalancesHad', BalancesHad \subseteq BalancesHad',
               Reply(r, told, Int64ToNumber(balance'))
        PROVE  Shown(p)
    <2>1. Int64ToNumber(balance') \in Int /\ told \in Tolds
      BY <1>4, MoneyType DEF Tolds
    <2>2. \/ client'[p] = client[p]
          \/ client'[p].told = told /\ client'[p].shown = Int64ToNumber(balance')
      BY <1>4, <2>1, AnswerShows
    <2>3. Real(Int64ToNumber(balance'), BalancesHad')
      BY <1>4, ShownIsReal
    <2>4. CASE client'[p] = client[p]
      BY <1>1, <1>4, <2>4 DEF ShownKept
    <2> QED BY <2>2, <2>3, <2>4
  <1> HIDE DEF Shown
  <1>5. ASSUME NEW q \in Payments, Send(q) PROVE Shown(p)
    <2>1. ShownKept(p)
      <3>1. client' = [client EXCEPT ![q].attempt = @ + 1, ![q].told = "waiting"]
            /\ client \in [Payments -> ClientState]
        BY <1>5 DEF Send, Typed
      <3>2. CASE p = q
        BY <3>1, <3>2 DEF ClientState, ShownKept
      <3>3. CASE p # q
        BY <3>1, <3>3 DEF ShownKept
      <3> QED BY <3>2, <3>3
    <2> QED BY <1>1, <1>2, <1>5, <2>1 DEF Send, service
  <1>6. ASSUME NEW r \in Requests, Timeout(r) PROVE Shown(p)
    <2>1. ShownKept(p)
      <3>1. client' = [client EXCEPT ![r[1]].told = "error"]
            /\ client \in [Payments -> ClientState] /\ r[1] \in Payments
        BY <1>6, PlanType DEF Timeout, Typed
      <3>2. CASE p = r[1]
        BY <3>1, <3>2 DEF ClientState, ShownKept
      <3>3. CASE p # r[1]
        BY <3>1, <3>3 DEF ShownKept
      <3> QED BY <3>2, <3>3
    <2> QED BY <1>1, <1>2, <1>6, <2>1 DEF Timeout, service
  <1>7. ASSUME NEW r \in Requests,
               \/ ResolveTarget(r) \/ CallFails(r) \/ Assess(r) \/ ReadStats(r)
               \/ \E verdict \in Verdicts : Score(r, verdict)
               \/ \E proof \in Proofs, answered \in BOOLEAN : CheckProof(r, proof, answered)
        PROVE  Shown(p)
    <2>1. book' = book /\ balance' = balance
      BY <1>7, ZenonT(60) DEF ResolveTarget, CallFails, Assess, ReadStats, Score, CheckProof, service
    <2>2. \/ client' = client
          \/ \E told \in {"refused", "error"} : Answer(r, told, Unknown)
      BY <1>7 DEF ResolveTarget, CallFails, Assess, ReadStats, Score, CheckProof
    <2>3. ShownKept(p)
      BY <1>3, <2>2 DEF ShownKept
    <2> QED BY <1>1, <1>2, <2>1, <2>3
  <1>8. ASSUME NEW r \in Requests, ExecuteExisting(r) PROVE Shown(p)
    <2>1. /\ book' = book /\ balance' = balance
          /\ \E told \in {"accepted", "failed"} : Reply(r, told, Int64ToNumber(balance))
      BY <1>8 DEF ExecuteExisting
    <2>2. balance \in BalancesHad /\ balance \in Int
      BY BalanceNow DEF Typed
    <2> QED BY <1>2, <1>4, <2>1, <2>2
  <1>9. ASSUME NEW r \in Requests, NEW fails \in BOOLEAN, NEW answered \in BOOLEAN,
               Execute(r, fails, answered)
        PROVE  Shown(p)
    <2>1. ASSUME NEW taken \in Int, book' = Append(book, NewTransaction(r, fails, taken)),
                 balance' = balance - taken, balance' \in Int,
                 \/ Reply(r, IF fails THEN "failed" ELSE "accepted", Int64ToNumber(balance'))
                 \/ Reply(r, "error", Unknown)
          PROVE  Shown(p)
      <3>1. BalancesHad' = BalancesHad \cup {balance'}
        BY <2>1, BalancesGrow
      <3>2. (IF fails THEN "failed" ELSE "accepted") \in {"accepted", "failed"}
        OBVIOUS
      <3>3. CASE Reply(r, IF fails THEN "failed" ELSE "accepted", Int64ToNumber(balance'))
        BY <1>4, <2>1, <3>1, <3>2, <3>3
      <3>4. CASE Reply(r, "error", Unknown)
        BY <1>1, <1>3, <3>1, <3>4
      <3> QED BY <2>1, <3>3, <3>4
    <2>2. CASE book' = book /\ balance' = balance /\ Reply(r, "refused", Unknown)
      BY <1>1, <1>2, <1>3, <2>2
    <2> QED BY <1>9, <2>1, <2>2, ExecuteStep
  <1>11. ASSUME NEW r \in Requests, CreateFails(r) PROVE Shown(p)
    <2>1. book' = book /\ balance' = balance /\ Reply(r, "error", Unknown)
      BY <1>11 DEF CreateFails
    <2> QED BY <1>1, <1>2, <1>3, <2>1
  <1>10. CASE (\E i \in 1 .. Len(cache) : CacheExpires(i))
             \/ (\E dest \in {"wallet", "account"} : Preview(dest)) \/ CreateFundingSource
             \/ UNCHANGED vars
    <2>1. book' = book /\ balance' = balance /\ client' = client
      BY <1>10 DEF CacheExpires, Preview, CreateFundingSource, vars, service
    <2> QED BY <1>1, <1>2, <2>1 DEF ShownKept
  <1> QED
    BY <1>5, <1>6, <1>7, <1>8, <1>9, <1>10, <1>11 DEF Next

\* A balance shown is one the wallet has had, or one was too large to show.
LEMMA BalancesShown == Spec => []ShownBalanceIsReal
  <1>1. Init => ShownBalanceIsReal
    BY DEF Init, ShownBalanceIsReal
  <1>2. ShownBalanceIsReal /\ GatewayType /\ [Next]_vars => ShownBalanceIsReal'
    BY ShownStep
  <1>3. PayInv => GatewayType
    BY DEF PayInv
  <1> QED BY <1>1, <1>2, <1>3, AlwaysPayInv, PTL DEF Spec

\* What the gateway tells its client (createTransfer, createTopupIntent,
\* createWithdrawalRequest) is so: the outcome of the payment and, through
\* int64ToNumber, a balance the wallet has had.
THEOREM OutcomesAndBalancesAreTrue == Spec => []AnswersAreTrue
  <1>1. AnswerIsTrue /\ ShownBalanceIsReal => AnswersAreTrue
    BY DEF AnswersAreTrue
  <1> QED BY <1>1, OutcomesAreTrue, BalancesShown, PTL

-----------------------------------------------------------------------------
(* No step-up, nothing remarkable.  The assessment reads the wallet, the   *)
(* statistics and the model's verdict at different times and the payment   *)
(* is made later still; asOf is the oldest of what was read.               *)

\* What handler r goes by is what the book and the wallet say now.
UpToDate(r) ==
    /\ request[r].pc \in {"stats", "score"} => request[r].balance = balance
    /\ request[r].pc = "score" => request[r].stats = QueriedStats(Dest(Kind(r)))
    /\ create[r] = "unproven" =>
          ~Remarkable(Amount(r), balance, QueriedStats(Dest(Kind(r))))

Handled == \A r \in Requests :
    request[r].asOf <= Len(book) /\ (request[r].asOf = Len(book) => UpToDate(r))

Cached == \A i \in 1 .. Len(cache) :
    /\ cache[i].asOf <= Len(book)
    /\ cache[i].asOf = Len(book) => cache[i].stats = QueriedStats(cache[i].dest)

FreshInv == PayInv /\ Handled /\ Cached /\ UnprovenIsUnremarkable

\* Without a new transaction the query gives the same.
LEMMA SameStats ==
    ASSUME book' = book PROVE \A dest : QueriedStats(dest)' = QueriedStats(dest)
  BY ZenonT(60) DEF QueriedStats

\* The same book, wallet and plan: the rules say the same of an attempt.
LEMMA SameRules ==
    ASSUME NEW q, book' = book, balance' = balance, plan' = plan
    PROVE  /\ QueriedStats(Dest(Kind(q)))' = QueriedStats(Dest(Kind(q)))
           /\ Remarkable(Amount(q), balance, QueriedStats(Dest(Kind(q))))' <=>
                 Remarkable(Amount(q), balance, QueriedStats(Dest(Kind(q))))
  <1>1. Kind(q)' = Kind(q) /\ Amount(q)' = Amount(q)
    BY DEF Kind, Amount
  <1>2. Dest(Kind(q))' = Dest(Kind(q))
    BY <1>1, Zenon DEF Dest
  <1>3. QueriedStats(Dest(Kind(q)))' = QueriedStats(Dest(Kind(q)))
    <2> PICK d : d = Dest(Kind(q))
      OBVIOUS
    <2>1. QueriedStats(d)' = QueriedStats(d) /\ d = Dest(Kind(q))'
      BY <1>2, SameStats
    <2> QED
      BY <2>1, Zenon
  <1> QED
    BY <1>1, <1>3, Zenon DEF Remarkable

\* A step that leaves the book alone: only the handler that takes it matters.
LEMMA HandledFrame ==
    ASSUME NEW S, Typed(S), Handled, NEW r, Others(r),
           book' = book, balance' = balance, plan' = plan,
           \A q \in Requests : q # r => create'[q] = create[q],
           r \in Requests => request'[r].asOf <= Len(book),
           r \in Requests /\ request'[r].asOf = Len(book) =>
              /\ request'[r].pc \in {"stats", "score"} => request'[r].balance = balance
              /\ request'[r].pc = "score" => request'[r].stats = QueriedStats(Dest(Kind(r)))
              /\ create'[r] = "unproven" =>
                    ~Remarkable(Amount(r), balance, QueriedStats(Dest(Kind(r))))
    PROVE  Handled'
  <1> SUFFICES ASSUME NEW q \in Requests
               PROVE  /\ request'[q].asOf <= Len(book)
                      /\ request'[q].asOf = Len(book) => UpToDate(q)'
    BY DEF Handled
  <1>1. /\ QueriedStats(Dest(Kind(q)))' = QueriedStats(Dest(Kind(q)))
        /\ Remarkable(Amount(q), balance, QueriedStats(Dest(Kind(q))))' <=>
              Remarkable(Amount(q), balance, QueriedStats(Dest(Kind(q))))
    BY SameRules
  <1>2. CASE q = r
    BY <1>1, <1>2, Zenon DEF UpToDate
  <1>3. CASE q # r
    <2>1. request'[q] = request[q] /\ create'[q] = create[q]
      BY <1>3 DEF Others
    <2>2. request[q].asOf <= Len(book) /\ (request[q].asOf = Len(book) => UpToDate(q))
      BY DEF Handled
    <2> QED
      BY <1>1, <2>1, <2>2, Zenon DEF UpToDate
  <1> QED
    BY <1>2, <1>3

\* A new entry of the cache that is not ahead of the book.
LEMMA CachedFrame ==
    ASSUME NEW S, Typed(S), Cached, book' = book, NEW dest \in Dests, NEW stats \in S,
           NEW asOf \in Nat, CacheStats(dest, stats, asOf), asOf <= Len(book),
           asOf = Len(book) => stats = QueriedStats(dest)
    PROVE  Cached'
  <1>1. \A j \in 1 .. Len(cache') :
           \/ cache'[j].dest = dest /\ cache'[j].stats = stats /\ cache'[j].asOf = asOf
           \/ \E i \in 1 .. Len(cache) : cache'[j] = cache[i]
    BY CacheStep, SMTT(60)
  <1> SUFFICES ASSUME NEW j \in 1 .. Len(cache')
               PROVE  /\ cache'[j].asOf <= Len(book)
                      /\ cache'[j].asOf = Len(book) =>
                            cache'[j].stats = QueriedStats(cache'[j].dest)
    <2>1. \A d : QueriedStats(d)' = QueriedStats(d)
      BY SameStats
    <2>2. ASSUME NEW j \in 1 .. Len(cache'), cache'[j].stats = QueriedStats(cache'[j].dest)
          PROVE  cache'[j].stats = QueriedStats(cache[j].dest)'
      <3> PICK d : d = cache'[j].dest
        OBVIOUS
      <3>1. cache'[j].stats = QueriedStats(d)'
        BY <2>1, <2>2
      <3> QED
        BY <3>1, Zenon
    <2> QED
      BY <2>2 DEF Cached
  <1>3. CASE cache'[j].dest = dest /\ cache'[j].stats = stats /\ cache'[j].asOf = asOf
    BY <1>3
  <1>4. ASSUME NEW i \in 1 .. Len(cache), cache'[j] = cache[i]
        PROVE  /\ cache'[j].asOf <= Len(book)
               /\ cache'[j].asOf = Len(book) => cache'[j].stats = QueriedStats(cache'[j].dest)
    BY <1>4, Zenon DEF Cached
  <1> QED
    BY <1>1, <1>3, <1>4

\* Neither the cache nor the book changes.
LEMMA CachedSame ==
    ASSUME Cached, book' = book, cache' = cache PROVE Cached'
  <1> SUFFICES ASSUME NEW i \in 1 .. Len(cache)
               PROVE  /\ cache[i].asOf <= Len(book)
                      /\ cache[i].asOf = Len(book) => cache[i].stats = QueriedStats(cache[i].dest)'
    BY DEF Cached
  <1> PICK d : d = cache[i].dest
    OBVIOUS
  <1>1. QueriedStats(d)' = QueriedStats(d) /\ d = (cache[i].dest)'
    BY SameStats
  <1>2. QueriedStats(cache[i].dest)' = QueriedStats(cache[i].dest)
    BY <1>1, Zenon
  <1> QED
    BY <1>2 DEF Cached

\* The handler's steps, the cache and the client.
LEMMA HandlerFresh ==
    ASSUME NEW S, Typed(S), FreshInv, NEW r \in Requests,
           \/ ResolveTarget(r) \/ CallFails(r) \/ Assess(r) \/ ReadStats(r) \/ Timeout(r)
           \/ \E proof \in Proofs, answered \in BOOLEAN : CheckProof(r, proof, answered)
    PROVE  Handled' /\ Cached' /\ UnprovenIsUnremarkable'
  <1> USE DEF service
  <1>0. /\ Handled /\ Cached /\ UnprovenIsUnremarkable /\ Ordered
        /\ book' = book /\ cache' = cache /\ balance' = balance /\ plan' = plan
        /\ Len(book) \in Nat /\ request[r].asOf \in Nat
    <2>1. Handled /\ Cached /\ UnprovenIsUnremarkable /\ Ordered
      BY DEF FreshInv, PayInv
    <2>2. book' = book /\ cache' = cache /\ balance' = balance /\ plan' = plan
      BY Zenon DEF ResolveTarget, CallFails, Assess, ReadStats, Timeout, CheckProof
    <2>3. Len(book) \in Nat /\ request[r].asOf \in Nat
      BY DEF Typed, RequestState
    <2> QED
      BY <2>1, <2>2, <2>3
  <1>1. Cached' /\ UnprovenIsUnremarkable'
    BY <1>0, CachedSame DEF UnprovenIsUnremarkable
  <1>2. /\ {"assess", "create", "proof", "done"} \subseteq Steps
        /\ {"refused", "error"} \subseteq Tolds /\ Unknown \in Int
        /\ request[r].asOf <= Len(book)
        /\ request[r].asOf = Len(book) => UpToDate(r)
    BY <1>0, MoneyType DEF Steps, Tolds, Handled
  <1>3. ASSUME NEW told \in {"refused", "error"}, Answer(r, told, Unknown), create' = create,
               request[r].pc \notin {"create", "done"}
        PROVE  Handled'
    <2>1. create[r] # "unproven"
      BY <1>0, <1>3 DEF Ordered, Created
    <2>2. Others(r) /\ request'[r].pc = "done" /\ request'[r].asOf = 0
      BY <1>2, <1>3, AnswerStep
    <2> QED
      BY <1>0, <1>3, <2>1, <2>2, HandledFrame
  <1>4. ASSUME Step(r, "assess"), create' = create, request[r].pc = "target" PROVE Handled'
    <2>1. create[r] # "unproven"
      BY <1>0, <1>4 DEF Ordered, Created
    <2>2. Others(r) /\ request'[r].pc = "assess" /\ request'[r].asOf = request[r].asOf
      BY <1>2, <1>4, StepStep
    <2> QED
      BY <1>0, <1>2, <1>4, <2>1, <2>2, HandledFrame
  <1>5. ASSUME ResolveTarget(r) PROVE Handled'
    BY <1>3, <1>4, <1>5 DEF ResolveTarget
  <1>6. ASSUME Assess(r) PROVE Handled'
    <2>0. create' = create /\ request[r].pc = "assess"
      BY <1>6 DEF Assess
    <2>1. CASE Amount(r) > 0
      <3>1. create[r] # "unproven"
        BY <1>0, <2>0 DEF Ordered, Created
      <3>2. /\ Others(r) /\ request'[r].pc = "stats" /\ request'[r].balance = balance
            /\ request'[r].asOf = Len(book)
        BY <1>6, <2>1, AssessStep
      <3> QED
        BY <1>0, <2>0, <3>1, <3>2, HandledFrame
    <2>2. CASE ~(Amount(r) > 0)
      BY <1>3, <1>6, <2>0, <2>2 DEF Assess
    <2> QED
      BY <2>1, <2>2
  <1>7. ASSUME ReadStats(r) PROVE Handled'
    <2>0. create' = create /\ request[r].pc = "stats"
      BY <1>7 DEF ReadStats
    <2>1. create[r] # "unproven"
      BY <1>0, <2>0 DEF Ordered, Created
    <2>2. /\ Others(r) /\ request'[r].pc = "score" /\ request'[r].balance = request[r].balance
          /\ \/ \E i \in 1 .. Len(cache) :
                   /\ cache[i].dest = Dest(Kind(r)) /\ cache[i] \in CacheEntry(S)
                   /\ request'[r].stats = cache[i].stats
                   /\ request'[r].asOf = Earlier(request[r].asOf, cache[i].asOf)
             \/ /\ request'[r].stats = QueriedStats(Dest(Kind(r)))
                /\ request'[r].asOf = request[r].asOf
      BY <1>7, ReadStep
    <2>3. /\ request'[r].asOf <= Len(book)
          /\ request'[r].asOf = Len(book) =>
                /\ request[r].asOf = Len(book)
                /\ request'[r].stats = QueriedStats(Dest(Kind(r)))
      <3>1. ASSUME NEW i \in 1 .. Len(cache),
                   cache[i].dest = Dest(Kind(r)), cache[i] \in CacheEntry(S),
                   request'[r].stats = cache[i].stats,
                   request'[r].asOf = Earlier(request[r].asOf, cache[i].asOf)
            PROVE  /\ request'[r].asOf <= Len(book)
                   /\ request'[r].asOf = Len(book) =>
                         /\ request[r].asOf = Len(book)
                         /\ request'[r].stats = QueriedStats(Dest(Kind(r)))
        <4>1. cache[i].asOf \in Nat /\ cache[i].asOf <= Len(book)
          BY <1>0, <3>1 DEF CacheEntry, Cached
        <4>2. /\ request'[r].asOf <= Len(book)
              /\ request'[r].asOf = Len(book) =>
                    request[r].asOf = Len(book) /\ cache[i].asOf = Len(book)
          BY <1>0, <1>2, <3>1, <4>1 DEF Earlier
        <4>3. cache[i].asOf = Len(book) => cache[i].stats = QueriedStats(cache[i].dest)
          BY <1>0 DEF Cached
        <4> QED
          BY <3>1, <4>2, <4>3, Zenon
      <3> QED
        BY <1>2, <2>2, <3>1
    <2>4. request'[r].asOf = Len(book) => request'[r].balance = balance
      BY <1>2, <2>0, <2>2, <2>3 DEF UpToDate
    <2> QED
      BY <1>0, <2>0, <2>1, <2>2, <2>3, <2>4, HandledFrame, SMTT(60)
  <1>8. ASSUME Timeout(r) PROVE Handled'
    <2>1. create' = create
      BY <1>8 DEF Timeout
    <2>2. /\ Others(r) /\ request'[r].asOf = request[r].asOf
          /\ \/ request'[r].pc = "done"
             \/ /\ request'[r].pc = request[r].pc
                /\ request'[r].balance = request[r].balance
                /\ request'[r].stats = request[r].stats
      BY <1>8, TimeoutStep
    <2> QED
      BY <1>0, <1>2, <2>1, <2>2, HandledFrame DEF UpToDate
  <1>9. ASSUME NEW proof \in Proofs, NEW answered \in BOOLEAN, CheckProof(r, proof, answered)
        PROVE  Handled'
    <2>0. request[r].pc = "proof"
      BY <1>9 DEF CheckProof
    <2>1. CASE Step(r, "create") /\ create' = [create EXCEPT ![r] = "proven"]
      <3>1. Others(r) /\ request'[r].pc = "create" /\ request'[r].asOf = request[r].asOf
        BY <1>2, <2>1, StepStep
      <3>2. create'[r] = "proven" /\ \A q \in Requests : q # r => create'[q] = create[q]
        BY <2>1 DEF Typed
      <3> QED
        BY <1>0, <1>2, <3>1, <3>2, HandledFrame
    <2>2. CASE Answer(r, "refused", Unknown) /\ create' = create
      BY <1>3, <2>0, <2>2
    <2> QED
      BY <1>9, <2>1, <2>2 DEF CheckProof
  <1>10. ASSUME CallFails(r) PROVE Handled'
    BY <1>3, <1>10 DEF CallFails
  <1> QED
    BY <1>1, <1>5, <1>6, <1>7, <1>8, <1>9, <1>10

\* The end of the assessment: what is cached and what goes ahead without proof.
LEMMA ScoreFresh ==
    ASSUME NEW S, Typed(S), FreshInv, NEW r \in Requests, NEW verdict \in Verdicts,
           Score(r, verdict)
    PROVE  Handled' /\ Cached' /\ UnprovenIsUnremarkable'
  <1>0. Handled /\ Cached /\ UnprovenIsUnremarkable /\ Ordered
    BY DEF FreshInv, PayInv
  <1>1. /\ book' = book /\ balance' = balance /\ plan' = plan /\ request[r].pc = "score"
    BY Zenon DEF Score
  <1>2. /\ Len(book) \in Nat /\ request[r].asOf \in Nat /\ request[r].stats \in S
        /\ Dest(Kind(r)) \in Dests /\ {"create", "proof", "done"} \subseteq Steps
    <2>1. Len(book) \in Nat /\ request[r].asOf \in Nat /\ request[r].stats \in S
      BY DEF Typed, RequestState
    <2> QED
      BY <2>1, PlanType DEF Steps
  <1>3. /\ request[r].asOf <= Len(book)
        /\ request[r].asOf = Len(book) =>
              /\ request[r].balance = balance
              /\ request[r].stats = QueriedStats(Dest(Kind(r)))
    BY <1>0, <1>1 DEF Handled, UpToDate
  <1>4. create[r] # "unproven"
    BY <1>0, <1>1 DEF Ordered, Created
  <1>5. UnprovenIsUnremarkable'
    BY <1>0, <1>1 DEF UnprovenIsUnremarkable
  <1>6. Cached'
    <2>1. CASE request[r].missed
      <3>1. CacheStats(Dest(Kind(r)), request[r].stats, request[r].asOf)
        BY <2>1 DEF Score
      <3> QED
        BY <1>0, <1>1, <1>2, <1>3, <3>1, CachedFrame
    <2>2. CASE ~request[r].missed
      <3>1. cache' = cache
        BY <2>2 DEF Score
      <3> QED
        BY <1>0, <1>1, <3>1, CachedSame
    <2> QED
      BY <2>1, <2>2
  <1>7. ASSUME NEW pc \in {"done", "proof"}, Assessed(r, pc), create' = create PROVE Handled'
    <2>1. Others(r) /\ request'[r].pc = pc /\ request'[r].asOf = request[r].asOf
      BY <1>2, <1>7, AssessedStep
    <2> QED
      BY <1>0, <1>1, <1>3, <1>4, <1>7, <2>1, HandledFrame
  <1>8. ASSUME ~RequiresStepUp(verdict, Remarkable(Amount(r), request[r].balance, request[r].stats)),
               Assessed(r, "create"), create' = [create EXCEPT ![r] = "unproven"]
        PROVE  Handled'
    <2>1. Others(r) /\ request'[r].pc = "create" /\ request'[r].asOf = request[r].asOf
      BY <1>2, <1>8, AssessedStep
    <2>2. create'[r] = "unproven" /\ \A q \in Requests : q # r => create'[q] = create[q]
      BY <1>8 DEF Typed
    <2>3. ~Remarkable(Amount(r), request[r].balance, request[r].stats)
      BY <1>8, Zenon DEF RequiresStepUp
    <2>4. request[r].asOf = Len(book) =>
             ~Remarkable(Amount(r), balance, QueriedStats(Dest(Kind(r))))
      BY <1>3, <2>3, Zenon
    <2> QED
      BY <1>0, <1>1, <1>3, <2>1, <2>2, <2>4, HandledFrame
  <1>9. Handled'
    BY <1>7, <1>8, Zenon DEF Score
  <1> QED
    BY <1>5, <1>6, <1>9

\* Nothing of the handlers, the calls, the book or the wallet changes.
LEMMA HandledSame ==
    ASSUME Handled, request' = request, create' = create, book' = book, balance' = balance,
           plan' = plan
    PROVE  Handled'
  <1> SUFFICES ASSUME NEW q \in Requests
               PROVE  /\ request[q].asOf <= Len(book)
                      /\ request[q].asOf = Len(book) => UpToDate(q)'
    BY DEF Handled
  <1>1. request[q].asOf <= Len(book) /\ (request[q].asOf = Len(book) => UpToDate(q))
    BY DEF Handled
  <1>2. UpToDate(q) => UpToDate(q)'
    BY SameRules, Zenon DEF UpToDate
  <1> QED
    BY <1>1, <1>2

\* Steps at the cache alone, and the funding source.
LEMMA CacheFresh ==
    ASSUME NEW S, Typed(S), FreshInv,
           \/ (\E dest \in {"wallet", "account"} : Preview(dest))
           \/ CreateFundingSource \/ (\E i \in 1 .. Len(cache) : CacheExpires(i))
    PROVE  Handled' /\ Cached' /\ UnprovenIsUnremarkable'
  <1> USE DEF service
  <1>0. Handled /\ Cached /\ UnprovenIsUnremarkable
    BY DEF FreshInv
  <1>1. /\ request' = request /\ create' = create /\ book' = book /\ balance' = balance
        /\ plan' = plan
    BY Zenon DEF Preview, CreateFundingSource, CacheExpires
  <1>2. Handled' /\ UnprovenIsUnremarkable'
    BY <1>0, <1>1, HandledSame DEF UnprovenIsUnremarkable
  <1>3. ASSUME NEW dest \in {"wallet", "account"}, Preview(dest)
        PROVE  Handled' /\ Cached' /\ UnprovenIsUnremarkable'
    <2>1. PICK T : T = More(S)
      OBVIOUS
    <2>2. /\ Typed(T) /\ QueriedStats(dest) \in T /\ Len(book) \in Nat /\ dest \in Dests
      BY <2>1, MoreStats DEF Dests, Typed
    <2>3. Len(book) <= Len(book)
      BY <2>2
    <2>4. CacheStats(dest, QueriedStats(dest), Len(book))
      BY <1>3 DEF Preview
    <2>5. Cached'
      BY <1>0, <1>1, <2>2, <2>3, <2>4, CachedFrame
    <2> QED
      BY <1>2, <2>5
  <1>4. CASE CreateFundingSource
    <2>1. cache' = cache
      BY <1>4 DEF CreateFundingSource
    <2> QED
      BY <1>0, <1>1, <1>2, <2>1, CachedSame
  <1>5. ASSUME NEW i \in 1 .. Len(cache), CacheExpires(i) PROVE Cached'
    <2>1. Len(cache') = Len(cache) /\ Len(cache) \in Nat
      BY <1>5, ExceptSeq DEF CacheExpires, Typed
    <2>2. ASSUME NEW j \in 1 .. Len(cache)
          PROVE  /\ cache'[j].asOf = cache[j].asOf /\ cache'[j].stats = cache[j].stats
                 /\ cache'[j].dest = cache[j].dest
      <3>1. cache[j] \in CacheEntry(S) /\ cache' = [cache EXCEPT ![i].fresh = FALSE]
        BY <1>5 DEF CacheExpires, Typed
      <3> QED
        BY <3>1, SMTT(60) DEF CacheEntry, Typed
    <2> SUFFICES ASSUME NEW j \in 1 .. Len(cache)
                 PROVE  /\ cache'[j].asOf <= Len(book)
                        /\ cache'[j].asOf = Len(book) =>
                              cache'[j].stats = QueriedStats(cache[j].dest)'
      BY <1>1, <2>1 DEF Cached
    <2>3. QueriedStats(cache[j].dest)' = QueriedStats(cache[j].dest)
      <3>1. PICK d : d = cache[j].dest
        OBVIOUS
      <3>2. QueriedStats(d)' = QueriedStats(d) /\ d = (cache[j].dest)'
        BY <1>1, <2>2, <3>1, SameStats
      <3> QED
        BY <3>1, <3>2, Zenon
    <2> QED
      BY <1>0, <2>2, <2>3 DEF Cached
  <1> QED
    BY <1>2, <1>3, <1>4, <1>5

\* A new attempt has nothing assessed or created yet.
LEMMA SendFresh ==
    ASSUME NEW S, Typed(S), FreshInv, NEW p \in Payments, Send(p)
    PROVE  Handled' /\ Cached' /\ UnprovenIsUnremarkable'
  <1> USE DEF service
  <1> DEFINE r == <<p, client[p].attempt + 1>>
  <1>0. Handled /\ Cached /\ UnprovenIsUnremarkable /\ Ordered
    BY DEF FreshInv, PayInv
  <1>1. /\ create' = create /\ book' = book /\ balance' = balance /\ plan' = plan
        /\ cache' = cache
    BY DEF Send
  <1>2. Cached' /\ UnprovenIsUnremarkable'
    BY <1>0, <1>1, CachedSame DEF UnprovenIsUnremarkable
  <1>3. /\ Others(r)
        /\ r \in Requests => /\ request'[r].pc \in {"assess", "target"}
                             /\ request'[r].asOf = request[r].asOf
    BY SendStep
  <1>4. ASSUME r \in Requests PROVE create[r] # "unproven" /\ request[r].asOf <= Len(book)
    <2>1. client[p].attempt \in Nat /\ r[1] = p /\ r[2] = client[p].attempt + 1
      BY DEF Typed, ClientState
    <2>2. request[r].pc = "none"
      BY <1>0, <1>4, <2>1 DEF Ordered
    <2> QED
      BY <1>0, <1>4, <2>2 DEF Ordered, Created, Handled
  <1> HIDE DEF r
  <1>5. Handled'
    BY <1>0, <1>1, <1>3, <1>4, HandledFrame
  <1> QED
    BY <1>2, <1>5

\* An answer of the service that leaves the book alone.
LEMMA AnsweredFresh ==
    ASSUME NEW S, Typed(S), FreshInv, NEW r \in Requests, NEW told \in Tolds, NEW shown \in Int,
           Reply(r, told, shown), create' = [create EXCEPT ![r] = "done"],
           book' = book, balance' = balance, plan' = plan, cache' = cache
    PROVE  Handled' /\ Cached' /\ UnprovenIsUnremarkable'
  <1>0. Handled /\ Cached /\ UnprovenIsUnremarkable
    BY DEF FreshInv
  <1>1. Cached' /\ UnprovenIsUnremarkable'
    BY <1>0, CachedSame DEF UnprovenIsUnremarkable
  <1>2. create'[r] = "done" /\ \A q \in Requests : q # r => create'[q] = create[q]
    BY DEF Typed
  <1>3. /\ Len(book) \in Nat /\ request[r].asOf <= Len(book)
        /\ request[r].asOf = Len(book) => UpToDate(r)
    BY <1>0 DEF Handled, Typed
  <1>4. CASE request[r].pc = "create"
    <2>1. Others(r) /\ request'[r].pc = "done" /\ request'[r].asOf = 0
      BY <1>4, AnswerStep DEF Reply
    <2>2. Handled'
      BY <1>0, <1>2, <1>3, <2>1, HandledFrame
    <2> QED
      BY <1>1, <2>2
  <1>5. CASE request[r].pc # "create"
    <2>1. request' = request
      BY <1>5 DEF Reply
    <2>2. Others(r)
      BY <2>1 DEF Others
    <2>3. Handled'
      BY <1>0, <1>2, <1>3, <2>1, <2>2, HandledFrame DEF UpToDate
    <2> QED
      BY <1>1, <2>3
  <1> QED
    BY <1>4, <1>5

\* A transaction is added: nobody's reading is up to date any more, and the
\* one it was made on was, or is marked stale.
LEMMA AddedFresh ==
    ASSUME NEW S, Typed(S), FreshInv, NEW r \in Requests, NEW fails \in BOOLEAN,
           NEW told \in Tolds, NEW shown \in Int, Reply(r, told, shown),
           create[r] \in {"unproven", "proven"}, NEW taken \in Int,
           book' = Append(book, NewTransaction(r, fails, taken)), cache' = cache
    PROVE  Handled' /\ Cached' /\ UnprovenIsUnremarkable'
  <1>0. Handled /\ Cached /\ UnprovenIsUnremarkable
    BY DEF FreshInv
  <1>1. /\ Len(book) \in Nat /\ Len(book') = Len(book) + 1
        /\ \A i \in 1 .. Len(book) : book'[i] = book[i]
        /\ book'[Len(book) + 1] = NewTransaction(r, fails, taken)
    BY BookGrows
  <1>2. Handled'
    <2> SUFFICES ASSUME NEW q \in Requests PROVE request'[q].asOf \in Nat /\ request'[q].asOf <= Len(book)
      BY <1>1 DEF Handled
    <2>1. request[q].asOf \in Nat /\ request[q].asOf <= Len(book)
      BY <1>0 DEF Handled, Typed, RequestState
    <2>2. request'[q] = request[q] \/ (q = r /\ request'[q].asOf = 0)
      BY AnswerStep DEF Reply, Others
    <2> QED
      BY <1>1, <2>1, <2>2
  <1>3. Cached'
    <2> SUFFICES ASSUME NEW i \in 1 .. Len(cache) PROVE cache[i].asOf \in Nat /\ cache[i].asOf <= Len(book)
      BY <1>1 DEF Cached
    <2>1. cache[i] \in CacheEntry(S)
      BY DEF Typed
    <2> QED
      BY <1>0, <2>1 DEF Cached, CacheEntry
  <1>4. UnprovenIsUnremarkable'
    <2> SUFFICES ASSUME NEW i \in 1 .. Len(book'), ~book'[i].proven, book'[i].remarkable
                 PROVE  book'[i].stale
      BY DEF UnprovenIsUnremarkable
    <2>1. CASE i \in 1 .. Len(book)
      BY <1>0, <1>1, <2>1 DEF UnprovenIsUnremarkable
    <2>2. CASE i = Len(book) + 1
      <3> DEFINE n == NewTransaction(r, fails, taken)
      <3>1. /\ n.proven <=> create[r] = "proven"
            /\ n.remarkable <=> Remarkable(Amount(r), balance, QueriedStats(Dest(Kind(r))))
            /\ n.stale <=> request[r].asOf < Len(book)
        BY NewTransactionType
      <3>2. book'[i] = n
        BY <1>1, <2>2
      <3> HIDE DEF n
      <3>3. create[r] = "unproven" /\ Remarkable(Amount(r), balance, QueriedStats(Dest(Kind(r))))
        BY <3>1, <3>2
      <3>4. request[r].asOf \in Nat /\ request[r].asOf <= Len(book) /\ request[r].asOf # Len(book)
        BY <1>0, <3>3 DEF Handled, UpToDate, Typed, RequestState
      <3>5. request[r].asOf < Len(book)
        BY <1>1, <3>4
      <3> QED
        BY <3>1, <3>2, <3>5
    <2> QED
      BY <1>1, <2>1, <2>2
  <1> QED
    BY <1>2, <1>3, <1>4

\* Every step keeps the invariant.
LEMMA FreshStep == ASSUME FreshInv, [Next]_vars PROVE FreshInv'
  <1>0. PayInv' /\ Handled /\ Cached /\ UnprovenIsUnremarkable
    BY PayStep DEF FreshInv
  <1> DEFINE Rest == Handled /\ Cached /\ UnprovenIsUnremarkable
  <1> SUFFICES Rest'
    BY <1>0 DEF FreshInv
  <1> PICK S : Typed(S)
    BY DEF FreshInv, PayInv, GatewayType
  <1>1. ASSUME NEW p \in Payments, Send(p) PROVE Rest'
    BY <1>1, SendFresh
  <1>2. ASSUME NEW r \in Requests,
               \/ ResolveTarget(r) \/ CallFails(r) \/ Assess(r) \/ ReadStats(r) \/ Timeout(r)
               \/ \E proof \in Proofs, answered \in BOOLEAN : CheckProof(r, proof, answered)
        PROVE  Rest'
    BY <1>2, HandlerFresh
  <1>3. ASSUME NEW r \in Requests, NEW verdict \in Verdicts, Score(r, verdict) PROVE Rest'
    BY <1>3, ScoreFresh
  <1>4. ASSUME NEW r \in Requests, ExecuteExisting(r) PROVE Rest'
    <2>1. PICK told \in Tolds, shown \in Int : Reply(r, told, shown)
      <3>1. {"failed", "accepted"} \subseteq Tolds /\ Int64ToNumber(balance) \in Int
        BY MoneyType DEF Tolds, Typed
      <3>2. \/ Reply(r, "failed", Int64ToNumber(balance))
            \/ Reply(r, "accepted", Int64ToNumber(balance))
        BY <1>4, Zenon DEF ExecuteExisting
      <3> QED
        BY <3>1, <3>2
    <2>2. /\ create' = [create EXCEPT ![r] = "done"]
          /\ book' = book /\ balance' = balance /\ plan' = plan /\ cache' = cache
      BY <1>4 DEF ExecuteExisting
    <2> QED
      BY <2>1, <2>2, AnsweredFresh
  <1>5. ASSUME NEW r \in Requests, NEW fails \in BOOLEAN, NEW answered \in BOOLEAN,
               Execute(r, fails, answered)
        PROVE  Rest'
    <2>1. /\ create' = [create EXCEPT ![r] = "done"] /\ create[r] \in {"unproven", "proven"}
          /\ plan' = plan /\ cache' = cache
      BY <1>5 DEF Execute
    <2>2. /\ {"failed", "accepted", "refused", "error"} \subseteq Tolds
          /\ Unknown \in Int /\ \A b \in Int : Int64ToNumber(b) \in Int
      BY MoneyType DEF Tolds
    <2>3. ASSUME NEW taken \in Int, book' = Append(book, NewTransaction(r, fails, taken)),
                 NEW told \in Tolds, NEW shown \in Int, Reply(r, told, shown)
          PROVE  Rest'
      BY <2>1, <2>3, AddedFresh
    <2>4. ASSUME book' = book, balance' = balance, NEW shown \in Int, Reply(r, "refused", shown)
          PROVE  Rest'
      BY <2>1, <2>2, <2>4, AnsweredFresh
    <2>5. ASSUME NEW taken \in Int, book' = Append(book, NewTransaction(r, fails, taken)),
                 balance' \in Int,
                 \/ Reply(r, IF fails THEN "failed" ELSE "accepted", Int64ToNumber(balance'))
                 \/ Reply(r, "error", Unknown)
          PROVE  Rest'
      <3>1. PICK told \in Tolds, shown \in Int : Reply(r, told, shown)
        BY <2>2, <2>5
      <3> QED
        BY <2>3, <2>5, <3>1
    <2> HIDE DEF Rest
    <2> QED
      BY <1>5, <2>2, <2>4, <2>5, ExecuteStep
  <1>8. ASSUME NEW r \in Requests, CreateFails(r) PROVE Rest'
    <2>1. /\ create' = [create EXCEPT ![r] = "done"] /\ Reply(r, "error", Unknown)
          /\ book' = book /\ balance' = balance /\ plan' = plan /\ cache' = cache
      BY <1>8 DEF CreateFails
    <2>2. "error" \in Tolds /\ Unknown \in Int
      BY MoneyType DEF Tolds
    <2> QED
      BY <2>1, <2>2, AnsweredFresh
  <1>6. ASSUME \/ (\E dest \in {"wallet", "account"} : Preview(dest))
               \/ CreateFundingSource \/ (\E i \in 1 .. Len(cache) : CacheExpires(i))
        PROVE  Rest'
    BY <1>6, CacheFresh
  <1>7. ASSUME UNCHANGED vars PROVE Rest'
    <2>1. /\ request' = request /\ create' = create /\ book' = book /\ balance' = balance
          /\ plan' = plan /\ cache' = cache
      BY <1>7 DEF vars
    <2> QED
      BY <1>0, <2>1, HandledSame, CachedSame DEF UnprovenIsUnremarkable
  <1> HIDE DEF Rest
  <1> QED
    BY <1>1, <1>2, <1>3, <1>4, <1>5, <1>6, <1>7, <1>8 DEF Next

\* No book, no cache and no handler at the start.
LEMMA InitFresh == Init => FreshInv
  <1> SUFFICES ASSUME Init PROVE FreshInv
    OBVIOUS
  <1>1. Handled
    <2> SUFFICES ASSUME NEW r \in Requests PROVE request[r].asOf = 0 /\ Len(book) = 0 /\ UpToDate(r)
      BY DEF Handled
    <2>1. request[r].pc = "none" /\ request[r].asOf = 0 /\ create[r] = "none"
      BY DEF Init, NoRequest
    <2> QED
      BY <2>1 DEF UpToDate, Init
  <1>2. Cached /\ UnprovenIsUnremarkable
    BY DEF Cached, UnprovenIsUnremarkable, Init
  <1> QED
    BY <1>1, <1>2, InitPay DEF FreshInv

\* A payment made without step-up was below every rule on the balance and the
\* statistics at the moment it was made, unless another was made after its
\* assessment read them.
THEOREM UnprovenPaymentsAreOrdinary == Spec => []UnprovenIsUnremarkable
  <1>1. FreshInv => UnprovenIsUnremarkable
    BY DEF FreshInv
  <1> QED
    BY <1>1, InitFresh, FreshStep, PTL DEF Spec

(***************************************************************************)
(* The partner adapter.                                                    *)
(***************************************************************************)

-----------------------------------------------------------------------------
(* Words and texts.                                                        *)

\* The symbols of the tables.
Symbols == { "FAIL", "ED", "ERROR", "REJECT", "CANCEL", "DENY", "DECLINED", "SUCCESS",
             "SUCCEEDED", "SETTLED", "COMPLETED", "DONE", "PENDING", "PROCESSING",
             "SUBMITTED", "QUEUED", "ACCEPTED", "APPROVED",
             "0", "1", "2", "3", "4", "5", "9" }

Words == Seq(Symbols) \ {<<>>}

\* Sequences of one to three symbols.
LEMMA ShortWords ==
    ASSUME NEW S, NEW a \in S, NEW b \in S, NEW c \in S
    PROVE  { <<a>>, <<a, b>>, <<a, b, c>> } \subseteq Seq(S) \ {<<>>}
<1>1. <<a>> \in Seq(S) /\ <<a>> # <<>>
  OBVIOUS
<1>2. <<a, b>> \in Seq(S) /\ <<a, b>> # <<>>
  OBVIOUS
<1>3. <<a, b, c>> \in Seq(S) /\ <<a, b, c>> # <<>>
  OBVIOUS
<1> QED BY <1>1, <1>2, <1>3

\* A word for a success or for a pending transfer.
KindWords == SuccessWords \cup PendingWords \cup
    { <<"0">>, <<"0", "0">>, <<"2", "0", "0">>, <<"APPROVED">>, <<"1">>,
      <<"1", "0", "2">>, <<"2", "0", "2">>, <<"0", "9">>, <<"2">> }

\* The words of the tables are texts.
LEMMA SymbolWords ==
    ASSUME NEW S, Symbols \subseteq S
    PROVE  /\ FailedWords \subseteq Seq(S) \ {<<>>}
           /\ KindWords \subseteq Seq(S) \ {<<>>}
<1> DEFINE W == Seq(S) \ {<<>>}
<1>1. /\ \A a \in S : <<a>> \in W
      /\ \A a, b \in S : <<a, b>> \in W
      /\ \A a, b, c \in S : <<a, b, c>> \in W
  BY ShortWords
<1> HIDE DEF W
<1>2. FailedWords \subseteq W
  <2>1. { <<"FAIL">>, <<"FAIL", "ED">>, <<"ERROR">>, <<"REJECT">>, <<"CANCEL">>,
          <<"DENY">>, <<"DECLINED">> } \subseteq W
    BY <1>1 DEF Symbols
  <2>2. { <<"4", "0", "0">>, <<"4", "0", "1">>, <<"4", "0", "3">>, <<"4", "0", "4">>,
          <<"4", "2", "9">>, <<"5", "0", "0">> } \subseteq W
    BY <1>1 DEF Symbols
  <2>3. ASSUME NEW w \in FailedWords PROVE w \in W
    BY <2>1, <2>2 DEF FailedWords
  <2> QED BY <2>3
<1>3. KindWords \subseteq W
  BY <1>1 DEF KindWords, SuccessWords, PendingWords, Symbols
<1> QED BY <1>2, <1>3 DEF W

\* The words of the tables are texts of these symbols.
LEMMA WordsAreTexts == FailedWords \subseteq Words /\ KindWords \subseteq Words
BY SymbolWords DEF Words

\* A text that holds a word holds its first symbol.
LEMMA IncludesFirst ==
    ASSUME NEW text \in Seq(Symbols), NEW part \in Words, Includes(text, part)
    PROVE  \E j \in DOMAIN text : text[j] = part[1]
<1>1. Len(part) \in Nat /\ Len(part) > 0 /\ Len(text) \in Nat
  BY DEF Words
<1>2. PICK i \in 0 .. Len(text) - Len(part) :
         SubSeq(text, i + 1, i + Len(part)) = part
  BY DEF Includes
<1>3. i + 1 \in 1 .. Len(text) /\ i \in Nat /\ 1 \in 1 .. Len(part)
  BY <1>1, <1>2
<1>4. SubSeq(text, i + 1, i + Len(part))[1] = text[i + 1]
  BY <1>1, <1>2, <1>3
<1> QED BY <1>2, <1>3, <1>4

\* A text holds itself.
LEMMA IncludesItself ==
    ASSUME NEW text \in Seq(Symbols)
    PROVE  Includes(text, text)
<1>1. SubSeq(text, 1, Len(text)) = text /\ Len(text) \in Nat
  OBVIOUS
<1>2. 0 \in 0 .. Len(text) - Len(text)
  BY <1>1
<1>3. SubSeq(text, 0 + 1, 0 + Len(text)) = text
  BY <1>1
<1> QED BY <1>2, <1>3 DEF Includes

\* The empty text holds no word.
LEMMA NothingInNothing ==
    ASSUME NEW tokens \in SUBSET Words
    PROVE  ~matchesAnyToken(<<>>, tokens)
<1> SUFFICES ASSUME NEW part \in tokens, Includes(<<>>, part) PROVE FALSE
  BY DEF matchesAnyToken
<1>1. Len(part) \in Nat /\ Len(part) > 0
  BY DEF Words
<1>2. 0 .. Len(<<>>) - Len(part) = {}
  BY <1>1
<1> QED BY <1>2 DEF Includes

\* What a word of failure begins with, and no other word of the tables holds.
Marks == {"FAIL", "ERROR", "REJECT", "CANCEL", "DENY", "DECLINED", "4", "5"}

\* Every word for a failure begins with a mark.
LEMMA FailedWordsMarked ==
    FailedWords \subseteq Words /\ \A part \in FailedWords : part[1] \in Marks
<1>1. \A part \in FailedWords : part[1] \in Marks
  BY DEF FailedWords, Marks
<1> QED BY <1>1, WordsAreTexts

\* The words a partner's tables add.
OwnSuccess(code) ==
    CASE code = "MOMO" -> {<<"0">>, <<"0", "0">>}
      [] code \in Banks -> {<<"0">>, <<"0", "0">>, <<"2", "0", "0">>, <<"APPROVED">>}
      [] code = "VNPAY" -> {<<"0", "0">>}
      [] OTHER -> {<<"1">>}
OwnPending(code) ==
    CASE code = "MOMO" -> {<<"1">>}
      [] code \in Banks -> {<<"1", "0", "2">>, <<"2", "0", "2">>}
      [] code = "VNPAY" -> {<<"0", "9">>}
      [] OTHER -> {<<"2">>}

\* The tables of a partner: the common words and its own.
LEMMA Tables ==
    ASSUME NEW code \in PartnerCodes
    PROVE  /\ defaultFieldMappingFor(code).failedTokens = FailedWords
           /\ defaultFieldMappingFor(code).successTokens = SuccessWords \cup OwnSuccess(code)
           /\ defaultFieldMappingFor(code).pendingTokens = PendingWords \cup OwnPending(code)
<1>1. CASE code = "MOMO"
  BY <1>1 DEF defaultFieldMappingFor, Banks, OwnSuccess, OwnPending
<1>2. CASE code \in Banks
  BY <1>2 DEF defaultFieldMappingFor, Banks, OwnSuccess, OwnPending
<1>3. CASE code = "VNPAY"
  BY <1>3 DEF defaultFieldMappingFor, Banks, OwnSuccess, OwnPending
<1>4. CASE code = "ZALOPAY"
  BY <1>4 DEF defaultFieldMappingFor, Banks, OwnSuccess, OwnPending
<1> QED BY <1>1, <1>2, <1>3, <1>4 DEF PartnerCodes, Banks

\* No other word of the tables holds a mark.
LEMMA KindWordsUnmarked ==
    KindWords \subseteq Words /\ \A w \in KindWords : \A j \in DOMAIN w : w[j] \notin Marks
<1>1. KindWords \subseteq Words
  BY WordsAreTexts
<1>2. \A w \in SuccessWords \cup PendingWords : \A j \in DOMAIN w : w[j] \notin Marks
  BY DEF SuccessWords, PendingWords, Marks
<1>3. \A w \in KindWords \ (SuccessWords \cup PendingWords) : \A j \in DOMAIN w : w[j] \notin Marks
  BY DEF KindWords, Marks
<1> QED BY <1>1, <1>2, <1>3

\* No word stands both for a success and for a pending transfer.
LEMMA TablesApart ==
    ASSUME NEW code \in PartnerCodes
    PROVE  LET mapping == defaultFieldMappingFor(code) IN
           /\ mapping.successTokens \subseteq KindWords
           /\ mapping.pendingTokens \subseteq KindWords
           /\ mapping.successTokens \cap mapping.pendingTokens = {}
<1> DEFINE mapping == defaultFieldMappingFor(code)
<1>1. mapping.successTokens \subseteq KindWords /\ mapping.pendingTokens \subseteq KindWords
  BY Tables DEF KindWords, OwnSuccess, OwnPending
<1>2. mapping.successTokens \cap mapping.pendingTokens = {}
  BY Tables DEF OwnSuccess, OwnPending, PartnerCodes, Banks, SuccessWords, PendingWords
<1> QED BY <1>1, <1>2

\* No word for a success or a pending transfer is read as a failure.
LEMMA KindWordsNotFailed ==
    ASSUME NEW w \in KindWords
    PROVE  ~matchesAnyToken(w, FailedWords)
<1> SUFFICES ASSUME NEW part \in FailedWords, Includes(w, part) PROVE FALSE
  BY DEF matchesAnyToken
<1>1. w \in Seq(Symbols) /\ part \in Words /\ part[1] \in Marks
  BY KindWordsUnmarked, FailedWordsMarked DEF Words
<1>2. \E j \in DOMAIN w : w[j] = part[1]
  BY <1>1, IncludesFirst
<1> QED BY <1>1, <1>2, KindWordsUnmarked

\* A word of a table is found there.
LEMMA WordsMatch ==
    ASSUME NEW tokens \in SUBSET Seq(Symbols), NEW w \in tokens
    PROVE  matchesAnyToken(w, tokens)
BY IncludesItself DEF matchesAnyToken

-----------------------------------------------------------------------------
(* What is read from a body.                                               *)

\* The first path of a list that is in a set is in it.
LEMMA FirstInIsIn ==
    ASSUME NEW S, NEW paths \in Seq(S), NEW good \in SUBSET Range(paths), good # {}
    PROVE  FirstIn(paths, good) \in good
<1> DEFINE D == {i \in DOMAIN paths : paths[i] \in good}
<1>1. D \in SUBSET Nat /\ D # {}
  BY DEF Range
<1>2. PICK n \in D : \A j \in D : ~(<<j, n>> \in OpToRel(<, Nat))
  <2> HIDE DEF D
  <2> QED BY <1>1, NatLessThanWellFounded, WFMin
<1>3. \A j \in 1 .. n - 1 : paths[j] \notin good
  <2> SUFFICES ASSUME NEW j \in 1 .. n - 1, paths[j] \in good PROVE FALSE
    OBVIOUS
  <2>1. n \in 1 .. Len(paths) /\ Len(paths) \in Nat
    BY <1>1
  <2>2. j \in D /\ j \in Nat /\ n \in Nat /\ j < n
    BY <2>1
  <2>3. <<j, n>> \in OpToRel(<, Nat)
    BY <2>2 DEF OpToRel
  <2> QED BY <1>2, <2>2, <2>3, Zenon
<1>4. \E i \in DOMAIN paths : paths[i] \in good /\ \A j \in 1 .. i - 1 : paths[j] \notin good
  BY <1>2, <1>3
<1> QED BY <1>4, Zenon DEF FirstIn

\* What is read is one of the texts of the body, or nothing.
LEMMA PickedFromBody ==
    ASSUME NEW S, NEW paths \in Seq(S), NEW body
    PROVE  \/ pickString(body, paths) = <<>>
           \/ \E p \in DOMAIN body : pickString(body, paths) = body[p]
<1> DEFINE direct == Range(paths) \cap DOMAIN body
           deep   == {p \in Range(paths) : Len(p) = 1 /\ findByKeyDeep(body, p[1]) # {}}
<1>1. CASE direct # {}
  <2>1. FirstIn(paths, direct) \in direct
    BY <1>1, FirstInIsIn
  <2>2. pickString(body, paths) = body[FirstIn(paths, direct)]
    BY <1>1, Zenon DEF pickString
  <2> QED BY <2>1, <2>2, Zenon
<1>2. CASE direct = {} /\ deep # {}
  <2>1. FirstIn(paths, deep) \in deep
    BY <1>2, FirstInIsIn
  <2> DEFINE found == findByKeyDeep(body, FirstIn(paths, deep)[1])
  <2>2. found # {} /\ found \subseteq DOMAIN body
    BY <2>1 DEF findByKeyDeep
  <2>3. pickString(body, paths) = body[CHOOSE p \in found : TRUE]
    BY <1>2, Zenon DEF pickString
  <2>4. (CHOOSE p \in found : TRUE) \in found
    BY <2>2, Zenon
  <2> QED BY <2>2, <2>3, <2>4, Zenon
<1>3. CASE direct = {} /\ deep = {}
  BY <1>3, Zenon DEF pickString
<1> QED BY <1>1, <1>2, <1>3

\* The paths of a partner are a list.
LEMMA PathsAreListed ==
    ASSUME NEW code \in PartnerCodes
    PROVE  \E S : defaultFieldMappingFor(code).statusPaths \in Seq(S)
<1> DEFINE P == defaultFieldMappingFor(code).statusPaths
<1>1. StatusPaths \in Seq(Range(StatusPaths))
  BY DEF StatusPaths, Range
<1>2. PICK q : P = StatusPaths \o <<q>>
  <2>1. CASE code = "MOMO"
    BY <2>1 DEF defaultFieldMappingFor, Banks
  <2>2. CASE code \in Banks
    BY <2>2 DEF defaultFieldMappingFor, Banks
  <2>3. CASE code = "VNPAY"
    BY <2>3 DEF defaultFieldMappingFor, Banks
  <2>4. CASE code = "ZALOPAY"
    BY <2>4 DEF defaultFieldMappingFor, Banks
  <2> QED BY <2>1, <2>2, <2>3, <2>4 DEF PartnerCodes, Banks
<1>3. StatusPaths \in Seq(Range(StatusPaths) \cup {q}) /\ <<q>> \in Seq(Range(StatusPaths) \cup {q})
  BY <1>1
<1>4. P \in Seq(Range(StatusPaths) \cup {q})
  BY <1>2, <1>3
<1> QED BY <1>4

\* A body says one word, or an enveloped one and SUCCESS.
LEMMA BodySays ==
    ASSUME NEW code, NEW state, NEW body \in Bodies(code, state)
    PROVE  \E w \in Says(code, state) : \A p \in DOMAIN body :
              \/ body[p] = w
              \/ body[p] = <<"SUCCESS">> /\ Cardinality(DOMAIN body) > 1
<1> DEFINE words  == Says(code, state)
           places == {p \in Range(defaultFieldMappingFor(code).statusPaths) \cup
                             {<<"response", "status">>} : p[1] # "code"}
           plain  == {[p \in {place} |-> w] : w \in words, place \in places}
           double == {[p \in {<<"code">>, <<"data", "status">>} |->
                           IF p = <<"code">> THEN <<"SUCCESS">> ELSE w] : w \in words}
<1>0. Bodies(code, state) = plain \cup double
  BY DEF Bodies
<1>1. CASE body \in plain
  <2>1. PICK w \in words, place \in places : body = [p \in {place} |-> w]
    <3> HIDE DEF words, places
    <3> QED BY <1>1
  <2> HIDE DEF places
  <2> QED BY <2>1
<1>2. CASE body \in double
  <2>1. PICK w \in words :
             body = [p \in {<<"code">>, <<"data", "status">>} |->
                       IF p = <<"code">> THEN <<"SUCCESS">> ELSE w]
    <3> HIDE DEF words
    <3> QED BY <1>2
  <2>2. Cardinality(DOMAIN body) = 2
    <3>1. DOMAIN body = {<<"code">>, <<"data", "status">>}
      BY <2>1
    <3>2. <<"code">> # <<"data", "status">>
      OBVIOUS
    <3>3. IsFiniteSet({<<"code">>}) /\ Cardinality({<<"code">>}) = 1
      BY FS_Singleton
    <3>4. Cardinality({<<"code">>} \cup {<<"data", "status">>}) = 1 + 1
      BY <3>2, <3>3, FS_AddElement
    <3>5. DOMAIN body = {<<"code">>} \cup {<<"data", "status">>}
      BY <3>1
    <3> QED BY <3>4, <3>5
  <2>3. \A p \in DOMAIN body : body[p] = w \/ body[p] = <<"SUCCESS">>
    BY <2>1
  <2> QED BY <2>2, <2>3
<1> HIDE DEF plain, double
<1> QED BY <1>0, <1>1, <1>2, Zenon

\* What is read of an answer is the partner's word, the envelope's or nothing.
LEMMA TextRead ==
    ASSUME NEW code \in PartnerCodes, NEW state, NEW answer \in Answers(code, state)
    PROVE  LET text == pickString(answer.body, defaultFieldMappingFor(code).statusPaths) IN
           \/ text = <<>> /\ answer.http \in {200, 404, 429, 503}
           \/ answer.http = 200 /\ text \in Says(code, state)
           \/ answer.http = 200 /\ text = <<"SUCCESS">> /\ Enveloped(answer)
<1> DEFINE paths == defaultFieldMappingFor(code).statusPaths
           text  == pickString(answer.body, paths)
<1>1. \/ text = <<>>
      \/ \E p \in DOMAIN answer.body : text = answer.body[p]
  BY PathsAreListed, PickedFromBody
<1> HIDE DEF text
<1>2. CASE answer.body \in Bodies(code, state) /\ answer.http = 200
  <2>1. PICK w \in Says(code, state) : \A p \in DOMAIN answer.body :
              \/ answer.body[p] = w
              \/ answer.body[p] = <<"SUCCESS">> /\ Cardinality(DOMAIN answer.body) > 1
    BY <1>2, BodySays
  <2>2. \/ text = <<>>
        \/ text = w
        \/ text = <<"SUCCESS">> /\ Enveloped(answer)
    BY <1>1, <2>1 DEF Enveloped
  <2> QED BY <1>2, <2>2 DEF text
<1>3. CASE answer.body = <<>> /\ answer.http \in {200, 404, 429, 503}
  <2>1. DOMAIN answer.body = {}
    BY <1>3
  <2> QED BY <1>1, <1>3, <2>1 DEF text
<1>4. \/ answer.body \in Bodies(code, state) /\ answer.http = 200
      \/ answer.body = <<>> /\ answer.http \in {200, 404, 429, 503}
  BY DEF Answers
<1> QED BY <1>2, <1>3, <1>4, ZenonT(60)

\* A text that is read as a failure is not one the partner has for anything else.
LEMMA ReadAsFailed ==
    ASSUME NEW code \in PartnerCodes, NEW state \in {"pending", "settled"}, NEW text,
           text = <<>> \/ text \in Says(code, state) \/ text = <<"SUCCESS">>
    PROVE  ~matchesAnyToken(text, defaultFieldMappingFor(code).failedTokens)
<1>1. defaultFieldMappingFor(code).failedTokens = FailedWords
  BY Tables
<1>2. CASE text = <<>>
  BY <1>1, <1>2, NothingInNothing, WordsAreTexts
<1>3. CASE text \in KindWords
  BY <1>1, <1>3, KindWordsNotFailed
<1>4. Says(code, state) \subseteq KindWords /\ <<"SUCCESS">> \in KindWords
  BY TablesApart DEF Says, KindWords, SuccessWords
<1> QED BY <1>2, <1>3, <1>4

\* A text that is read as a success although the partner says otherwise is
\* a word that contains one of the words for a success.
LEMMA ReadAsSuccess ==
    ASSUME NEW code \in PartnerCodes, NEW state \in {"pending", "failed"}, NEW text,
           text = <<>> \/ text \in Says(code, state),
           matchesAnyToken(text, defaultFieldMappingFor(code).successTokens),
           ~matchesAnyToken(text, defaultFieldMappingFor(code).failedTokens)
    PROVE  Shadowed(text, defaultFieldMappingFor(code))
<1>1. text # <<>>
  BY NothingInNothing, TablesApart, WordsAreTexts
<1>2. text \notin defaultFieldMappingFor(code).successTokens
  <2>1. CASE state = "pending"
    BY <1>1, <2>1, TablesApart DEF Says
  <2>2. CASE state = "failed" /\ text \in OtherCodes
    BY <2>2, OtherCodesAssumption
  <2>3. CASE state = "failed" /\ text \in FailedWords
    BY <2>3, Tables, WordsMatch, WordsAreTexts DEF Words
  <2> QED BY <1>1, <2>1, <2>2, <2>3, Tables DEF Says
<1> QED BY <1>2 DEF Shadowed

\* What a check can be told: FAILED of a transfer that has not failed only when
\* the check was refused, SETTLED of one that has not been settled only when the
\* envelope or a word is misread.
LEMMA CheckReading ==
    ASSUME NEW code \in PartnerCodes, NEW state \in {"pending", "settled", "failed"},
           NEW read \in CheckReadings[code][state]
    PROVE  /\ read.mishap \subseteq {"envelope", "shadowed", "refused check"}
           /\ read.status = "FAILED" /\ state # "failed" => "refused check" \in read.mishap
           /\ read.status = "SETTLED" /\ state # "settled"
                => read.mishap \cap {"envelope", "shadowed"} # {}
<1> DEFINE mapping == defaultFieldMappingFor(code)
<1>1. PICK answer \in Answers(code, state) :
           read = [status |-> CheckStatus(answer, mapping), mishap |-> Misreading(answer, mapping)]
  BY DEF CheckReadings
<1> DEFINE text == pickString(answer.body, mapping.statusPaths)
<1>2. \/ text = <<>> /\ answer.http \in {200, 404, 429, 503}
      \/ answer.http = 200 /\ text \in Says(code, state)
      \/ answer.http = 200 /\ text = <<"SUCCESS">> /\ Enveloped(answer)
  BY TextRead
<1>3. read.status = CheckStatus(answer, mapping) /\ read.mishap = Misreading(answer, mapping)
  BY <1>1
<1>4. read.mishap = IF Enveloped(answer) THEN {"envelope"}
                    ELSE IF Shadowed(text, mapping) THEN {"shadowed"}
                    ELSE IF ~Ok(answer) /\ answer.http < 500 THEN {"refused check"} ELSE {}
  BY <1>3, Zenon DEF Misreading
<1>5. read.status = IF answer.http >= 500 THEN "none"
                    ELSE IF matchesAnyToken(text, mapping.failedTokens) THEN "FAILED"
                    ELSE IF matchesAnyToken(text, mapping.successTokens) THEN "SETTLED"
                    ELSE IF matchesAnyToken(text, mapping.pendingTokens) THEN "SUBMITTED"
                    ELSE IF Ok(answer) THEN "SUBMITTED" ELSE "FAILED"
  BY <1>3 DEF CheckStatus, extractStatus
<1> HIDE DEF text, mapping
<1>6. read.status = "FAILED" /\ state # "failed" => "refused check" \in read.mishap
  <2> SUFFICES ASSUME read.status = "FAILED", state # "failed" PROVE "refused check" \in read.mishap
    OBVIOUS
  <2>1. ~matchesAnyToken(text, mapping.failedTokens)
    BY <1>2, ReadAsFailed DEF mapping
  <2>2. ~Ok(answer) /\ ~(answer.http >= 500) /\ ~matchesAnyToken(text, mapping.successTokens)
    BY <1>5, <2>1
  <2>3. text = <<>> /\ answer.http < 500
    BY <1>2, <2>2 DEF Ok
  <2>4. ~Shadowed(text, mapping)
    BY <2>2 DEF Shadowed
  <2>5. ~Enveloped(answer)
    <3>1. answer.body = <<>>
      BY <1>2, <2>2 DEF Ok, Answers
    <3>2. DOMAIN answer.body = {}
      BY <3>1
    <3>3. Cardinality(DOMAIN answer.body) = 0
      BY <3>2, FS_EmptySet
    <3> QED BY <3>3 DEF Enveloped
  <2> QED BY <1>4, <2>2, <2>3, <2>4, <2>5, ZenonT(60)
<1>7. read.status = "SETTLED" /\ state # "settled" => read.mishap \cap {"envelope", "shadowed"} # {}
  <2> SUFFICES ASSUME read.status = "SETTLED", state # "settled", ~Enveloped(answer)
               PROVE  Shadowed(text, mapping)
    BY <1>4
  <2>1. /\ ~matchesAnyToken(text, mapping.failedTokens)
        /\ matchesAnyToken(text, mapping.successTokens)
    BY <1>5
  <2> QED BY <1>2, <2>1, ReadAsSuccess DEF mapping
<1>8. read.mishap \subseteq {"envelope", "shadowed", "refused check"}
  BY <1>4
<1> QED BY <1>6, <1>7, <1>8

\* What a submission can be told: FAILED of a transfer that has not failed only
\* with an error status.
LEMMA InitiateReading ==
    ASSUME NEW code \in PartnerCodes, NEW state \in {"pending", "settled", "failed"},
           NEW read \in InitiateReadings[code][state]
    PROVE  /\ read.mishap \subseteq {"error answer"}
           /\ read.status \in {"SUBMITTED", "FAILED"}
           /\ read.status = "FAILED" /\ state # "failed" => "error answer" \in read.mishap
<1> DEFINE mapping == defaultFieldMappingFor(code)
<1>1. PICK answer \in Answers(code, state) :
           read = [status |-> InitiateStatus(answer, mapping),
                   mishap |-> IF Ok(answer) THEN {} ELSE {"error answer"}]
  BY DEF InitiateReadings
<1> DEFINE text == pickString(answer.body, mapping.statusPaths)
<1>2. \/ text = <<>> /\ answer.http \in {200, 404, 429, 503}
      \/ answer.http = 200 /\ text \in Says(code, state)
      \/ answer.http = 200 /\ text = <<"SUCCESS">> /\ Enveloped(answer)
  BY TextRead
<1>3. /\ read.status = InitiateStatus(answer, mapping)
      /\ read.mishap = IF Ok(answer) THEN {} ELSE {"error answer"}
  BY <1>1
<1>4. read.status = IF ~Ok(answer) THEN "FAILED"
                    ELSE IF matchesAnyToken(text, mapping.failedTokens) THEN "FAILED"
                    ELSE "SUBMITTED"
  BY <1>3 DEF InitiateStatus, extractStatus
<1> HIDE DEF text, mapping
<1>5. state # "failed" => ~matchesAnyToken(text, mapping.failedTokens)
  BY <1>2, ReadAsFailed DEF mapping
<1> QED BY <1>3, <1>4, <1>5

-----------------------------------------------------------------------------
(* The invariant of the transfers.                                         *)

\* While a submission is under way the partner has been sent it.
AskingSent(t) ==
    call[t] = "asking" => Config # NoConfig /\ row[t] = NoRow /\ partner[t] # "none"

\* What else a transfer the partner was sent can have come to.
SentSwitched(t) == partner[t] # "none" /\ Config = NoConfig => "switched" \in mishaps[t]
SentRestarted(t) == partner[t] # "none" /\ call[t] = "idle" => "restart" \in mishaps[t]
DoneStored(t) == call[t] = "done" => row[t] # NoRow \/ "collision" \in mishaps[t]

\* The transfer the mock stored although it was on its way to the partner.
MockedUnderWay(t) == {"restart", "switched"} \subseteq mishaps[t]

StoredUnderWay(t) ==
    row[t] # NoRow /\ partner[t] = "sent"
      => MockedUnderWay(t) \/ "lost answer" \in mishaps[t]

SettledOK(t) ==
    Status(t) = "SETTLED" /\ partner[t] # "none"
      => partner[t] = "settled" \/ mishaps[t] \cap {"switched", "envelope", "shadowed"} # {}

FailedOK(t) ==
    Status(t) = "FAILED"
      => \/ partner[t] \in {"none", "failed"}
         \/ mishaps[t] \cap {"lost answer", "error answer", "refused check"} # {}
         \/ MockedUnderWay(t)

TransferOK(t) ==
    /\ AskingSent(t) /\ SentSwitched(t) /\ SentRestarted(t) /\ DoneStored(t)
    /\ StoredUnderWay(t) /\ SettledOK(t) /\ FailedOK(t)

\* A check under way is about a stored transfer.
CheckOK(k) == check[k] \in Transfers => Config # NoConfig /\ row[check[k]] # NoRow

\* The requests are made from the configurations of the environments.
SentOK == \A q \in sent : \E e \in Envs, kind \in {"initiate", "check"} :
            /\ resolvePartnerRuntimeConfig(e) # NoConfig
            /\ q = Request(kind, resolvePartnerRuntimeConfig(e))

PartnerType ==
    /\ env \in Envs /\ restarts \in 0 .. MaxRestarts
    /\ call \in [Transfers -> {"idle", "asking", "done"}]
    /\ row \in [Transfers -> Rows \cup {NoRow}]
    /\ check \in [Checks -> Transfers \cup {"idle", "done"}]
    /\ partner \in [Transfers -> {"none", "sent", "pending", "settled", "failed"}]
    /\ mishaps \in [Transfers -> SUBSET MishapKinds]

PartnerInv ==
    /\ PartnerType /\ SentOK
    /\ \A t \in Transfers : TransferOK(t)
    /\ \A k \in Checks : CheckOK(k)

\* A configured partner is one of the known ones.
LEMMA Configured ==
    ASSUME NEW e, resolvePartnerRuntimeConfig(e) # NoConfig
    PROVE  /\ resolvePartnerRuntimeConfig(e).partnerCode \in PartnerCodes
           /\ resolvePartnerRuntimeConfig(e).partnerCode = normalizeKnownPartnerCode(e.alias)
BY DEF resolvePartnerRuntimeConfig, partnerPrefixByCode

\* A row is not the absent one.
LEMMA RowIsNotAbsent ==
    /\ \A r \in Rows : r # NoRow /\ r.status \in {"SUBMITTED", "SETTLED", "FAILED"}
    /\ NoRow.status = "ABSENT"
BY DEF Rows, NoRow

\* What a step leaves alone stays in order.
LEMMA TransferKept ==
    ASSUME NEW u, TransferOK(u), Config' = Config, call'[u] = call[u], row'[u] = row[u],
           partner'[u] = partner[u], mishaps'[u] = mishaps[u]
    PROVE  TransferOK(u)'
BY DEF TransferOK, AskingSent, SentSwitched, SentRestarted, DoneStored, MockedUnderWay,
       StoredUnderWay, SettledOK, FailedOK, Status

\* A check stays about a stored transfer as long as rows stay.
LEMMA CheckKept ==
    ASSUME NEW k, CheckOK(k), Config' = Config, check'[k] = check[k],
           \A t \in Transfers : row[t] # NoRow => row'[t] # NoRow
    PROVE  CheckOK(k)'
BY DEF CheckOK

\* What storing a row does to the transfers.
Stored(t, status, sofar) ==
    /\ call' \in [Transfers -> {"idle", "asking", "done"}]
    /\ row' \in [Transfers -> Rows \cup {NoRow}]
    /\ mishaps' \in [Transfers -> SUBSET MishapKinds]
    /\ call'[t] = "done"
    /\ \/ row'[t] = row[t] /\ mishaps'[t] = sofar[t] \cup {"collision"}
       \/ /\ row'[t] # NoRow /\ row'[t].status = status /\ row'[t] \in Rows
          /\ mishaps'[t] = sofar[t]
    /\ \A u \in Transfers : u # t => /\ call'[u] = call[u] /\ row'[u] = row[u]
                                   /\ mishaps'[u] = sofar[u]

\* Storing a row.
LEMMA Inserted ==
    ASSUME PartnerType, NEW t \in Transfers, NEW status \in {"SUBMITTED", "FAILED"},
           NEW ref \in References, NEW sofar \in [Transfers -> SUBSET MishapKinds],
           Insert(t, status, ref, sofar)
    PROVE  Stored(t, status, sofar)
<1>1. /\ call' = [call EXCEPT ![t] = "done"]
      /\ \/ row' = row /\ mishaps' = [sofar EXCEPT ![t] = @ \cup {"collision"}]
         \/ row' = [row EXCEPT ![t] = [status |-> status, ref |-> ref]] /\ mishaps' = sofar
  BY Zenon DEF Insert
<1>2. [status |-> status, ref |-> ref] \in Rows
  BY DEF Rows
<1>3. "collision" \in MishapKinds
  BY DEF MishapKinds
<1>4. CASE row' = row /\ mishaps' = [sofar EXCEPT ![t] = @ \cup {"collision"}]
  BY <1>1, <1>3, <1>4 DEF PartnerType, Stored
<1>5. CASE row' = [row EXCEPT ![t] = [status |-> status, ref |-> ref]] /\ mishaps' = sofar
  <2>1. row'[t] = [status |-> status, ref |-> ref]
    BY <1>5 DEF PartnerType
  <2>2. row'[t] # NoRow
    BY <2>1, <1>2, RowIsNotAbsent
  <2>3. row' \in [Transfers -> Rows \cup {NoRow}]
    BY <1>2, <1>5 DEF PartnerType
  <2> QED BY <1>1, <1>2, <1>5, <2>1, <2>2, <2>3 DEF PartnerType, Stored
<1> QED BY <1>1, <1>4, <1>5 DEF Stored

\* The handlers of a step that leaves the environment alone.
LEMMA ConfigKept == env' = env => Config' = Config
BY DEF Config

\* A submission begins.
LEMMA InitiateStep ==
    ASSUME PartnerInv, NEW t \in Transfers, Initiate(t)
    PROVE  PartnerInv'
<1> USE DEF PartnerInv
<1>1. PartnerType'
  BY DEF Initiate, PartnerType
<1>2. SentOK'
  BY Zenon DEF Initiate, SentOK, PartnerType, Config
<1>3. /\ Config' = Config /\ Config # NoConfig
      /\ call'[t] = "asking" /\ row'[t] = NoRow /\ mishaps'[t] = mishaps[t]
      /\ partner'[t] # "none"
  BY ConfigKept DEF Initiate, PartnerType
<1>4. TransferOK(t)'
  BY <1>3, RowIsNotAbsent DEF TransferOK, AskingSent, SentSwitched, SentRestarted, DoneStored,
     StoredUnderWay, SettledOK, FailedOK, Status
<1>5. \A u \in Transfers : u # t => TransferOK(u)'
  <2> TAKE u \in Transfers
  <2> HAVE u # t
  <2>1. call'[u] = call[u] /\ row'[u] = row[u] /\ partner'[u] = partner[u] /\ mishaps'[u] = mishaps[u]
    BY DEF Initiate, PartnerType
  <2> QED BY <1>3, <2>1, TransferKept
<1>6. \A k \in Checks : CheckOK(k)'
  BY <1>3, CheckKept DEF Initiate
<1> QED BY <1>1, <1>2, <1>4, <1>5, <1>6

\* The mock stores a submission, which may be on its way to the partner.
LEMMA InitiateMockStep ==
    ASSUME PartnerInv, NEW t \in Transfers, InitiateMock(t)
    PROVE  PartnerInv'
<1> USE DEF PartnerInv
<1>1. /\ Insert(t, "SUBMITTED", <<"made", t>>, mishaps)
      /\ call[t] = "idle" /\ row[t] = NoRow /\ Config = NoConfig
      /\ UNCHANGED <<env, restarts, check, partner, sent>>
  BY DEF InitiateMock
<1>2. <<"made", t>> \in References /\ mishaps \in [Transfers -> SUBSET MishapKinds]
  BY DEF References, PartnerType
<1>3. Stored(t, "SUBMITTED", mishaps)
  BY <1>1, <1>2, Inserted
<1> USE DEF Stored
<1>4. Config' = Config
  BY <1>1, ConfigKept
<1>5. PartnerType' /\ SentOK'
  BY <1>1, <1>3 DEF PartnerType, SentOK
<1>6. TransferOK(t)'
  <2>1. partner[t] # "none" => MockedUnderWay(t)
    BY <1>1 DEF TransferOK, SentSwitched, SentRestarted, MockedUnderWay
  <2> QED BY <1>1, <1>3, <1>4, <2>1, RowIsNotAbsent
      DEF TransferOK, AskingSent, SentSwitched, SentRestarted, DoneStored, MockedUnderWay,
          StoredUnderWay, SettledOK, FailedOK, Status
<1>7. \A u \in Transfers : u # t => TransferOK(u)'
  BY <1>1, <1>3, <1>4, TransferKept
<1>8. \A k \in Checks : CheckOK(k)'
  BY <1>1, <1>3, <1>4, CheckKept
<1> QED BY <1>5, <1>6, <1>7, <1>8

\* The partner takes, refuses, settles or fails a transfer.
LEMMA PartnerStep ==
    ASSUME PartnerInv, NEW t \in Transfers, PartnerTakes(t) \/ PartnerDecides(t)
    PROVE  PartnerInv'
<1> USE DEF PartnerInv
<1>1. /\ UNCHANGED <<env, restarts, call, row, check, sent, mishaps>>
      /\ \/ partner[t] = "sent" /\ partner' = [partner EXCEPT ![t] = "pending"]
         \/ partner[t] = "sent" /\ partner' = [partner EXCEPT ![t] = "failed"]
         \/ partner[t] = "pending" /\ partner' = [partner EXCEPT ![t] = "settled"]
         \/ partner[t] = "pending" /\ partner' = [partner EXCEPT ![t] = "failed"]
  BY Zenon DEF PartnerTakes, PartnerDecides
<1>2. /\ PartnerType' /\ Config' = Config
      /\ partner[t] \in {"sent", "pending"} /\ partner'[t] \in {"pending", "settled", "failed"}
      /\ \A u \in Transfers : u # t => partner'[u] = partner[u]
  BY <1>1, ConfigKept DEF PartnerType
<1>3. SentOK'
  BY <1>1 DEF SentOK
<1>4. TransferOK(t)'
  BY <1>1, <1>2 DEF TransferOK, AskingSent, SentSwitched, SentRestarted, DoneStored,
     MockedUnderWay, StoredUnderWay, SettledOK, FailedOK, Status
<1>5. \A u \in Transfers : u # t => TransferOK(u)'
  BY <1>1, <1>2, TransferKept
<1>6. \A k \in Checks : CheckOK(k)'
  BY <1>1, <1>2, CheckKept
<1> QED BY <1>2, <1>3, <1>4, <1>5, <1>6

\* The partner's answer to a submission is stored.
LEMMA InitiateAnsweredStep ==
    ASSUME PartnerInv, NEW t \in Transfers, InitiateAnswered(t)
    PROVE  PartnerInv'
<1> USE DEF PartnerInv
<1>1. /\ call[t] = "asking" /\ partner[t] \in {"pending", "settled", "failed"}
      /\ UNCHANGED <<env, restarts, check, partner, sent>>
  BY DEF InitiateAnswered, PartnerType
<1>2. PICK read \in InitiateReadings[Config.partnerCode][partner[t]],
           ref \in {<<"own", t>>, <<"repeated">>, <<"made", t>>} :
           \E sofar : /\ sofar = [mishaps EXCEPT ![t] = @ \cup read.mishap]
                      /\ Insert(t, read.status, ref, sofar)
  BY DEF InitiateAnswered
<1>b. PICK sofar : /\ sofar = [mishaps EXCEPT ![t] = @ \cup read.mishap]
                   /\ Insert(t, read.status, ref, sofar)
  BY <1>2
<1>3. Config # NoConfig /\ row[t] = NoRow
  BY <1>1 DEF TransferOK, AskingSent
<1>4. /\ read.mishap \subseteq {"error answer"}
      /\ read.status \in {"SUBMITTED", "FAILED"}
      /\ read.status = "FAILED" /\ partner[t] # "failed" => "error answer" \in read.mishap
  <2>1. Config.partnerCode \in PartnerCodes
    BY <1>3, Configured DEF Config
  <2> QED BY <1>1, <1>2, <2>1, InitiateReading
<1>5. /\ ref \in References /\ sofar \in [Transfers -> SUBSET MishapKinds]
      /\ sofar[t] = mishaps[t] \cup read.mishap
      /\ \A u \in Transfers : u # t => sofar[u] = mishaps[u]
  BY <1>2, <1>b, <1>4, ZenonT(60) DEF References, PartnerType, MishapKinds
<1>6. Stored(t, read.status, sofar)
  BY <1>b, <1>4, <1>5, Inserted, ZenonT(60)
<1> USE DEF Stored
<1>7. Config' = Config
  BY <1>1, ConfigKept
<1>8. PartnerType' /\ SentOK'
  BY <1>1, <1>6 DEF PartnerType, SentOK
<1>9. TransferOK(t)'
  BY <1>1, <1>3, <1>4, <1>5, <1>6, <1>7, RowIsNotAbsent
  DEF TransferOK, AskingSent, SentSwitched, SentRestarted, DoneStored, MockedUnderWay,
      StoredUnderWay, SettledOK, FailedOK, Status
<1>10. \A u \in Transfers : u # t => TransferOK(u)'
  BY <1>1, <1>5, <1>6, <1>7, TransferKept
<1>11. \A k \in Checks : CheckOK(k)'
  BY <1>1, <1>3, <1>6, <1>7, CheckKept
<1> QED BY <1>8, <1>9, <1>10, <1>11

\* The answer to a submission is lost.
LEMMA InitiateRaisesStep ==
    ASSUME PartnerInv, NEW t \in Transfers, InitiateRaises(t)
    PROVE  PartnerInv'
<1> USE DEF PartnerInv
<1>1. /\ call[t] = "asking"
      /\ UNCHANGED <<env, restarts, check, partner, sent>>
  BY DEF InitiateRaises
<1>a. PICK ref \in {<<"made", t>>, <<"clock">>} :
           \E lost : /\ lost = [mishaps EXCEPT ![t] = @ \cup {"lost answer"}]
                     /\ Insert(t, "FAILED", ref, lost)
  BY DEF InitiateRaises
<1>2. PICK lost : /\ lost = [mishaps EXCEPT ![t] = @ \cup {"lost answer"}]
                  /\ Insert(t, "FAILED", ref, lost)
  BY <1>a
<1>3. Config # NoConfig /\ row[t] = NoRow
  BY <1>1 DEF TransferOK, AskingSent
<1>4. /\ ref \in References /\ lost \in [Transfers -> SUBSET MishapKinds]
      /\ lost[t] = mishaps[t] \cup {"lost answer"}
      /\ \A u \in Transfers : u # t => lost[u] = mishaps[u]
  BY <1>2 DEF References, PartnerType, MishapKinds
<1>5. Stored(t, "FAILED", lost)
  BY <1>2, <1>4, Inserted
<1> USE DEF Stored
<1>6. Config' = Config
  BY <1>1, ConfigKept
<1>7. PartnerType' /\ SentOK'
  BY <1>1, <1>5 DEF PartnerType, SentOK
<1>8. TransferOK(t)'
  BY <1>1, <1>3, <1>4, <1>5, <1>6, RowIsNotAbsent
  DEF TransferOK, AskingSent, SentSwitched, SentRestarted, DoneStored, MockedUnderWay,
      StoredUnderWay, SettledOK, FailedOK, Status
<1>9. \A u \in Transfers : u # t => TransferOK(u)'
  BY <1>1, <1>4, <1>5, <1>6, TransferKept
<1>10. \A k \in Checks : CheckOK(k)'
  BY <1>1, <1>3, <1>5, <1>6, CheckKept
<1> QED BY <1>7, <1>8, <1>9, <1>10

\* A check asks the partner about a row.
LEMMA CheckAsksStep ==
    ASSUME PartnerInv, NEW k \in Checks, NEW t \in Transfers, CheckAsks(k, t)
    PROVE  PartnerInv'
<1> USE DEF PartnerInv
<1>1. /\ row[t] # NoRow /\ Config # NoConfig
      /\ check' = [check EXCEPT ![k] = t]
      /\ sent' = sent \cup {Request("check", Config)}
      /\ UNCHANGED <<env, restarts, call, row, partner, mishaps>>
  BY DEF CheckAsks
<1>2. PartnerType' /\ Config' = Config
  BY <1>1, ConfigKept DEF PartnerType
<1>3. SentOK'
  BY <1>1, Zenon DEF SentOK, PartnerType, Config
<1>4. \A u \in Transfers : TransferOK(u)'
  BY <1>1, <1>2, TransferKept
<1>5. check'[k] = t /\ \A j \in Checks : j # k => check'[j] = check[j]
  BY <1>1 DEF PartnerType
<1>6. CheckOK(k)'
  BY <1>1, <1>2, <1>5 DEF CheckOK
<1>7. \A j \in Checks : j # k => CheckOK(j)'
  BY <1>1, <1>2, <1>5, CheckKept
<1> QED BY <1>2, <1>3, <1>4, <1>6, <1>7

\* A check, of whatever outcome, writes at most the status of one row.
LEMMA StatusWritten ==
    ASSUME PartnerType, NEW t \in Transfers, row[t] # NoRow,
           NEW status \in {"SUBMITTED", "SETTLED", "FAILED"},
           row' = [row EXCEPT ![t].status = status]
    PROVE  /\ row' \in [Transfers -> Rows \cup {NoRow}]
           /\ row'[t] # NoRow /\ row'[t].status = status
           /\ \A u \in Transfers : u # t => row'[u] = row[u]
<1>1. row[t] \in Rows
  BY DEF PartnerType
<1>2. [row[t] EXCEPT !.status = status] \in Rows /\ [row[t] EXCEPT !.status = status].status = status
  BY <1>1, RowIsNotAbsent DEF Rows
<1>3. row'[t] = [row[t] EXCEPT !.status = status]
  BY DEF PartnerType
<1> HIDE DEF Rows
<1> QED BY <1>2, <1>3, RowIsNotAbsent DEF PartnerType

\* The mock settles a row, which may be one the partner holds.
LEMMA CheckMockStep ==
    ASSUME PartnerInv, NEW k \in Checks, NEW t \in Transfers, CheckMock(k, t)
    PROVE  PartnerInv'
<1> USE DEF PartnerInv
<1>1. /\ row[t] # NoRow /\ Config = NoConfig
      /\ check' = [check EXCEPT ![k] = "done"]
      /\ row' = [row EXCEPT ![t].status = "SETTLED"] \/ row' = row
      /\ UNCHANGED <<env, restarts, call, partner, sent, mishaps>>
  BY DEF CheckMock
<1>2. Config' = Config
  BY <1>1, ConfigKept
<1>3. /\ row' \in [Transfers -> Rows \cup {NoRow}]
      /\ row'[t] # NoRow
      /\ row'[t] = row[t] \/ row'[t].status = "SETTLED"
      /\ \A u \in Transfers : u # t => row'[u] = row[u]
  <2>1. CASE row' = [row EXCEPT ![t].status = "SETTLED"]
    BY <1>1, <2>1, StatusWritten
  <2>2. CASE row' = row
    BY <1>1, <2>2 DEF PartnerType
  <2> QED BY <1>1, <2>1, <2>2
<1>4. PartnerType' /\ SentOK'
  BY <1>1, <1>3 DEF PartnerType, SentOK
<1>5. TransferOK(t)'
  BY <1>1, <1>2, <1>3 DEF TransferOK, AskingSent, SentSwitched, SentRestarted, DoneStored,
     MockedUnderWay, StoredUnderWay, SettledOK, FailedOK, Status
<1>6. \A u \in Transfers : u # t => TransferOK(u)'
  BY <1>1, <1>2, <1>3, TransferKept
<1>7. \A j \in Checks : CheckOK(j)'
  <2>1. ~ "done" \in Transfers
    BY PartnerAssumption
  <2>2. CheckOK(k)'
    BY <1>1, <2>1 DEF CheckOK, PartnerType
  <2>3. \A j \in Checks : j # k => CheckOK(j)'
    BY <1>1, <1>2, <1>3, CheckKept DEF PartnerType
  <2> QED BY <2>2, <2>3
<1> QED BY <1>4, <1>5, <1>6, <1>7

\* The answer to a check is written over the row, whatever the row says by now.
LEMMA CheckAnsweredStep ==
    ASSUME PartnerInv, NEW k \in Checks, CheckAnswered(k)
    PROVE  PartnerInv'
<1> USE DEF PartnerInv
<1>1. PICK t \in Transfers :
        /\ check[k] = t
        /\ check' = [check EXCEPT ![k] = "done"]
        /\ \E read \in CheckReadings[Config.partnerCode][Known(t)] :
             IF read.status \in {"SETTLED", "FAILED"}
             THEN /\ row' = [row EXCEPT ![t].status = read.status]
                  /\ mishaps' = [mishaps EXCEPT ![t] = @ \cup read.mishap]
             ELSE UNCHANGED <<row, mishaps>>
        /\ UNCHANGED <<env, restarts, call, partner, sent>>
  BY Zenon DEF CheckAnswered
<1>2. Config' = Config
  BY <1>1, ConfigKept
<1>3. Config # NoConfig /\ row[t] # NoRow
  BY <1>1 DEF CheckOK
<1>4. PICK read \in CheckReadings[Config.partnerCode][Known(t)] :
        IF read.status \in {"SETTLED", "FAILED"}
        THEN /\ row' = [row EXCEPT ![t].status = read.status]
             /\ mishaps' = [mishaps EXCEPT ![t] = @ \cup read.mishap]
        ELSE UNCHANGED <<row, mishaps>>
  BY <1>1
<1>5. /\ Known(t) = "settled" => partner[t] = "settled"
      /\ Known(t) = "failed" => partner[t] \in {"none", "sent", "failed"}
      /\ Known(t) \in {"pending", "settled", "failed"}
  BY DEF Known, PartnerType
<1>6. /\ read.mishap \subseteq {"envelope", "shadowed", "refused check"}
      /\ read.status = "FAILED" /\ Known(t) # "failed" => "refused check" \in read.mishap
      /\ read.status = "SETTLED" /\ Known(t) # "settled"
           => read.mishap \cap {"envelope", "shadowed"} # {}
  <2>1. Config.partnerCode \in PartnerCodes
    BY <1>3, Configured DEF Config
  <2> QED BY <1>4, <1>5, <2>1, CheckReading
<1>7. \A j \in Checks : CheckOK(j)' \/ \E u \in Transfers : row[u] # NoRow /\ row'[u] = NoRow
  <2>1. ~ "done" \in Transfers
    BY PartnerAssumption
  <2>2. CheckOK(k)'
    BY <1>1, <2>1 DEF CheckOK, PartnerType
  <2>3. \A j \in Checks : j # k => check'[j] = check[j]
    BY <1>1 DEF PartnerType
  <2> QED BY <1>2, <2>2, <2>3, CheckKept
<1>8. SentOK'
  BY <1>1 DEF SentOK
<1>9. CASE read.status \in {"SETTLED", "FAILED"}
  <2>1. /\ row' = [row EXCEPT ![t].status = read.status]
        /\ mishaps' = [mishaps EXCEPT ![t] = @ \cup read.mishap]
    BY <1>4, <1>9
  <2>2. /\ row' \in [Transfers -> Rows \cup {NoRow}]
        /\ row'[t] # NoRow /\ row'[t].status = read.status
        /\ \A u \in Transfers : u # t => row'[u] = row[u]
    BY <1>3, <1>9, <2>1, StatusWritten
  <2>3. /\ mishaps' \in [Transfers -> SUBSET MishapKinds]
        /\ mishaps'[t] = mishaps[t] \cup read.mishap
        /\ \A u \in Transfers : u # t => mishaps'[u] = mishaps[u]
    BY <1>6, <2>1 DEF PartnerType, MishapKinds
  <2>4. PartnerType'
    BY <1>1, <2>2, <2>3 DEF PartnerType
  <2>5. TransferOK(t)'
    <3>1. read.status = "FAILED" /\ partner[t] = "sent"
            => MockedUnderWay(t) \/ "lost answer" \in mishaps[t]
      BY <1>3 DEF TransferOK, StoredUnderWay
    <3>2. FailedOK(t)'
      BY <1>1, <1>5, <1>6, <1>9, <2>2, <2>3, <3>1, ZenonT(60) DEF FailedOK, MockedUnderWay, Status, PartnerType
    <3>3. SettledOK(t)'
      BY <1>1, <1>5, <1>6, <1>9, <2>2, <2>3, ZenonT(60) DEF SettledOK, Status, PartnerType
    <3>4. AskingSent(t)' /\ SentSwitched(t)' /\ SentRestarted(t)'
      BY <1>1, <1>2, <1>3, <2>3 DEF TransferOK, AskingSent, SentSwitched, SentRestarted
    <3>5. DoneStored(t)' /\ StoredUnderWay(t)'
      BY <1>1, <1>3, <2>2, <2>3 DEF TransferOK, DoneStored, StoredUnderWay, MockedUnderWay
    <3> QED BY <3>2, <3>3, <3>4, <3>5 DEF TransferOK
  <2>6. \A u \in Transfers : u # t => TransferOK(u)'
    BY <1>1, <1>2, <2>2, <2>3, TransferKept
  <2>7. \A j \in Checks : CheckOK(j)'
    BY <1>7, <2>2
  <2> QED BY <1>8, <2>4, <2>5, <2>6, <2>7
<1>10. CASE read.status \notin {"SETTLED", "FAILED"}
  <2>1. row' = row /\ mishaps' = mishaps
    BY <1>4, <1>10
  <2>2. PartnerType'
    BY <1>1, <2>1 DEF PartnerType
  <2>3. \A u \in Transfers : TransferOK(u)'
    BY <1>1, <1>2, <2>1, TransferKept
  <2>4. \A j \in Checks : CheckOK(j)'
    BY <1>7, <2>1
  <2> QED BY <1>8, <2>2, <2>3, <2>4
<1> QED BY <1>9, <1>10

\* The answer to a check is lost.
LEMMA CheckRaisesStep ==
    ASSUME PartnerInv, NEW k \in Checks, CheckRaises(k)
    PROVE  PartnerInv'
<1> USE DEF PartnerInv
<1>1. /\ check' = [check EXCEPT ![k] = "done"]
      /\ UNCHANGED <<env, restarts, call, row, partner, sent, mishaps>>
  BY DEF CheckRaises
<1>2. Config' = Config
  BY <1>1, ConfigKept
<1>3. PartnerType' /\ SentOK'
  BY <1>1 DEF PartnerType, SentOK
<1>4. \A u \in Transfers : TransferOK(u)'
  BY <1>1, <1>2, TransferKept
<1>5. \A j \in Checks : CheckOK(j)'
  <2>1. ~ "done" \in Transfers
    BY PartnerAssumption
  <2>2. CheckOK(k)'
    BY <1>1, <2>1 DEF CheckOK, PartnerType
  <2>3. \A j \in Checks : j # k => check'[j] = check[j]
    BY <1>1 DEF PartnerType
  <2> QED BY <1>1, <1>2, <2>2, <2>3, CheckKept
<1> QED BY <1>3, <1>4, <1>5

\* The service is started again, the partner switched on or off or neither.
LEMMA RestartStep ==
    ASSUME PartnerInv, Restart
    PROVE  PartnerInv'
<1> USE DEF PartnerInv
<1>1. /\ restarts < MaxRestarts /\ restarts' = restarts + 1
      /\ env' \in Envs /\ env' = [env EXCEPT !.enabled = env'.enabled]
      /\ check' = [k \in Checks |-> IF check[k] \in Transfers THEN "done" ELSE check[k]]
      /\ call' = [t \in Transfers |-> IF call[t] = "asking" THEN "idle" ELSE call[t]]
      /\ UNCHANGED <<row, partner, sent>>
  BY DEF Restart
<1>2. mishaps' = [t \in Transfers |->
                     mishaps[t]
                       \cup (IF call[t] = "asking" THEN {"restart"} ELSE {})
                       \cup (IF env'.enabled # env.enabled THEN {"switched"} ELSE {})]
  BY DEF Restart
<1>3. env'.enabled = env.enabled => Config' = Config
  <2> SUFFICES ASSUME env'.enabled = env.enabled PROVE env' = env
    BY ConfigKept
  <2>1. env = [alias |-> env.alias, style |-> env.style, mode |-> env.mode,
               enabled |-> env.enabled, url |-> env.url, secret |-> env.secret,
               fields |-> env.fields, static |-> env.static]
    BY PartnerAssumption DEF PartnerType, IsEnv
  <2>2. [env EXCEPT !.enabled = env.enabled] = env
    BY <2>1
  <2> QED BY <1>1, <2>2
<1>4. PartnerType'
  <2>1. restarts' \in 0 .. MaxRestarts
    BY <1>1, PartnerAssumption DEF PartnerType
  <2>2. mishaps' \in [Transfers -> SUBSET MishapKinds]
    BY <1>2 DEF PartnerType, MishapKinds
  <2>3. /\ call' \in [Transfers -> {"idle", "asking", "done"}]
        /\ check' \in [Checks -> Transfers \cup {"idle", "done"}]
    BY <1>1 DEF PartnerType
  <2> QED BY <1>1, <2>1, <2>2, <2>3 DEF PartnerType
<1>5. SentOK'
  BY <1>1 DEF SentOK
<1>6. \A k \in Checks : CheckOK(k)'
  <2>1. ~ "done" \in Transfers
    BY PartnerAssumption
  <2> QED BY <1>1, <2>1 DEF CheckOK
<1>7. ASSUME NEW t \in Transfers PROVE TransferOK(t)'
  <2>1. /\ mishaps[t] \subseteq mishaps'[t]
        /\ call[t] = "asking" => "restart" \in mishaps'[t]
        /\ Config' # Config => "switched" \in mishaps'[t]
    BY <1>2, <1>3
  <2>2. call'[t] = IF call[t] = "asking" THEN "idle" ELSE call[t]
    BY <1>1
  <2>3. AskingSent(t)' /\ SentSwitched(t)' /\ SentRestarted(t)'
    BY <1>1, <2>1, <2>2 DEF TransferOK, AskingSent, SentSwitched, SentRestarted
  <2>4. DoneStored(t)' /\ StoredUnderWay(t)'
    BY <1>1, <2>1, <2>2 DEF TransferOK, DoneStored, StoredUnderWay, MockedUnderWay
  <2>5. SettledOK(t)' /\ FailedOK(t)'
    BY <1>1, <2>1 DEF TransferOK, SettledOK, FailedOK, MockedUnderWay, Status
  <2> QED BY <2>3, <2>4, <2>5 DEF TransferOK
<1> QED BY <1>4, <1>5, <1>6, <1>7

\* The invariant, from the initial states on.
LEMMA PartnerInvInit == PartnerInit => PartnerInv
<1> SUFFICES ASSUME PartnerInit PROVE PartnerInv
  OBVIOUS
<1>1. PartnerType
  BY PartnerAssumption DEF PartnerInit, PartnerType
<1>2. SentOK
  BY DEF PartnerInit, SentOK
<1>3. ASSUME NEW t \in Transfers PROVE TransferOK(t)
  BY RowIsNotAbsent DEF PartnerInit, TransferOK, AskingSent, SentSwitched, SentRestarted,
     DoneStored, StoredUnderWay, SettledOK, FailedOK, Status
<1>4. ASSUME NEW k \in Checks PROVE CheckOK(k)
  BY PartnerAssumption DEF PartnerInit, CheckOK
<1> QED BY <1>1, <1>2, <1>3, <1>4 DEF PartnerInv

\* Every step keeps the invariant.
LEMMA PartnerInvStep == PartnerInv /\ [PartnerNext]_partnerVars => PartnerInv'
<1> SUFFICES ASSUME PartnerInv, [PartnerNext]_partnerVars PROVE PartnerInv'
  OBVIOUS
<1>1. ASSUME NEW t \in Transfers, Initiate(t) PROVE PartnerInv'
  BY <1>1, InitiateStep
<1>2. ASSUME NEW t \in Transfers, InitiateMock(t) PROVE PartnerInv'
  BY <1>2, InitiateMockStep
<1>3. ASSUME NEW t \in Transfers, PartnerTakes(t) \/ PartnerDecides(t) PROVE PartnerInv'
  BY <1>3, PartnerStep
<1>4. ASSUME NEW t \in Transfers, InitiateAnswered(t) PROVE PartnerInv'
  BY <1>4, InitiateAnsweredStep
<1>5. ASSUME NEW t \in Transfers, InitiateRaises(t) PROVE PartnerInv'
  BY <1>5, InitiateRaisesStep
<1>6. ASSUME NEW k \in Checks, NEW t \in Transfers, CheckAsks(k, t) PROVE PartnerInv'
  BY <1>6, CheckAsksStep
<1>7. ASSUME NEW k \in Checks, NEW t \in Transfers, CheckMock(k, t) PROVE PartnerInv'
  BY <1>7, CheckMockStep
<1>8. ASSUME NEW k \in Checks, CheckAnswered(k) PROVE PartnerInv'
  BY <1>8, CheckAnsweredStep
<1>9. ASSUME NEW k \in Checks, CheckRaises(k) PROVE PartnerInv'
  BY <1>9, CheckRaisesStep
<1>10. ASSUME Restart PROVE PartnerInv'
  BY <1>10, RestartStep
<1>11. ASSUME UNCHANGED partnerVars PROVE PartnerInv'
  <2>1. Config' = Config /\ UNCHANGED <<env, restarts, call, row, check, partner, sent, mishaps>>
    BY <1>11, ConfigKept DEF partnerVars
  <2>2. PartnerType' /\ SentOK'
    BY <2>1 DEF PartnerInv, PartnerType, SentOK
  <2>3. \A t \in Transfers : TransferOK(t)'
    BY <2>1, TransferKept DEF PartnerInv
  <2>4. \A k \in Checks : CheckOK(k)'
    BY <2>1, CheckKept DEF PartnerInv
  <2> QED BY <2>2, <2>3, <2>4 DEF PartnerInv
<1> QED BY <1>1, <1>2, <1>3, <1>4, <1>5, <1>6, <1>7, <1>8, <1>9, <1>10, <1>11 DEF PartnerNext

\* The adapter's invariant holds throughout.
THEOREM PartnerInvariant == PartnerSpec => []PartnerInv
<1>1. PartnerInit => PartnerInv
  BY PartnerInvInit
<1>2. PartnerInv /\ [PartnerNext]_partnerVars => PartnerInv'
  BY PartnerInvStep
<1> QED BY <1>1, <1>2, PTL DEF PartnerSpec

\* The external_transfers row tells what the partner did: initiateTransfer and
\* checkTransfer record a taken transfer, and SETTLED and FAILED are the partner's
\* decisions, but for the mishaps named, in any number of checks and restarts and
\* for whatever further words the partner refuses with.
THEOREM RowsAreTrue == PartnerSpec => []RowTellsThePartner
<1>1. PartnerInv => RowTellsThePartner
  <2> SUFFICES ASSUME PartnerInv PROVE RowTellsThePartner
    OBVIOUS
  <2>1. SettledIsTrue
    BY DEF SettledIsTrue, PartnerInv, TransferOK, SettledOK
  <2>2. FailedIsTrue
    BY DEF FailedIsTrue, PartnerInv, TransferOK, FailedOK, MockedUnderWay
  <2>3. TakenIsRecorded
    BY DEF TakenIsRecorded, PartnerInv, PartnerType, TransferOK, SentRestarted, DoneStored
  <2> QED BY <2>1, <2>2, <2>3 DEF RowTellsThePartner
<1> QED BY <1>1, PartnerInvariant, PTL

-----------------------------------------------------------------------------
(* What is signed.                                                         *)

\* The field that holds the transaction and the one that holds the amount.
TransactionField(style) ==
    CASE style = "MOMO" -> "orderId"
      [] style = "BANK" -> "transactionId"
      [] style = "VNPAY" -> "vnp_TxnRef"
      [] style = "ZALOPAY" -> "app_trans_id"
      [] OTHER -> "transactionId"
AmountField(style) == IF style = "VNPAY" THEN "vnp_Amount" ELSE "amount"

\* Static fields replace the fields of their names and no others.
LEMMA SpreadKeeps ==
    ASSUME NEW payload, NEW static, NEW f \in DOMAIN payload, f \notin DOMAIN static
    PROVE  f \in DOMAIN Spread(payload, static) /\ Spread(payload, static)[f] = payload[f]
BY DEF Spread

\* A submission tells the transaction and the amount where nothing replaces them.
LEMMA PaymentIsSent ==
    ASSUME NEW style, NEW static, NEW f \in {TransactionField(style), AmountField(style)},
           f \notin DOMAIN static
    PROVE  /\ f \in DOMAIN buildInitiatePayload(style, static)
           /\ buildInitiatePayload(style, static)[f]
                = IF f = TransactionField(style) THEN "transaction" ELSE "amount"
<1>1. CASE style = "MOMO"
  BY <1>1, SpreadKeeps DEF buildInitiatePayload, TransactionField, AmountField
<1>2. CASE style = "BANK"
  BY <1>2, SpreadKeeps DEF buildInitiatePayload, TransactionField, AmountField
<1>3. CASE style = "VNPAY"
  BY <1>3, SpreadKeeps DEF buildInitiatePayload, TransactionField, AmountField
<1>4. CASE style = "ZALOPAY"
  BY <1>4, SpreadKeeps DEF buildInitiatePayload, TransactionField, AmountField
<1>5. CASE style \notin {"MOMO", "BANK", "VNPAY", "ZALOPAY"}
  BY <1>5, SpreadKeeps DEF buildInitiatePayload, TransactionField, AmountField
<1> QED BY <1>1, <1>2, <1>3, <1>4, <1>5

\* They are two fields.
LEMMA FieldsApart ==
    ASSUME NEW style
    PROVE  TransactionField(style) # AmountField(style)
BY DEF TransactionField, AmountField

\* These are payment fields.
LEMMA PaymentFieldsKnown ==
    ASSUME NEW style
    PROVE  {TransactionField(style), AmountField(style)} \subseteq PaymentFields(style)
<1>1. DOMAIN <<>> = {}
  OBVIOUS
<1> QED BY <1>1, PaymentIsSent DEF PaymentFields

\* With a secret, a submission whose signature leaves out the transaction or the
\* amount was made with fields or a payload style that are not the partner's own.
LEMMA PaymentIsSigned ==
    ASSUME NEW e, resolvePartnerRuntimeConfig(e) # NoConfig,
           NEW config, config = resolvePartnerRuntimeConfig(e), config.apiSecret,
           NEW q, q = Request("initiate", config),
           ~ {"transaction", "amount"} \subseteq q.signed,
           DOMAIN config.static \cap PaymentFields(config.requestStyle) = {}
    PROVE  /\ config.signatureMode \in {"ZALOPAY_MAC_SHA256", "PAYLOAD_FIELDS_HMAC",
                                        "HEADER_CANONICAL"}
           /\ \/ config.requestStyle # defaultRequestStyleFor(config.partnerCode)
              \/ config.signatureFields # defaultSignatureFieldsFor(config.partnerCode)
              \/ defaultSignatureFieldsFor(config.partnerCode) = <<>>
<1> DEFINE style   == config.requestStyle
           payload == buildInitiatePayload(style, config.static)
           ft      == TransactionField(style)
           fa      == AmountField(style)
<1>1. q.signed = applySignature(config, payload)
  BY DEF Request
<1>2. /\ ft \in DOMAIN payload /\ payload[ft] = "transaction"
      /\ fa \in DOMAIN payload /\ payload[fa] = "amount"
  BY PaymentFieldsKnown, PaymentIsSent, FieldsApart
<1> HIDE DEF payload, ft, fa, style
<1>3. {"transaction", "amount"} \subseteq Range(payload)
  BY <1>2 DEF Range
<1>4. /\ config.signatureMode \in {"ZALOPAY_MAC_SHA256", "PAYLOAD_FIELDS_HMAC", "HEADER_CANONICAL"}
      /\ q.signed = buildCanonicalFromFields(payload, config.signatureFields)
  BY <1>1, <1>3 DEF applySignature
<1>5. SUFFICES ASSUME style = defaultRequestStyleFor(config.partnerCode),
                      config.signatureFields = defaultSignatureFieldsFor(config.partnerCode),
                      defaultSignatureFieldsFor(config.partnerCode) # <<>>
               PROVE  FALSE
  BY <1>4 DEF style
<1>6. config.partnerCode = "ZALOPAY"
  BY <1>5 DEF defaultSignatureFieldsFor
<1>7. style = "ZALOPAY"
  BY <1>5, <1>6 DEF defaultRequestStyleFor, Banks, PartnerCodes
<1>8. ft = "app_trans_id" /\ fa = "amount"
  BY <1>7 DEF ft, fa, TransactionField, AmountField
<1>9. {ft, fa} \subseteq Range(config.signatureFields)
  <2>1. /\ config.signatureFields[2] = ft /\ config.signatureFields[4] = fa
        /\ {2, 4} \subseteq DOMAIN config.signatureFields
    BY <1>5, <1>6, <1>8 DEF defaultSignatureFieldsFor
  <2> QED BY <2>1 DEF Range
<1>10. {payload[ft], payload[fa]} \subseteq q.signed
  BY <1>2, <1>4, <1>9 DEF buildCanonicalFromFields
<1> QED BY <1>2, <1>10

\* applySignature covers the transaction and the amount of every submission that a
\* configured secret signs, unless the signed fields, the payload style or static
\* fields of the configuration are not the partner's own.
THEOREM PaymentsAreSigned == PartnerSpec => []SignatureCoversPayment
<1>1. SentOK => SignatureCoversPayment
  <2> SUFFICES ASSUME SentOK, NEW q \in sent,
                      q.kind = "initiate", q.config.apiSecret,
                      ~ {"transaction", "amount"} \subseteq q.signed,
                      DOMAIN q.config.static \cap PaymentFields(q.config.requestStyle) = {}
               PROVE  /\ q.config.signatureMode \in {"ZALOPAY_MAC_SHA256",
                                       "PAYLOAD_FIELDS_HMAC", "HEADER_CANONICAL"}
                      /\ \/ q.config.requestStyle # defaultRequestStyleFor(q.config.partnerCode)
                         \/ q.config.signatureFields # defaultSignatureFieldsFor(q.config.partnerCode)
                         \/ defaultSignatureFieldsFor(q.config.partnerCode) = <<>>
    BY DEF SignatureCoversPayment
  <2>1. PICK e \in Envs, kind \in {"initiate", "check"} :
            /\ resolvePartnerRuntimeConfig(e) # NoConfig
            /\ q = Request(kind, resolvePartnerRuntimeConfig(e))
    BY DEF SentOK
  <2>2. q.kind = kind /\ q.config = resolvePartnerRuntimeConfig(e)
    BY <2>1 DEF Request
  <2>3. q = Request("initiate", resolvePartnerRuntimeConfig(e))
    BY <2>1, <2>2
  <2> QED BY <2>1, <2>2, <2>3, PaymentIsSigned
<1>2. PartnerInv => SentOK
  BY DEF PartnerInv
<1> QED BY <1>1, <1>2, PartnerInvariant, PTL

\* Rows, calls and requests have their types: what is signed was sent.
THEOREM PartnerTypeCorrect == PartnerSpec => []PartnerTypeOK
<1>1. PartnerInv => PartnerTypeOK
  <2> SUFFICES ASSUME PartnerInv PROVE PartnerTypeOK
    OBVIOUS
  <2>1. ASSUME NEW q \in sent PROVE q.signed \subseteq q.names \cup {"header"}
    <3>1. PICK e \in Envs, kind \in {"initiate", "check"} :
            q = Request(kind, resolvePartnerRuntimeConfig(e))
      BY DEF PartnerInv, SentOK
    <3> DEFINE config  == resolvePartnerRuntimeConfig(e)
               payload == IF kind = "initiate"
                          THEN buildInitiatePayload(config.requestStyle, config.static)
                          ELSE buildCheckPayload(config.requestStyle)
    <3>2. q.names = Range(payload) /\ q.signed = applySignature(config, payload)
      BY <3>1 DEF Request
    <3> HIDE DEF config, payload
    <3>3. buildCanonicalFromFields(payload, config.signatureFields) \subseteq Range(payload)
      BY DEF buildCanonicalFromFields, Range
    <3> QED BY <3>2, <3>3 DEF applySignature
  <2> QED BY <2>1 DEF PartnerInv, PartnerType, PartnerTypeOK
<1> QED BY <1>1, PartnerInvariant, PTL
=============================================================================
