--------------------------- MODULE Admission_proofs ---------------------------
(***************************************************************************)
(* Proofs about the two ways an organisation is admitted: the join         *)
(* protocol of the governance chaincode (Governance) and the votes that    *)
(* the node managers gossip (NodeManager).                                 *)
(*                                                                         *)
(* Governance, for any organisations, clients, requests and policies: one  *)
(* pending request per organisation, one vote per organisation and         *)
(* request, the outcome the votes call for, members admitted by a          *)
(* majority, final decisions and no late votes, although calls are         *)
(* endorsed on states that other calls overwrite before they commit.       *)
(* None of this is inductive alone: a commit does not repeat the           *)
(* contract's checks.  FreshCalls is the missing part.  A call that is not *)
(* stale still satisfies the guard it was endorsed under, because every    *)
(* commit that could falsify it writes a key the call has read.  Tallies   *)
(* adds what the votes of each request amount to, FreshInTime that a vote  *)
(* which is not stale was proposed in time.                                *)
(*                                                                         *)
(* NodeManager, for any nodes, peer lists, losses and stops: a node takes  *)
(* the request for approved only when a majority approved, handled votes   *)
(* stay, and the news arrives once all is quiet.  The second half of the   *)
(* module says how the invariant NodesInv is made.                         *)
(***************************************************************************)
EXTENDS Governance, NodeManager, FiniteSetTheorems, TLAPS


FreshJoin(c) ==
    call[c].fn = "RequestJoin" =>
        /\ requests[call[c].request].status = "ABSENT"
        /\ NoPendingRequest(call[c].msp)

FreshVote(c) ==
    call[c].fn = "castVote" =>
        LET q == requests[call[c].request]
        IN /\ q.status = "PENDING" /\ MspOf[c] # q.msp
           /\ ~AlreadyVoted(q, MspOf[c])

FreshCalls == \A c \in Clients \ stale : FreshJoin(c) /\ FreshVote(c)

AbsentIsBlank ==
    \A r \in Requests : requests[r].status = "ABSENT" =>
        requests[r].approvals = {} /\ requests[r].rejections = {}

Inv ==
    /\ TypeOK
    /\ FreshCalls
    /\ AbsentIsBlank
    /\ OnePendingPerMSP
    /\ OneVoteEach

-----------------------------------------------------------------------------

\* What the arguments of an endorsed call are, by the function called.
LEMMA CallArguments ==
    ASSUME NEW k \in Calls \cup {NoCall}
    PROVE  /\ k.fn = "RequestJoin" => k.request \in Requests /\ k.msp \in MSPs
           /\ k.fn = "castVote" => k.request \in Requests /\ k.decision \in Decisions
           /\ k.fn = "UpdatePolicy" => k.policy \in Policies
           /\ k.fn = "RegisterExistingOrgs" => k.orgs \in OrgLists
BY DEF Calls, NoCall

\* The tallies after a vote, and that a vote keeps the requester and the type.
LEMMA VoteResult ==
    ASSUME NEW q \in JoinRequest, NEW m \in MSPs, NEW d \in Decisions, q.status = "PENDING"
    PROVE  LET w == WithVote(q, m, d)
           IN /\ w \in JoinRequest
              /\ w.msp = q.msp
              /\ w.status \in {"PENDING", "APPROVED", "REJECTED"}
              /\ w.approvals = q.approvals \cup (IF d = "APPROVE" THEN {m} ELSE {})
              /\ w.rejections = q.rejections \cup (IF d = "REJECT" THEN {m} ELSE {})
BY ZenonT(60) DEF WithVote, JoinRequest, Decisions

\* The number of registered organisations is a number.
LEMMA OrgCount == TypeOK => countExistingOrgs \in Nat
BY OrgsAssumption, FS_Subset, FS_CardinalityType DEF TypeOK, countExistingOrgs

\* The initial world state: an empty ledger and no call in flight.
LEMMA InitInv == Init => Inv
<1> SUFFICES ASSUME Init PROVE Inv
  OBVIOUS
<1>1. AbsentRequest \in JoinRequest
  BY OrgsAssumption DEF AbsentRequest, JoinRequest
<1>2. TypeOK
  BY <1>1, BoundsAssumption DEF Init, TypeOK
<1>3. FreshCalls
  BY DEF Init, FreshCalls, FreshJoin, FreshVote, NoCall
<1>4. AbsentIsBlank /\ OnePendingPerMSP /\ OneVoteEach
  BY DEF Init, AbsentIsBlank, OnePendingPerMSP, OneVoteEach, AbsentRequest
<1> QED
  BY <1>2, <1>3, <1>4 DEF Inv
-----------------------------------------------------------------------------

\* Endorsing a call keeps the invariant when the call's guard holds now.
LEMMA EndorseInv ==
    ASSUME Inv, NEW c \in Clients, NEW k \in Calls, Endorse(c, k),
           k.fn = "RequestJoin" =>
                requests[k.request].status = "ABSENT" /\ NoPendingRequest(k.msp),
           k.fn = "castVote" =>
                /\ requests[k.request].status = "PENDING"
                /\ MspOf[c] # requests[k.request].msp
                /\ ~AlreadyVoted(requests[k.request], MspOf[c])
    PROVE  Inv'
<1>1. TypeOK'
  BY DEF Inv, TypeOK, Endorse
<1>2. FreshCalls'
  <2> SUFFICES ASSUME NEW d \in Clients \ stale PROVE FreshJoin(d)' /\ FreshVote(d)'
    BY DEF FreshCalls, Endorse
  <2>1. CASE d = c
    <3>1. call'[d] = k
      BY <2>1 DEF Endorse, Inv, TypeOK
    <3> QED
      BY <2>1, <3>1 DEF FreshJoin, FreshVote, Endorse, NoPendingRequest, AlreadyVoted
  <2>2. CASE d # c
    <3>1. call'[d] = call[d] /\ FreshJoin(d) /\ FreshVote(d)
      BY <2>2 DEF Endorse, Inv, TypeOK, FreshCalls
    <3> QED
      BY <3>1 DEF FreshJoin, FreshVote, Endorse, NoPendingRequest, AlreadyVoted
  <2> QED
    BY <2>1, <2>2
<1>3. AbsentIsBlank' /\ OnePendingPerMSP' /\ OneVoteEach'
  BY DEF Inv, AbsentIsBlank, OnePendingPerMSP, OneVoteEach, Endorse
<1> QED
  BY <1>1, <1>2, <1>3 DEF Inv

\* A commit that leaves the requests and votes alone disturbs no guard.
LEMMA QuietCommitInv ==
    ASSUME Inv, NEW c \in Clients, NEW W, Committed(c, W), TypeOK',
           UNCHANGED <<requests, votes>>
    PROVE  Inv'
<1>1. FreshCalls'
  <2> SUFFICES ASSUME NEW d \in Clients, d \notin stale'
               PROVE  FreshJoin(d)' /\ FreshVote(d)'
    BY DEF FreshCalls
  <2>1. CASE d = c
    BY <2>1 DEF Committed, Inv, TypeOK, FreshJoin, FreshVote, NoCall
  <2>2. CASE d # c
    <3>1. call'[d] = call[d] /\ FreshJoin(d) /\ FreshVote(d)
      BY <2>2 DEF Committed, Inv, TypeOK, FreshCalls
    <3> QED
      BY <3>1 DEF FreshJoin, FreshVote, NoPendingRequest, AlreadyVoted
  <2> QED
    BY <2>1, <2>2
<1>2. AbsentIsBlank' /\ OnePendingPerMSP' /\ OneVoteEach'
  BY DEF Inv, AbsentIsBlank, OnePendingPerMSP, OneVoteEach
<1> QED
  BY <1>1, <1>2 DEF Inv

\* A commit that writes request r leaves fresh only the calls that read
\* another request, and those votes keep their guard.
LEMMA FreshAfterWrite ==
    ASSUME Inv, NEW c \in Clients, NEW r \in Requests, NEW W, r \in W, Committed(c, W),
           \A s \in Requests \ {r} : requests'[s] = requests[s]
    PROVE  FreshCalls'
<1> SUFFICES ASSUME NEW d \in Clients, d \notin stale'
             PROVE  FreshJoin(d)' /\ FreshVote(d)'
  BY DEF FreshCalls
<1>1. CASE d = c
  BY <1>1 DEF Committed, Inv, TypeOK, FreshJoin, FreshVote, NoCall
<1>2. CASE d # c
  <2>1. /\ call'[d] = call[d] /\ FreshVote(d)
        /\ Reads(call[d]) \cap W = {}
    BY <1>2 DEF Committed, Inv, TypeOK, FreshCalls
  <2>2. call[d].fn # "RequestJoin"
    BY <2>1 DEF Reads
  <2>3. ASSUME call[d].fn = "castVote" PROVE requests'[call[d].request] = requests[call[d].request]
    <3>1. call[d].request \in Requests
      BY <2>3, CallArguments DEF Inv, TypeOK
    <3>2. call[d].request # r
      BY <2>1, <2>3 DEF Reads
    <3> QED
      BY <3>1, <3>2
  <2> QED
    BY <2>1, <2>2, <2>3 DEF FreshJoin, FreshVote, AlreadyVoted
<1> QED
  BY <1>1, <1>2
-----------------------------------------------------------------------------

\* Committing a join request: it was absent and its organisation had none
\* pending, so it becomes the only one.
LEMMA CommitJoinInv ==
    ASSUME Inv, NEW c \in Clients, CommitRequestJoin(c)
    PROVE  Inv' /\ requests[call[c].request].status = "ABSENT"
<1> DEFINE r == call[c].request
           m == call[c].msp
<1>1. r \in Requests /\ m \in MSPs
  BY CallArguments DEF CommitRequestJoin, Inv, TypeOK
<1>2. requests[r].status = "ABSENT" /\ NoPendingRequest(m)
  BY DEF CommitRequestJoin, Committed, Inv, FreshCalls, FreshJoin
<1>3. /\ requests'[r].status = "PENDING" /\ requests'[r].msp = m
      /\ requests'[r].approvals = {} /\ requests'[r].rejections = {}
      /\ requests'[r] \in JoinRequest
      /\ \A s \in Requests \ {r} : requests'[s] = requests[s]
  <2>1. countExistingOrgs \in Nat /\ (countExistingOrgs \div 2) + 1 \in Nat
    BY OrgCount DEF Inv
  <2>2. at[c] \in Nat
    BY BoundsAssumption DEF Inv, TypeOK
  <2> QED
    BY <1>1, <2>1, <2>2 DEF CommitRequestJoin, Inv, TypeOK, JoinRequest
<1>4. TypeOK'
  BY <1>1, <1>3, BoundsAssumption DEF CommitRequestJoin, Committed, Inv, TypeOK
<1>5. FreshCalls'
  BY <1>1, <1>3, FreshAfterWrite DEF CommitRequestJoin
<1>6. AbsentIsBlank'
  BY <1>3 DEF Inv, AbsentIsBlank
<1>7. OnePendingPerMSP'
  BY <1>2, <1>3 DEF Inv, OnePendingPerMSP, NoPendingRequest
<1>8. OneVoteEach'
  <2> SUFFICES ASSUME NEW s \in Requests
               PROVE  requests'[s].approvals = requests[s].approvals
                      /\ requests'[s].rejections = requests[s].rejections
    BY DEF OneVoteEach, Inv, CommitRequestJoin
  <2> QED
    BY <1>1, <1>2, <1>3 DEF Inv, AbsentIsBlank
<1> QED
  BY <1>2, <1>4, <1>5, <1>6, <1>7, <1>8 DEF Inv

\* Committing a vote: the request was still pending and the organisation had
\* not voted, so exactly one tally grows by it.
LEMMA CommitVoteInv ==
    ASSUME Inv, NEW c \in Clients, CommitCastVote(c)
    PROVE  Inv' /\ requests[call[c].request].status = "PENDING"
<1> DEFINE r == call[c].request
           m == MspOf[c]
           d == call[c].decision
           q == requests[r]
           w == WithVote(q, m, d)
<1>1. r \in Requests /\ d \in Decisions /\ m \in MSPs /\ q \in JoinRequest
  BY CallArguments, OrgsAssumption DEF CommitCastVote, Inv, TypeOK
<1>2. q.status = "PENDING" /\ m # q.msp /\ ~AlreadyVoted(q, m)
  BY DEF CommitCastVote, Committed, Inv, FreshCalls, FreshVote
<1>3. /\ w \in JoinRequest /\ w.msp = q.msp
      /\ w.status \in {"PENDING", "APPROVED", "REJECTED"}
      /\ w.approvals = q.approvals \cup (IF d = "APPROVE" THEN {m} ELSE {})
      /\ w.rejections = q.rejections \cup (IF d = "REJECT" THEN {m} ELSE {})
  BY <1>1, <1>2, VoteResult
<1>4. /\ requests' = [requests EXCEPT ![r] = w]
      /\ votes' = votes \cup {[request |-> r, voter |-> m, decision |-> d]}
      /\ orgs' = orgs \cup (IF Admits(w) THEN {w.msp} ELSE {})
      /\ Committed(c, {r} \cup (IF Admits(w) THEN {"orgRegistry"} ELSE {}))
      /\ policy' = policy
  BY DEF CommitCastVote
<1> HIDE DEF w
<1>5. requests'[r] = w /\ \A s \in Requests \ {r} : requests'[s] = requests[s]
  BY <1>1, <1>4 DEF Inv, TypeOK
<1>6. TypeOK'
  <2>1. [request |-> r, voter |-> m, decision |-> d] \in VoteRecord
    BY <1>1 DEF VoteRecord
  <2>2. w.msp \in MSPs
    BY <1>3 DEF JoinRequest
  <2> QED
    BY <1>1, <1>3, <1>4, <2>1, <2>2, BoundsAssumption DEF Committed, Inv, TypeOK
<1>7. FreshCalls'
  BY <1>1, <1>4, <1>5, FreshAfterWrite
<1>8. AbsentIsBlank'
  BY <1>3, <1>5 DEF Inv, AbsentIsBlank
<1>9. OnePendingPerMSP'
  BY <1>1, <1>2, <1>3, <1>5 DEF Inv, OnePendingPerMSP
<1>10. OneVoteEach'
  <2> SUFFICES ASSUME NEW s \in Requests
               PROVE  /\ requests'[s].approvals \cap requests'[s].rejections = {}
                      /\ requests'[s].approvals =
                         {n \in MSPs : [request |-> s, voter |-> n, decision |-> "APPROVE"] \in votes'}
                      /\ requests'[s].rejections =
                         {n \in MSPs : [request |-> s, voter |-> n, decision |-> "REJECT"] \in votes'}
    BY DEF OneVoteEach
  <2>1. \A n \in MSPs, e \in Decisions :
            [request |-> s, voter |-> n, decision |-> e] \in votes' <=>
                \/ [request |-> s, voter |-> n, decision |-> e] \in votes
                \/ s = r /\ n = m /\ e = d
    BY <1>4
  <2>2. CASE s # r
    BY <2>1, <2>2, <1>5, ZenonT(120) DEF Inv, OneVoteEach, Decisions
  <2>3. CASE s = r
    <3>1. /\ q.approvals \cap q.rejections = {}
          /\ q.approvals = {n \in MSPs : [request |-> s, voter |-> n, decision |-> "APPROVE"] \in votes}
          /\ q.rejections = {n \in MSPs : [request |-> s, voter |-> n, decision |-> "REJECT"] \in votes}
      BY <2>3 DEF Inv, OneVoteEach
    <3>2. m \notin q.approvals /\ m \notin q.rejections
      BY <1>2 DEF AlreadyVoted
    <3>3. CASE d = "APPROVE"
      <4>1. requests'[s].approvals = q.approvals \cup {m} /\ requests'[s].rejections = q.rejections
        BY <2>3, <3>3, <1>3, <1>5
      <4>2. \A n \in MSPs :
              /\ [request |-> s, voter |-> n, decision |-> "APPROVE"] \in votes' <=>
                    n \in q.approvals \/ n = m
              /\ [request |-> s, voter |-> n, decision |-> "REJECT"] \in votes' <=> n \in q.rejections
        BY <2>1, <2>3, <3>1, <3>3 DEF Decisions
      <4> QED
        BY <4>1, <4>2, <3>1, <3>2, <1>1, ZenonT(120)
    <3>4. CASE d = "REJECT"
      <4>1. requests'[s].rejections = q.rejections \cup {m} /\ requests'[s].approvals = q.approvals
        BY <2>3, <3>4, <1>3, <1>5
      <4>2. \A n \in MSPs :
              /\ [request |-> s, voter |-> n, decision |-> "REJECT"] \in votes' <=>
                    n \in q.rejections \/ n = m
              /\ [request |-> s, voter |-> n, decision |-> "APPROVE"] \in votes' <=> n \in q.approvals
        BY <2>1, <2>3, <3>1, <3>4 DEF Decisions
      <4> QED
        BY <4>1, <4>2, <3>1, <3>2, <1>1, ZenonT(120)
    <3> QED
      BY <3>3, <3>4, <1>1 DEF Decisions
  <2> QED
    BY <2>2, <2>3
<1> QED
  BY <1>2, <1>6, <1>7, <1>8, <1>9, <1>10 DEF Inv
-----------------------------------------------------------------------------

\* A lost or invalid call takes no guard away from the others.
LEMMA DroppedInv ==
    ASSUME Inv, NEW c \in Clients, Dropped(c)
    PROVE  Inv'
<1>1. TypeOK'
  BY BoundsAssumption DEF Inv, TypeOK, Dropped
<1>2. FreshCalls'
  <2> SUFFICES ASSUME NEW e \in Clients, e \notin stale'
               PROVE  FreshJoin(e)' /\ FreshVote(e)'
    BY DEF FreshCalls
  <2>1. CASE e = c
    BY <2>1 DEF Dropped, Inv, TypeOK, FreshJoin, FreshVote, NoCall
  <2>2. CASE e # c
    <3>1. call'[e] = call[e] /\ FreshJoin(e) /\ FreshVote(e)
      BY <2>2 DEF Dropped, Inv, TypeOK, FreshCalls
    <3> QED
      BY <3>1 DEF FreshJoin, FreshVote, NoPendingRequest, AlreadyVoted, Dropped
  <2> QED
    BY <2>1, <2>2
<1>3. AbsentIsBlank' /\ OnePendingPerMSP' /\ OneVoteEach'
  BY DEF Inv, AbsentIsBlank, OnePendingPerMSP, OneVoteEach, Dropped
<1> QED
  BY <1>1, <1>2, <1>3 DEF Inv

\* The steps that change neither calls nor ledger documents.
LEMMA IdleInv ==
    ASSUME Inv, TypeOK', UNCHANGED <<requests, votes, call, stale>>
    PROVE  Inv'
<1>1. FreshCalls'
  BY DEF Inv, FreshCalls, FreshJoin, FreshVote, NoPendingRequest, AlreadyVoted
<1>2. AbsentIsBlank' /\ OnePendingPerMSP' /\ OneVoteEach'
  BY DEF Inv, AbsentIsBlank, OnePendingPerMSP, OneVoteEach
<1> QED
  BY <1>1, <1>2 DEF Inv

\* Every endorsement puts in flight a call whose guard holds.
LEMMA SubmitInv ==
    ASSUME Inv, NEW c \in Clients, Submit(c)
    PROVE  Inv'
<1>1. CASE InitLedger(c)
  BY <1>1, EndorseInv DEF InitLedger, Calls
<1>2. CASE UpdatePolicy(c)
  BY <1>2, EndorseInv DEF UpdatePolicy, Calls
<1>3. CASE RegisterExistingOrgs(c)
  BY <1>3, EndorseInv DEF RegisterExistingOrgs, Calls
<1>4. CASE RequestJoin(c)
  <2> PICK r \in Requests, m \in MSPs :
        /\ requests[r].status = "ABSENT" /\ NoPendingRequest(m)
        /\ Endorse(c, [fn |-> "RequestJoin", request |-> r, msp |-> m])
    BY OrgsAssumption, <1>4 DEF RequestJoin
  <2> DEFINE k == [fn |-> "RequestJoin", request |-> r, msp |-> m]
  <2>1. k \in Calls /\ k.fn = "RequestJoin" /\ k.request = r /\ k.msp = m
    BY DEF Calls
  <2> HIDE DEF k
  <2> QED
    BY <2>1, EndorseInv DEF k
<1>5. CASE castVote(c)
  <2> PICK r \in Requests, d \in Decisions :
        /\ Votable(r) /\ MspOf[c] # requests[r].msp
        /\ ~AlreadyVoted(requests[r], MspOf[c])
        /\ Endorse(c, [fn |-> "castVote", request |-> r, decision |-> d])
    BY <1>5 DEF castVote
  <2> DEFINE k == [fn |-> "castVote", request |-> r, decision |-> d]
  <2>1. k \in Calls /\ k.fn = "castVote" /\ k.request = r
    BY DEF Calls
  <2> QED
    BY <2>1, EndorseInv DEF Votable
<1>6. CASE CastVoteExpired(c)
  <2>1. TypeOK'
    BY <1>6 DEF CastVoteExpired, vars, Inv, TypeOK
  <2> QED
    BY <1>6, <2>1, IdleInv DEF CastVoteExpired, vars
<1> QED
  BY <1>1, <1>2, <1>3, <1>4, <1>5, <1>6 DEF Submit

\* The commits of the bootstrap and policy functions.
LEMMA QuietCommits ==
    ASSUME Inv, NEW c \in Clients,
           CommitInitLedger(c) \/ CommitUpdatePolicy(c) \/ CommitRegisterExistingOrgs(c)
    PROVE  Inv'
<1>1. CASE CommitInitLedger(c)
  <2>1. TypeOK'
    BY <1>1, BoundsAssumption DEF CommitInitLedger, Committed, Inv, TypeOK
  <2> QED
    BY <1>1, <2>1, QuietCommitInv DEF CommitInitLedger
<1>2. CASE CommitUpdatePolicy(c)
  <2>1. call[c].policy \in Policies
    BY <1>2, CallArguments DEF CommitUpdatePolicy, Inv, TypeOK
  <2>2. TypeOK'
    BY <1>2, <2>1, BoundsAssumption DEF CommitUpdatePolicy, Committed, Inv, TypeOK
  <2> QED
    BY <1>2, <2>2, QuietCommitInv DEF CommitUpdatePolicy
<1>3. CASE CommitRegisterExistingOrgs(c)
  <2>1. call[c].orgs \subseteq MSPs
    BY <1>3, CallArguments, OrgsAssumption DEF CommitRegisterExistingOrgs, Inv, TypeOK
  <2>2. TypeOK'
    BY <1>3, <2>1, BoundsAssumption DEF CommitRegisterExistingOrgs, Committed, Inv, TypeOK
  <2> QED
    BY <1>3, <2>2, QuietCommitInv DEF CommitRegisterExistingOrgs
<1> QED
  BY <1>1, <1>2, <1>3

\* The invariant is inductive.
LEMMA NextInv == Inv /\ [Next]_vars => Inv'
<1> SUFFICES ASSUME Inv, [Next]_vars PROVE Inv'
  OBVIOUS
<1>1. CASE Tick
  <2>1. TypeOK'
    BY <1>1, BoundsAssumption DEF Tick, Inv, TypeOK
  <2> QED
    BY <1>1, <2>1, IdleInv DEF Tick
<1>2. ASSUME NEW c \in Clients, Submit(c) \/ Commit(c) \/ Dropped(c) PROVE Inv'
  BY <1>2, SubmitInv, QuietCommits, CommitJoinInv, CommitVoteInv, DroppedInv DEF Commit
<1>3. CASE UNCHANGED vars
  <2>1. TypeOK'
    BY <1>3 DEF vars, Inv, TypeOK
  <2> QED
    BY <1>3, <2>1, IdleInv DEF vars
<1> QED
  BY <1>1, <1>2, <1>3 DEF Next

\* In every behaviour of the contract an organisation has at most one pending
\* request: RequestJoin's scan holds until its commit.
THEOREM OnePending == Spec => []OnePendingPerMSP
<1>1. Inv => OnePendingPerMSP
  BY DEF Inv
<1> QED
  BY <1>1, InitInv, NextInv, PTL DEF Spec

\* In every behaviour each organisation's vote is counted once per request,
\* on one side, as its vote document says.
THEOREM VotesCountOnce == Spec => []OneVoteEach
<1>1. Inv => OneVoteEach
  BY DEF Inv
<1> QED
  BY <1>1, InitInv, NextInv, PTL DEF Spec

\* No step changes a request castVote has resolved, however late the votes
\* that were in flight when it was resolved arrive.
THEOREM DecisionsAreFinal == Spec => ResolvedIsFinal
<1> DEFINE Kept == \A r \in Requests : requests[r].status \in {"APPROVED", "REJECTED"} =>
                        requests'[r] = requests[r]
<1>1. Inv /\ [Next]_vars => [Kept]_vars
  <2> SUFFICES ASSUME Inv, Next PROVE Kept
    OBVIOUS
  <2>1. ASSUME NEW c \in Clients, CommitRequestJoin(c) PROVE Kept
    BY <2>1, CommitJoinInv DEF CommitRequestJoin, Inv, TypeOK
  <2>2. ASSUME NEW c \in Clients, CommitCastVote(c) PROVE Kept
    BY <2>2, CommitVoteInv DEF CommitCastVote, Inv, TypeOK
  <2>3. CASE Tick
    BY <2>3 DEF Tick
  <2>4. ASSUME NEW c \in Clients, Submit(c) \/ Dropped(c) PROVE Kept
    BY <2>4 DEF Submit, InitLedger, UpdatePolicy, RegisterExistingOrgs, RequestJoin,
                castVote, CastVoteExpired, Endorse, Dropped, vars
  <2>5. ASSUME NEW c \in Clients,
               CommitInitLedger(c) \/ CommitUpdatePolicy(c) \/ CommitRegisterExistingOrgs(c)
        PROVE  Kept
    BY <2>5 DEF CommitInitLedger, CommitUpdatePolicy, CommitRegisterExistingOrgs
  <2> QED
    BY <2>1, <2>2, <2>3, <2>4, <2>5 DEF Next, Commit
<1> QED
  BY <1>1, InitInv, NextInv, PTL DEF Spec, ResolvedIsFinal

-----------------------------------------------------------------------------
(* Outcomes.  What castVote stores depends on the whole history of a        *)
(* request's votes, so the invariant is stated request by request.          *)

Lost(q) == q.totalOrgs - Cardinality(q.rejections) < q.requiredAck

Outcome(q) ==
    /\ q.status = "APPROVED" => Cardinality(q.approvals) = q.requiredAck /\ ~Lost(q)
    /\ q.status = "REJECTED" => Lost(q)
    /\ q.status = "PENDING" =>
        \/ q.approvals = {} /\ q.rejections = {}
        \/ Cardinality(q.approvals) < q.requiredAck /\ ~Lost(q)

\* The threshold is a majority of the organisations counted at creation, and
\* the requester is not among its own supporters.
Tally(q) ==
    /\ q.status # "ABSENT" => q.requiredAck = (q.totalOrgs \div 2) + 1
    /\ q.msp \notin q.approvals
    /\ Outcome(q)

Tallies == \A r \in Requests : Tally(requests[r])

\* The request a committing RequestJoin writes.
NewRequest(m, n, t) ==
    [status |-> "PENDING", msp |-> m, approvals |-> {}, rejections |-> {},
     totalOrgs |-> n, requiredAck |-> (n \div 2) + 1, createdAt |-> t]

\* A request changes only by its own creation, or by a vote of a client whose
\* organisation may still vote on it.
LEMMA RequestSteps ==
    ASSUME Inv, Next, NEW r \in Requests, requests'[r] # requests[r]
    PROVE  \E c \in Clients \ stale :
             /\ call[c].request = r /\ call'[c] = NoCall
             /\ \/ /\ CommitRequestJoin(c) /\ requests[r].status = "ABSENT"
                   /\ requests'[r] = NewRequest(call[c].msp, countExistingOrgs, at[c])
                \/ /\ CommitCastVote(c) /\ requests[r].status = "PENDING"
                   /\ MspOf[c] # requests[r].msp /\ ~AlreadyVoted(requests[r], MspOf[c])
                   /\ call[c].decision \in Decisions
                   /\ requests'[r] = WithVote(requests[r], MspOf[c], call[c].decision)
<1>1. ASSUME NEW c \in Clients, CommitRequestJoin(c)
      PROVE  /\ c \notin stale /\ call[c].request = r /\ call'[c] = NoCall
             /\ requests[r].status = "ABSENT"
             /\ requests'[r] = NewRequest(call[c].msp, countExistingOrgs, at[c])
  <2>1. call[c].request = r
    BY <1>1 DEF CommitRequestJoin, Inv, TypeOK
  <2> QED
    BY <1>1, <2>1, CommitJoinInv DEF CommitRequestJoin, Committed, Inv, TypeOK, NewRequest
<1>2. ASSUME NEW c \in Clients, CommitCastVote(c)
      PROVE  /\ c \notin stale /\ call[c].request = r /\ call'[c] = NoCall
             /\ requests[r].status = "PENDING"
             /\ MspOf[c] # requests[r].msp /\ ~AlreadyVoted(requests[r], MspOf[c])
             /\ call[c].decision \in Decisions
             /\ requests'[r] = WithVote(requests[r], MspOf[c], call[c].decision)
  <2>1. call[c].fn = "castVote" /\ c \notin stale /\ call'[c] = NoCall
    BY <1>2 DEF CommitCastVote, Committed, Inv, TypeOK
  <2>2. call[c].request = r
    BY <1>2 DEF CommitCastVote, Inv, TypeOK
  <2>3. call[c].decision \in Decisions
    BY <2>1, CallArguments DEF Inv, TypeOK
  <2>4. requests'[r] = WithVote(requests[r], MspOf[c], call[c].decision)
    BY <1>2, <2>2 DEF CommitCastVote, Inv, TypeOK
  <2>5. FreshVote(c)
    BY <2>1 DEF Inv, FreshCalls
  <2> QED
    BY <2>1, <2>2, <2>3, <2>4, <2>5 DEF FreshVote
<1>3. ASSUME Tick \/ \E c \in Clients : Submit(c) \/ Dropped(c)
      PROVE  FALSE
  BY <1>3, ZenonT(60) DEF Tick, Submit, InitLedger, UpdatePolicy, RegisterExistingOrgs, RequestJoin,
              castVote, CastVoteExpired, Endorse, Dropped, vars
<1>4. ASSUME NEW c \in Clients,
             CommitInitLedger(c) \/ CommitUpdatePolicy(c) \/ CommitRegisterExistingOrgs(c)
      PROVE  FALSE
  BY <1>4 DEF CommitInitLedger, CommitUpdatePolicy, CommitRegisterExistingOrgs
<1>5. \E c \in Clients : CommitRequestJoin(c) \/ CommitCastVote(c)
  BY <1>3, <1>4 DEF Next, Commit
<1>6. CASE \E c \in Clients : CommitRequestJoin(c)
  BY <1>1, <1>6
<1>7. CASE \E c \in Clients : CommitCastVote(c)
  BY <1>2, <1>7
<1> QED
  BY <1>5, <1>6, <1>7

\* A tally is a finite number, and a new voter adds one to it.
LEMMA TallyGrows ==
    ASSUME NEW S \in SUBSET MSPs, NEW m \in MSPs
    PROVE  /\ Cardinality(S) \in Nat
           /\ m \notin S => Cardinality(S \cup {m}) = Cardinality(S) + 1
<1>1. IsFiniteSet(S)
  BY OrgsAssumption, FS_Subset
<1> QED
  BY <1>1, FS_CardinalityType, FS_AddElement

\* One vote takes an undecided request exactly to the outcome its tallies say.
LEMMA VoteTally ==
    ASSUME NEW q \in JoinRequest, NEW m \in MSPs, NEW d \in Decisions,
           q.status = "PENDING", m # q.msp, ~AlreadyVoted(q, m), Tally(q)
    PROVE  Tally(WithVote(q, m, d))
<1> DEFINE w == WithVote(q, m, d)
           a == Cardinality(q.approvals)
           b == Cardinality(q.rejections)
<1>1. /\ a \in Nat /\ Cardinality(q.approvals \cup {m}) = a + 1
      /\ b \in Nat /\ Cardinality(q.rejections \cup {m}) = b + 1
  BY TallyGrows DEF AlreadyVoted, JoinRequest
<1>2. q.requiredAck = (q.totalOrgs \div 2) + 1 /\ q.totalOrgs \in Nat /\ q.requiredAck \in Nat
  BY DEF Tally, JoinRequest
<1>3. (q.totalOrgs \div 2) \in Nat
  BY <1>2
<1>4. q.requiredAck >= 1
  BY <1>2, <1>3
<1>5. (a = 0 /\ b = 0) \/ (a < q.requiredAck /\ ~(q.totalOrgs - b < q.requiredAck))
  BY FS_EmptySet DEF Tally, Outcome, Lost
<1>6. /\ w.msp = q.msp /\ w.totalOrgs = q.totalOrgs /\ w.requiredAck = q.requiredAck
      /\ w.approvals = q.approvals \cup (IF d = "APPROVE" THEN {m} ELSE {})
      /\ w.rejections = q.rejections \cup (IF d = "REJECT" THEN {m} ELSE {})
      /\ w.status = IF Lost(w) THEN "REJECTED"
                    ELSE IF Cardinality(w.approvals) >= q.requiredAck
                    THEN "APPROVED" ELSE "PENDING"
  BY DEF WithVote, JoinRequest, Lost
<1> HIDE DEF w
<1>7. /\ d = "APPROVE" => Cardinality(w.approvals) = a + 1 /\ Cardinality(w.rejections) = b
      /\ d = "REJECT" => Cardinality(w.approvals) = a /\ Cardinality(w.rejections) = b + 1
  BY <1>1, <1>6
<1>8. q.msp \notin w.approvals
  BY <1>6 DEF Tally
<1>9. Outcome(w)
  <2>1. Lost(w) <=> q.totalOrgs - Cardinality(w.rejections) < q.requiredAck
    BY <1>6 DEF Lost
  <2>2. CASE d = "APPROVE"
    BY <2>1, <2>2, <1>1, <1>2, <1>4, <1>5, <1>6, <1>7 DEF Outcome
  <2>3. CASE d = "REJECT"
    BY <2>1, <2>3, <1>1, <1>2, <1>4, <1>5, <1>6, <1>7 DEF Outcome
  <2> QED
    BY <2>2, <2>3 DEF Decisions
<1> QED
  BY <1>2, <1>6, <1>8, <1>9 DEF Tally, w

\* Every request keeps to its tally.
LEMMA TalliesStep == Inv /\ Tallies /\ [Next]_vars => Tallies'
<1> SUFFICES ASSUME Inv, Tallies, [Next]_vars, NEW r \in Requests PROVE Tally(requests'[r])
  BY DEF Tallies
<1>0. Tally(requests[r]) /\ requests[r] \in JoinRequest
  BY DEF Tallies, Inv, TypeOK
<1>1. CASE requests'[r] = requests[r]
  BY <1>0, <1>1
<1>2. CASE requests'[r] # requests[r]
  <2>0. Next
    BY <1>2 DEF vars
  <2>1. PICK c \in Clients \ stale :
             /\ call[c].request = r
             /\ \/ requests'[r] = NewRequest(call[c].msp, countExistingOrgs, at[c])
                \/ /\ requests[r].status = "PENDING"
                   /\ MspOf[c] # requests[r].msp /\ ~AlreadyVoted(requests[r], MspOf[c])
                   /\ call[c].decision \in Decisions
                   /\ requests'[r] = WithVote(requests[r], MspOf[c], call[c].decision)
    BY <1>2, <2>0, RequestSteps
  <2>2. MspOf[c] \in MSPs
    BY OrgsAssumption
  <2>3. CASE requests'[r] = NewRequest(call[c].msp, countExistingOrgs, at[c])
    BY <2>3 DEF NewRequest, Tally, Outcome
  <2> QED
    BY <2>1, <2>2, <2>3, <1>0, VoteTally
<1> QED
  BY <1>1, <1>2

\* The empty ledger has no tallies to keep.
LEMMA InitTallies == Init => Tallies
BY DEF Init, Tallies, Tally, Outcome, AbsentRequest

\* In every behaviour a request's status is the one its votes call for, for any
\* number of organisations: approved at exactly the majority castVote computes.
THEOREM OutcomesFollowVotes == Spec => []OutcomeFollowsVotes
<1>1. Tallies => OutcomeFollowsVotes
  BY DEF Tallies, Tally, Outcome, Lost, OutcomeFollowsVotes
<1> QED
  BY <1>1, InitInv, NextInv, InitTallies, TalliesStep, PTL DEF Spec

-----------------------------------------------------------------------------
(* Admission. *)

\* q is a request by which m was admitted.
Admitting(q, m) ==
    /\ q.msp = m /\ m \notin q.approvals
    /\ 2 * Cardinality(q.approvals) > q.totalOrgs

\* A majority is not empty and stays one when the tally grows.
LEMMA Doubling ==
    \A a, t \in Nat : 2 * a > t => a # 0 /\ 2 * (a + 1) > t
OBVIOUS

\* A request that once showed a majority shows it for ever: the tally only
\* grows, and never by the requester.
LEMMA AdmittingStays ==
    ASSUME Inv, Tallies, [Next]_vars, NEW r \in Requests, NEW m \in MSPs, Admitting(requests[r], m)
    PROVE  Admitting(requests'[r], m)
<1>1. CASE requests'[r] = requests[r]
  BY <1>1
<1>2. CASE requests'[r] # requests[r]
  <2>0. Next
    BY <1>2 DEF vars
  <2> DEFINE q == requests[r]
  <2>1. q \in JoinRequest /\ Tally(q)
    BY DEF Inv, TypeOK, Tallies
  <2>2. q.totalOrgs \in Nat /\ q.approvals \in SUBSET MSPs
    BY <2>1 DEF JoinRequest
  <2>3. q.status # "ABSENT"
    <3>1. q.approvals # {}
      <4>1. Cardinality(q.approvals) \in Nat /\ 2 * Cardinality(q.approvals) > q.totalOrgs
        BY <2>2, TallyGrows DEF Admitting
      <4>2. Cardinality(q.approvals) # 0
        BY <2>2, <4>1, Doubling
      <4> QED
        BY <4>2, FS_EmptySet
    <3> QED
      BY <3>1 DEF Inv, AbsentIsBlank
  <2>4. PICK c \in Clients \ stale :
             /\ q.status = "PENDING"
             /\ MspOf[c] # q.msp /\ ~AlreadyVoted(q, MspOf[c])
             /\ call[c].decision \in Decisions
             /\ requests'[r] = WithVote(q, MspOf[c], call[c].decision)
    BY <1>2, <2>0, <2>3, RequestSteps
  <2> DEFINE n == MspOf[c]
             d == call[c].decision
  <2>5. n \in MSPs
    BY OrgsAssumption
  <2>6. /\ requests'[r].msp = q.msp /\ requests'[r].totalOrgs = q.totalOrgs
        /\ requests'[r].approvals = q.approvals \cup (IF d = "APPROVE" THEN {n} ELSE {})
    BY <2>1, <2>4 DEF WithVote, JoinRequest
  <2>7. /\ Cardinality(q.approvals) \in Nat
        /\ Cardinality(q.approvals \cup {n}) = Cardinality(q.approvals) + 1
    BY <2>2, <2>4, <2>5, TallyGrows DEF AlreadyVoted
  <2>8. \/ requests'[r].approvals = q.approvals
        \/ requests'[r].approvals = q.approvals \cup {n}
    BY <2>6
  <2>9. 2 * Cardinality(requests'[r].approvals) > q.totalOrgs
    <3>1. 2 * Cardinality(q.approvals) > q.totalOrgs
      BY DEF Admitting
    <3>2. 2 * (Cardinality(q.approvals) + 1) > q.totalOrgs
      BY <2>2, <2>7, <3>1, Doubling
    <3> QED
      BY <2>7, <2>8, <3>1, <3>2
  <2>10. m \notin requests'[r].approvals
    BY <2>4, <2>8 DEF Admitting
  <2> QED
    BY <2>6, <2>9, <2>10 DEF Admitting
<1> QED
  BY <1>1, <1>2

\* The registry grows only by founders and by organisations whose request has
\* just reached its threshold.
LEMMA NewOrgs ==
    ASSUME Inv, Tallies, Next, NEW m \in orgs' \ orgs
    PROVE  m \in Founders \/ \E r \in Requests : Admitting(requests'[r], m)
<1>1. ASSUME NEW c \in Clients, CommitRegisterExistingOrgs(c) PROVE m \in Founders
  <2>1. call[c].orgs \in OrgLists /\ m \in call[c].orgs
    BY <1>1, CallArguments DEF CommitRegisterExistingOrgs, Inv, TypeOK
  <2> QED
    BY <2>1 DEF Founders
<1>2. ASSUME NEW c \in Clients, CommitCastVote(c)
      PROVE  \E r \in Requests : Admitting(requests'[r], m)
  <2> DEFINE r == call[c].request
             q == requests[r]
             w == WithVote(q, MspOf[c], call[c].decision)
  <2>1. r \in Requests /\ call[c].decision \in Decisions /\ MspOf[c] \in MSPs /\ q \in JoinRequest
    BY <1>2, CallArguments, OrgsAssumption DEF CommitCastVote, Inv, TypeOK
  <2>2. Admits(w) /\ m = w.msp /\ requests' = [requests EXCEPT ![r] = w]
    BY <1>2 DEF CommitCastVote
  <2>3. q.status = "PENDING"
    BY <1>2, CommitVoteInv
  <2>4. w \in JoinRequest /\ w.status # "ABSENT"
    BY <2>1, <2>3, VoteResult
  <2> HIDE DEF w
  <2>5. requests'[r] = w
    BY <2>1, <2>2 DEF Inv, TypeOK
  <2>6. Tally(w)
    BY <1>2, <2>1, <2>5, TalliesStep DEF Tallies
  <2>7. /\ w.requiredAck = (w.totalOrgs \div 2) + 1 /\ w.totalOrgs \in Nat
        /\ w.msp \notin w.approvals /\ w.approvals \in SUBSET MSPs
    BY <2>4, <2>6 DEF Tally, JoinRequest
  <2>8. Cardinality(w.approvals) \in Nat /\ Cardinality(w.approvals) >= w.requiredAck
    BY <2>1, <2>2, <2>7, TallyGrows DEF Admits
  <2>9. 2 * Cardinality(w.approvals) > w.totalOrgs
    BY <2>7, <2>8
  <2> QED
    BY <2>1, <2>2, <2>5, <2>7, <2>9 DEF Admitting
<1>3. ASSUME Tick \/ \E c \in Clients : Submit(c) \/ Dropped(c)
      PROVE  FALSE
  BY <1>3, ZenonT(60) DEF Tick, Submit, InitLedger, UpdatePolicy, RegisterExistingOrgs, RequestJoin,
              castVote, CastVoteExpired, Endorse, Dropped, vars
<1>4. ASSUME NEW c \in Clients,
             CommitInitLedger(c) \/ CommitUpdatePolicy(c) \/ CommitRequestJoin(c)
      PROVE  FALSE
  BY <1>4 DEF CommitInitLedger, CommitUpdatePolicy, CommitRequestJoin
<1>5. \E c \in Clients : CommitRegisterExistingOrgs(c) \/ CommitCastVote(c)
  BY <1>3, <1>4 DEF Next, Commit
<1> QED
  BY <1>1, <1>2, <1>5

\* A member that is not a founder has a request with enough approvals.
Admitted == \A m \in orgs \ Founders : \E r \in Requests : Admitting(requests[r], m)

\* In every behaviour an organisation that is not a founder is registered only
\* after more others voted for it than half the registry at its request,
\* although castVote updates the registry in the same step as the request.
THEOREM MembersAreAdmitted == Spec => []AdmittedByVotes
<1>1. Init => Admitted
  BY DEF Init, Admitted
<1>2. Inv /\ Tallies /\ Admitted /\ [Next]_vars => Admitted'
  <2> SUFFICES ASSUME Inv, Tallies, Admitted, [Next]_vars,
                      NEW m \in orgs', m \notin Founders
               PROVE  \E r \in Requests : Admitting(requests'[r], m)
    BY DEF Admitted
  <2>1. CASE m \in orgs
    <3>1. m \in MSPs
      BY <2>1 DEF Inv, TypeOK
    <3>2. PICK r \in Requests : Admitting(requests[r], m)
      BY <2>1 DEF Admitted
    <3> QED
      BY <3>1, <3>2, AdmittingStays
  <2>2. CASE m \notin orgs
    <3>1. Next
      BY <2>2 DEF vars
    <3> QED
      BY <2>2, <3>1, NewOrgs
  <2> QED
    BY <2>1, <2>2
<1>3. Inv /\ Admitted => AdmittedByVotes
  <2> SUFFICES ASSUME Inv, Admitted, NEW m \in orgs \ Founders
               PROVE  \E r \in Requests : /\ requests[r].msp = m /\ m \notin Approvers(r)
                                         /\ 2 * Cardinality(Approvers(r)) > requests[r].totalOrgs
    BY DEF AdmittedByVotes
  <2>1. PICK r \in Requests : Admitting(requests[r], m)
    BY DEF Admitted
  <2>2. requests[r].approvals = Approvers(r)
    BY DEF Inv, OneVoteEach, Approvers
  <2> QED
    BY <2>1, <2>2 DEF Admitting
<1> QED
  BY <1>1, <1>2, <1>3, InitInv, NextInv, InitTallies, TalliesStep, PTL DEF Spec

-----------------------------------------------------------------------------
(* Expiry. *)

InTime(c) ==
    call[c].fn = "castVote" =>
        ~isExpired(requests[call[c].request].createdAt, getPolicy.expiryHours, at[c])

\* A vote that is not stale was proposed before the expiry that the policy in
\* force now sets.
FreshInTime == \A c \in Clients \ stale : InTime(c)

\* The expiry of a vote is fixed by its request's creation and the policy.
LEMMA SameExpiry ==
    ASSUME NEW c \in Clients, InTime(c), call'[c] = call[c], at'[c] = at[c], policy' = policy,
           call[c].fn = "castVote" => requests'[call[c].request] = requests[call[c].request]
    PROVE  InTime(c)'
BY DEF InTime, isExpired, getPolicy

\* A commit keeps the votes in time that it does not make stale: it has
\* written neither their request nor the policy.
LEMMA CommitInTime ==
    ASSUME Inv, FreshInTime, NEW c \in Clients, NEW W, Committed(c, W),
           policy' = policy \/ "policy" \in W,
           \A s \in Requests : requests'[s] = requests[s] \/ s \in W
    PROVE  FreshInTime'
<1> SUFFICES ASSUME NEW d \in Clients, d \notin stale' PROVE InTime(d)'
  BY DEF FreshInTime
<1>1. CASE d = c
  BY <1>1 DEF Committed, Inv, TypeOK, InTime, NoCall
<1>2. CASE d # c
  <2>1. call'[d] = call[d] /\ at'[d] = at[d] /\ InTime(d) /\ Reads(call[d]) \cap W = {}
    BY <1>2 DEF Committed, Inv, TypeOK, FreshInTime
  <2>2. CASE call[d].fn # "castVote"
    BY <2>1, <2>2 DEF InTime
  <2>3. CASE call[d].fn = "castVote"
    <3>1. call[d].request \in Requests
      BY <2>3, CallArguments DEF Inv, TypeOK
    <3>2. "policy" \notin W /\ call[d].request \notin W
      BY <2>1, <2>3 DEF Reads
    <3> QED
      BY <2>1, <3>1, <3>2, SameExpiry
  <2> QED
    BY <2>2, <2>3
<1> QED
  BY <1>1, <1>2

\* Endorsing a call keeps the others in time; a vote is endorsed in time.
LEMMA EndorseInTime ==
    ASSUME Inv, FreshInTime, NEW c \in Clients, NEW k \in Calls, Endorse(c, k),
           k.fn = "castVote" => ~Expired(k.request)
    PROVE  FreshInTime'
<1> SUFFICES ASSUME NEW d \in Clients \ stale PROVE InTime(d)'
  BY DEF FreshInTime, Endorse
<1>1. CASE d = c
  <2>1. call'[d] = k /\ at'[d] = clock /\ requests' = requests /\ policy' = policy
    BY <1>1 DEF Endorse, Inv, TypeOK
  <2> QED
    BY <2>1 DEF InTime, Expired, getPolicy, isExpired
<1>2. CASE d # c
  BY <1>2, SameExpiry DEF Endorse, Inv, TypeOK, FreshInTime
<1> QED
  BY <1>1, <1>2

\* Every step keeps the fresh votes in time.
LEMMA InTimeStep == Inv /\ FreshInTime /\ [Next]_vars => FreshInTime'
<1> SUFFICES ASSUME Inv, FreshInTime, [Next]_vars PROVE FreshInTime'
  OBVIOUS
<1>1. ASSUME UNCHANGED <<policy, requests, call, at, stale>> PROVE FreshInTime'
  BY <1>1 DEF FreshInTime, InTime, isExpired, getPolicy
<1>2. CASE Tick \/ UNCHANGED vars
  BY <1>1, <1>2 DEF Tick, vars
<1>3. ASSUME NEW c \in Clients, Submit(c) PROVE FreshInTime'
  <2>1. CASE InitLedger(c)
    BY <2>1, EndorseInTime DEF InitLedger, Calls
  <2>2. CASE UpdatePolicy(c)
    BY <2>2, EndorseInTime DEF UpdatePolicy, Calls
  <2>3. CASE RegisterExistingOrgs(c)
    BY <2>3, EndorseInTime DEF RegisterExistingOrgs, Calls
  <2>4. CASE RequestJoin(c)
    BY OrgsAssumption, <2>4, EndorseInTime DEF RequestJoin, Calls
  <2>5. CASE castVote(c)
    <3> PICK r \in Requests, d \in Decisions :
          ~Expired(r) /\ Endorse(c, [fn |-> "castVote", request |-> r, decision |-> d])
      BY <2>5 DEF castVote
    <3> DEFINE k == [fn |-> "castVote", request |-> r, decision |-> d]
    <3>1. k \in Calls /\ k.fn = "castVote" /\ k.request = r
      BY DEF Calls
    <3> QED
      BY <3>1, EndorseInTime
  <2>6. CASE CastVoteExpired(c)
    BY <2>6, <1>1 DEF CastVoteExpired, vars
  <2> QED
    BY <1>3, <2>1, <2>2, <2>3, <2>4, <2>5, <2>6 DEF Submit
<1>4. ASSUME NEW c \in Clients, Commit(c) PROVE FreshInTime'
  <2>1. CASE CommitInitLedger(c)
    BY <2>1, CommitInTime DEF CommitInitLedger
  <2>2. CASE CommitUpdatePolicy(c)
    BY <2>2, CommitInTime DEF CommitUpdatePolicy
  <2>3. CASE CommitRegisterExistingOrgs(c)
    BY <2>3, CommitInTime DEF CommitRegisterExistingOrgs
  <2>4. CASE CommitRequestJoin(c)
    <3>1. \A s \in Requests : requests'[s] = requests[s] \/ s \in {call[c].request}
      BY <2>4 DEF CommitRequestJoin, Inv, TypeOK
    <3> QED
      BY <2>4, <3>1, CommitInTime DEF CommitRequestJoin
  <2>5. CASE CommitCastVote(c)
    <3> DEFINE q == WithVote(requests[call[c].request], MspOf[c], call[c].decision)
               W == {call[c].request} \cup (IF Admits(q) THEN {"orgRegistry"} ELSE {})
    <3>1. \A s \in Requests : requests'[s] = requests[s] \/ s \in W
      BY <2>5 DEF CommitCastVote, Inv, TypeOK
    <3>2. Committed(c, W) /\ policy' = policy
      BY <2>5 DEF CommitCastVote
    <3> HIDE DEF W
    <3> QED
      BY <3>1, <3>2, CommitInTime
  <2> QED
    BY <1>4, <2>1, <2>2, <2>3, <2>4, <2>5 DEF Commit
<1>5. ASSUME NEW c \in Clients, Dropped(c) PROVE FreshInTime'
  <2> SUFFICES ASSUME NEW d \in Clients, d \notin stale' PROVE InTime(d)'
    BY DEF FreshInTime
  <2>1. CASE d = c
    BY <1>5, <2>1 DEF Dropped, Inv, TypeOK, InTime, NoCall
  <2>2. CASE d # c
    BY <1>5, <2>2, SameExpiry DEF Dropped, Inv, TypeOK, FreshInTime
  <2> QED
    BY <2>1, <2>2
<1> QED
  BY <1>2, <1>3, <1>4, <1>5 DEF Next

\* In every behaviour a pending request changes only by a vote proposed before
\* its expiry under the policy in force at the commit: castVote's expiry check
\* cannot be outrun by a policy change.
THEOREM LateVotesAreNotCounted == Spec => LateVotesDecideNothing
<1> DEFINE InTimeOnly ==
        \A r \in Requests :
            requests[r].status = "PENDING" /\ requests'[r] # requests[r] =>
                \E c \in Clients :
                    /\ call[c].fn = "castVote" /\ call[c].request = r /\ call'[c] = NoCall
                    /\ ~isExpired(requests[r].createdAt, getPolicy.expiryHours, at[c])
<1>1. Init => FreshInTime
  BY DEF Init, FreshInTime, InTime, NoCall
<1>2. Inv /\ FreshInTime /\ [Next]_vars => [InTimeOnly]_vars
  <2> SUFFICES ASSUME Inv, FreshInTime, Next, NEW r \in Requests,
                      requests[r].status = "PENDING", requests'[r] # requests[r]
               PROVE  \E c \in Clients :
                        /\ call[c].fn = "castVote" /\ call[c].request = r /\ call'[c] = NoCall
                        /\ ~isExpired(requests[r].createdAt, getPolicy.expiryHours, at[c])
    OBVIOUS
  <2>1. PICK c \in Clients \ stale :
            CommitCastVote(c) /\ call[c].request = r /\ call'[c] = NoCall
    BY RequestSteps
  <2>2. call[c].fn = "castVote" /\ InTime(c)
    BY <2>1 DEF CommitCastVote, FreshInTime
  <2> QED
    BY <2>1, <2>2 DEF InTime
<1> QED
  BY <1>1, <1>2, InitInv, NextInv, InTimeStep, PTL DEF Spec, LateVotesDecideNothing

-----------------------------------------------------------------------------
(***************************************************************************)
(* The node managers.  A handler works on a copy of its node's file, so    *)
(* nothing that is said of the files alone is inductive.  HandlersOK says  *)
(* what a running handler's copy is worth, FileSource and CopySource where *)
(* the files and copies of the next state come from: what is true of every *)
(* vote (VotesTrue) and of every majority (EnoughTrue) follows from these  *)
(* without looking at the actions again.  OneExecutes and MajorityDue hold *)
(* while the handlers of the orderer's node do not overlap.                *)
(***************************************************************************)

RequestFiles == [status : {"none", "pending", "approved", "rejected", "torn"}, votes : SUBSET Votes,
                 total : Nat]
NodeTasks == [pc : {"none", "sent", "loaded", "saved", "executing", "updated", "added", "done"},
              base : RequestFiles, copy : RequestFiles]

\* A request is on its way to nodes that do not have it, and from one that has.
AskedOnce ==
    \A n \in Nodes : asked[n] = "sent" => file[n] = NoFile /\ \E x \in Nodes : file[x] # NoFile

NodesType ==
    /\ known \in [Nodes -> SUBSET (Peers \cup {Fresh})]
    /\ file \in [Nodes -> RequestFiles]
    /\ asked \in [Nodes -> {"none", "sent", "done"}]
    /\ task \in [Handlers -> NodeTasks]
    /\ joined \in [Nodes -> {"none", "sent", "done"}]
    /\ ballot \in [Nodes -> {"none", "yes", "no"}]
    /\ updates \in Nat
    /\ raced \subseteq Nodes
    /\ \A n \in Nodes : file[n].status = "none" => file[n] = NoFile
    /\ AskedOnce

\* Whether a handler runs.
Runs(t) == t.pc \in {"loaded", "saved", "executing", "updated", "added"}

-----------------------------------------------------------------------------
(* Operators of the model                                                  *)

\* The empty file and the empty task.
LEMMA EmptyFile ==
    /\ NoFile \in RequestFiles /\ NoFile.status = "none" /\ NoFile.votes = {}
    /\ NoTask \in NodeTasks /\ NoTask.pc = "none"
    /\ [NoTask EXCEPT !.pc = "done"] \in NodeTasks /\ [NoTask EXCEPT !.pc = "done"].pc = "done"
    /\ [NoTask EXCEPT !.pc = "sent"] \in NodeTasks /\ [NoTask EXCEPT !.pc = "sent"].pc = "sent"
  BY DEF NoFile, NoTask, RequestFiles, NodeTasks

\* Handlers are pairs of nodes.
LEMMA HandlerPairs ==
    /\ \A v, n \in Nodes : <<v, n>> \in Handlers /\ <<v, n>>[1] = v /\ <<v, n>>[2] = n
    /\ \A h \in Handlers : h[1] \in Nodes /\ h[2] \in Nodes /\ h = <<h[1], h[2]>>
  BY DEF Handlers

\* The peers a node knows can be counted.
LEMMA KnownCounts ==
    ASSUME NodesType, NEW n \in Nodes
    PROVE  Cardinality(known[n]) \in Nat
  <1>1. IsFiniteSet(Peers \cup {Fresh})
    <2>1. IsFiniteSet(Peers)
      BY NodeManagerAssumption, FS_Subset DEF Peers
    <2> QED
      BY <2>1, FS_AddElement
  <1>2. known[n] \subseteq Peers \cup {Fresh}
    BY DEF NodesType
  <1> QED
    BY <1>1, <1>2, FS_Subset, FS_CardinalityType

\* What a handler that has loaded the file holds.
LEMMA LoadedTask ==
    ASSUME NodesType, NEW n \in Nodes, NEW v \in Nodes, NEW approve \in BOOLEAN
    PROVE  LET t == Loaded(n, v, approve)
           IN /\ t \in NodeTasks /\ t.pc = "loaded" /\ t.base = file[n]
              /\ t.copy.status = file[n].status /\ t.copy.total = file[n].total
              /\ t.copy.votes = file[n].votes \cup {<<v, approve>>}
  <1>1. file[n] \in RequestFiles
    BY DEF NodesType
  <1>2. file[n].votes \cup {<<v, approve>>} \in SUBSET Votes
    BY <1>1 DEF RequestFiles, Votes
  <1> DEFINE c == [file[n] EXCEPT !.votes = @ \cup {<<v, approve>>}]
  <1>3. /\ c \in RequestFiles /\ c.status = file[n].status /\ c.total = file[n].total
        /\ c.votes = file[n].votes \cup {<<v, approve>>}
    BY <1>1, <1>2 DEF RequestFiles
  <1> HIDE DEF c
  <1>4. Loaded(n, v, approve) = [pc |-> "loaded", base |-> file[n], copy |-> c]
    BY DEF Loaded, c
  <1> QED
    BY <1>1, <1>3, <1>4 DEF NodeTasks

\* A copy whose status is changed.
LEMMA WithStatus ==
    ASSUME NEW f \in RequestFiles, NEW s \in {"approved", "rejected"}
    PROVE  LET g == [f EXCEPT !.status = s]
           IN g \in RequestFiles /\ g.status = s /\ g.votes = f.votes /\ g.total = f.total
  BY DEF RequestFiles

\* Setting the task of one handler.
LEMMA OneNodeTask ==
    ASSUME NodesType, NEW v \in Nodes, NEW n \in Nodes, NEW t \in NodeTasks,
           task' = [task EXCEPT ![<<v, n>>] = t]
    PROVE  /\ task' \in [Handlers -> NodeTasks]
           /\ task'[<<v, n>>] = t
           /\ \A w, m \in Nodes : <<w, m>> # <<v, n>> => task'[<<w, m>>] = task[<<w, m>>]
  BY HandlerPairs DEF NodesType

\* Saving a copy changes the one file.
LEMMA SavedFile ==
    ASSUME NodesType, NEW n \in Nodes, NEW base, NEW copy \in RequestFiles,
           copy.status # "none", SaveFile(n, base, copy)
    PROVE  /\ file' \in [Nodes -> RequestFiles] /\ file'[n] = copy
           /\ \A m \in Nodes : m # n => file'[m] = file[m]
           /\ raced \subseteq raced' /\ raced' \subseteq Nodes
           /\ n \notin raced' => file[n] = base
           /\ \A m \in Nodes : file'[m].status = "none" => file'[m] = NoFile
  BY DEF NodesType, SaveFile

\* The task a step leaves to the handler of one vote.
LEMMA NextTask ==
    ASSUME NodesType, NEW t \in NodeTasks, NEW c \in RequestFiles
    PROVE  /\ [t EXCEPT !.pc = "saved", !.base = t.copy] \in NodeTasks
           /\ [t EXCEPT !.pc = "saved", !.base = t.copy].pc = "saved"
           /\ [t EXCEPT !.pc = "saved", !.base = t.copy].base = t.copy
           /\ [t EXCEPT !.pc = "saved", !.base = t.copy].copy = t.copy
           /\ [pc |-> "executing", base |-> c, copy |-> c] \in NodeTasks
  BY DEF NodeTasks

\* What SaveVote leaves the handler of the vote with.
LEMMA SaveVoteOwn ==
    ASSUME NodesType, NEW v \in Nodes, NEW n \in Nodes, SaveVote(v, n)
    PROVE  /\ task[<<v, n>>].pc = "loaded" /\ task[<<v, n>>].copy \in RequestFiles
           /\ SaveFile(n, task[<<v, n>>].base, task[<<v, n>>].copy)
           /\ task'[<<v, n>>].pc = "saved"
           /\ task'[<<v, n>>].base = task[<<v, n>>].copy
           /\ task'[<<v, n>>].copy = task[<<v, n>>].copy
  <1> DEFINE t == task[<<v, n>>]
             u == [t EXCEPT !.pc = "saved", !.base = t.copy]
             s == [NoTask EXCEPT !.pc = "sent"]
  <1>1. t \in NodeTasks /\ t.copy \in RequestFiles
    BY HandlerPairs DEF NodesType, NodeTasks
  <1>2. u.pc = "saved" /\ u.base = t.copy /\ u.copy = t.copy
    BY <1>1, NextTask
  <1>3. /\ t.pc = "loaded" /\ SaveFile(n, t.base, t.copy)
        /\ task' = [h \in Handlers |->
                     IF h = <<v, n>> THEN u
                     ELSE IF v = n /\ h[1] = v /\ h[2] \in Targets(n) THEN s ELSE task[h]]
    BY Zenon DEF SaveVote
  <1> HIDE DEF u, s
  <1>4. task'[<<v, n>>] = u
    BY <1>3, HandlerPairs
  <1> QED
    BY <1>1, <1>2, <1>3, <1>4

\* What it leaves the handlers of other votes with: the gossip of one's own vote
\* starts them.
LEMMA SaveVoteOthers ==
    ASSUME NodesType, NEW v \in Nodes, NEW n \in Nodes, SaveVote(v, n)
    PROVE  /\ task[<<v, n>>].pc = "loaded" /\ task'[<<v, n>>].pc = "saved"
           /\ task' \in [Handlers -> NodeTasks]
           /\ \A w, m \in Nodes : <<w, m>> # <<v, n>> =>
                \/ task'[<<w, m>>] = task[<<w, m>>]
                \/ (v = n /\ w = v /\ m # n /\ task'[<<w, m>>].pc = "sent")
           /\ v = n => \A m \in Targets(n) : task'[<<v, m>>].pc = "sent"
  <1> DEFINE t == task[<<v, n>>]
             u == [t EXCEPT !.pc = "saved", !.base = t.copy]
             s == [NoTask EXCEPT !.pc = "sent"]
  <1>1. t \in NodeTasks /\ u \in NodeTasks
    <2>1. t \in NodeTasks
      BY HandlerPairs DEF NodesType
    <2> QED
      BY <2>1, NextTask DEF NodeTasks
  <1>2. s \in NodeTasks /\ s.pc = "sent"
    BY EmptyFile
  <1>3. task' = [h \in Handlers |->
                  IF h = <<v, n>> THEN u
                  ELSE IF v = n /\ h[1] = v /\ h[2] \in Targets(n) THEN s ELSE task[h]]
    BY Zenon DEF SaveVote
  <1>4. n \notin Targets(n) /\ Targets(n) \subseteq Nodes
    BY DEF Targets
  <1> HIDE DEF u, s
  <1>5. task' \in [Handlers -> NodeTasks]
    BY <1>1, <1>2, <1>3 DEF NodesType
  <1>6. ASSUME NEW w \in Nodes, NEW m \in Nodes, <<w, m>> # <<v, n>>
        PROVE  task'[<<w, m>>] = IF v = n /\ w = v /\ m \in Targets(n) THEN s ELSE task[<<w, m>>]
    BY <1>3, <1>6, HandlerPairs
  <1>7. ASSUME v = n, NEW m \in Targets(n) PROVE task'[<<v, m>>].pc = "sent"
    <2>1. m \in Nodes /\ <<v, m>> # <<v, n>>
      BY <1>4
    <2> QED
      BY <1>2, <1>6, <1>7, <2>1
  <1>8. ASSUME NEW w \in Nodes, NEW m \in Nodes, <<w, m>> # <<v, n>>
        PROVE  \/ task'[<<w, m>>] = task[<<w, m>>]
               \/ (v = n /\ w = v /\ m # n /\ task'[<<w, m>>].pc = "sent")
    BY <1>2, <1>4, <1>6, <1>8
  <1>9. task[<<v, n>>].pc = "loaded" /\ task'[<<v, n>>].pc = "saved"
    BY SaveVoteOwn
  <1> QED
    BY <1>5, <1>7, <1>8, <1>9

\* A node stops, and may tear a file.
Stops(n) == Crash(n) \/ TearRequest(n) \/ TearPeers(n)

\* The handlers that run end with their node.
LEMMA CrashTasks ==
    ASSUME NodesType, NEW n \in Nodes, Stops(n)
    PROVE  /\ task' \in [Handlers -> NodeTasks]
           /\ \A v, m \in Nodes :
                \/ task'[<<v, m>>] = task[<<v, m>>]
                \/ Runs(task[<<v, m>>]) /\ m = n /\ task'[<<v, m>>].pc = "done"
           /\ \A v \in Nodes : ~Runs(task'[<<v, n>>])
           /\ UNCHANGED <<routed, ballot, updates, raced>>
  <1> DEFINE d == [NoTask EXCEPT !.pc = "done"]
  <1>1. d \in NodeTasks /\ d.pc = "done"
    BY EmptyFile
  <1>2. task' = [h \in Handlers |-> IF h[2] = n /\ Running(h) THEN d ELSE task[h]]
    <2>1. HandlersStop(n)
      BY Zenon DEF Stops, Crash, TearRequest, TearPeers
    <2> QED
      BY <2>1, Zenon DEF HandlersStop
  <1> HIDE DEF d
  <1>3. task' \in [Handlers -> NodeTasks]
    BY <1>1, <1>2 DEF NodesType
  <1>4. ASSUME NEW v \in Nodes, NEW m \in Nodes
        PROVE  task'[<<v, m>>] = IF m = n /\ Running(<<v, m>>) THEN d ELSE task[<<v, m>>]
    BY <1>2, HandlerPairs
  <1>5. ASSUME NEW v \in Nodes, NEW m \in Nodes
        PROVE  \/ task'[<<v, m>>] = task[<<v, m>>]
               \/ Runs(task[<<v, m>>]) /\ m = n /\ task'[<<v, m>>].pc = "done"
    BY <1>1, <1>4 DEF Running, Runs
  <1>6. ASSUME NEW v \in Nodes PROVE ~Runs(task'[<<v, n>>])
    BY <1>1, <1>4 DEF Running, Runs
  <1>7. UNCHANGED <<routed, ballot, updates, raced>>
    BY Zenon DEF Stops, Crash, TearRequest, TearPeers
  <1> QED
    BY <1>3, <1>5, <1>6, <1>7

\* What a stop leaves of the files.
LEMMA CrashFiles ==
    ASSUME NodesType, NEW n \in Nodes
    PROVE  /\ Crash(n) => UNCHANGED <<known, file, asked, joined>>
           /\ TearPeers(n) =>
                /\ UNCHANGED <<file, asked>> /\ known' = [known EXCEPT ![n] = {}]
                /\ joined' = joined \/ joined' = [joined EXCEPT ![n] = "done"]
                /\ [kind |-> "forgot", node |-> n] \in faults'
           /\ TearRequest(n) => /\ UNCHANGED <<known, joined>>
                                /\ [kind |-> "torn", node |-> n] \in faults'
           /\ Stops(n) => StopOf(n) \in faults' /\ faults \subseteq faults'
  <1>1. Crash(n) => UNCHANGED <<known, file, asked, joined>>
    BY Zenon DEF Crash
  <1>2. TearRequest(n) => UNCHANGED <<known, joined>>
    BY Zenon DEF TearRequest
  <1>3. TearPeers(n) => /\ UNCHANGED <<file, asked>> /\ known' = [known EXCEPT ![n] = {}]
                        /\ joined' = joined \/ joined' = [joined EXCEPT ![n] = "done"]
    BY Zenon DEF TearPeers
  <1>4. Crash(n) => faults' = faults \cup {StopOf(n)}
    BY Zenon DEF Crash
  <1>5. TearRequest(n) => faults' = faults \cup {StopOf(n), [kind |-> "torn", node |-> n]}
    BY Zenon DEF TearRequest
  <1>6. TearPeers(n) => faults' = faults \cup {StopOf(n), [kind |-> "forgot", node |-> n]}
    BY Zenon DEF TearPeers
  <1> HIDE DEF StopOf
  <1> QED
    BY <1>1, <1>2, <1>3, <1>4, <1>5, <1>6 DEF Stops

\* A torn file, in place of one that was stored or of the request that came.
LEMMA TornFile ==
    ASSUME NodesType, NEW n \in Nodes, TearRequest(n),
           \A v \in Nodes : Runs(task[<<v, n>>]) => file[n].status # "none"
    PROVE  /\ file' \in [Nodes -> RequestFiles]
           /\ asked' \in [Nodes -> {"none", "sent", "done"}]
           /\ \A m \in Nodes : asked'[m] = "sent" => asked[m] = "sent" /\ m # n
           /\ \A m \in Nodes : m # n => file'[m] = file[m]
           /\ file'[n].status = "torn" /\ file'[n].votes = {}
           /\ \/ file[n].status # "none" /\ file'[n].total = file[n].total
              \/ /\ file[n] = NoFile
                 /\ \E x \in Nodes : file[x] # NoFile /\ file'[n].total = file[x].total
  <1>1. CASE /\ \E v \in Nodes : task[<<v, n>>].pc \in {"loaded", "saved", "executing"}
             /\ file' = [file EXCEPT ![n] = [@ EXCEPT !.status = "torn", !.votes = {}]]
             /\ UNCHANGED asked
    <2>1. file[n].status # "none" /\ file[n] # NoFile
      BY <1>1, EmptyFile DEF Runs
    <2>2. \A m \in Nodes : asked[m] = "sent" => m # n
      BY <2>1 DEF NodesType, AskedOnce
    <2> DEFINE f == [file[n] EXCEPT !.status = "torn", !.votes = {}]
    <2>3. f \in RequestFiles /\ f.status = "torn" /\ f.votes = {} /\ f.total = file[n].total
      BY ZenonT(120) DEF NodesType, RequestFiles
    <2>4. file' = [file EXCEPT ![n] = f]
      BY <1>1 DEF NodesType
    <2> HIDE DEF f
    <2> QED
      BY <1>1, <2>1, <2>2, <2>3, <2>4 DEF NodesType
  <1>2. CASE /\ asked[n] = "sent" /\ asked' = [asked EXCEPT ![n] = "done"]
             /\ \E x \in Nodes :
                   /\ file[x] # NoFile
                   /\ file' = [file EXCEPT ![n] = [status |-> "torn", votes |-> {},
                                                   total |-> file[x].total]]
    <2> PICK x \in Nodes : /\ file[x] # NoFile
                           /\ file' = [file EXCEPT ![n] = [status |-> "torn", votes |-> {},
                                                           total |-> file[x].total]]
      BY <1>2
    <2> DEFINE f == [status |-> "torn", votes |-> {}, total |-> file[x].total]
    <2>1. f \in RequestFiles /\ f.status = "torn" /\ f.votes = {} /\ f.total = file[x].total
      BY DEF NodesType, RequestFiles
    <2>2. file' = [file EXCEPT ![n] = f] /\ file[x] # NoFile
      OBVIOUS
    <2>3. file[n] = NoFile
      BY <1>2 DEF NodesType, AskedOnce
    <2> HIDE DEF f
    <2> QED
      BY <1>2, <2>1, <2>2, <2>3, ZenonT(120) DEF NodesType
  <1> QED
    BY <1>1, <1>2, Zenon DEF TearRequest

\* The copy that CheckMajority approves, and when it does.
ApprovedCopy(t) == [t.copy EXCEPT !.status = "approved"]
Reaches(t) == t.copy.status = "pending" /\ MajorityReached(t.copy)

\* What CheckMajority leaves to the handlers of other votes.
LEMMA CheckMajorityOthers ==
    ASSUME NodesType, NEW v \in Nodes, NEW n \in Nodes, CheckMajority(v, n)
    PROVE  /\ task' \in [Handlers -> NodeTasks]
           /\ task[<<v, n>>].pc = "saved" /\ task'[<<v, n>>].pc \in {"executing", "done"}
           /\ \A w, m \in Nodes : <<w, m>> # <<v, n>> => task'[<<w, m>>] = task[<<w, m>>]
  <1> DEFINE c == ApprovedCopy(task[<<v, n>>])
             done == [NoTask EXCEPT !.pc = "done"]
             next == IF n = Orderer THEN [pc |-> "executing", base |-> c, copy |-> c] ELSE done
  <1>1. task[<<v, n>>].pc = "saved"
    BY Zenon DEF CheckMajority
  <1>2. c \in RequestFiles
    BY HandlerPairs, WithStatus, ZenonT(120) DEF ApprovedCopy, NodesType, NodeTasks
  <1>3. \E u \in {next, done} : task' = [task EXCEPT ![<<v, n>>] = u]
    BY Zenon DEF CheckMajority, ApprovedCopy
  <1> HIDE DEF c
  <1>4. /\ next \in NodeTasks /\ done \in NodeTasks
        /\ next.pc \in {"executing", "done"} /\ done.pc \in {"executing", "done"}
    BY <1>2, NextTask, EmptyFile
  <1> HIDE DEF next, done
  <1>5. PICK u \in NodeTasks : /\ u.pc \in {"executing", "done"}
                               /\ task' = [task EXCEPT ![<<v, n>>] = u]
    BY <1>3, <1>4
  <1> QED
    BY <1>1, <1>5, HandlerPairs DEF NodesType

\* What CheckMajority saves, if the votes reach.
LEMMA CheckMajoritySteps ==
    ASSUME NodesType, NEW v \in Nodes, NEW n \in Nodes, CheckMajority(v, n)
    PROVE  /\ task[<<v, n>>].pc = "saved" /\ task[<<v, n>>] \in NodeTasks
           /\ task[<<v, n>>].copy \in RequestFiles
           /\ ApprovedCopy(task[<<v, n>>]) \in RequestFiles
           /\ ApprovedCopy(task[<<v, n>>]).status = "approved"
           /\ ApprovedCopy(task[<<v, n>>]).votes = task[<<v, n>>].copy.votes
           /\ ApprovedCopy(task[<<v, n>>]).total = task[<<v, n>>].copy.total
           /\ \/ /\ Reaches(task[<<v, n>>])
                 /\ SaveFile(n, task[<<v, n>>].base, ApprovedCopy(task[<<v, n>>]))
                 /\ task'[<<v, n>>].pc = IF n = Orderer THEN "executing" ELSE "done"
                 /\ n = Orderer => /\ task'[<<v, n>>].base = ApprovedCopy(task[<<v, n>>])
                                   /\ task'[<<v, n>>].copy = ApprovedCopy(task[<<v, n>>])
              \/ /\ ~Reaches(task[<<v, n>>])
                 /\ task'[<<v, n>>].pc = "done" /\ UNCHANGED <<file, raced>>
  <1> DEFINE t == task[<<v, n>>]
             c == ApprovedCopy(t)
             done == [NoTask EXCEPT !.pc = "done"]
             next == IF n = Orderer THEN [pc |-> "executing", base |-> c, copy |-> c] ELSE done
  <1>1. t \in NodeTasks /\ t.copy \in RequestFiles
    BY HandlerPairs DEF NodesType, NodeTasks
  <1>2. /\ c \in RequestFiles /\ c.status = "approved"
        /\ c.votes = t.copy.votes /\ c.total = t.copy.total
    BY <1>1, WithStatus DEF ApprovedCopy
  <1>3. /\ t.pc = "saved"
        /\ \/ /\ Reaches(t) /\ SaveFile(n, t.base, c)
              /\ task' = [task EXCEPT ![<<v, n>>] = next]
           \/ /\ ~Reaches(t) /\ UNCHANGED <<file, raced>>
              /\ task' = [task EXCEPT ![<<v, n>>] = done]
    BY Zenon DEF CheckMajority, Reaches, ApprovedCopy
  <1> HIDE DEF c
  <1>4. /\ next \in NodeTasks /\ done \in NodeTasks /\ done.pc = "done"
        /\ next.pc = IF n = Orderer THEN "executing" ELSE "done"
        /\ n = Orderer => next.base = c /\ next.copy = c
    BY <1>1, <1>2, NextTask, EmptyFile
  <1> HIDE DEF next, done, t
  <1>5. ASSUME NEW u \in NodeTasks, task' = [task EXCEPT ![<<v, n>>] = u]
        PROVE  task'[<<v, n>>] = u
    BY <1>5, HandlerPairs DEF NodesType
  <1>6. \/ Reaches(t) /\ SaveFile(n, t.base, c) /\ task'[<<v, n>>] = next
        \/ ~Reaches(t) /\ UNCHANGED <<file, raced>> /\ task'[<<v, n>>] = done
    BY <1>3, <1>4, <1>5, Zenon
  <1>7. \/ /\ Reaches(t) /\ SaveFile(n, t.base, c)
           /\ task'[<<v, n>>].pc = IF n = Orderer THEN "executing" ELSE "done"
           /\ n = Orderer => task'[<<v, n>>].base = c /\ task'[<<v, n>>].copy = c
        \/ ~Reaches(t) /\ UNCHANGED <<file, raced>> /\ task'[<<v, n>>].pc = "done"
    BY <1>4, <1>6, Zenon
  <1> QED
    BY <1>1, <1>2, <1>3, <1>7, Zenon DEF c, t

\* What CastVote starts.
LEMMA CastVoteSteps ==
    ASSUME NodesType, NEW n \in Nodes, NEW approve \in BOOLEAN, CastVote(n, approve)
    PROVE  /\ task[<<n, n>>].pc = "none" /\ file[n].status = "pending" /\ ~HasVoted(file[n], n)
           /\ task' \in [Handlers -> NodeTasks]
           /\ \A w, m \in Nodes : <<w, m>> # <<n, n>> => task'[<<w, m>>] = task[<<w, m>>]
           /\ task'[<<n, n>>].pc = "loaded" /\ task'[<<n, n>>].base = file[n]
           /\ task'[<<n, n>>].copy.status = file[n].status
           /\ task'[<<n, n>>].copy.total = file[n].total
           /\ task'[<<n, n>>].copy.votes = file[n].votes \cup {<<n, approve>>}
           /\ ballot' \in [Nodes -> {"none", "yes", "no"}]
           /\ ballot'[n] = IF approve THEN "yes" ELSE "no"
           /\ \A v \in Nodes : v # n => ballot'[v] = ballot[v]
           /\ UNCHANGED <<known, file, asked, joined, updates, raced, faults>>
  <1> DEFINE t == Loaded(n, n, approve)
  <1>1. /\ t \in NodeTasks /\ t.pc = "loaded" /\ t.base = file[n]
        /\ t.copy.status = file[n].status /\ t.copy.total = file[n].total
        /\ t.copy.votes = file[n].votes \cup {<<n, approve>>}
    BY LoadedTask
  <1>2. /\ task[<<n, n>>].pc = "none" /\ file[n].status = "pending" /\ ~HasVoted(file[n], n)
        /\ task' = [task EXCEPT ![<<n, n>>] = t]
        /\ ballot' = [ballot EXCEPT ![n] = IF approve THEN "yes" ELSE "no"]
        /\ UNCHANGED <<known, file, asked, joined, updates, raced, faults>>
    BY Zenon DEF CastVote
  <1> HIDE DEF t
  <1>3. /\ task' \in [Handlers -> NodeTasks] /\ task'[<<n, n>>] = t
        /\ \A w, m \in Nodes : <<w, m>> # <<n, n>> => task'[<<w, m>>] = task[<<w, m>>]
    BY <1>1, <1>2, HandlerPairs DEF NodesType
  <1>4. /\ ballot' \in [Nodes -> {"none", "yes", "no"}]
        /\ ballot'[n] = IF approve THEN "yes" ELSE "no"
        /\ \A v \in Nodes : v # n => ballot'[v] = ballot[v]
    BY <1>2 DEF NodesType
  <1> QED
    BY <1>1, <1>2, <1>3, <1>4

\* What ReceiveGossipedVote leaves alone.
LEMMA ReceiveVoteFrame ==
    ASSUME NodesType, NEW v \in Nodes, NEW n \in Nodes, ReceiveGossipedVote(v, n)
    PROVE  /\ v # n /\ task[<<v, n>>].pc = "sent"
           /\ UNCHANGED <<known, file, asked, joined, ballot, updates, raced>>
           /\ task' \in [Handlers -> NodeTasks]
           /\ \A w, m \in Nodes : <<w, m>> # <<v, n>> => task'[<<w, m>>] = task[<<w, m>>]
  <1>1. /\ v # n /\ task[<<v, n>>].pc = "sent"
        /\ UNCHANGED <<known, file, asked, joined, ballot, updates, raced>>
    BY Zenon DEF ReceiveGossipedVote
  <1>2. PICK u \in NodeTasks : task' = [task EXCEPT ![<<v, n>>] = u]
    <2>1. /\ Loaded(n, v, ballot[v] = "yes") \in NodeTasks
          /\ [NoTask EXCEPT !.pc = "done"] \in NodeTasks
      BY LoadedTask, EmptyFile
    <2> QED
      BY <2>1, Zenon DEF ReceiveGossipedVote
  <1> QED
    BY <1>1, <1>2, HandlerPairs DEF NodesType

\* What ReceiveGossipedVote does with a vote: too early, a second time, or taken.
LEMMA ReceiveVoteSteps ==
    ASSUME NodesType, NEW v \in Nodes, NEW n \in Nodes, ReceiveGossipedVote(v, n)
    PROVE  \/ /\ Unreadable(n) /\ task'[<<v, n>>].pc = "done"
              /\ faults' = faults \cup {[kind |-> "early", node |-> n]}
           \/ HasVoted(file[n], v) /\ task'[<<v, n>>].pc = "done" /\ UNCHANGED faults
           \/ /\ ~Unreadable(n) /\ UNCHANGED faults
              /\ task'[<<v, n>>].pc = "loaded" /\ task'[<<v, n>>].base = file[n]
              /\ task'[<<v, n>>].copy.status = file[n].status
              /\ task'[<<v, n>>].copy.total = file[n].total
              /\ task'[<<v, n>>].copy.votes = file[n].votes \cup {<<v, ballot[v] = "yes">>}
  <1> DEFINE a == ballot[v] = "yes"
             t == Loaded(n, v, a)
             done == [NoTask EXCEPT !.pc = "done"]
  <1>1. /\ t \in NodeTasks /\ t.pc = "loaded" /\ t.base = file[n]
        /\ t.copy.status = file[n].status /\ t.copy.total = file[n].total
        /\ t.copy.votes = file[n].votes \cup {<<v, a>>}
    BY LoadedTask, ZenonT(60)
  <1>2. done \in NodeTasks /\ done.pc = "done"
    BY EmptyFile
  <1>3. \/ /\ Unreadable(n) /\ task' = [task EXCEPT ![<<v, n>>] = done]
           /\ faults' = faults \cup {[kind |-> "early", node |-> n]}
        \/ HasVoted(file[n], v) /\ task' = [task EXCEPT ![<<v, n>>] = done] /\ UNCHANGED faults
        \/ ~Unreadable(n) /\ UNCHANGED faults /\ task' = [task EXCEPT ![<<v, n>>] = t]
    BY Zenon DEF ReceiveGossipedVote
  <1> HIDE DEF t, done, a
  <1>4. ASSUME NEW u \in NodeTasks, task' = [task EXCEPT ![<<v, n>>] = u]
        PROVE  task'[<<v, n>>] = u
    BY <1>4, HandlerPairs DEF NodesType
  <1>5. \/ /\ Unreadable(n) /\ task'[<<v, n>>] = done
           /\ faults' = faults \cup {[kind |-> "early", node |-> n]}
        \/ HasVoted(file[n], v) /\ task'[<<v, n>>] = done /\ UNCHANGED faults
        \/ ~Unreadable(n) /\ UNCHANGED faults /\ task'[<<v, n>>] = t
    BY <1>1, <1>2, <1>3, <1>4, Zenon
  <1> QED
    BY <1>1, <1>2, <1>5, Zenon DEF a

\* A failure ends the handler.
LEMMA ExecutedTask ==
    ASSUME NodesType, NEW v \in Nodes, Fail(v)
    PROVE  /\ Orderer \in Nodes /\ task[<<v, Orderer>>].pc = "executing"
           /\ task[<<v, Orderer>>].copy \in RequestFiles
           /\ task' \in [Handlers -> NodeTasks] /\ task'[<<v, Orderer>>].pc = "done"
           /\ \A w, m \in Nodes : <<w, m>> # <<v, Orderer>> => task'[<<w, m>>] = task[<<w, m>>]
  <1> DEFINE done == [NoTask EXCEPT !.pc = "done"]
  <1>1. done \in NodeTasks /\ done.pc = "done"
    BY EmptyFile
  <1>2. task[<<v, Orderer>>].pc = "executing" /\ task' = [task EXCEPT ![<<v, Orderer>>] = done]
    BY Zenon DEF Fail
  <1>3. Orderer \in Nodes
    BY NodeManagerAssumption
  <1> HIDE DEF done
  <1> QED
    BY <1>1, <1>2, <1>3, HandlerPairs DEF NodesType, NodeTasks

\* It is saved as a rejection.
LEMMA ExecuteFailsSteps ==
    ASSUME NodesType, NEW v \in Nodes, Fail(v)
    PROVE  \E c \in RequestFiles :
              /\ SaveFile(Orderer, task[<<v, Orderer>>].base, c) /\ c.status = "rejected"
              /\ c.votes = task[<<v, Orderer>>].copy.votes
              /\ c.total = task[<<v, Orderer>>].copy.total
  <1> DEFINE f == task[<<v, Orderer>>].copy
             c == [f EXCEPT !.status = "rejected"]
  <1>1. f \in RequestFiles
    BY ExecutedTask
  <1>2. SaveFile(Orderer, task[<<v, Orderer>>].base, c)
    BY Zenon DEF Fail
  <1>3. c \in RequestFiles /\ c.status = "rejected" /\ c.votes = f.votes /\ c.total = f.total
    BY <1>1, WithStatus
  <1> QED
    BY <1>2, <1>3

\* Both failures are one step of the handler.
LEMMA FailCases ==
    ASSUME NEW v \in Nodes, ExecuteFails(v) \/ UpdateUnacknowledged(v)
    PROVE  /\ Fail(v) /\ UNCHANGED <<known, routed, asked, joined, ballot>>
           /\ faults \subseteq faults'
           /\ \/ UNCHANGED <<updates, faults>>
              \/ /\ updates' = updates + 1
                 /\ faults' = faults \cup {[kind |-> "unacked", node |-> Orderer]}
  <1>1. /\ Fail(v) /\ UNCHANGED <<known, routed, asked, joined, ballot>>
        /\ \/ UNCHANGED <<updates, faults>>
           \/ /\ updates' = updates + 1
              /\ faults' = faults \cup {[kind |-> "unacked", node |-> Orderer]}
    BY Zenon DEF ExecuteFails, UpdateUnacknowledged
  <1> QED
    BY <1>1

\* After the update the handler goes on, with what it holds.
Announces(v) == SubmitConfigUpdate(v) \/ AddPeer(v) \/ BroadcastPeerJoined(v)

\* What the steps of the announcement share.
LEMMA AnnounceTask ==
    ASSUME NodesType, NEW v \in Nodes, Announces(v)
    PROVE  /\ Orderer \in Nodes /\ Runs(task[<<v, Orderer>>])
           /\ task' \in [Handlers -> NodeTasks]
           /\ task'[<<v, Orderer>>].pc \in {"updated", "added", "done"}
           /\ task'[<<v, Orderer>>].base = task[<<v, Orderer>>].base
           /\ task'[<<v, Orderer>>].copy = task[<<v, Orderer>>].copy
           /\ \A w, m \in Nodes : <<w, m>> # <<v, Orderer>> => task'[<<w, m>>] = task[<<w, m>>]
           /\ UNCHANGED <<routed, file, asked, ballot, raced, faults>>
           /\ task[<<v, Orderer>>].pc # "saved"
           /\ \/ UNCHANGED updates
              \/ updates' = updates + 1 /\ task[<<v, Orderer>>].pc = "executing"
  <1>1. PICK from \in {"executing", "updated", "added"}, to \in {"updated", "added", "done"} :
           Proceed(v, from, to)
    BY Zenon DEF Announces, SubmitConfigUpdate, AddPeer, BroadcastPeerJoined
  <1>2. /\ task[<<v, Orderer>>].pc = from
        /\ task' = [task EXCEPT ![<<v, Orderer>>].pc = to]
    BY <1>1, Zenon DEF Proceed
  <1>3. Orderer \in Nodes /\ <<v, Orderer>> \in Handlers /\ task[<<v, Orderer>>] \in NodeTasks
    BY NodeManagerAssumption, HandlerPairs DEF NodesType
  <1> DEFINE u == [task[<<v, Orderer>>] EXCEPT !.pc = to]
  <1>4. /\ u \in NodeTasks /\ u.pc = to
        /\ u.base = task[<<v, Orderer>>].base /\ u.copy = task[<<v, Orderer>>].copy
    BY <1>3 DEF NodeTasks
  <1>5. task' = [task EXCEPT ![<<v, Orderer>>] = u]
    BY <1>2
  <1> HIDE DEF u
  <1>6. /\ task' \in [Handlers -> NodeTasks] /\ task'[<<v, Orderer>>] = u
        /\ \A w, m \in Nodes : <<w, m>> # <<v, Orderer>> => task'[<<w, m>>] = task[<<w, m>>]
    BY <1>3, <1>4, <1>5, OneNodeTask, ZenonT(60)
  <1>7. UNCHANGED <<routed, file, asked, ballot, raced, faults>>
    BY Zenon DEF Announces, SubmitConfigUpdate, AddPeer, BroadcastPeerJoined
  <1>8. \/ UNCHANGED updates
        \/ updates' = updates + 1 /\ task[<<v, Orderer>>].pc = "executing"
    BY Zenon DEF Announces, SubmitConfigUpdate, AddPeer, BroadcastPeerJoined, Proceed
  <1> QED
    BY <1>2, <1>3, <1>4, <1>6, <1>7, <1>8 DEF Runs

\* A message that is lost is on nobody's way any more.
LEMMA LoseSteps ==
    ASSUME NodesType, NEW n \in Nodes, NEW kind \in {"request", "vote", "joined"}, Lose(kind, n)
    PROVE  /\ task' \in [Handlers -> NodeTasks]
           /\ asked' \in [Nodes -> {"none", "sent", "done"}]
           /\ joined' \in [Nodes -> {"none", "sent", "done"}]
           /\ UNCHANGED <<known, file, ballot, updates, raced>>
           /\ faults' = faults \cup {[kind |-> kind, node |-> n]}
           /\ \A w, m \in Nodes :
                \/ task'[<<w, m>>] = task[<<w, m>>]
                \/ /\ kind = "vote" /\ w # m /\ task[<<w, m>>].pc = "sent"
                   /\ task'[<<w, m>>].pc = "done"
           /\ \A m \in Nodes : joined'[m] = joined[m] \/ (kind = "joined" /\ m = n)
           /\ \A m \in Nodes : asked'[m] = "sent" => asked[m] = "sent"
  <1> DEFINE done == [NoTask EXCEPT !.pc = "done"]
  <1>1. done \in NodeTasks /\ done.pc = "done"
    BY EmptyFile
  <1>2. /\ UNCHANGED <<known, file, ballot, updates, raced>>
        /\ faults' = faults \cup {[kind |-> kind, node |-> n]}
        /\ \/ asked' = [asked EXCEPT ![n] = "done"] /\ UNCHANGED <<task, joined>>
           \/ /\ kind = "vote" /\ UNCHANGED <<asked, joined>>
              /\ \E v \in Nodes \ {n} : /\ task[<<v, n>>].pc = "sent"
                                        /\ task' = [task EXCEPT ![<<v, n>>] = done]
           \/ /\ kind = "joined" /\ joined' = [joined EXCEPT ![n] = "done"]
              /\ UNCHANGED <<asked, task>>
    BY Zenon DEF Lose
  <1> HIDE DEF done
  <1>3. CASE UNCHANGED task
    BY <1>2, <1>3 DEF NodesType
  <1>4. CASE \E v \in Nodes \ {n} : /\ task[<<v, n>>].pc = "sent"
                                    /\ task' = [task EXCEPT ![<<v, n>>] = done]
    <2> PICK v \in Nodes \ {n} : /\ task[<<v, n>>].pc = "sent"
                                 /\ task' = [task EXCEPT ![<<v, n>>] = done]
      BY <1>4
    <2>1. /\ task' \in [Handlers -> NodeTasks] /\ task'[<<v, n>>] = done
          /\ \A w, m \in Nodes : <<w, m>> # <<v, n>> => task'[<<w, m>>] = task[<<w, m>>]
      BY <1>1, HandlerPairs DEF NodesType
    <2>2. CASE UNCHANGED <<asked, joined>> /\ kind = "vote"
      <3>1. ASSUME NEW w \in Nodes, NEW m \in Nodes
            PROVE  \/ task'[<<w, m>>] = task[<<w, m>>]
                   \/ /\ kind = "vote" /\ w # m /\ task[<<w, m>>].pc = "sent"
                      /\ task'[<<w, m>>].pc = "done"
        BY <1>1, <2>1, <2>2
      <3> QED
        BY <1>2, <2>1, <2>2, <3>1 DEF NodesType
    <2>3. CASE UNCHANGED task
      BY <1>2, <2>3, ZenonT(60) DEF NodesType
    <2> QED
      BY <1>2, <2>2, <2>3
  <1> QED
    BY <1>2, <1>3, <1>4

\* What the file of a node becomes when the request arrives.
LEMMA StoredRequests ==
    ASSUME NodesType, NEW n \in Nodes, SubmitJoinRequest(n) \/ ReceiveGossipedRequest(n)
    PROVE  /\ file' \in [Nodes -> RequestFiles]
           /\ asked' \in [Nodes -> {"none", "sent", "done"}]
           /\ \A m \in Nodes : asked'[m] = "sent" => m # n
           /\ UNCHANGED <<known, routed, task, joined, ballot, updates, raced, faults>>
           /\ \A m \in Nodes :
                \/ file'[m] = file[m]
                \/ /\ m = n /\ file[m] = NoFile /\ file'[m].status = "pending"
                   /\ file'[m].votes = {} /\ file'[m].total \in Nat
                   /\ \/ \A x \in Nodes : file[x] = NoFile
                      \/ \E x \in Nodes : file[x] # NoFile /\ file'[m].total = file[x].total
           /\ \/ (\A x \in Nodes : file[x] = NoFile) /\ file'[n] # NoFile
              \/ \A m \in Nodes : asked'[m] = "sent" => asked[m] = "sent"
  <1>1. UNCHANGED <<known, routed, task, joined, ballot, updates, raced, faults>>
    BY Zenon DEF SubmitJoinRequest, ReceiveGossipedRequest
  <1>2. CASE SubmitJoinRequest(n)
    <2> DEFINE f == [status |-> "pending", votes |-> {}, total |-> Cardinality(known[n])]
    <2>1. f \in RequestFiles /\ f.status = "pending" /\ f.votes = {} /\ f.total \in Nat
      BY KnownCounts DEF RequestFiles
    <2>2. /\ \A x \in Nodes : file[x] = NoFile
          /\ file' = [file EXCEPT ![n] = f]
          /\ asked' = [x \in Nodes |-> IF x \in Targets(n) THEN "sent" ELSE asked[x]]
      BY <1>2, Zenon DEF SubmitJoinRequest
    <2>3. f # NoFile /\ \A m \in Nodes : asked[m] # "sent"
      BY <2>2, EmptyFile DEF NodesType, AskedOnce
    <2>4. n \notin Targets(n)
      BY DEF Targets
    <2> HIDE DEF f
    <2> QED
      BY <1>1, <2>1, <2>2, <2>3, <2>4 DEF NodesType
  <1>3. CASE ReceiveGossipedRequest(n)
    <2>0. PICK x \in Nodes :
           /\ file[x] # NoFile
           /\ file' = [file EXCEPT ![n] =
                         IF Unreadable(n)
                         THEN [status |-> "pending", votes |-> {}, total |-> file[x].total]
                         ELSE @]
      BY <1>3 DEF ReceiveGossipedRequest
    <2> DEFINE f == [status |-> "pending", votes |-> {}, total |-> file[x].total]
    <2>1. /\ f \in RequestFiles /\ f.status = "pending" /\ f.votes = {} /\ f.total \in Nat
          /\ f.total = file[x].total
      BY DEF RequestFiles, NodesType
    <2>2. file[n] = NoFile /\ file' = [file EXCEPT ![n] = f] /\ file[x] # NoFile
      BY <1>3, <2>0, EmptyFile DEF NodesType, AskedOnce, ReceiveGossipedRequest, Unreadable
    <2>3. asked' = [asked EXCEPT ![n] = "done"]
      BY <1>3 DEF ReceiveGossipedRequest
    <2> HIDE DEF f
    <2> QED
      BY <1>1, <2>1, <2>2, <2>3 DEF NodesType
  <1> QED
    BY <1>2, <1>3

\* Only a copy that was stored is saved.
CopiesStored ==
    \A v, n \in Nodes :
        Runs(task[<<v, n>>]) => task[<<v, n>>].copy.status # "none" /\ file[n].status # "none"

\* A file that was stored is not asked for again.
LEMMA AskedKept ==
    ASSUME NodesType, NEW n \in Nodes, file'[n].status # "none",
           \/ file[n] # NoFile
           \/ \A m \in Nodes : asked'[m] = "sent" => m # n,
           \A m \in Nodes : m # n => file'[m] = file[m],
           \A m \in Nodes : asked'[m] = "sent" => asked[m] = "sent"
    PROVE  AskedOnce'
  BY EmptyFile DEF NodesType, AskedOnce

\* Every step keeps the types.
LEMMA NodesTypeStep ==
    ASSUME NodesType, CopiesStored, [NodeNext]_nodeVars PROVE NodesType'
  <1>0. ASSUME UNCHANGED <<file, asked>> PROVE AskedOnce'
    BY <1>0 DEF NodesType, AskedOnce
  <1>s. ASSUME NEW v \in Nodes, NEW n \in Nodes, Runs(task[<<v, n>>]),
               NEW base, NEW c \in RequestFiles, c.status # "none", SaveFile(n, base, c),
               UNCHANGED asked
        PROVE  /\ file' \in [Nodes -> RequestFiles] /\ raced' \subseteq Nodes
               /\ \A m \in Nodes : file'[m].status = "none" => file'[m] = NoFile
               /\ AskedOnce'
    <2>1. /\ file' \in [Nodes -> RequestFiles] /\ file'[n] = c
          /\ \A m \in Nodes : m # n => file'[m] = file[m]
          /\ raced' \subseteq Nodes
          /\ \A m \in Nodes : file'[m].status = "none" => file'[m] = NoFile
      BY <1>s, SavedFile
    <2>2. file[n] # NoFile
      BY <1>s, EmptyFile DEF CopiesStored
    <2> QED
      BY <1>s, <2>1, <2>2, AskedKept
  <1>1. ASSUME NEW n \in Nodes, SubmitJoinRequest(n) \/ ReceiveGossipedRequest(n)
        PROVE  NodesType'
    <2>1. \A m \in Nodes : file'[m].status = "none" => file'[m] = NoFile
      BY <1>1, StoredRequests DEF NodesType
    <2>2. /\ file' \in [Nodes -> RequestFiles]
          /\ asked' \in [Nodes -> {"none", "sent", "done"}]
          /\ UNCHANGED <<known, routed, task, joined, ballot, updates, raced, faults>>
      BY <1>1, StoredRequests, Zenon
    <2>3. AskedOnce'
      <3>1. \A m \in Nodes : m # n => file'[m] = file[m]
        BY <1>1, StoredRequests
      <3>2. \A m \in Nodes : asked'[m] = "sent" => m # n
        BY <1>1, StoredRequests
      <3>3. CASE (\A x \in Nodes : file[x] = NoFile) /\ file'[n] # NoFile
        BY <3>1, <3>2, <3>3 DEF AskedOnce
      <3>4. CASE \A m \in Nodes : asked'[m] = "sent" => asked[m] = "sent"
        <4>1. file[n] # NoFile => file'[n] # NoFile
          BY <1>1, StoredRequests, EmptyFile
        <4> QED
          BY <3>1, <3>2, <3>4, <4>1 DEF NodesType, AskedOnce
      <3> QED
        BY <1>1, <3>3, <3>4, StoredRequests
    <2> QED
      BY <2>1, <2>2, <2>3 DEF NodesType
  <1>2. ASSUME NEW n \in Nodes, HandlePeerJoined(n)
        PROVE  NodesType'
    <2>1. /\ UNCHANGED <<file, asked, task, ballot, updates, raced>>
          /\ joined' = [joined EXCEPT ![n] = "done"]
          /\ known' = [known EXCEPT ![n] = @ \cup {Fresh}]
      BY <1>2, Zenon DEF HandlePeerJoined
    <2> QED
      BY <1>0, <2>1 DEF NodesType
  <1>3. ASSUME NEW n \in Nodes, Stops(n)
        PROVE  NodesType'
    <2>1. /\ task' \in [Handlers -> NodeTasks]
          /\ UNCHANGED <<routed, ballot, updates, raced>>
      BY <1>3, CrashTasks, Zenon
    <2>2. CASE Crash(n)
      <3>1. UNCHANGED <<known, file, asked, joined>>
        BY <2>2, CrashFiles
      <3> QED
        BY <1>0, <2>1, <3>1 DEF NodesType
    <2>3. CASE TearPeers(n)
      <3>1. /\ UNCHANGED <<file, asked>> /\ known' = [known EXCEPT ![n] = {}]
            /\ joined' = joined \/ joined' = [joined EXCEPT ![n] = "done"]
        BY <2>3, CrashFiles
      <3> QED
        BY <1>0, <2>1, <3>1 DEF NodesType
    <2>4. CASE TearRequest(n)
      <3>1. UNCHANGED <<known, joined>>
        BY <2>4, CrashFiles
      <3>2. /\ file' \in [Nodes -> RequestFiles]
            /\ asked' \in [Nodes -> {"none", "sent", "done"}]
            /\ \A m \in Nodes : asked'[m] = "sent" => asked[m] = "sent" /\ m # n
            /\ \A m \in Nodes : m # n => file'[m] = file[m]
            /\ file'[n].status = "torn"
        BY <2>4, TornFile DEF CopiesStored
      <3>3. AskedOnce'
        BY <3>2, AskedKept
      <3> QED
        BY <2>1, <3>1, <3>2, <3>3 DEF NodesType
    <2> QED
      BY <1>3, <2>2, <2>3, <2>4 DEF Stops
  <1>4. ASSUME NEW n \in Nodes, NEW approve \in BOOLEAN, CastVote(n, approve)
        PROVE  NodesType'
    <2>1. /\ task' \in [Handlers -> NodeTasks]
          /\ ballot' \in [Nodes -> {"none", "yes", "no"}]
          /\ UNCHANGED <<known, file, asked, joined, updates, raced>>
      BY <1>4, CastVoteSteps, Zenon
    <2> QED
      BY <1>0, <2>1 DEF NodesType
  <1>5. ASSUME NEW n \in Nodes, NEW kind \in {"request", "vote", "joined"}, Lose(kind, n)
        PROVE  NodesType'
    <2>1. /\ task' \in [Handlers -> NodeTasks]
          /\ asked' \in [Nodes -> {"none", "sent", "done"}]
          /\ joined' \in [Nodes -> {"none", "sent", "done"}]
          /\ UNCHANGED <<known, file, ballot, updates, raced>>
      BY <1>5, LoseSteps, Zenon
    <2>2. \A m \in Nodes : asked'[m] = "sent" => asked[m] = "sent"
      BY <1>5, LoseSteps
    <2>3. AskedOnce'
      BY <2>1, <2>2 DEF NodesType, AskedOnce
    <2> QED
      BY <2>1, <2>3 DEF NodesType
  <1>6. ASSUME NEW v \in Nodes, NEW n \in Nodes, ReceiveGossipedVote(v, n)
        PROVE  NodesType'
    <2>1. /\ task' \in [Handlers -> NodeTasks]
          /\ UNCHANGED <<known, file, asked, joined, ballot, updates, raced>>
      BY <1>6, ReceiveVoteFrame
    <2> QED
      BY <1>0, <2>1 DEF NodesType
  <1>7. ASSUME NEW v \in Nodes, NEW n \in Nodes, SaveVote(v, n)
        PROVE  NodesType'
    <2>1. /\ UNCHANGED <<known, asked, joined, ballot, updates>>
          /\ SaveFile(n, task[<<v, n>>].base, task[<<v, n>>].copy)
      BY <1>7, Zenon DEF SaveVote
    <2>2. /\ Runs(task[<<v, n>>])
          /\ task[<<v, n>>].copy \in RequestFiles /\ task[<<v, n>>].copy.status # "none"
      BY <1>7, SaveVoteOwn DEF CopiesStored, Runs
    <2>3. task' \in [Handlers -> NodeTasks]
      BY <1>7, SaveVoteOthers
    <2> QED
      BY <1>s, <2>1, <2>2, <2>3 DEF NodesType
  <1>8. ASSUME NEW v \in Nodes, NEW n \in Nodes, CheckMajority(v, n)
        PROVE  NodesType'
    <2>1. UNCHANGED <<known, asked, joined, ballot, updates>>
      BY <1>8, Zenon DEF CheckMajority
    <2>2. task' \in [Handlers -> NodeTasks]
      BY <1>8, CheckMajorityOthers
    <2>3. CASE UNCHANGED <<file, raced>>
      BY <1>0, <2>1, <2>2, <2>3 DEF NodesType
    <2>4. CASE SaveFile(n, task[<<v, n>>].base, ApprovedCopy(task[<<v, n>>]))
      <3>1. /\ ApprovedCopy(task[<<v, n>>]) \in RequestFiles
            /\ ApprovedCopy(task[<<v, n>>]).status # "none"
            /\ Runs(task[<<v, n>>])
        BY <1>8, CheckMajoritySteps DEF Runs
      <3> QED
        BY <1>s, <2>1, <2>2, <2>4, <3>1 DEF NodesType
    <2> QED
      BY <1>8, <2>3, <2>4, CheckMajoritySteps
  <1>9. ASSUME NEW v \in Nodes, ExecuteFails(v) \/ UpdateUnacknowledged(v)
        PROVE  NodesType'
    <2>1. Fail(v) /\ UNCHANGED <<known, asked, joined, ballot>>
      BY <1>9, FailCases
    <2>2. /\ task' \in [Handlers -> NodeTasks] /\ Orderer \in Nodes
          /\ task[<<v, Orderer>>].pc = "executing"
      BY <2>1, ExecutedTask, Zenon
    <2>3. PICK c \in RequestFiles : /\ SaveFile(Orderer, task[<<v, Orderer>>].base, c)
                                    /\ c.status = "rejected"
      BY <2>1, ExecuteFailsSteps
    <2>4. updates' = updates \/ updates' = updates + 1
      BY <1>9, FailCases
    <2>5. Runs(task[<<v, Orderer>>])
      BY <2>2 DEF Runs
    <2>6. /\ file' \in [Nodes -> RequestFiles] /\ raced' \subseteq Nodes
          /\ \A m \in Nodes : file'[m].status = "none" => file'[m] = NoFile
          /\ AskedOnce'
      BY <1>s, <2>1, <2>2, <2>3, <2>5
    <2> QED
      BY <2>1, <2>2, <2>4, <2>6 DEF NodesType
  <1>10. ASSUME NEW v \in Nodes, Announces(v)
         PROVE  NodesType'
    <2>1. /\ task' \in [Handlers -> NodeTasks] /\ Orderer \in Nodes
          /\ UNCHANGED <<file, asked, ballot, raced>>
          /\ updates' = updates \/ updates' = updates + 1
      BY <1>10, AnnounceTask, Zenon
    <2>2. /\ \/ UNCHANGED known
             \/ known' = [known EXCEPT ![Orderer] = @ \cup {Fresh}]
          /\ \/ UNCHANGED joined
             \/ joined' = [n \in Nodes |-> IF n \in Targets(Orderer) THEN "sent" ELSE joined[n]]
      BY <1>10, Zenon DEF Announces, SubmitConfigUpdate, AddPeer, BroadcastPeerJoined
    <2>3. joined' \in [Nodes -> {"none", "sent", "done"}]
      BY <2>2 DEF NodesType
    <2>4. known' \in [Nodes -> SUBSET (Peers \cup {Fresh})]
      BY <2>2 DEF NodesType
    <2> QED
      BY <1>0, <2>1, <2>3, <2>4 DEF NodesType
  <1>11. CASE UNCHANGED nodeVars
    BY <1>0, <1>11 DEF nodeVars, NodesType
  <1> QED
    BY <1>1, <1>2, <1>3, <1>4, <1>5, <1>6, <1>7, <1>8, <1>9, <1>10, <1>11
    DEF NodeNext, Stops, Announces

-----------------------------------------------------------------------------
(* Handlers                                                                *)

\* A vote reaches other nodes after its own node has saved it.
VotesOrdered ==
    \A v \in Nodes :
        /\ ballot[v] = "none" <=> task[<<v, v>>].pc = "none"
        /\ task[<<v, v>>].pc \in {"none", "loaded"} =>
             \A n \in Nodes : n # v => task[<<v, n>>].pc = "none"

\* What holds of the votes, step by step: a node's ballot is cast once and its
\* tasks begin at its own.
LEMMA BallotsStep ==
    ASSUME NodesType, VotesOrdered, [NodeNext]_nodeVars
    PROVE  /\ \A v \in Nodes : ballot[v] # "none" => ballot'[v] = ballot[v]
           /\ VotesOrdered'
  <1> DEFINE Goal == /\ \A v \in Nodes : ballot[v] # "none" => ballot'[v] = ballot[v]
                     /\ VotesOrdered'
  <1>1. ASSUME UNCHANGED <<task, ballot>>
        PROVE  Goal
    BY <1>1 DEF VotesOrdered
  <1>2. ASSUME UNCHANGED ballot,
               \A w, m \in Nodes :
                  \/ task'[<<w, m>>] = task[<<w, m>>]
                  \/ /\ task[<<w, m>>].pc # "none" /\ task'[<<w, m>>].pc \notin {"none", "loaded"}
                  \/ /\ task[<<w, m>>].pc = "sent" /\ w # m
        PROVE  Goal
    <2>1. ASSUME NEW v \in Nodes
          PROVE  ballot'[v] = "none" <=> task'[<<v, v>>].pc = "none"
      BY <1>2 DEF VotesOrdered
    <2>2. ASSUME NEW v \in Nodes, task'[<<v, v>>].pc \in {"none", "loaded"},
                 NEW n \in Nodes, n # v
          PROVE  task'[<<v, n>>].pc = "none"
      <3>1. task[<<v, v>>].pc \in {"none", "loaded"}
        BY <1>2, <2>2
      <3>2. task[<<v, n>>].pc = "none"
        BY <2>2, <3>1 DEF VotesOrdered
      <3> QED
        BY <1>2, <3>2
    <2> QED
      BY <1>2, <2>1, <2>2 DEF VotesOrdered
  <1>3. ASSUME NEW n \in Nodes, SubmitJoinRequest(n) \/ ReceiveGossipedRequest(n)
        PROVE  Goal
    BY <1>1, <1>3, StoredRequests, Zenon
  <1>4. ASSUME NEW n \in Nodes, HandlePeerJoined(n)
        PROVE  Goal
    BY <1>1, <1>4, Zenon DEF HandlePeerJoined
  <1>5. ASSUME NEW n \in Nodes, Stops(n)
        PROVE  Goal
    BY <1>2, <1>5, CrashTasks DEF Runs
  <1>6. ASSUME NEW n \in Nodes, NEW approve \in BOOLEAN, CastVote(n, approve)
        PROVE  Goal
    <2>1. /\ task[<<n, n>>].pc = "none" /\ task'[<<n, n>>].pc = "loaded"
          /\ \A w, m \in Nodes : <<w, m>> # <<n, n>> => task'[<<w, m>>] = task[<<w, m>>]
          /\ ballot'[n] # "none"
          /\ \A v \in Nodes : v # n => ballot'[v] = ballot[v]
      BY <1>6, CastVoteSteps
    <2> QED
      BY <2>1 DEF VotesOrdered
  <1>7. ASSUME NEW n \in Nodes, NEW kind \in {"request", "vote", "joined"}, Lose(kind, n)
        PROVE  Goal
    <2>1. UNCHANGED ballot
      BY <1>7, Zenon DEF Lose
    <2>2. ASSUME NEW w \in Nodes, NEW m \in Nodes
          PROVE  \/ task'[<<w, m>>] = task[<<w, m>>]
                 \/ /\ task[<<w, m>>].pc = "sent" /\ w # m
      <3>1. \/ task'[<<w, m>>] = task[<<w, m>>]
            \/ /\ kind = "vote" /\ w # m /\ task[<<w, m>>].pc = "sent"
               /\ task'[<<w, m>>].pc = "done"
        BY <1>7, LoseSteps
      <3> QED
        BY <3>1, Zenon
    <2> QED
      BY <1>2, <2>1, <2>2
  <1>8. ASSUME NEW v \in Nodes, NEW n \in Nodes, ReceiveGossipedVote(v, n)
        PROVE  Goal
    <2>1. /\ UNCHANGED ballot /\ v # n /\ task[<<v, n>>].pc = "sent"
          /\ \A w, m \in Nodes : <<w, m>> # <<v, n>> => task'[<<w, m>>] = task[<<w, m>>]
      BY <1>8, ReceiveVoteFrame
    <2> QED
      BY <1>2, <2>1
  <1>9. ASSUME NEW v \in Nodes, NEW n \in Nodes, SaveVote(v, n)
        PROVE  Goal
    <2>1. UNCHANGED ballot
      BY <1>9, Zenon DEF SaveVote
    <2>2. /\ task[<<v, n>>].pc = "loaded" /\ task'[<<v, n>>].pc = "saved"
          /\ \A w, m \in Nodes : <<w, m>> # <<v, n>> =>
               \/ task'[<<w, m>>] = task[<<w, m>>]
               \/ (v = n /\ w = v /\ m # n /\ task'[<<w, m>>].pc = "sent")
      BY <1>9, SaveVoteOthers, ZenonT(60)
    <2>3. ASSUME NEW w \in Nodes
          PROVE  ballot'[w] = "none" <=> task'[<<w, w>>].pc = "none"
      BY <2>1, <2>2 DEF VotesOrdered
    <2>4. ASSUME NEW w \in Nodes, task'[<<w, w>>].pc \in {"none", "loaded"},
                 NEW m \in Nodes, m # w
          PROVE  task'[<<w, m>>].pc = "none"
      <3>1. <<w, w>> # <<v, n>> /\ task'[<<w, w>>] = task[<<w, w>>]
        BY <2>2, <2>4
      <3>2. task[<<w, m>>].pc = "none"
        BY <2>4, <3>1 DEF VotesOrdered
      <3>3. <<w, m>> # <<v, n>>
        BY <2>2, <3>2
      <3> QED
        BY <2>2, <3>1, <3>2, <3>3
    <2> QED
      BY <2>1, <2>3, <2>4 DEF VotesOrdered
  <1>10. ASSUME NEW v \in Nodes, NEW n \in Nodes, CheckMajority(v, n)
         PROVE  Goal
    <2>1. UNCHANGED ballot
      BY <1>10, Zenon DEF CheckMajority
    <2>2. /\ task[<<v, n>>].pc = "saved" /\ task'[<<v, n>>].pc \in {"executing", "done"}
          /\ \A w, m \in Nodes : <<w, m>> # <<v, n>> => task'[<<w, m>>] = task[<<w, m>>]
      BY <1>10, CheckMajorityOthers
    <2> QED
      BY <1>2, <2>1, <2>2
  <1>11. ASSUME NEW v \in Nodes, ExecuteFails(v) \/ UpdateUnacknowledged(v)
         PROVE  Goal
    <2>1. UNCHANGED ballot /\ Fail(v)
      BY <1>11, FailCases
    <2>2. /\ task[<<v, Orderer>>].pc = "executing" /\ task'[<<v, Orderer>>].pc = "done"
          /\ \A w, m \in Nodes : <<w, m>> # <<v, Orderer>> => task'[<<w, m>>] = task[<<w, m>>]
      BY <2>1, ExecutedTask, Zenon
    <2> QED
      BY <1>2, <2>1, <2>2
  <1>12. ASSUME NEW v \in Nodes, Announces(v)
         PROVE  Goal
    <2>1. /\ Runs(task[<<v, Orderer>>])
          /\ task'[<<v, Orderer>>].pc \in {"updated", "added", "done"}
          /\ \A w, m \in Nodes : <<w, m>> # <<v, Orderer>> => task'[<<w, m>>] = task[<<w, m>>]
          /\ UNCHANGED ballot
      BY <1>12, AnnounceTask, Zenon
    <2> QED
      BY <1>2, <2>1 DEF Runs
  <1>13. CASE UNCHANGED nodeVars
    BY <1>1, <1>13 DEF nodeVars
  <1> QED
    BY <1>3, <1>4, <1>5, <1>6, <1>7, <1>8, <1>9, <1>10, <1>11, <1>12, <1>13
    DEF NodeNext, Stops, Announces

\* What a handler that runs has read and changed.
HandlerOK(v, n) ==
    /\ Runs(task[<<v, n>>]) =>
         /\ file[n].status # "none" /\ task[<<v, n>>].copy.status # "none"
         /\ task[<<v, n>>].copy.total = file[n].total
         /\ task[<<v, n>>].base.votes \subseteq task[<<v, n>>].copy.votes
    /\ task[<<v, n>>].pc = "loaded" =>
         /\ task[<<v, n>>].base.status = task[<<v, n>>].copy.status
         /\ <<v, ballot[v] = "yes">> \in task[<<v, n>>].copy.votes
    /\ task[<<v, n>>].pc = "saved" => task[<<v, n>>].base = task[<<v, n>>].copy
    /\ task[<<v, n>>].pc = "executing" =>
         /\ n = Orderer /\ task[<<v, n>>].base = task[<<v, n>>].copy
         /\ task[<<v, n>>].copy.status = "approved"

HandlersOK == \A v, n \in Nodes : HandlerOK(v, n)

\* A stored file keeps the number of peers to count against.
FileKept(m) ==
    \/ file'[m] = file[m]
    \/ file[m].status = "none"
    \/ file'[m].status # "none" /\ file'[m].total = file[m].total

\* A vote that is being handled was cast.
LEMMA TaskHasBallot ==
    ASSUME VotesOrdered, NEW v \in Nodes, NEW n \in Nodes, task[<<v, n>>].pc # "none"
    PROVE  ballot[v] # "none"
  BY DEF VotesOrdered

\* A handler that the step leaves alone keeps what it knows.
LEMMA HandlerKept ==
    ASSUME NodesType, VotesOrdered, HandlersOK, [NodeNext]_nodeVars,
           NEW v \in Nodes, NEW n \in Nodes, FileKept(n),
           task'[<<v, n>>] = task[<<v, n>>] \/ ~Runs(task'[<<v, n>>])
    PROVE  HandlerOK(v, n)'
  <1>1. CASE ~Runs(task'[<<v, n>>])
    BY <1>1 DEF HandlerOK, Runs
  <1>2. CASE task'[<<v, n>>] = task[<<v, n>>] /\ Runs(task[<<v, n>>])
    <2>1. ballot'[v] = ballot[v]
      BY <1>2, TaskHasBallot, BallotsStep DEF Runs
    <2>2. file[n].status # "none"
      BY <1>2 DEF HandlersOK, HandlerOK
    <2>3. file'[n].status # "none" /\ file'[n].total = file[n].total
      BY <2>2 DEF FileKept
    <2> QED
      BY <1>2, <2>1, <2>3 DEF HandlersOK, HandlerOK, Runs
  <1> QED
    BY <1>1, <1>2

\* A save keeps the number of peers to count against.
LEMMA SaveKeeps ==
    ASSUME NodesType, NEW n \in Nodes, NEW base, NEW c \in RequestFiles,
           c.status # "none", c.total = file[n].total, SaveFile(n, base, c)
    PROVE  \A m \in Nodes : FileKept(m)
  BY SavedFile DEF FileKept

\* Every step keeps what handlers work on, and no file loses votes.
LEMMA HandlersStep ==
    ASSUME NodesType, VotesOrdered, HandlersOK, [NodeNext]_nodeVars
    PROVE  HandlersOK' /\ \A m \in Nodes : FileKept(m)
  <1> DEFINE Goal == HandlersOK' /\ \A m \in Nodes : FileKept(m)
  <1>1. ASSUME \A m \in Nodes : FileKept(m),
               \A w, m \in Nodes : \/ task'[<<w, m>>] = task[<<w, m>>]
                                   \/ ~Runs(task'[<<w, m>>])
        PROVE  Goal
    BY <1>1, HandlerKept DEF HandlersOK
  <1>2. ASSUME \A m \in Nodes : FileKept(m), NEW v \in Nodes, NEW n \in Nodes,
               \A w, m \in Nodes : <<w, m>> # <<v, n>> =>
                  task'[<<w, m>>] = task[<<w, m>>] \/ ~Runs(task'[<<w, m>>]),
               HandlerOK(v, n)'
        PROVE  Goal
    <2>1. ASSUME NEW w \in Nodes, NEW m \in Nodes PROVE HandlerOK(w, m)'
      <3>1. CASE <<w, m>> # <<v, n>>
        BY <1>2, <3>1, HandlerKept
      <3>2. CASE <<w, m>> = <<v, n>>
        BY <1>2, <3>2
      <3> QED
        BY <3>1, <3>2
    <2> QED
      BY <1>2, <2>1 DEF HandlersOK
  <1>3. UNCHANGED file => \A m \in Nodes : FileKept(m)
    BY DEF FileKept
  <1> HIDE DEF Goal
  <1>4. ASSUME NEW n \in Nodes, SubmitJoinRequest(n) \/ ReceiveGossipedRequest(n)
        PROVE  Goal
    <2>1. UNCHANGED task
      BY <1>4, StoredRequests, Zenon
    <2>2. \A m \in Nodes : file'[m] = file[m] \/ file[m] = NoFile
      BY <1>4, StoredRequests
    <2>3. \A m \in Nodes : FileKept(m)
      BY <2>2, EmptyFile DEF FileKept
    <2> QED
      BY <1>1, <2>1, <2>3
  <1>5. ASSUME NEW n \in Nodes, HandlePeerJoined(n)
        PROVE  Goal
    <2>1. UNCHANGED <<task, file>>
      BY <1>5, Zenon DEF HandlePeerJoined
    <2> QED
      BY <1>1, <1>3, <2>1
  <1>6. ASSUME NEW n \in Nodes, Stops(n)
        PROVE  Goal
    <2>1. \A m \in Nodes : FileKept(m)
      <3>1. CASE TearRequest(n)
        <4>1. \A v \in Nodes : Runs(task[<<v, n>>]) => file[n].status # "none"
          BY DEF HandlersOK, HandlerOK
        <4>2. /\ \A m \in Nodes : m # n => file'[m] = file[m]
              /\ file'[n].status = "torn"
              /\ file'[n].total = file[n].total \/ file[n] = NoFile
          BY <3>1, <4>1, TornFile
        <4> QED
          BY <4>2, EmptyFile DEF FileKept
      <3>2. CASE UNCHANGED file
        BY <1>3, <3>2
      <3> QED
        BY <1>6, <3>1, <3>2, CrashFiles DEF Stops
    <2>2. ASSUME NEW w \in Nodes, NEW m \in Nodes
          PROVE  task'[<<w, m>>] = task[<<w, m>>] \/ ~Runs(task'[<<w, m>>])
      BY <1>6, CrashTasks DEF Runs
    <2> QED
      BY <1>1, <2>1, <2>2
  <1>7. ASSUME NEW n \in Nodes, NEW approve \in BOOLEAN, CastVote(n, approve)
        PROVE  Goal
    <2>1. UNCHANGED file /\ file[n].status = "pending"
      BY <1>7, Zenon DEF CastVote
    <2>2. \A w, m \in Nodes : <<w, m>> # <<n, n>> => task'[<<w, m>>] = task[<<w, m>>]
      BY <1>7, CastVoteSteps, ZenonT(60)
    <2>3. /\ task'[<<n, n>>].pc = "loaded" /\ task'[<<n, n>>].base = file[n]
          /\ task'[<<n, n>>].copy.status = file[n].status
          /\ task'[<<n, n>>].copy.total = file[n].total
          /\ task'[<<n, n>>].copy.votes = file[n].votes \cup {<<n, approve>>}
          /\ ballot'[n] = IF approve THEN "yes" ELSE "no"
      BY <1>7, CastVoteSteps
    <2>4. HandlerOK(n, n)'
      BY <2>1, <2>3 DEF HandlerOK, Runs
    <2> QED
      BY <1>2, <1>3, <2>1, <2>2, <2>4
  <1>8. ASSUME NEW n \in Nodes, NEW kind \in {"request", "vote", "joined"}, Lose(kind, n)
        PROVE  Goal
    <2>1. UNCHANGED file
      BY <1>8, Zenon DEF Lose
    <2>2. ASSUME NEW w \in Nodes, NEW m \in Nodes
          PROVE  task'[<<w, m>>] = task[<<w, m>>] \/ task'[<<w, m>>].pc = "done"
      BY <1>8, LoseSteps
    <2> QED
      BY <1>1, <1>3, <2>1, <2>2 DEF Runs
  <1>9. ASSUME NEW v \in Nodes, NEW n \in Nodes, ReceiveGossipedVote(v, n)
        PROVE  Goal
    <2>1. UNCHANGED <<file, ballot>>
      BY <1>9, Zenon DEF ReceiveGossipedVote
    <2>2. \A w, m \in Nodes : <<w, m>> # <<v, n>> => task'[<<w, m>>] = task[<<w, m>>]
      BY <1>9, ReceiveVoteFrame
    <2>3. \/ task'[<<v, n>>].pc = "done"
          \/ /\ ~Unreadable(n)
             /\ task'[<<v, n>>].pc = "loaded" /\ task'[<<v, n>>].base = file[n]
             /\ task'[<<v, n>>].copy.status = file[n].status
             /\ task'[<<v, n>>].copy.total = file[n].total
             /\ task'[<<v, n>>].copy.votes = file[n].votes \cup {<<v, ballot[v] = "yes">>}
      BY <1>9, ReceiveVoteSteps, ZenonT(60)
    <2>4. ~Unreadable(n) => file[n].status # "none"
      BY DEF Unreadable
    <2>5. HandlerOK(v, n)'
      BY <2>1, <2>3, <2>4 DEF HandlerOK, Runs
    <2> QED
      BY <1>2, <1>3, <2>1, <2>2, <2>5
  <1>10. ASSUME NEW v \in Nodes, NEW n \in Nodes, SaveVote(v, n)
         PROVE  Goal
    <2> DEFINE t == task[<<v, n>>]
    <2>1. SaveFile(n, t.base, t.copy) /\ t.pc = "loaded"
      BY <1>10, Zenon DEF SaveVote
    <2>2. t.copy \in RequestFiles
      BY HandlerPairs DEF NodesType, NodeTasks
    <2>3. t.copy.status # "none" /\ t.copy.total = file[n].total
      BY <2>1 DEF HandlersOK, HandlerOK, Runs
    <2>4. \A m \in Nodes : FileKept(m)
      BY <2>1, <2>2, <2>3, SaveKeeps
    <2>5. file'[n] = t.copy
      BY <2>1, <2>2, <2>3, SavedFile
    <2>6. /\ task'[<<v, n>>].pc = "saved" /\ task'[<<v, n>>].base = t.copy
          /\ task'[<<v, n>>].copy = t.copy
      BY <1>10, SaveVoteOwn
    <2> HIDE DEF t
    <2>7. HandlerOK(v, n)'
      BY <2>3, <2>5, <2>6 DEF HandlerOK, Runs
    <2>8. ASSUME NEW w \in Nodes, NEW m \in Nodes, <<w, m>> # <<v, n>>
          PROVE  task'[<<w, m>>] = task[<<w, m>>] \/ ~Runs(task'[<<w, m>>])
      BY <1>10, <2>8, SaveVoteOthers DEF Runs
    <2> QED
      BY <1>2, <2>4, <2>7, <2>8
  <1>11. ASSUME NEW v \in Nodes, NEW n \in Nodes, CheckMajority(v, n)
         PROVE  Goal
    <2> DEFINE t == task[<<v, n>>]
               c == ApprovedCopy(t)
    <2>1. /\ t.pc = "saved" /\ c \in RequestFiles /\ c.status = "approved"
          /\ c.total = t.copy.total
      BY <1>11, CheckMajoritySteps
    <2>2. \A w, m \in Nodes : <<w, m>> # <<v, n>> => task'[<<w, m>>] = task[<<w, m>>]
      BY <1>11, CheckMajorityOthers
    <2>3. \/ /\ SaveFile(n, t.base, c)
             /\ task'[<<v, n>>].pc = IF n = Orderer THEN "executing" ELSE "done"
             /\ n = Orderer => task'[<<v, n>>].base = c /\ task'[<<v, n>>].copy = c
          \/ task'[<<v, n>>].pc = "done" /\ UNCHANGED file
      BY <1>11, CheckMajoritySteps
    <2>4. c.total = file[n].total
      BY <2>1 DEF HandlersOK, HandlerOK, Runs
    <2> HIDE DEF t, c
    <2>5. ASSUME SaveFile(n, t.base, c) PROVE \A m \in Nodes : FileKept(m)
      BY <2>1, <2>4, <2>5, SaveKeeps
    <2>6. \A m \in Nodes : FileKept(m)
      BY <1>3, <2>3, <2>5
    <2>7. HandlerOK(v, n)'
      <3>1. CASE task'[<<v, n>>].pc = "done"
        BY <3>1 DEF HandlerOK, Runs
      <3>2. CASE task'[<<v, n>>].pc # "done"
        <4>1. /\ SaveFile(n, t.base, c) /\ n = Orderer /\ task'[<<v, n>>].pc = "executing"
              /\ task'[<<v, n>>].base = c /\ task'[<<v, n>>].copy = c
          BY <2>3, <3>2
        <4>2. file'[n] = c
          BY <2>1, <4>1, SavedFile
        <4> QED
          BY <2>1, <4>1, <4>2 DEF HandlerOK, Runs
      <3> QED
        BY <3>1, <3>2
    <2> QED
      BY <1>2, <2>2, <2>6, <2>7
  <1>12. ASSUME NEW v \in Nodes, ExecuteFails(v) \/ UpdateUnacknowledged(v)
         PROVE  Goal
    <2> DEFINE t == task[<<v, Orderer>>]
    <2>0. Fail(v)
      BY <1>12, FailCases
    <2>1. PICK c \in RequestFiles :
             SaveFile(Orderer, t.base, c) /\ c.status = "rejected" /\ c.total = t.copy.total
      BY <2>0, ExecuteFailsSteps
    <2>2. /\ Orderer \in Nodes /\ t.pc = "executing" /\ task'[<<v, Orderer>>].pc = "done"
          /\ \A w, m \in Nodes : <<w, m>> # <<v, Orderer>> => task'[<<w, m>>] = task[<<w, m>>]
      BY <2>0, ExecutedTask, Zenon
    <2>3. c.total = file[Orderer].total
      BY <2>1, <2>2 DEF HandlersOK, HandlerOK, Runs
    <2>4. \A m \in Nodes : FileKept(m)
      BY <2>1, <2>2, <2>3, SaveKeeps
    <2>5. ASSUME NEW w \in Nodes, NEW m \in Nodes
          PROVE  task'[<<w, m>>] = task[<<w, m>>] \/ ~Runs(task'[<<w, m>>])
      BY <2>2 DEF Runs
    <2> QED
      BY <1>1, <2>4, <2>5
  <1>13. ASSUME NEW v \in Nodes, Announces(v)
         PROVE  Goal
    <2>1. /\ Orderer \in Nodes /\ Runs(task[<<v, Orderer>>])
          /\ task'[<<v, Orderer>>].pc \in {"updated", "added", "done"}
          /\ task'[<<v, Orderer>>].base = task[<<v, Orderer>>].base
          /\ task'[<<v, Orderer>>].copy = task[<<v, Orderer>>].copy
          /\ \A w, m \in Nodes : <<w, m>> # <<v, Orderer>> => task'[<<w, m>>] = task[<<w, m>>]
          /\ UNCHANGED file
      BY <1>13, AnnounceTask, Zenon
    <2>2. HandlerOK(v, Orderer)'
      <3>1. HandlerOK(v, Orderer)
        BY <2>1 DEF HandlersOK
      <3>2. /\ file[Orderer].status # "none" /\ task[<<v, Orderer>>].copy.status # "none"
            /\ task[<<v, Orderer>>].copy.total = file[Orderer].total
            /\ task[<<v, Orderer>>].base.votes \subseteq task[<<v, Orderer>>].copy.votes
        BY <2>1, <3>1 DEF HandlerOK
      <3>3. task'[<<v, Orderer>>].pc \notin {"loaded", "saved", "executing"}
        BY <2>1
      <3> QED
        BY <2>1, <3>2, <3>3 DEF HandlerOK
    <2>3. ASSUME NEW w \in Nodes, NEW m \in Nodes, <<w, m>> # <<v, Orderer>>
          PROVE  task'[<<w, m>>] = task[<<w, m>>] \/ ~Runs(task'[<<w, m>>])
      BY <2>1, <2>3
    <2> QED
      BY <1>2, <1>3, <2>1, <2>2, <2>3
  <1>14. ASSUME UNCHANGED nodeVars PROVE Goal
    BY <1>1, <1>3, <1>14 DEF nodeVars
  <1> QED
    BY <1>4, <1>5, <1>6, <1>7, <1>8, <1>9, <1>10, <1>11, <1>12, <1>13, <1>14
    DEF NodeNext, Stops, Announces, Goal

-----------------------------------------------------------------------------
(* Where files and copies come from                                        *)

\* A file is left alone, torn, arrives, or is saved by a handler that has read it.
FileSource(m) ==
    \/ file'[m] = file[m]
    \/ /\ file'[m].status = "torn" /\ file'[m].votes = {}
       /\ [kind |-> "torn", node |-> m] \in faults'
       /\ \/ file[m].status # "none"
          \/ \E x \in Nodes : file[x] # NoFile /\ file'[m].total = file[x].total
    \/ /\ file[m] = NoFile /\ file'[m].status = "pending" /\ file'[m].votes = {}
       /\ \/ \A x \in Nodes : file[x] = NoFile
          \/ \E x \in Nodes : file[x] # NoFile /\ file'[m].total = file[x].total
    \/ \E v \in Nodes :
          /\ Runs(task[<<v, m>>]) /\ (m \notin raced' => file[m] = task[<<v, m>>].base)
          /\ file'[m].votes = task[<<v, m>>].copy.votes
          /\ file'[m].total = task[<<v, m>>].copy.total
          /\ \/ file'[m].status = task[<<v, m>>].copy.status
             \/ /\ Reaches(task[<<v, m>>]) \/ task[<<v, m>>].copy.status = "approved"
                /\ file'[m].status # "torn"

\* A copy is left alone, made from the file, or goes on with a new status.
CopySource(v, m) ==
    \/ task'[<<v, m>>] = task[<<v, m>>]
    \/ ~Runs(task'[<<v, m>>])
    \/ /\ task'[<<v, m>>].copy.votes = file[m].votes \cup {<<v, ballot'[v] = "yes">>}
       /\ task'[<<v, m>>].copy.status = file[m].status
       /\ task'[<<v, m>>].copy.total = file[m].total
       /\ ballot'[v] # "none"
    \/ /\ Runs(task[<<v, m>>])
       /\ task'[<<v, m>>].copy.votes = task[<<v, m>>].copy.votes
       /\ task'[<<v, m>>].copy.total = task[<<v, m>>].copy.total
       /\ \/ task'[<<v, m>>].copy.status = task[<<v, m>>].copy.status
          \/ Reaches(task[<<v, m>>]) /\ task'[<<v, m>>].copy.status # "torn"

OneFileChanges == \E n \in Nodes : \A m \in Nodes : m # n => file'[m] = file[m]

\* A step changes one file, and every file and copy after it comes from one before.
LEMMA StepSources ==
    ASSUME NodesType, VotesOrdered, HandlersOK, [NodeNext]_nodeVars
    PROVE  /\ OneFileChanges
           /\ \A m \in Nodes : FileSource(m)
           /\ \A v, m \in Nodes : CopySource(v, m)
  <1> DEFINE Files1 == OneFileChanges /\ \A m \in Nodes : FileSource(m)
             Copies == \A v, m \in Nodes : CopySource(v, m)
  <1>1. ASSUME UNCHANGED file PROVE Files1
    BY <1>1, NodeManagerAssumption DEF OneFileChanges, FileSource
  <1>2. ASSUME \A v, m \in Nodes : \/ task'[<<v, m>>] = task[<<v, m>>]
                                   \/ ~Runs(task'[<<v, m>>])
        PROVE  Copies
    BY <1>2 DEF CopySource
  <1>3. ASSUME NEW v \in Nodes, NEW n \in Nodes, CopySource(v, n),
               \A w, m \in Nodes : <<w, m>> # <<v, n>> =>
                  task'[<<w, m>>] = task[<<w, m>>] \/ ~Runs(task'[<<w, m>>])
        PROVE  Copies
    <2>1. ASSUME NEW w \in Nodes, NEW m \in Nodes PROVE CopySource(w, m)
      <3>1. CASE <<w, m>> # <<v, n>>
        BY <1>3, <3>1 DEF CopySource
      <3>2. CASE <<w, m>> = <<v, n>>
        BY <1>3, <3>2
      <3> QED
        BY <3>1, <3>2
    <2> QED
      BY <2>1
  <1>4. ASSUME NEW n \in Nodes, FileSource(n),
               \A m \in Nodes : m # n => file'[m] = file[m]
        PROVE  Files1
    BY <1>4, SMTT(60) DEF OneFileChanges, FileSource
  <1> HIDE DEF Files1, Copies
  <1>5. ASSUME NEW n \in Nodes, SubmitJoinRequest(n) \/ ReceiveGossipedRequest(n)
        PROVE  Files1 /\ Copies
    <2>1. UNCHANGED task
      BY <1>5, StoredRequests, Zenon
    <2>2. \A m \in Nodes : m # n => file'[m] = file[m]
      BY <1>5, StoredRequests
    <2>3. FileSource(n)
      BY <1>5, StoredRequests DEF FileSource
    <2> QED
      BY <1>2, <1>4, <2>1, <2>2, <2>3
  <1>6. ASSUME NEW n \in Nodes, HandlePeerJoined(n)
        PROVE  Files1 /\ Copies
    <2>1. UNCHANGED <<task, file>>
      BY <1>6, Zenon DEF HandlePeerJoined
    <2> QED
      BY <1>1, <1>2, <2>1
  <1>7. ASSUME NEW n \in Nodes, Stops(n)
        PROVE  Files1 /\ Copies
    <2>1. Files1
      <3>1. CASE TearRequest(n)
        <4>1. \A v \in Nodes : Runs(task[<<v, n>>]) => file[n].status # "none"
          BY DEF HandlersOK, HandlerOK
        <4>2. \A m \in Nodes : m # n => file'[m] = file[m]
          BY <3>1, <4>1, TornFile
        <4>3. FileSource(n)
          BY <3>1, <4>1, TornFile, CrashFiles DEF FileSource
        <4> QED
          BY <1>4, <4>2, <4>3
      <3>2. CASE UNCHANGED file
        BY <1>1, <3>2
      <3> QED
        BY <1>7, <3>1, <3>2, CrashFiles DEF Stops
    <2>2. ASSUME NEW w \in Nodes, NEW m \in Nodes
          PROVE  task'[<<w, m>>] = task[<<w, m>>] \/ ~Runs(task'[<<w, m>>])
      BY <1>7, CrashTasks DEF Runs
    <2> QED
      BY <1>2, <2>1, <2>2
  <1>8. ASSUME NEW n \in Nodes, NEW approve \in BOOLEAN, CastVote(n, approve)
        PROVE  Files1 /\ Copies
    <2>1. UNCHANGED file
      BY <1>8, Zenon DEF CastVote
    <2>2. \A w, m \in Nodes : <<w, m>> # <<n, n>> => task'[<<w, m>>] = task[<<w, m>>]
      BY <1>8, CastVoteSteps, ZenonT(120)
    <2>3. /\ task'[<<n, n>>].copy.status = file[n].status
          /\ task'[<<n, n>>].copy.total = file[n].total
          /\ task'[<<n, n>>].copy.votes = file[n].votes \cup {<<n, approve>>}
          /\ ballot'[n] = IF approve THEN "yes" ELSE "no"
      BY <1>8, CastVoteSteps
    <2>4. (ballot'[n] = "yes") = approve /\ ballot'[n] # "none"
      BY <2>3
    <2>5. CopySource(n, n)
      BY <2>3, <2>4 DEF CopySource
    <2> QED
      BY <1>1, <1>3, <2>1, <2>2, <2>5
  <1>9. ASSUME NEW n \in Nodes, NEW kind \in {"request", "vote", "joined"}, Lose(kind, n)
        PROVE  Files1 /\ Copies
    <2>1. UNCHANGED file
      BY <1>9, Zenon DEF Lose
    <2>2. ASSUME NEW w \in Nodes, NEW m \in Nodes
          PROVE  task'[<<w, m>>] = task[<<w, m>>] \/ task'[<<w, m>>].pc = "done"
      BY <1>9, LoseSteps
    <2> QED
      BY <1>1, <1>2, <2>1, <2>2 DEF Runs
  <1>10. ASSUME NEW v \in Nodes, NEW n \in Nodes, ReceiveGossipedVote(v, n)
         PROVE  Files1 /\ Copies
    <2>1. UNCHANGED <<file, ballot>>
      BY <1>10, Zenon DEF ReceiveGossipedVote
    <2>2. /\ task[<<v, n>>].pc = "sent"
          /\ \A w, m \in Nodes : <<w, m>> # <<v, n>> => task'[<<w, m>>] = task[<<w, m>>]
      BY <1>10, ReceiveVoteFrame
    <2>3. \/ task'[<<v, n>>].pc = "done"
          \/ /\ task'[<<v, n>>].copy.status = file[n].status
             /\ task'[<<v, n>>].copy.total = file[n].total
             /\ task'[<<v, n>>].copy.votes = file[n].votes \cup {<<v, ballot[v] = "yes">>}
      BY <1>10, ReceiveVoteSteps, ZenonT(60)
    <2>4. ballot[v] # "none"
      BY <2>2, TaskHasBallot
    <2>5. CopySource(v, n)
      BY <2>1, <2>3, <2>4 DEF CopySource, Runs
    <2> QED
      BY <1>1, <1>3, <2>1, <2>2, <2>5
  <1>11. ASSUME NEW v \in Nodes, NEW n \in Nodes, SaveVote(v, n)
         PROVE  Files1 /\ Copies
    <2> DEFINE t == task[<<v, n>>]
    <2>1. /\ SaveFile(n, t.base, t.copy) /\ t.pc = "loaded" /\ t.copy \in RequestFiles
          /\ task'[<<v, n>>].copy = t.copy
      BY <1>11, SaveVoteOwn
    <2>2. t.copy.status # "none"
      BY <2>1 DEF HandlersOK, HandlerOK, Runs
    <2>3. /\ file'[n] = t.copy /\ \A m \in Nodes : m # n => file'[m] = file[m]
          /\ n \notin raced' => file[n] = t.base
      BY <2>1, <2>2, SavedFile
    <2>4. FileSource(n)
      BY <2>1, <2>3 DEF FileSource, Runs
    <2>5. CopySource(v, n)
      BY <2>1 DEF CopySource, Runs
    <2> HIDE DEF t
    <2>6. ASSUME NEW w \in Nodes, NEW m \in Nodes, <<w, m>> # <<v, n>>
          PROVE  task'[<<w, m>>] = task[<<w, m>>] \/ ~Runs(task'[<<w, m>>])
      BY <1>11, <2>6, SaveVoteOthers DEF Runs
    <2> QED
      BY <1>3, <1>4, <2>3, <2>4, <2>5, <2>6
  <1>12. ASSUME NEW v \in Nodes, NEW n \in Nodes, CheckMajority(v, n)
         PROVE  Files1 /\ Copies
    <2> DEFINE t == task[<<v, n>>]
               c == ApprovedCopy(t)
    <2>1. /\ t.pc = "saved" /\ c \in RequestFiles /\ c.status = "approved"
          /\ c.total = t.copy.total /\ c.votes = t.copy.votes
      BY <1>12, CheckMajoritySteps
    <2>2. \A w, m \in Nodes : <<w, m>> # <<v, n>> => task'[<<w, m>>] = task[<<w, m>>]
      BY <1>12, CheckMajorityOthers
    <2>3. \/ /\ SaveFile(n, t.base, c) /\ Reaches(t)
             /\ task'[<<v, n>>].pc = IF n = Orderer THEN "executing" ELSE "done"
             /\ n = Orderer => task'[<<v, n>>].base = c /\ task'[<<v, n>>].copy = c
          \/ task'[<<v, n>>].pc = "done" /\ UNCHANGED file
      BY <1>12, CheckMajoritySteps
    <2> HIDE DEF c
    <2>4. CopySource(v, n)
      BY <2>1, <2>3 DEF CopySource, Runs
    <2>5. ASSUME SaveFile(n, t.base, c) /\ Reaches(t) PROVE Files1
      <3>1. /\ file'[n] = c /\ \A m \in Nodes : m # n => file'[m] = file[m]
            /\ n \notin raced' => file[n] = t.base
        BY <2>1, <2>5, SavedFile
      <3>2. FileSource(n)
        BY <2>1, <2>5, <3>1 DEF FileSource, Runs
      <3> QED
        BY <1>4, <3>1, <3>2
    <2> QED
      BY <1>1, <1>3, <2>2, <2>3, <2>4, <2>5
  <1>13. ASSUME NEW v \in Nodes, ExecuteFails(v) \/ UpdateUnacknowledged(v)
         PROVE  Files1 /\ Copies
    <2>0. Fail(v)
      BY <1>13, FailCases
    <2> DEFINE t == task[<<v, Orderer>>]
    <2>1. PICK c \in RequestFiles :
             /\ SaveFile(Orderer, t.base, c) /\ c.status = "rejected"
             /\ c.total = t.copy.total /\ c.votes = t.copy.votes
      BY <2>0, ExecuteFailsSteps
    <2>2. /\ Orderer \in Nodes /\ t.pc = "executing" /\ task'[<<v, Orderer>>].pc = "done"
          /\ \A w, m \in Nodes : <<w, m>> # <<v, Orderer>> => task'[<<w, m>>] = task[<<w, m>>]
      BY <2>0, ExecutedTask, Zenon
    <2>3. t.copy.status = "approved"
      BY <2>2 DEF HandlersOK, HandlerOK
    <2>4. /\ file'[Orderer] = c /\ \A m \in Nodes : m # Orderer => file'[m] = file[m]
          /\ Orderer \notin raced' => file[Orderer] = t.base
      BY <2>1, <2>2, SavedFile
    <2>5. FileSource(Orderer)
      BY <2>1, <2>2, <2>3, <2>4 DEF FileSource, Runs
    <2>6. ASSUME NEW w \in Nodes, NEW m \in Nodes
          PROVE  task'[<<w, m>>] = task[<<w, m>>] \/ ~Runs(task'[<<w, m>>])
      BY <2>2 DEF Runs
    <2> QED
      BY <1>2, <1>4, <2>2, <2>4, <2>5, <2>6
  <1>14. ASSUME NEW v \in Nodes, Announces(v)
         PROVE  Files1 /\ Copies
    <2>1. /\ Orderer \in Nodes /\ Runs(task[<<v, Orderer>>])
          /\ task'[<<v, Orderer>>].copy = task[<<v, Orderer>>].copy
          /\ \A w, m \in Nodes : <<w, m>> # <<v, Orderer>> => task'[<<w, m>>] = task[<<w, m>>]
          /\ UNCHANGED file
      BY <1>14, AnnounceTask, Zenon
    <2>2. CopySource(v, Orderer)
      BY <2>1 DEF CopySource
    <2>3. ASSUME NEW w \in Nodes, NEW m \in Nodes, <<w, m>> # <<v, Orderer>>
          PROVE  task'[<<w, m>>] = task[<<w, m>>] \/ ~Runs(task'[<<w, m>>])
      BY <2>1, <2>3
    <2> QED
      BY <1>1, <1>3, <2>1, <2>2, <2>3
  <1>15. ASSUME UNCHANGED nodeVars PROVE Files1 /\ Copies
    BY <1>1, <1>2, <1>15 DEF nodeVars
  <1>16. Files1 /\ Copies
    BY <1>5, <1>6, <1>7, <1>8, <1>9, <1>10, <1>11, <1>12, <1>13, <1>14, <1>15
    DEF NodeNext, Stops, Announces
  <1> QED
    BY <1>16 DEF Files1, Copies

\* A vote that a node has handled stays in its file.
LEMMA VotesStayStep ==
    ASSUME NodesType, VotesOrdered, HandlersOK, [NodeNext]_nodeVars,
           NEW n \in Nodes, n \notin raced',
           file'[n].status # "torn" \/ [kind |-> "torn", node |-> n] \notin faults'
    PROVE  file[n].votes \subseteq file'[n].votes
  <1>1. FileSource(n)
    BY StepSources
  <1>2. CASE file[n] = NoFile
    BY <1>2, EmptyFile
  <1>3. ASSUME NEW v \in Nodes, Runs(task[<<v, n>>]), file[n] = task[<<v, n>>].base,
               file'[n].votes = task[<<v, n>>].copy.votes
        PROVE  file[n].votes \subseteq file'[n].votes
    BY <1>3, ZenonT(60) DEF HandlersOK, HandlerOK
  <1> QED
    BY <1>1, <1>2, <1>3 DEF FileSource

\* An update of the channel is one handler's.
LEMMA UpdatesStep ==
    ASSUME NodesType, [NodeNext]_nodeVars
    PROVE  \/ UNCHANGED updates
           \/ /\ updates' = updates + 1
              /\ \E v \in Nodes : task[<<v, Orderer>>].pc = "executing"
  <1>1. ASSUME NEW v \in Nodes, ExecuteFails(v) \/ UpdateUnacknowledged(v)
        PROVE  \/ UNCHANGED updates
               \/ updates' = updates + 1 /\ task[<<v, Orderer>>].pc = "executing"
    BY <1>1, FailCases DEF Fail
  <1>2. ASSUME NEW v \in Nodes, Announces(v)
        PROVE  \/ UNCHANGED updates
               \/ updates' = updates + 1 /\ task[<<v, Orderer>>].pc = "executing"
    BY <1>2, AnnounceTask
  <1>3. ASSUME NEW n \in Nodes, Stops(n) PROVE UNCHANGED updates
    BY <1>3, CrashTasks
  <1>4. ASSUME NEW n \in Nodes,
               \/ SubmitJoinRequest(n) \/ ReceiveGossipedRequest(n) \/ HandlePeerJoined(n)
               \/ \E approve \in BOOLEAN : CastVote(n, approve)
               \/ \E kind \in {"request", "vote", "joined"} : Lose(kind, n)
               \/ \E v \in Nodes :
                     ReceiveGossipedVote(v, n) \/ SaveVote(v, n) \/ CheckMajority(v, n)
        PROVE  UNCHANGED updates
    BY <1>4, ZenonT(60) DEF SubmitJoinRequest, ReceiveGossipedRequest, HandlePeerJoined, CastVote, Lose,
         ReceiveGossipedVote, SaveVote, CheckMajority
  <1>5. CASE UNCHANGED nodeVars
    BY <1>5 DEF nodeVars
  <1> QED
    BY <1>1, <1>2, <1>3, <1>4, <1>5 DEF NodeNext, Stops, Announces

\* Faults are remembered.
LEMMA FaultsGrow ==
    ASSUME NodesType, [NodeNext]_nodeVars PROVE faults \subseteq faults'
  <1>1. ASSUME NEW v \in Nodes, ExecuteFails(v) \/ UpdateUnacknowledged(v)
        PROVE  faults \subseteq faults'
    BY <1>1, FailCases
  <1>2. ASSUME NEW v \in Nodes, Announces(v)
        PROVE  faults \subseteq faults'
    BY <1>2, AnnounceTask
  <1>3. ASSUME NEW n \in Nodes, Stops(n) PROVE faults \subseteq faults'
    BY <1>3, CrashFiles
  <1>4. ASSUME NEW n \in Nodes,
               \/ SubmitJoinRequest(n) \/ ReceiveGossipedRequest(n) \/ HandlePeerJoined(n)
               \/ \E approve \in BOOLEAN : CastVote(n, approve)
               \/ \E v \in Nodes : SaveVote(v, n) \/ CheckMajority(v, n)
        PROVE  UNCHANGED faults
    BY <1>4, ZenonT(60) DEF SubmitJoinRequest, ReceiveGossipedRequest, HandlePeerJoined, CastVote, SaveVote,
         CheckMajority
  <1>5. ASSUME NEW n \in Nodes, NEW v \in Nodes, ReceiveGossipedVote(v, n)
        PROVE  faults \subseteq faults'
    BY <1>5 DEF ReceiveGossipedVote
  <1>6. ASSUME NEW n \in Nodes, NEW kind \in {"request", "vote", "joined"}, Lose(kind, n)
        PROVE  faults \subseteq faults'
    BY <1>6 DEF Lose
  <1>7. CASE UNCHANGED nodeVars
    BY <1>7 DEF nodeVars
  <1> QED
    BY <1>1, <1>2, <1>3, <1>4, <1>5, <1>6, <1>7 DEF NodeNext, Stops, Announces

\* What is torn was torn by a fault.
TornNamed ==
    /\ \A n \in Nodes : file[n].status = "torn" => [kind |-> "torn", node |-> n] \in faults
    /\ \A v, n \in Nodes : Runs(task[<<v, n>>]) /\ task[<<v, n>>].copy.status = "torn" =>
                             [kind |-> "torn", node |-> n] \in faults

\* Every step keeps the torn files to those that faults tore.
LEMMA TornNamedStep ==
    ASSUME NodesType, VotesOrdered, HandlersOK, TornNamed, [NodeNext]_nodeVars
    PROVE  TornNamed'
  <1>0. faults \subseteq faults'
    BY FaultsGrow
  <1>1. ASSUME NEW n \in Nodes, file'[n].status = "torn"
        PROVE  [kind |-> "torn", node |-> n] \in faults'
    <2>1. FileSource(n)
      BY StepSources
    <2> QED
      BY <1>0, <1>1, <2>1 DEF FileSource, TornNamed
  <1>2. ASSUME NEW v \in Nodes, NEW n \in Nodes, Runs(task'[<<v, n>>]),
               task'[<<v, n>>].copy.status = "torn"
        PROVE  [kind |-> "torn", node |-> n] \in faults'
    <2>1. CopySource(v, n)
      BY StepSources
    <2> QED
      BY <1>0, <1>2, <2>1 DEF CopySource, TornNamed
  <1> QED
    BY <1>1, <1>2 DEF TornNamed

-----------------------------------------------------------------------------
(* Votes are true, totals agree and majorities are real                    *)

\* The votes S were cast as b says.
Honest(b, S) ==
    \A v \in Nodes, approve \in BOOLEAN :
        <<v, approve>> \in S => b[v] = IF approve THEN "yes" ELSE "no"

VotesTrue ==
    /\ \A n \in Nodes : Honest(ballot, file[n].votes)
    /\ \A v, n \in Nodes : Runs(task[<<v, n>>]) => Honest(ballot, task[<<v, n>>].copy.votes)

TotalsAgree ==
    \A m, n \in Nodes : file[m].status # "none" /\ file[n].status # "none" =>
                           file[m].total = file[n].total

\* b approves for that many peers.
Enough(b, total) ==
    IF total = 0 THEN \E v \in Nodes : b[v] = "yes"
    ELSE 2 * Cardinality({v \in Peers : b[v] = "yes"}) > total

EnoughTrue ==
    /\ \A n \in Nodes : Resolved(n) => Enough(ballot, file[n].total)
    /\ \A v, n \in Nodes :
         Runs(task[<<v, n>>]) /\ task[<<v, n>>].copy.status \in {"approved", "rejected"} =>
            Enough(ballot, task[<<v, n>>].copy.total)
    /\ updates > 0 =>
         /\ file[Orderer].status # "none"
         /\ \A n \in Nodes : file[n].status # "none" => Enough(ballot, file[n].total)

\* Ballots that are cast stay as they are.
BallotsKept(b, c) == \A v \in Nodes : b[v] # "none" => c[v] = b[v]

\* Votes that were cast stay cast.
LEMMA HonestKept ==
    ASSUME NEW b, NEW c, NEW S, BallotsKept(b, c), Honest(b, S) PROVE Honest(c, S)
  BY DEF BallotsKept, Honest

\* A vote that was cast may be added.
LEMMA HonestOneMore ==
    ASSUME NEW b \in [Nodes -> {"none", "yes", "no"}], NEW S, NEW v \in Nodes,
           Honest(b, S), b[v] # "none"
    PROVE  Honest(b, S \cup {<<v, b[v] = "yes">>})
  <1> SUFFICES ASSUME NEW w \in Nodes, NEW approve \in BOOLEAN,
                      <<w, approve>> \in S \cup {<<v, b[v] = "yes">>}
               PROVE  b[w] = IF approve THEN "yes" ELSE "no"
    BY DEF Honest
  <1>1. CASE <<w, approve>> \in S
    BY <1>1 DEF Honest
  <1>2. CASE w = v /\ approve = (b[v] = "yes")
    BY <1>2
  <1> QED
    BY <1>1, <1>2

\* Peers are finitely many, so their approvals can be counted.
LEMMA ApprovalsCount ==
    ASSUME NEW S, S \subseteq Nodes
    PROVE  IsFiniteSet(S) /\ Cardinality(S) \in Nat
  BY NodeManagerAssumption, FS_Subset, FS_CardinalityType

\* More votes cast leave a majority a majority.
LEMMA EnoughKept ==
    ASSUME NEW b, NEW c, NEW total \in Nat, BallotsKept(b, c), Enough(b, total)
    PROVE  Enough(c, total)
  <1> DEFINE B == {v \in Peers : b[v] = "yes"}
             C == {v \in Peers : c[v] = "yes"}
  <1>1. CASE total = 0
    BY <1>1 DEF Enough, BallotsKept
  <1>2. CASE total # 0
    <2>1. B \subseteq C /\ C \subseteq Nodes
      BY DEF BallotsKept, Peers
    <2>2. Cardinality(B) <= Cardinality(C) /\ Cardinality(B) \in Nat /\ Cardinality(C) \in Nat
      BY <2>1, ApprovalsCount, FS_Subset
    <2>3. 2 * Cardinality(B) > total
      BY <1>2 DEF Enough
    <2> HIDE DEF B, C
    <2>4. 2 * Cardinality(C) > total
      BY <2>2, <2>3
    <2> QED
      BY <1>2, <2>4 DEF Enough, C
  <1> QED
    BY <1>1, <1>2

\* Half of a number, rounded down.
LEMMA HalfOf ==
    ASSUME NEW k \in Nat
    PROVE  k \div 2 \in Nat /\ k < 2 * (k \div 2 + 1) /\ 2 * (k \div 2) <= k
  OBVIOUS

\* A majority of votes that are true is one of the peers.
LEMMA MajorityIsEnough ==
    ASSUME NEW b, NEW req \in RequestFiles, Honest(b, req.votes), MajorityReached(req)
    PROVE  Enough(b, req.total)
  <1> DEFINE A == Approvals(req)
             B == {v \in Peers : b[v] = "yes"}
  <1>1. A \subseteq Nodes /\ B \subseteq Nodes
    BY DEF Approvals, Peers
  <1>2. IsFiniteSet(A) /\ Cardinality(A) \in Nat /\ IsFiniteSet(B) /\ Cardinality(B) \in Nat
    BY <1>1, ApprovalsCount
  <1>3. \A v \in A : v \in Nodes /\ b[v] = "yes" /\ (req.total = 0 \/ v # Orderer)
    BY DEF Approvals, Honest
  <1>4. req.total \in Nat /\ Cardinality(A) >= RequiredVotes(req)
    BY DEF RequestFiles, MajorityReached
  <1>5. CASE req.total = 0
    <2>1. Cardinality(A) # 0
      BY <1>2, <1>4, <1>5 DEF RequiredVotes
    <2>2. A # {}
      BY <2>1, FS_EmptySet
    <2> QED
      BY <1>3, <1>5, <2>2 DEF Enough
  <1>6. CASE req.total # 0
    <2>1. A \subseteq B
      BY <1>3, <1>6 DEF Peers
    <2>2. Cardinality(A) <= Cardinality(B)
      BY <1>2, <2>1, FS_Subset
    <2>3. Cardinality(A) >= req.total \div 2 + 1
      BY <1>4, <1>6 DEF RequiredVotes
    <2> HIDE DEF A, B
    <2>4. 2 * Cardinality(B) > req.total
      BY <1>2, <1>4, <2>2, <2>3, HalfOf
    <2> QED
      BY <1>6, <2>4 DEF Enough, B
  <1> QED
    BY <1>5, <1>6

\* Every step keeps the recorded votes to those cast.
LEMMA VotesTrueStep ==
    ASSUME NodesType, NodesType', VotesOrdered, HandlersOK, VotesTrue, [NodeNext]_nodeVars
    PROVE  VotesTrue'
  <1>1. BallotsKept(ballot, ballot')
    BY BallotsStep DEF BallotsKept
  <1>2. ASSUME NEW n \in Nodes PROVE Honest(ballot', file[n].votes)
    BY <1>1, HonestKept DEF VotesTrue
  <1>3. ASSUME NEW v \in Nodes, NEW n \in Nodes, Runs(task[<<v, n>>])
        PROVE  Honest(ballot', task[<<v, n>>].copy.votes)
    BY <1>1, <1>3, HonestKept DEF VotesTrue
  <1>4. ASSUME NEW n \in Nodes PROVE Honest(ballot', file'[n].votes)
    <2>1. FileSource(n)
      BY StepSources
    <2>2. CASE file'[n].votes = {}
      BY <2>2 DEF Honest
    <2> QED
      BY <1>2, <1>3, <2>1, <2>2 DEF FileSource
  <1>5. ASSUME NEW v \in Nodes, NEW n \in Nodes, Runs(task'[<<v, n>>])
        PROVE  Honest(ballot', task'[<<v, n>>].copy.votes)
    <2>1. CopySource(v, n)
      BY StepSources
    <2>2. CASE /\ task'[<<v, n>>].copy.votes = file[n].votes \cup {<<v, ballot'[v] = "yes">>}
               /\ ballot'[v] # "none"
      <3> DEFINE S == file[n].votes
                 b == ballot'
      <3>1. Honest(b, S) /\ b \in [Nodes -> {"none", "yes", "no"}] /\ b[v] # "none"
        BY <1>2, <2>2 DEF NodesType
      <3> HIDE DEF S, b
      <3>2. Honest(b, S \cup {<<v, b[v] = "yes">>})
        BY <3>1, HonestOneMore
      <3> QED
        BY <2>2, <3>2 DEF S, b
    <2>3. CASE task'[<<v, n>>] = task[<<v, n>>]
      BY <1>3, <1>5, <2>3
    <2>4. CASE Runs(task[<<v, n>>]) /\ task'[<<v, n>>].copy.votes = task[<<v, n>>].copy.votes
      BY <1>3, <2>4
    <2> QED
      BY <1>5, <2>1, <2>2, <2>3, <2>4 DEF CopySource
  <1> QED
    BY <1>4, <1>5 DEF VotesTrue

\* Every step keeps the nodes agreed on the number of voters.
LEMMA TotalsAgreeStep ==
    ASSUME NodesType, VotesOrdered, HandlersOK, TotalsAgree, [NodeNext]_nodeVars
    PROVE  TotalsAgree'
  <1> PICK n \in Nodes : \A m \in Nodes : m # n => file'[m] = file[m]
    BY StepSources DEF OneFileChanges
  <1>1. FileKept(n) /\ FileSource(n)
    BY HandlersStep, StepSources
  <1>2. ASSUME NEW m \in Nodes, m # n, file'[n].status # "none", file[m].status # "none"
        PROVE  file'[n].total = file[m].total
    <2>1. CASE file[n].status # "none"
      BY <1>1, <1>2, <2>1 DEF FileKept, TotalsAgree
    <2>2. CASE file[n].status = "none"
      <3>1. file'[n] # file[n]
        BY <1>2, <2>2
      <3>2. ~\E v \in Nodes : Runs(task[<<v, n>>])
        BY <2>2 DEF HandlersOK, HandlerOK
      <3>3. file[m] # NoFile
        BY <1>2, EmptyFile
      <3>4. PICK x \in Nodes : file[x] # NoFile /\ file'[n].total = file[x].total
        <4>1. CASE file'[n].status = "torn" /\ file[n].status = "none"
                   /\ \E x \in Nodes : file[x] # NoFile /\ file'[n].total = file[x].total
          BY <4>1
        <4>2. CASE \/ \A x \in Nodes : file[x] = NoFile
                   \/ \E x \in Nodes : file[x] # NoFile /\ file'[n].total = file[x].total
          BY <3>3, <4>2
        <4> QED
          BY <1>1, <2>2, <3>1, <3>2, <4>1, <4>2 DEF FileSource
      <3>5. file[x].status # "none"
        BY <3>4 DEF NodesType
      <3> QED
        BY <1>2, <3>4, <3>5 DEF TotalsAgree
    <2> QED
      BY <2>1, <2>2
  <1> QED
    BY <1>2 DEF TotalsAgree

\* Every step keeps an approval to a majority of the votes cast.
LEMMA EnoughTrueStep ==
    ASSUME NodesType, NodesType', VotesOrdered, HandlersOK, VotesTrue, TotalsAgree,
           TotalsAgree', EnoughTrue, [NodeNext]_nodeVars
    PROVE  EnoughTrue'
  <1>1. BallotsKept(ballot, ballot')
    BY BallotsStep DEF BallotsKept
  <1>2. ASSUME NEW n \in Nodes, Enough(ballot, file[n].total)
        PROVE  Enough(ballot', file[n].total)
    <2>1. file[n].total \in Nat
      BY DEF NodesType, RequestFiles
    <2> QED
      BY <1>1, <1>2, <2>1, EnoughKept
  <1>3. ASSUME NEW v \in Nodes, NEW n \in Nodes, Runs(task[<<v, n>>]),
               \/ task[<<v, n>>].copy.status \in {"approved", "rejected"}
               \/ Reaches(task[<<v, n>>])
        PROVE  Enough(ballot', task[<<v, n>>].copy.total)
    <2> DEFINE c == task[<<v, n>>].copy
    <2>1. c \in RequestFiles /\ c.total \in Nat
      BY HandlerPairs DEF NodesType, NodeTasks, RequestFiles
    <2>2. Honest(ballot, c.votes)
      BY <1>3 DEF VotesTrue
    <2>3. c.status \in {"approved", "rejected"} => Enough(ballot, c.total)
      BY <1>3 DEF EnoughTrue
    <2>4. c.status \in {"approved", "rejected"} \/ MajorityReached(c)
      BY <1>3 DEF Reaches
    <2> HIDE DEF c
    <2>5. Enough(ballot, c.total)
      BY <2>1, <2>2, <2>3, <2>4, MajorityIsEnough
    <2>6. Enough(ballot', c.total)
      BY <1>1, <2>1, <2>5, EnoughKept
    <2> QED
      BY <2>6 DEF c
  <1>4. ASSUME NEW n \in Nodes, file'[n].status \in {"approved", "rejected"}
        PROVE  Enough(ballot', file'[n].total)
    <2>1. FileSource(n)
      BY StepSources
    <2>2. CASE file'[n] = file[n]
      BY <1>2, <1>4, <2>2 DEF EnoughTrue, Resolved
    <2>3. ASSUME NEW v \in Nodes, Runs(task[<<v, n>>]),
                 file'[n].total = task[<<v, n>>].copy.total,
                 \/ file'[n].status = task[<<v, n>>].copy.status
                 \/ Reaches(task[<<v, n>>])
                 \/ task[<<v, n>>].copy.status = "approved"
          PROVE  Enough(ballot', file'[n].total)
      BY <1>3, <1>4, <2>3
    <2> QED
      BY <1>4, <2>1, <2>2, <2>3 DEF FileSource
  <1>5. ASSUME NEW v \in Nodes, NEW n \in Nodes, Runs(task'[<<v, n>>]),
               task'[<<v, n>>].copy.status \in {"approved", "rejected"}
        PROVE  Enough(ballot', task'[<<v, n>>].copy.total)
    <2>1. CopySource(v, n)
      BY StepSources
    <2>2. CASE task'[<<v, n>>] = task[<<v, n>>]
      BY <1>3, <1>5, <2>2
    <2>3. CASE /\ task'[<<v, n>>].copy.status = file[n].status
               /\ task'[<<v, n>>].copy.total = file[n].total
      BY <1>2, <1>5, <2>3 DEF EnoughTrue, Resolved
    <2>4. CASE /\ Runs(task[<<v, n>>])
               /\ task'[<<v, n>>].copy.total = task[<<v, n>>].copy.total
               /\ \/ task'[<<v, n>>].copy.status = task[<<v, n>>].copy.status
                  \/ Reaches(task[<<v, n>>])
      BY <1>3, <1>5, <2>4
    <2> QED
      BY <1>5, <2>1, <2>2, <2>3, <2>4 DEF CopySource
  <1>6. ASSUME updates' > 0
        PROVE  /\ file'[Orderer].status # "none"
               /\ \A n \in Nodes : file'[n].status # "none" => Enough(ballot', file'[n].total)
    <2>1. Orderer \in Nodes
      BY NodeManagerAssumption
    <2>2. file[Orderer].status # "none" /\ Enough(ballot, file[Orderer].total)
      <3>1. CASE updates > 0
        BY <2>1, <3>1 DEF EnoughTrue
      <3>2. ASSUME NEW v \in Nodes, task[<<v, Orderer>>].pc = "executing"
            PROVE  file[Orderer].status # "none" /\ Enough(ballot, file[Orderer].total)
        <4>1. /\ file[Orderer].status # "none" /\ task[<<v, Orderer>>].copy.status = "approved"
              /\ task[<<v, Orderer>>].copy.total = file[Orderer].total
          BY <2>1, <3>2 DEF HandlersOK, HandlerOK, Runs
        <4> QED
          BY <2>1, <3>2, <4>1 DEF EnoughTrue, Runs
      <3>3. updates' = updates \/ \E v \in Nodes : task[<<v, Orderer>>].pc = "executing"
        BY UpdatesStep
      <3> QED
        BY <1>6, <3>1, <3>2, <3>3
    <2>3. file'[Orderer].status # "none" /\ file'[Orderer].total = file[Orderer].total
      BY <2>1, <2>2, HandlersStep DEF FileKept
    <2>4. Enough(ballot', file'[Orderer].total)
      BY <1>2, <2>1, <2>2, <2>3
    <2> QED
      BY <2>1, <2>3, <2>4 DEF TotalsAgree
  <1> QED
    BY <1>4, <1>5, <1>6 DEF EnoughTrue, Resolved

-----------------------------------------------------------------------------
(* One handler executes                                                    *)

\* Without overlapping handlers at the orderer's node one handler at most executes
\* the approval, once, with the file approved.
OneExecutes ==
    Orderer \notin raced =>
        /\ \A v \in Nodes : task[<<v, Orderer>>].pc = "executing" =>
             /\ file[Orderer].status = "approved" /\ updates = 0
             /\ \A w \in Nodes : task[<<w, Orderer>>].pc = "executing" => w = v
        /\ updates > 0 =>
             /\ updates = 1 /\ file[Orderer].status \in {"approved", "rejected", "torn"}
             /\ \/ file[Orderer].status # "rejected"
                \/ [kind |-> "unacked", node |-> Orderer] \in faults

\* Every step leaves the channel update to one handler of the orderer.
LEMMA OneExecutesStep ==
    ASSUME NodesType, VotesOrdered, HandlersOK, OneExecutes, [NodeNext]_nodeVars
    PROVE  OneExecutes'
  <1>0. Orderer \in Nodes
    BY NodeManagerAssumption
  <1>1. ASSUME UNCHANGED updates, raced \subseteq raced', faults \subseteq faults',
               file[Orderer] # NoFile => file'[Orderer].status = file[Orderer].status,
               \A v \in Nodes : task'[<<v, Orderer>>].pc = "executing" =>
                                  task[<<v, Orderer>>].pc = "executing"
        PROVE  OneExecutes'
    BY <1>1, EmptyFile DEF OneExecutes
  <1>2. ASSUME NEW n \in Nodes, SubmitJoinRequest(n) \/ ReceiveGossipedRequest(n)
        PROVE  OneExecutes'
    <2>1. UNCHANGED <<task, updates, raced, faults>>
      BY <1>2, StoredRequests, Zenon
    <2>2. file'[Orderer] = file[Orderer] \/ file[Orderer] = NoFile
      BY <1>0, <1>2, StoredRequests
    <2> QED
      BY <1>1, <2>1, <2>2, EmptyFile
  <1>3. ASSUME NEW n \in Nodes, HandlePeerJoined(n)
        PROVE  OneExecutes'
    <2>1. UNCHANGED <<task, file, updates, raced, faults>>
      BY <1>3, Zenon DEF HandlePeerJoined
    <2> QED
      BY <1>1, <2>1
  <1>4. ASSUME NEW n \in Nodes, Stops(n)
        PROVE  OneExecutes'
    <2>1. UNCHANGED <<updates, raced>> /\ faults \subseteq faults'
      BY <1>4, CrashTasks, CrashFiles
    <2>2. \A v \in Nodes : \/ task'[<<v, Orderer>>] = task[<<v, Orderer>>]
                           \/ task'[<<v, Orderer>>].pc = "done"
      BY <1>0, <1>4, CrashTasks
    <2>3. CASE file'[Orderer] = file[Orderer]
      BY <1>1, <2>1, <2>2, <2>3
    <2>4. CASE TearRequest(n)
      <3>1. \A v \in Nodes : Runs(task[<<v, n>>]) => file[n].status # "none"
        BY DEF HandlersOK, HandlerOK
      <3>2. \A m \in Nodes : m # n => file'[m] = file[m]
        BY <2>4, <3>1, TornFile
      <3>3. CASE n = Orderer
        <4>1. file'[Orderer].status = "torn"
          BY <2>4, <3>1, <3>3, TornFile
        <4>2. \A v \in Nodes : task'[<<v, Orderer>>].pc # "executing"
          BY <1>4, <3>3, CrashTasks DEF Runs
        <4> QED
          BY <2>1, <4>1, <4>2 DEF OneExecutes
      <3> QED
        BY <1>0, <2>3, <3>2, <3>3
    <2> QED
      BY <1>0, <1>4, <2>3, <2>4, CrashFiles DEF Stops
  <1>5. ASSUME NEW n \in Nodes, NEW approve \in BOOLEAN, CastVote(n, approve)
        PROVE  OneExecutes'
    <2>1. UNCHANGED <<file, updates, raced, faults>>
      BY <1>5, Zenon DEF CastVote
    <2>2. /\ task'[<<n, n>>].pc = "loaded"
          /\ \A w, m \in Nodes : <<w, m>> # <<n, n>> => task'[<<w, m>>] = task[<<w, m>>]
      BY <1>5, CastVoteSteps
    <2> QED
      BY <1>0, <1>1, <2>1, <2>2
  <1>6. ASSUME NEW n \in Nodes, NEW kind \in {"request", "vote", "joined"}, Lose(kind, n)
        PROVE  OneExecutes'
    <2>1. UNCHANGED <<file, updates, raced>>
      BY <1>6, Zenon DEF Lose
    <2>3. faults \subseteq faults'
      BY <1>6 DEF Lose
    <2>2. ASSUME NEW v \in Nodes
          PROVE  \/ task'[<<v, Orderer>>] = task[<<v, Orderer>>]
                 \/ task'[<<v, Orderer>>].pc = "done"
      BY <1>0, <1>6, LoseSteps
    <2> QED
      BY <1>1, <2>1, <2>2, <2>3
  <1>7. ASSUME NEW v \in Nodes, NEW n \in Nodes, ReceiveGossipedVote(v, n)
        PROVE  OneExecutes'
    <2>1. UNCHANGED <<file, updates, raced>>
      BY <1>7, Zenon DEF ReceiveGossipedVote
    <2>2. \A w, m \in Nodes : <<w, m>> # <<v, n>> => task'[<<w, m>>] = task[<<w, m>>]
      BY <1>7, ReceiveVoteFrame
    <2>3. task'[<<v, n>>].pc \in {"done", "loaded"}
      BY <1>7, ReceiveVoteSteps
    <2>4. faults \subseteq faults'
      BY <1>7 DEF ReceiveGossipedVote
    <2> QED
      BY <1>0, <1>1, <2>1, <2>2, <2>3, <2>4
  <1>8. ASSUME NEW v \in Nodes, NEW n \in Nodes, SaveVote(v, n)
        PROVE  OneExecutes'
    <2> DEFINE t == task[<<v, n>>]
    <2>1. UNCHANGED <<updates, faults>>
      BY <1>8, Zenon DEF SaveVote
    <2>2. SaveFile(n, t.base, t.copy) /\ t.pc = "loaded" /\ t.copy \in RequestFiles
      BY <1>8, SaveVoteOwn
    <2>3. t.copy.status # "none" /\ t.base.status = t.copy.status
      BY <2>2 DEF HandlersOK, HandlerOK, Runs
    <2>4. /\ file'[n] = t.copy /\ \A m \in Nodes : m # n => file'[m] = file[m]
          /\ raced \subseteq raced' /\ (n \notin raced' => file[n] = t.base)
      BY <2>2, <2>3, SavedFile
    <2>5. Orderer \notin raced' => file'[Orderer].status = file[Orderer].status
      BY <1>0, <2>3, <2>4
    <2>6. /\ task'[<<v, n>>].pc = "saved"
          /\ \A w, m \in Nodes : <<w, m>> # <<v, n>> =>
               \/ task'[<<w, m>>] = task[<<w, m>>]
               \/ (v = n /\ w = v /\ m # n /\ task'[<<w, m>>].pc = "sent")
      BY <1>8, SaveVoteOthers, ZenonT(60)
    <2>7. ASSUME NEW w \in Nodes, task'[<<w, Orderer>>].pc = "executing"
          PROVE  task[<<w, Orderer>>].pc = "executing"
      BY <1>0, <2>6, <2>7
    <2>8. CASE Orderer \in raced'
      BY <2>8 DEF OneExecutes
    <2> QED
      BY <1>1, <2>1, <2>4, <2>5, <2>7, <2>8
  <1>9. ASSUME NEW v \in Nodes, NEW n \in Nodes, CheckMajority(v, n)
        PROVE  OneExecutes'
    <2> DEFINE t == task[<<v, n>>]
               c == ApprovedCopy(t)
    <2>1. UNCHANGED <<updates, faults>>
      BY <1>9, Zenon DEF CheckMajority
    <2>2. t.pc = "saved" /\ c \in RequestFiles /\ c.status = "approved"
      BY <1>9, CheckMajoritySteps
    <2>3. \A w, m \in Nodes : <<w, m>> # <<v, n>> => task'[<<w, m>>] = task[<<w, m>>]
      BY <1>9, CheckMajorityOthers
    <2>4. \/ /\ SaveFile(n, t.base, c) /\ Reaches(t)
             /\ task'[<<v, n>>].pc = IF n = Orderer THEN "executing" ELSE "done"
          \/ task'[<<v, n>>].pc = "done" /\ UNCHANGED <<file, raced>>
      BY <1>9, CheckMajoritySteps
    <2>5. t.base = t.copy
      BY <2>2 DEF HandlersOK, HandlerOK
    <2> HIDE DEF c
    <2>6. ASSUME task'[<<v, n>>].pc = "done", UNCHANGED <<file, raced>>
          PROVE  OneExecutes'
      BY <1>0, <1>1, <2>1, <2>3, <2>6
    <2>7. ASSUME SaveFile(n, t.base, c), Reaches(t),
                 task'[<<v, n>>].pc = IF n = Orderer THEN "executing" ELSE "done"
          PROVE  OneExecutes'
      <3>1. /\ file'[n] = c /\ \A m \in Nodes : m # n => file'[m] = file[m]
            /\ raced \subseteq raced' /\ (n \notin raced' => file[n] = t.base)
        BY <2>2, <2>7, SavedFile
      <3>2. CASE n # Orderer
        BY <1>0, <1>1, <2>1, <2>3, <2>7, <3>1, <3>2
      <3>3. CASE n = Orderer /\ Orderer \notin raced'
        <4>1. file[Orderer].status = "pending" /\ Orderer \notin raced
          BY <2>5, <2>7, <3>1, <3>3 DEF Reaches
        <4>2. updates = 0 /\ \A w \in Nodes : task[<<w, Orderer>>].pc # "executing"
          BY <4>1 DEF OneExecutes, NodesType
        <4>3. \A w \in Nodes : task'[<<w, Orderer>>].pc = "executing" => w = v
          BY <1>0, <2>3, <3>3, <4>2
        <4> QED
          BY <2>1, <2>2, <3>1, <3>3, <4>2, <4>3 DEF OneExecutes
      <3>4. CASE Orderer \in raced'
        BY <3>4 DEF OneExecutes
      <3> QED
        BY <3>2, <3>3, <3>4
    <2> QED
      BY <2>4, <2>6, <2>7
  <1>10. ASSUME NEW v \in Nodes, ExecuteFails(v) \/ UpdateUnacknowledged(v)
         PROVE  OneExecutes'
    <2>0. /\ Fail(v) /\ faults \subseteq faults'
          /\ \/ UNCHANGED updates
             \/ /\ updates' = updates + 1
                /\ [kind |-> "unacked", node |-> Orderer] \in faults'
      BY <1>10, FailCases
    <2>1. /\ task[<<v, Orderer>>].pc = "executing" /\ task'[<<v, Orderer>>].pc = "done"
          /\ \A w, m \in Nodes : <<w, m>> # <<v, Orderer>> => task'[<<w, m>>] = task[<<w, m>>]
      BY <2>0, ExecutedTask, Zenon
    <2>2. PICK c \in RequestFiles :
             SaveFile(Orderer, task[<<v, Orderer>>].base, c) /\ c.status = "rejected"
      BY <2>0, ExecuteFailsSteps
    <2>3. raced \subseteq raced' /\ file'[Orderer].status = "rejected"
      BY <1>0, <2>2, SavedFile
    <2>4. ASSUME Orderer \notin raced'
          PROVE  updates = 0 /\ \A w \in Nodes : task'[<<w, Orderer>>].pc # "executing"
      BY <1>0, <2>1, <2>3, <2>4 DEF OneExecutes
    <2> QED
      BY <2>0, <2>3, <2>4 DEF OneExecutes
  <1>12. ASSUME NEW v \in Nodes, Announces(v)
         PROVE  OneExecutes'
    <2>1. /\ task'[<<v, Orderer>>].pc \in {"updated", "added", "done"}
          /\ \A w, m \in Nodes : <<w, m>> # <<v, Orderer>> => task'[<<w, m>>] = task[<<w, m>>]
          /\ UNCHANGED <<file, raced, faults>>
          /\ \/ UNCHANGED updates
             \/ updates' = updates + 1 /\ task[<<v, Orderer>>].pc = "executing"
      BY <1>12, AnnounceTask, Zenon
    <2>2. \A w \in Nodes : task'[<<w, Orderer>>].pc = "executing" =>
                            task[<<w, Orderer>>].pc = "executing" /\ w # v
      BY <1>0, <2>1
    <2>3. CASE UNCHANGED updates
      BY <1>1, <2>1, <2>2, <2>3
    <2>4. CASE updates' = updates + 1 /\ task[<<v, Orderer>>].pc = "executing"
      <3>1. ASSUME Orderer \notin raced
            PROVE  /\ file[Orderer].status = "approved" /\ updates = 0
                   /\ \A w \in Nodes : task'[<<w, Orderer>>].pc # "executing"
        BY <2>2, <2>4, <3>1 DEF OneExecutes
      <3> QED
        BY <2>1, <2>4, <3>1 DEF OneExecutes
    <2> QED
      BY <2>1, <2>3, <2>4
  <1>11. ASSUME UNCHANGED nodeVars
         PROVE  OneExecutes'
    BY <1>1, <1>11 DEF nodeVars
  <1> QED
    BY <1>2, <1>3, <1>4, <1>5, <1>6, <1>7, <1>8, <1>9, <1>10, <1>11, <1>12
    DEF NodeNext, Stops, Announces

-----------------------------------------------------------------------------
(* The majority is noticed                                                 *)

Undisturbed == Orderer \notin raced /\ \A f \in faults : f.kind \in {"joined", "unacked"}

\* An approval is in the orderer's file or on its way there.
OnItsWay(v) ==
    \/ <<v, TRUE>> \in file[Orderer].votes
    \/ task[<<v, Orderer>>].pc \in {"sent", "loaded"}
    \/ task[<<v, v>>].pc = "loaded"

ApprovalsArrive == \A v \in Peers \cap routed : ballot[v] = "yes" => OnItsWay(v)

\* A majority in the orderer's file is about to be counted.
CountIsDue ==
    file[Orderer].status = "pending" /\ MajorityReached(file[Orderer]) =>
        \E v \in Nodes : /\ task[<<v, Orderer>>].pc = "saved"
                         /\ task[<<v, Orderer>>].copy = file[Orderer]

MajorityDue == Undisturbed => ApprovalsArrive /\ CountIsDue

\* No approval is no majority.
LEMMA NoVotesNoMajority ==
    ASSUME NEW req \in RequestFiles, req.votes = {}
    PROVE  ~MajorityReached(req)
  <1>1. Approvals(req) = {}
    BY DEF Approvals
  <1>2. Cardinality(Approvals(req)) = 0
    BY <1>1, FS_EmptySet
  <1>3. req.total \in Nat
    BY DEF RequestFiles
  <1>4. RequiredVotes(req) > 0
    BY <1>3, HalfOf DEF RequiredVotes
  <1>5. RequiredVotes(req) \in Nat
    BY <1>3, HalfOf DEF RequiredVotes
  <1> QED
    BY <1>2, <1>4, <1>5 DEF MajorityReached

\* A fault of another kind than a lost announcement or a lost answer disturbs.
LEMMA Disturbs ==
    ASSUME NEW kind, NEW n, kind \notin {"joined", "unacked"},
           [kind |-> kind, node |-> n] \in faults'
    PROVE  ~Undisturbed'
  <1>1. [kind |-> kind, node |-> n] \in faults'
    OBVIOUS
  <1>2. [kind |-> kind, node |-> n].kind = kind
    OBVIOUS
  <1> QED
    BY <1>1, <1>2 DEF Undisturbed

\* What node.json says of the orderer stays.
LEMMA RoutedKept ==
    ASSUME [NodeNext]_nodeVars PROVE UNCHANGED routed
  BY ZenonT(60) DEF NodeNext, SubmitJoinRequest, ReceiveGossipedRequest, HandlePeerJoined, Crash,
       TearRequest, TearPeers, CastVote, Lose, ReceiveGossipedVote, SaveVote, CheckMajority,
       ExecuteFails, UpdateUnacknowledged, SubmitConfigUpdate, AddPeer, BroadcastPeerJoined, nodeVars

\* The orderer's file misses no approval, and a majority in it is counted.
LEMMA MajorityDueStep ==
    ASSUME NodesType, VotesOrdered, HandlersOK, VotesTrue, MajorityDue, [NodeNext]_nodeVars
    PROVE  MajorityDue'
  <1>0. Orderer \in Nodes /\ Peers \subseteq Nodes /\ Orderer \notin Peers
    BY NodeManagerAssumption DEF Peers
  <1> SUFFICES ASSUME Undisturbed' PROVE ApprovalsArrive' /\ CountIsDue'
    BY DEF MajorityDue
  <1> USE DEF Undisturbed
  <1>r. UNCHANGED routed
    BY RoutedKept
  <1>1. ASSUME raced \subseteq raced', faults \subseteq faults'
        PROVE  ApprovalsArrive /\ CountIsDue
    BY <1>1 DEF MajorityDue
  <1>2. file[Orderer].votes \subseteq file'[Orderer].votes
    <2>1. [kind |-> "torn", node |-> Orderer] \notin faults'
      OBVIOUS
    <2> QED
      BY <1>0, <2>1, VotesStayStep
  <1>3. ASSUME ApprovalsArrive, UNCHANGED ballot,
               \A v \in Peers \cap routed : ballot[v] = "yes" =>
                 /\ task[<<v, Orderer>>].pc \in {"sent", "loaded"} => OnItsWay(v)'
                 /\ task[<<v, v>>].pc = "loaded" => OnItsWay(v)'
        PROVE  ApprovalsArrive'
    BY <1>2, <1>3, <1>r DEF ApprovalsArrive, OnItsWay
  <1>4. ASSUME CountIsDue, file'[Orderer] = file[Orderer],
               \A v \in Nodes : task[<<v, Orderer>>].pc = "saved" =>
                                  task'[<<v, Orderer>>] = task[<<v, Orderer>>]
        PROVE  CountIsDue'
    BY <1>4 DEF CountIsDue
  <1> HIDE DEF Undisturbed
  <1>5. ASSUME NEW n \in Nodes, SubmitJoinRequest(n) \/ ReceiveGossipedRequest(n)
        PROVE  ApprovalsArrive' /\ CountIsDue'
    <2>1. UNCHANGED <<task, ballot, raced, faults>>
      BY <1>5, StoredRequests, Zenon
    <2>2. ApprovalsArrive /\ CountIsDue
      BY <1>1, <2>1
    <2>3. ApprovalsArrive'
      BY <1>3, <2>1, <2>2 DEF OnItsWay
    <2>4. CASE file'[Orderer] = file[Orderer]
      BY <1>4, <2>1, <2>2, <2>3, <2>4
    <2>5. CASE file'[Orderer].votes = {}
      <3>1. file'[Orderer] \in RequestFiles
        BY <1>0, <1>5, StoredRequests
      <3> QED
        BY <2>3, <2>5, <3>1, NoVotesNoMajority DEF CountIsDue
    <2> QED
      BY <1>0, <1>5, <2>4, <2>5, StoredRequests
  <1>6. ASSUME NEW n \in Nodes, HandlePeerJoined(n)
        PROVE  ApprovalsArrive' /\ CountIsDue'
    <2>1. UNCHANGED <<task, file, ballot, raced, faults>>
      BY <1>6, Zenon DEF HandlePeerJoined
    <2> QED
      BY <1>1, <1>3, <1>4, <2>1 DEF OnItsWay
  <1>7. ASSUME NEW n \in Nodes, Stops(n)
        PROVE  ApprovalsArrive' /\ CountIsDue'
    <2>1. StopOf(n) \in faults'
      BY <1>7, CrashFiles
    <2>2. \E kind \in {"unannounced", "crash"} : StopOf(n) = [kind |-> kind, node |-> n]
      BY Zenon DEF StopOf
    <2> QED
      BY <2>1, <2>2, Disturbs
  <1>8. ASSUME NEW n \in Nodes, NEW approve \in BOOLEAN, CastVote(n, approve)
        PROVE  ApprovalsArrive' /\ CountIsDue'
    <2>1. UNCHANGED <<file, raced, faults>>
      BY <1>8, Zenon DEF CastVote
    <2>2. ApprovalsArrive /\ CountIsDue
      BY <1>1, <2>1
    <2>3. /\ task[<<n, n>>].pc = "none" /\ task'[<<n, n>>].pc = "loaded"
          /\ \A w, m \in Nodes : <<w, m>> # <<n, n>> => task'[<<w, m>>] = task[<<w, m>>]
          /\ \A v \in Nodes : v # n => ballot'[v] = ballot[v]
      BY <1>8, CastVoteSteps
    <2>4. CountIsDue'
      BY <1>0, <1>4, <2>1, <2>2, <2>3
    <2>5. ASSUME NEW v \in Peers \cap routed, ballot'[v] = "yes" PROVE OnItsWay(v)'
      <3>1. CASE v = n
        BY <2>3, <3>1 DEF OnItsWay
      <3>2. CASE v # n
        BY <1>0, <2>1, <2>2, <2>3, <2>5, <3>2 DEF OnItsWay, ApprovalsArrive
      <3> QED
        BY <3>1, <3>2
    <2> QED
      BY <1>r, <2>4, <2>5 DEF ApprovalsArrive
  <1>9. ASSUME NEW n \in Nodes, NEW kind \in {"request", "vote", "joined"}, Lose(kind, n)
        PROVE  ApprovalsArrive' /\ CountIsDue'
    <2>1. UNCHANGED <<file, ballot, raced>>
      BY <1>9, Zenon DEF Lose
    <2>2. [kind |-> kind, node |-> n] \in faults' /\ faults \subseteq faults'
      BY <1>9 DEF Lose
    <2>3. kind = "joined"
      BY <2>2, Disturbs
    <2>4. UNCHANGED task
      BY <1>9, <2>3 DEF Lose
    <2> QED
      BY <1>1, <1>3, <1>4, <2>1, <2>2, <2>4 DEF OnItsWay
  <1>10. ASSUME NEW v \in Nodes, NEW n \in Nodes, ReceiveGossipedVote(v, n)
         PROVE  ApprovalsArrive' /\ CountIsDue'
    <2>1. /\ v # n /\ task[<<v, n>>].pc = "sent"
          /\ UNCHANGED <<file, ballot, raced>>
          /\ \A w, m \in Nodes : <<w, m>> # <<v, n>> => task'[<<w, m>>] = task[<<w, m>>]
      BY <1>10, ReceiveVoteFrame
    <2>2. \/ [kind |-> "early", node |-> n] \in faults'
          \/ HasVoted(file[n], v) /\ UNCHANGED faults
          \/ UNCHANGED faults /\ task'[<<v, n>>].pc = "loaded"
      BY <1>10, ReceiveVoteSteps, ZenonT(60)
    <2>3. \/ HasVoted(file[n], v) /\ UNCHANGED faults
          \/ UNCHANGED faults /\ task'[<<v, n>>].pc = "loaded"
      BY <2>2, Disturbs
    <2>4. ApprovalsArrive /\ CountIsDue
      BY <1>1, <2>1, <2>3
    <2>5. CountIsDue'
      BY <1>0, <1>4, <2>1, <2>4
    <2>6. HasVoted(file[n], v) /\ ballot[v] = "yes" => <<v, TRUE>> \in file[n].votes
      BY DEF HasVoted, VotesTrue, Honest
    <2>7. ASSUME NEW w \in Peers \cap routed, ballot[w] = "yes"
          PROVE  /\ task[<<w, Orderer>>].pc \in {"sent", "loaded"} => OnItsWay(w)'
                 /\ task[<<w, w>>].pc = "loaded" => OnItsWay(w)'
      BY <1>0, <2>1, <2>3, <2>6, <2>7 DEF OnItsWay
    <2> QED
      BY <1>3, <2>1, <2>4, <2>5, <2>7
  <1>11. ASSUME NEW v \in Nodes, NEW n \in Nodes, SaveVote(v, n)
         PROVE  ApprovalsArrive' /\ CountIsDue'
    <2> DEFINE t == task[<<v, n>>]
    <2>1. UNCHANGED <<known, ballot, faults>>
      BY <1>11, Zenon DEF SaveVote
    <2>2. /\ SaveFile(n, t.base, t.copy) /\ t.pc = "loaded" /\ t.copy \in RequestFiles
          /\ task'[<<v, n>>].copy = t.copy
      BY <1>11, SaveVoteOwn
    <2>3. /\ t.copy.status # "none" /\ <<v, ballot[v] = "yes">> \in t.copy.votes
      BY <2>2 DEF HandlersOK, HandlerOK, Runs
    <2>4. /\ file'[n] = t.copy /\ \A m \in Nodes : m # n => file'[m] = file[m]
          /\ raced \subseteq raced'
      BY <2>2, <2>3, SavedFile
    <2>5. /\ task'[<<v, n>>].pc = "saved"
          /\ \A w, m \in Nodes : <<w, m>> # <<v, n>> =>
               \/ task'[<<w, m>>] = task[<<w, m>>]
               \/ (v = n /\ w = v /\ m # n /\ task'[<<w, m>>].pc = "sent")
          /\ v = n => \A m \in Targets(n) : task'[<<v, m>>].pc = "sent"
      BY <1>11, SaveVoteOthers, ZenonT(60)
    <2>6. ApprovalsArrive /\ CountIsDue
      BY <1>1, <2>1, <2>4
    <2>7. n # Orderer /\ n \in routed => Orderer \in Targets(n)
      BY <1>0 DEF Targets
    <2>8. ASSUME NEW w \in Peers \cap routed, ballot[w] = "yes"
          PROVE  /\ task[<<w, Orderer>>].pc \in {"sent", "loaded"} => OnItsWay(w)'
                 /\ task[<<w, w>>].pc = "loaded" => OnItsWay(w)'
      <3>1. CASE w = v /\ n = Orderer
        BY <2>3, <2>4, <2>8, <3>1 DEF OnItsWay
      <3>2. CASE w = v /\ n = v
        BY <1>0, <2>5, <2>7, <3>2 DEF OnItsWay
      <3>3. CASE w # v \/ (n # Orderer /\ n # v)
        BY <1>0, <2>5, <3>3 DEF OnItsWay
      <3> QED
        BY <3>1, <3>2, <3>3
    <2>9. ApprovalsArrive'
      BY <1>3, <2>1, <2>6, <2>8
    <2>10. CASE n = Orderer
      BY <2>2, <2>4, <2>5, <2>9, <2>10 DEF CountIsDue
    <2>11. CASE n # Orderer
      <3>1. ASSUME NEW w \in Nodes, task[<<w, Orderer>>].pc = "saved"
            PROVE  task'[<<w, Orderer>>] = task[<<w, Orderer>>]
        <4>1. ~(v = n /\ w = v)
          BY <1>0, <2>2, <2>11, <3>1 DEF VotesOrdered
        <4> QED
          BY <1>0, <2>5, <2>11, <4>1
      <3> QED
        BY <1>0, <1>4, <2>4, <2>6, <2>9, <2>11, <3>1
    <2> QED
      BY <2>10, <2>11
  <1>12. ASSUME NEW v \in Nodes, NEW n \in Nodes, CheckMajority(v, n)
         PROVE  ApprovalsArrive' /\ CountIsDue'
    <2> DEFINE t == task[<<v, n>>]
               c == ApprovedCopy(t)
    <2>1. UNCHANGED <<ballot, faults>>
      BY <1>12, Zenon DEF CheckMajority
    <2>2. t.pc = "saved" /\ c \in RequestFiles /\ c.status = "approved"
      BY <1>12, CheckMajoritySteps
    <2>3. \A w, m \in Nodes : <<w, m>> # <<v, n>> => task'[<<w, m>>] = task[<<w, m>>]
      BY <1>12, CheckMajorityOthers
    <2>4. \/ SaveFile(n, t.base, c)
          \/ ~Reaches(t) /\ UNCHANGED <<file, raced>>
      BY <1>12, CheckMajoritySteps
    <2> HIDE DEF c
    <2>5. /\ raced \subseteq raced'
          /\ \A m \in Nodes : m # n => file'[m] = file[m]
          /\ file'[n] = c \/ (~Reaches(t) /\ UNCHANGED file)
      BY <2>2, <2>4, SavedFile
    <2>6. ApprovalsArrive /\ CountIsDue
      BY <1>1, <2>1, <2>5
    <2>7. ASSUME NEW w \in Peers \cap routed
          PROVE  /\ task[<<w, Orderer>>].pc \in {"sent", "loaded"} => OnItsWay(w)'
                 /\ task[<<w, w>>].pc = "loaded" => OnItsWay(w)'
      BY <1>0, <2>2, <2>3 DEF OnItsWay
    <2>8. ApprovalsArrive'
      BY <1>3, <2>1, <2>6, <2>7
    <2>9. CASE n # Orderer
      BY <1>0, <1>4, <2>3, <2>5, <2>6, <2>8, <2>9
    <2>10. CASE n = Orderer /\ file'[n] = c
      BY <2>2, <2>8, <2>10 DEF CountIsDue
    <2>11. CASE n = Orderer /\ ~Reaches(t) /\ UNCHANGED file
      <3>1. ASSUME file[Orderer].status = "pending", MajorityReached(file[Orderer])
            PROVE  \E w \in Nodes : /\ task'[<<w, Orderer>>].pc = "saved"
                                    /\ task'[<<w, Orderer>>].copy = file[Orderer]
        <4>1. PICK w \in Nodes : /\ task[<<w, Orderer>>].pc = "saved"
                                 /\ task[<<w, Orderer>>].copy = file[Orderer]
          BY <2>6, <3>1 DEF CountIsDue
        <4>2. w # v
          BY <2>11, <3>1, <4>1 DEF Reaches
        <4> QED
          BY <1>0, <2>3, <4>1, <4>2
      <3> QED
        BY <2>8, <2>11, <3>1 DEF CountIsDue
    <2> QED
      BY <2>5, <2>9, <2>10, <2>11
  <1>13. ASSUME NEW v \in Nodes, ExecuteFails(v) \/ UpdateUnacknowledged(v)
         PROVE  ApprovalsArrive' /\ CountIsDue'
    <2>0. Fail(v) /\ UNCHANGED ballot /\ faults \subseteq faults'
      BY <1>13, FailCases
    <2>1. /\ task[<<v, Orderer>>].pc = "executing" /\ task'[<<v, Orderer>>].pc = "done"
          /\ \A w, m \in Nodes : <<w, m>> # <<v, Orderer>> => task'[<<w, m>>] = task[<<w, m>>]
      BY <2>0, ExecutedTask, Zenon
    <2>2. PICK c \in RequestFiles :
             SaveFile(Orderer, task[<<v, Orderer>>].base, c) /\ c.status = "rejected"
      BY <2>0, ExecuteFailsSteps
    <2>3. raced \subseteq raced' /\ file'[Orderer] = c
      BY <1>0, <2>2, SavedFile
    <2>4. ApprovalsArrive /\ CountIsDue
      BY <1>1, <2>0, <2>3
    <2>5. ASSUME NEW w \in Peers \cap routed
          PROVE  /\ task[<<w, Orderer>>].pc \in {"sent", "loaded"} => OnItsWay(w)'
                 /\ task[<<w, w>>].pc = "loaded" => OnItsWay(w)'
      BY <1>0, <2>1 DEF OnItsWay
    <2>6. ApprovalsArrive'
      BY <1>3, <2>0, <2>4, <2>5
    <2> QED
      BY <2>2, <2>3, <2>6 DEF CountIsDue
  <1>15. ASSUME NEW v \in Nodes, Announces(v)
         PROVE  ApprovalsArrive' /\ CountIsDue'
    <2>1. /\ Runs(task[<<v, Orderer>>]) /\ task[<<v, Orderer>>].pc # "saved"
          /\ task'[<<v, Orderer>>].pc \in {"updated", "added", "done"}
          /\ \A w, m \in Nodes : <<w, m>> # <<v, Orderer>> => task'[<<w, m>>] = task[<<w, m>>]
          /\ UNCHANGED <<file, ballot, raced, faults>>
      BY <1>15, AnnounceTask, Zenon
    <2>2. ApprovalsArrive /\ CountIsDue
      BY <1>1, <2>1
    <2>3. task[<<v, Orderer>>].pc \in {"executing", "updated", "added"}
      BY <1>15, Zenon DEF Announces, SubmitConfigUpdate, AddPeer, BroadcastPeerJoined, Proceed
    <2>4. ASSUME NEW w \in Peers \cap routed
          PROVE  /\ task[<<w, Orderer>>].pc \in {"sent", "loaded"} => OnItsWay(w)'
                 /\ task[<<w, w>>].pc = "loaded" => OnItsWay(w)'
      BY <1>0, <2>1, <2>3 DEF OnItsWay
    <2>5. ApprovalsArrive'
      BY <1>3, <2>1, <2>2, <2>4
    <2>6. CountIsDue'
      BY <1>0, <1>4, <2>1, <2>2
    <2> QED
      BY <2>5, <2>6
  <1>14. ASSUME UNCHANGED nodeVars
         PROVE  ApprovalsArrive' /\ CountIsDue'
    BY <1>1, <1>3, <1>4, <1>14 DEF nodeVars, OnItsWay
  <1> QED
    BY <1>5, <1>6, <1>7, <1>8, <1>9, <1>10, <1>11, <1>12, <1>13, <1>14,
       <1>15
    DEF NodeNext, Stops, Announces

-----------------------------------------------------------------------------
(* The news of the new peer                                                *)

\* The update is not announced yet, or will not be.
Silent ==
    \/ \E v \in Nodes : task[<<v, Orderer>>].pc \in {"updated", "added"}
    \/ \E kind \in {"unannounced", "unacked"} : [kind |-> kind, node |-> Orderer] \in faults

\* The peer has the news, or it is on its way or lost.
Told(n) ==
    \/ joined[n] = "sent" \/ Fresh \in known[n]
    \/ \E kind \in {"joined", "forgot"} : [kind |-> kind, node |-> n] \in faults

\* Once the channel is updated the announcement goes to every known peer.
NewsSent == updates > 0 => Silent \/ \A n \in known[Orderer] \cap Nodes : Told(n)

\* Every step keeps the news on its way or delivered.
LEMMA NewsSentStep ==
    ASSUME NodesType, VotesOrdered, NewsSent, [NodeNext]_nodeVars
    PROVE  NewsSent'
  <1>0. Orderer \in Nodes /\ Fresh \notin Nodes
    BY NodeManagerAssumption
  <1>1. ASSUME UNCHANGED updates, Silent => Silent',
               known'[Orderer] \cap Nodes \subseteq known[Orderer],
               \A n \in Nodes : Told(n) => Told(n)'
        PROVE  NewsSent'
    BY <1>1 DEF NewsSent
  <1>2. ASSUME UNCHANGED <<known, joined, updates>>, faults \subseteq faults',
               \A v \in Nodes : task[<<v, Orderer>>].pc \in {"updated", "added"} =>
                                  task'[<<v, Orderer>>] = task[<<v, Orderer>>]
        PROVE  NewsSent'
    <2>1. Silent => Silent'
      BY <1>2 DEF Silent
    <2>2. \A n \in Nodes : Told(n) => Told(n)'
      BY <1>2 DEF Told
    <2> QED
      BY <1>1, <1>2, <2>1, <2>2
  <1>3. ASSUME NEW n \in Nodes, SubmitJoinRequest(n) \/ ReceiveGossipedRequest(n)
        PROVE  NewsSent'
    <2>1. UNCHANGED <<known, task, joined, updates, faults>>
      BY <1>3, StoredRequests, Zenon
    <2> QED
      BY <1>2, <2>1
  <1>4. ASSUME NEW n \in Nodes, HandlePeerJoined(n)
        PROVE  NewsSent'
    <2>1. /\ UNCHANGED <<updates, task, faults>>
          /\ joined' = [joined EXCEPT ![n] = "done"]
          /\ known' = [known EXCEPT ![n] = @ \cup {Fresh}]
      BY <1>4, Zenon DEF HandlePeerJoined
    <2>2. /\ Fresh \in known'[n] /\ \A m \in Nodes : m # n => joined'[m] = joined[m]
          /\ \A m \in Nodes : known[m] \subseteq known'[m]
          /\ known'[Orderer] \cap Nodes \subseteq known[Orderer]
      BY <1>0, <2>1 DEF NodesType
    <2>3. Silent => Silent'
      BY <2>1 DEF Silent
    <2>4. \A m \in Nodes : Told(m) => Told(m)'
      BY <2>1, <2>2 DEF Told
    <2> QED
      BY <1>1, <2>1, <2>2, <2>3, <2>4
  <1>5. ASSUME NEW n \in Nodes, Stops(n)
        PROVE  NewsSent'
    <2>1. UNCHANGED updates /\ faults \subseteq faults' /\ StopOf(n) \in faults'
      BY <1>5, CrashTasks, CrashFiles
    <2>2. Silent => Silent'
      <3>1. ASSUME NEW v \in Nodes, task[<<v, Orderer>>].pc \in {"updated", "added"},
                   task'[<<v, Orderer>>] # task[<<v, Orderer>>]
            PROVE  Silent'
        <4>1. n = Orderer
          BY <1>0, <1>5, <3>1, CrashTasks
        <4>2. StopOf(n) = [kind |-> "unannounced", node |-> Orderer]
          BY <3>1, <4>1 DEF StopOf
        <4> QED
          BY <2>1, <4>2 DEF Silent
      <3> QED
        BY <2>1, <3>1 DEF Silent
    <2>3. /\ known'[Orderer] \subseteq known[Orderer]
          /\ \A m \in Nodes : Told(m) => Told(m)'
      <3>1. CASE UNCHANGED <<known, joined>>
        BY <2>1, <3>1 DEF Told
      <3>2. CASE TearPeers(n)
        <4>1. /\ known' = [known EXCEPT ![n] = {}]
              /\ joined' = joined \/ joined' = [joined EXCEPT ![n] = "done"]
              /\ [kind |-> "forgot", node |-> n] \in faults'
          BY <3>2, CrashFiles
        <4>2. \A m \in Nodes : m # n => known'[m] = known[m] /\ joined'[m] = joined[m]
          BY <4>1 DEF NodesType
        <4>3. known'[Orderer] \subseteq known[Orderer]
          BY <1>0, <4>1 DEF NodesType
        <4> QED
          BY <2>1, <4>1, <4>2, <4>3 DEF Told
      <3> QED
        BY <1>5, <3>1, <3>2, CrashFiles DEF Stops
    <2> QED
      BY <1>1, <2>1, <2>2, <2>3
  <1>6. ASSUME NEW n \in Nodes, NEW approve \in BOOLEAN, CastVote(n, approve)
        PROVE  NewsSent'
    <2>1. /\ UNCHANGED <<known, joined, updates, faults>> /\ task[<<n, n>>].pc = "none"
          /\ \A w, m \in Nodes : <<w, m>> # <<n, n>> => task'[<<w, m>>] = task[<<w, m>>]
      BY <1>6, CastVoteSteps, ZenonT(60)
    <2> QED
      BY <1>0, <1>2, <2>1
  <1>7. ASSUME NEW n \in Nodes, NEW kind \in {"request", "vote", "joined"}, Lose(kind, n)
        PROVE  NewsSent'
    <2>1. UNCHANGED <<known, updates>> /\ faults' = faults \cup {[kind |-> kind, node |-> n]}
      BY <1>7, Zenon DEF Lose
    <2>2. \A m \in Nodes : joined'[m] = joined[m] \/ (kind = "joined" /\ m = n)
      BY <1>7, LoseSteps
    <2>3. \A m \in Nodes : joined'[m] = joined[m] \/ [kind |-> "joined", node |-> m] \in faults'
      BY <2>1, <2>2
    <2>4. \A v \in Nodes : task[<<v, Orderer>>].pc \in {"updated", "added"} =>
                              task'[<<v, Orderer>>] = task[<<v, Orderer>>]
      BY <1>0, <1>7, LoseSteps
    <2>5. Silent => Silent'
      BY <2>1, <2>4 DEF Silent
    <2>6. \A m \in Nodes : Told(m) => Told(m)'
      BY <2>1, <2>3 DEF Told
    <2> QED
      BY <1>1, <2>1, <2>5, <2>6
  <1>8. ASSUME NEW v \in Nodes, NEW n \in Nodes, ReceiveGossipedVote(v, n)
        PROVE  NewsSent'
    <2>1. /\ task[<<v, n>>].pc = "sent"
          /\ UNCHANGED <<known, joined, updates>>
          /\ \A w, m \in Nodes : <<w, m>> # <<v, n>> => task'[<<w, m>>] = task[<<w, m>>]
      BY <1>8, ReceiveVoteFrame
    <2>2. faults \subseteq faults'
      BY <1>8 DEF ReceiveGossipedVote
    <2> QED
      BY <1>0, <1>2, <2>1, <2>2
  <1>9. ASSUME NEW v \in Nodes, NEW n \in Nodes, SaveVote(v, n)
        PROVE  NewsSent'
    <2>1. UNCHANGED <<known, joined, updates, faults>>
      BY <1>9, Zenon DEF SaveVote
    <2>2. /\ task[<<v, n>>].pc = "loaded"
          /\ \A w, m \in Nodes : <<w, m>> # <<v, n>> =>
               \/ task'[<<w, m>>] = task[<<w, m>>]
               \/ (v = n /\ w = v /\ m # n /\ task'[<<w, m>>].pc = "sent")
      BY <1>9, SaveVoteOthers, ZenonT(60)
    <2>3. v = n => \A m \in Nodes : m # n => task[<<v, m>>].pc = "none"
      BY <1>9, <2>2 DEF VotesOrdered
    <2> QED
      BY <1>0, <1>2, <2>1, <2>2, <2>3
  <1>10. ASSUME NEW v \in Nodes, NEW n \in Nodes, CheckMajority(v, n)
         PROVE  NewsSent'
    <2>1. UNCHANGED <<known, joined, updates, faults>>
      BY <1>10, Zenon DEF CheckMajority
    <2>2. /\ task[<<v, n>>].pc = "saved"
          /\ \A w, m \in Nodes : <<w, m>> # <<v, n>> => task'[<<w, m>>] = task[<<w, m>>]
      BY <1>10, CheckMajorityOthers
    <2> QED
      BY <1>0, <1>2, <2>1, <2>2
  <1>11. ASSUME NEW v \in Nodes, ExecuteFails(v) \/ UpdateUnacknowledged(v)
         PROVE  NewsSent'
    <2>1. /\ Fail(v) /\ UNCHANGED <<known, joined>> /\ faults \subseteq faults'
          /\ \/ UNCHANGED updates
             \/ [kind |-> "unacked", node |-> Orderer] \in faults'
      BY <1>11, FailCases
    <2>2. /\ task[<<v, Orderer>>].pc = "executing"
          /\ \A w, m \in Nodes : <<w, m>> # <<v, Orderer>> => task'[<<w, m>>] = task[<<w, m>>]
      BY <2>1, ExecutedTask, Zenon
    <2>3. CASE UNCHANGED updates
      BY <1>0, <1>2, <2>1, <2>2, <2>3
    <2>4. CASE [kind |-> "unacked", node |-> Orderer] \in faults'
      BY <2>4 DEF NewsSent, Silent
    <2> QED
      BY <2>1, <2>3, <2>4
  <1>12. ASSUME NEW v \in Nodes, SubmitConfigUpdate(v) \/ AddPeer(v)
         PROVE  NewsSent'
    <2>1. \E to \in {"updated", "added"} : task' = [task EXCEPT ![<<v, Orderer>>].pc = to]
      BY <1>12, Zenon DEF SubmitConfigUpdate, AddPeer, Proceed
    <2>2. task'[<<v, Orderer>>].pc \in {"updated", "added"}
      BY <1>0, <2>1, HandlerPairs DEF NodesType, NodeTasks
    <2> QED
      BY <2>2 DEF NewsSent, Silent
  <1>13. ASSUME NEW v \in Nodes, BroadcastPeerJoined(v)
         PROVE  NewsSent'
    <2>1. /\ UNCHANGED known
          /\ joined' = [n \in Nodes |-> IF n \in Targets(Orderer) THEN "sent" ELSE joined[n]]
      BY <1>13, Zenon DEF BroadcastPeerJoined
    <2>2. Orderer \notin known[Orderer]
      BY <1>0 DEF NodesType, Peers
    <2>3. known[Orderer] \cap Nodes \subseteq Targets(Orderer)
      BY <2>2 DEF Targets
    <2> QED
      BY <2>1, <2>3 DEF NewsSent, Told
  <1>14. ASSUME UNCHANGED nodeVars
         PROVE  NewsSent'
    BY <1>2, <1>14 DEF nodeVars
  <1> QED
    BY <1>3, <1>4, <1>5, <1>6, <1>7, <1>8, <1>9, <1>10, <1>11, <1>12, <1>13, <1>14
    DEF NodeNext, Stops

-----------------------------------------------------------------------------
(* The invariant                                                           *)

NodesInv ==
    /\ NodesType /\ VotesOrdered /\ HandlersOK
    /\ VotesTrue /\ TotalsAgree /\ EnoughTrue
    /\ OneExecutes /\ TornNamed /\ MajorityDue /\ NewsSent

\* The invariant holds at the start.
LEMMA NodesInvInit == NodeInit => NodesInv
  <1> SUFFICES ASSUME NodeInit PROVE NodesInv
    OBVIOUS
  <1>0. /\ Orderer \in Nodes /\ Networks \subseteq [known : [Nodes -> SUBSET Peers], routed : SUBSET Peers]
        /\ NoFile \in RequestFiles /\ NoTask \in NodeTasks
        /\ NoFile.status = "none" /\ NoFile.votes = {} /\ NoTask.pc = "none"
    BY NodeManagerAssumption, EmptyFile
  <1>1. /\ file = [n \in Nodes |-> NoFile] /\ task = [h \in Handlers |-> NoTask]
        /\ ballot = [n \in Nodes |-> "none"] /\ updates = 0 /\ raced = {}
        /\ \E network \in Networks : known = network.known
        /\ asked = [n \in Nodes |-> "none"] /\ joined = [n \in Nodes |-> "none"]
    BY Zenon DEF NodeInit
  <1>2. NodesType
    BY <1>0, <1>1 DEF NodesType, AskedOnce
  <1>3. /\ \A n \in Nodes : file[n] = NoFile /\ ballot[n] = "none"
        /\ \A v, n \in Nodes : task[<<v, n>>] = NoTask
    BY <1>1, HandlerPairs
  <1>4. \A v, n \in Nodes : ~Runs(task[<<v, n>>]) /\ task[<<v, n>>].pc = "none"
    BY <1>0, <1>3 DEF Runs
  <1>5. VotesOrdered /\ HandlersOK
    BY <1>3, <1>4 DEF VotesOrdered, HandlersOK, HandlerOK
  <1>6. VotesTrue /\ TotalsAgree
    BY <1>0, <1>3, <1>4 DEF VotesTrue, TotalsAgree, Honest
  <1>7. EnoughTrue
    BY <1>0, <1>1, <1>3, <1>4 DEF EnoughTrue, Resolved
  <1>8. OneExecutes /\ NewsSent /\ TornNamed
    BY <1>0, <1>1, <1>3, <1>4 DEF OneExecutes, NewsSent, TornNamed
  <1>9. MajorityDue
    BY <1>0, <1>3 DEF MajorityDue, ApprovalsArrive, CountIsDue, Peers
  <1> QED
    BY <1>2, <1>5, <1>6, <1>7, <1>8, <1>9 DEF NodesInv

\* Every step keeps the invariant.
LEMMA NodesInvStep == NodesInv /\ [NodeNext]_nodeVars => NodesInv'
  <1> SUFFICES ASSUME NodesInv, [NodeNext]_nodeVars PROVE NodesInv'
    OBVIOUS
  <1>1. /\ NodesType /\ VotesOrdered /\ HandlersOK /\ VotesTrue /\ TotalsAgree /\ EnoughTrue
        /\ OneExecutes /\ TornNamed /\ MajorityDue /\ NewsSent
    BY DEF NodesInv
  <1>2. CopiesStored
    BY <1>1 DEF CopiesStored, HandlersOK, HandlerOK
  <1>3. NodesType'
    BY <1>1, <1>2, NodesTypeStep
  <1>4. VotesOrdered' /\ HandlersOK' /\ TotalsAgree'
    BY <1>1, BallotsStep, HandlersStep, TotalsAgreeStep
  <1>5. VotesTrue'
    BY <1>1, <1>3, VotesTrueStep
  <1>6. EnoughTrue'
    BY <1>1, <1>3, <1>4, EnoughTrueStep
  <1>7. OneExecutes' /\ TornNamed' /\ MajorityDue' /\ NewsSent'
    BY <1>1, OneExecutesStep, TornNamedStep, MajorityDueStep, NewsSentStep
  <1> QED
    BY <1>3, <1>4, <1>5, <1>6, <1>7 DEF NodesInv

\* In every reachable state the handlers, the files and the votes agree.
THEOREM NodesInvariant == NodeSpec => []NodesInv
  BY NodesInvInit, NodesInvStep, PTL DEF NodeSpec

\* No node takes the request for approved and the channel is not updated without a
\* majority, and handlers that do not overlap update it once: UpdateFollowsMajority
\* for every set of nodes, however messages are lost and nodes stop.
THEOREM NodesUpdateForMajority == NodeSpec => []UpdateFollowsMajority
  <1>1. NodesInv => UpdateFollowsMajority
    <2> SUFFICES ASSUME NodesInv PROVE ApprovedByMajority /\ UpdatedOnce
      BY DEF UpdateFollowsMajority
    <2>1. ASSUME NEW n \in Nodes, Resolved(n) \/ updates > 0
          PROVE  \/ file[n].total > 0 /\ 2 * Cardinality(Yes) > file[n].total
                 \/ file[n].total = 0 /\ \E v \in Nodes : ballot[v] = "yes"
                 \/ file[n] = NoFile
      <3>1. file[n].total \in Nat /\ (file[n].status = "none" => file[n] = NoFile)
        BY DEF NodesInv, NodesType, RequestFiles
      <3>2. CASE file[n].status = "none"
        BY <3>1, <3>2
      <3>3. CASE file[n].status # "none"
        <4>1. Enough(ballot, file[n].total)
          BY <2>1, <3>3 DEF NodesInv, EnoughTrue
        <4>2. CASE file[n].total = 0
          BY <4>1, <4>2 DEF Enough
        <4>3. CASE file[n].total # 0
          BY <3>1, <4>1, <4>3 DEF Enough, Yes
        <4> QED
          BY <4>2, <4>3
      <3> QED
        BY <3>2, <3>3
    <2>2. UpdatedOnce
      BY DEF NodesInv, OneExecutes, UpdatedOnce
    <2> QED
      BY <2>1, <2>2 DEF ApprovedByMajority
  <1> QED
    BY <1>1, NodesInvariant, PTL

\* What a node has handled stays in its file to the end.
THEOREM NodesVotesStay == NodeSpec => HandledVotesStay
  <1>1. NodesInv /\ [NodeNext]_nodeVars =>
          [\A n \in Nodes : n \notin raced' /\ file'[n].status # "torn" =>
                            file[n].votes \subseteq file'[n].votes]_nodeVars
    BY VotesStayStep DEF NodesInv
  <1> QED
    BY <1>1, NodesInvariant, PTL DEF NodeSpec, HandledVotesStay

\* Once all is quiet the orderer's node has resolved a request that a majority
\* approved, and every peer knows the one that was admitted, but for the faults
\* that NewsArrives names.
THEOREM NodesNewsArrives == NodeSpec => []NewsArrives
  <1>1. NodesInv => MajorityIsNoticed
    <2> SUFFICES ASSUME NodesInv, Quiet, file[Orderer] # NoFile,
                        2 * Cardinality(Yes \cap routed) > file[Orderer].total,
                        Orderer \notin raced,
                        \A f \in faults : f.kind \in {"joined", "unacked"},
                        ~Resolved(Orderer)
                 PROVE  FALSE
      BY DEF MajorityIsNoticed
    <2>0. Orderer \in Nodes
      BY NodeManagerAssumption
    <2> DEFINE req == file[Orderer]
    <2>a. [kind |-> "torn", node |-> Orderer] \notin faults
      OBVIOUS
    <2>1. req \in RequestFiles /\ req.status = "pending" /\ req.total \in Nat
      BY <2>0, <2>a DEF NodesInv, NodesType, RequestFiles, Resolved, TornNamed
    <2>2. ApprovalsArrive /\ CountIsDue
      BY DEF NodesInv, MajorityDue, Undisturbed
    <2>3. \A v, n \in Nodes : task[<<v, n>>].pc \in {"none", "done"}
      BY HandlerPairs DEF Quiet
    <2> DEFINE Y == Yes \cap routed
    <2>4. \A v \in Y : <<v, TRUE>> \in req.votes
      BY <2>0, <2>2, <2>3 DEF Yes, ApprovalsArrive, OnItsWay, Peers
    <2>5. Y \subseteq Approvals(req)
      BY <2>4 DEF Approvals, Yes, Peers
    <2>6. Approvals(req) \subseteq Nodes /\ Y \subseteq Nodes
      BY DEF Approvals, Yes, Peers
    <2>7. /\ Cardinality(Approvals(req)) \in Nat /\ Cardinality(Y) \in Nat
          /\ Cardinality(Y) <= Cardinality(Approvals(req))
      BY <2>5, <2>6, ApprovalsCount, FS_Subset
    <2>8. 2 * Cardinality(Y) > req.total
      OBVIOUS
    <2> HIDE DEF Y
    <2> HIDE DEF req
    <2>9. Cardinality(Approvals(req)) >= RequiredVotes(req)
      BY <2>1, <2>7, <2>8, HalfOf DEF RequiredVotes
    <2>10. ~(req.status = "pending" /\ MajorityReached(req))
      BY <2>0, <2>2, <2>3 DEF CountIsDue, req
    <2> QED
      BY <2>1, <2>9, <2>10 DEF MajorityReached
  <1>2. NodesInv => NewPeerIsKnown
    <2> SUFFICES ASSUME NodesInv, Quiet, updates > 0, NEW n \in known[Orderer] \cap Nodes
                 PROVE  \/ Fresh \in known[n]
                        \/ \E kind \in {"joined", "forgot"} :
                              [kind |-> kind, node |-> n] \in faults
                        \/ \E kind \in {"unannounced", "unacked"} :
                              [kind |-> kind, node |-> Orderer] \in faults
      BY DEF NewPeerIsKnown
    <2>1. joined[n] # "sent" /\ \A v \in Nodes : task[<<v, Orderer>>].pc \in {"none", "done"}
      BY HandlerPairs, NodeManagerAssumption DEF Quiet
    <2> QED
      BY <2>1 DEF NodesInv, NewsSent, Silent, Told
  <1>3. NodesInv => NewsArrives
    BY <1>1, <1>2 DEF NewsArrives
  <1> QED
    BY <1>3, NodesInvariant, PTL
=============================================================================
