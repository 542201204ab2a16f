----------------------------- MODULE Governance -----------------------------
(***************************************************************************)
(* The governance chaincode: organisations ask to join the network and     *)
(* others vote (chain/chaincode/governance/governance.go).  castVote does  *)
(* not ask whether the voter is on the registry.                           *)
(*                                                                         *)
(* A chaincode call runs twice over.  It is endorsed: the peer executes it *)
(* on the current world state, with the client's timestamp, and an error   *)
(* discards every write.  Later it commits, if no key or range it read has *)
(* been written meanwhile; otherwise the block marks it invalid.  call[c]  *)
(* is the endorsed call client c waits for, at[c] its timestamp, and stale *)
(* the clients whose call has lost a read since.  A call whose reads are   *)
(* intact would write at commit what it wrote when endorsed, so its writes *)
(* are computed there.  Queries change nothing and are left out; so are    *)
(* the threshold percentage, names, addresses and reasons, which no branch *)
(* of the contract reads.                                                  *)
(***************************************************************************)
EXTENDS Integers, FiniteSets

CONSTANTS
    MSPs,           \* organisations, members or not
    Clients,        \* their client identities
    MspOf,          \* clientMSP: the organisation of a client
    OrgLists,       \* the lists RegisterExistingOrgs is called with
    Applicants,     \* the organisations RequestJoin is called for
    Requests,       \* transaction ids of RequestJoin calls
    Policies,       \* the policies UpdatePolicy is called with
    DefaultPolicy,  \* MAJORITY, 168 hours
    MaxTime,        \* bound on the clock, in hours
    MaxInFlight     \* bound on the calls endorsed and not yet committed

ASSUME OrgsAssumption ==
    /\ MSPs # {} /\ IsFiniteSet(MSPs)
    /\ MspOf \in [Clients -> MSPs] /\ OrgLists \subseteq SUBSET MSPs
    /\ Applicants \subseteq MSPs
ASSUME PolicyAssumption ==
    Policies \cup {DefaultPolicy} \subseteq
        [policyType : {"MAJORITY", "UNANIMOUS", "THRESHOLD"}, expiryHours : Nat \ {0}]
ASSUME BoundsAssumption == MaxTime \in Nat /\ MaxInFlight \in Nat

VARIABLES
    clock,      \* hours
    orgs,       \* the orgRegistry entries
    policy,     \* the stored policy, or NoPolicy
    requests,   \* the joinRequest documents by id; Absent before RequestJoin
    votes,      \* the vote documents
    call,       \* what each client has had endorsed, or NoCall
    at,         \* the timestamp of that proposal
    stale       \* clients whose call read something since overwritten

vars == <<clock, orgs, policy, requests, votes, call, at, stale>>

\* The founding organisations.
Founders == UNION OrgLists

NoPolicy == [policyType |-> "NONE", expiryHours |-> 0]
NoCall == [fn |-> "none"]
Decisions == {"APPROVE", "REJECT"}

JoinRequest ==
    [status : {"ABSENT", "PENDING", "APPROVED", "REJECTED"}, msp : MSPs,
     approvals : SUBSET MSPs, rejections : SUBSET MSPs,
     totalOrgs : Nat, requiredAck : Nat, createdAt : Nat]

VoteRecord == [request : Requests, voter : MSPs, decision : Decisions]

Calls ==
    [fn : {"RequestJoin"}, request : Requests, msp : MSPs]
    \cup [fn : {"castVote"}, request : Requests, decision : Decisions]
    \cup [fn : {"UpdatePolicy"}, policy : Policies]
    \cup [fn : {"RegisterExistingOrgs"}, orgs : OrgLists]
    \cup [fn : {"InitLedger"}]

TypeOK ==
    /\ clock \in 0..MaxTime
    /\ orgs \subseteq MSPs
    /\ policy \in Policies \cup {DefaultPolicy, NoPolicy}
    /\ requests \in [Requests -> JoinRequest]
    /\ votes \subseteq VoteRecord
    /\ call \in [Clients -> Calls \cup {NoCall}]
    /\ at \in [Clients -> 0..MaxTime]
    /\ stale \subseteq Clients

AbsentRequest ==
    [status |-> "ABSENT", msp |-> CHOOSE m \in MSPs : TRUE,
     approvals |-> {}, rejections |-> {},
     totalOrgs |-> 0, requiredAck |-> 0, createdAt |-> 0]

Init ==
    /\ clock = 0 /\ orgs = {} /\ policy = NoPolicy /\ votes = {}
    /\ requests = [r \in Requests |-> AbsentRequest]
    /\ call = [c \in Clients |-> NoCall]
    /\ at = [c \in Clients |-> 0]
    /\ stale = {}

-----------------------------------------------------------------------------
(* The contract's helpers. *)

getPolicy == IF policy = NoPolicy THEN DefaultPolicy ELSE policy

isExpired(createdAt, expiryHours, now) == now > createdAt + expiryHours

countExistingOrgs == Cardinality(orgs)

\* Mutant: only approvals are searched for an earlier vote.
HasApproved(q, m) == m \in q.approvals

AlreadyVoted(q, m) == m \in q.approvals \cup q.rejections

\* Mutant: the impossibility test is off by one.
WithVoteEager(q, m, decision) ==
    LET approvals == q.approvals \cup (IF decision = "APPROVE" THEN {m} ELSE {})
        rejections == q.rejections \cup (IF decision = "REJECT" THEN {m} ELSE {})
    IN [q EXCEPT !.approvals = approvals, !.rejections = rejections,
                 !.status = IF q.totalOrgs - Cardinality(rejections) <= q.requiredAck
                            THEN "REJECTED"
                            ELSE IF Cardinality(approvals) >= q.requiredAck
                            THEN "APPROVED" ELSE @]

\* The vote applied and the outcome evaluated: the second test overrides the first.
WithVote(q, m, decision) ==
    LET approvals == q.approvals \cup (IF decision = "APPROVE" THEN {m} ELSE {})
        rejections == q.rejections \cup (IF decision = "REJECT" THEN {m} ELSE {})
    IN [q EXCEPT !.approvals = approvals, !.rejections = rejections,
                 !.status = IF q.totalOrgs - Cardinality(rejections) < q.requiredAck
                            THEN "REJECTED"
                            ELSE IF Cardinality(approvals) >= q.requiredAck
                            THEN "APPROVED" ELSE @]

Admits(q) == Cardinality(q.approvals) >= q.requiredAck

-----------------------------------------------------------------------------
(* Fabric's transaction flow, as the contract relies on it. *)

\* Endorsement: the guard held on the world state read, the write set waits.
Endorse(c, k) ==
    /\ call[c] = NoCall
    /\ Cardinality({d \in Clients : call[d] # NoCall}) < MaxInFlight
    /\ call' = [call EXCEPT ![c] = k]
    /\ at' = [at EXCEPT ![c] = clock]
    /\ UNCHANGED <<clock, orgs, policy, requests, votes, stale>>

\* Mutant: pending requests are found by a rich query, which Fabric does not
\* validate again at commit.
ReadsRichQuery(k) ==
    CASE k.fn = "RequestJoin" -> {"orgRegistry"}
      [] k.fn = "castVote"    -> {k.request, "policy"}
      [] k.fn = "InitLedger"  -> {"policy"}
      [] OTHER                -> {}

\* Mutant: castVote's read of the policy is not validated again at commit.
ReadsPolicyOnce(k) ==
    CASE k.fn = "RequestJoin" -> Requests \cup {"orgRegistry"}
      [] k.fn = "castVote"    -> {k.request}
      [] k.fn = "InitLedger"  -> {"policy"}
      [] OTHER                -> {}

\* The ledger keys and ranges an endorsed call has read: a request id stands
\* for its joinRequest document.
Reads(k) ==
    CASE k.fn = "RequestJoin" -> Requests \cup {"orgRegistry"}
      [] k.fn = "castVote"    -> {k.request, "policy"}
      [] k.fn = "InitLedger"  -> {"policy"}
      [] OTHER                -> {}

\* Validation and commit: c's call is done, and those that read a key of
\* written are now stale.
Committed(c, written) ==
    /\ call[c] # NoCall /\ c \notin stale
    /\ call' = [call EXCEPT ![c] = NoCall]
    /\ stale' = stale \cup {d \in Clients \ {c} : Reads(call[d]) \cap written # {}}
    /\ at' = [at EXCEPT ![c] = 0]
    /\ UNCHANGED clock

\* A stale call is marked invalid in its block; any call may be lost on the
\* way to the orderer.
Dropped(c) ==
    /\ call[c] # NoCall
    /\ call' = [call EXCEPT ![c] = NoCall]
    /\ stale' = stale \ {c}
    /\ at' = [at EXCEPT ![c] = 0]
    /\ UNCHANGED <<clock, orgs, policy, requests, votes>>

Tick ==
    /\ clock < MaxTime
    /\ clock' = clock + 1
    /\ UNCHANGED <<orgs, policy, requests, votes, call, at, stale>>

-----------------------------------------------------------------------------
(* InitLedger, UpdatePolicy and RegisterExistingOrgs. *)

\* With a policy stored the call succeeds and writes nothing.
InitLedger(c) == policy = NoPolicy /\ Endorse(c, [fn |-> "InitLedger"])

CommitInitLedger(c) ==
    /\ call[c].fn = "InitLedger"
    /\ policy' = DefaultPolicy
    /\ Committed(c, {"policy"})
    /\ UNCHANGED <<orgs, requests, votes>>

UpdatePolicy(c) == \E p \in Policies : Endorse(c, [fn |-> "UpdatePolicy", policy |-> p])

CommitUpdatePolicy(c) ==
    /\ call[c].fn = "UpdatePolicy"
    /\ policy' = call[c].policy
    /\ Committed(c, {"policy"})
    /\ UNCHANGED <<orgs, requests, votes>>

RegisterExistingOrgs(c) ==
    \E S \in OrgLists : Endorse(c, [fn |-> "RegisterExistingOrgs", orgs |-> S])

CommitRegisterExistingOrgs(c) ==
    /\ call[c].fn = "RegisterExistingOrgs"
    /\ orgs' = orgs \cup call[c].orgs
    /\ Committed(c, {"orgRegistry"})
    /\ UNCHANGED <<policy, requests, votes>>

-----------------------------------------------------------------------------
(* RequestJoin. *)

NoPendingRequest(m) == \A r \in Requests : ~(requests[r].status = "PENDING" /\ requests[r].msp = m)

\* The request id is the transaction's own id, so no other call carries it.
RequestJoin(c) ==
    \E r \in Requests, m \in Applicants :
        /\ requests[r].status = "ABSENT"
        /\ \A d \in Clients : call[d].fn = "RequestJoin" => call[d].request # r
        /\ NoPendingRequest(m)
        /\ Endorse(c, [fn |-> "RequestJoin", request |-> r, msp |-> m])

CommitRequestJoin(c) ==
    /\ call[c].fn = "RequestJoin"
    /\ requests' = [requests EXCEPT ![call[c].request] =
            [status |-> "PENDING", msp |-> call[c].msp,
             approvals |-> {}, rejections |-> {},
             totalOrgs |-> countExistingOrgs,
             requiredAck |-> (countExistingOrgs \div 2) + 1,
             createdAt |-> at[c]]]
    /\ Committed(c, {call[c].request})
    /\ UNCHANGED <<orgs, policy, votes>>

-----------------------------------------------------------------------------
(* castVote, the body of ApproveJoin and RejectJoin. *)

\* Mutant: any stored request takes votes.
VotableAlways(r) == requests[r].status # "ABSENT"

Votable(r) == requests[r].status = "PENDING"

Expired(r) == isExpired(requests[r].createdAt, getPolicy.expiryHours, clock)

\* Mutant: the requesting organisation may vote.
CastVoteOwn(c) ==
    \E r \in Requests, decision \in Decisions :
        /\ Votable(r) /\ ~Expired(r)
        /\ ~AlreadyVoted(requests[r], MspOf[c])
        /\ Endorse(c, [fn |-> "castVote", request |-> r, decision |-> decision])

castVote(c) ==
    \E r \in Requests, decision \in Decisions :
        /\ Votable(r) /\ ~Expired(r)
        /\ MspOf[c] # requests[r].msp
        /\ ~AlreadyVoted(requests[r], MspOf[c])
        /\ Endorse(c, [fn |-> "castVote", request |-> r, decision |-> decision])

\* An expired request: EXPIRED is put and an error returned, so the peer
\* endorses nothing, the write is gone and the request stays PENDING.
CastVoteExpired(c) ==
    \E r \in Requests :
        /\ call[c] = NoCall
        /\ Votable(r) /\ Expired(r)
        /\ UNCHANGED vars

CommitCastVote(c) ==
    LET r == call[c].request
        q == WithVote(requests[r], MspOf[c], call[c].decision)
    IN /\ call[c].fn = "castVote"
       /\ requests' = [requests EXCEPT ![r] = q]
       /\ votes' = votes \cup
            {[request |-> r, voter |-> MspOf[c], decision |-> call[c].decision]}
       /\ orgs' = orgs \cup (IF Admits(q) THEN {q.msp} ELSE {})
       /\ Committed(c, {r} \cup (IF Admits(q) THEN {"orgRegistry"} ELSE {}))
       /\ UNCHANGED policy

-----------------------------------------------------------------------------

Submit(c) ==
    \/ InitLedger(c) \/ UpdatePolicy(c) \/ RegisterExistingOrgs(c)
    \/ RequestJoin(c) \/ castVote(c) \/ CastVoteExpired(c)

Commit(c) ==
    \/ CommitInitLedger(c) \/ CommitUpdatePolicy(c) \/ CommitRegisterExistingOrgs(c)
    \/ CommitRequestJoin(c) \/ CommitCastVote(c)

Next == Tick \/ \E c \in Clients : Submit(c) \/ Commit(c) \/ Dropped(c)

Spec == Init /\ [][Next]_vars

-----------------------------------------------------------------------------
(* Properties. *)

\* However endorsements and commits interleave, an organisation never has two
\* pending join requests at once: RequestJoin's scan and its put are one
\* transaction although sponsors may call it concurrently.
OnePendingPerMSP ==
    \A r, s \in Requests :
        /\ requests[r].status = "PENDING" /\ requests[s].status = "PENDING"
        /\ requests[r].msp = requests[s].msp
        => r = s

\* Each organisation counts once per request even when several of its clients
\* vote concurrently: the tallies are disjoint, and they are the vote documents.
OneVoteEach ==
    \A r \in Requests :
        /\ requests[r].approvals \cap requests[r].rejections = {}
        /\ requests[r].approvals =
            {m \in MSPs : [request |-> r, voter |-> m, decision |-> "APPROVE"] \in votes}
        /\ requests[r].rejections =
            {m \in MSPs : [request |-> r, voter |-> m, decision |-> "REJECT"] \in votes}

\* The status castVote stores is the one the votes call for: a request is
\* pending exactly while neither outcome is decided, and approved exactly when
\* a majority of the organisations counted at its creation has approved.
OutcomeFollowsVotes ==
    \A r \in Requests :
        LET q == requests[r]
            lost == q.totalOrgs - Cardinality(q.rejections) < q.requiredAck
        IN /\ q.status = "APPROVED" =>
                Cardinality(q.approvals) = q.requiredAck /\ ~lost
           /\ q.status = "REJECTED" => lost
           /\ q.status = "PENDING" =>
                \/ q.approvals = {} /\ q.rejections = {}
                \/ Cardinality(q.approvals) < q.requiredAck /\ ~lost

\* The organisations whose vote documents approve a request.
Approvers(r) ==
    {m \in MSPs : [request |-> r, voter |-> m, decision |-> "APPROVE"] \in votes}

\* An organisation that is not a founder is in the registry only because more
\* organisations voted for one of its requests than half as many as the
\* registry had at that request, each once and itself not: not necessarily
\* registered ones, for castVote compares the voter with the requester only.
AdmittedByVotes ==
    \A m \in orgs \ Founders : \E r \in Requests :
        /\ requests[r].msp = m /\ m \notin Approvers(r)
        /\ 2 * Cardinality(Approvers(r)) > requests[r].totalOrgs

\* A resolved request is final: no vote endorsed before the decision, in
\* flight while it was taken, may reopen or change it.
ResolvedIsFinal ==
    [][\A r \in Requests : requests[r].status \in {"APPROVED", "REJECTED"} =>
            requests'[r] = requests[r]]_vars

\* Only votes proposed before a request's expiry, by the policy that holds when
\* they commit, are ever counted: a vote endorsed in time and committed late
\* counts, but none whose expiry check read a policy replaced since (castVote).
LateVotesDecideNothing ==
    [][\A r \in Requests :
        requests[r].status = "PENDING" /\ requests'[r] # requests[r] =>
            \E c \in Clients :
                /\ call[c].fn = "castVote" /\ call[c].request = r /\ call'[c] = NoCall
                /\ ~isExpired(requests[r].createdAt, getPolicy.expiryHours, at[c])]_vars

=============================================================================
