----------------------------- MODULE NodeManager -----------------------------
(***************************************************************************)
(* Admission of one organisation by the node managers: the join request    *)
(* and the votes are sent once to every known node, each handler loads the *)
(* request's file, changes its copy and saves it, and the orderer's node   *)
(* updates the channel once a majority approved.  Handlers of one node     *)
(* overlap; messages get lost; an update may take effect and be reported   *)
(* as failed; a node may stop, lose its handlers and leave the file it was *)
(* writing unreadable.                                                     *)
(***************************************************************************)
EXTENDS Naturals, FiniteSets

CONSTANTS Nodes,        \* the orderer's node and those of the peer organisations
          Orderer,      \* the node whose votes do not count (OrdererMSP)
          Networks,     \* what peers.json and node.json may say: the peers each node
                        \* knows, and the peers that stored the orderer's address
          MaxVotes,     \* bound on the votes cast
          MaxFaults,    \* bound on messages and answers lost and nodes stopped
          Fresh         \* the organisation that asks to join

Peers == Nodes \ {Orderer}

ASSUME NodeManagerAssumption ==
    /\ IsFiniteSet(Nodes) /\ Orderer \in Nodes /\ Fresh \notin Nodes
    /\ Networks \subseteq [known : [Nodes -> SUBSET Peers], routed : SUBSET Peers]
    /\ MaxVotes \in Nat /\ MaxFaults \in Nat

VARIABLES
    known,     \* known[n]: peers.json of n
    routed,    \* the peers whose node.json has the orderer's address
    file,      \* file[n]: requests/<id>.json of n, or NoFile
    asked,     \* asked[n]: the gossiped request on its way to n
    task,      \* task[<<v, n>>]: what n does about the vote of v
    joined,    \* joined[n]: the peer-joined message on its way to n
    ballot,    \* ballot[v]: the vote v's operator cast (history)
    updates,   \* channel updates that added the organisation (history)
    raced,     \* nodes where a handler saved a copy that was out of date (history)
    faults     \* messages and answers lost, votes ignored, nodes stopped (history)

nodeVars == <<known, routed, file, asked, task, joined, ballot, updates, raced, faults>>

NoFile == [status |-> "none", votes |-> {}, total |-> 0]
Votes == Nodes \X BOOLEAN
Files == [status : {"none", "pending", "approved", "rejected", "torn"}, votes : SUBSET Votes,
          total : 0 .. Cardinality(Nodes)]
Handlers == Nodes \X Nodes
NoTask == [pc |-> "none", base |-> NoFile, copy |-> NoFile]
Faults == [kind : {"request", "vote", "joined", "early", "crash", "unannounced", "unacked",
                   "torn", "forgot"}, node : Nodes]

NodeTypeOK ==
    /\ known \in [Nodes -> SUBSET (Peers \cup {Fresh})]
    /\ routed \subseteq Peers
    /\ file \in [Nodes -> Files]
    /\ asked \in [Nodes -> {"none", "sent", "done"}]
    /\ task \in [Handlers -> [pc : {"none", "sent", "loaded", "saved", "executing", "updated",
                                    "added", "done"},
                              base : Files, copy : Files]]
    /\ joined \in [Nodes -> {"none", "sent", "done"}]
    /\ ballot \in [Nodes -> {"none", "yes", "no"}]
    /\ updates \in 0 .. Cardinality(Handlers)
    /\ raced \subseteq Nodes
    /\ faults \subseteq Faults

NodeInit ==
    /\ \E network \in Networks : known = network.known /\ routed = network.routed
    /\ file = [n \in Nodes |-> NoFile]
    /\ asked = [n \in Nodes |-> "none"]
    /\ task = [h \in Handlers |-> NoTask]
    /\ joined = [n \in Nodes |-> "none"]
    /\ ballot = [n \in Nodes |-> "none"]
    /\ updates = 0
    /\ raced = {}
    /\ faults = {}

-----------------------------------------------------------------------------
(* JoinRequest                                                             *)

RequiredVotes(req) == IF req.total = 0 THEN 1 ELSE req.total \div 2 + 1

\* ApprovalCount: the orderer's vote counts for the first peer only.
Approvals(req) == {v \in Nodes : <<v, TRUE>> \in req.votes /\ (req.total = 0 \/ v # Orderer)}

MajorityReached(req) == Cardinality(Approvals(req)) >= RequiredVotes(req)

HasVoted(req, v) == \E approve \in BOOLEAN : <<v, approve>> \in req.votes

\* gossipTargets: the known peers and, if its address is stored, the orderer; what
\* a node sends to itself changes nothing.
Targets(n) == ((known[n] \cup {x \in {Orderer} : n \in routed}) \ {n}) \cap Nodes

\* LoadJoinRequest gives an error.  A torn file keeps the total for the request that
\* is on its way; no node reads it.
Unreadable(n) == file[n].status \in {"none", "torn"}

\* SaveJoinRequest of a copy made when the file said base.
SaveFile(n, base, copy) ==
    /\ file' = [file EXCEPT ![n] = copy]
    /\ raced' = IF file[n] = base THEN raced ELSE raced \cup {n}

-----------------------------------------------------------------------------
(* The request                                                             *)

\* SubmitJoinRequest, at the node the organisation turned to.
SubmitJoinRequest(n) ==
    /\ \A x \in Nodes : file[x] = NoFile
    /\ file' = [file EXCEPT ![n] = [status |-> "pending", votes |-> {},
                                    total |-> Cardinality(known[n])]]
    /\ asked' = [x \in Nodes |-> IF x \in Targets(n) THEN "sent" ELSE asked[x]]
    /\ UNCHANGED <<known, routed, task, joined, ballot, updates, raced, faults>>

\* ReceiveGossipedRequest.  The request is gossiped as it was submitted, without
\* votes, so a node that has it changes nothing.
ReceiveGossipedRequest(n) ==
    /\ asked[n] = "sent"
    /\ asked' = [asked EXCEPT ![n] = "done"]
    /\ \E x \in Nodes :
          /\ file[x] # NoFile
          /\ file' = [file EXCEPT ![n] =
                        IF Unreadable(n)
                        THEN [status |-> "pending", votes |-> {}, total |-> file[x].total]
                        ELSE @]
    /\ UNCHANGED <<known, routed, task, joined, ballot, updates, raced, faults>>

-----------------------------------------------------------------------------
(* A vote                                                                  *)

Loaded(n, v, approve) ==
    [pc |-> "loaded", base |-> file[n],
     copy |-> [file[n] EXCEPT !.votes = @ \cup {<<v, approve>>}]]

\* CastVote up to the save.
CastVote(n, approve) ==
    /\ Cardinality({v \in Nodes : ballot[v] # "none"}) < MaxVotes
    /\ task[<<n, n>>].pc = "none"
    /\ file[n].status = "pending"
    /\ ~HasVoted(file[n], n)
    /\ task' = [task EXCEPT ![<<n, n>>] = Loaded(n, n, approve)]
    /\ ballot' = [ballot EXCEPT ![n] = IF approve THEN "yes" ELSE "no"]
    /\ UNCHANGED <<known, routed, file, asked, joined, updates, raced, faults>>

\* ReceiveGossipedVote up to the save: a vote on a request that is unknown or
\* cannot be read is ignored.
ReceiveGossipedVote(v, n) ==
    /\ v # n
    /\ task[<<v, n>>].pc = "sent"
    /\ \/ /\ Unreadable(n)
          /\ task' = [task EXCEPT ![<<v, n>>] = [NoTask EXCEPT !.pc = "done"]]
          /\ faults' = faults \cup {[kind |-> "early", node |-> n]}
       \/ /\ ~Unreadable(n) /\ HasVoted(file[n], v)
          /\ task' = [task EXCEPT ![<<v, n>>] = [NoTask EXCEPT !.pc = "done"]]
          /\ UNCHANGED faults
       \/ /\ ~Unreadable(n) /\ ~HasVoted(file[n], v)
          /\ task' = [task EXCEPT ![<<v, n>>] = Loaded(n, v, ballot[v] = "yes")]
          /\ UNCHANGED faults
    /\ UNCHANGED <<known, routed, file, asked, joined, ballot, updates, raced>>

\* Mutant: a vote that was cast is saved and not gossiped.
SaveVoteUngossiped(v, n) ==
    LET t == task[<<v, n>>] IN
    /\ t.pc = "loaded"
    /\ SaveFile(n, t.base, t.copy)
    /\ task' = [task EXCEPT ![<<v, n>>] = [t EXCEPT !.pc = "saved", !.base = t.copy]]
    /\ UNCHANGED <<known, routed, asked, joined, ballot, updates, faults>>

\* The save, and the gossip of one's own vote.
SaveVote(v, n) ==
    LET t == task[<<v, n>>] IN
    /\ t.pc = "loaded"
    /\ SaveFile(n, t.base, t.copy)
    /\ task' = [h \in Handlers |->
                  IF h = <<v, n>> THEN [t EXCEPT !.pc = "saved", !.base = t.copy]
                  ELSE IF v = n /\ h[1] = v /\ h[2] \in Targets(n)
                  THEN [NoTask EXCEPT !.pc = "sent"]
                  ELSE task[h]]
    /\ UNCHANGED <<known, routed, asked, joined, ballot, updates, faults>>

\* Mutant: the copy's status is not looked at.
CheckMajorityAgain(v, n) ==
    LET t == task[<<v, n>>]
        approved == [t.copy EXCEPT !.status = "approved"]
    IN /\ t.pc = "saved"
       /\ \/ /\ MajorityReached(t.copy)
             /\ SaveFile(n, t.base, approved)
             /\ task' = [task EXCEPT ![<<v, n>>] =
                           IF n = Orderer
                           THEN [pc |-> "executing", base |-> approved, copy |-> approved]
                           ELSE [NoTask EXCEPT !.pc = "done"]]
          \/ /\ ~MajorityReached(t.copy)
             /\ task' = [task EXCEPT ![<<v, n>>] = [NoTask EXCEPT !.pc = "done"]]
             /\ UNCHANGED <<file, raced>>
       /\ UNCHANGED <<known, routed, asked, joined, ballot, updates, faults>>

\* checkMajority, on the copy: approved, and carried out at the orderer's node.
CheckMajority(v, n) ==
    LET t == task[<<v, n>>]
        approved == [t.copy EXCEPT !.status = "approved"]
        reached == t.copy.status = "pending" /\ MajorityReached(t.copy)
    IN /\ t.pc = "saved"
       /\ \/ /\ reached
             /\ SaveFile(n, t.base, approved)
             /\ task' = [task EXCEPT ![<<v, n>>] =
                           IF n = Orderer
                           THEN [pc |-> "executing", base |-> approved, copy |-> approved]
                           ELSE [NoTask EXCEPT !.pc = "done"]]
          \/ /\ ~reached
             /\ task' = [task EXCEPT ![<<v, n>>] = [NoTask EXCEPT !.pc = "done"]]
             /\ UNCHANGED <<file, raced>>
       /\ UNCHANGED <<known, routed, asked, joined, ballot, updates, faults>>

-----------------------------------------------------------------------------
(* executeApproval                                                         *)

MayFail == Cardinality({f \in faults : f.kind # "early"}) < MaxFaults

\* Mutant: a request is rejected with its votes cleared.
ExecuteFailsCleared(v) ==
    LET t == task[<<v, Orderer>>] IN
    /\ t.pc = "executing"
    /\ SaveFile(Orderer, t.base, [t.copy EXCEPT !.status = "rejected", !.votes = {}])
    /\ task' = [task EXCEPT ![<<v, Orderer>>] = [NoTask EXCEPT !.pc = "done"]]
    /\ UNCHANGED <<known, routed, asked, joined, ballot, updates, faults>>

\* fail: the request is saved as rejected.
Fail(v) ==
    LET t == task[<<v, Orderer>>] IN
    /\ t.pc = "executing"
    /\ SaveFile(Orderer, t.base, [t.copy EXCEPT !.status = "rejected"])
    /\ task' = [task EXCEPT ![<<v, Orderer>>] = [NoTask EXCEPT !.pc = "done"]]

\* An envelope that cannot be made, signed or submitted.
ExecuteFails(v) ==
    /\ Fail(v)
    /\ UNCHANGED <<known, routed, asked, joined, ballot, updates, faults>>

\* SubmitConfigUpdate orders the update, and the command reports an error.
UpdateUnacknowledged(v) ==
    /\ MayFail
    /\ Fail(v)
    /\ updates' = updates + 1
    /\ faults' = faults \cup {[kind |-> "unacked", node |-> Orderer]}
    /\ UNCHANGED <<known, routed, asked, joined, ballot>>

\* The handler goes on to the next call.
Proceed(v, from, to) ==
    /\ task[<<v, Orderer>>].pc = from
    /\ task' = [task EXCEPT ![<<v, Orderer>>].pc = to]

\* SubmitConfigUpdate: the organisation is on the channel.
SubmitConfigUpdate(v) ==
    /\ Proceed(v, "executing", "updated")
    /\ updates' = updates + 1
    /\ UNCHANGED <<known, routed, file, asked, joined, ballot, raced, faults>>

AddPeer(v) ==
    /\ Proceed(v, "updated", "added")
    /\ known' = [known EXCEPT ![Orderer] = @ \cup {Fresh}]
    /\ UNCHANGED <<routed, file, asked, joined, ballot, updates, raced, faults>>

BroadcastPeerJoined(v) ==
    /\ Proceed(v, "added", "done")
    /\ joined' = [n \in Nodes |-> IF n \in Targets(Orderer) THEN "sent" ELSE joined[n]]
    /\ UNCHANGED <<known, routed, file, asked, ballot, updates, raced, faults>>

HandlePeerJoined(n) ==
    /\ joined[n] = "sent"
    /\ joined' = [joined EXCEPT ![n] = "done"]
    /\ known' = [known EXCEPT ![n] = @ \cup {Fresh}]
    /\ UNCHANGED <<routed, file, asked, task, ballot, updates, raced, faults>>

-----------------------------------------------------------------------------
(* Faults                                                                  *)

\* sendToPeer fails, once and for all.
Lose(kind, n) ==
    /\ MayFail
    /\ \/ /\ kind = "request" /\ asked[n] = "sent"
          /\ asked' = [asked EXCEPT ![n] = "done"]
          /\ UNCHANGED <<task, joined>>
       \/ /\ kind = "vote"
          /\ \E v \in Nodes \ {n} :
                /\ task[<<v, n>>].pc = "sent"
                /\ task' = [task EXCEPT ![<<v, n>>] = [NoTask EXCEPT !.pc = "done"]]
          /\ UNCHANGED <<asked, joined>>
       \/ /\ kind = "joined" /\ joined[n] = "sent"
          /\ joined' = [joined EXCEPT ![n] = "done"]
          /\ UNCHANGED <<asked, task>>
    /\ faults' = faults \cup {[kind |-> kind, node |-> n]}
    /\ UNCHANGED <<known, routed, file, ballot, updates, raced>>

Running(h) == task[h].pc \in {"loaded", "saved", "executing", "updated", "added"}

\* Nothing resumes a handler of a node that stops.
HandlersStop(n) ==
    task' = [h \in Handlers |-> IF h[2] = n /\ Running(h)
                                THEN [NoTask EXCEPT !.pc = "done"] ELSE task[h]]

\* The stop comes between the update of the channel and its announcement, or not.
StopOf(n) ==
    [kind |-> IF \E v \in Nodes : task[<<v, n>>].pc \in {"updated", "added"}
              THEN "unannounced" ELSE "crash",
     node |-> n]

\* The node stops and starts again with its files.
Crash(n) ==
    /\ MayFail
    /\ \E v \in Nodes : Running(<<v, n>>)
    /\ HandlersStop(n)
    /\ faults' = faults \cup {StopOf(n)}
    /\ UNCHANGED <<known, routed, file, asked, joined, ballot, updates, raced>>

\* The node stops inside os.WriteFile of the request: a handler's save, or the store
\* of the request that came.
TearRequest(n) ==
    /\ MayFail
    /\ \/ /\ \E v \in Nodes : task[<<v, n>>].pc \in {"loaded", "saved", "executing"}
          /\ file' = [file EXCEPT ![n] = [@ EXCEPT !.status = "torn", !.votes = {}]]
          /\ UNCHANGED asked
       \/ /\ asked[n] = "sent" /\ Unreadable(n)
          /\ asked' = [asked EXCEPT ![n] = "done"]
          /\ \E x \in Nodes :
                /\ file[x] # NoFile
                /\ file' = [file EXCEPT ![n] = [status |-> "torn", votes |-> {},
                                                total |-> file[x].total]]
    /\ HandlersStop(n)
    /\ faults' = faults \cup {StopOf(n), [kind |-> "torn", node |-> n]}
    /\ UNCHANGED <<known, routed, joined, ballot, updates, raced>>

\* The node stops inside AddPeer's write of peers.json, of the orderer's handler or
\* on the message: every LoadPeers then counts nobody.
TearPeers(n) ==
    /\ MayFail
    /\ known' = [known EXCEPT ![n] = {}]
    /\ \/ n = Orderer /\ (\E v \in Nodes : task[<<v, n>>].pc = "updated") /\ UNCHANGED joined
       \/ joined[n] = "sent" /\ joined' = [joined EXCEPT ![n] = "done"]
    /\ HandlersStop(n)
    /\ faults' = faults \cup {StopOf(n), [kind |-> "forgot", node |-> n]}
    /\ UNCHANGED <<routed, file, asked, ballot, updates, raced>>

NodeNext ==
    \/ \E n \in Nodes :
          \/ SubmitJoinRequest(n) \/ ReceiveGossipedRequest(n) \/ HandlePeerJoined(n)
          \/ Crash(n) \/ TearRequest(n) \/ TearPeers(n)
          \/ \E approve \in BOOLEAN : CastVote(n, approve)
          \/ \E kind \in {"request", "vote", "joined"} : Lose(kind, n)
    \/ \E v, n \in Nodes : ReceiveGossipedVote(v, n) \/ SaveVote(v, n) \/ CheckMajority(v, n)
    \/ \E v \in Nodes :
          \/ ExecuteFails(v) \/ UpdateUnacknowledged(v)
          \/ SubmitConfigUpdate(v) \/ AddPeer(v) \/ BroadcastPeerJoined(v)

NodeSpec == NodeInit /\ [][NodeNext]_nodeVars

-----------------------------------------------------------------------------
(* Properties                                                              *)

Resolved(n) == file[n].status \in {"approved", "rejected"}
Yes == {v \in Peers : ballot[v] = "yes"}

\* However votes are lost, ignored or overwritten, no node takes the request for
\* approved, and the channel is not updated, unless more than half of the peers
\* the first node knew really approved; the first peer is the orderer's to admit.
ApprovedByMajority ==
    \A n \in Nodes : Resolved(n) \/ updates > 0 =>
        \/ file[n].total > 0 /\ 2 * Cardinality(Yes) > file[n].total
        \/ file[n].total = 0 /\ \E v \in Nodes : ballot[v] = "yes"
        \/ file[n] = NoFile

\* The channel is updated at most once, unless two handlers of the orderer's node
\* had the file at once: the second then has a copy that still says pending.  And
\* the file does not say that an update failed which was made, unless its answer was
\* lost.
UpdatedOnce ==
    Orderer \notin raced /\ updates > 0 =>
        /\ updates = 1
        /\ \/ file[Orderer].status \in {"approved", "torn"}
           \/ [kind |-> "unacked", node |-> Orderer] \in faults

\* A vote that a node has handled stays in its file to the end, whatever is
\* handled after it, unless handlers of that node overlapped or it stopped while it
\* wrote the file.
HandledVotesStay ==
    [][\A n \in Nodes : n \notin raced' /\ file'[n].status # "torn" =>
                          file[n].votes \subseteq file'[n].votes]_nodeVars

\* Nothing is on its way and no handler runs.  Every handler ends after a few
\* steps, so what holds whenever all is quiet is what must happen in the end.
Quiet ==
    /\ \A n \in Nodes : asked[n] # "sent" /\ joined[n] # "sent"
    /\ \A h \in Handlers : task[h].pc \in {"none", "done"}

\* When enough peers that can reach the orderer have approved, the orderer's node in
\* the end resolves a request it got, unless a message was lost, a vote came before
\* the request, its handlers overlapped or a node stopped.
MajorityIsNoticed ==
    Quiet /\ file[Orderer] # NoFile
          /\ 2 * Cardinality(Yes \cap routed) > file[Orderer].total =>
        \/ Resolved(Orderer)
        \/ Orderer \in raced
        \/ \E f \in faults : f.kind \notin {"joined", "unacked"}

\* Every peer in the end learns of the new one when the channel has it, unless the
\* message to it or the peer's list was lost, the orderer's node stopped after the
\* update and before the announcement, or the update was reported as failed.
NewPeerIsKnown ==
    Quiet /\ updates > 0 =>
        \A n \in known[Orderer] \cap Nodes :
            \/ Fresh \in known[n]
            \/ \E kind \in {"joined", "forgot"} : [kind |-> kind, node |-> n] \in faults
            \/ \E kind \in {"unannounced", "unacked"} :
                  [kind |-> kind, node |-> Orderer] \in faults

\* The channel is updated for the majority, and once: no loss or overlap admits
\* an organisation too few approved, only overlapping handlers of the orderer's
\* node update twice, and only a lost answer makes a made update a rejected one.
UpdateFollowsMajority == ApprovedByMajority /\ UpdatedOnce

\* Once all is quiet the news has arrived, but for the named faults: a majority
\* at the orderer's node, the new organisation at every peer.
NewsArrives == MajorityIsNoticed /\ NewPeerIsKnown

=============================================================================
