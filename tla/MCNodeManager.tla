---------------------------- MODULE MCNodeManager ----------------------------
(* An orderer and two peers who know each other, or of whom the first never   *)
(* received the list of the others: a request to it counts nobody, and any    *)
(* one vote is then a majority.  The second peer may not have the orderer's   *)
(* address.                                                                   *)
EXTENDS NodeManager

CONSTANTS o, p1, p2, fresh
MCNodes == {o, p1, p2}
All == [n \in MCNodes |-> {p1, p2}]
MCNetworks == { [known |-> All, routed |-> {p1, p2}],
                [known |-> All, routed |-> {p1}],
                [known |-> [All EXCEPT ![p1] = {}], routed |-> {p1, p2}] }

=============================================================================
