------------------------------ MODULE EpsBearer ------------------------------
(***************************************************************************)
(* What the packet core promises each subscriber, whatever the messages    *)
(* and threads behind it: a subscriber is attached only once every node of *)
(* its data path serves it, the nodes are set up from the MME towards the  *)
(* PGW, and no node stops serving a subscriber while it is attached.  The  *)
(* nodes may forget a subscriber that left at any time, in any order, even *)
(* after it has asked to come back.                                        *)
(***************************************************************************)
CONSTANT UE

VARIABLES
    phase,    \* how far each subscriber is
    nodes     \* the nodes that serve it

bearerVars == <<phase, nodes>>

Node == {"mme", "sgw", "pgw"}

\* The nodes that must already serve a subscriber before n does.
Before == [mme |-> {}, sgw |-> {"mme"}, pgw |-> {"mme", "sgw"}]

BearerInit ==
    /\ phase = [u \in UE |-> "idle"]
    /\ nodes = [u \in UE |-> {}]

Step(u, from, to) ==
    /\ phase[u] = from
    /\ phase' = [phase EXCEPT ![u] = to]
    /\ UNCHANGED nodes

Request(u)  == Step(u, "idle", "attaching")
Accept(u)   == nodes[u] = Node /\ Step(u, "attaching", "attached")
Reject(u)   == nodes[u] = {"mme"} /\ Step(u, "attaching", "rejected")
Release(u)  == Step(u, "attached", "releasing")
Released(u) == Step(u, "releasing", "idle")

Serve(u, n) ==
    /\ phase[u] = "attaching"
    /\ n \notin nodes[u]
    /\ Before[n] \subseteq nodes[u]
    /\ nodes' = [nodes EXCEPT ![u] = @ \cup {n}]
    /\ UNCHANGED phase

Forget(u, n) ==
    /\ phase[u] # "attached"
    /\ n \in nodes[u]
    /\ nodes' = [nodes EXCEPT ![u] = @ \ {n}]
    /\ UNCHANGED phase

BearerNext ==
    \E u \in UE :
        \/ Request(u) \/ Accept(u) \/ Reject(u) \/ Release(u) \/ Released(u)
        \/ \E n \in Node : Serve(u, n) \/ Forget(u, n)

BearerSpec == BearerInit /\ [][BearerNext]_bearerVars
=============================================================================
