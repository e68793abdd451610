------------------------------- MODULE KbyBase -------------------------------
(***************************************************************************)
(* Vocabulary of the v3.0 control plane: MME, SGW and PGW are single       *)
(* threads, each a loop around epoll_wait.  What a call needs between two  *)
(* events is in fdmap under the descriptor the next event comes from, and  *)
(* a descriptor that is closed is given out again.  IMSI, GUTI and every   *)
(* TEID of a subscriber are functions of its number u, which stands for    *)
(* each of them; 0 is none of them.  Its address is the entry of ip_addrs. *)
(*                                                                         *)
(* A connection has one message under way in each direction at most.  Its  *)
(* name is the client's end: the terminal on S1, the client's descriptor   *)
(* on the others.  Connections do not break, and nobody gives up waiting.  *)
(***************************************************************************)
EXTENDS Integers, FiniteSets, Functions

CONSTANTS
    UE,           \* subscribers, positive numbers
    Rounds,       \* bound: attaches of each terminal
    DelUnarmed,   \* what EPOLL_CTL_DEL may return for a descriptor not in the epoll set
    None          \* model value: no message, no entry under a key

ASSUME KbyUEAssumption    == UE \subseteq Nat \ {0} /\ IsFiniteSet(UE)
\* gettid reads the last nine digits of a GUTI, but the last five of an IMSI.
ASSUME KbyDigitsAssumption == \A u \in UE : u < 100000
\* mTCP is external: it may take the call as done or refuse it.
ASSUME KbyDelAssumption   == DelUnarmed \subseteq {0, -1} /\ DelUnarmed # {}
ASSUME KbyRoundAssumption == Rounds \in [UE -> Nat]

Teid == {0} \cup UE

MAX_UE_COUNT == 2000

\* ip_addrs[imsi], as the subscriber whose address it is: beyond the table,
\* operator[] gives everyone the same empty string, 0.
IpAddr(imsi) == IF imsi < MAX_UE_COUNT THEN imsi ELSE 0

\* The rounds of all terminals.
Attaches == UNION {{u} \X (1 .. Rounds[u]) : u \in UE}

\* mme_s1ap_ue_id: each round takes the next one.
UeId == 1 .. Cardinality(Attaches)

\* Descriptors: two for each subscriber that a node serves, and one to spare.
Fd == 1 .. 2 * Cardinality(UE) + 1

\* type: msg_type; id: mme_s1ap_ue_id; teid: the TEID that the receiver reads, in
\* the GTP header or the first item; s5: s5_uteid_dl.
Message == [type : 1 .. 5, id : {0} \cup UeId, imsi : Teid, teid : Teid, s5 : Teid, ip : Teid]

ASSUME KbyNoMessageAssumption == None \notin Message

Msg(type) == [type |-> type, id |-> 0, imsi |-> 0, teid |-> 0, s5 |-> 0, ip |-> 0]

\* syn: the client has called connect; open: the server has accepted, on srv;
\* shut: the server has closed its end.
Link == [state : {"closed", "syn", "open", "shut"}, srv : {0} \cup Fd,
         up : Message \cup {None}, down : Message \cup {None}]

NoLink == [state |-> "closed", srv |-> 0, up |-> None, down |-> None]

VARIABLES
    s1,        \* terminal -> MME
    s6a,       \* MME -> HSS, by the MME's descriptor
    s11,       \* MME -> SGW, by the MME's descriptor
    s5,        \* SGW -> PGW, by the SGW's descriptor
    exited     \* nodes that called exit

linkVars == <<s1, s6a, s11, s5>>

KbyBaseTypeOK ==
    /\ s1 \in [UE -> Link]
    /\ {s6a, s11, s5} \subseteq [Fd -> Link]
    /\ exited \subseteq {"mme", "sgw", "pgw"}

KbyBaseInit ==
    /\ s1 = [u \in UE |-> NoLink]
    /\ s6a = [f \in Fd |-> NoLink]
    /\ s11 = [f \in Fd |-> NoLink]
    /\ s5 = [f \in Fd |-> NoLink]
    /\ exited = {}

-----------------------------------------------------------------------------
(* Connections, as functions from their names to links.                    *)

Connect(links, c) == [links EXCEPT ![c] = [NoLink EXCEPT !.state = "syn"]]

SendUp(links, c, m) == [links EXCEPT ![c].up = m]

Pending(links) == {c \in DOMAIN links : links[c].state = "syn"}

\* The connections whose server has descriptor f: one, while f is open.
At(links, f) == {c \in DOMAIN links : links[c].srv = f}

\* The server closes f; what it wrote is still delivered.
Shut(links, f) == [c \in DOMAIN links |->
                      IF c \in At(links, f) THEN [links[c] EXCEPT !.state = "shut", !.srv = 0]
                      ELSE links[c]]

\* read on the server's side and write of the answer.
Answer(links, c, m) == [links EXCEPT ![c].up = None, ![c].down = m]

Reply(links, f, m) == [c \in DOMAIN links |->
                          IF c \in At(links, f) THEN [links[c] EXCEPT !.down = m] ELSE links[c]]

Servers(links) == {links[c].srv : c \in DOMAIN links} \ {0}

Clients(links) == {c \in DOMAIN links : links[c].state # "closed"}

-----------------------------------------------------------------------------
(* fdmap and the epoll set of a node.                                      *)

\* map::insert leaves an entry that is there.
Insert(map, f, d) == IF map[f] = None THEN [map EXCEPT ![f] = d] ELSE map

Erase(map, f) == [map EXCEPT ![f] = None]

\* socket and accept: the lowest descriptor that is free.
FreeFd(used) == CHOOSE f \in Fd \ used : \A g \in Fd \ used : f <= g

\* The accept loop: all pending connections, in any order, get the lowest free
\* descriptors.
Accepts(links, used) ==
    {g \in Injection(Pending(links), Fd \ used) :
        \A f \in Range(g) : \A h \in (Fd \ used) \ Range(g) : f < h}

AcceptAll(links, g) ==
    [c \in DOMAIN links |->
        IF c \in Pending(links) THEN [links[c] EXCEPT !.state = "open", !.srv = g[c]]
        ELSE links[c]]

\* The result of EPOLL_CTL_DEL for f.
EpollDel(armed, f) == IF f \in armed THEN {0} ELSE DelUnarmed

InsertAll(map, fds, d) == [f \in Fd |-> IF f \in fds /\ map[f] = None THEN d ELSE map[f]]

Exit(node) == exited' = exited \cup {node}
=============================================================================
