------------------------------- MODULE MkbBase -------------------------------
(***************************************************************************)
(* Vocabulary of the multicore nodes over kernel bypass.  MME, SGW and PGW *)
(* run one event loop per core.  A core has its own stack, descriptors and *)
(* fdmap, and the network card decides which core gets a connection; the   *)
(* tables of subscribers are shared by the cores, each under its mutex.    *)
(*                                                                         *)
(* A round of a terminal is a call.  Each of its connections is named by   *)
(* the call: descriptors and their reuse are the subject of the Kby        *)
(* modules, whose bookkeeping these nodes repeat.  u stands for IMSI, GUTI *)
(* and every TEID of subscriber u, 0 for none of them; its address is the  *)
(* entry of ip_addrs.                                                      *)
(***************************************************************************)
EXTENDS Integers, FiniteSets, Functions

CONSTANTS
    UE,                           \* subscribers, positive numbers
    Rounds,                       \* bound: rounds of each terminal
    MmeCore, SgwCore, PgwCore,    \* the cores of each node
    MaxHangups,                   \* bound: rounds that a terminal cuts off
    None                          \* model value

ASSUME MkbUEAssumption    == UE \subseteq Nat \ {0} /\ IsFiniteSet(UE)
\* gettid: a TEID is its GUTI % 100000.
ASSUME MkbDigitsAssumption == \A u \in UE : u < 100000
ASSUME MkbRoundAssumption == Rounds \in [UE -> Nat] /\ MaxHangups \in Nat
ASSUME MkbCoreAssumption  == None \notin MmeCore \cup SgwCore \cup PgwCore

Call == UNION {{u} \X (1 .. Rounds[u]) : u \in UE}

Teid == {0} \cup UE

MAX_UE_COUNT == 10000

\* ip_addrs[imsi], as the subscriber whose address it is: beyond the table,
\* operator[] gives everyone the same empty string, 0.
IpAddr(imsi) == IF imsi < MAX_UE_COUNT THEN imsi ELSE 0

\* mme_s1ap_ue_id: each call takes the next one.
UeId == 1 .. Cardinality(Call)

Interface == {"s1", "s6a", "s11", "s5"}

Message == [type : 1 .. 5, id : {0} \cup UeId, imsi : Teid, teid : Teid, ip : Teid]

ASSUME MkbNoMessageAssumption == None \notin Message

Msg(type) == [type |-> type, id |-> 0, imsi |-> 0, teid |-> 0, ip |-> 0]

\* syn: the client has called connect; open: core of the server has accepted;
\* shut: the server has closed, and the client still reads what was sent; gone:
\* the client has closed, and the server reads the end of the stream.
Link == [state : {"none", "syn", "open", "shut"}, gone : BOOLEAN,
         core : MmeCore \cup SgwCore \cup PgwCore \cup {None},
         up : Message \cup {None}, down : Message \cup {None}]

NoLink == [state |-> "none", gone |-> FALSE, core |-> None, up |-> None, down |-> None]

VARIABLES
    link,      \* the connection of each call on each interface
    exited     \* nodes that called exit

linkVars == <<link, exited>>

MkbBaseTypeOK ==
    /\ link \in [Interface -> [Call -> Link]]
    /\ exited \subseteq {"mme", "sgw", "pgw"}

MkbBaseInit ==
    /\ link = [i \in Interface |-> [c \in Call |-> NoLink]]
    /\ exited = {}

-----------------------------------------------------------------------------
(* What an event does to the connections l.                                *)

Connect(l, i, c) == [l EXCEPT ![i][c] = [NoLink EXCEPT !.state = "syn"]]

Accept(l, i, c, k) == [l EXCEPT ![i][c].state = "open", ![i][c].core = k]

SendUp(l, i, c, m) == [l EXCEPT ![i][c].up = m]

ReadUp(l, i, c) == [l EXCEPT ![i][c].up = None]

SendDown(l, i, c, m) == [l EXCEPT ![i][c].down = m]

ReadDown(l, i, c) == [l EXCEPT ![i][c].down = None]

\* The client closes its end, the server its own.
ClientClose(l, i, c) ==
    [l EXCEPT ![i][c] = IF @.state \in {"none", "shut"} THEN NoLink ELSE [@ EXCEPT !.gone = TRUE]]

ServerClose(l, i, c) ==
    [l EXCEPT ![i][c] = IF @.gone THEN NoLink ELSE [@ EXCEPT !.state = "shut", !.core = None]]

\* A message has arrived at core k, or the end of the stream.
Arrived(i, c, k) == link[i][c].core = k /\ link[i][c].up # None

Ended(i, c, k) == link[i][c].core = k /\ link[i][c].up = None /\ link[i][c].gone

Exit(node) == exited' = exited \cup {node} /\ UNCHANGED link
=============================================================================
