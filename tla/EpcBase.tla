------------------------------- MODULE EpcBase -------------------------------
(***************************************************************************)
(* Vocabulary shared by the modules of the v1.0 control plane: subscriber  *)
(* numbers, tunnel identifiers, key derivation, the messages of S1AP, S6a, *)
(* S11 and S5, and the processes that have exited.                         *)
(*                                                                         *)
(* A subscriber is its RAN thread number u.  The code derives everything   *)
(* from it: MSISDN 9000000000+u, IMSI 119000000000+u, GUTI "1111" \o IMSI. *)
(* Those prefixes are the same for every subscriber, so u stands for the   *)
(* IMSI and for the GUTI; Nil is the value 0 that get_guti and get_imsi    *)
(* return when a table has no entry.                                       *)
(***************************************************************************)
EXTENDS Integers, Sequences, FiniteSets

CONSTANTS
    UE,            \* subscribers, the thread numbers of the RAN simulator
    WorkersCount,  \* <#S1-MME threads> of the MME
    S11Threads,    \* the SGW's S11 server threads
    PgwThreads,    \* the PGW's S5 server threads
    HssKey,        \* key_id of each subscriber's row in autn_info
    HssRand,       \* rand_num of each subscriber's row in autn_info
    MaxRounds,     \* bound: attach/detach rounds of one RAN thread
    Nil            \* "no entry", the code's 0

ASSUME NilAssumption     == Nil \notin Nat
ASSUME UEAssumption      == UE \subseteq {u \in Nat : u < 1000000000}
ASSUME WorkersAssumption == WorkersCount \in Nat \ {0}
ASSUME HssAssumption     == HssKey \in [UE -> Nat] /\ HssRand \in [UE -> Nat]
ASSUME RoundsAssumption  == MaxRounds \in Nat
ASSUME ThreadsAssumption == Nil \notin S11Threads

Worker == 0 .. WorkersCount - 1

-----------------------------------------------------------------------------
(* Numbering.                                                              *)

\* Deviation: the leading digits of the GUTI's suffix instead of the last nine.
S11CteidMme_Leading(guti) == guti \div 1000000000

\* Mme::get_s11cteidmme: the last nine digits of the GUTI.
S11CteidMme(guti) == guti % 1000000000

\* Every tunnel identifier in the system is one of these; 0 is the value of
\* a TEID field that was never assigned.
Teid == {0} \cup {S11CteidMme(u) : u \in UE}

MAX_UE_COUNT == 10000
NoIp == <<>>

\* Deviation: the subnet is not advanced when the hosts are used up.
IpAddr_OneSubnet(u) == IF u < MAX_UE_COUNT THEN <<1, 3 + (u % 252)>> ELSE NoIp

\* The address table built by Pgw::set_ip_addrs: hosts 3..254 of the subnets
\* 172.16.1, 172.16.2, ...; operator[] yields "" beyond the table.
IpAddr(u) == IF u < MAX_UE_COUNT THEN <<1 + (u \div 252), 3 + (u % 252)>> ELSE NoIp

Ip == {IpAddr(u) : u \in UE} \cup {NoIp}

-----------------------------------------------------------------------------
(* Authentication vectors and NAS keys.                                    *)

PlmnId == 11

Sqn(rand)         == rand + 1

\* Deviation: the key is left out of the expected result.
Xres_NoKey(key, rand) == Sqn(rand) + rand

Xres(key, rand)   == key + Sqn(rand) + rand
Autn(xres)        == xres + 1
KAsme(xres, rand) == (xres + 2) + (xres + 3) + Sqn(rand) + PlmnId

\* Deviation: the direction is left out on the network side.
KNasMme_NoDir(k_asme) == k_asme + 1 + 1 + 0

\* algorithm 1, count 1, bearer 0; the network side uses direction 1, the
\* terminal direction 0 and adds 1.  Both NAS keys have the same value.
KNasMme(k_asme) == k_asme + 1 + 1 + 0 + 1
KNasRan(k_asme) == k_asme + 1 + 1 + 0 + 0 + 1

-----------------------------------------------------------------------------
(* Messages.  A field a message of some type does not carry is 0 or Nil.   *)
(* mac says whether the message carries an HMAC.  Crypt and Integrity work *)
(* with constant keys and ignore the NAS key they are given, so an HMAC is *)
(* right whichever NAS keys the two sides have derived.                    *)

\* The last four belong to the handover; their teid is an eNodeB's UE id or the
\* TEID of the indirect tunnel.
UpType == {"initial_attach", "auth_response", "security_complete",
           "attach_complete", "detach_request",
           "handover", "indirect_tunnel", "completion", "teardown"}
UpMsg  == [type : UpType, id : Nat, res : Nat, mac : BOOLEAN, teid : Teid]

DnType == {"autn_request", "security_command", "attach_accept", "detach_complete"}
DnMsg  == [type : DnType, id : Nat, autn : Nat, rand : Nat, mac : BOOLEAN, teid : Teid, ip : Ip]

S6aReq == [w : Worker, imsi : UE]
S6aRsp == [w : Worker, imsi : UE, autn : Nat, rand : Nat, xres : Nat, k_asme : Nat]

SessionType == {"create", "modify", "detach"}
S11Req == [w : Worker, type : SessionType, teid : Teid, mme : Teid,
           imsi : UE \cup {Nil}, dl : Teid]
S11Rsp == [w : Worker, type : SessionType, teid : Teid, s11 : Teid, ul : Teid, ip : Ip]

S5Req == [t : S11Threads, type : {"create", "detach"}, teid : Teid, imsi : UE \cup {Nil}]
S5Rsp == [t : S11Threads, type : {"create", "detach"}, teid : Teid, ul : Teid, ip : Ip]

-----------------------------------------------------------------------------
VARIABLE
    exited         \* processes that called handle_type1_error and are gone

Process == {"ran", "mme", "hss", "sgw", "pgw"}

Running(p) == p \notin exited

\* Utils::handle_type1_error(-1, ...): the whole process exits.
Type1Error(p) == exited' = exited \cup {p}
=============================================================================
