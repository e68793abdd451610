--------------------------------- MODULE Udp ---------------------------------
(***************************************************************************)
(* The UDP interfaces between MME and SGW (S11) and SGW and PGW (S5-C).    *)
(* A server has one socket that all its threads read; a client thread has  *)
(* a socket of its own, so an answer reaches the thread that asked.  Here  *)
(* no datagram is lost and every answer arrives within the five seconds a  *)
(* UdpClient waits.                                                        *)
(***************************************************************************)
EXTENDS EpcBase

VARIABLES
    s11_req, s11_rsp,    \* datagrams in flight between MME and SGW
    s5_req, s5_rsp       \* datagrams in flight between SGW and PGW

s11Vars == <<s11_req, s11_rsp>>
s5Vars  == <<s5_req, s5_rsp>>

S11TypeOK == s11_req \in SUBSET S11Req /\ s11_rsp \in SUBSET S11Rsp
S5TypeOK  == s5_req \in SUBSET S5Req /\ s5_rsp \in SUBSET S5Rsp

UdpInit == s11_req = {} /\ s11_rsp = {} /\ s5_req = {} /\ s5_rsp = {}
=============================================================================
