--------------------------------- MODULE Hss ---------------------------------
(***************************************************************************)
(* The HSS answers the authentication requests of the MME workers, each    *)
(* worker over its own connection, from the rows of autn_info.  The rows   *)
(* are constants: nothing in the program writes them.  Every subscriber    *)
(* has a row, possibly with a key other than the terminal's.               *)
(***************************************************************************)
EXTENDS EpcBase

VARIABLES s6a_req, s6a_rsp    \* diameter messages in flight

s6aVars == <<s6a_req, s6a_rsp>>

S6aTypeOK == s6a_req \in SUBSET S6aReq /\ s6a_rsp \in SUBSET S6aRsp

S6aInit == s6a_req = {} /\ s6a_rsp = {}

\* The authentication vector of a subscriber.
AutnInfo(w, u) ==
    LET xres == Xres(HssKey[u], HssRand[u])
    IN  [w |-> w, imsi |-> u, autn |-> Autn(xres), rand |-> HssRand[u],
         xres |-> xres, k_asme |-> KAsme(xres, HssRand[u])]

HandleAutninfoReq(w) ==
    /\ Running("hss")
    /\ \E m \in s6a_req :
          /\ m.w = w
          /\ s6a_req' = s6a_req \ {m}
          /\ s6a_rsp' = s6a_rsp \cup {AutnInfo(w, m.imsi)}
    /\ UNCHANGED exited
=============================================================================
