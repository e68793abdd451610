--------------------------------- MODULE Ran ---------------------------------
(***************************************************************************)
(* The RAN simulator: one thread per subscriber, each running simulate():  *)
(* connect to the MME, then attach, authenticate, set up security and the  *)
(* default bearer, transfer, detach, and start over until the requested    *)
(* run duration has passed.  A thread blocks in SctpClient::rcv and takes  *)
(* whatever message comes next: it never looks at the message type.        *)
(***************************************************************************)
EXTENDS SctpServer

VARIABLES
    ran_pc,      \* where the thread of each subscriber stands in simulate()
    ran_round,   \* completed attach/detach rounds
    ran_ctx      \* RanContext

ranVars == <<ran_pc, ran_round, ran_ctx>>

RanPc == {"connect", "loop", "authenticate", "set_security", "set_eps_session",
          "transfer", "detach", "done", "failed"}

RanContext == [mme_s1ap_ue_id : Nat, k_asme : Nat, k_nas : Nat,
               s1_uteid_ul : Teid, s1_uteid_dl : Teid, ip_addr : Ip]

RanTypeOK ==
    /\ ran_pc \in [UE -> RanPc]
    /\ ran_round \in [UE -> Nat]
    /\ ran_ctx \in [UE -> RanContext]

RanInit ==
    /\ ran_pc = [u \in UE |-> "connect"]
    /\ ran_round = [u \in UE |-> 0]
    /\ ran_ctx = [u \in UE |-> [mme_s1ap_ue_id |-> 0, k_asme |-> 0, k_nas |-> 0,
                                s1_uteid_ul |-> 0, s1_uteid_dl |-> 0, ip_addr |-> NoIp]]

-----------------------------------------------------------------------------
\* RanContext::init: the thread's key is its own number.
RanKey(u) == u

\* A ciphered message with its HMAC.
Secured(ctx, type, teid) ==
    [type |-> type, id |-> ctx.mme_s1ap_ue_id, res |-> 0, mac |-> TRUE, teid |-> teid]

SendUp(u, m) == s1ap_up' = [s1ap_up EXCEPT ![u] = Append(@, m)]

\* SctpClient::rcv of the next message, whatever it is.
RcvDn(u, pc) ==
    /\ Running("ran")
    /\ ran_pc[u] = pc
    /\ s1ap_dn[u] # <<>>
    /\ s1ap_dn' = [s1ap_dn EXCEPT ![u] = Tail(@)]

Goto(u, pc) == ran_pc' = [ran_pc EXCEPT ![u] = pc]

\* simulate() returns: the Ran object is destroyed and its socket closed.
Leave(u, pc) == Goto(u, pc) /\ CloseConnection(u)

-----------------------------------------------------------------------------
ConnMme(u) ==
    /\ Running("ran")
    /\ ran_pc[u] = "connect"
    /\ Goto(u, "loop")
    /\ Connect(u)
    /\ UNCHANGED <<ran_round, ran_ctx, s1ap_up, s1ap_dn, exited>>

\* The run duration has passed.
TimeExceeded(u) ==
    /\ Running("ran")
    /\ ran_pc[u] = "loop"
    /\ Leave(u, "done")
    /\ UNCHANGED <<ran_round, ran_ctx, s1ap_up, s1ap_dn, exited>>

InitialAttach(u) ==
    /\ Running("ran")
    /\ ran_pc[u] = "loop"
    /\ ran_round[u] < MaxRounds
    /\ Goto(u, "authenticate")
    /\ SendUp(u, [type |-> "initial_attach", id |-> 0, res |-> 0, mac |-> FALSE, teid |-> 0])
    /\ UNCHANGED <<ran_round, ran_ctx, s1ap_dn, connVars, exited>>

\* The terminal authenticates the network: autn must be its own res + 1.
Authenticate(u) ==
    /\ RcvDn(u, "authenticate")
    /\ LET m   == Head(s1ap_dn[u])
           res == Xres(RanKey(u), m.rand)
       IN  IF Autn(res) # m.autn
           THEN /\ Leave(u, "failed")
                /\ ran_ctx' = [ran_ctx EXCEPT ![u].mme_s1ap_ue_id = m.id]
                /\ UNCHANGED s1ap_up
           ELSE /\ Goto(u, "set_security")
                /\ ran_ctx' = [ran_ctx EXCEPT ![u].mme_s1ap_ue_id = m.id,
                                              ![u].k_asme = KAsme(res, m.rand)]
                /\ SendUp(u, [type |-> "auth_response", id |-> m.id, res |-> res,
                               mac |-> FALSE, teid |-> 0])
                /\ UNCHANGED connVars
    /\ UNCHANGED <<ran_round, exited>>

\* Derives both NAS keys, then checks the command's HMAC.
SetSecurity(u) ==
    /\ RcvDn(u, "set_security")
    /\ LET ctx == [ran_ctx[u] EXCEPT !.k_nas = KNasRan(ran_ctx[u].k_asme)]
       IN  /\ ran_ctx' = [ran_ctx EXCEPT ![u] = ctx]
           /\ IF ~ Head(s1ap_dn[u]).mac
              THEN Type1Error("ran") /\ UNCHANGED <<ran_pc, s1ap_up>>
              ELSE /\ Goto(u, "set_eps_session")
                   /\ SendUp(u, Secured(ctx, "security_complete", 0))
                   /\ UNCHANGED exited
    /\ UNCHANGED <<ran_round, connVars>>

\* The terminal answers with its own downlink TEID, equal to the uplink one.
SetEpsSession(u) ==
    /\ RcvDn(u, "set_eps_session")
    /\ LET m == Head(s1ap_dn[u])
       IN  IF ~ m.mac
           THEN Type1Error("ran") /\ UNCHANGED <<ran_pc, ran_ctx, s1ap_up>>
           ELSE /\ Goto(u, "transfer")
                /\ ran_ctx' = [ran_ctx EXCEPT ![u].s1_uteid_ul = m.teid,
                                              ![u].s1_uteid_dl = m.teid,
                                              ![u].ip_addr = m.ip]
                /\ SendUp(u, Secured(ran_ctx[u], "attach_complete", m.teid))
                /\ UNCHANGED exited
    /\ UNCHANGED <<ran_round, connVars>>

\* transfer_data returns and detach sends its request.
DetachRequest(u) ==
    /\ Running("ran")
    /\ ran_pc[u] = "transfer"
    /\ Goto(u, "detach")
    /\ UNCHANGED ran_ctx
    /\ SendUp(u, Secured(ran_ctx[u], "detach_request", 0))
    /\ UNCHANGED <<ran_round, s1ap_dn, connVars, exited>>

DetachComplete(u) ==
    /\ RcvDn(u, "detach")
    /\ IF ~ Head(s1ap_dn[u]).mac
       THEN Type1Error("ran") /\ UNCHANGED <<ran_pc, ran_round>>
       ELSE /\ Goto(u, "loop")
            /\ ran_round' = [ran_round EXCEPT ![u] = @ + 1]
            /\ UNCHANGED exited
    /\ UNCHANGED <<ran_ctx, s1ap_up, connVars>>

RanStep(u) ==
    \/ ConnMme(u)
    \/ TimeExceeded(u)
    \/ InitialAttach(u)
    \/ Authenticate(u)
    \/ SetSecurity(u)
    \/ SetEpsSession(u)
    \/ DetachRequest(u)
    \/ DetachComplete(u)
=============================================================================
