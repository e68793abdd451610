--------------------------------- MODULE Mme ---------------------------------
(***************************************************************************)
(* The MME: worker threads that each serve the messages of their own       *)
(* connections, one at a time, and block inside a handler while the HSS or *)
(* the SGW answers.  A handler is cut where it blocks and, for a detach,   *)
(* at each locked removal after the reply.  The other locked sections of a *)
(* handler touch only entries of the subscriber being served, which no     *)
(* other worker serves, so they are one step.                              *)
(***************************************************************************)
EXTENDS SctpServer, Hss, Udp

VARIABLES
    ue_count,    \* last mme_s1ap_ue_id handed out
    s1mme_id,    \* mme_s1ap_ue_id -> GUTI
    mme_ctx,     \* Mme::ue_ctx, GUTI -> UeContext
    mme_pc,      \* where each worker stands
    mme_job      \* the handler's locals: connection, id, GUTI

mmeVars == <<ue_count, s1mme_id, mme_ctx, mme_pc, mme_job>>

MmePc == {"idle", "autn_info", "create", "modify", "detach", "rem_itfid", "rem_uectx",
          "indirect_tunnel", "completion", "teardown"}

MmeContext == [mme_s1ap_ue_id : Nat, emm_state : {0, 1}, ecm_state : {0, 1},
               xres : Nat, k_asme : Nat, k_nas : Nat, s11_cteid_mme : Teid,
               s11_cteid_sgw : Teid, s1_uteid_ul : Teid, s1_uteid_dl : Teid, ip_addr : Ip]

ASSUME MmeNilAssumption == Nil \notin MmeContext

MmeJob == [conn : UE \cup {Nil}, id : Nat, guti : UE \cup {Nil}]

NoMmeJob == [conn |-> Nil, id |-> 0, guti |-> Nil]

MmeTypeOK ==
    /\ ue_count \in Nat
    /\ s1mme_id \in [1 .. ue_count -> UE \cup {Nil}]
    /\ mme_ctx \in [UE -> MmeContext \cup {Nil}]
    /\ mme_pc \in [Worker -> MmePc]
    /\ mme_job \in [Worker -> MmeJob]

MmeInit ==
    /\ ue_count = 0
    /\ s1mme_id = <<>>
    /\ mme_ctx = [u \in UE |-> Nil]
    /\ mme_pc = [w \in Worker |-> "idle"]
    /\ mme_job = [w \in Worker |-> NoMmeJob]

-----------------------------------------------------------------------------
\* UeContext::UeContext, what operator[] creates for a missing entry.
NewMmeContext == [mme_s1ap_ue_id |-> 0, emm_state |-> 0, ecm_state |-> 0, xres |-> 0,
                  k_asme |-> 0, k_nas |-> 0, s11_cteid_mme |-> 0, s11_cteid_sgw |-> 0,
                  s1_uteid_ul |-> 0, s1_uteid_dl |-> 0, ip_addr |-> NoIp]

MmeCtx(guti) == IF mme_ctx[guti] = Nil THEN NewMmeContext ELSE mme_ctx[guti]

\* Mme::get_guti: Nil when the id is unknown.
GetGuti(id) == IF id \in DOMAIN s1mme_id THEN s1mme_id[id] ELSE Nil

\* Deviation: the retry loop of SctpServer::snd sends what it already sent.
SendDn_Twice(u, m) == s1ap_dn' = [s1ap_dn EXCEPT ![u] = Append(Append(@, m), m)]

SendDn(u, m) == s1ap_dn' = [s1ap_dn EXCEPT ![u] = Append(@, m)]

Dn(type, id) == [type |-> type, id |-> id, autn |-> 0, rand |-> 0, mac |-> FALSE,
                 teid |-> 0, ip |-> NoIp]

\* A worker in select() takes the next message of a ready connection of its
\* own and dispatches on its type.
Receive(w, u, type) ==
    /\ Running("mme")
    /\ mme_pc[w] = "idle"
    /\ conn_worker[u] = w
    /\ s1ap_up[u] # <<>>
    /\ Head(s1ap_up[u]).type = type
    /\ s1ap_up' = [s1ap_up EXCEPT ![u] = Tail(@)]

\* Deviation: the worker does not wait for the answer to a modify bearer request.
Block_NoWait(w, pc, job) ==
    /\ mme_pc' = [mme_pc EXCEPT ![w] = IF pc = "modify" THEN "idle" ELSE pc]
    /\ mme_job' = [mme_job EXCEPT ![w] = IF pc = "modify" THEN NoMmeJob ELSE job]

Block(w, pc, job) ==
    /\ mme_pc' = [mme_pc EXCEPT ![w] = pc]
    /\ mme_job' = [mme_job EXCEPT ![w] = job]

Unblock(w) == Block(w, "idle", NoMmeJob)

MmeExit == Type1Error("mme") /\ UNCHANGED mmeVars

-----------------------------------------------------------------------------
\* handle_initial_attach up to hss_client.rcv.
HandleInitialAttach(w, u) ==
    /\ Receive(w, u, "initial_attach")
    /\ ue_count' = ue_count + 1
    /\ s1mme_id' = [i \in 1 .. ue_count + 1 |-> IF i = ue_count + 1 THEN u ELSE s1mme_id[i]]
    /\ mme_ctx' = [mme_ctx EXCEPT ![u] = [MmeCtx(u) EXCEPT !.mme_s1ap_ue_id = ue_count + 1]]
    /\ s6a_req' = s6a_req \cup {[w |-> w, imsi |-> u]}
    /\ Block(w, "autn_info", [conn |-> u, id |-> ue_count + 1, guti |-> u])
    /\ UNCHANGED <<s1ap_dn, connVars, s6a_rsp, s11Vars, exited>>

\* ... and from the answer of the HSS to the request for authentication.
AutnInfoAnswer(w) ==
    /\ Running("mme")
    /\ mme_pc[w] = "autn_info"
    /\ \E m \in s6a_rsp :
          /\ m.w = w
          /\ s6a_rsp' = s6a_rsp \ {m}
          /\ LET job == mme_job[w]
             IN  /\ mme_ctx' = [mme_ctx EXCEPT ![job.guti] =
                                   [MmeCtx(job.guti) EXCEPT !.xres = m.xres, !.k_asme = m.k_asme]]
                 /\ SendDn(job.conn, [Dn("autn_request", job.id) EXCEPT
                                         !.autn = m.autn, !.rand = m.rand])
    /\ Unblock(w)
    /\ UNCHANGED <<ue_count, s1mme_id, s1ap_up, connVars, s6a_req, s11Vars, exited>>

\* handle_autn and, on success, handle_security_mode_cmd.  On a mismatch the
\* subscriber is forgotten and nobody answers the terminal.
HandleAutn(w, u) ==
    /\ Receive(w, u, "auth_response")
    /\ LET m    == Head(s1ap_up[u])
           guti == GetGuti(m.id)
           ctx  == MmeCtx(guti)
           kNas == KNasMme(ctx.k_asme)
       IN  IF guti = Nil THEN MmeExit /\ UNCHANGED s1ap_dn
           ELSE /\ IF m.res = ctx.xres
                   THEN /\ mme_ctx' = [mme_ctx EXCEPT ![guti] = [ctx EXCEPT !.k_nas = kNas]]
                        /\ SendDn(u, [Dn("security_command", m.id) EXCEPT !.mac = TRUE])
                        /\ UNCHANGED s1mme_id
                   ELSE /\ s1mme_id' = [s1mme_id EXCEPT ![m.id] = Nil]
                        /\ mme_ctx' = [mme_ctx EXCEPT ![guti] = Nil]
                        /\ UNCHANGED s1ap_dn
                /\ UNCHANGED <<ue_count, mme_pc, mme_job, exited>>
    /\ UNCHANGED <<connVars, s6aVars, s11Vars>>

\* The checks every ciphered message passes first: a known id, then the HMAC.
Checked(m) == GetGuti(m.id) # Nil /\ m.mac

\* handle_security_mode_complete, then handle_create_session up to its
\* request to the SGW (header TEID 0).
HandleSecurityModeComplete(w, u) ==
    /\ Receive(w, u, "security_complete")
    /\ LET m    == Head(s1ap_up[u])
           guti == GetGuti(m.id)
           teid == S11CteidMme(guti)
       IN  IF ~Checked(m) THEN MmeExit /\ UNCHANGED s11_req
           ELSE /\ mme_ctx' = [mme_ctx EXCEPT ![guti] = [MmeCtx(guti) EXCEPT !.s11_cteid_mme = teid]]
                /\ s11_req' = s11_req \cup {[w |-> w, type |-> "create", teid |-> 0,
                                              mme |-> teid, imsi |-> guti, dl |-> 0]}
                /\ Block(w, "create", [conn |-> u, id |-> m.id, guti |-> guti])
                /\ UNCHANGED <<ue_count, s1mme_id, exited>>
    /\ UNCHANGED <<s1ap_dn, connVars, s6aVars, s11_rsp>>

\* UdpClient::rcv: the worker takes the next datagram on its S11 socket.
RcvS11(w, pc, m) ==
    /\ Running("mme")
    /\ mme_pc[w] = pc
    /\ m.w = w
    /\ s11_rsp' = s11_rsp \ {m}

\* handle_create_session from the answer on: store the bearer, accept.
CreateSessionAnswer(w) ==
    /\ \E m \in s11_rsp :
          /\ RcvS11(w, "create", m)
          /\ LET job == mme_job[w]
                 ctx == MmeCtx(job.guti)
             IN  /\ mme_ctx' = [mme_ctx EXCEPT ![job.guti] =
                                   [ctx EXCEPT !.s11_cteid_sgw = m.s11, !.s1_uteid_ul = m.ul,
                                               !.ip_addr = m.ip]]
                 /\ SendDn(job.conn, [Dn("attach_accept", job.id) EXCEPT
                                         !.mac = TRUE, !.teid = m.ul, !.ip = m.ip])
    /\ Unblock(w)
    /\ UNCHANGED <<ue_count, s1mme_id, s1ap_up, connVars, s6aVars, s11_req, exited>>

\* handle_attach_complete, then handle_modify_bearer up to its request.
HandleAttachComplete(w, u) ==
    /\ Receive(w, u, "attach_complete")
    /\ LET m    == Head(s1ap_up[u])
           guti == GetGuti(m.id)
           ctx  == [MmeCtx(guti) EXCEPT !.s1_uteid_dl = m.teid, !.emm_state = 1]
       IN  IF ~Checked(m) THEN MmeExit /\ UNCHANGED s11_req
           ELSE /\ mme_ctx' = [mme_ctx EXCEPT ![guti] = ctx]
                /\ s11_req' = s11_req \cup {[w |-> w, type |-> "modify", teid |-> ctx.s11_cteid_sgw,
                                              mme |-> 0, imsi |-> Nil, dl |-> ctx.s1_uteid_dl]}
                /\ Block(w, "modify", [conn |-> u, id |-> m.id, guti |-> guti])
                /\ UNCHANGED <<ue_count, s1mme_id, exited>>
    /\ UNCHANGED <<s1ap_dn, connVars, s6aVars, s11_rsp>>

ModifyBearerAnswer(w) ==
    /\ \E m \in s11_rsp : RcvS11(w, "modify", m)
    /\ LET guti == mme_job[w].guti
       IN  mme_ctx' = [mme_ctx EXCEPT ![guti] = [MmeCtx(guti) EXCEPT !.ecm_state = 1]]
    /\ Unblock(w)
    /\ UNCHANGED <<ue_count, s1mme_id, s1apVars, connVars, s6aVars, s11_req, exited>>

\* handle_detach up to its request.
HandleDetach(w, u) ==
    /\ Receive(w, u, "detach_request")
    /\ LET m    == Head(s1ap_up[u])
           guti == GetGuti(m.id)
           ctx  == MmeCtx(guti)
       IN  IF ~Checked(m) THEN MmeExit /\ UNCHANGED s11_req
           ELSE /\ mme_ctx' = [mme_ctx EXCEPT ![guti] = ctx]
                /\ s11_req' = s11_req \cup {[w |-> w, type |-> "detach", teid |-> ctx.s11_cteid_sgw,
                                              mme |-> 0, imsi |-> Nil, dl |-> 0]}
                /\ Block(w, "detach", [conn |-> u, id |-> m.id, guti |-> guti])
                /\ UNCHANGED <<ue_count, s1mme_id, exited>>
    /\ UNCHANGED <<s1ap_dn, connVars, s6aVars, s11_rsp>>

\* ... the terminal is answered before its entries are removed.
DetachAnswer(w) ==
    /\ \E m \in s11_rsp : RcvS11(w, "detach", m)
    /\ LET job == mme_job[w]
       IN  SendDn(job.conn, [Dn("detach_complete", job.id) EXCEPT !.mac = TRUE])
    /\ mme_pc' = [mme_pc EXCEPT ![w] = "rem_itfid"]
    /\ UNCHANGED <<ue_count, s1mme_id, mme_ctx, mme_job, s1ap_up, connVars, s6aVars,
                   s11_req, exited>>

RemItfid(w) ==
    /\ Running("mme")
    /\ mme_pc[w] = "rem_itfid"
    /\ s1mme_id' = [s1mme_id EXCEPT ![mme_job[w].id] = Nil]
    /\ mme_pc' = [mme_pc EXCEPT ![w] = "rem_uectx"]
    /\ UNCHANGED <<ue_count, mme_ctx, mme_job, s1apVars, connVars, s6aVars, s11Vars, exited>>

RemUectx(w) ==
    /\ Running("mme")
    /\ mme_pc[w] = "rem_uectx"
    /\ mme_ctx' = [mme_ctx EXCEPT ![mme_job[w].guti] = Nil]
    /\ Unblock(w)
    /\ UNCHANGED <<ue_count, s1mme_id, s1apVars, connVars, s6aVars, s11Vars, exited>>

-----------------------------------------------------------------------------
\* handle_ue returns 0: the terminal closed its connection.
ConnectionClosed(w, u) ==
    /\ Running("mme")
    /\ mme_pc[w] = "idle"
    /\ conn_worker[u] = w
    /\ DropConnection(u)
    /\ UNCHANGED <<mmeVars, s1apVars, s6aVars, s11Vars, exited>>

AcceptConnection ==
    /\ Running("mme")
    /\ AcceptClient
    /\ UNCHANGED <<mmeVars, s1apVars, s6aVars, s11Vars, exited>>

MmeStep(w) ==
    \/ \E u \in UE :
          \/ HandleInitialAttach(w, u)
          \/ HandleAutn(w, u)
          \/ HandleSecurityModeComplete(w, u)
          \/ HandleAttachComplete(w, u)
          \/ HandleDetach(w, u)
          \/ ConnectionClosed(w, u)
    \/ AutnInfoAnswer(w)
    \/ CreateSessionAnswer(w)
    \/ ModifyBearerAnswer(w)
    \/ DetachAnswer(w)
    \/ RemItfid(w)
    \/ RemUectx(w)
=============================================================================
