------------------------------- MODULE Handover -------------------------------
(***************************************************************************)
(* The S1 handover of v1.0.1: ran_simulator_handover runs two eNodeBs,     *)
(* ranS (number 1) and ranT (number 2).  One thread attaches a terminal at *)
(* ranS, starts the handover, sleeps for half a second and completes it at *)
(* ranT; another one serves the messages the MME sends, each of them on a  *)
(* connection of its own.  Ordinary terminals of a ran_simulator share the *)
(* MME's workers and the gateways with it.                                 *)
(*                                                                         *)
(* The handover's S11 calls run over a UdpClient made for the call.  Their *)
(* handlers in the SGW touch entries of the terminal alone and are a step. *)
(***************************************************************************)
EXTENDS EpcProperties

RanS == 1
RanT == 2

ASSUME HandoverAssumption ==
    /\ {RanS, RanT} \subseteq UE
    /\ HssKey[RanS] = RanKey(RanS)

VARIABLES
    sim_pc,          \* simulateHandover: "attach", "sleep" or "end"
    handover_state,  \* Ran::handover_state of ranS and ranT, 0 to 4
    indirect_ul,     \* ranS.ran_ctx.indirect_s1_uteid_ul
    ran_in,          \* connections of the MME that bring the RAN a message
    ho_req, ho_rsp,  \* handover datagrams in flight between MME and SGW
    sgw_ho           \* Sgw::ho_ue_ctx: IMSI -> the target's downlink TEID

simVars   == <<sim_pc, handover_state, indirect_ul>>
hoS11Vars == <<ho_req, ho_rsp>>
hoVars    == <<simVars, ran_in, hoS11Vars, sgw_ho>>

HoType == {"indirect_tunnel", "completion", "teardown"}

HoInit ==
    /\ Init
    /\ sim_pc = "attach"
    /\ handover_state = [r \in {RanS, RanT} |-> 0]
    /\ indirect_ul = 0
    /\ ran_in = {}
    /\ ho_req = {} /\ ho_rsp = {}
    /\ sgw_ho = [u \in UE |-> Nil]

-----------------------------------------------------------------------------
(* ran_simulator_handover.                                                 *)

\* RanContext::init: enodeb_s1ap_ue_id is the RAN's number.
EnbId(r) == r

HoState(r, s) == handover_state' = [handover_state EXCEPT ![r] = s]

\* The handover messages are neither ciphered nor protected.
HoUp(type, id, teid) == [type |-> type, id |-> id, res |-> 0, mac |-> FALSE, teid |-> teid]

\* ranS connects, attaches and gets its bearer.
AttachSource ==
    /\ \/ ConnMme(RanS)
       \/ InitialAttach(RanS)
       \/ Authenticate(RanS)
       \/ SetSecurity(RanS)
       \/ SetEpsSession(RanS)
    /\ UNCHANGED hoVars

InitiateHandover ==
    /\ sim_pc = "attach"
    /\ ran_pc[RanS] = "transfer"
    /\ sim_pc' = "sleep"
    /\ HoState(RanS, 1)
    /\ SendUp(RanS, HoUp("handover", ran_ctx[RanS].mme_s1ap_ue_id, EnbId(RanS)))
    /\ UNCHANGED <<indirect_ul, ran_in, hoS11Vars, sgw_ho, ranVars, s1ap_dn, connVars, exited>>

\* Deviation: the thread does not sleep.
SleepOver_Short == TRUE

\* usleep(500000), which the program relies on to outlast the preparation: by
\* then ranS has been told the indirect tunnel.
SleepOver == handover_state[RanS] = 4

\* complete_handover on the connection handle_handover opened; without one
\* the write fails and the message is lost.
CompleteHandover ==
    /\ sim_pc = "sleep"
    /\ SleepOver
    /\ sim_pc' = "end"
    /\ IF handover_state[RanT] = 3
       THEN SendUp(RanT, HoUp("completion", ran_ctx[RanT].mme_s1ap_ue_id, 0))
       ELSE UNCHANGED s1ap_up
    /\ UNCHANGED <<handover_state, indirect_ul, ran_in, hoS11Vars, sgw_ho, ranVars, s1ap_dn,
                   connVars, exited>>

\* handle_mme_conn: the RAN's server thread takes a message of the MME.
RcvFromMme(m, type) == m.type = type /\ ran_in' = ran_in \ {m}

\* Ran::handle_handover of ranT: it takes the terminal over under the source's
\* ids, connects to the MME and offers its enodeb_s1ap_ue_id as downlink TEID.
TargetHandleHandover ==
    /\ \E m \in ran_in :
          /\ RcvFromMme(m, "handover")
          /\ ran_ctx' = [ran_ctx EXCEPT ![RanT].mme_s1ap_ue_id = m.id, ![RanT].s1_uteid_ul = m.teid]
          /\ SendUp(RanT, HoUp("indirect_tunnel", m.id, m.enb))
    /\ Connect(RanT)
    /\ HoState(RanT, 3)
    /\ UNCHANGED <<sim_pc, indirect_ul, hoS11Vars, sgw_ho, ran_pc, ran_round, s1ap_dn, exited>>

IndirectTunnelComplete ==
    /\ \E m \in ran_in : RcvFromMme(m, "indirect_tunnel") /\ indirect_ul' = m.teid
    /\ HoState(RanS, 4)
    /\ UNCHANGED <<sim_pc, hoS11Vars, sgw_ho, ranVars, s1apVars, connVars, exited>>

\* ranS lets go of its own uplink TEID and has the indirect one removed.
RequestTearDown ==
    /\ \E m \in ran_in : RcvFromMme(m, "completion")
    /\ ran_ctx' = [ran_ctx EXCEPT ![RanS].s1_uteid_ul = 0]
    /\ SendUp(RanS, HoUp("teardown", ran_ctx[RanS].mme_s1ap_ue_id, indirect_ul))
    /\ UNCHANGED <<simVars, hoS11Vars, sgw_ho, ran_pc, ran_round, s1ap_dn, connVars, exited>>

SimulateHandover == AttachSource \/ InitiateHandover \/ CompleteHandover
RanServer == TargetHandleHandover \/ IndirectTunnelComplete \/ RequestTearDown

-----------------------------------------------------------------------------
(* The MME.                                                                *)

SendToRan(type, id, enb, teid) ==
    ran_in' = ran_in \cup {[type |-> type, id |-> id, enb |-> enb, teid |-> teid]}

\* handle_handover and request_target_RAN: the target learns the uplink TEID.
MmeHandleHandover(w) ==
    /\ Receive(w, RanS, "handover")
    /\ LET m == Head(s1ap_up[RanS])
       IN  SendToRan("handover", m.id, m.teid, MmeCtx(GetGuti(m.id)).s1_uteid_ul)
    /\ UNCHANGED <<mmeVars, s1ap_dn, hoS11Vars, exited>>

\* setup_indirect_tunnel, handle_handover_completion and
\* teardown_indirect_tunnel up to their request to the SGW.
MmeHandoverCall(w) ==
    \E r \in {RanS, RanT}, type \in HoType :
        /\ Receive(w, r, type)
        /\ LET m    == Head(s1ap_up[r])
               guti == GetGuti(m.id)
           IN  /\ ho_req' = ho_req \cup {[w |-> w, type |-> type, tunnel |-> m.teid,
                                          teid |-> MmeCtx(guti).s11_cteid_sgw]}
               /\ Block(w, type, [conn |-> r, id |-> m.id, guti |-> guti])
        /\ UNCHANGED <<ue_count, s1mme_id, mme_ctx, s1ap_dn, ran_in, ho_rsp, exited>>

\* ... and from the answer on.  The first two tell the source, on a connection
\* opened for the message; the last one tells nobody.
MmeHandoverAnswer(w) ==
    /\ Running("mme")
    /\ \E m \in ho_rsp :
          /\ m.w = w /\ mme_pc[w] = m.type
          /\ ho_rsp' = ho_rsp \ {m}
          /\ IF m.type = "teardown" THEN UNCHANGED ran_in
             ELSE SendToRan(m.type, mme_job[w].id, 0, m.ul)
    /\ Unblock(w)
    /\ UNCHANGED <<ue_count, s1mme_id, mme_ctx, s1apVars, ho_req, exited>>

MmeHandoverStep(w) ==
    /\ MmeHandleHandover(w) \/ MmeHandoverCall(w) \/ MmeHandoverAnswer(w)
    /\ UNCHANGED <<simVars, sgw_ho, connVars, s6aVars, s11Vars>>

-----------------------------------------------------------------------------
(* The SGW.                                                                *)

SgwHandoverReceive(t, type, m) ==
    /\ SgwAt(t, "idle")
    /\ m.type = type
    /\ ho_req' = ho_req \ {m}

SgwHandoverReply(m, ul) == ho_rsp' = ho_rsp \cup {[w |-> m.w, type |-> m.type, ul |-> ul]}

\* handle_indirect_tunnel_setup: the tunnel's TEID is the session's plus one.
IndirectTunnelSetup(t) ==
    /\ \E m \in ho_req :
          /\ SgwHandoverReceive(t, "indirect_tunnel", m)
          /\ LET imsi == SgwImsi(11, m.teid)
                 ul   == SgwCtx(imsi).s11_cteid_mme + 1
             IN  /\ sgw_ho' = [sgw_ho EXCEPT ![imsi] = m.tunnel]
                 /\ sgw_id' = [sgw_id EXCEPT ![1][ul] = imsi]
                 /\ SgwHandoverReply(m, ul)
    /\ UNCHANGED sgw_ctx

\* Deviation: ho_ue_ctx is erased before it is read.
SwitchedDownlink_Erased(imsi) == 0

\* ho_ue_ctx[imsi].s1_uteid_dl; operator[] creates a missing entry.
SwitchedDownlink(imsi) == IF sgw_ho[imsi] = Nil THEN 0 ELSE sgw_ho[imsi]

\* handle_handover_completion: the address of the eNodeB stays what it was.
HandoverCompletion(t) ==
    /\ \E m \in ho_req :
          /\ SgwHandoverReceive(t, "completion", m)
          /\ LET imsi == SgwImsi(11, m.teid)
             IN  /\ sgw_ctx' = [sgw_ctx EXCEPT ![imsi] =
                                   [SgwCtx(imsi) EXCEPT !.s1_uteid_dl = SwitchedDownlink(imsi)]]
                 /\ sgw_ho' = [sgw_ho EXCEPT ![imsi] = Nil]
          /\ SgwHandoverReply(m, 0)
    /\ UNCHANGED sgw_id

IndirectTunnelTeardown(t) ==
    /\ \E m \in ho_req :
          /\ SgwHandoverReceive(t, "teardown", m)
          /\ sgw_id' = [sgw_id EXCEPT ![1][m.tunnel] = Nil]
          /\ SgwHandoverReply(m, 0)
    /\ UNCHANGED <<sgw_ctx, sgw_ho>>

SgwHandoverStep(t) ==
    /\ IndirectTunnelSetup(t) \/ HandoverCompletion(t) \/ IndirectTunnelTeardown(t)
    /\ UNCHANGED <<simVars, ran_in, sgw_pc, sgw_itf, sgw_job, s11Vars, s5Vars, exited>>

-----------------------------------------------------------------------------
(* Forwarding of user packets, as the SGW's tables stand.                  *)

\* handle_uplink_udata: the subscriber whose tunnel to the PGW takes a packet
\* that came with this TEID, or Nil when it is dropped.
SgwUplink(teid) ==
    LET imsi == SgwImsi(1, teid) IN IF imsi = Nil \/ sgw_ctx[imsi] = Nil THEN Nil ELSE imsi

\* handle_downlink_udata: the TEID under which a packet for the subscriber goes
\* out to its eNodeB, or Nil when it is dropped.
SgwDownlink(imsi) ==
    IF sgw_ctx[imsi] = Nil \/ ~ SgwCtx(imsi).enodeb THEN Nil ELSE sgw_ctx[imsi].s1_uteid_dl

-----------------------------------------------------------------------------
hoAllVars == <<vars, hoVars>>

Ordinary == UE \ {RanS, RanT}

OrdinaryNext(u) == RanNext(u) /\ UNCHANGED hoVars
SourceNext      == SimulateHandover /\ UNCHANGED <<mmeVars, s6aVars, s11Vars, s5Vars, sgwVars, pgwVars>>
ServerNext      == RanServer /\ UNCHANGED <<mmeVars, s6aVars, s11Vars, s5Vars, sgwVars, pgwVars>>
HoAcceptNext    == AcceptNext /\ UNCHANGED hoVars
HoMmeNext(w)    == \/ MmeNext(w) /\ UNCHANGED hoVars
                   \/ MmeHandoverStep(w) /\ UNCHANGED <<ranVars, s5Vars, sgwVars, pgwVars>>
HoHssNext(w)    == HssNext(w) /\ UNCHANGED hoVars
HoSgwNext(t)    == \/ SgwNext(t) /\ UNCHANGED hoVars
                   \/ SgwHandoverStep(t) /\ UNCHANGED <<s1apVars, connVars, ranVars, mmeVars,
                                                        s6aVars, pgwVars>>
HoPgwNext(p)    == PgwNext(p) /\ UNCHANGED hoVars

\* The handover is over, the ordinary terminals have left, nobody works.
HoFinished ==
    /\ sim_pc = "end" /\ ran_in = {} /\ ho_req = {} /\ ho_rsp = {} /\ backlog = <<>>
    /\ \A u \in Ordinary : ran_pc[u] \in {"done", "failed"} /\ conn_worker[u] = Nil
    /\ \A u \in UE : s1ap_up[u] = <<>>
    /\ \A w \in Worker : mme_pc[w] = "idle"
    /\ \A t \in S11Threads : sgw_pc[t] = "idle"
    /\ \A p \in PgwThreads : pgw_pc[p] = "idle"

HoTerminating == (HoFinished \/ exited # {}) /\ UNCHANGED hoAllVars

HoNext ==
    \/ \E u \in Ordinary : OrdinaryNext(u)
    \/ SourceNext
    \/ ServerNext
    \/ HoAcceptNext
    \/ \E w \in Worker : HoMmeNext(w) \/ HoHssNext(w)
    \/ \E t \in S11Threads : HoSgwNext(t)
    \/ \E p \in PgwThreads : HoPgwNext(p)
    \/ HoTerminating

\* Every thread of every process is scheduled, and a worker's select() loop serves
\* each ready connection in turn; the thread that sleeps wakes up.
HoFairness ==
    /\ \A u \in Ordinary : WF_hoAllVars(OrdinaryNext(u))
    /\ WF_hoAllVars(SourceNext)
    /\ WF_hoAllVars(ServerNext)
    /\ WF_hoAllVars(HoAcceptNext)
    /\ \A w \in Worker : WF_hoAllVars(HoMmeNext(w)) /\ WF_hoAllVars(HoHssNext(w))
    /\ \A t \in S11Threads : WF_hoAllVars(HoSgwNext(t))
    /\ \A p \in PgwThreads : WF_hoAllVars(HoPgwNext(p))

HoSpec == HoInit /\ [][HoNext]_hoAllVars /\ HoFairness
-----------------------------------------------------------------------------
(* Properties.                                                             *)

\* Through every step of the handover each uplink TEID that an eNodeB may send
\* with leads to the terminal's own bearer: the source's until it lets go of it,
\* the indirect one until then, and the target's from the moment it knows it; the
\* source lets go only after the target has taken over.  The downlink never goes
\* to a TEID no eNodeB has, and no ordinary terminal's bearer is touched.
PathKept ==
    /\ sim_pc # "attach" /\ ran_ctx[RanS].s1_uteid_ul # 0 =>
          /\ SgwUplink(ran_ctx[RanS].s1_uteid_ul) = RanS
          /\ indirect_ul # 0 => SgwUplink(indirect_ul) = RanS
    /\ handover_state[RanT] = 3 => SgwUplink(ran_ctx[RanT].s1_uteid_ul) = RanS
    /\ sim_pc # "attach" /\ ran_ctx[RanS].s1_uteid_ul = 0 => handover_state[RanT] = 3
    /\ SgwDownlink(RanS) \in {Nil, ran_ctx[RanS].s1_uteid_dl, EnbId(RanS)}
    /\ \A u \in Ordinary : Attached(u) => UplinkConnected(u) /\ DownlinkConnected(u)

\* The terminal is the target's: downlink switched, the one uplink TEID left is
\* the target's, nothing of the indirect tunnel remains.
HandedOver ==
    /\ ran_ctx[RanS].s1_uteid_ul = 0
    /\ SgwDownlink(RanS) = EnbId(RanS)
    /\ Entries(sgw_id[1], RanS) = {ran_ctx[RanT].s1_uteid_ul}
    /\ sgw_ho[RanS] = Nil

\* A handover that was started is completed, and stays so, although no message
\* of it is acknowledged: the source's eNodeB only sends its request.
HandoverCompletes == sim_pc = "sleep" ~> []HandedOver

Forgotten(u) == mme_ctx[u] = Nil /\ sgw_ctx[u] = Nil /\ pgw_ctx[u] = Nil

\* Nobody waits for ever behind the blocking worker that all connections share:
\* every attach and detach of an ordinary terminal is answered, and the nodes
\* forget those that have left.
EveryoneServed ==
    <>[](\A u \in Ordinary : /\ ran_pc[u] \in {"done", "failed"}
                             /\ HssKey[u] = RanKey(u) => Forgotten(u))
=============================================================================
