--------------------------------- MODULE Sgw ---------------------------------
(***************************************************************************)
(* The SGW's control plane: S11 server threads that share one socket and   *)
(* the tables s11_id, s1_id, s5_id and ue_ctx.  Every table has its own    *)
(* lock, taken for one access: a handler is a sequence of such accesses,   *)
(* and another thread may run between any two of them.  A thread blocks    *)
(* while the PGW answers.                                                  *)
(***************************************************************************)
EXTENDS Udp

VARIABLES
    sgw_id,     \* s11_id, s1_id, s5_id: per interface number, TEID -> IMSI
    sgw_ctx,    \* Sgw::ue_ctx, IMSI -> UeContext
    sgw_pc,     \* where each S11 thread stands
    sgw_itf,    \* interface numbers still to be entered or removed
    sgw_job     \* the handler's locals

sgwVars == <<sgw_id, sgw_ctx, sgw_pc, sgw_itf, sgw_job>>

Itf == {11, 1, 5}

\* Deviation: the S5 identifier is never entered.
ItfUpdates_NoS5 == <<11, 1>>

\* update_itfid(11, ..), (1, ..), (5, ..) in handle_create_session.
ItfUpdates == <<11, 1, 5>>

\* Deviation: the S1 identifier is left behind.
ItfRemovals_NoS1 == <<11, 5>>

\* rem_itfid(11, ..), (1, ..), (5, ..) in handle_detach.
ItfRemovals == <<11, 1, 5>>

SgwPc == {"idle", "update_itfid", "init_ctx", "create", "modify_ctx", "detach_ctx",
          "detach", "rem_itfid", "rem_uectx"}

\* enodeb and pgw: whether the address of that peer is known.
SgwContext == [s11_cteid_mme : Teid, s11_cteid_sgw : Teid, s1_uteid_ul : Teid,
               s1_uteid_dl : Teid, s5_uteid_ul : Teid, s5_uteid_dl : Teid,
               s5_cteid_ul : Teid, enodeb : BOOLEAN, pgw : BOOLEAN]

ASSUME SgwNilAssumption == Nil \notin SgwContext

\* src is the worker that asked, cteid the s11_cteid_mme of a create, teid
\* the identifier each table entry is stored under.
SgwJob == [src : Worker \cup {Nil}, imsi : UE \cup {Nil}, cteid : Teid, dl : Teid,
           teid : [Itf -> Teid]]

NoSgwJob == [src |-> Nil, imsi |-> Nil, cteid |-> 0, dl |-> 0, teid |-> [i \in Itf |-> 0]]

SgwTypeOK ==
    /\ sgw_id \in [Itf -> [Teid -> UE \cup {Nil}]]
    /\ sgw_ctx \in [UE -> SgwContext \cup {Nil}]
    /\ sgw_pc \in [S11Threads -> SgwPc]
    /\ sgw_itf \in [S11Threads -> Seq(Itf)]
    /\ sgw_job \in [S11Threads -> SgwJob]

SgwInit ==
    /\ sgw_id = [i \in Itf |-> [x \in Teid |-> Nil]]
    /\ sgw_ctx = [u \in UE |-> Nil]
    /\ sgw_pc = [t \in S11Threads |-> "idle"]
    /\ sgw_itf = [t \in S11Threads |-> <<>>]
    /\ sgw_job = [t \in S11Threads |-> NoSgwJob]

-----------------------------------------------------------------------------
\* Deviation: the constructor leaves s1_uteid_dl unset.
NewSgwContext_Unset == [s11_cteid_mme |-> 0, s11_cteid_sgw |-> 0, s1_uteid_ul |-> 0,
                        s1_uteid_dl |-> Nil, s5_uteid_ul |-> 0, s5_uteid_dl |-> 0,
                        s5_cteid_ul |-> 0, enodeb |-> FALSE, pgw |-> FALSE]

NewSgwContext == [s11_cteid_mme |-> 0, s11_cteid_sgw |-> 0, s1_uteid_ul |-> 0,
                  s1_uteid_dl |-> 0, s5_uteid_ul |-> 0, s5_uteid_dl |-> 0,
                  s5_cteid_ul |-> 0, enodeb |-> FALSE, pgw |-> FALSE]

SgwCtx(imsi) == IF sgw_ctx[imsi] = Nil THEN NewSgwContext ELSE sgw_ctx[imsi]

\* Sgw::get_imsi: Nil when the TEID is unknown.
SgwImsi(itf, teid) == sgw_id[itf][teid]

SgwGoto(t, pc) == sgw_pc' = [sgw_pc EXCEPT ![t] = pc]

SgwAt(t, pc) == Running("sgw") /\ sgw_pc[t] = pc

\* An idle thread wins the next datagram of the S11 socket.
SgwReceive(t, type, m) ==
    /\ SgwAt(t, "idle")
    /\ m.type = type
    /\ s11_req' = s11_req \ {m}

Reply(w, type, teid, s11, ul, ip) ==
    s11_rsp' = s11_rsp \cup {[w |-> w, type |-> type, teid |-> teid, s11 |-> s11,
                              ul |-> ul, ip |-> ip]}

SgwExit == Type1Error("sgw") /\ UNCHANGED sgwVars

\* Both loops over the interfaces: act on the head, go on at next after the last.
NextItf(t, next) ==
    /\ sgw_itf' = [sgw_itf EXCEPT ![t] = Tail(@)]
    /\ sgw_pc' = IF Len(sgw_itf[t]) = 1 THEN [sgw_pc EXCEPT ![t] = next] ELSE sgw_pc

-----------------------------------------------------------------------------
\* handle_create_session: all identifiers of the session are the MME's.
SgwCreateSession(t) ==
    /\ \E m \in s11_req :
          /\ SgwReceive(t, "create", m)
          /\ sgw_job' = [sgw_job EXCEPT ![t] =
                [src |-> m.w, imsi |-> m.imsi, cteid |-> m.mme, dl |-> 0,
                 teid |-> [i \in Itf |-> m.mme]]]
    /\ SgwGoto(t, "update_itfid")
    /\ sgw_itf' = [sgw_itf EXCEPT ![t] = ItfUpdates]
    /\ UNCHANGED <<sgw_id, sgw_ctx, s11_rsp, s5Vars, exited>>

SgwUpdateItfid(t) ==
    /\ SgwAt(t, "update_itfid")
    /\ LET itf == Head(sgw_itf[t])
           job == sgw_job[t]
       IN  sgw_id' = [sgw_id EXCEPT ![itf][job.teid[itf]] = job.imsi]
    /\ NextItf(t, "init_ctx")
    /\ UNCHANGED <<sgw_ctx, sgw_job, s11Vars, s5Vars, exited>>

\* UeContext::init leaves the downlink and the PGW's identifiers alone.
SgwInitCtx(t) ==
    /\ SgwAt(t, "init_ctx")
    /\ LET job == sgw_job[t]
       IN  /\ sgw_ctx' = [sgw_ctx EXCEPT ![job.imsi] =
                 [SgwCtx(job.imsi) EXCEPT !.s11_cteid_mme = job.cteid,
                                          !.s11_cteid_sgw = job.teid[11],
                                          !.s1_uteid_ul = job.teid[1],
                                          !.s5_uteid_dl = job.teid[5],
                                          !.pgw = TRUE]]
           /\ s5_req' = s5_req \cup {[t |-> t, type |-> "create", teid |-> job.teid[5],
                                      imsi |-> job.imsi]}
    /\ SgwGoto(t, "create")
    /\ UNCHANGED <<sgw_id, sgw_itf, sgw_job, s11Vars, s5_rsp, exited>>

RcvS5(t, pc, m) ==
    /\ SgwAt(t, pc)
    /\ m.t = t
    /\ s5_rsp' = s5_rsp \ {m}

SgwCreateSessionAnswer(t) ==
    /\ \E m \in s5_rsp :
          /\ RcvS5(t, "create", m)
          /\ LET job == sgw_job[t]
             IN  /\ sgw_ctx' = [sgw_ctx EXCEPT ![job.imsi] =
                       [SgwCtx(job.imsi) EXCEPT !.s5_uteid_ul = m.ul, !.s5_cteid_ul = m.teid]]
                 /\ Reply(job.src, "create", job.cteid, job.teid[11], job.teid[1], m.ip)
    /\ SgwGoto(t, "idle")
    /\ sgw_job' = [sgw_job EXCEPT ![t] = NoSgwJob]
    /\ UNCHANGED <<sgw_id, sgw_itf, s11_req, s5_req, exited>>

\* handle_modify_bearer: get_imsi under the table's lock, ...
SgwModifyBearer(t) ==
    /\ \E m \in s11_req :
          /\ SgwReceive(t, "modify", m)
          /\ IF SgwImsi(11, m.teid) = Nil THEN SgwExit
             ELSE /\ sgw_job' = [sgw_job EXCEPT ![t] =
                        [NoSgwJob EXCEPT !.src = m.w, !.imsi = SgwImsi(11, m.teid), !.dl = m.dl]]
                  /\ SgwGoto(t, "modify_ctx")
                  /\ UNCHANGED <<sgw_id, sgw_ctx, sgw_itf, exited>>
    /\ UNCHANGED <<s11_rsp, s5Vars>>

SetEnodeb(ctx, dl) == [ctx EXCEPT !.s1_uteid_dl = dl, !.enodeb = TRUE]

\* ... then the context under its own; operator[] creates a missing one.
SgwModifyCtx(t) ==
    /\ SgwAt(t, "modify_ctx")
    /\ LET job == sgw_job[t]
           ctx == SgwCtx(job.imsi)
       IN  /\ sgw_ctx' = [sgw_ctx EXCEPT ![job.imsi] = SetEnodeb(ctx, job.dl)]
           /\ Reply(job.src, "modify", ctx.s11_cteid_mme, 0, 0, NoIp)
    /\ SgwGoto(t, "idle")
    /\ sgw_job' = [sgw_job EXCEPT ![t] = NoSgwJob]
    /\ UNCHANGED <<sgw_id, sgw_itf, s11_req, s5Vars, exited>>

\* handle_detach: get_imsi, ...
SgwDetach(t) ==
    /\ \E m \in s11_req :
          /\ SgwReceive(t, "detach", m)
          /\ IF SgwImsi(11, m.teid) = Nil THEN SgwExit
             ELSE /\ sgw_job' = [sgw_job EXCEPT ![t] =
                        [NoSgwJob EXCEPT !.src = m.w, !.imsi = SgwImsi(11, m.teid)]]
                  /\ SgwGoto(t, "detach_ctx")
                  /\ UNCHANGED <<sgw_id, sgw_ctx, sgw_itf, exited>>
    /\ UNCHANGED <<s11_rsp, s5Vars>>

\* ... then every identifier of the session is read from the context.  Without
\* one, or with one that never got the PGW's address (set_server), it exits.
SgwDetachCtx(t) ==
    /\ SgwAt(t, "detach_ctx")
    /\ LET imsi == sgw_job[t].imsi
           ctx  == sgw_ctx[imsi]
       IN  IF ctx = Nil \/ ~ SgwCtx(imsi).pgw THEN SgwExit /\ UNCHANGED s5_req
           ELSE /\ sgw_job' = [sgw_job EXCEPT ![t].cteid = ctx.s11_cteid_mme,
                     ![t].teid = [i \in Itf |-> CASE i = 11 -> ctx.s11_cteid_sgw
                                                  [] i = 1  -> ctx.s1_uteid_ul
                                                  [] i = 5  -> ctx.s5_uteid_dl]]
                /\ s5_req' = s5_req \cup {[t |-> t, type |-> "detach", teid |-> ctx.s5_cteid_ul,
                                           imsi |-> Nil]}
                /\ SgwGoto(t, "detach")
                /\ UNCHANGED <<sgw_id, sgw_ctx, sgw_itf, exited>>
    /\ UNCHANGED <<s11Vars, s5_rsp>>

\* The MME is answered before anything is removed.
SgwDetachAnswer(t) ==
    /\ \E m \in s5_rsp : RcvS5(t, "detach", m)
    /\ Reply(sgw_job[t].src, "detach", sgw_job[t].cteid, 0, 0, NoIp)
    /\ SgwGoto(t, "rem_itfid")
    /\ sgw_itf' = [sgw_itf EXCEPT ![t] = ItfRemovals]
    /\ UNCHANGED <<sgw_id, sgw_ctx, sgw_job, s11_req, s5_req, exited>>

SgwRemItfid(t) ==
    /\ SgwAt(t, "rem_itfid")
    /\ LET itf == Head(sgw_itf[t])
       IN  sgw_id' = [sgw_id EXCEPT ![itf][sgw_job[t].teid[itf]] = Nil]
    /\ NextItf(t, "rem_uectx")
    /\ UNCHANGED <<sgw_ctx, sgw_job, s11Vars, s5Vars, exited>>

SgwRemUectx(t) ==
    /\ SgwAt(t, "rem_uectx")
    /\ sgw_ctx' = [sgw_ctx EXCEPT ![sgw_job[t].imsi] = Nil]
    /\ SgwGoto(t, "idle")
    /\ sgw_job' = [sgw_job EXCEPT ![t] = NoSgwJob]
    /\ UNCHANGED <<sgw_id, sgw_itf, s11Vars, s5Vars, exited>>

SgwStep(t) ==
    \/ SgwCreateSession(t)
    \/ SgwUpdateItfid(t)
    \/ SgwInitCtx(t)
    \/ SgwCreateSessionAnswer(t)
    \/ SgwModifyBearer(t)
    \/ SgwModifyCtx(t)
    \/ SgwDetach(t)
    \/ SgwDetachCtx(t)
    \/ SgwDetachAnswer(t)
    \/ SgwRemItfid(t)
    \/ SgwRemUectx(t)
=============================================================================
