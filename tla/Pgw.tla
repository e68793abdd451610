--------------------------------- MODULE Pgw ---------------------------------
(***************************************************************************)
(* The PGW's control plane: S5 server threads that share one socket and    *)
(* the tables s5_id (tunnel -> IMSI), sgi_id (UE address -> IMSI) and      *)
(* ue_ctx, each with its own lock taken for one access.  It answers a      *)
(* detach before it removes anything, and reads the context of a detach    *)
(* with operator[]: a missing one is created with every identifier 0.      *)
(***************************************************************************)
EXTENDS Udp

VARIABLES
    pgw_s5_id,     \* TEID -> IMSI
    pgw_sgi_id,    \* UE address -> IMSI
    pgw_ctx,       \* Pgw::ue_ctx, IMSI -> UeContext
    pgw_pc,        \* where each S5 thread stands
    pgw_job        \* the handler's locals

pgwVars == <<pgw_s5_id, pgw_sgi_id, pgw_ctx, pgw_pc, pgw_job>>

PgwPc == {"idle", "update_s5", "update_sgi", "init_ctx", "detach_ctx", "rem_s5",
          "rem_sgi", "rem_uectx"}

PgwContext == [ip_addr : Ip, s5_uteid_ul : Teid, s5_uteid_dl : Teid,
               s5_cteid_ul : Teid, s5_cteid_dl : Teid]

ASSUME PgwNilAssumption == Nil \notin PgwContext

PgwJob == [src : S11Threads \cup {Nil}, imsi : UE \cup {Nil}, teid : Teid, ip : Ip]

NoPgwJob == [src |-> Nil, imsi |-> Nil, teid |-> 0, ip |-> NoIp]

PgwTypeOK ==
    /\ pgw_s5_id \in [Teid -> UE \cup {Nil}]
    /\ pgw_sgi_id \in [Ip -> UE \cup {Nil}]
    /\ pgw_ctx \in [UE -> PgwContext \cup {Nil}]
    /\ pgw_pc \in [PgwThreads -> PgwPc]
    /\ pgw_job \in [PgwThreads -> PgwJob]

PgwInit ==
    /\ pgw_s5_id = [x \in Teid |-> Nil]
    /\ pgw_sgi_id = [a \in Ip |-> Nil]
    /\ pgw_ctx = [u \in UE |-> Nil]
    /\ pgw_pc = [p \in PgwThreads |-> "idle"]
    /\ pgw_job = [p \in PgwThreads |-> NoPgwJob]

-----------------------------------------------------------------------------
NewPgwContext == [ip_addr |-> NoIp, s5_uteid_ul |-> 0, s5_uteid_dl |-> 0,
                  s5_cteid_ul |-> 0, s5_cteid_dl |-> 0]

PgwCtx(imsi) == IF pgw_ctx[imsi] = Nil THEN NewPgwContext ELSE pgw_ctx[imsi]

PgwAt(p, pc) == Running("pgw") /\ pgw_pc[p] = pc

PgwGoto(p, pc) == pgw_pc' = [pgw_pc EXCEPT ![p] = pc]

PgwReceive(p, type, m) ==
    /\ PgwAt(p, "idle")
    /\ m.type = type
    /\ s5_req' = s5_req \ {m}

PgwReply(t, type, teid, ul, ip) ==
    s5_rsp' = s5_rsp \cup {[t |-> t, type |-> type, teid |-> teid, ul |-> ul, ip |-> ip]}

-----------------------------------------------------------------------------
\* handle_create_session: the uplink identifiers are the SGW's s5_cteid_dl,
\* the address is the subscriber's entry of ip_addrs.
PgwCreateSession(p) ==
    /\ \E m \in s5_req :
          /\ PgwReceive(p, "create", m)
          /\ pgw_job' = [pgw_job EXCEPT ![p] = [src |-> m.t, imsi |-> m.imsi, teid |-> m.teid,
                                                ip |-> IpAddr(m.imsi)]]
    /\ PgwGoto(p, "update_s5")
    /\ UNCHANGED <<pgw_s5_id, pgw_sgi_id, pgw_ctx, s5_rsp, exited>>

PgwUpdateS5Id(p) ==
    /\ PgwAt(p, "update_s5")
    /\ pgw_s5_id' = [pgw_s5_id EXCEPT ![pgw_job[p].teid] = pgw_job[p].imsi]
    /\ PgwGoto(p, "update_sgi")
    /\ UNCHANGED <<pgw_sgi_id, pgw_ctx, pgw_job, s5Vars, exited>>

PgwUpdateSgiId(p) ==
    /\ PgwAt(p, "update_sgi")
    /\ pgw_sgi_id' = [pgw_sgi_id EXCEPT ![pgw_job[p].ip] = pgw_job[p].imsi]
    /\ PgwGoto(p, "init_ctx")
    /\ UNCHANGED <<pgw_s5_id, pgw_ctx, pgw_job, s5Vars, exited>>

PgwInitCtx(p) ==
    /\ PgwAt(p, "init_ctx")
    /\ LET job == pgw_job[p]
       IN  /\ pgw_ctx' = [pgw_ctx EXCEPT ![job.imsi] =
                 [ip_addr |-> job.ip, s5_uteid_ul |-> job.teid, s5_uteid_dl |-> job.teid,
                  s5_cteid_ul |-> job.teid, s5_cteid_dl |-> job.teid]]
           /\ PgwReply(job.src, "create", job.teid, job.teid, job.ip)
    /\ PgwGoto(p, "idle")
    /\ pgw_job' = [pgw_job EXCEPT ![p] = NoPgwJob]
    /\ UNCHANGED <<pgw_s5_id, pgw_sgi_id, s5_req, exited>>

\* handle_detach: get_imsi(5, teid), ...
PgwDetach(p) ==
    /\ \E m \in s5_req :
          /\ PgwReceive(p, "detach", m)
          /\ LET imsi == pgw_s5_id[m.teid]
             IN  IF imsi = Nil THEN Type1Error("pgw") /\ UNCHANGED pgwVars
                 ELSE /\ pgw_job' = [pgw_job EXCEPT ![p] =
                                        [NoPgwJob EXCEPT !.src = m.t, !.imsi = imsi]]
                      /\ PgwGoto(p, "detach_ctx")
                      /\ UNCHANGED <<pgw_s5_id, pgw_sgi_id, pgw_ctx, exited>>
    /\ UNCHANGED s5_rsp

\* ... the identifiers from the context, the answer, then the removals.
PgwDetachCtx(p) ==
    /\ PgwAt(p, "detach_ctx")
    /\ LET job == pgw_job[p]
           ctx == PgwCtx(job.imsi)
       IN  /\ pgw_ctx' = [pgw_ctx EXCEPT ![job.imsi] = ctx]
           /\ pgw_job' = [pgw_job EXCEPT ![p] = [job EXCEPT !.teid = ctx.s5_cteid_ul,
                                                           !.ip = ctx.ip_addr]]
           /\ PgwReply(job.src, "detach", ctx.s5_cteid_dl, 0, NoIp)
    /\ PgwGoto(p, "rem_s5")
    /\ UNCHANGED <<pgw_s5_id, pgw_sgi_id, s5_req, exited>>

PgwRemS5Id(p) ==
    /\ PgwAt(p, "rem_s5")
    /\ pgw_s5_id' = [pgw_s5_id EXCEPT ![pgw_job[p].teid] = Nil]
    /\ PgwGoto(p, "rem_sgi")
    /\ UNCHANGED <<pgw_sgi_id, pgw_ctx, pgw_job, s5Vars, exited>>

PgwRemSgiId(p) ==
    /\ PgwAt(p, "rem_sgi")
    /\ pgw_sgi_id' = [pgw_sgi_id EXCEPT ![pgw_job[p].ip] = Nil]
    /\ PgwGoto(p, "rem_uectx")
    /\ UNCHANGED <<pgw_s5_id, pgw_ctx, pgw_job, s5Vars, exited>>

\* Deviation: the context is kept.
PgwRemUectx_Kept(p) ==
    /\ PgwAt(p, "rem_uectx")
    /\ PgwGoto(p, "idle")
    /\ pgw_job' = [pgw_job EXCEPT ![p] = NoPgwJob]
    /\ UNCHANGED <<pgw_s5_id, pgw_sgi_id, pgw_ctx, s5Vars, exited>>

PgwRemUectx(p) ==
    /\ PgwAt(p, "rem_uectx")
    /\ pgw_ctx' = [pgw_ctx EXCEPT ![pgw_job[p].imsi] = Nil]
    /\ PgwGoto(p, "idle")
    /\ pgw_job' = [pgw_job EXCEPT ![p] = NoPgwJob]
    /\ UNCHANGED <<pgw_s5_id, pgw_sgi_id, s5Vars, exited>>

PgwStep(p) ==
    \/ PgwCreateSession(p)
    \/ PgwUpdateS5Id(p)
    \/ PgwUpdateSgiId(p)
    \/ PgwInitCtx(p)
    \/ PgwDetach(p)
    \/ PgwDetachCtx(p)
    \/ PgwRemS5Id(p)
    \/ PgwRemSgiId(p)
    \/ PgwRemUectx(p)
=============================================================================
