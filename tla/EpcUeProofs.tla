----------------------------- MODULE EpcUeProofs ------------------------------
(***************************************************************************)
(* Types, the blocking calls between MME, HSS, SGW and PGW, and what       *)
(* terminals and the MME make of them, for any set of subscribers and any  *)
(* number of threads.                                                      *)
(*                                                                         *)
(* TypeInv, the inductive invariant of types: a handler that resumes uses  *)
(* the locals it saved, so their types are part of it.  OneCall, that of the*)
(* calls: a call is in one stage only, so that a caller never reads another*)
(* call's answer, although UdpClient::rcv and SctpClient::rcv take whatever*)
(* comes next.  UeInv, that of terminals and the MME: the conversation never*)
(* gets out of step, both sides hold the same keys, and no RAN, MME or HSS *)
(* thread meets a failed assertion.  For each, first what a kind of step or*)
(* a view is, then every action of the program sorted into those.          *)
(***************************************************************************)
EXTENDS EpcInvariants, TLAPS

(* Constants and pure operators.                                           *)

\* Subscribers are numbers, and Nil is neither a number nor a subscriber.
LEMMA UEFacts == UE \subseteq Nat /\ Nil \notin UE /\ Nil \notin Worker /\ 0 \in Worker
<1>1. UE \subseteq Nat
    BY UEAssumption, SMT
<1>2. Worker \subseteq Nat /\ 0 \in Worker
    BY WorkersAssumption, SMT DEF Worker
<1> QED
    BY <1>1, <1>2, NilAssumption

\* Tunnel identifiers and addresses of subscribers are of their types.
LEMMA NumberingFacts ==
    /\ 0 \in Teid
    /\ NoIp \in Ip
    /\ \A u \in UE : S11CteidMme(u) \in Teid /\ IpAddr(u) \in Ip
BY DEF Teid, Ip

\* The round-robin turn stays within the workers.
LEMMA TurnFact == ASSUME NEW i \in Worker PROVE NextTurn(i) \in Worker
BY WorkersAssumption DEF Worker, NextTurn

\* Authentication vectors and keys are numbers.
LEMMA KeyFacts ==
    /\ \A k, r \in Nat : Xres(k, r) \in Nat /\ KAsme(k, r) \in Nat
    /\ \A x \in Nat : Autn(x) \in Nat /\ KNasMme(x) \in Nat /\ KNasRan(x) \in Nat
BY DEF Xres, KAsme, Autn, KNasMme, KNasRan, Sqn, PlmnId

\* Sending to and taking from a queue keeps its type.
LEMMA QueueFacts ==
    ASSUME NEW S, NEW q \in Seq(S)
    PROVE  /\ \A x \in S : Append(q, x) \in Seq(S)
           /\ q # <<>> => Head(q) \in S /\ Tail(q) \in Seq(S)
OBVIOUS

-----------------------------------------------------------------------------
\* The initial state satisfies the invariant.
LEMMA InitType == Init => TypeInv
<1> SUFFICES ASSUME Init PROVE TypeInv
    OBVIOUS
<1> USE UEFacts, NumberingFacts DEF Init
<1>1. exited \in SUBSET Process
    OBVIOUS
<1>2. SctpTypeOK
    BY DEF SctpInit, SctpTypeOK
<1>3. RanTypeOK
    BY DEF RanInit, RanTypeOK, RanContext, RanPc
<1>4. MmeTypeOK
    BY DEF MmeInit, MmeTypeOK, MmePc, MmeJob, NoMmeJob
<1>5. S6aTypeOK /\ S11TypeOK /\ S5TypeOK
    BY DEF S6aInit, UdpInit, S6aTypeOK, S11TypeOK, S5TypeOK
<1>6. SgwTypeOK
    BY DEF SgwInit, SgwTypeOK, SgwPc, SgwJob, NoSgwJob
<1>7. PgwTypeOK
    BY DEF PgwInit, PgwTypeOK, PgwPc, PgwJob, NoPgwJob
<1>8. MmeJobsOK /\ SgwJobsOK /\ PgwJobsOK /\ CreatesOK
    BY DEF MmeInit, SgwInit, PgwInit, UdpInit, MmeJobsOK, SgwJobsOK, PgwJobsOK, CreatesOK
<1> QED
    BY <1>1, <1>2, <1>3, <1>4, <1>5, <1>6, <1>7, <1>8 DEF TypeInv, TypeOK

-----------------------------------------------------------------------------
(* Steps of the RAN threads.                                               *)

\* A RAN thread leaves the variables of every server alone.
LEMMA RanFrame ==
    ASSUME TypeInv, NEW u \in UE, RanNext(u)
    PROVE  /\ MmeTypeOK' /\ S6aTypeOK' /\ S11TypeOK' /\ S5TypeOK' /\ SgwTypeOK' /\ PgwTypeOK'
           /\ MmeJobsOK' /\ SgwJobsOK' /\ PgwJobsOK' /\ CreatesOK'
<1> USE DEF TypeInv, TypeOK, RanNext
<1>1. MmeTypeOK' /\ MmeJobsOK'
    BY DEF mmeVars, MmeTypeOK, MmeJobsOK
<1>2. S6aTypeOK' /\ S11TypeOK' /\ S5TypeOK' /\ CreatesOK'
    BY DEF s6aVars, s11Vars, s5Vars, S6aTypeOK, S11TypeOK, S5TypeOK, CreatesOK
<1>3. SgwTypeOK' /\ SgwJobsOK'
    BY DEF sgwVars, SgwTypeOK, SgwJobsOK
<1>4. PgwTypeOK' /\ PgwJobsOK'
    BY DEF pgwVars, PgwTypeOK, PgwJobsOK
<1> QED
    BY <1>1, <1>2, <1>3, <1>4

\* A message made by Secured is well typed.
LEMMA SecuredType ==
    ASSUME NEW ctx \in RanContext, NEW type \in UpType, NEW teid \in Teid
    PROVE  Secured(ctx, type, teid) \in UpMsg
BY DEF Secured, RanContext, UpMsg

\* Sending a well-typed message keeps the type of the uplink queues.
LEMMA SendUpType ==
    ASSUME SctpTypeOK, NEW u \in UE, NEW m \in UpMsg, SendUp(u, m)
    PROVE  s1ap_up' \in [UE -> Seq(UpMsg)]
BY DEF SctpTypeOK, SendUp

\* Receiving yields a well-typed message and keeps the queues' type.
LEMMA RcvDnType ==
    ASSUME SctpTypeOK, NEW u \in UE, NEW pc, RcvDn(u, pc)
    PROVE  Head(s1ap_dn[u]) \in DnMsg /\ s1ap_dn' \in [UE -> Seq(DnMsg)]
BY DEF SctpTypeOK, RcvDn

\* The RAN's own variables and the transport stay well typed.
LEMMA RanStepType ==
    ASSUME TypeInv, NEW u \in UE, RanStep(u)
    PROVE  exited' \in SUBSET Process /\ SctpTypeOK' /\ RanTypeOK'
<1> USE UEFacts, NumberingFacts DEF TypeInv, TypeOK
<1>ctx. ran_ctx[u] \in RanContext
    BY DEF RanTypeOK
<1>key. RanKey(u) \in Nat
    BY DEF RanKey
<1>1. CASE ConnMme(u)
    BY <1>1 DEF ConnMme, Goto, Connect, SctpTypeOK, RanTypeOK, RanPc
<1>2. CASE TimeExceeded(u)
    BY <1>2 DEF TimeExceeded, Leave, Goto, CloseConnection, SctpTypeOK, RanTypeOK, RanPc
<1>3. CASE InitialAttach(u)
  <2>1. [type |-> "initial_attach", id |-> 0, res |-> 0, mac |-> FALSE, teid |-> 0] \in UpMsg
    BY DEF UpMsg, UpType
  <2>2. s1ap_up' \in [UE -> Seq(UpMsg)]
    BY <1>3, <2>1, SendUpType DEF InitialAttach
  <2> QED
    BY <1>3, <2>2 DEF InitialAttach, Goto, connVars, SctpTypeOK, RanTypeOK, RanPc
<1>4. CASE Authenticate(u)
  <2> DEFINE m   == Head(s1ap_dn[u])
             res == Xres(RanKey(u), m.rand)
  <2>1. m \in DnMsg /\ s1ap_dn' \in [UE -> Seq(DnMsg)]
    BY <1>4, RcvDnType DEF Authenticate
  <2>2. m.id \in Nat /\ m.rand \in Nat
    BY <2>1 DEF DnMsg
  <2>3. res \in Nat /\ KAsme(res, m.rand) \in Nat
    BY <2>2, <1>key, KeyFacts
  <2>4. CASE Autn(res) # m.autn
    <3>1. ran_ctx' \in [UE -> RanContext]
      BY <1>4, <2>2, <2>4, <1>ctx DEF Authenticate, RanTypeOK, RanContext
    <3> QED
      BY <1>4, <2>1, <2>4, <3>1
         DEF Authenticate, Leave, Goto, CloseConnection, SctpTypeOK, RanTypeOK, RanPc
  <2>5. CASE Autn(res) = m.autn
    <3>1. [type |-> "auth_response", id |-> m.id, res |-> res, mac |-> FALSE, teid |-> 0] \in UpMsg
      BY <2>2, <2>3 DEF UpMsg, UpType
    <3>2. s1ap_up' \in [UE -> Seq(UpMsg)]
      BY <1>4, <2>5, <3>1, SendUpType DEF Authenticate
    <3>3. ran_ctx' \in [UE -> RanContext]
      BY <1>4, <2>5, <2>2, <2>3, <1>ctx DEF Authenticate, RanTypeOK, RanContext
    <3> QED
      BY <1>4, <2>1, <2>5, <3>2, <3>3
         DEF Authenticate, Goto, connVars, SctpTypeOK, RanTypeOK, RanPc
  <2> QED
    BY <2>4, <2>5
<1>5. CASE SetSecurity(u)
  <2> DEFINE ctx == [ran_ctx[u] EXCEPT !.k_nas = KNasRan(ran_ctx[u].k_asme)]
  <2>1. ctx \in RanContext
    BY <1>ctx, KeyFacts DEF RanContext
  <2>2. Secured(ctx, "security_complete", 0) \in UpMsg
    BY <2>1, SecuredType DEF UpType
  <2>3. s1ap_up' \in [UE -> Seq(UpMsg)]
    BY <1>5, <2>2, SendUpType DEF SetSecurity, SctpTypeOK
  <2>4. s1ap_dn' \in [UE -> Seq(DnMsg)]
    BY <1>5, RcvDnType DEF SetSecurity
  <2>5. RanTypeOK'
    BY <1>5, <2>1 DEF SetSecurity, Goto, RanTypeOK, RanPc
  <2> QED
    BY <1>5, <2>3, <2>4, <2>5 DEF SetSecurity, Type1Error, Process, connVars, SctpTypeOK
<1>6. CASE SetEpsSession(u)
  <2> DEFINE m == Head(s1ap_dn[u])
  <2>1. m \in DnMsg /\ s1ap_dn' \in [UE -> Seq(DnMsg)]
    BY <1>6, RcvDnType DEF SetEpsSession
  <2>2. m.teid \in Teid /\ m.ip \in Ip
    BY <2>1 DEF DnMsg
  <2>3. Secured(ran_ctx[u], "attach_complete", m.teid) \in UpMsg
    BY <2>2, <1>ctx, SecuredType DEF UpType
  <2>4. s1ap_up' \in [UE -> Seq(UpMsg)]
    BY <1>6, <2>3, SendUpType DEF SetEpsSession, SctpTypeOK
  <2>5. RanTypeOK'
    BY <1>6, <2>2, <1>ctx DEF SetEpsSession, Goto, RanTypeOK, RanPc, RanContext
  <2> QED
    BY <1>6, <2>1, <2>4, <2>5 DEF SetEpsSession, Type1Error, Process, connVars, SctpTypeOK
<1>7. CASE DetachRequest(u)
  <2>1. Secured(ran_ctx[u], "detach_request", 0) \in UpMsg
    BY <1>ctx, SecuredType DEF UpType
  <2>2. s1ap_up' \in [UE -> Seq(UpMsg)]
    BY <1>7, <2>1, SendUpType DEF DetachRequest
  <2> QED
    BY <1>7, <2>2 DEF DetachRequest, Goto, connVars, SctpTypeOK, RanTypeOK, RanPc
<1>8. CASE DetachComplete(u)
  <2>1. s1ap_dn' \in [UE -> Seq(DnMsg)]
    BY <1>8, RcvDnType DEF DetachComplete
  <2>2. RanTypeOK'
    BY <1>8 DEF DetachComplete, Goto, RanTypeOK, RanPc
  <2> QED
    BY <1>8, <2>1, <2>2 DEF DetachComplete, Type1Error, Process, connVars, SctpTypeOK
<1> QED
    BY <1>1, <1>2, <1>3, <1>4, <1>5, <1>6, <1>7, <1>8 DEF RanStep

-----------------------------------------------------------------------------
(* Steps of the HSS and of the SCTP master thread.                         *)

\* Accepting a connection keeps the types.
LEMMA AcceptType == ASSUME TypeInv, AcceptNext PROVE TypeInv'
<1> USE UEFacts DEF TypeInv, TypeOK, AcceptNext, AcceptConnection
<1>1. SctpTypeOK'
  <2>1. Head(backlog) \in UE /\ backlog' \in Seq(UE)
    BY DEF AcceptClient, SctpTypeOK
  <2>2. turn' \in Worker
    BY TurnFact DEF AcceptClient, SctpTypeOK
  <2>3. conn_worker' \in [UE -> Worker \cup {Nil}]
    BY <2>1 DEF AcceptClient, SctpTypeOK
  <2> QED
    BY <2>1, <2>2, <2>3 DEF AcceptClient, SctpTypeOK, s1apVars
<1>2. RanTypeOK' /\ MmeTypeOK' /\ MmeJobsOK'
    BY DEF ranVars, mmeVars, RanTypeOK, MmeTypeOK, MmeJobsOK
<1>3. S6aTypeOK' /\ S11TypeOK' /\ S5TypeOK' /\ CreatesOK'
    BY DEF s6aVars, s11Vars, s5Vars, S6aTypeOK, S11TypeOK, S5TypeOK, CreatesOK
<1>4. SgwTypeOK' /\ SgwJobsOK' /\ PgwTypeOK' /\ PgwJobsOK'
    BY DEF sgwVars, pgwVars, SgwTypeOK, SgwJobsOK, PgwTypeOK, PgwJobsOK
<1> QED
    BY <1>1, <1>2, <1>3, <1>4

\* An authentication vector is a well-typed answer.
LEMMA AutnInfoType == ASSUME NEW w \in Worker, NEW u \in UE PROVE AutnInfo(w, u) \in S6aRsp
<1>1. HssKey[u] \in Nat /\ HssRand[u] \in Nat
    BY HssAssumption
<1> DEFINE xres == Xres(HssKey[u], HssRand[u])
<1>2. xres \in Nat /\ Autn(xres) \in Nat /\ KAsme(xres, HssRand[u]) \in Nat
    BY <1>1, KeyFacts
<1> QED
    BY <1>1, <1>2 DEF AutnInfo, S6aRsp

\* Answering an authentication request keeps the types.
LEMMA HssType == ASSUME TypeInv, NEW w \in Worker, HssNext(w) PROVE TypeInv'
<1> USE DEF TypeInv, TypeOK, HssNext
<1>1. S6aTypeOK'
  <2>1. PICK m \in s6a_req : m.w = w /\ s6a_req' = s6a_req \ {m}
                             /\ s6a_rsp' = s6a_rsp \cup {AutnInfo(w, m.imsi)}
    BY DEF HandleAutninfoReq
  <2>2. m.imsi \in UE
    BY DEF S6aTypeOK, S6aReq
  <2> QED
    BY <2>1, <2>2, AutnInfoType DEF S6aTypeOK
<1>2. SctpTypeOK' /\ RanTypeOK' /\ MmeTypeOK' /\ MmeJobsOK'
    BY DEF s1apVars, connVars, ranVars, mmeVars, SctpTypeOK, RanTypeOK, MmeTypeOK, MmeJobsOK
<1>3. S11TypeOK' /\ S5TypeOK' /\ CreatesOK'
    BY DEF s11Vars, s5Vars, S11TypeOK, S5TypeOK, CreatesOK
<1>4. SgwTypeOK' /\ SgwJobsOK' /\ PgwTypeOK' /\ PgwJobsOK'
    BY DEF sgwVars, pgwVars, SgwTypeOK, SgwJobsOK, PgwTypeOK, PgwJobsOK
<1> QED
    BY <1>1, <1>2, <1>3, <1>4 DEF HandleAutninfoReq

-----------------------------------------------------------------------------
(* Steps of the PGW's threads.                                             *)

\* A PGW thread leaves every other process alone.
LEMMA PgwFrame ==
    ASSUME TypeInv, NEW p \in PgwThreads, PgwNext(p)
    PROVE  /\ SctpTypeOK' /\ RanTypeOK' /\ MmeTypeOK' /\ S6aTypeOK' /\ S11TypeOK' /\ SgwTypeOK'
           /\ MmeJobsOK' /\ SgwJobsOK'
<1> USE DEF TypeInv, TypeOK, PgwNext
<1>1. SctpTypeOK' /\ RanTypeOK' /\ MmeTypeOK' /\ MmeJobsOK'
    BY DEF s1apVars, connVars, ranVars, mmeVars, SctpTypeOK, RanTypeOK, MmeTypeOK, MmeJobsOK
<1>2. S6aTypeOK' /\ S11TypeOK' /\ SgwTypeOK' /\ SgwJobsOK'
    BY DEF s6aVars, s11Vars, sgwVars, S6aTypeOK, S11TypeOK, SgwTypeOK, SgwJobsOK
<1> QED
    BY <1>1, <1>2

\* The PGW's tables and the S5 datagrams stay well typed.
LEMMA PgwStepType ==
    ASSUME TypeInv, NEW p \in PgwThreads, PgwStep(p)
    PROVE  exited' \in SUBSET Process /\ S5TypeOK' /\ PgwTypeOK' /\ PgwJobsOK'
           /\ \A m \in s5_req' : m.type = "create" => m.imsi \in UE
<1> USE UEFacts, NumberingFacts DEF TypeInv, TypeOK, CreatesOK, PgwAt, PgwGoto
<1>job. pgw_job[p] \in PgwJob
    BY DEF PgwTypeOK
<1>busy. pgw_pc[p] # "idle" => pgw_job[p].src \in S11Threads /\ pgw_job[p].imsi \in UE
    BY DEF PgwJobsOK
<1>ctx. \A u \in UE : PgwCtx(u) \in PgwContext
    BY DEF PgwCtx, NewPgwContext, PgwContext, PgwTypeOK
<1>1. CASE PgwCreateSession(p)
  <2>1. PICK m \in s5_req : PgwReceive(p, "create", m)
            /\ pgw_job' = [pgw_job EXCEPT ![p] = [src |-> m.t, imsi |-> m.imsi, teid |-> m.teid,
                                                  ip |-> IpAddr(m.imsi)]]
    BY <1>1 DEF PgwCreateSession
  <2>2. m.t \in S11Threads /\ m.imsi \in UE /\ m.teid \in Teid
    BY <2>1 DEF PgwReceive, S5TypeOK, S5Req
  <2>3. [src |-> m.t, imsi |-> m.imsi, teid |-> m.teid, ip |-> IpAddr(m.imsi)] \in PgwJob
    BY <2>2 DEF PgwJob
  <2>4. PgwTypeOK' /\ PgwJobsOK'
    BY <1>1, <2>1, <2>2, <2>3 DEF PgwCreateSession, PgwTypeOK, PgwJobsOK, PgwPc
  <2> QED
    BY <1>1, <2>1, <2>4 DEF PgwCreateSession, PgwReceive, S5TypeOK
<1>2. CASE PgwUpdateS5Id(p)
  <2>1. PgwTypeOK' /\ PgwJobsOK'
    BY <1>2, <1>job, <1>busy DEF PgwUpdateS5Id, PgwTypeOK, PgwJobsOK, PgwPc, PgwJob
  <2> QED
    BY <1>2, <2>1 DEF PgwUpdateS5Id, s5Vars, S5TypeOK
<1>3. CASE PgwUpdateSgiId(p)
  <2>1. PgwTypeOK' /\ PgwJobsOK'
    BY <1>3, <1>job, <1>busy DEF PgwUpdateSgiId, PgwTypeOK, PgwJobsOK, PgwPc, PgwJob
  <2> QED
    BY <1>3, <2>1 DEF PgwUpdateSgiId, s5Vars, S5TypeOK
<1>4. CASE PgwInitCtx(p)
  <2> DEFINE job == pgw_job[p]
             ctx == [ip_addr |-> job.ip, s5_uteid_ul |-> job.teid, s5_uteid_dl |-> job.teid,
                     s5_cteid_ul |-> job.teid, s5_cteid_dl |-> job.teid]
             rsp == [t |-> job.src, type |-> "create", teid |-> job.teid, ul |-> job.teid,
                     ip |-> job.ip]
  <2>1. job.src \in S11Threads /\ job.imsi \in UE /\ job.teid \in Teid /\ job.ip \in Ip
    BY <1>4, <1>job, <1>busy DEF PgwInitCtx, PgwJob
  <2>2. ctx \in PgwContext /\ rsp \in S5Rsp
    BY <2>1 DEF PgwContext, S5Rsp
  <2>3. PgwTypeOK' /\ PgwJobsOK'
    BY <1>4, <2>1, <2>2 DEF PgwInitCtx, PgwTypeOK, PgwJobsOK, PgwPc, PgwJob, NoPgwJob
  <2> QED
    BY <1>4, <2>2, <2>3 DEF PgwInitCtx, PgwReply, S5TypeOK
<1>5. CASE PgwDetach(p)
  <2>1. PICK m \in s5_req : PgwReceive(p, "detach", m)
            /\ LET imsi == pgw_s5_id[m.teid]
               IN  IF imsi = Nil THEN Type1Error("pgw") /\ UNCHANGED pgwVars
                   ELSE /\ pgw_job' = [pgw_job EXCEPT ![p] =
                                          [NoPgwJob EXCEPT !.src = m.t, !.imsi = imsi]]
                        /\ PgwGoto(p, "detach_ctx")
                        /\ UNCHANGED <<pgw_s5_id, pgw_sgi_id, pgw_ctx, exited>>
    BY <1>5 DEF PgwDetach
  <2>2. m.t \in S11Threads /\ pgw_s5_id[m.teid] \in UE \cup {Nil}
    BY DEF S5TypeOK, S5Req, PgwTypeOK
  <2>3. S5TypeOK' /\ \A n \in s5_req' : n.type = "create" => n.imsi \in UE
    BY <1>5, <2>1 DEF PgwDetach, PgwReceive, S5TypeOK
  <2>4. CASE pgw_s5_id[m.teid] = Nil
    BY <2>1, <2>3, <2>4 DEF Type1Error, Process, pgwVars, PgwTypeOK, PgwJobsOK
  <2>5. CASE pgw_s5_id[m.teid] # Nil
    <3> DEFINE job == [NoPgwJob EXCEPT !.src = m.t, !.imsi = pgw_s5_id[m.teid]]
    <3>1. job \in PgwJob /\ job.src \in S11Threads /\ job.imsi \in UE
      BY <2>2, <2>5 DEF PgwJob, NoPgwJob
    <3>2. pgw_job' = [pgw_job EXCEPT ![p] = job]
      BY <2>1, <2>5
    <3> HIDE DEF job
    <3>3. PgwTypeOK' /\ PgwJobsOK'
      BY <2>1, <2>5, <3>1, <3>2 DEF PgwTypeOK, PgwJobsOK, PgwPc
    <3> QED
      BY <2>1, <2>3, <2>5, <3>3
  <2> QED
    BY <2>4, <2>5
<1>6. CASE PgwDetachCtx(p)
  <2> DEFINE job == pgw_job[p]
             ctx == PgwCtx(job.imsi)
             rsp == [t |-> job.src, type |-> "detach", teid |-> ctx.s5_cteid_dl, ul |-> 0,
                     ip |-> NoIp]
  <2>1. job.src \in S11Threads /\ job.imsi \in UE /\ ctx \in PgwContext
    BY <1>6, <1>busy, <1>ctx DEF PgwDetachCtx
  <2>2. rsp \in S5Rsp /\ [job EXCEPT !.teid = ctx.s5_cteid_ul, !.ip = ctx.ip_addr] \in PgwJob
    BY <2>1, <1>job DEF S5Rsp, PgwContext, PgwJob
  <2>3. PgwTypeOK' /\ PgwJobsOK'
    BY <1>6, <2>1, <2>2, <1>job DEF PgwDetachCtx, PgwTypeOK, PgwJobsOK, PgwPc, PgwJob
  <2> QED
    BY <1>6, <2>2, <2>3 DEF PgwDetachCtx, PgwReply, S5TypeOK
<1>7. CASE PgwRemS5Id(p)
  <2>1. PgwTypeOK' /\ PgwJobsOK'
    BY <1>7, <1>job, <1>busy DEF PgwRemS5Id, PgwTypeOK, PgwJobsOK, PgwPc, PgwJob
  <2> QED
    BY <1>7, <2>1 DEF PgwRemS5Id, s5Vars, S5TypeOK
<1>8. CASE PgwRemSgiId(p)
  <2>1. PgwTypeOK' /\ PgwJobsOK'
    BY <1>8, <1>job, <1>busy DEF PgwRemSgiId, PgwTypeOK, PgwJobsOK, PgwPc, PgwJob
  <2> QED
    BY <1>8, <2>1 DEF PgwRemSgiId, s5Vars, S5TypeOK
<1>9. CASE PgwRemUectx(p)
  <2>1. PgwTypeOK' /\ PgwJobsOK'
    BY <1>9, <1>job, <1>busy
       DEF PgwRemUectx, PgwTypeOK, PgwJobsOK, PgwPc, PgwJob, NoPgwJob
  <2> QED
    BY <1>9, <2>1 DEF PgwRemUectx, s5Vars, S5TypeOK
<1> QED
    BY <1>1, <1>2, <1>3, <1>4, <1>5, <1>6, <1>7, <1>8, <1>9 DEF PgwStep

-----------------------------------------------------------------------------
(* Steps of the SGW's threads.                                             *)

\* An SGW thread leaves every other process alone.
LEMMA SgwFrame ==
    ASSUME TypeInv, NEW t \in S11Threads, SgwNext(t)
    PROVE  /\ SctpTypeOK' /\ RanTypeOK' /\ MmeTypeOK' /\ S6aTypeOK' /\ PgwTypeOK'
           /\ MmeJobsOK' /\ PgwJobsOK'
<1> USE DEF TypeInv, TypeOK, SgwNext
<1>1. SctpTypeOK' /\ RanTypeOK' /\ MmeTypeOK' /\ MmeJobsOK'
    BY DEF s1apVars, connVars, ranVars, mmeVars, SctpTypeOK, RanTypeOK, MmeTypeOK, MmeJobsOK
<1>2. S6aTypeOK' /\ PgwTypeOK' /\ PgwJobsOK'
    BY DEF s6aVars, pgwVars, S6aTypeOK, PgwTypeOK, PgwJobsOK
<1> QED
    BY <1>1, <1>2

\* The answers the SGW sends are well typed.
LEMMA ReplyType ==
    ASSUME S11TypeOK, NEW w \in Worker, NEW type \in SessionType, NEW teid \in Teid,
           NEW s11 \in Teid, NEW ul \in Teid, NEW ip \in Ip, Reply(w, type, teid, s11, ul, ip)
    PROVE  s11_rsp' \in SUBSET S11Rsp
BY DEF S11TypeOK, S11Rsp, Reply

\* Taking a request from the socket leaves well-typed requests.
LEMMA SgwReceiveType ==
    ASSUME TypeInv, NEW t \in S11Threads, NEW type, NEW m \in s11_req, SgwReceive(t, type, m)
    PROVE  /\ m \in S11Req /\ s11_req' \in SUBSET S11Req
           /\ \A n \in s11_req' : n.type = "create" => n.imsi \in UE
BY DEF TypeInv, TypeOK, CreatesOK, S11TypeOK, SgwReceive

\* Advancing a loop over the interfaces keeps its variables well typed.
LEMMA NextItfType ==
    ASSUME SgwTypeOK, NEW t \in S11Threads, NEW next \in SgwPc \ {"update_itfid", "rem_itfid"},
           sgw_itf[t] # <<>>, NextItf(t, next)
    PROVE  /\ sgw_itf' \in [S11Threads -> Seq(Itf)]
           /\ sgw_pc' \in [S11Threads -> SgwPc]
           /\ \A s \in S11Threads : s # t => sgw_itf'[s] = sgw_itf[s] /\ sgw_pc'[s] = sgw_pc[s]
           /\ sgw_pc'[t] \in {"update_itfid", "rem_itfid"} => sgw_itf'[t] # <<>>
           /\ sgw_pc'[t] \in {sgw_pc[t], next}
<1>1. sgw_itf[t] \in Seq(Itf) /\ Tail(sgw_itf[t]) \in Seq(Itf)
    BY DEF SgwTypeOK
<1>2. Len(sgw_itf[t]) # 1 => Tail(sgw_itf[t]) # <<>>
  <2> SUFFICES ASSUME Len(sgw_itf[t]) # 1 PROVE Len(Tail(sgw_itf[t])) # 0
    OBVIOUS
  <2>1. Len(sgw_itf[t]) \in Nat /\ Len(sgw_itf[t]) # 0
    BY <1>1
  <2> QED
    BY <1>1, <2>1
<1> QED
    BY <1>1, <1>2 DEF NextItf, SgwTypeOK

\* The SGW's tables, the S11 and the S5 datagrams stay well typed.
LEMMA SgwStepType ==
    ASSUME TypeInv, NEW t \in S11Threads, SgwStep(t)
    PROVE  exited' \in SUBSET Process /\ S11TypeOK' /\ S5TypeOK' /\ SgwTypeOK' /\ SgwJobsOK'
           /\ CreatesOK'
<1> USE UEFacts, NumberingFacts DEF TypeInv, TypeOK, CreatesOK, SgwAt, SgwGoto
<1>job. sgw_job[t] \in SgwJob /\ \A i \in Itf : sgw_job[t].teid[i] \in Teid
    BY DEF SgwTypeOK, SgwJob
<1>busy. sgw_pc[t] # "idle" => sgw_job[t].src \in Worker /\ sgw_job[t].imsi \in UE
    BY DEF SgwJobsOK
<1>ctx. \A u \in UE : SgwCtx(u) \in SgwContext
    BY DEF SgwCtx, NewSgwContext, SgwContext, SgwTypeOK
<1>itf. 11 \in Itf /\ 1 \in Itf /\ 5 \in Itf
    BY DEF Itf
<1>nojob. NoSgwJob \in SgwJob
    BY DEF NoSgwJob, SgwJob
<1>1. CASE SgwCreateSession(t)
  <2>1. PICK m \in s11_req : SgwReceive(t, "create", m)
            /\ sgw_job' = [sgw_job EXCEPT ![t] =
                  [src |-> m.w, imsi |-> m.imsi, cteid |-> m.mme, dl |-> 0,
                   teid |-> [i \in Itf |-> m.mme]]]
    BY <1>1 DEF SgwCreateSession
  <2> DEFINE job == [src |-> m.w, imsi |-> m.imsi, cteid |-> m.mme, dl |-> 0,
                     teid |-> [i \in Itf |-> m.mme]]
  <2>2. m \in S11Req /\ s11_req' \in SUBSET S11Req /\ m.imsi \in UE
        /\ \A n \in s11_req' : n.type = "create" => n.imsi \in UE
    BY <2>1, SgwReceiveType DEF SgwReceive
  <2>3. job \in SgwJob /\ job.src \in Worker /\ job.imsi \in UE
    BY <2>2 DEF SgwJob, S11Req
  <2>4. ItfUpdates \in Seq(Itf) /\ ItfUpdates # <<>>
    BY <1>itf DEF ItfUpdates
  <2>5. sgw_job' = [sgw_job EXCEPT ![t] = job]
    BY <2>1
  <2> HIDE DEF job
  <2>6. SgwTypeOK' /\ SgwJobsOK'
    BY <1>1, <2>3, <2>4, <2>5 DEF SgwCreateSession, SgwTypeOK, SgwJobsOK, SgwPc
  <2> QED
    BY <1>1, <2>2, <2>6 DEF SgwCreateSession, s5Vars, S11TypeOK, S5TypeOK
<1>2. CASE SgwUpdateItfid(t)
  <2>1. sgw_itf[t] # <<>> /\ Head(sgw_itf[t]) \in Itf /\ sgw_job[t].imsi \in UE
    BY <1>2, <1>busy DEF SgwUpdateItfid, SgwJobsOK, SgwTypeOK
  <2>2. NextItf(t, "init_ctx")
    BY <1>2 DEF SgwUpdateItfid
  <2>3. sgw_id' \in [Itf -> [Teid -> UE \cup {Nil}]]
    BY <1>2, <2>1, <1>job DEF SgwUpdateItfid, SgwTypeOK
  <2>4. "init_ctx" \in SgwPc \ {"update_itfid", "rem_itfid"}
    BY DEF SgwPc
  <2>5. SgwTypeOK' /\ SgwJobsOK'
    BY <1>2, <2>1, <2>2, <2>3, <2>4, NextItfType, <1>busy
       DEF SgwUpdateItfid, SgwTypeOK, SgwJobsOK
  <2> QED
    BY <1>2, <2>5 DEF SgwUpdateItfid, s11Vars, s5Vars, S11TypeOK, S5TypeOK
<1>3. CASE SgwInitCtx(t)
  <2> DEFINE job == sgw_job[t]
             ctx == [SgwCtx(job.imsi) EXCEPT !.s11_cteid_mme = job.cteid,
                                             !.s11_cteid_sgw = job.teid[11],
                                             !.s1_uteid_ul = job.teid[1],
                                             !.s5_uteid_dl = job.teid[5],
                                             !.pgw = TRUE]
             req == [t |-> t, type |-> "create", teid |-> job.teid[5], imsi |-> job.imsi]
  <2>1. job.imsi \in UE /\ job.cteid \in Teid
    BY <1>3, <1>busy, <1>job DEF SgwInitCtx, SgwJob
  <2>2. ctx \in SgwContext
    BY <2>1, <1>ctx, <1>job, <1>itf DEF SgwContext
  <2>3. req \in S5Req /\ req.imsi \in UE
    BY <2>1, <1>job, <1>itf DEF S5Req
  <2>4. sgw_ctx' = [sgw_ctx EXCEPT ![job.imsi] = ctx] /\ s5_req' = s5_req \cup {req}
    BY <1>3 DEF SgwInitCtx
  <2> HIDE DEF ctx, req
  <2>5. SgwTypeOK' /\ SgwJobsOK'
    BY <1>3, <2>1, <2>2, <2>4 DEF SgwInitCtx, SgwTypeOK, SgwJobsOK, SgwPc
  <2> QED
    BY <1>3, <2>3, <2>4, <2>5 DEF SgwInitCtx, s11Vars, S11TypeOK, S5TypeOK
<1>4. CASE SgwCreateSessionAnswer(t)
  <2> DEFINE job == sgw_job[t]
  <2>1. PICK m \in s5_rsp : RcvS5(t, "create", m)
            /\ sgw_ctx' = [sgw_ctx EXCEPT ![job.imsi] =
                  [SgwCtx(job.imsi) EXCEPT !.s5_uteid_ul = m.ul, !.s5_cteid_ul = m.teid]]
            /\ Reply(job.src, "create", job.cteid, job.teid[11], job.teid[1], m.ip)
    BY <1>4 DEF SgwCreateSessionAnswer
  <2>2. m.ul \in Teid /\ m.teid \in Teid /\ m.ip \in Ip
    BY DEF S5TypeOK, S5Rsp
  <2>3. job.src \in Worker /\ job.imsi \in UE /\ job.cteid \in Teid
    BY <2>1, <1>busy, <1>job DEF RcvS5, SgwJob
  <2>4. [SgwCtx(job.imsi) EXCEPT !.s5_uteid_ul = m.ul, !.s5_cteid_ul = m.teid] \in SgwContext
    BY <2>2, <2>3, <1>ctx DEF SgwContext
  <2>5. SgwTypeOK' /\ SgwJobsOK'
    BY <1>4, <2>1, <2>3, <2>4, <1>nojob
       DEF SgwCreateSessionAnswer, SgwTypeOK, SgwJobsOK, SgwPc
  <2>6. s11_rsp' \in SUBSET S11Rsp
    BY <2>1, <2>2, <2>3, <1>job, <1>itf, ReplyType DEF SessionType
  <2> QED
    BY <1>4, <2>1, <2>5, <2>6 DEF SgwCreateSessionAnswer, RcvS5, S11TypeOK, S5TypeOK
<1>5. CASE SgwModifyBearer(t)
  <2>1. PICK m \in s11_req : SgwReceive(t, "modify", m)
            /\ IF SgwImsi(11, m.teid) = Nil THEN SgwExit
               ELSE /\ sgw_job' = [sgw_job EXCEPT ![t] =
                          [NoSgwJob EXCEPT !.src = m.w, !.imsi = SgwImsi(11, m.teid), !.dl = m.dl]]
                    /\ SgwGoto(t, "modify_ctx")
                    /\ UNCHANGED <<sgw_id, sgw_ctx, sgw_itf, exited>>
    BY <1>5 DEF SgwModifyBearer
  <2> DEFINE job == [NoSgwJob EXCEPT !.src = m.w, !.imsi = SgwImsi(11, m.teid), !.dl = m.dl]
  <2>2. m \in S11Req /\ s11_req' \in SUBSET S11Req
        /\ \A n \in s11_req' : n.type = "create" => n.imsi \in UE
    BY <2>1, SgwReceiveType
  <2>3. m.w \in Worker /\ m.dl \in Teid /\ SgwImsi(11, m.teid) \in UE \cup {Nil}
    BY <2>2, <1>itf DEF S11Req, SgwImsi, SgwTypeOK
  <2>4. SgwTypeOK' /\ SgwJobsOK' /\ exited' \in SUBSET Process
    <3>1. CASE SgwImsi(11, m.teid) = Nil
      BY <2>1, <3>1 DEF SgwExit, Type1Error, Process, sgwVars, SgwTypeOK, SgwJobsOK
    <3>2. CASE SgwImsi(11, m.teid) # Nil
      <4>1. job \in SgwJob /\ job.src \in Worker /\ job.imsi \in UE
        BY <2>3, <3>2, <1>nojob DEF SgwJob, NoSgwJob
      <4>2. sgw_job' = [sgw_job EXCEPT ![t] = job]
        BY <2>1, <3>2
      <4> HIDE DEF job
      <4> QED
        BY <2>1, <3>2, <4>1, <4>2 DEF SgwTypeOK, SgwJobsOK, SgwPc
    <3> QED
      BY <3>1, <3>2
  <2> QED
    BY <1>5, <2>2, <2>4 DEF SgwModifyBearer, s5Vars, S11TypeOK, S5TypeOK
<1>6. CASE SgwModifyCtx(t)
  <2> DEFINE job == sgw_job[t]
             ctx == SgwCtx(job.imsi)
  <2>1. job.src \in Worker /\ job.imsi \in UE /\ job.dl \in Teid
    BY <1>6, <1>busy, <1>job DEF SgwModifyCtx, SgwJob
  <2>2. SetEnodeb(ctx, job.dl) \in SgwContext /\ ctx.s11_cteid_mme \in Teid
    BY <2>1, <1>ctx DEF SetEnodeb, SgwContext
  <2>3. SgwTypeOK' /\ SgwJobsOK'
    BY <1>6, <2>1, <2>2, <1>nojob DEF SgwModifyCtx, SgwTypeOK, SgwJobsOK, SgwPc
  <2>4. s11_rsp' \in SUBSET S11Rsp
    BY <1>6, <2>1, <2>2, ReplyType DEF SgwModifyCtx, SessionType
  <2> QED
    BY <1>6, <2>3, <2>4 DEF SgwModifyCtx, s5Vars, S11TypeOK, S5TypeOK
<1>7. CASE SgwDetach(t)
  <2>1. PICK m \in s11_req : SgwReceive(t, "detach", m)
            /\ IF SgwImsi(11, m.teid) = Nil THEN SgwExit
               ELSE /\ sgw_job' = [sgw_job EXCEPT ![t] =
                          [NoSgwJob EXCEPT !.src = m.w, !.imsi = SgwImsi(11, m.teid)]]
                    /\ SgwGoto(t, "detach_ctx")
                    /\ UNCHANGED <<sgw_id, sgw_ctx, sgw_itf, exited>>
    BY <1>7 DEF SgwDetach
  <2> DEFINE job == [NoSgwJob EXCEPT !.src = m.w, !.imsi = SgwImsi(11, m.teid)]
  <2>2. m \in S11Req /\ s11_req' \in SUBSET S11Req
        /\ \A n \in s11_req' : n.type = "create" => n.imsi \in UE
    BY <2>1, SgwReceiveType
  <2>3. m.w \in Worker /\ SgwImsi(11, m.teid) \in UE \cup {Nil}
    BY <2>2, <1>itf DEF S11Req, SgwImsi, SgwTypeOK
  <2>4. SgwTypeOK' /\ SgwJobsOK' /\ exited' \in SUBSET Process
    <3>1. CASE SgwImsi(11, m.teid) = Nil
      BY <2>1, <3>1 DEF SgwExit, Type1Error, Process, sgwVars, SgwTypeOK, SgwJobsOK
    <3>2. CASE SgwImsi(11, m.teid) # Nil
      <4>1. job \in SgwJob /\ job.src \in Worker /\ job.imsi \in UE
        BY <2>3, <3>2, <1>nojob DEF SgwJob, NoSgwJob
      <4>2. sgw_job' = [sgw_job EXCEPT ![t] = job]
        BY <2>1, <3>2
      <4> HIDE DEF job
      <4> QED
        BY <2>1, <3>2, <4>1, <4>2 DEF SgwTypeOK, SgwJobsOK, SgwPc
    <3> QED
      BY <3>1, <3>2
  <2> QED
    BY <1>7, <2>2, <2>4 DEF SgwDetach, s5Vars, S11TypeOK, S5TypeOK
<1>8. CASE SgwDetachCtx(t)
  <2> DEFINE imsi == sgw_job[t].imsi
             ctx  == sgw_ctx[imsi]
             ids  == [i \in Itf |-> CASE i = 11 -> ctx.s11_cteid_sgw
                                      [] i = 1  -> ctx.s1_uteid_ul
                                      [] i = 5  -> ctx.s5_uteid_dl]
             job  == [sgw_job[t] EXCEPT !.cteid = ctx.s11_cteid_mme, !.teid = ids]
             req  == [t |-> t, type |-> "detach", teid |-> ctx.s5_cteid_ul, imsi |-> Nil]
  <2>1. CASE ctx = Nil \/ ~ SgwCtx(imsi).pgw
    BY <1>8, <2>1 DEF SgwDetachCtx, SgwExit, Type1Error, Process, sgwVars, s11Vars,
                      SgwTypeOK, SgwJobsOK, S11TypeOK, S5TypeOK
  <2>2. CASE ctx # Nil /\ SgwCtx(imsi).pgw
    <3>1. imsi \in UE /\ ctx \in SgwContext
      BY <1>8, <2>2, <1>busy DEF SgwDetachCtx, SgwTypeOK
    <3>2. ctx.s11_cteid_mme \in Teid /\ ctx.s11_cteid_sgw \in Teid /\ ctx.s1_uteid_ul \in Teid
          /\ ctx.s5_uteid_dl \in Teid /\ ctx.s5_cteid_ul \in Teid
      BY <3>1 DEF SgwContext
    <3>3. ids \in [Itf -> Teid]
      BY <3>2 DEF Itf
    <3>4. sgw_job' = [sgw_job EXCEPT ![t] = job]
      <4>1. sgw_job' = [sgw_job EXCEPT ![t].cteid = ctx.s11_cteid_mme, ![t].teid = ids]
        BY <1>8, <2>2 DEF SgwDetachCtx
      <4> HIDE DEF ids, ctx
      <4> QED
        BY <4>1 DEF SgwTypeOK
    <3> HIDE DEF ids
    <3>5. job \in SgwJob /\ job.imsi = imsi /\ job.src = sgw_job[t].src
      BY <3>2, <3>3, <1>job DEF SgwJob
    <3>6. req \in S5Req /\ s5_req' = s5_req \cup {req}
      BY <1>8, <2>2, <3>2 DEF SgwDetachCtx, S5Req
    <3> HIDE DEF job, req
    <3>7. SgwTypeOK' /\ SgwJobsOK'
      BY <1>8, <2>2, <1>busy, <3>1, <3>4, <3>5
         DEF SgwDetachCtx, SgwTypeOK, SgwJobsOK, SgwPc
    <3>8. req.type = "detach"
      BY DEF req
    <3> QED
      BY <1>8, <2>2, <3>6, <3>7, <3>8 DEF SgwDetachCtx, s11Vars, S11TypeOK, S5TypeOK
  <2> QED
    BY <2>1, <2>2
<1>9. CASE SgwDetachAnswer(t)
  <2> DEFINE job == sgw_job[t]
  <2>1. PICK m \in s5_rsp : RcvS5(t, "detach", m)
    BY <1>9 DEF SgwDetachAnswer
  <2>2. job.src \in Worker /\ job.cteid \in Teid
    BY <2>1, <1>busy, <1>job DEF RcvS5, SgwJob
  <2>3. s11_rsp' \in SUBSET S11Rsp
    BY <1>9, <2>2, ReplyType DEF SgwDetachAnswer, SessionType
  <2>4. ItfRemovals \in Seq(Itf) /\ ItfRemovals # <<>>
    BY <1>itf DEF ItfRemovals
  <2>5. SgwTypeOK' /\ SgwJobsOK'
    BY <1>9, <2>1, <2>4, <1>busy DEF SgwDetachAnswer, RcvS5, SgwTypeOK, SgwJobsOK, SgwPc
  <2> QED
    BY <1>9, <2>1, <2>3, <2>5 DEF SgwDetachAnswer, RcvS5, S11TypeOK, S5TypeOK
<1>10. CASE SgwRemItfid(t)
  <2>1. sgw_itf[t] # <<>> /\ Head(sgw_itf[t]) \in Itf
    BY <1>10 DEF SgwRemItfid, SgwJobsOK, SgwTypeOK
  <2>2. NextItf(t, "rem_uectx")
    BY <1>10 DEF SgwRemItfid
  <2>3. sgw_id' \in [Itf -> [Teid -> UE \cup {Nil}]]
    BY <1>10, <2>1, <1>job DEF SgwRemItfid, SgwTypeOK
  <2>4. "rem_uectx" \in SgwPc \ {"update_itfid", "rem_itfid"}
    BY DEF SgwPc
  <2>5. SgwTypeOK' /\ SgwJobsOK'
    BY <1>10, <2>1, <2>2, <2>3, <2>4, NextItfType, <1>busy
       DEF SgwRemItfid, SgwTypeOK, SgwJobsOK
  <2> QED
    BY <1>10, <2>5 DEF SgwRemItfid, s11Vars, s5Vars, S11TypeOK, S5TypeOK
<1>11. CASE SgwRemUectx(t)
  <2>1. SgwTypeOK' /\ SgwJobsOK'
    BY <1>11, <1>busy, <1>nojob DEF SgwRemUectx, SgwTypeOK, SgwJobsOK, SgwPc
  <2> QED
    BY <1>11, <2>1 DEF SgwRemUectx, s11Vars, s5Vars, S11TypeOK, S5TypeOK
<1> QED
    BY <1>1, <1>2, <1>3, <1>4, <1>5, <1>6, <1>7, <1>8, <1>9, <1>10, <1>11 DEF SgwStep

-----------------------------------------------------------------------------
(* Steps of the MME's workers.                                             *)

\* A worker leaves the RAN and the gateways alone.
LEMMA MmeFrame ==
    ASSUME TypeInv, NEW w \in Worker, MmeNext(w)
    PROVE  RanTypeOK' /\ S5TypeOK' /\ SgwTypeOK' /\ PgwTypeOK' /\ SgwJobsOK' /\ PgwJobsOK'
           /\ \A m \in s5_req' : m.type = "create" => m.imsi \in UE
<1> USE DEF TypeInv, TypeOK, MmeNext
<1>1. RanTypeOK' /\ S5TypeOK' /\ \A m \in s5_req' : m.type = "create" => m.imsi \in UE
    BY DEF ranVars, s5Vars, RanTypeOK, S5TypeOK, CreatesOK
<1>2. SgwTypeOK' /\ SgwJobsOK' /\ PgwTypeOK' /\ PgwJobsOK'
    BY DEF sgwVars, pgwVars, SgwTypeOK, SgwJobsOK, PgwTypeOK, PgwJobsOK
<1> QED
    BY <1>1, <1>2

\* The message a worker takes is well typed, and so are the queues after it.
LEMMA ReceiveType ==
    ASSUME SctpTypeOK, NEW w \in Worker, NEW u \in UE, NEW type, Receive(w, u, type)
    PROVE  Head(s1ap_up[u]) \in UpMsg /\ s1ap_up' \in [UE -> Seq(UpMsg)]
BY DEF SctpTypeOK, Receive

\* Sending a well-typed message keeps the type of the downlink queues.
LEMMA SendDnType ==
    ASSUME SctpTypeOK, NEW u \in UE, NEW m \in DnMsg, SendDn(u, m)
    PROVE  s1ap_dn' \in [UE -> Seq(DnMsg)]
BY DEF SctpTypeOK, SendDn

\* The plain form of every downlink message is well typed.
LEMMA DnMsgType == ASSUME NEW type \in DnType, NEW id \in Nat PROVE Dn(type, id) \in DnMsg
BY NumberingFacts DEF Dn, DnMsg

\* Blocking, or returning from a handler, with well-typed locals.
LEMMA BlockType ==
    ASSUME MmeTypeOK, MmeJobsOK, ue_count' \in Nat, ue_count' >= ue_count,
           NEW w \in Worker, NEW pc \in MmePc, NEW job \in MmeJob, Block(w, pc, job),
           pc # "idle" => job.conn \in UE /\ job.guti \in UE /\ job.id \in 1 .. ue_count'
    PROVE  mme_pc' \in [Worker -> MmePc] /\ mme_job' \in [Worker -> MmeJob] /\ MmeJobsOK'
<1>1. mme_pc' \in [Worker -> MmePc] /\ mme_job' \in [Worker -> MmeJob]
    BY DEF MmeTypeOK, Block
<1>2. ASSUME NEW v \in Worker, mme_pc'[v] # "idle"
      PROVE  mme_job'[v].conn \in UE /\ mme_job'[v].guti \in UE
             /\ mme_job'[v].id \in 1 .. ue_count'
  <2>1. CASE v = w
    BY <1>2, <2>1 DEF Block, MmeTypeOK
  <2>2. CASE v # w
    <3>1. mme_pc'[v] = mme_pc[v] /\ mme_job'[v] = mme_job[v]
      BY <2>2 DEF Block, MmeTypeOK
    <3>2. mme_job[v].conn \in UE /\ mme_job[v].guti \in UE /\ mme_job[v].id \in 1 .. ue_count
      BY <1>2, <3>1 DEF MmeJobsOK
    <3> QED
      BY <3>1, <3>2 DEF MmeTypeOK
  <2> QED
    BY <2>1, <2>2
<1> QED
    BY <1>1, <1>2 DEF MmeJobsOK

\* A handler that exits leaves the MME's variables as they are.
LEMMA MmeExitType ==
    ASSUME TypeInv, MmeExit
    PROVE  exited' \in SUBSET Process /\ MmeTypeOK' /\ MmeJobsOK'
BY DEF TypeInv, TypeOK, MmeExit, Type1Error, Process, mmeVars, MmeTypeOK, MmeJobsOK

\* The MME's tables, its transport and its requests stay well typed.
LEMMA MmeStepType ==
    ASSUME TypeInv, NEW w \in Worker, MmeStep(w)
    PROVE  exited' \in SUBSET Process /\ SctpTypeOK' /\ MmeTypeOK' /\ MmeJobsOK' /\ S6aTypeOK'
           /\ S11TypeOK' /\ \A m \in s11_req' : m.type = "create" => m.imsi \in UE
<1> USE UEFacts, NumberingFacts DEF TypeInv, TypeOK, CreatesOK
<1>job. mme_job[w] \in MmeJob
    BY DEF MmeTypeOK
<1>busy. mme_pc[w] # "idle" => mme_job[w].conn \in UE /\ mme_job[w].guti \in UE
                               /\ mme_job[w].id \in 1 .. ue_count
    BY DEF MmeJobsOK
<1>ctx. \A u \in UE : MmeCtx(u) \in MmeContext
    BY DEF MmeCtx, NewMmeContext, MmeContext, MmeTypeOK
<1>nojob. NoMmeJob \in MmeJob
    BY DEF NoMmeJob, MmeJob
<1>idle. "idle" \in MmePc
    BY DEF MmePc
<1>guti. \A id : GetGuti(id) # Nil => id \in 1 .. ue_count /\ GetGuti(id) \in UE
    BY DEF GetGuti, MmeTypeOK
<1>cnt. ue_count \in Nat
    BY DEF MmeTypeOK
<1>1. ASSUME NEW u \in UE, HandleInitialAttach(w, u)
      PROVE  exited' \in SUBSET Process /\ SctpTypeOK' /\ MmeTypeOK' /\ MmeJobsOK' /\ S6aTypeOK'
             /\ S11TypeOK' /\ \A m \in s11_req' : m.type = "create" => m.imsi \in UE
  <2> DEFINE id  == ue_count + 1
             job == [conn |-> u, id |-> id, guti |-> u]
  <2>1. ue_count' = id /\ id \in Nat /\ id >= ue_count /\ id \in 1 .. id
    BY <1>1, <1>cnt DEF HandleInitialAttach
  <2>2. s1mme_id' \in [1 .. id -> UE \cup {Nil}]
    BY <1>1, <1>cnt DEF HandleInitialAttach, MmeTypeOK
  <2>3. mme_ctx' \in [UE -> MmeContext \cup {Nil}]
    <3>1. [MmeCtx(u) EXCEPT !.mme_s1ap_ue_id = id] \in MmeContext
      BY <1>ctx, <2>1 DEF MmeContext
    <3>2. mme_ctx' = [mme_ctx EXCEPT ![u] = [MmeCtx(u) EXCEPT !.mme_s1ap_ue_id = id]]
      BY <1>1 DEF HandleInitialAttach
    <3> QED
      BY <3>1, <3>2 DEF MmeTypeOK
  <2>4. job \in MmeJob /\ Block(w, "autn_info", job) /\ "autn_info" \in MmePc
    BY <1>1, <2>1 DEF HandleInitialAttach, MmeJob, MmePc
  <2>5. mme_pc' \in [Worker -> MmePc] /\ mme_job' \in [Worker -> MmeJob] /\ MmeJobsOK'
    BY <2>1, <2>4, BlockType
  <2>6. SctpTypeOK'
    BY <1>1, ReceiveType DEF HandleInitialAttach, SctpTypeOK, connVars
  <2>7. S6aTypeOK'
    BY <1>1 DEF HandleInitialAttach, S6aTypeOK, S6aReq
  <2> QED
    BY <1>1, <2>1, <2>2, <2>3, <2>5, <2>6, <2>7
       DEF HandleInitialAttach, MmeTypeOK, s11Vars, S11TypeOK
<1>2. ASSUME NEW u \in UE, HandleAutn(w, u)
      PROVE  exited' \in SUBSET Process /\ SctpTypeOK' /\ MmeTypeOK' /\ MmeJobsOK' /\ S6aTypeOK'
             /\ S11TypeOK' /\ \A m \in s11_req' : m.type = "create" => m.imsi \in UE
  <2> DEFINE m    == Head(s1ap_up[u])
             guti == GetGuti(m.id)
             ctx  == MmeCtx(guti)
             kNas == KNasMme(ctx.k_asme)
  <2>1. m \in UpMsg /\ s1ap_up' \in [UE -> Seq(UpMsg)] /\ m.id \in Nat
    BY <1>2, ReceiveType DEF HandleAutn, UpMsg
  <2>2. S6aTypeOK' /\ S11TypeOK' /\ \A n \in s11_req' : n.type = "create" => n.imsi \in UE
    BY <1>2 DEF HandleAutn, s6aVars, s11Vars, S6aTypeOK, S11TypeOK
  <2>3. CASE guti = Nil
    BY <1>2, <2>1, <2>2, <2>3, MmeExitType DEF HandleAutn, connVars, SctpTypeOK
  <2>4. CASE guti # Nil /\ m.res = ctx.xres
    <3>1. ctx \in MmeContext /\ kNas \in Nat /\ guti \in UE
      BY <2>4, <1>ctx, <1>guti, KeyFacts DEF MmeContext
    <3>2. [ctx EXCEPT !.k_nas = kNas] \in MmeContext
      BY <3>1 DEF MmeContext
    <3>3. [Dn("security_command", m.id) EXCEPT !.mac = TRUE] \in DnMsg
      BY <2>1 DEF Dn, DnMsg, DnType
    <3>4. s1ap_dn' \in [UE -> Seq(DnMsg)]
      BY <1>2, <2>4, <3>3, SendDnType DEF HandleAutn
    <3>5. mme_ctx' \in [UE -> MmeContext \cup {Nil}]
      BY <1>2, <2>4, <3>2 DEF HandleAutn, MmeTypeOK
    <3>6. UNCHANGED <<ue_count, s1mme_id, mme_pc, mme_job, exited>> /\ UNCHANGED connVars
      BY <1>2, <2>4 DEF HandleAutn
    <3> QED
      BY <2>1, <2>2, <3>4, <3>5, <3>6 DEF connVars, SctpTypeOK, MmeTypeOK, MmeJobsOK
  <2>5. CASE guti # Nil /\ m.res # ctx.xres
    <3>1. mme_ctx' \in [UE -> MmeContext \cup {Nil}] /\ s1mme_id' \in [1 .. ue_count -> UE \cup {Nil}]
      BY <1>2, <2>5 DEF HandleAutn, MmeTypeOK
    <3> QED
      BY <1>2, <2>1, <2>2, <2>5, <3>1
         DEF HandleAutn, connVars, SctpTypeOK, MmeTypeOK, MmeJobsOK
  <2> QED
    BY <2>3, <2>4, <2>5
<1>3. ASSUME NEW u \in UE, HandleSecurityModeComplete(w, u)
      PROVE  exited' \in SUBSET Process /\ SctpTypeOK' /\ MmeTypeOK' /\ MmeJobsOK' /\ S6aTypeOK'
             /\ S11TypeOK' /\ \A m \in s11_req' : m.type = "create" => m.imsi \in UE
  <2> DEFINE m    == Head(s1ap_up[u])
             guti == GetGuti(m.id)
             teid == S11CteidMme(guti)
             ctx  == [MmeCtx(guti) EXCEPT !.s11_cteid_mme = teid]
             req  == [w |-> w, type |-> "create", teid |-> 0, mme |-> teid, imsi |-> guti, dl |-> 0]
             job  == [conn |-> u, id |-> m.id, guti |-> guti]
  <2>1. s1ap_up' \in [UE -> Seq(UpMsg)]
    BY <1>3, ReceiveType DEF HandleSecurityModeComplete
  <2>2. SctpTypeOK' /\ S6aTypeOK' /\ s11_rsp' = s11_rsp
    BY <1>3, <2>1 DEF HandleSecurityModeComplete, connVars, s6aVars, SctpTypeOK, S6aTypeOK
  <2>3. CASE ~Checked(m)
    BY <1>3, <2>2, <2>3, MmeExitType DEF HandleSecurityModeComplete, S11TypeOK
  <2>4. CASE Checked(m)
    <3>1. guti \in UE /\ m.id \in 1 .. ue_count /\ teid \in Teid
      BY <2>4, <1>guti DEF Checked
    <3>2. ctx \in MmeContext
      BY <3>1, <1>ctx DEF MmeContext
    <3>3. req \in S11Req /\ s11_req' = s11_req \cup {req} /\ req.imsi \in UE
      BY <1>3, <2>4, <3>1 DEF HandleSecurityModeComplete, S11Req, SessionType
    <3>4. job \in MmeJob /\ Block(w, "create", job) /\ "create" \in MmePc
      BY <1>3, <2>4, <3>1, <1>cnt DEF HandleSecurityModeComplete, MmeJob, MmePc
    <3>5. mme_ctx' = [mme_ctx EXCEPT ![guti] = ctx] /\ UNCHANGED <<ue_count, s1mme_id, exited>>
      BY <1>3, <2>4 DEF HandleSecurityModeComplete
    <3>6. mme_pc' \in [Worker -> MmePc] /\ mme_job' \in [Worker -> MmeJob] /\ MmeJobsOK'
      BY <3>1, <3>4, <3>5, <1>cnt, BlockType
    <3> HIDE DEF ctx, req
    <3> QED
      BY <2>2, <3>2, <3>3, <3>5, <3>6 DEF MmeTypeOK, S11TypeOK
  <2> QED
    BY <2>3, <2>4
<1>4. ASSUME NEW u \in UE, HandleAttachComplete(w, u)
      PROVE  exited' \in SUBSET Process /\ SctpTypeOK' /\ MmeTypeOK' /\ MmeJobsOK' /\ S6aTypeOK'
             /\ S11TypeOK' /\ \A m \in s11_req' : m.type = "create" => m.imsi \in UE
  <2> DEFINE m    == Head(s1ap_up[u])
             guti == GetGuti(m.id)
             ctx  == [MmeCtx(guti) EXCEPT !.s1_uteid_dl = m.teid, !.emm_state = 1]
             req  == [w |-> w, type |-> "modify", teid |-> ctx.s11_cteid_sgw, mme |-> 0,
                      imsi |-> Nil, dl |-> ctx.s1_uteid_dl]
             job  == [conn |-> u, id |-> m.id, guti |-> guti]
  <2>1. s1ap_up' \in [UE -> Seq(UpMsg)] /\ m.teid \in Teid
    BY <1>4, ReceiveType DEF HandleAttachComplete, UpMsg
  <2>2. SctpTypeOK' /\ S6aTypeOK' /\ s11_rsp' = s11_rsp
    BY <1>4, <2>1 DEF HandleAttachComplete, connVars, s6aVars, SctpTypeOK, S6aTypeOK
  <2>3. CASE ~Checked(m)
    BY <1>4, <2>2, <2>3, MmeExitType DEF HandleAttachComplete, S11TypeOK
  <2>4. CASE Checked(m)
    <3>1. guti \in UE /\ m.id \in 1 .. ue_count
      BY <2>4, <1>guti DEF Checked
    <3>2. ctx \in MmeContext
      BY <2>1, <3>1, <1>ctx, ZenonT(40) DEF MmeContext
    <3>3. ctx.s11_cteid_sgw \in Teid /\ ctx.s1_uteid_dl \in Teid
      BY <3>2 DEF MmeContext
    <3>4. req \in S11Req /\ s11_req' = s11_req \cup {req} /\ req.type # "create"
      BY <1>4, <2>4, <3>3 DEF HandleAttachComplete, S11Req, SessionType
    <3>5. job \in MmeJob /\ Block(w, "modify", job) /\ "modify" \in MmePc
      BY <1>4, <2>4, <3>1, <1>cnt DEF HandleAttachComplete, MmeJob, MmePc
    <3>6. mme_ctx' = [mme_ctx EXCEPT ![guti] = ctx] /\ UNCHANGED <<ue_count, s1mme_id, exited>>
      BY <1>4, <2>4 DEF HandleAttachComplete
    <3>7. mme_pc' \in [Worker -> MmePc] /\ mme_job' \in [Worker -> MmeJob] /\ MmeJobsOK'
      BY <3>1, <3>5, <3>6, <1>cnt, BlockType
    <3> HIDE DEF ctx, req
    <3> QED
      BY <2>2, <3>2, <3>4, <3>6, <3>7 DEF MmeTypeOK, S11TypeOK
  <2> QED
    BY <2>3, <2>4
<1>5. ASSUME NEW u \in UE, HandleDetach(w, u)
      PROVE  exited' \in SUBSET Process /\ SctpTypeOK' /\ MmeTypeOK' /\ MmeJobsOK' /\ S6aTypeOK'
             /\ S11TypeOK' /\ \A m \in s11_req' : m.type = "create" => m.imsi \in UE
  <2> DEFINE m    == Head(s1ap_up[u])
             guti == GetGuti(m.id)
             ctx  == MmeCtx(guti)
             req  == [w |-> w, type |-> "detach", teid |-> ctx.s11_cteid_sgw, mme |-> 0,
                      imsi |-> Nil, dl |-> 0]
             job  == [conn |-> u, id |-> m.id, guti |-> guti]
  <2>1. s1ap_up' \in [UE -> Seq(UpMsg)]
    BY <1>5, ReceiveType DEF HandleDetach
  <2>2. SctpTypeOK' /\ S6aTypeOK' /\ s11_rsp' = s11_rsp
    BY <1>5, <2>1 DEF HandleDetach, connVars, s6aVars, SctpTypeOK, S6aTypeOK
  <2>3. CASE ~Checked(m)
    BY <1>5, <2>2, <2>3, MmeExitType DEF HandleDetach, S11TypeOK
  <2>4. CASE Checked(m)
    <3>1. guti \in UE /\ m.id \in 1 .. ue_count
      BY <2>4, <1>guti DEF Checked
    <3>2. ctx \in MmeContext
      BY <3>1, <1>ctx
    <3>3. ctx.s11_cteid_sgw \in Teid
      BY <3>2 DEF MmeContext
    <3>4. req \in S11Req /\ s11_req' = s11_req \cup {req} /\ req.type # "create"
      BY <1>5, <2>4, <3>3 DEF HandleDetach, S11Req, SessionType
    <3>5. job \in MmeJob /\ Block(w, "detach", job) /\ "detach" \in MmePc
      BY <1>5, <2>4, <3>1, <1>cnt DEF HandleDetach, MmeJob, MmePc
    <3>6. mme_ctx' = [mme_ctx EXCEPT ![guti] = ctx] /\ UNCHANGED <<ue_count, s1mme_id, exited>>
      BY <1>5, <2>4 DEF HandleDetach
    <3>7. mme_pc' \in [Worker -> MmePc] /\ mme_job' \in [Worker -> MmeJob] /\ MmeJobsOK'
      BY <3>1, <3>5, <3>6, <1>cnt, BlockType
    <3> HIDE DEF ctx, req
    <3> QED
      BY <2>2, <3>2, <3>4, <3>6, <3>7 DEF MmeTypeOK, S11TypeOK
  <2> QED
    BY <2>3, <2>4
<1>6. ASSUME NEW u \in UE, ConnectionClosed(w, u)
      PROVE  exited' \in SUBSET Process /\ SctpTypeOK' /\ MmeTypeOK' /\ MmeJobsOK' /\ S6aTypeOK'
             /\ S11TypeOK' /\ \A m \in s11_req' : m.type = "create" => m.imsi \in UE
  <2>1. SctpTypeOK'
    BY <1>6 DEF ConnectionClosed, DropConnection, s1apVars, SctpTypeOK
  <2> QED
    BY <1>6, <2>1 DEF ConnectionClosed, mmeVars, s6aVars, s11Vars, MmeTypeOK, MmeJobsOK,
                      S6aTypeOK, S11TypeOK
<1>7. CASE AutnInfoAnswer(w)
  <2> DEFINE job == mme_job[w]
  <2>1. PICK m \in s6a_rsp : m.w = w /\ s6a_rsp' = s6a_rsp \ {m}
            /\ mme_ctx' = [mme_ctx EXCEPT ![job.guti] =
                  [MmeCtx(job.guti) EXCEPT !.xres = m.xres, !.k_asme = m.k_asme]]
            /\ SendDn(job.conn, [Dn("autn_request", job.id) EXCEPT !.autn = m.autn, !.rand = m.rand])
    BY <1>7 DEF AutnInfoAnswer
  <2>2. job.conn \in UE /\ job.guti \in UE /\ job.id \in Nat
    BY <1>7, <1>busy, <1>job DEF AutnInfoAnswer, MmeJob
  <2>3. m.xres \in Nat /\ m.k_asme \in Nat /\ m.autn \in Nat /\ m.rand \in Nat
    BY DEF S6aTypeOK, S6aRsp
  <2>4. [MmeCtx(job.guti) EXCEPT !.xres = m.xres, !.k_asme = m.k_asme] \in MmeContext
    BY <2>2, <2>3, <1>ctx DEF MmeContext
  <2>5. [Dn("autn_request", job.id) EXCEPT !.autn = m.autn, !.rand = m.rand] \in DnMsg
    BY <2>2, <2>3 DEF Dn, DnMsg, DnType
  <2>6. s1ap_dn' \in [UE -> Seq(DnMsg)]
    BY <2>1, <2>2, <2>5, SendDnType
  <2>7. Block(w, "idle", NoMmeJob) /\ ue_count' = ue_count
    BY <1>7 DEF AutnInfoAnswer, Unblock
  <2>8. mme_pc' \in [Worker -> MmePc] /\ mme_job' \in [Worker -> MmeJob] /\ MmeJobsOK'
    BY <2>7, <1>idle, <1>nojob, <1>cnt, BlockType
  <2>9. mme_ctx' \in [UE -> MmeContext \cup {Nil}]
    BY <2>1, <2>4 DEF MmeTypeOK
  <2> HIDE DEF job
  <2>10. S6aTypeOK' /\ S11TypeOK' /\ \A n \in s11_req' : n.type = "create" => n.imsi \in UE
    BY <1>7, <2>1 DEF AutnInfoAnswer, s11Vars, S6aTypeOK, S11TypeOK
  <2> QED
    BY <1>7, <2>6, <2>8, <2>9, <2>10 DEF AutnInfoAnswer, connVars, SctpTypeOK, MmeTypeOK
<1>8. CASE CreateSessionAnswer(w)
  <2> DEFINE job == mme_job[w]
             ctx == MmeCtx(job.guti)
  <2>1. PICK m \in s11_rsp : RcvS11(w, "create", m)
            /\ mme_ctx' = [mme_ctx EXCEPT ![job.guti] =
                  [ctx EXCEPT !.s11_cteid_sgw = m.s11, !.s1_uteid_ul = m.ul, !.ip_addr = m.ip]]
            /\ SendDn(job.conn, [Dn("attach_accept", job.id) EXCEPT
                                    !.mac = TRUE, !.teid = m.ul, !.ip = m.ip])
    BY <1>8 DEF CreateSessionAnswer
  <2>2. job.conn \in UE /\ job.guti \in UE /\ job.id \in Nat /\ ctx \in MmeContext
    BY <2>1, <1>busy, <1>job, <1>ctx DEF RcvS11, MmeJob
  <2>3. m.s11 \in Teid /\ m.ul \in Teid /\ m.ip \in Ip
    BY DEF S11TypeOK, S11Rsp
  <2>4. [ctx EXCEPT !.s11_cteid_sgw = m.s11, !.s1_uteid_ul = m.ul, !.ip_addr = m.ip] \in MmeContext
    BY <2>2, <2>3 DEF MmeContext
  <2>6. [Dn("attach_accept", job.id) EXCEPT !.mac = TRUE, !.teid = m.ul, !.ip = m.ip] \in DnMsg
    BY <2>2, <2>3 DEF Dn, DnMsg, DnType
  <2>7. s1ap_dn' \in [UE -> Seq(DnMsg)]
    BY <2>1, <2>2, <2>6, SendDnType
  <2>8. Block(w, "idle", NoMmeJob) /\ ue_count' = ue_count
    BY <1>8 DEF CreateSessionAnswer, Unblock
  <2>9. mme_pc' \in [Worker -> MmePc] /\ mme_job' \in [Worker -> MmeJob] /\ MmeJobsOK'
    BY <2>8, <1>idle, <1>nojob, <1>cnt, BlockType
  <2>10. mme_ctx' \in [UE -> MmeContext \cup {Nil}]
    BY <2>1, <2>4 DEF MmeTypeOK
  <2> QED
    BY <1>8, <2>1, <2>7, <2>9, <2>10
       DEF CreateSessionAnswer, RcvS11, connVars, s6aVars, SctpTypeOK, MmeTypeOK, S6aTypeOK,
           S11TypeOK
<1>9. CASE ModifyBearerAnswer(w)
  <2> DEFINE guti == mme_job[w].guti
  <2>1. PICK m \in s11_rsp : RcvS11(w, "modify", m)
    BY <1>9 DEF ModifyBearerAnswer
  <2>2. guti \in UE /\ [MmeCtx(guti) EXCEPT !.ecm_state = 1] \in MmeContext
    BY <2>1, <1>busy, <1>ctx DEF RcvS11, MmeContext
  <2>3. mme_ctx' \in [UE -> MmeContext \cup {Nil}]
    BY <1>9, <2>2 DEF ModifyBearerAnswer, MmeTypeOK
  <2>4. Block(w, "idle", NoMmeJob) /\ ue_count' = ue_count
    BY <1>9 DEF ModifyBearerAnswer, Unblock
  <2>5. mme_pc' \in [Worker -> MmePc] /\ mme_job' \in [Worker -> MmeJob] /\ MmeJobsOK'
    BY <2>4, <1>idle, <1>nojob, <1>cnt, BlockType
  <2> QED
    BY <1>9, <2>1, <2>3, <2>5
       DEF ModifyBearerAnswer, RcvS11, connVars, s1apVars, s6aVars, SctpTypeOK, MmeTypeOK,
           S6aTypeOK, S11TypeOK
<1>10. CASE DetachAnswer(w)
  <2> DEFINE job == mme_job[w]
  <2>1. PICK m \in s11_rsp : RcvS11(w, "detach", m)
    BY <1>10 DEF DetachAnswer
  <2>2. job.conn \in UE /\ job.id \in Nat
    BY <2>1, <1>busy, <1>job DEF RcvS11, MmeJob
  <2>3. [Dn("detach_complete", job.id) EXCEPT !.mac = TRUE] \in DnMsg
    BY <2>2 DEF Dn, DnMsg, DnType
  <2>4. s1ap_dn' \in [UE -> Seq(DnMsg)]
    BY <1>10, <2>2, <2>3, SendDnType DEF DetachAnswer
  <2>5. MmeTypeOK' /\ MmeJobsOK'
    BY <1>10, <2>1, <1>busy DEF DetachAnswer, RcvS11, MmeTypeOK, MmeJobsOK, MmePc
  <2> QED
    BY <1>10, <2>1, <2>4, <2>5
       DEF DetachAnswer, RcvS11, connVars, s6aVars, SctpTypeOK, S6aTypeOK, S11TypeOK
<1>11. CASE RemItfid(w)
  <2>1. MmeTypeOK' /\ MmeJobsOK'
    BY <1>11, <1>busy DEF RemItfid, MmeTypeOK, MmeJobsOK, MmePc
  <2> QED
    BY <1>11, <2>1 DEF RemItfid, connVars, s1apVars, s6aVars, s11Vars, SctpTypeOK, S6aTypeOK,
                       S11TypeOK
<1>12. CASE RemUectx(w)
  <2>1. Block(w, "idle", NoMmeJob) /\ ue_count' = ue_count
    BY <1>12 DEF RemUectx, Unblock
  <2>2. mme_pc' \in [Worker -> MmePc] /\ mme_job' \in [Worker -> MmeJob] /\ MmeJobsOK'
    BY <2>1, <1>idle, <1>nojob, <1>cnt, BlockType
  <2>3. MmeTypeOK'
    BY <1>12, <2>2 DEF RemUectx, MmeTypeOK
  <2> QED
    BY <1>12, <2>2, <2>3 DEF RemUectx, connVars, s1apVars, s6aVars, s11Vars, SctpTypeOK,
                            S6aTypeOK, S11TypeOK
<1> QED
    BY <1>1, <1>2, <1>3, <1>4, <1>5, <1>6, <1>7, <1>8, <1>9, <1>10, <1>11, <1>12 DEF MmeStep

-----------------------------------------------------------------------------
(* The theorem.                                                            *)

\* Every step of the control plane preserves the invariant.
LEMMA NextType == TypeInv /\ [Next]_vars => TypeInv'
<1> SUFFICES ASSUME TypeInv, [Next]_vars PROVE TypeInv'
    OBVIOUS
<1>1. ASSUME NEW u \in UE, RanNext(u) PROVE TypeInv'
    BY <1>1, RanFrame, RanStepType DEF RanNext, TypeInv, TypeOK
<1>2. CASE AcceptNext
    BY <1>2, AcceptType
<1>3. ASSUME NEW w \in Worker, MmeNext(w) PROVE TypeInv'
    BY <1>3, MmeFrame, MmeStepType DEF MmeNext, TypeInv, TypeOK, CreatesOK
<1>4. ASSUME NEW w \in Worker, HssNext(w) PROVE TypeInv'
    BY <1>4, HssType
<1>5. ASSUME NEW t \in S11Threads, SgwNext(t) PROVE TypeInv'
    BY <1>5, SgwFrame, SgwStepType DEF SgwNext, TypeInv, TypeOK
<1>6. ASSUME NEW p \in PgwThreads, PgwNext(p) PROVE TypeInv'
  <2>1. \A m \in s11_req' : m.type = "create" => m.imsi \in UE
    BY <1>6 DEF PgwNext, s11Vars, TypeInv, CreatesOK
  <2> QED
    BY <1>6, <2>1, PgwFrame, PgwStepType DEF PgwNext, TypeInv, TypeOK, CreatesOK
<1>7. CASE UNCHANGED vars
  <2>1. SctpTypeOK' /\ RanTypeOK' /\ MmeTypeOK' /\ MmeJobsOK' /\ exited' \in SUBSET Process
    BY <1>7 DEF vars, s1apVars, connVars, ranVars, mmeVars, TypeInv, TypeOK, SctpTypeOK,
                RanTypeOK, MmeTypeOK, MmeJobsOK
  <2>2. S6aTypeOK' /\ S11TypeOK' /\ S5TypeOK' /\ CreatesOK'
    BY <1>7 DEF vars, s6aVars, s11Vars, s5Vars, TypeInv, TypeOK, S6aTypeOK, S11TypeOK,
                S5TypeOK, CreatesOK
  <2>3. SgwTypeOK' /\ SgwJobsOK' /\ PgwTypeOK' /\ PgwJobsOK'
    BY <1>7 DEF vars, sgwVars, pgwVars, TypeInv, TypeOK, SgwTypeOK, SgwJobsOK, PgwTypeOK, PgwJobsOK
  <2> QED
    BY <2>1, <2>2, <2>3 DEF TypeInv, TypeOK
<1> QED
    BY <1>1, <1>2, <1>3, <1>4, <1>5, <1>6, <1>7 DEF Next, Terminating

\* Every reachable state satisfies the strengthened invariant.
THEOREM TypeInvariance == Spec => []TypeInv
<1> QED
    BY InitType, NextType, PTL DEF Spec

\* Every variable of the control plane keeps its type: each identifier that
\* the code stores is a tunnel, an address or a subscriber of the system.
THEOREM TypeCorrect == Spec => []TypeOK
<1>1. TypeInv => TypeOK
    BY DEF TypeInv
<1> QED
    BY <1>1, TypeInvariance, PTL

-----------------------------------------------------------------------------
(* Calls.                                                                  *)

\* Types and calls together.
CallInv == TypeInv /\ OneCall

\* The initial state has no call under way.
LEMMA InitCalls == Init => OneCall
<1> SUFFICES ASSUME Init PROVE OneCall
    OBVIOUS
<1>1. S6aCalls
    BY DEF Init, S6aInit, S6aCalls, S6aAwaited, S6aSingle
<1>2. \A t \in S11Threads : SgwOwes(sgw_pc[t]) = "none"
    BY DEF Init, SgwInit, SgwOwes
<1>3. \A p \in PgwThreads : PgwOwes(pgw_pc[p]) = "none"
    BY DEF Init, PgwInit, PgwOwes
<1>4. S11Calls /\ S5Calls
    BY <1>2, <1>3
       DEF Init, UdpInit, S11Calls, S11Awaited, S11Single, S5Calls, S5Awaited, S5Single
<1> QED
    BY <1>1, <1>4 DEF OneCall

-----------------------------------------------------------------------------
(* What a worker's step does to the calls to the HSS and to the SGW.       *)

\* Who the stages work for.
LEMMA Callers ==
    ASSUME TypeInv
    PROVE  /\ \A m \in s6a_req \cup s6a_rsp \cup s11_req \cup s11_rsp : m.w \in Worker
           /\ \A m \in s11_req \cup s11_rsp : m.type \in SessionType
           /\ \A m \in s5_req \cup s5_rsp : m.t \in S11Threads /\ m.type \in {"create", "detach"}
           /\ \A t \in S11Threads : SgwOwes(sgw_pc[t]) # "none" =>
                 sgw_job[t].src \in Worker /\ SgwOwes(sgw_pc[t]) \in SessionType
           /\ \A p \in PgwThreads : PgwOwes(pgw_pc[p]) # "none" =>
                 pgw_job[p].src \in S11Threads /\ PgwOwes(pgw_pc[p]) \in {"create", "detach"}
<1> USE DEF TypeInv, TypeOK
<1>1. \A m \in s6a_req \cup s6a_rsp : m.w \in Worker
    BY DEF S6aTypeOK, S6aReq, S6aRsp
<1>2. \A m \in s11_req \cup s11_rsp : m.w \in Worker /\ m.type \in SessionType
    BY DEF S11TypeOK, S11Req, S11Rsp
<1>3. \A m \in s5_req \cup s5_rsp : m.t \in S11Threads /\ m.type \in {"create", "detach"}
    BY DEF S5TypeOK, S5Req, S5Rsp
<1>4. ASSUME NEW t \in S11Threads, SgwOwes(sgw_pc[t]) # "none"
      PROVE  sgw_job[t].src \in Worker /\ SgwOwes(sgw_pc[t]) \in SessionType
  <2>1. sgw_pc[t] # "idle" /\ SgwOwes(sgw_pc[t]) \in SessionType
    BY <1>4 DEF SgwOwes, SessionType
  <2> QED
    BY <2>1 DEF SgwJobsOK
<1>5. ASSUME NEW p \in PgwThreads, PgwOwes(pgw_pc[p]) # "none"
      PROVE  pgw_job[p].src \in S11Threads /\ PgwOwes(pgw_pc[p]) \in {"create", "detach"}
  <2>1. pgw_pc[p] # "idle" /\ PgwOwes(pgw_pc[p]) \in {"create", "detach"}
    BY <1>5 DEF PgwOwes
  <2> QED
    BY <2>1 DEF PgwJobsOK
<1> QED
    BY <1>1, <1>2, <1>3, <1>4, <1>5

\* A worker at one of these waits for nobody's answer.
NoWait == MmePc \ {"autn_info", "create", "modify", "detach"}

\* A worker that waits for nobody and goes on elsewhere affects no call.
LEMMA MmeMoves ==
    ASSUME CallInv, NEW w \in Worker, mme_pc[w] \in NoWait, NEW pc,
           mme_pc' = [mme_pc EXCEPT ![w] = pc]
    PROVE  /\ \A m \in s6a_req \cup s6a_rsp \cup s11_req \cup s11_rsp :
                  m.w # w /\ mme_pc'[m.w] = mme_pc[m.w]
           /\ \A t \in S11Threads : SgwOwes(sgw_pc[t]) # "none" =>
                  sgw_job[t].src # w /\ mme_pc'[sgw_job[t].src] = mme_pc[sgw_job[t].src]
           /\ mme_pc'[w] = pc
<1> USE DEF CallInv, TypeInv, TypeOK, OneCall
<1>1. mme_pc[w] # "autn_info" /\ mme_pc[w] \notin SessionType
    BY DEF NoWait, SessionType
<1>2. mme_pc \in [Worker -> MmePc]
    BY DEF MmeTypeOK
<1>3. ASSUME NEW m \in s6a_req \cup s6a_rsp PROVE m.w \in Worker /\ m.w # w
    BY <1>1, Callers DEF S6aCalls, S6aAwaited
<1>4. ASSUME NEW m \in s11_req \cup s11_rsp PROVE m.w \in Worker /\ m.w # w
    BY <1>1, Callers DEF S11Calls, S11Awaited
<1>5. ASSUME NEW t \in S11Threads, SgwOwes(sgw_pc[t]) # "none"
      PROVE  sgw_job[t].src \in Worker /\ sgw_job[t].src # w
    BY <1>1, <1>5, Callers DEF S11Calls, S11Awaited
<1> QED
    BY <1>2, <1>3, <1>4, <1>5

\* ... in particular a step that sends nothing.
LEMMA MmeLocal ==
    ASSUME CallInv, NEW w \in Worker, mme_pc[w] \in NoWait, NEW pc,
           mme_pc' = [mme_pc EXCEPT ![w] = pc],
           UNCHANGED <<s6aVars, s11Vars, sgw_pc, sgw_job>>
    PROVE  S6aCalls' /\ S11Calls'
<1>1. /\ \A m \in s6a_req \cup s6a_rsp \cup s11_req \cup s11_rsp :
             m.w # w /\ mme_pc'[m.w] = mme_pc[m.w]
      /\ \A t \in S11Threads : SgwOwes(sgw_pc[t]) # "none" =>
             sgw_job[t].src # w /\ mme_pc'[sgw_job[t].src] = mme_pc[sgw_job[t].src]
      /\ mme_pc'[w] = pc
    BY MmeMoves, ZenonT(60)
<1>2. S6aCalls'
    BY <1>1 DEF CallInv, OneCall, S6aCalls, S6aAwaited, S6aSingle, s6aVars
<1>3. S11Calls'
    BY <1>1 DEF CallInv, OneCall, S11Calls, S11Awaited, S11Single, s11Vars
<1> QED
    BY <1>2, <1>3

\* A worker asks the HSS.
LEMMA MmeCallsHss ==
    ASSUME CallInv, NEW w \in Worker, mme_pc[w] \in NoWait,
           mme_pc' = [mme_pc EXCEPT ![w] = "autn_info"],
           NEW r, r.w = w, s6a_req' = s6a_req \cup {r},
           UNCHANGED <<s6a_rsp, s11Vars, sgw_pc, sgw_job>>
    PROVE  S6aCalls' /\ S11Calls'
<1>1. /\ \A m \in s6a_req \cup s6a_rsp \cup s11_req \cup s11_rsp :
             m.w # w /\ mme_pc'[m.w] = mme_pc[m.w]
      /\ \A t \in S11Threads : SgwOwes(sgw_pc[t]) # "none" =>
             sgw_job[t].src # w /\ mme_pc'[sgw_job[t].src] = mme_pc[sgw_job[t].src]
      /\ mme_pc'[w] = "autn_info"
    BY MmeMoves, ZenonT(60)
<1>2. S6aAwaited'
    BY <1>1 DEF CallInv, OneCall, S6aCalls, S6aAwaited
<1>3. S6aSingle'
    BY <1>1 DEF CallInv, OneCall, S6aCalls, S6aSingle
<1>4. S11Calls'
    BY <1>1 DEF CallInv, OneCall, S11Calls, S11Awaited, S11Single, s11Vars
<1> QED
    BY <1>2, <1>3, <1>4 DEF S6aCalls

\* A worker asks the SGW.
LEMMA MmeCallsSgw ==
    ASSUME CallInv, NEW w \in Worker, mme_pc[w] \in NoWait,
           NEW r, r.w = w, mme_pc' = [mme_pc EXCEPT ![w] = r.type],
           s11_req' = s11_req \cup {r},
           UNCHANGED <<s6aVars, s11_rsp, sgw_pc, sgw_job>>
    PROVE  S6aCalls' /\ S11Calls'
<1>1. /\ \A m \in s6a_req \cup s6a_rsp \cup s11_req \cup s11_rsp :
             m.w # w /\ mme_pc'[m.w] = mme_pc[m.w]
      /\ \A t \in S11Threads : SgwOwes(sgw_pc[t]) # "none" =>
             sgw_job[t].src # w /\ mme_pc'[sgw_job[t].src] = mme_pc[sgw_job[t].src]
      /\ mme_pc'[w] = r.type
    BY MmeMoves, ZenonT(60)
<1>2. S6aCalls'
    BY <1>1 DEF CallInv, OneCall, S6aCalls, S6aAwaited, S6aSingle, s6aVars
<1>3. S11Awaited'
    BY <1>1 DEF CallInv, OneCall, S11Calls, S11Awaited
<1>4. S11Single'
    BY <1>1 DEF CallInv, OneCall, S11Calls, S11Single
<1> QED
    BY <1>2, <1>3, <1>4 DEF S11Calls

\* A worker takes the answer of the HSS.
LEMMA HssReturns ==
    ASSUME CallInv, NEW w \in Worker, NEW m \in s6a_rsp, m.w = w, NEW pc,
           mme_pc' = [mme_pc EXCEPT ![w] = pc], s6a_rsp' = s6a_rsp \ {m},
           UNCHANGED <<s6a_req, s11Vars, sgw_pc, sgw_job>>
    PROVE  S6aCalls' /\ S11Calls'
<1> USE DEF CallInv, TypeInv, TypeOK, OneCall
<1>1. mme_pc \in [Worker -> MmePc] /\ mme_pc[w] = "autn_info"
    BY DEF MmeTypeOK, S6aCalls, S6aAwaited
<1>2. \A v \in Worker : v # w => mme_pc'[v] = mme_pc[v]
    BY <1>1
<1>3. \A n \in s6a_req \cup s6a_rsp' : n.w # w /\ n.w \in Worker
    BY Callers DEF S6aCalls, S6aSingle
<1>4. S6aCalls'
    BY <1>2, <1>3 DEF S6aCalls, S6aAwaited, S6aSingle
<1>5. \A n \in s11_req \cup s11_rsp : n.w # w /\ n.w \in Worker
    BY <1>1, Callers DEF S11Calls, S11Awaited, SessionType
<1>6. \A t \in S11Threads : SgwOwes(sgw_pc[t]) # "none" =>
          sgw_job[t].src # w /\ sgw_job[t].src \in Worker
    BY <1>1, Callers DEF S11Calls, S11Awaited, SessionType
<1>7. S11Calls'
    BY <1>2, <1>5, <1>6 DEF S11Calls, S11Awaited, S11Single, s11Vars
<1> QED
    BY <1>4, <1>7

\* A worker takes the answer of the SGW.
LEMMA SgwReturns ==
    ASSUME CallInv, NEW w \in Worker, NEW m \in s11_rsp, m.w = w, NEW pc,
           mme_pc' = [mme_pc EXCEPT ![w] = pc], s11_rsp' = s11_rsp \ {m},
           UNCHANGED <<s6aVars, s11_req, sgw_pc, sgw_job>>
    PROVE  S6aCalls' /\ S11Calls'
<1> USE DEF CallInv, TypeInv, TypeOK, OneCall
<1>1. mme_pc \in [Worker -> MmePc] /\ mme_pc[w] \in SessionType
    BY Callers DEF MmeTypeOK, S11Calls, S11Awaited
<1>2. \A v \in Worker : v # w => mme_pc'[v] = mme_pc[v]
    BY <1>1
<1>3. \A n \in s6a_req \cup s6a_rsp : n.w # w /\ n.w \in Worker
    BY <1>1, Callers DEF S6aCalls, S6aAwaited, SessionType
<1>4. S6aCalls'
    BY <1>2, <1>3 DEF S6aCalls, S6aAwaited, S6aSingle, s6aVars
<1>5. \A n \in s11_req \cup s11_rsp' : n.w # w /\ n.w \in Worker
    BY Callers DEF S11Calls, S11Single
<1>6. \A t \in S11Threads : SgwOwes(sgw_pc[t]) # "none" =>
          sgw_job[t].src # w /\ sgw_job[t].src \in Worker
    BY Callers DEF S11Calls, S11Single
<1>7. S11Calls'
    BY <1>2, <1>5, <1>6 DEF S11Calls, S11Awaited, S11Single
<1> QED
    BY <1>4, <1>7

-----------------------------------------------------------------------------
(* What a server thread's step does to the calls it serves.                *)

\* A thread takes a request and owes its answer.
LEMMA SgwTakes ==
    ASSUME S11Calls, NEW t \in S11Threads, SgwOwes(sgw_pc[t]) = "none", NEW m \in s11_req,
           \A s \in S11Threads \ {t} : sgw_pc'[s] = sgw_pc[s] /\ sgw_job'[s].src = sgw_job[s].src,
           SgwOwes(sgw_pc'[t]) = m.type, sgw_job'[t].src = m.w,
           s11_req' = s11_req \ {m}, UNCHANGED <<s11_rsp, mme_pc>>
    PROVE  S11Calls'
<1>1. S11Awaited'
    BY DEF S11Calls, S11Awaited
<1>2. S11Single'
    BY DEF S11Calls, S11Single
<1> QED
    BY <1>1, <1>2 DEF S11Calls

\* A thread goes on with the same debt, or with none.
LEMMA SgwKeeps ==
    ASSUME S11Calls, NEW t \in S11Threads,
           \A s \in S11Threads \ {t} : sgw_pc'[s] = sgw_pc[s] /\ sgw_job'[s].src = sgw_job[s].src,
           SgwOwes(sgw_pc'[t]) = SgwOwes(sgw_pc[t]),
           SgwOwes(sgw_pc[t]) # "none" => sgw_job'[t].src = sgw_job[t].src,
           UNCHANGED <<s11_req, s11_rsp, mme_pc>>
    PROVE  S11Calls'
<1>1. S11Awaited'
    BY DEF S11Calls, S11Awaited
<1>2. S11Single'
    BY DEF S11Calls, S11Single
<1> QED
    BY <1>1, <1>2 DEF S11Calls

\* A thread answers its caller.
LEMMA SgwAnswers ==
    ASSUME S11Calls, NEW t \in S11Threads, SgwOwes(sgw_pc[t]) # "none",
           \A s \in S11Threads \ {t} : sgw_pc'[s] = sgw_pc[s] /\ sgw_job'[s].src = sgw_job[s].src,
           SgwOwes(sgw_pc'[t]) = "none",
           NEW r, r.w = sgw_job[t].src, r.type = SgwOwes(sgw_pc[t]),
           s11_rsp' = s11_rsp \cup {r}, UNCHANGED <<s11_req, mme_pc>>
    PROVE  S11Calls'
<1>1. S11Awaited'
    BY DEF S11Calls, S11Awaited
<1>2. S11Single'
    BY DEF S11Calls, S11Single
<1> QED
    BY <1>1, <1>2 DEF S11Calls

\* A thread takes a request and the process exits.
LEMMA SgwDrops ==
    ASSUME S11Calls, NEW m \in s11_req, s11_req' = s11_req \ {m},
           UNCHANGED <<s11_rsp, mme_pc, sgw_pc, sgw_job>>
    PROVE  S11Calls'
BY DEF S11Calls, S11Awaited, S11Single

\* A thread takes a request and owes its answer.
LEMMA PgwTakes ==
    ASSUME S5Calls, NEW p \in PgwThreads, PgwOwes(pgw_pc[p]) = "none", NEW m \in s5_req,
           \A s \in PgwThreads \ {p} : pgw_pc'[s] = pgw_pc[s] /\ pgw_job'[s].src = pgw_job[s].src,
           PgwOwes(pgw_pc'[p]) = m.type, pgw_job'[p].src = m.t,
           s5_req' = s5_req \ {m}, UNCHANGED <<s5_rsp, sgw_pc>>
    PROVE  S5Calls'
<1>1. S5Awaited'
    BY DEF S5Calls, S5Awaited
<1>2. S5Single'
    BY DEF S5Calls, S5Single
<1> QED
    BY <1>1, <1>2 DEF S5Calls

\* A thread goes on with the same debt, or with none.
LEMMA PgwKeeps ==
    ASSUME S5Calls, NEW p \in PgwThreads,
           \A s \in PgwThreads \ {p} : pgw_pc'[s] = pgw_pc[s] /\ pgw_job'[s].src = pgw_job[s].src,
           PgwOwes(pgw_pc'[p]) = PgwOwes(pgw_pc[p]),
           PgwOwes(pgw_pc[p]) # "none" => pgw_job'[p].src = pgw_job[p].src,
           UNCHANGED <<s5_req, s5_rsp, sgw_pc>>
    PROVE  S5Calls'
<1>1. S5Awaited'
    BY DEF S5Calls, S5Awaited
<1>2. S5Single'
    BY DEF S5Calls, S5Single
<1> QED
    BY <1>1, <1>2 DEF S5Calls

\* A thread answers its caller.
LEMMA PgwAnswers ==
    ASSUME S5Calls, NEW p \in PgwThreads, PgwOwes(pgw_pc[p]) # "none",
           \A s \in PgwThreads \ {p} : pgw_pc'[s] = pgw_pc[s] /\ pgw_job'[s].src = pgw_job[s].src,
           PgwOwes(pgw_pc'[p]) = "none",
           NEW r, r.t = pgw_job[p].src, r.type = PgwOwes(pgw_pc[p]),
           s5_rsp' = s5_rsp \cup {r}, UNCHANGED <<s5_req, sgw_pc>>
    PROVE  S5Calls'
<1>1. S5Awaited'
    BY DEF S5Calls, S5Awaited
<1>2. S5Single'
    BY DEF S5Calls, S5Single
<1> QED
    BY <1>1, <1>2 DEF S5Calls

\* A thread takes a request and the process exits.
LEMMA PgwDrops ==
    ASSUME S5Calls, NEW m \in s5_req, s5_req' = s5_req \ {m},
           UNCHANGED <<s5_rsp, sgw_pc, pgw_pc, pgw_job>>
    PROVE  S5Calls'
BY DEF S5Calls, S5Awaited, S5Single

-----------------------------------------------------------------------------
(* What an SGW thread's step does to its own calls to the PGW.             *)

\* An SGW thread that does not wait for the PGW goes on.
LEMMA SgwMoves ==
    ASSUME TypeInv, S5Calls, NEW t \in S11Threads, sgw_pc[t] \notin {"create", "detach"},
           \A s \in S11Threads \ {t} : sgw_pc'[s] = sgw_pc[s]
    PROVE  /\ \A m \in s5_req \cup s5_rsp : m.t # t /\ sgw_pc'[m.t] = sgw_pc[m.t]
           /\ \A p \in PgwThreads : PgwOwes(pgw_pc[p]) # "none" =>
                  pgw_job[p].src # t /\ sgw_pc'[pgw_job[p].src] = sgw_pc[pgw_job[p].src]
<1>1. ASSUME NEW m \in s5_req \cup s5_rsp PROVE m.t \in S11Threads /\ m.t # t
    BY Callers DEF S5Calls, S5Awaited
<1>2. ASSUME NEW p \in PgwThreads, PgwOwes(pgw_pc[p]) # "none"
      PROVE  pgw_job[p].src \in S11Threads /\ pgw_job[p].src # t
    BY <1>2, Callers DEF S5Calls, S5Awaited
<1> QED
    BY <1>1, <1>2

\* ... without sending anything.
LEMMA SgwLocal ==
    ASSUME TypeInv, S5Calls, NEW t \in S11Threads, sgw_pc[t] \notin {"create", "detach"},
           \A s \in S11Threads \ {t} : sgw_pc'[s] = sgw_pc[s],
           UNCHANGED <<s5_req, s5_rsp, pgw_pc, pgw_job>>
    PROVE  S5Calls'
BY SgwMoves DEF S5Calls, S5Awaited, S5Single

\* An SGW thread asks the PGW.
LEMMA SgwCallsPgw ==
    ASSUME TypeInv, S5Calls, NEW t \in S11Threads, sgw_pc[t] \notin {"create", "detach"},
           \A s \in S11Threads \ {t} : sgw_pc'[s] = sgw_pc[s],
           NEW r, r.t = t, sgw_pc'[t] = r.type, s5_req' = s5_req \cup {r},
           UNCHANGED <<s5_rsp, pgw_pc, pgw_job>>
    PROVE  S5Calls'
<1>1. S5Awaited'
    BY SgwMoves DEF S5Calls, S5Awaited
<1>2. S5Single'
    BY SgwMoves DEF S5Calls, S5Single
<1> QED
    BY <1>1, <1>2 DEF S5Calls

\* An SGW thread takes the answer of the PGW.
LEMMA PgwReturns ==
    ASSUME TypeInv, S5Calls, NEW t \in S11Threads, NEW m \in s5_rsp, m.t = t,
           \A s \in S11Threads \ {t} : sgw_pc'[s] = sgw_pc[s],
           s5_rsp' = s5_rsp \ {m}, UNCHANGED <<s5_req, pgw_pc, pgw_job>>
    PROVE  S5Calls'
<1>1. \A n \in s5_req \cup s5_rsp' : n.t # t /\ sgw_pc'[n.t] = sgw_pc[n.t]
    BY Callers DEF S5Calls, S5Single
<1>2. \A p \in PgwThreads : PgwOwes(pgw_pc[p]) # "none" =>
          pgw_job[p].src # t /\ sgw_pc'[pgw_job[p].src] = sgw_pc[pgw_job[p].src]
    BY Callers DEF S5Calls, S5Single
<1> QED
    BY <1>1, <1>2 DEF S5Calls, S5Awaited, S5Single

-----------------------------------------------------------------------------
(* The actions of the program.                                             *)

\* A worker's step: handlers ask, answers are taken, the rest is local.
LEMMA MmeCalls ==
    ASSUME CallInv, NEW w \in Worker, MmeNext(w)
    PROVE  OneCall'
<1> USE DEF CallInv, TypeInv, TypeOK, NoWait
<1>pc. "idle" \in NoWait /\ "rem_itfid" \in NoWait /\ "rem_uectx" \in NoWait
    BY DEF MmePc
<1>frame. UNCHANGED <<s5Vars, sgw_pc, sgw_job, pgw_pc, pgw_job>>
    BY DEF MmeNext, sgwVars, pgwVars
<1>s5. S5Calls'
    BY <1>frame DEF OneCall, S5Calls, S5Awaited, S5Single, s5Vars
<1> SUFFICES S6aCalls' /\ S11Calls'
    BY <1>s5 DEF OneCall
<1>same. mme_pc' = mme_pc /\ mme_pc[w] = "idle" => mme_pc' = [mme_pc EXCEPT ![w] = "idle"]
    BY DEF MmeTypeOK
<1>1. ASSUME NEW u \in UE, HandleInitialAttach(w, u) PROVE S6aCalls' /\ S11Calls'
  <2>1. mme_pc[w] = "idle" /\ mme_pc' = [mme_pc EXCEPT ![w] = "autn_info"]
        /\ s6a_req' = s6a_req \cup {[w |-> w, imsi |-> u]} /\ UNCHANGED <<s6a_rsp, s11Vars>>
    BY <1>1 DEF HandleInitialAttach, Receive, Block
  <2> QED
    BY <2>1, <1>pc, <1>frame, MmeCallsHss
<1>2. ASSUME NEW u \in UE, HandleAutn(w, u) PROVE S6aCalls' /\ S11Calls'
  <2>1. mme_pc[w] = "idle" /\ mme_pc' = mme_pc
    BY <1>2 DEF HandleAutn, Receive, MmeExit, mmeVars
  <2>2. UNCHANGED <<s6aVars, s11Vars>>
    BY <1>2 DEF HandleAutn
  <2> QED
    BY <2>1, <2>2, <1>same, <1>pc, <1>frame, MmeLocal
<1>3. ASSUME NEW u \in UE, HandleSecurityModeComplete(w, u) PROVE S6aCalls' /\ S11Calls'
  <2> DEFINE m    == Head(s1ap_up[u])
             guti == GetGuti(m.id)
             req  == [w |-> w, type |-> "create", teid |-> 0, mme |-> S11CteidMme(guti),
                      imsi |-> guti, dl |-> 0]
  <2>1. mme_pc[w] = "idle" /\ UNCHANGED <<s6aVars, s11_rsp>>
    BY <1>3 DEF HandleSecurityModeComplete, Receive
  <2>2. CASE ~Checked(m)
    <3>1. mme_pc' = mme_pc /\ s11_req' = s11_req
      BY <1>3, <2>2 DEF HandleSecurityModeComplete, MmeExit, mmeVars
    <3> QED
      BY <2>1, <3>1, <1>same, <1>pc, <1>frame, MmeLocal DEF s11Vars
  <2>3. CASE Checked(m)
    <3>1. mme_pc' = [mme_pc EXCEPT ![w] = "create"] /\ s11_req' = s11_req \cup {req}
      BY <1>3, <2>3 DEF HandleSecurityModeComplete, Block
    <3>2. req.w = w /\ req.type = "create"
      OBVIOUS
    <3> HIDE DEF req
    <3> QED
      BY <2>1, <3>1, <3>2, <1>pc, <1>frame, MmeCallsSgw
  <2> QED
    BY <2>2, <2>3
<1>4. ASSUME NEW u \in UE, HandleAttachComplete(w, u) PROVE S6aCalls' /\ S11Calls'
  <2> DEFINE m   == Head(s1ap_up[u])
             ctx == [MmeCtx(GetGuti(m.id)) EXCEPT !.s1_uteid_dl = m.teid, !.emm_state = 1]
             req == [w |-> w, type |-> "modify", teid |-> ctx.s11_cteid_sgw, mme |-> 0,
                     imsi |-> Nil, dl |-> ctx.s1_uteid_dl]
  <2>1. mme_pc[w] = "idle" /\ UNCHANGED <<s6aVars, s11_rsp>>
    BY <1>4 DEF HandleAttachComplete, Receive
  <2>2. CASE ~Checked(m)
    <3>1. mme_pc' = mme_pc /\ s11_req' = s11_req
      BY <1>4, <2>2 DEF HandleAttachComplete, MmeExit, mmeVars
    <3> QED
      BY <2>1, <3>1, <1>same, <1>pc, <1>frame, MmeLocal DEF s11Vars
  <2>3. CASE Checked(m)
    <3>1. mme_pc' = [mme_pc EXCEPT ![w] = "modify"] /\ s11_req' = s11_req \cup {req}
      BY <1>4, <2>3 DEF HandleAttachComplete, Block
    <3>2. req.w = w /\ req.type = "modify"
      OBVIOUS
    <3> HIDE DEF req
    <3> QED
      BY <2>1, <3>1, <3>2, <1>pc, <1>frame, MmeCallsSgw
  <2> QED
    BY <2>2, <2>3
<1>5. ASSUME NEW u \in UE, HandleDetach(w, u) PROVE S6aCalls' /\ S11Calls'
  <2> DEFINE m   == Head(s1ap_up[u])
             ctx == MmeCtx(GetGuti(m.id))
             req == [w |-> w, type |-> "detach", teid |-> ctx.s11_cteid_sgw, mme |-> 0,
                     imsi |-> Nil, dl |-> 0]
  <2>1. mme_pc[w] = "idle" /\ UNCHANGED <<s6aVars, s11_rsp>>
    BY <1>5 DEF HandleDetach, Receive
  <2>2. CASE ~Checked(m)
    <3>1. mme_pc' = mme_pc /\ s11_req' = s11_req
      BY <1>5, <2>2 DEF HandleDetach, MmeExit, mmeVars
    <3> QED
      BY <2>1, <3>1, <1>same, <1>pc, <1>frame, MmeLocal DEF s11Vars
  <2>3. CASE Checked(m)
    <3>1. mme_pc' = [mme_pc EXCEPT ![w] = "detach"] /\ s11_req' = s11_req \cup {req}
      BY <1>5, <2>3 DEF HandleDetach, Block
    <3>2. req.w = w /\ req.type = "detach"
      OBVIOUS
    <3> HIDE DEF req
    <3> QED
      BY <2>1, <3>1, <3>2, <1>pc, <1>frame, MmeCallsSgw
  <2> QED
    BY <2>2, <2>3
<1>6. ASSUME NEW u \in UE, ConnectionClosed(w, u) PROVE S6aCalls' /\ S11Calls'
  <2>1. mme_pc[w] = "idle" /\ mme_pc' = mme_pc /\ UNCHANGED <<s6aVars, s11Vars>>
    BY <1>6 DEF ConnectionClosed, mmeVars
  <2> QED
    BY <2>1, <1>same, <1>pc, <1>frame, MmeLocal
<1>7. CASE AutnInfoAnswer(w)
  <2>1. PICK m \in s6a_rsp : m.w = w /\ s6a_rsp' = s6a_rsp \ {m}
    BY <1>7 DEF AutnInfoAnswer
  <2>2. mme_pc' = [mme_pc EXCEPT ![w] = "idle"] /\ UNCHANGED <<s6a_req, s11Vars>>
    BY <1>7 DEF AutnInfoAnswer, Unblock, Block
  <2> QED
    BY <2>1, <2>2, <1>frame, HssReturns
<1>8. CASE CreateSessionAnswer(w)
  <2>1. PICK m \in s11_rsp : m.w = w /\ s11_rsp' = s11_rsp \ {m}
    BY <1>8 DEF CreateSessionAnswer, RcvS11
  <2>2. mme_pc' = [mme_pc EXCEPT ![w] = "idle"] /\ UNCHANGED <<s6aVars, s11_req>>
    BY <1>8 DEF CreateSessionAnswer, Unblock, Block
  <2> QED
    BY <2>1, <2>2, <1>frame, SgwReturns
<1>9. CASE ModifyBearerAnswer(w)
  <2>1. PICK m \in s11_rsp : m.w = w /\ s11_rsp' = s11_rsp \ {m}
    BY <1>9 DEF ModifyBearerAnswer, RcvS11
  <2>2. mme_pc' = [mme_pc EXCEPT ![w] = "idle"] /\ UNCHANGED <<s6aVars, s11_req>>
    BY <1>9 DEF ModifyBearerAnswer, Unblock, Block
  <2> QED
    BY <2>1, <2>2, <1>frame, SgwReturns
<1>10. CASE DetachAnswer(w)
  <2>1. PICK m \in s11_rsp : m.w = w /\ s11_rsp' = s11_rsp \ {m}
    BY <1>10 DEF DetachAnswer, RcvS11
  <2>2. mme_pc' = [mme_pc EXCEPT ![w] = "rem_itfid"] /\ UNCHANGED <<s6aVars, s11_req>>
    BY <1>10 DEF DetachAnswer
  <2> QED
    BY <2>1, <2>2, <1>frame, SgwReturns
<1>11. CASE RemItfid(w)
  <2>1. mme_pc[w] = "rem_itfid" /\ mme_pc' = [mme_pc EXCEPT ![w] = "rem_uectx"]
        /\ UNCHANGED <<s6aVars, s11Vars>>
    BY <1>11 DEF RemItfid
  <2> QED
    BY <2>1, <1>pc, <1>frame, MmeLocal
<1>12. CASE RemUectx(w)
  <2>1. mme_pc[w] = "rem_uectx" /\ mme_pc' = [mme_pc EXCEPT ![w] = "idle"]
        /\ UNCHANGED <<s6aVars, s11Vars>>
    BY <1>12 DEF RemUectx, Unblock, Block
  <2> QED
    BY <2>1, <1>pc, <1>frame, MmeLocal
<1> QED
    BY <1>1, <1>2, <1>3, <1>4, <1>5, <1>6, <1>7, <1>8, <1>9, <1>10, <1>11, <1>12
       DEF MmeNext, MmeStep

\* The HSS turns a request into the answer of the same worker.
LEMMA HssCalls ==
    ASSUME CallInv, NEW w \in Worker, HssNext(w)
    PROVE  OneCall'
<1>1. PICK m \in s6a_req : m.w = w /\ s6a_req' = s6a_req \ {m}
                           /\ s6a_rsp' = s6a_rsp \cup {AutnInfo(w, m.imsi)}
    BY DEF HssNext, HandleAutninfoReq
<1>2. AutnInfo(w, m.imsi).w = w
    BY DEF AutnInfo
<1>3. UNCHANGED <<mme_pc, s11Vars, s5Vars, sgw_pc, sgw_job, pgw_pc, pgw_job>>
    BY DEF HssNext, mmeVars, sgwVars, pgwVars
<1>4. S6aCalls'
  <2> DEFINE r == AutnInfo(w, m.imsi)
  <2> HIDE DEF r
  <2>1. r.w = w /\ s6a_rsp' = s6a_rsp \cup {r}
    BY <1>1, <1>2 DEF r
  <2>2. S6aAwaited'
    BY <1>1, <1>3, <2>1 DEF CallInv, OneCall, S6aCalls, S6aAwaited
  <2>3. S6aSingle'
    BY <1>1, <2>1 DEF CallInv, OneCall, S6aCalls, S6aSingle
  <2> QED
    BY <2>2, <2>3 DEF S6aCalls
<1>5. S11Calls' /\ S5Calls'
    BY <1>3 DEF CallInv, OneCall, S11Calls, S11Awaited, S11Single, S5Calls, S5Awaited, S5Single,
                s11Vars, s5Vars
<1> QED
    BY <1>4, <1>5 DEF OneCall

\* A PGW thread's step: it takes a request, works, answers, cleans up.
LEMMA PgwCalls ==
    ASSUME CallInv, NEW p \in PgwThreads, PgwNext(p)
    PROVE  OneCall'
<1> USE DEF CallInv, TypeInv, TypeOK, PgwAt, PgwGoto
<1>frame. UNCHANGED <<mme_pc, s6aVars, s11Vars, sgw_pc, sgw_job>>
    BY DEF PgwNext, mmeVars, sgwVars
<1>typ. pgw_pc \in [PgwThreads -> PgwPc] /\ pgw_job \in [PgwThreads -> PgwJob]
    BY DEF PgwTypeOK
<1> SUFFICES S5Calls'
  BY <1>frame DEF OneCall, S6aCalls, S6aAwaited, S6aSingle, S11Calls, S11Awaited, S11Single,
                  s6aVars, s11Vars
<1>s5. S5Calls
    BY DEF OneCall
<1>1. CASE PgwCreateSession(p)
  <2>1. PICK m \in s5_req : PgwReceive(p, "create", m)
            /\ pgw_job' = [pgw_job EXCEPT ![p] = [src |-> m.t, imsi |-> m.imsi, teid |-> m.teid,
                                                  ip |-> IpAddr(m.imsi)]]
    BY <1>1 DEF PgwCreateSession
  <2>2. pgw_pc[p] = "idle" /\ m.type = "create" /\ s5_req' = s5_req \ {m}
        /\ pgw_pc' = [pgw_pc EXCEPT ![p] = "update_s5"] /\ s5_rsp' = s5_rsp
    BY <1>1, <2>1 DEF PgwCreateSession, PgwReceive
  <2>3. PgwOwes(pgw_pc[p]) = "none" /\ PgwOwes(pgw_pc'[p]) = m.type /\ pgw_job'[p].src = m.t
        /\ \A s \in PgwThreads \ {p} : pgw_pc'[s] = pgw_pc[s] /\ pgw_job'[s].src = pgw_job[s].src
    BY <2>1, <2>2, <1>typ DEF PgwOwes
  <2> QED
    BY <2>2, <2>3, <1>s5, <1>frame, PgwTakes
<1>2. CASE PgwUpdateS5Id(p) \/ PgwUpdateSgiId(p) \/ PgwRemS5Id(p) \/ PgwRemSgiId(p)
           \/ PgwRemUectx(p)
  <2>1. PgwOwes(pgw_pc'[p]) = PgwOwes(pgw_pc[p])
        /\ \A s \in PgwThreads \ {p} : pgw_pc'[s] = pgw_pc[s]
    BY <1>2, <1>typ
       DEF PgwOwes, PgwUpdateS5Id, PgwUpdateSgiId, PgwRemS5Id, PgwRemSgiId, PgwRemUectx
  <2>2. PgwOwes(pgw_pc[p]) # "none" => pgw_job'[p].src = pgw_job[p].src
    BY <1>2 DEF PgwOwes, PgwUpdateS5Id, PgwUpdateSgiId, PgwRemS5Id, PgwRemSgiId, PgwRemUectx
  <2>3. \A s \in PgwThreads \ {p} : pgw_job'[s].src = pgw_job[s].src
    BY <1>2, <1>typ DEF PgwUpdateS5Id, PgwUpdateSgiId, PgwRemS5Id, PgwRemSgiId, PgwRemUectx
  <2>4. UNCHANGED <<s5_req, s5_rsp>>
    BY <1>2 DEF PgwUpdateS5Id, PgwUpdateSgiId, PgwRemS5Id, PgwRemSgiId, PgwRemUectx, s5Vars
  <2> QED
    BY <2>1, <2>2, <2>3, <2>4, <1>s5, <1>frame, PgwKeeps
<1>3. CASE PgwInitCtx(p)
  <2> DEFINE job == pgw_job[p]
             r   == [t |-> job.src, type |-> "create", teid |-> job.teid, ul |-> job.teid,
                     ip |-> job.ip]
  <2>1. pgw_pc[p] = "init_ctx" /\ pgw_pc' = [pgw_pc EXCEPT ![p] = "idle"]
        /\ pgw_job' = [pgw_job EXCEPT ![p] = NoPgwJob] /\ s5_req' = s5_req
        /\ s5_rsp' = s5_rsp \cup {r}
    BY <1>3 DEF PgwInitCtx, PgwReply
  <2>2. PgwOwes(pgw_pc[p]) = "create" /\ PgwOwes(pgw_pc'[p]) = "none"
        /\ r.t = job.src /\ r.type = "create"
        /\ \A s \in PgwThreads \ {p} : pgw_pc'[s] = pgw_pc[s] /\ pgw_job'[s].src = pgw_job[s].src
    BY <2>1, <1>typ DEF PgwOwes
  <2> HIDE DEF r
  <2> QED
    BY <2>1, <2>2, <1>s5, <1>frame, PgwAnswers
<1>4. CASE PgwDetach(p)
  <2>1. PICK m \in s5_req : PgwReceive(p, "detach", m)
            /\ LET imsi == pgw_s5_id[m.teid]
               IN  IF imsi = Nil THEN Type1Error("pgw") /\ UNCHANGED pgwVars
                   ELSE /\ pgw_job' = [pgw_job EXCEPT ![p] =
                                          [NoPgwJob EXCEPT !.src = m.t, !.imsi = imsi]]
                        /\ PgwGoto(p, "detach_ctx")
                        /\ UNCHANGED <<pgw_s5_id, pgw_sgi_id, pgw_ctx, exited>>
    BY <1>4 DEF PgwDetach
  <2>2. pgw_pc[p] = "idle" /\ m.type = "detach" /\ s5_req' = s5_req \ {m} /\ s5_rsp' = s5_rsp
    BY <1>4, <2>1 DEF PgwDetach, PgwReceive
  <2>3. CASE pgw_s5_id[m.teid] = Nil
    <3>1. UNCHANGED <<pgw_pc, pgw_job>>
      BY <2>1, <2>3 DEF pgwVars
    <3> QED
      BY <2>2, <3>1, <1>s5, <1>frame, PgwDrops
  <2>4. CASE pgw_s5_id[m.teid] # Nil
    <3> DEFINE job == [NoPgwJob EXCEPT !.src = m.t, !.imsi = pgw_s5_id[m.teid]]
    <3>1. job.src = m.t
      BY DEF NoPgwJob
    <3>2. pgw_job' = [pgw_job EXCEPT ![p] = job]
          /\ pgw_pc' = [pgw_pc EXCEPT ![p] = "detach_ctx"]
      BY <2>1, <2>4
    <3> HIDE DEF job
    <3>3. PgwOwes(pgw_pc[p]) = "none" /\ PgwOwes(pgw_pc'[p]) = m.type /\ pgw_job'[p].src = m.t
          /\ \A s \in PgwThreads \ {p} : pgw_pc'[s] = pgw_pc[s] /\ pgw_job'[s].src = pgw_job[s].src
      BY <2>2, <3>1, <3>2, <1>typ DEF PgwOwes
    <3> QED
      BY <2>2, <3>3, <1>s5, <1>frame, PgwTakes
  <2> QED
    BY <2>3, <2>4
<1>5. CASE PgwDetachCtx(p)
  <2> DEFINE job == pgw_job[p]
             ctx == PgwCtx(job.imsi)
             new == [job EXCEPT !.teid = ctx.s5_cteid_ul, !.ip = ctx.ip_addr]
             r   == [t |-> job.src, type |-> "detach", teid |-> ctx.s5_cteid_dl, ul |-> 0,
                     ip |-> NoIp]
  <2>1. pgw_pc[p] = "detach_ctx" /\ pgw_pc' = [pgw_pc EXCEPT ![p] = "rem_s5"]
        /\ pgw_job' = [pgw_job EXCEPT ![p] = new] /\ s5_req' = s5_req
        /\ s5_rsp' = s5_rsp \cup {r}
    BY <1>5 DEF PgwDetachCtx, PgwReply
  <2>2. r.t = job.src /\ r.type = "detach"
    OBVIOUS
  <2> HIDE DEF r, new
  <2>3. PgwOwes(pgw_pc[p]) = "detach" /\ PgwOwes(pgw_pc'[p]) = "none"
        /\ \A s \in PgwThreads \ {p} : pgw_pc'[s] = pgw_pc[s] /\ pgw_job'[s].src = pgw_job[s].src
    BY <2>1, <1>typ DEF PgwOwes
  <2> QED
    BY <2>1, <2>2, <2>3, <1>s5, <1>frame, PgwAnswers
<1> QED
    BY <1>1, <1>2, <1>3, <1>4, <1>5 DEF PgwNext, PgwStep

\* An SGW thread's step: it serves the MME and calls the PGW meanwhile.
LEMMA SgwCalls ==
    ASSUME CallInv, NEW t \in S11Threads, SgwNext(t)
    PROVE  OneCall'
<1> USE DEF CallInv, TypeInv, TypeOK, SgwAt, SgwGoto
<1> DEFINE Others == \A s \in S11Threads \ {t} :
                         sgw_pc'[s] = sgw_pc[s] /\ sgw_job'[s].src = sgw_job[s].src
<1>frame. UNCHANGED <<mme_pc, s6aVars, pgw_pc, pgw_job>>
    BY DEF SgwNext, mmeVars, pgwVars
<1>typ. sgw_pc \in [S11Threads -> SgwPc] /\ sgw_job \in [S11Threads -> SgwJob]
    BY DEF SgwTypeOK
<1> SUFFICES S11Calls' /\ S5Calls'
    BY <1>frame DEF OneCall, S6aCalls, S6aAwaited, S6aSingle, s6aVars
<1>inv. S11Calls /\ S5Calls
    BY DEF OneCall
<1>1. CASE SgwCreateSession(t)
  <2>1. PICK m \in s11_req : SgwReceive(t, "create", m)
            /\ sgw_job' = [sgw_job EXCEPT ![t] =
                  [src |-> m.w, imsi |-> m.imsi, cteid |-> m.mme, dl |-> 0,
                   teid |-> [i \in Itf |-> m.mme]]]
    BY <1>1 DEF SgwCreateSession
  <2>2. sgw_pc[t] = "idle" /\ m.type = "create" /\ s11_req' = s11_req \ {m}
        /\ sgw_pc' = [sgw_pc EXCEPT ![t] = "update_itfid"] /\ UNCHANGED <<s11_rsp, s5_req, s5_rsp>>
    BY <1>1, <2>1 DEF SgwCreateSession, SgwReceive, s5Vars
  <2>3. SgwOwes(sgw_pc[t]) = "none" /\ SgwOwes(sgw_pc'[t]) = m.type /\ sgw_job'[t].src = m.w
        /\ Others
    BY <2>1, <2>2, <1>typ DEF SgwOwes
  <2>4. S11Calls'
    BY <2>2, <2>3, <1>inv, <1>frame, SgwTakes
  <2>5. S5Calls'
    BY <2>2, <2>3, <1>inv, <1>frame, SgwLocal
  <2> QED
    BY <2>4, <2>5
<1>2. CASE SgwUpdateItfid(t) \/ SgwRemItfid(t) \/ SgwRemUectx(t)
  <2>1. sgw_pc[t] \in {"update_itfid", "rem_itfid", "rem_uectx"}
        /\ UNCHANGED <<s11_req, s11_rsp, s5_req, s5_rsp>>
    BY <1>2 DEF SgwUpdateItfid, SgwRemItfid, SgwRemUectx, s11Vars, s5Vars
  <2>2. SgwOwes(sgw_pc'[t]) = SgwOwes(sgw_pc[t])
        /\ \A s \in S11Threads \ {t} : sgw_pc'[s] = sgw_pc[s]
    BY <1>2, <1>typ DEF SgwOwes, SgwUpdateItfid, SgwRemItfid, SgwRemUectx, NextItf
  <2>3. SgwOwes(sgw_pc[t]) # "none" => sgw_job'[t].src = sgw_job[t].src
    BY <1>2 DEF SgwOwes, SgwUpdateItfid, SgwRemItfid, SgwRemUectx
  <2>4. Others
    BY <1>2, <2>2, <1>typ DEF SgwUpdateItfid, SgwRemItfid, SgwRemUectx
  <2>5. S11Calls'
    BY <2>1, <2>2, <2>3, <2>4, <1>inv, <1>frame, SgwKeeps
  <2>6. S5Calls'
    BY <2>1, <2>4, <1>inv, <1>frame, SgwLocal
  <2> QED
    BY <2>5, <2>6
<1>3. CASE SgwInitCtx(t)
  <2> DEFINE r == [t |-> t, type |-> "create", teid |-> sgw_job[t].teid[5],
                   imsi |-> sgw_job[t].imsi]
  <2>1. sgw_pc[t] = "init_ctx" /\ sgw_pc' = [sgw_pc EXCEPT ![t] = "create"]
        /\ UNCHANGED <<sgw_job, s11_req, s11_rsp, s5_rsp>> /\ s5_req' = s5_req \cup {r}
    BY <1>3 DEF SgwInitCtx, s11Vars
  <2>2. r.t = t /\ r.type = "create"
    OBVIOUS
  <2> HIDE DEF r
  <2>3. SgwOwes(sgw_pc'[t]) = SgwOwes(sgw_pc[t]) /\ sgw_pc'[t] = r.type /\ Others
    BY <2>1, <2>2, <1>typ DEF SgwOwes
  <2>4. S11Calls'
    BY <2>1, <2>3, <1>inv, <1>frame, SgwKeeps
  <2>5. S5Calls'
    BY <2>1, <2>2, <2>3, <1>inv, <1>frame, SgwCallsPgw
  <2> QED
    BY <2>4, <2>5
<1>4. CASE SgwCreateSessionAnswer(t)
  <2> DEFINE job == sgw_job[t]
  <2>1. PICK m \in s5_rsp : RcvS5(t, "create", m)
            /\ Reply(job.src, "create", job.cteid, job.teid[11], job.teid[1], m.ip)
    BY <1>4 DEF SgwCreateSessionAnswer
  <2> DEFINE r == [w |-> job.src, type |-> "create", teid |-> job.cteid, s11 |-> job.teid[11],
                   ul |-> job.teid[1], ip |-> m.ip]
  <2>2. sgw_pc[t] = "create" /\ m.t = t /\ s5_rsp' = s5_rsp \ {m} /\ s11_rsp' = s11_rsp \cup {r}
    BY <2>1 DEF RcvS5, Reply
  <2>3. sgw_pc' = [sgw_pc EXCEPT ![t] = "idle"] /\ sgw_job' = [sgw_job EXCEPT ![t] = NoSgwJob]
        /\ UNCHANGED <<s11_req, s5_req>>
    BY <1>4 DEF SgwCreateSessionAnswer
  <2>4. r.w = job.src /\ r.type = "create"
    OBVIOUS
  <2> HIDE DEF r
  <2>5. SgwOwes(sgw_pc[t]) = "create" /\ SgwOwes(sgw_pc'[t]) = "none" /\ Others
    BY <2>2, <2>3, <1>typ DEF SgwOwes
  <2>6. S11Calls'
    BY <2>2, <2>3, <2>4, <2>5, <1>inv, <1>frame, SgwAnswers
  <2>7. S5Calls'
    BY <2>2, <2>3, <2>5, <1>inv, <1>frame, PgwReturns
  <2> QED
    BY <2>6, <2>7
<1>5. CASE SgwModifyBearer(t)
  <2>1. PICK m \in s11_req : SgwReceive(t, "modify", m)
            /\ IF SgwImsi(11, m.teid) = Nil THEN SgwExit
               ELSE /\ sgw_job' = [sgw_job EXCEPT ![t] =
                          [NoSgwJob EXCEPT !.src = m.w, !.imsi = SgwImsi(11, m.teid), !.dl = m.dl]]
                    /\ SgwGoto(t, "modify_ctx")
                    /\ UNCHANGED <<sgw_id, sgw_ctx, sgw_itf, exited>>
    BY <1>5 DEF SgwModifyBearer
  <2>2. sgw_pc[t] = "idle" /\ m.type = "modify" /\ s11_req' = s11_req \ {m}
        /\ UNCHANGED <<s11_rsp, s5_req, s5_rsp>>
    BY <1>5, <2>1 DEF SgwModifyBearer, SgwReceive, s5Vars
  <2>3. CASE SgwImsi(11, m.teid) = Nil
    <3>1. UNCHANGED <<sgw_pc, sgw_job>>
      BY <2>1, <2>3 DEF SgwExit, sgwVars
    <3> QED
      BY <2>2, <3>1, <1>inv, <1>frame, SgwDrops, SgwLocal
  <2>4. CASE SgwImsi(11, m.teid) # Nil
    <3> DEFINE job == [NoSgwJob EXCEPT !.src = m.w, !.imsi = SgwImsi(11, m.teid), !.dl = m.dl]
    <3>1. job.src = m.w
      BY DEF NoSgwJob
    <3>2. sgw_job' = [sgw_job EXCEPT ![t] = job] /\ sgw_pc' = [sgw_pc EXCEPT ![t] = "modify_ctx"]
      BY <2>1, <2>4
    <3> HIDE DEF job
    <3>3. SgwOwes(sgw_pc[t]) = "none" /\ SgwOwes(sgw_pc'[t]) = m.type /\ sgw_job'[t].src = m.w
          /\ Others
      BY <2>2, <3>1, <3>2, <1>typ DEF SgwOwes
    <3>4. S11Calls'
      BY <2>2, <3>3, <1>inv, <1>frame, SgwTakes
    <3>5. S5Calls'
      BY <2>2, <3>3, <1>inv, <1>frame, SgwLocal
    <3> QED
      BY <3>4, <3>5
  <2> QED
    BY <2>3, <2>4
<1>6. CASE SgwModifyCtx(t)
  <2> DEFINE job == sgw_job[t]
             r   == [w |-> job.src, type |-> "modify", teid |-> SgwCtx(job.imsi).s11_cteid_mme,
                     s11 |-> 0, ul |-> 0, ip |-> NoIp]
  <2>1. sgw_pc[t] = "modify_ctx" /\ sgw_pc' = [sgw_pc EXCEPT ![t] = "idle"]
        /\ sgw_job' = [sgw_job EXCEPT ![t] = NoSgwJob] /\ s11_rsp' = s11_rsp \cup {r}
        /\ UNCHANGED <<s11_req, s5_req, s5_rsp>>
    BY <1>6 DEF SgwModifyCtx, Reply, s5Vars
  <2>2. r.w = job.src /\ r.type = "modify"
    OBVIOUS
  <2> HIDE DEF r
  <2>3. SgwOwes(sgw_pc[t]) = "modify" /\ SgwOwes(sgw_pc'[t]) = "none" /\ Others
    BY <2>1, <1>typ DEF SgwOwes
  <2>4. S11Calls'
    BY <2>1, <2>2, <2>3, <1>inv, <1>frame, SgwAnswers
  <2>5. S5Calls'
    BY <2>1, <2>3, <1>inv, <1>frame, SgwLocal
  <2> QED
    BY <2>4, <2>5
<1>7. CASE SgwDetach(t)
  <2>1. PICK m \in s11_req : SgwReceive(t, "detach", m)
            /\ IF SgwImsi(11, m.teid) = Nil THEN SgwExit
               ELSE /\ sgw_job' = [sgw_job EXCEPT ![t] =
                          [NoSgwJob EXCEPT !.src = m.w, !.imsi = SgwImsi(11, m.teid)]]
                    /\ SgwGoto(t, "detach_ctx")
                    /\ UNCHANGED <<sgw_id, sgw_ctx, sgw_itf, exited>>
    BY <1>7 DEF SgwDetach
  <2>2. sgw_pc[t] = "idle" /\ m.type = "detach" /\ s11_req' = s11_req \ {m}
        /\ UNCHANGED <<s11_rsp, s5_req, s5_rsp>>
    BY <1>7, <2>1 DEF SgwDetach, SgwReceive, s5Vars
  <2>3. CASE SgwImsi(11, m.teid) = Nil
    <3>1. UNCHANGED <<sgw_pc, sgw_job>>
      BY <2>1, <2>3 DEF SgwExit, sgwVars
    <3> QED
      BY <2>2, <3>1, <1>inv, <1>frame, SgwDrops, SgwLocal
  <2>4. CASE SgwImsi(11, m.teid) # Nil
    <3> DEFINE job == [NoSgwJob EXCEPT !.src = m.w, !.imsi = SgwImsi(11, m.teid)]
    <3>1. job.src = m.w
      BY DEF NoSgwJob
    <3>2. sgw_job' = [sgw_job EXCEPT ![t] = job] /\ sgw_pc' = [sgw_pc EXCEPT ![t] = "detach_ctx"]
      BY <2>1, <2>4
    <3> HIDE DEF job
    <3>3. SgwOwes(sgw_pc[t]) = "none" /\ SgwOwes(sgw_pc'[t]) = m.type /\ sgw_job'[t].src = m.w
          /\ Others
      BY <2>2, <3>1, <3>2, <1>typ DEF SgwOwes
    <3>4. S11Calls'
      BY <2>2, <3>3, <1>inv, <1>frame, SgwTakes
    <3>5. S5Calls'
      BY <2>2, <3>3, <1>inv, <1>frame, SgwLocal
    <3> QED
      BY <3>4, <3>5
  <2> QED
    BY <2>3, <2>4
<1>8. CASE SgwDetachCtx(t)
  <2> DEFINE imsi == sgw_job[t].imsi
             ctx  == sgw_ctx[imsi]
             ids  == [i \in Itf |-> CASE i = 11 -> ctx.s11_cteid_sgw
                                      [] i = 1  -> ctx.s1_uteid_ul
                                      [] i = 5  -> ctx.s5_uteid_dl]
             r    == [t |-> t, type |-> "detach", teid |-> ctx.s5_cteid_ul, imsi |-> Nil]
  <2>1. sgw_pc[t] = "detach_ctx" /\ UNCHANGED <<s11_req, s11_rsp, s5_rsp>>
    BY <1>8 DEF SgwDetachCtx, s11Vars
  <2>2. CASE ctx = Nil \/ ~ SgwCtx(imsi).pgw
    <3>1. UNCHANGED <<sgw_pc, sgw_job, s5_req>>
      BY <1>8, <2>2 DEF SgwDetachCtx, SgwExit, sgwVars
    <3> QED
      BY <2>1, <3>1, <1>inv, <1>frame, SgwKeeps, SgwLocal
  <2>3. CASE ctx # Nil /\ SgwCtx(imsi).pgw
    <3>1. sgw_pc' = [sgw_pc EXCEPT ![t] = "detach"] /\ s5_req' = s5_req \cup {r}
          /\ sgw_job' = [sgw_job EXCEPT ![t].cteid = ctx.s11_cteid_mme, ![t].teid = ids]
      BY <1>8, <2>3 DEF SgwDetachCtx
    <3>2. r.t = t /\ r.type = "detach"
      OBVIOUS
    <3> HIDE DEF r, ids, ctx
    <3>3. sgw_job'[t].src = sgw_job[t].src /\ Others
      BY <3>1, <1>typ DEF SgwJob
    <3>4. SgwOwes(sgw_pc'[t]) = SgwOwes(sgw_pc[t]) /\ sgw_pc'[t] = r.type
      BY <2>1, <3>1, <3>2, <1>typ DEF SgwOwes
    <3>5. S11Calls'
      BY <2>1, <3>3, <3>4, <1>inv, <1>frame, SgwKeeps
    <3>6. S5Calls'
      BY <2>1, <3>1, <3>2, <3>3, <3>4, <1>inv, <1>frame, SgwCallsPgw
    <3> QED
      BY <3>5, <3>6
  <2> QED
    BY <2>2, <2>3
<1>9. CASE SgwDetachAnswer(t)
  <2> DEFINE job == sgw_job[t]
             r   == [w |-> job.src, type |-> "detach", teid |-> job.cteid, s11 |-> 0, ul |-> 0,
                     ip |-> NoIp]
  <2>1. PICK m \in s5_rsp : RcvS5(t, "detach", m)
    BY <1>9 DEF SgwDetachAnswer
  <2>2. sgw_pc[t] = "detach" /\ m.t = t /\ s5_rsp' = s5_rsp \ {m}
    BY <2>1 DEF RcvS5
  <2>3. sgw_pc' = [sgw_pc EXCEPT ![t] = "rem_itfid"] /\ s11_rsp' = s11_rsp \cup {r}
        /\ UNCHANGED <<sgw_job, s11_req, s5_req>>
    BY <1>9 DEF SgwDetachAnswer, Reply
  <2>4. r.w = job.src /\ r.type = "detach"
    OBVIOUS
  <2> HIDE DEF r
  <2>5. SgwOwes(sgw_pc[t]) = "detach" /\ SgwOwes(sgw_pc'[t]) = "none" /\ Others
    BY <2>2, <2>3, <1>typ DEF SgwOwes
  <2>6. S11Calls'
    BY <2>2, <2>3, <2>4, <2>5, <1>inv, <1>frame, SgwAnswers
  <2>7. S5Calls'
    BY <2>2, <2>3, <2>5, <1>inv, <1>frame, PgwReturns
  <2> QED
    BY <2>6, <2>7
<1> QED
    BY <1>1, <1>2, <1>3, <1>4, <1>5, <1>6, <1>7, <1>8, <1>9 DEF SgwNext, SgwStep

-----------------------------------------------------------------------------
(* The theorems.                                                           *)

\* Every step of the control plane keeps each call in one stage.
LEMMA NextCalls == CallInv /\ [Next]_vars => OneCall'
<1> SUFFICES ASSUME CallInv, [Next]_vars PROVE OneCall'
    OBVIOUS
<1> DEFINE callVars == <<mme_pc, s6aVars, s11Vars, s5Vars, sgw_pc, sgw_job, pgw_pc, pgw_job>>
<1>0. UNCHANGED callVars => OneCall'
    BY DEF CallInv, OneCall, S6aCalls, S6aAwaited, S6aSingle, S11Calls, S11Awaited, S11Single,
           S5Calls, S5Awaited, S5Single, s6aVars, s11Vars, s5Vars
<1>1. ASSUME NEW u \in UE, RanNext(u) PROVE UNCHANGED callVars
    BY <1>1 DEF RanNext, mmeVars, sgwVars, pgwVars
<1>2. AcceptNext => UNCHANGED callVars
    BY DEF AcceptNext, AcceptConnection, mmeVars, sgwVars, pgwVars
<1>3. UNCHANGED vars => UNCHANGED callVars
    BY DEF vars, mmeVars, sgwVars, pgwVars
<1> QED
    BY <1>0, <1>1, <1>2, <1>3, MmeCalls, HssCalls, SgwCalls, PgwCalls DEF Next, Terminating

\* Every blocking call is in one stage, and a server thread or a message works
\* only for a caller that is still waiting for it.
THEOREM OneCallInvariance == Spec => []OneCall
<1>1. Init => CallInv
    BY InitType, InitCalls DEF CallInv
<1>2. CallInv /\ [Next]_vars => CallInv'
    BY NextType, NextCalls DEF CallInv
<1>3. CallInv => OneCall
    BY DEF CallInv
<1> QED
    BY <1>1, <1>2, <1>3, PTL DEF Spec

\* A blocked worker or SGW thread only ever reads the answer to its own
\* request, whatever the number of threads that share the servers' sockets.
THEOREM AnswersMatched == Spec => []AnswersMatch
<1>1. OneCall => AnswersMatch
    BY DEF OneCall, S6aCalls, S6aAwaited, S11Calls, S11Awaited, S5Calls, S5Awaited, AnswersMatch
<1> QED
    BY <1>1, OneCallInvariance, PTL

-----------------------------------------------------------------------------
\* What one view can hold, as far as types go.
Views == [pc : RanPc, ran : RanContext, up : Seq(UpMsg), dn : Seq(DnMsg),
          at : [pc : MmePc, id : Nat], ctx : MmeContext \cup {Nil}, ids : SUBSET Nat]

-----------------------------------------------------------------------------
(* Queues.                                                                 *)

\* What sending to the end of a queue does,
LEMMA SendFacts ==
    ASSUME NEW S, NEW q \in Seq(S), NEW m \in S
    PROVE  LET r == Append(q, m)
           IN  /\ r \in Seq(S)
               /\ Len(r) = Len(q) + 1
               /\ r[Len(q) + 1] = m
               /\ \A i \in 1 .. Len(q) : r[i] = q[i]
OBVIOUS

\* and what taking from its front does.
LEMMA TakeFacts ==
    ASSUME NEW S, NEW q \in Seq(S), q # <<>>
    PROVE  /\ Tail(q) \in Seq(S)
           /\ Len(q) \in Nat \ {0}
           /\ Len(Tail(q)) = Len(q) - 1
           /\ \A i \in 1 .. Len(q) - 1 : Tail(q)[i] = q[i + 1]
           /\ Head(q) = q[1]
OBVIOUS

\* The emptiness the handlers test.
LEMMA NoneFact == ASSUME NEW S, NEW q \in Seq(S) PROVE q = <<>> <=> None(q)
BY DEF None

-----------------------------------------------------------------------------
(* Steps of a terminal, on its view.                                       *)

\* A terminal that sends its attach request steps from one legal view to another.
LEMMA AttachView ==
    ASSUME NEW u \in UE, NEW v \in Views, ViewOK(u, v), v.pc = "loop",
           NEW m \in UpMsg, m.type = "initial_attach",
           NEW n, n.pc = "authenticate", n.up = Append(v.up, m), n.dn = v.dn, n.at = v.at,
           n.ids = v.ids, n.ctx = v.ctx, n.ran = v.ran
    PROVE  ViewOK(u, n)
<1>1. v.up \in Seq(UpMsg) /\ None(v.up) /\ None(v.dn) /\ v.at.pc \in Cleaning
    BY DEF Views, ViewOK, Conversation
<1>2. Len(n.up) = 1 /\ n.up[1] = m
    BY <1>1, SendFacts DEF None
<1>3. Conversation(n)
    BY <1>1, <1>2 DEF Conversation, One
<1>4. IdsOK(n) /\ MacsOK(n)
    BY <1>1, <1>2 DEF IdsOK, MacsOK, ViewOK, Known, Left, None
<1>5. KeysOK(u, n)
    BY <1>1, <1>2 DEF KeysOK, ViewOK, None, Known
<1> QED
    BY <1>3, <1>4, <1>5 DEF ViewOK

\* So does a connection that reaches its worker,
LEMMA ConnectView ==
    ASSUME NEW u \in UE, NEW v \in Views, ViewOK(u, v), v.pc = "connect",
           NEW n, n.pc = "loop", n.up = v.up, n.dn = v.dn, n.at = v.at, n.ids = v.ids,
           n.ctx = v.ctx, n.ran = v.ran
    PROVE  ViewOK(u, n)
<1>1. None(v.up) /\ None(v.dn) /\ v.at.pc = "idle"
    BY DEF ViewOK, Conversation
<1>2. Conversation(n)
    BY <1>1 DEF Conversation, Cleaning
<1>3. IdsOK(n) /\ MacsOK(n)
    BY <1>1 DEF IdsOK, MacsOK, ViewOK, Known, Left, None
<1>4. KeysOK(u, n)
    BY <1>1 DEF KeysOK, ViewOK, None, Known
<1> QED
    BY <1>2, <1>3, <1>4 DEF ViewOK

\* and a terminal that leaves.
LEMMA LeaveView ==
    ASSUME NEW u \in UE, NEW v \in Views, ViewOK(u, v), v.pc = "loop",
           NEW n, n.pc = "done", n.up = v.up, n.dn = v.dn, n.at = v.at, n.ids = v.ids,
           n.ctx = v.ctx, n.ran = v.ran
    PROVE  ViewOK(u, n)
<1>1. None(v.up) /\ None(v.dn) /\ v.at.pc \in Cleaning
    BY DEF ViewOK, Conversation
<1>2. Conversation(n)
    BY <1>1 DEF Conversation
<1>3. IdsOK(n) /\ MacsOK(n)
    BY <1>1 DEF IdsOK, MacsOK, ViewOK, Known, Left, None
<1>4. KeysOK(u, n)
    BY <1>1 DEF KeysOK, ViewOK, None, Known
<1> QED
    BY <1>2, <1>3, <1>4 DEF ViewOK

\* The thread takes what it waits for.
LEMMA AnswerView ==
    ASSUME NEW u \in UE, NEW v \in Views, ViewOK(u, v), v.dn # <<>>
    PROVE  /\ None(v.up)
           /\ v.pc \in DOMAIN ExpectedType
           /\ One(v.dn, ExpectedType[v.pc])
           /\ None(Tail(v.dn))
           /\ v.pc # "authenticate" => Head(v.dn).mac
           /\ v.pc # "detach" => v.at.pc = "idle"
<1>1. v.dn \in Seq(DnMsg) /\ v.up \in Seq(UpMsg) /\ ~None(v.dn)
    BY NoneFact DEF Views
<1>2. /\ None(v.up)
      /\ v.pc \in DOMAIN ExpectedType
      /\ One(v.dn, ExpectedType[v.pc])
      /\ v.pc # "detach" => v.at.pc = "idle"
    BY <1>1 DEF ViewOK, Conversation, ExpectedType
<1>3. Len(v.dn) = 1 /\ Head(v.dn) = v.dn[1] /\ None(Tail(v.dn))
    BY <1>1, <1>2, TakeFacts DEF One, None
<1>4. v.pc # "authenticate" => Head(v.dn).mac
    BY <1>2, <1>3 DEF ViewOK, MacsOK, One, ExpectedType
<1> QED
    BY <1>2, <1>3, <1>4

\* The terminal refuses the network.
LEMMA RefuseView ==
    ASSUME NEW u \in UE, NEW v \in Views, ViewOK(u, v), v.pc = "authenticate", v.dn # <<>>,
           NEW n, n.pc = "failed", n.up = v.up, n.dn = Tail(v.dn), n.at = v.at, n.ids = v.ids,
           n.ctx = v.ctx
    PROVE  ViewOK(u, n)
<1>1. None(v.up) /\ None(Tail(v.dn)) /\ v.at.pc = "idle"
    BY AnswerView
<1>2. Conversation(n)
    BY <1>1 DEF Conversation
<1>3. IdsOK(n) /\ MacsOK(n)
    BY <1>1 DEF IdsOK, MacsOK, ViewOK, Known, Left, None
<1>4. KeysOK(u, n)
    BY <1>1 DEF KeysOK, None, Known
<1> QED
    BY <1>2, <1>3, <1>4 DEF ViewOK

\* A terminal that accepts the network's autn has the key of its row.
LEMMA SameKey ==
    ASSUME NEW u \in UE, NEW r \in Nat, r = HssRand[u],
           Autn(Xres(RanKey(u), r)) = Autn(HssXres(u))
    PROVE  HssKey[u] = RanKey(u)
<1>1. u \in Nat /\ HssKey[u] \in Nat
    BY UEFacts, HssAssumption
<1>2. \A k, l \in Nat : k + (r + 1) + r + 1 = l + (r + 1) + r + 1 => k = l
    OBVIOUS
<1> QED
    BY <1>1, <1>2 DEF Autn, Xres, HssXres, RanKey, Sqn

\* It answers with its result and derives the session key.
LEMMA AuthenticateView ==
    ASSUME NEW u \in UE, NEW v \in Views, ViewOK(u, v), v.pc = "authenticate", v.dn # <<>>,
           NEW m, m = Head(v.dn), NEW res, res = Xres(RanKey(u), m.rand), Autn(res) = m.autn,
           NEW a \in UpMsg, a.type = "auth_response", a.id = m.id, a.res = res,
           NEW n, n.pc = "set_security", n.up = Append(v.up, a), n.dn = Tail(v.dn), n.at = v.at,
           n.ids = v.ids, n.ctx = v.ctx, n.ran.mme_s1ap_ue_id = m.id,
           n.ran.k_asme = KAsme(res, m.rand)
    PROVE  ViewOK(u, n)
<1>1. v.dn \in Seq(DnMsg) /\ v.up \in Seq(UpMsg) /\ v.ids \in SUBSET Nat
    BY DEF Views
<1>2. None(v.up) /\ None(Tail(v.dn)) /\ v.at.pc = "idle" /\ Len(v.dn) = 1 /\ m = v.dn[1]
    BY <1>1, AnswerView, TakeFacts DEF One
<1>3. Len(n.up) = 1 /\ n.up[1] = a
    BY <1>1, <1>2, SendFacts DEF None
<1>4. m.rand = HssRand[u] /\ m.autn = Autn(HssXres(u)) /\ m.id \in v.ids
      /\ v.ctx # Nil /\ v.ctx.xres = HssXres(u) /\ v.ctx.k_asme = HssKAsme(u)
    BY <1>2 DEF ViewOK, KeysOK, IdsOK, None
<1>5. HssKey[u] = RanKey(u) /\ res = HssXres(u) /\ KAsme(res, m.rand) = HssKAsme(u)
  <2>1. HssRand[u] \in Nat
    BY HssAssumption
  <2>2. HssKey[u] = RanKey(u)
    BY <2>1, <1>4, SameKey
  <2> QED
    BY <2>2, <1>4 DEF HssXres, HssKAsme
<1>6. Conversation(n)
    BY <1>2, <1>3 DEF Conversation, One
<1>7. IdsOK(n)
  <2>1. \A i, j \in v.ids : i = j
    BY DEF ViewOK, IdsOK
  <2> QED
    BY <1>2, <1>3, <1>4, <2>1 DEF IdsOK, Left
<1>8. MacsOK(n)
    BY <1>2, <1>3 DEF MacsOK, None
<1>9. KeysOK(u, n)
    BY <1>2, <1>3, <1>4, <1>5 DEF KeysOK, None
<1> QED
    BY <1>6, <1>7, <1>8, <1>9 DEF ViewOK

\* It derives the NAS key and confirms the security mode.
LEMMA SecurityView ==
    ASSUME NEW u \in UE, NEW v \in Views, ViewOK(u, v), v.pc = "set_security", v.dn # <<>>,
           NEW a \in UpMsg, a.type = "security_complete", a.id = v.ran.mme_s1ap_ue_id, a.mac,
           NEW n, n.pc = "set_eps_session", n.up = Append(v.up, a), n.dn = Tail(v.dn),
           n.at = v.at, n.ids = v.ids, n.ctx = v.ctx,
           n.ran.mme_s1ap_ue_id = v.ran.mme_s1ap_ue_id, n.ran.k_asme = v.ran.k_asme,
           n.ran.k_nas = KNasRan(v.ran.k_asme)
    PROVE  ViewOK(u, n)
<1>1. v.dn \in Seq(DnMsg) /\ v.up \in Seq(UpMsg)
    BY DEF Views
<1>2. None(v.up) /\ None(Tail(v.dn)) /\ v.at.pc = "idle" /\ ~None(v.dn)
    BY <1>1, AnswerView, NoneFact
<1>3. Len(n.up) = 1 /\ n.up[1] = a
    BY <1>1, <1>2, SendFacts DEF None
<1>4. Conversation(n)
    BY <1>2, <1>3 DEF Conversation, One
<1>5. IdsOK(n) /\ MacsOK(n)
    BY <1>2, <1>3 DEF ViewOK, IdsOK, MacsOK, Known, Left, None
<1>6. KeysOK(u, n)
    BY <1>2, <1>3 DEF ViewOK, KeysOK, Known, None
<1> QED
    BY <1>4, <1>5, <1>6 DEF ViewOK

\* It stores its bearer and completes the attach.
LEMMA AcceptedView ==
    ASSUME NEW u \in UE, NEW v \in Views, ViewOK(u, v), v.pc = "set_eps_session", v.dn # <<>>,
           NEW a \in UpMsg, a.type = "attach_complete", a.id = v.ran.mme_s1ap_ue_id, a.mac,
           NEW r, r.mme_s1ap_ue_id = v.ran.mme_s1ap_ue_id, r.k_asme = v.ran.k_asme,
           r.k_nas = v.ran.k_nas,
           NEW n, n.pc = "transfer", n.up = Append(v.up, a), n.dn = Tail(v.dn), n.at = v.at,
           n.ids = v.ids, n.ctx = v.ctx, n.ran = r
    PROVE  ViewOK(u, n)
<1>1. v.dn \in Seq(DnMsg) /\ v.up \in Seq(UpMsg)
    BY DEF Views
<1>2. None(v.up) /\ None(Tail(v.dn)) /\ v.at.pc = "idle"
    BY AnswerView
<1>3. Len(n.up) = 1 /\ n.up[1] = a
    BY <1>1, <1>2, SendFacts DEF None
<1>4. Conversation(n)
    BY <1>2, <1>3 DEF Conversation, One
<1>5. IdsOK(n) /\ MacsOK(n)
    BY <1>2, <1>3 DEF ViewOK, IdsOK, MacsOK, Known, Left, None
<1>6. KeysOK(u, n)
    BY <1>2, <1>3 DEF ViewOK, KeysOK, Known, None
<1> QED
    BY <1>4, <1>5, <1>6 DEF ViewOK

\* It asks to leave, perhaps before the MME has read its attach complete.
LEMMA ReleaseView ==
    ASSUME NEW u \in UE, NEW v \in Views, ViewOK(u, v), v.pc = "transfer",
           NEW a \in UpMsg, a.type = "detach_request", a.id = v.ran.mme_s1ap_ue_id, a.mac,
           NEW n, n.pc = "detach", n.up = Append(v.up, a), n.dn = v.dn, n.at = v.at,
           n.ids = v.ids, n.ctx = v.ctx, n.ran = v.ran
    PROVE  ViewOK(u, n)
<1>1. v.up \in Seq(UpMsg) /\ Len(v.up) \in Nat
    BY DEF Views
<1>2. /\ None(v.dn)
      /\ \/ One(v.up, "attach_complete") /\ v.at.pc = "idle"
         \/ None(v.up) /\ v.at.pc \in {"modify", "idle"}
    BY DEF ViewOK, Conversation
<1>3. Len(n.up) = Len(v.up) + 1 /\ n.up[Len(v.up) + 1] = a
      /\ \A i \in 1 .. Len(v.up) : n.up[i] = v.up[i]
    BY <1>1, SendFacts
<1>4. Conversation(n)
  <2>1. CASE One(v.up, "attach_complete") /\ v.at.pc = "idle"
    <3>1. Two(n.up, "attach_complete", "detach_request")
      BY <1>3, <2>1 DEF One, Two
    <3> QED
      BY <1>2, <2>1, <3>1 DEF Conversation
  <2>2. CASE None(v.up) /\ v.at.pc \in {"modify", "idle"}
    <3>1. One(n.up, "detach_request")
      BY <1>3, <2>2 DEF None, One
    <3> QED
      BY <1>2, <2>2, <3>1 DEF Conversation
  <2> QED
    BY <1>2, <2>1, <2>2
<1>5. ASSUME NEW i \in 1 .. Len(n.up)
      PROVE  n.up[i] = a \/ (i \in 1 .. Len(v.up) /\ n.up[i] = v.up[i])
  <2>1. i \in 1 .. Len(v.up) + 1
    BY <1>3
  <2>2. i = Len(v.up) + 1 \/ i \in 1 .. Len(v.up)
    BY <1>1, <2>1
  <2> QED
    BY <1>3, <2>2
<1>6. ~None(n.up) /\ None(n.dn)
    BY <1>1, <1>2, <1>3 DEF None
<1>7. Known(v) /\ Known(n) /\ ~Left(n)
    BY <1>6 DEF Known, Left
<1>8. IdsOK(n) /\ MacsOK(n)
    BY <1>5, <1>6, <1>7, <1>2 DEF ViewOK, IdsOK, MacsOK
<1>9. KeysOK(u, n)
    BY <1>5, <1>6, <1>7 DEF ViewOK, KeysOK
<1> QED
    BY <1>4, <1>8, <1>9 DEF ViewOK

\* It is told that it has left.
LEMMA ReleasedView ==
    ASSUME NEW u \in UE, NEW v \in Views, ViewOK(u, v), v.pc = "detach", v.dn # <<>>,
           NEW n, n.pc = "loop", n.up = v.up, n.dn = Tail(v.dn), n.at = v.at, n.ids = v.ids,
           n.ctx = v.ctx, n.ran = v.ran
    PROVE  ViewOK(u, n)
<1>1. v.dn \in Seq(DnMsg) /\ ~None(v.dn)
    BY NoneFact DEF Views
<1>2. None(v.up) /\ None(n.dn)
    BY AnswerView
<1>3. v.at.pc \in Cleaning
    BY <1>1 DEF ViewOK, Conversation
<1>4. Conversation(n)
    BY <1>2, <1>3 DEF Conversation
<1>5. IdsOK(n) /\ MacsOK(n)
    BY <1>1, <1>2 DEF ViewOK, IdsOK, MacsOK, Known, Left, None
<1>6. KeysOK(u, n)
    BY <1>2 DEF ViewOK, KeysOK, Known, None
<1> QED
    BY <1>4, <1>5, <1>6 DEF ViewOK

-----------------------------------------------------------------------------
(* Steps of a worker, on the view of the subscriber it serves.             *)

\* A worker that takes a request finds the subscriber where the request's type
\* says, and unless it is the first one, it carries the known id and its HMAC.
LEMMA RequestView ==
    ASSUME NEW u \in UE, NEW v \in Views, ViewOK(u, v), v.at.pc = "idle", v.up # <<>>
    PROVE  LET m == Head(v.up)
           IN  /\ m = v.up[1] /\ v.up \in Seq(UpMsg) /\ None(v.dn)
               /\ m.type = "initial_attach" =>
                     v.pc = "authenticate" /\ Len(v.up) = 1 /\ v.ids = {} /\ v.ctx = Nil
               /\ m.type = "auth_response" => v.pc = "set_security" /\ Len(v.up) = 1
               /\ m.type = "security_complete" => v.pc = "set_eps_session" /\ Len(v.up) = 1
               /\ m.type = "attach_complete" =>
                     \/ v.pc = "transfer" /\ Len(v.up) = 1
                     \/ v.pc = "detach" /\ Two(v.up, "attach_complete", "detach_request")
               /\ m.type = "detach_request" => v.pc = "detach" /\ Len(v.up) = 1
               /\ m.type \in {"initial_attach", "auth_response", "security_complete",
                              "attach_complete", "detach_request"}
               /\ m.type # "initial_attach" => m.id \in v.ids /\ v.ctx # Nil
               /\ m.type \in {"initial_attach", "auth_response"} \/ m.mac
<1> DEFINE m == Head(v.up)
<1>1. v.up \in Seq(UpMsg) /\ ~None(v.up) /\ m = v.up[1] /\ Len(v.up) \in Nat \ {0}
    BY NoneFact, TakeFacts DEF Views
<1> HIDE DEF m
<1>2. /\ None(v.dn)
      /\ \/ v.pc = "authenticate" /\ One(v.up, "initial_attach")
         \/ v.pc = "set_security" /\ One(v.up, "auth_response")
         \/ v.pc = "set_eps_session" /\ One(v.up, "security_complete")
         \/ v.pc = "transfer" /\ One(v.up, "attach_complete")
         \/ v.pc = "detach" /\ Two(v.up, "attach_complete", "detach_request")
         \/ v.pc = "detach" /\ One(v.up, "detach_request")
    BY <1>1 DEF ViewOK, Conversation
<1>3. 1 \in 1 .. Len(v.up)
    BY <1>1
<1>4. m.type # "initial_attach" => Known(v)
    BY <1>1, <1>2 DEF Known, One
<1>5. m.type = "initial_attach" => v.pc = "authenticate" /\ Left(v)
    BY <1>1, <1>2 DEF Left, One, Two
<1>6. m.type # "initial_attach" => m.id \in v.ids /\ v.ctx # Nil
    BY <1>1, <1>3, <1>4 DEF ViewOK, IdsOK, KeysOK
<1>7. m.type \in {"initial_attach", "auth_response"} \/ m.mac
    BY <1>1, <1>3 DEF ViewOK, MacsOK
<1>8. m.type = "initial_attach" => v.ids = {} /\ v.ctx = Nil
    BY <1>5 DEF ViewOK, IdsOK
<1> QED
    BY <1>1, <1>2, <1>6, <1>7, <1>8 DEF One, Two, m

\* handle_initial_attach: a new id, and a question to the HSS.
LEMMA InitialAttachView ==
    ASSUME NEW u \in UE, NEW v \in Views, ViewOK(u, v), v.at.pc = "idle", v.up # <<>>,
           Head(v.up).type = "initial_attach", NEW id \in Nat, NEW c,
           NEW n, n.pc = v.pc, n.up = Tail(v.up), n.dn = v.dn, n.at.pc = "autn_info",
           n.at.id = id, n.ids = {id}, n.ctx = c, n.ran = v.ran
    PROVE  ViewOK(u, n)
<1>1. v.pc = "authenticate" /\ Len(v.up) = 1 /\ v.up \in Seq(UpMsg) /\ None(v.dn)
    BY RequestView
<1>2. None(n.up)
    BY <1>1, TakeFacts DEF None
<1>3. Conversation(n)
    BY <1>1, <1>2 DEF Conversation
<1>4. IdsOK(n) /\ MacsOK(n)
    BY <1>1, <1>2 DEF IdsOK, MacsOK, Known, Left, None
<1>5. KeysOK(u, n)
    BY <1>1, <1>2 DEF KeysOK, Known, None
<1> QED
    BY <1>3, <1>4, <1>5 DEF ViewOK

\* ... and its answer goes to the terminal.
LEMMA ChallengeView ==
    ASSUME NEW u \in UE, NEW v \in Views, ViewOK(u, v), v.at.pc = "autn_info",
           NEW c, c # Nil, c.xres = HssXres(u), c.k_asme = HssKAsme(u),
           NEW a \in DnMsg, a.type = "autn_request", a.id = v.at.id,
           a.autn = Autn(HssXres(u)), a.rand = HssRand[u],
           NEW n, n.pc = v.pc, n.up = v.up, n.dn = Append(v.dn, a), n.at.pc = "idle",
           n.ids = v.ids, n.ctx = c, n.ran = v.ran
    PROVE  ViewOK(u, n)
<1>1. v.pc = "authenticate" /\ None(v.up) /\ None(v.dn) /\ v.dn \in Seq(DnMsg)
    BY DEF ViewOK, Conversation, Views, Cleaning
<1>2. Len(n.dn) = 1 /\ n.dn[1] = a
    BY <1>1, SendFacts DEF None
<1>3. v.at.id \in v.ids /\ \A i, j \in v.ids : i = j
    BY DEF ViewOK, IdsOK
<1>4. Conversation(n)
    BY <1>1, <1>2 DEF Conversation, One
<1>5. IdsOK(n) /\ MacsOK(n)
    BY <1>1, <1>2, <1>3 DEF IdsOK, MacsOK, Known, Left, None
<1>6. KeysOK(u, n)
    BY <1>1, <1>2 DEF KeysOK, Known, None
<1> QED
    BY <1>4, <1>5, <1>6 DEF ViewOK

\* handle_autn: the result is always the expected one, and security is set up.
LEMMA ResponseView ==
    ASSUME NEW u \in UE, NEW v \in Views, ViewOK(u, v), v.at.pc = "idle", v.up # <<>>,
           Head(v.up).type = "auth_response",
           NEW c, c # Nil, c.xres = v.ctx.xres, c.k_asme = v.ctx.k_asme,
           c.k_nas = KNasMme(v.ctx.k_asme),
           NEW a \in DnMsg, a.type = "security_command", a.mac,
           NEW n, n.pc = v.pc, n.up = Tail(v.up), n.dn = Append(v.dn, a), n.at = v.at,
           n.ids = v.ids, n.ctx = c, n.ran = v.ran
    PROVE  /\ Head(v.up).res = v.ctx.xres
           /\ ViewOK(u, n)
<1>1. /\ v.pc = "set_security" /\ Len(v.up) = 1 /\ v.up \in Seq(UpMsg) /\ None(v.dn)
      /\ v.dn \in Seq(DnMsg) /\ Head(v.up) = v.up[1]
    BY RequestView DEF Views
<1>2. None(n.up) /\ Len(n.dn) = 1 /\ n.dn[1] = a
    BY <1>1, TakeFacts, SendFacts DEF None
<1>3. v.ctx.xres = HssXres(u) /\ v.ctx.k_asme = HssKAsme(u) /\ Head(v.up).res = HssXres(u)
    BY <1>1 DEF ViewOK, KeysOK, Known
<1>4. Conversation(n)
    BY <1>1, <1>2 DEF Conversation, One
<1>5. IdsOK(n) /\ MacsOK(n)
    BY <1>1, <1>2 DEF ViewOK, IdsOK, MacsOK, Known, Left, None
<1>6. KeysOK(u, n)
    BY <1>1, <1>2, <1>3 DEF ViewOK, KeysOK, Known, None
<1> QED
    BY <1>3, <1>4, <1>5, <1>6 DEF ViewOK

\* handle_security_mode_complete, handle_attach_complete and handle_detach up
\* to their requests to the SGW: what was sent is taken, the keys stay.
LEMMA ServeView ==
    ASSUME NEW u \in UE, NEW v \in Views, ViewOK(u, v), v.at.pc = "idle", v.up # <<>>,
           NEW pc, \/ Head(v.up).type = "security_complete" /\ pc = "create"
                   \/ Head(v.up).type = "attach_complete" /\ pc = "modify"
                   \/ Head(v.up).type = "detach_request" /\ pc = "detach",
           NEW c, c # Nil, c.xres = v.ctx.xres, c.k_asme = v.ctx.k_asme, c.k_nas = v.ctx.k_nas,
           NEW n, n.pc = v.pc, n.up = Tail(v.up), n.dn = v.dn, n.at.pc = pc,
           n.at.id = Head(v.up).id, n.ids = v.ids, n.ctx = c, n.ran = v.ran
    PROVE  ViewOK(u, n)
<1>1. /\ v.up \in Seq(UpMsg) /\ None(v.dn) /\ Head(v.up).id \in v.ids
      /\ pc = "create" => v.pc = "set_eps_session" /\ Len(v.up) = 1
      /\ pc = "modify" => \/ v.pc = "transfer" /\ Len(v.up) = 1
                          \/ v.pc = "detach" /\ Two(v.up, "attach_complete", "detach_request")
      /\ pc = "detach" => v.pc = "detach" /\ Len(v.up) = 1
  <2>1. Head(v.up).type # "initial_attach"
    OBVIOUS
  <2>2. v.up \in Seq(UpMsg) /\ None(v.dn)
    BY RequestView
  <2>6. Head(v.up).id \in v.ids
    BY <2>1, RequestView
  <2>3. pc = "create" => v.pc = "set_eps_session" /\ Len(v.up) = 1
    BY RequestView
  <2>4. pc = "modify" => \/ v.pc = "transfer" /\ Len(v.up) = 1
                         \/ v.pc = "detach" /\ Two(v.up, "attach_complete", "detach_request")
    BY RequestView
  <2>5. pc = "detach" => v.pc = "detach" /\ Len(v.up) = 1
    BY RequestView
  <2> QED
    BY <2>2, <2>3, <2>4, <2>5, <2>6
<1>2. /\ Len(v.up) \in Nat /\ Len(n.up) = Len(v.up) - 1
      /\ \A i \in 1 .. Len(v.up) - 1 : n.up[i] = v.up[i + 1]
    BY <1>1, TakeFacts
<1>3. pc = "modify" => \/ v.pc = "transfer" /\ None(n.up)
                       \/ v.pc = "detach" /\ One(n.up, "detach_request")
    BY <1>1, <1>2 DEF None, One, Two
<1>4. pc \in {"create", "detach"} => None(n.up)
    BY <1>1, <1>2 DEF None
<1>5. Conversation(n)
    BY <1>1, <1>3, <1>4 DEF Conversation
<1>6. ~None(v.up) /\ \A i \in 1 .. Len(n.up) : i + 1 \in 1 .. Len(v.up) /\ n.up[i] = v.up[i + 1]
    BY <1>1, <1>2, NoneFact
<1>7. ~Left(n) /\ (Known(n) => Known(v))
    BY <1>1, <1>6 DEF Left, Known
<1>8. IdsOK(n) /\ MacsOK(n)
    BY <1>1, <1>6, <1>7 DEF ViewOK, IdsOK, MacsOK, None
<1>9. KeysOK(u, n)
    BY <1>1, <1>6, <1>7 DEF ViewOK, KeysOK, None
<1> QED
    BY <1>5, <1>8, <1>9 DEF ViewOK

\* handle_create_session: the session's answer is passed on.
LEMMA CreatedView ==
    ASSUME NEW u \in UE, NEW v \in Views, ViewOK(u, v), v.at.pc = "create",
           NEW c, c # Nil, c.xres = v.ctx.xres, c.k_asme = v.ctx.k_asme, c.k_nas = v.ctx.k_nas,
           NEW a \in DnMsg, a.type = "attach_accept", a.mac,
           NEW n, n.pc = v.pc, n.up = v.up, n.dn = Append(v.dn, a), n.at.pc = "idle",
           n.ids = v.ids, n.ctx = c, n.ran = v.ran
    PROVE  /\ v.ctx # Nil
           /\ ViewOK(u, n)
<1>1. v.pc = "set_eps_session" /\ None(v.up) /\ None(v.dn) /\ v.dn \in Seq(DnMsg)
    BY DEF ViewOK, Conversation, Views, Cleaning
<1>2. Len(n.dn) = 1 /\ n.dn[1] = a
    BY <1>1, SendFacts DEF None
<1>3. Conversation(n)
    BY <1>1, <1>2 DEF Conversation, One
<1>4. IdsOK(n) /\ MacsOK(n)
    BY <1>1, <1>2 DEF ViewOK, IdsOK, MacsOK, Known, Left, None
<1>5. KeysOK(u, n) /\ v.ctx # Nil
    BY <1>1, <1>2 DEF ViewOK, KeysOK, Known, None
<1> QED
    BY <1>3, <1>4, <1>5 DEF ViewOK

\* handle_modify_bearer ends.
LEMMA ModifiedView ==
    ASSUME NEW u \in UE, NEW v \in Views, ViewOK(u, v), v.at.pc = "modify",
           NEW c, c # Nil, c.xres = v.ctx.xres, c.k_asme = v.ctx.k_asme, c.k_nas = v.ctx.k_nas,
           NEW n, n.pc = v.pc, n.up = v.up, n.dn = v.dn, n.at.pc = "idle", n.ids = v.ids,
           n.ctx = c, n.ran = v.ran
    PROVE  /\ v.ctx # Nil
           /\ ViewOK(u, n)
<1>1. \/ v.pc = "transfer" /\ None(v.up) /\ None(v.dn)
      \/ v.pc = "detach" /\ One(v.up, "detach_request") /\ None(v.dn)
    BY DEF ViewOK, Conversation, Cleaning
<1>2. Known(v) /\ Known(n) /\ ~Left(n)
    BY <1>1 DEF Known, Left, None, One
<1>3. Conversation(n)
    BY <1>1 DEF Conversation
<1>4. IdsOK(n) /\ MacsOK(n)
    BY <1>1, <1>2 DEF ViewOK, IdsOK, MacsOK
<1>5. KeysOK(u, n) /\ v.ctx # Nil
    BY <1>1, <1>2 DEF ViewOK, KeysOK
<1> QED
    BY <1>3, <1>4, <1>5 DEF ViewOK

\* handle_detach: the terminal is answered, then its entries are removed.
LEMMA DetachedView ==
    ASSUME NEW u \in UE, NEW v \in Views, ViewOK(u, v), v.at.pc = "detach",
           NEW a \in DnMsg, a.type = "detach_complete", a.mac,
           NEW n, n.pc = v.pc, n.up = v.up, n.dn = Append(v.dn, a), n.at.pc = "rem_itfid",
           n.at.id = v.at.id, n.ids = v.ids, n.ctx = v.ctx, n.ran = v.ran
    PROVE  ViewOK(u, n)
<1>1. v.pc = "detach" /\ None(v.up) /\ None(v.dn) /\ v.dn \in Seq(DnMsg)
    BY DEF ViewOK, Conversation, Views, Cleaning
<1>2. Len(n.dn) = 1 /\ n.dn[1] = a
    BY <1>1, SendFacts DEF None
<1>3. Conversation(n)
    BY <1>1, <1>2 DEF Conversation, One, Cleaning
<1>4. IdsOK(n) /\ MacsOK(n)
    BY <1>1, <1>2 DEF ViewOK, IdsOK, MacsOK, Known, Left, None
<1>5. KeysOK(u, n)
    BY <1>1, <1>2 DEF ViewOK, KeysOK, Known, None
<1> QED
    BY <1>3, <1>4, <1>5 DEF ViewOK

\* While it is being forgotten the terminal is away, or waits to come back.
LEMMA CleaningView ==
    ASSUME NEW u \in UE, NEW v \in Views, ViewOK(u, v), v.at.pc \in {"rem_itfid", "rem_uectx"},
           NEW n, n.pc = v.pc, n.up = v.up, n.dn = v.dn, n.at.pc \in Cleaning
    PROVE  Conversation(n) /\ Left(n) /\ ~Known(n) /\ (n.pc = "authenticate" => None(n.dn))
<1>1. \/ v.pc \in {"loop", "done"} /\ None(v.up) /\ None(v.dn)
      \/ v.pc = "authenticate" /\ One(v.up, "initial_attach") /\ None(v.dn)
      \/ v.pc = "detach" /\ None(v.up) /\ One(v.dn, "detach_complete")
    BY DEF ViewOK, Conversation
<1>2. Conversation(n)
    BY <1>1 DEF Conversation
<1> QED
    BY <1>1, <1>2 DEF Left, Known, None, One

\* rem_itfid.
LEMMA IdRemovedView ==
    ASSUME NEW u \in UE, NEW v \in Views, ViewOK(u, v), v.at.pc = "rem_itfid",
           NEW n, n.pc = v.pc, n.up = v.up, n.dn = v.dn, n.at.pc = "rem_uectx", n.ids = {},
           n.ctx = v.ctx, n.ran = v.ran
    PROVE  /\ v.ids = {v.at.id}
           /\ ViewOK(u, n)
<1>1. Conversation(n) /\ Left(n) /\ ~Known(n) /\ (n.pc = "authenticate" => None(n.dn))
    BY CleaningView DEF Cleaning
<1>2. IdsOK(n) /\ MacsOK(n) /\ v.ids = {v.at.id}
    BY <1>1 DEF ViewOK, IdsOK, MacsOK, None
<1>3. KeysOK(u, n)
    BY <1>1 DEF ViewOK, KeysOK
<1> QED
    BY <1>1, <1>2, <1>3 DEF ViewOK

\* rem_uectx.
LEMMA CtxRemovedView ==
    ASSUME NEW u \in UE, NEW v \in Views, ViewOK(u, v), v.at.pc = "rem_uectx",
           NEW n, n.pc = v.pc, n.up = v.up, n.dn = v.dn, n.at.pc = "idle", n.ids = v.ids,
           n.ctx = Nil, n.ran = v.ran
    PROVE  ViewOK(u, n)
<1>1. Conversation(n) /\ Left(n) /\ ~Known(n) /\ (n.pc = "authenticate" => None(n.dn))
    BY CleaningView DEF Cleaning
<1>2. Left(v)
    BY <1>1 DEF Left
<1>3. IdsOK(n) /\ MacsOK(n)
    BY <1>1, <1>2 DEF ViewOK, IdsOK, MacsOK, None
<1>4. KeysOK(u, n)
    BY <1>1 DEF ViewOK, KeysOK
<1> QED
    BY <1>1, <1>3, <1>4 DEF ViewOK

-----------------------------------------------------------------------------
(* From the state to the views.                                            *)

\* What the lemmas on actions start from.
UeSide == TypeInv /\ OneCall /\ UeInv

\* Views are well typed.
LEMMA ViewType == ASSUME TypeInv, NEW u \in UE PROVE View(u) \in Views
<1> USE DEF TypeInv, TypeOK
<1>1. Handler(u) \in [pc : MmePc, id : Nat]
  <2>1. conn_worker[u] # Nil => conn_worker[u] \in Worker
    BY DEF SctpTypeOK
  <2>2. \A w \in Worker : mme_pc[w] \in MmePc /\ mme_job[w].id \in Nat
    BY DEF MmeTypeOK, MmeJob
  <2>3. "idle" \in MmePc
    BY DEF MmePc
  <2> QED
    BY <2>1, <2>2, <2>3 DEF Handler
<1>2. Entries(s1mme_id, u) \in SUBSET Nat
    BY DEF MmeTypeOK, Entries
<1> QED
    BY <1>1, <1>2 DEF View, Views, RanTypeOK, SctpTypeOK, MmeTypeOK

\* A worker inside a handler is the handler of the subscriber it serves.
LEMMA BusyHandler ==
    ASSUME TypeInv, WorkersOK, NEW w \in Worker, mme_pc[w] # "idle"
    PROVE  LET u == mme_job[w].conn
           IN  /\ u \in UE
               /\ mme_job[w].guti = u
               /\ conn_worker[u] = w
               /\ Handler(u) = [pc |-> mme_pc[w], id |-> mme_job[w].id]
<1>1. mme_job[w].conn \in UE
    BY DEF TypeInv, MmeJobsOK
<1>2. conn_worker[mme_job[w].conn] = w /\ mme_job[w].guti = mme_job[w].conn
    BY DEF WorkersOK
<1> QED
    BY <1>1, <1>2, UEFacts DEF Handler

\* A connection whose worker is idle has no handler.
LEMMA IdleHandler ==
    ASSUME WorkersOK, NEW u \in UE, NEW w \in Worker, conn_worker[u] = w, mme_pc[w] = "idle"
    PROVE  Handler(u) = [pc |-> "idle", id |-> 0]
BY UEFacts DEF WorkersOK, Handler, NoMmeJob

\* An id leads to a subscriber exactly when it is one of its ids.
LEMMA GutiFact == ASSUME NEW u \in UE, NEW id PROVE GetGuti(id) = u <=> id \in Entries(s1mme_id, u)
BY UEFacts DEF GetGuti, Entries

\* A step changes one view at most.
LEMMA OneView ==
    ASSUME UeInv, NEW u \in UE, NEW n, View(u)' = n, ViewOK(u, n),
           \A x \in UE \ {u} : View(x)' = View(x)
    PROVE  \A x \in UE : ViewOK(x, View(x))'
BY DEF UeInv

\* A step that changes no view.
LEMMA NoView ==
    ASSUME UeInv, \A x \in UE : View(x)' = View(x)
    PROVE  \A x \in UE : ViewOK(x, View(x))'
BY DEF UeInv

-----------------------------------------------------------------------------
(* Steps of the RAN threads.                                               *)

\* A RAN thread touches its own view only.
LEMMA RanView ==
    ASSUME UeSide, NEW u \in UE, NEW pc, NEW ctx, NEW up, NEW dn,
           ran_pc' = [ran_pc EXCEPT ![u] = pc], ran_ctx' = [ran_ctx EXCEPT ![u] = ctx],
           s1ap_up' = [s1ap_up EXCEPT ![u] = up], s1ap_dn' = [s1ap_dn EXCEPT ![u] = dn],
           UNCHANGED <<conn_worker, mmeVars>>
    PROVE  /\ \A x \in UE \ {u} : View(x)' = View(x)
           /\ View(u)'.pc = pc /\ View(u)'.ran = ctx /\ View(u)'.up = up /\ View(u)'.dn = dn
           /\ View(u)'.at = View(u).at /\ View(u)'.ctx = View(u).ctx /\ View(u)'.ids = View(u).ids
<1> USE DEF UeSide, mmeVars
<1>1. \A x \in UE : Handler(x)' = Handler(x)
    BY DEF Handler
<1>2. \A x \in UE : Entries(s1mme_id, x)' = Entries(s1mme_id, x)
    OBVIOUS
<1>3. \A x \in UE \ {u} : View(x)' = View(x)
    BY <1>1, <1>2 DEF View, TypeInv, TypeOK, RanTypeOK, SctpTypeOK
<1>4. /\ View(u)'.pc = pc /\ View(u)'.ran = ctx /\ View(u)'.up = up /\ View(u)'.dn = dn
      /\ View(u)'.at = View(u).at /\ View(u)'.ctx = View(u).ctx /\ View(u)'.ids = View(u).ids
    BY <1>1, <1>2 DEF View, TypeInv, TypeOK, RanTypeOK, SctpTypeOK
<1> QED
    BY <1>3, <1>4

\* ... and no worker, so the rest of the invariant is about its connection.
LEMMA RanKeeps ==
    ASSUME UeSide, NEW u \in UE, \A x \in UE \ {u} : View(x)' = View(x), ViewOK(u, View(u)'),
           UNCHANGED <<conn_worker, mmeVars, s6aVars, exited>>, BacklogOK'
    PROVE  UeInv'
<1> USE DEF UeSide, mmeVars
<1>1. \A x \in UE : ViewOK(x, View(x))'
    BY OneView
<1>2. WorkersOK' /\ VectorsOK' /\ OnlyGatewaysExit'
    BY DEF UeInv, WorkersOK, VectorsOK, OnlyGatewaysExit, s6aVars
<1> QED
    BY <1>1, <1>2 DEF UeInv

\* A thread that has connected does not change what waits for the MME.
LEMMA BacklogFrame ==
    ASSUME UeSide, NEW u \in UE, NEW pc, pc # "connect",
           ran_pc' = [ran_pc EXCEPT ![u] = pc], UNCHANGED <<backlog, conn_worker>>
    PROVE  BacklogOK'
<1>1. ran_pc \in [UE -> RanPc] /\ \A i \in 1 .. Len(backlog) : backlog[i] \in UE
    BY DEF UeSide, TypeInv, TypeOK, RanTypeOK, SctpTypeOK
<1> QED
    BY <1>1 DEF UeSide, UeInv, BacklogOK

\* A variable a thread leaves alone is the same for it too.
LEMMA RanSame ==
    ASSUME TypeInv, NEW u \in UE
    PROVE  /\ ran_pc = [ran_pc EXCEPT ![u] = ran_pc[u]]
           /\ ran_ctx = [ran_ctx EXCEPT ![u] = ran_ctx[u]]
           /\ s1ap_up = [s1ap_up EXCEPT ![u] = s1ap_up[u]]
           /\ s1ap_dn = [s1ap_dn EXCEPT ![u] = s1ap_dn[u]]
BY DEF TypeInv, TypeOK, RanTypeOK, SctpTypeOK

\* What is known of a view before a step.
LEMMA Before ==
    ASSUME UeSide, NEW u \in UE
    PROVE  /\ View(u) \in Views /\ ViewOK(u, View(u))
           /\ View(u).pc = ran_pc[u] /\ View(u).ran = ran_ctx[u]
           /\ View(u).up = s1ap_up[u] /\ View(u).dn = s1ap_dn[u]
           /\ View(u).at = Handler(u) /\ View(u).ctx = mme_ctx[u]
           /\ View(u).ids = Entries(s1mme_id, u)
BY ViewType DEF UeSide, UeInv, View

\* A new connection waits behind the others.
LEMMA ConnMmeUe == ASSUME UeSide, NEW u \in UE, RanNext(u), ConnMme(u) PROVE UeInv'
<1> USE DEF UeSide, TypeInv, TypeOK
<1>1. /\ ran_pc[u] = "connect"
      /\ ran_pc' = [ran_pc EXCEPT ![u] = "loop"]
      /\ backlog' = Append(backlog, u)
      /\ UNCHANGED <<ran_ctx, s1ap_up, s1ap_dn, conn_worker, mmeVars, s6aVars, exited>>
    BY DEF ConnMme, Goto, Connect, RanNext
<1>2. backlog \in Seq(UE) /\ Len(backlog) \in Nat /\ ran_pc \in [UE -> RanPc]
    BY DEF SctpTypeOK, RanTypeOK
<1>3. /\ Len(backlog') = Len(backlog) + 1
      /\ backlog'[Len(backlog) + 1] = u
      /\ \A i \in 1 .. Len(backlog) : backlog'[i] = backlog[i] /\ backlog[i] \in UE
    BY <1>1, <1>2, SendFacts
<1>4. \A i \in 1 .. Len(backlog) : backlog[i] # u
    BY <1>1 DEF UeInv, BacklogOK
<1>5. \A i \in 1 .. Len(backlog') :
         \/ i \in 1 .. Len(backlog)
         \/ i = Len(backlog) + 1
    BY <1>2, <1>3
<1>6. BacklogOK'
  <2>1. \A i, j \in 1 .. Len(backlog') : backlog'[i] = backlog'[j] => i = j
    BY <1>3, <1>4, <1>5 DEF UeInv, BacklogOK
  <2>2. conn_worker[u] = Nil
    BY <1>1 DEF UeInv, BacklogOK
  <2>3. \A i \in 1 .. Len(backlog') :
           conn_worker'[backlog'[i]] = Nil /\ ran_pc'[backlog'[i]] # "connect"
    BY <1>1, <1>2, <1>3, <1>4, <1>5, <2>2 DEF UeInv, BacklogOK
  <2>4. \A x \in UE : ran_pc'[x] = "connect" => conn_worker'[x] = Nil
    BY <1>1, <1>2 DEF UeInv, BacklogOK
  <2> QED
    BY <2>1, <2>3, <2>4 DEF BacklogOK
<1>7. /\ \A x \in UE \ {u} : View(x)' = View(x)
      /\ View(u)'.pc = "loop" /\ View(u)'.ran = View(u).ran
      /\ View(u)'.up = View(u).up /\ View(u)'.dn = View(u).dn
      /\ View(u)'.at = View(u).at /\ View(u)'.ctx = View(u).ctx /\ View(u)'.ids = View(u).ids
  <2>1. /\ ran_ctx' = [ran_ctx EXCEPT ![u] = ran_ctx[u]]
        /\ s1ap_up' = [s1ap_up EXCEPT ![u] = s1ap_up[u]]
        /\ s1ap_dn' = [s1ap_dn EXCEPT ![u] = s1ap_dn[u]]
    BY <1>1, RanSame
  <2>2. /\ View(u).ran = ran_ctx[u] /\ View(u).up = s1ap_up[u] /\ View(u).dn = s1ap_dn[u]
    BY DEF View
  <2>3. UeSide /\ UNCHANGED <<conn_worker, mmeVars>> /\ ran_pc' = [ran_pc EXCEPT ![u] = "loop"]
    BY <1>1
  <2> HIDE DEF UeSide, TypeInv, TypeOK
  <2>4. /\ \A x \in UE \ {u} : View(x)' = View(x)
        /\ View(u)'.pc = "loop" /\ View(u)'.ran = ran_ctx[u]
        /\ View(u)'.up = s1ap_up[u] /\ View(u)'.dn = s1ap_dn[u]
        /\ View(u)'.at = View(u).at /\ View(u)'.ctx = View(u).ctx /\ View(u)'.ids = View(u).ids
    BY <2>1, <2>3, RanView, ZenonT(30)
  <2> QED
    BY <2>2, <2>4
<1>8. ViewOK(u, View(u)) /\ View(u) \in Views /\ View(u).pc = "connect"
    BY <1>1, ViewType DEF UeInv, View
<1>9. ViewOK(u, View(u)')
    BY <1>7, <1>8, ConnectView
<1> QED
    BY <1>1, <1>6, <1>7, <1>9, RanKeeps

\* The run duration has passed.
LEMMA TimeExceededUe == ASSUME UeSide, NEW u \in UE, RanNext(u), TimeExceeded(u) PROVE UeInv'
<1>1. /\ ran_pc[u] = "loop"
      /\ ran_pc' = [ran_pc EXCEPT ![u] = "done"]
      /\ UNCHANGED <<ran_ctx, s1ap_up, s1ap_dn, backlog, conn_worker, mmeVars, s6aVars, exited>>
    BY DEF TimeExceeded, Leave, Goto, CloseConnection, RanNext
<1>2. /\ ran_pc' = [ran_pc EXCEPT ![u] = "done"]
      /\ ran_ctx' = [ran_ctx EXCEPT ![u] = ran_ctx[u]]
      /\ s1ap_up' = [s1ap_up EXCEPT ![u] = s1ap_up[u]]
      /\ s1ap_dn' = [s1ap_dn EXCEPT ![u] = s1ap_dn[u]]
      /\ UNCHANGED <<conn_worker, mmeVars>>
    BY <1>1, RanSame DEF UeSide
<1>3. /\ \A x \in UE \ {u} : View(x)' = View(x)
      /\ View(u)'.pc = "done" /\ View(u)'.ran = ran_ctx[u]
      /\ View(u)'.up = s1ap_up[u] /\ View(u)'.dn = s1ap_dn[u]
      /\ View(u)'.at = View(u).at /\ View(u)'.ctx = View(u).ctx /\ View(u)'.ids = View(u).ids
    BY <1>2, RanView, ZenonT(30)
<1>4. ViewOK(u, View(u)')
  <2>1. /\ View(u) \in Views /\ ViewOK(u, View(u)) /\ View(u).pc = "loop"
        /\ View(u)'.pc = "done" /\ View(u)'.up = View(u).up /\ View(u)'.dn = View(u).dn
        /\ View(u)'.at = View(u).at /\ View(u)'.ids = View(u).ids
        /\ View(u)'.ctx = View(u).ctx /\ View(u)'.ran = View(u).ran
    BY <1>1, <1>3, Before
  <2> QED
    BY <2>1, LeaveView
<1>5. BacklogOK'
    BY <1>1, BacklogFrame
<1> QED
    BY <1>1, <1>3, <1>4, <1>5, RanKeeps

\* The terminal asks to attach.
LEMMA InitialAttachUe == ASSUME UeSide, NEW u \in UE, RanNext(u), InitialAttach(u) PROVE UeInv'
<1> DEFINE m == [type |-> "initial_attach", id |-> 0, res |-> 0, mac |-> FALSE, teid |-> 0]
<1>m. m \in UpMsg /\ m.type = "initial_attach"
    BY NumberingFacts DEF UpMsg, UpType
<1>1. /\ ran_pc[u] = "loop"
      /\ ran_pc' = [ran_pc EXCEPT ![u] = "authenticate"]
      /\ s1ap_up' = [s1ap_up EXCEPT ![u] = Append(s1ap_up[u], m)]
      /\ UNCHANGED <<ran_ctx, s1ap_dn, backlog, conn_worker, mmeVars, s6aVars, exited>>
    BY DEF InitialAttach, Goto, SendUp, RanNext, connVars
<1> HIDE DEF m
<1>2. /\ ran_pc' = [ran_pc EXCEPT ![u] = "authenticate"]
      /\ s1ap_up' = [s1ap_up EXCEPT ![u] = Append(s1ap_up[u], m)]
      /\ ran_ctx' = [ran_ctx EXCEPT ![u] = ran_ctx[u]]
      /\ s1ap_dn' = [s1ap_dn EXCEPT ![u] = s1ap_dn[u]]
      /\ UNCHANGED <<conn_worker, mmeVars>>
    BY <1>1, RanSame DEF UeSide
<1>3. /\ \A x \in UE \ {u} : View(x)' = View(x)
      /\ View(u)'.pc = "authenticate" /\ View(u)'.ran = ran_ctx[u]
      /\ View(u)'.up = Append(s1ap_up[u], m) /\ View(u)'.dn = s1ap_dn[u]
      /\ View(u)'.at = View(u).at /\ View(u)'.ctx = View(u).ctx /\ View(u)'.ids = View(u).ids
    BY <1>2, RanView, ZenonT(30)
<1>4. ViewOK(u, View(u)')
  <2>1. /\ View(u) \in Views /\ ViewOK(u, View(u)) /\ View(u).pc = "loop"
        /\ View(u)'.pc = "authenticate" /\ View(u)'.up = Append(View(u).up, m)
        /\ View(u)'.dn = View(u).dn
        /\ View(u)'.at = View(u).at /\ View(u)'.ids = View(u).ids
        /\ View(u)'.ctx = View(u).ctx /\ View(u)'.ran = View(u).ran
    BY <1>1, <1>3, Before
  <2> QED
    BY <1>m, <2>1, AttachView
<1>5. BacklogOK'
    BY <1>1, BacklogFrame
<1> QED
    BY <1>1, <1>3, <1>4, <1>5, RanKeeps

\* The terminal checks autn and answers, or gives up.
LEMMA AuthenticateUe == ASSUME UeSide, NEW u \in UE, RanNext(u), Authenticate(u) PROVE UeInv'
<1> DEFINE m   == Head(s1ap_dn[u])
           res == Xres(RanKey(u), m.rand)
           a   == [type |-> "auth_response", id |-> m.id, res |-> res, mac |-> FALSE, teid |-> 0]
<1>m. m \in DnMsg
    BY RcvDnType DEF Authenticate, UeSide, TypeInv, TypeOK
<1>a. a \in UpMsg /\ a.type = "auth_response" /\ a.id = m.id /\ a.res = res
  <2>1. RanKey(u) \in Nat /\ m.rand \in Nat /\ m.id \in Nat
    BY <1>m, UEFacts DEF RanKey, DnMsg
  <2> QED
    BY <2>1, KeyFacts, NumberingFacts DEF UpMsg, UpType
<1>1. /\ ran_pc[u] = "authenticate" /\ s1ap_dn[u] # <<>>
      /\ s1ap_dn' = [s1ap_dn EXCEPT ![u] = Tail(s1ap_dn[u])]
      /\ UNCHANGED <<backlog, conn_worker, mmeVars, s6aVars, exited>>
    BY DEF Authenticate, RcvDn, RanNext, connVars, Leave, CloseConnection
<1>2. CASE Autn(res) # m.autn
  <2> DEFINE ctx == [ran_ctx[u] EXCEPT !.mme_s1ap_ue_id = m.id]
  <2>1. /\ ran_pc' = [ran_pc EXCEPT ![u] = "failed"]
        /\ ran_ctx' = [ran_ctx EXCEPT ![u] = ctx]
        /\ s1ap_up' = s1ap_up
    BY <1>2 DEF Authenticate, Leave, Goto
  <2> HIDE DEF m, res, a, ctx
  <2>2. /\ ran_pc' = [ran_pc EXCEPT ![u] = "failed"]
        /\ ran_ctx' = [ran_ctx EXCEPT ![u] = ctx]
        /\ s1ap_up' = [s1ap_up EXCEPT ![u] = s1ap_up[u]]
        /\ s1ap_dn' = [s1ap_dn EXCEPT ![u] = Tail(s1ap_dn[u])]
        /\ UNCHANGED <<conn_worker, mmeVars>>
    BY <1>1, <2>1, RanSame DEF UeSide
  <2>3. /\ \A x \in UE \ {u} : View(x)' = View(x)
        /\ View(u)'.pc = "failed" /\ View(u)'.ran = ctx
        /\ View(u)'.up = s1ap_up[u] /\ View(u)'.dn = Tail(s1ap_dn[u])
        /\ View(u)'.at = View(u).at /\ View(u)'.ctx = View(u).ctx /\ View(u)'.ids = View(u).ids
    BY <2>2, RanView, ZenonT(90)
  <2>4. ViewOK(u, View(u)')
    <3>1. /\ View(u) \in Views /\ ViewOK(u, View(u)) /\ View(u).pc = "authenticate"
          /\ View(u).dn # <<>>
          /\ View(u)'.pc = "failed" /\ View(u)'.up = View(u).up
          /\ View(u)'.dn = Tail(View(u).dn)
          /\ View(u)'.at = View(u).at /\ View(u)'.ids = View(u).ids
          /\ View(u)'.ctx = View(u).ctx
      BY <1>1, <2>3, Before
    <3> QED
      BY <3>1, RefuseView
  <2>5. BacklogOK'
    BY <1>1, <2>1, BacklogFrame
  <2> QED
    BY <1>1, <2>3, <2>4, <2>5, RanKeeps
<1>3. CASE Autn(res) = m.autn
  <2> DEFINE ctx == [ran_ctx[u] EXCEPT !.mme_s1ap_ue_id = m.id, !.k_asme = KAsme(res, m.rand)]
  <2>1. /\ ran_pc' = [ran_pc EXCEPT ![u] = "set_security"]
        /\ ran_ctx' = [ran_ctx EXCEPT ![u] = ctx]
        /\ s1ap_up' = [s1ap_up EXCEPT ![u] = Append(s1ap_up[u], a)]
    <3>1. ran_ctx' = [ran_ctx EXCEPT ![u].mme_s1ap_ue_id = m.id,
                                     ![u].k_asme = KAsme(res, m.rand)]
      BY <1>3 DEF Authenticate
    <3> QED
      BY <1>3, <3>1 DEF Authenticate, SendUp, Goto, UeSide, TypeInv, TypeOK, RanTypeOK
  <2>c. ctx.mme_s1ap_ue_id = m.id /\ ctx.k_asme = KAsme(res, m.rand)
    BY DEF UeSide, TypeInv, TypeOK, RanTypeOK, RanContext
  <2>r. res = Xres(RanKey(u), m.rand) /\ m = Head(View(u).dn)
    BY Before
  <2> HIDE DEF m, res, a, ctx
  <2>2. UNCHANGED <<conn_worker, mmeVars>>
    BY <1>1
  <2>3. /\ \A x \in UE \ {u} : View(x)' = View(x)
        /\ View(u)'.pc = "set_security" /\ View(u)'.ran = ctx
        /\ View(u)'.up = Append(s1ap_up[u], a) /\ View(u)'.dn = Tail(s1ap_dn[u])
        /\ View(u)'.at = View(u).at /\ View(u)'.ctx = View(u).ctx /\ View(u)'.ids = View(u).ids
    BY <1>1, <2>1, <2>2, RanView, ZenonT(90)
  <2>4. ViewOK(u, View(u)')
    <3>1. View(u).pc = "authenticate" /\ View(u).dn # <<>> /\ View(u)'.up = Append(View(u).up, a)
          /\ View(u)'.dn = Tail(View(u).dn)
      BY <1>1, <2>3, Before
    <3> QED
      BY <1>a, <1>3, <2>c, <2>r, <2>3, <3>1, Before, AuthenticateView
  <2>5. BacklogOK'
    BY <1>1, <2>1, BacklogFrame
  <2> QED
    BY <1>1, <2>3, <2>4, <2>5, RanKeeps
<1> QED
    BY <1>2, <1>3

\* A thread that waits gets the answer it waits for, with its HMAC.
LEMMA RcvFacts ==
    ASSUME UeSide, NEW u \in UE, s1ap_dn[u] # <<>>, ran_pc[u] # "authenticate"
    PROVE  Head(s1ap_dn[u]).mac
<1>1. /\ View(u) \in Views /\ ViewOK(u, View(u)) /\ View(u).dn # <<>>
      /\ View(u).pc # "authenticate" /\ View(u).dn = s1ap_dn[u]
    BY Before
<1>2. Head(View(u).dn).mac
    BY <1>1, AnswerView
<1> QED
    BY <1>1, <1>2

\* The terminal derives the NAS key and confirms.
LEMMA SetSecurityUe == ASSUME UeSide, NEW u \in UE, RanNext(u), SetSecurity(u) PROVE UeInv'
<1> DEFINE ctx == [ran_ctx[u] EXCEPT !.k_nas = KNasRan(ran_ctx[u].k_asme)]
           a   == Secured(ctx, "security_complete", 0)
<1>t. ran_ctx[u] \in RanContext /\ ran_ctx[u].k_asme \in Nat
    BY DEF UeSide, TypeInv, TypeOK, RanTypeOK, RanContext
<1>c. /\ ctx.mme_s1ap_ue_id = ran_ctx[u].mme_s1ap_ue_id /\ ctx.k_asme = ran_ctx[u].k_asme
      /\ ctx.k_nas = KNasRan(ran_ctx[u].k_asme) /\ ctx \in RanContext
    BY <1>t, KeyFacts DEF RanContext
<1>a. /\ a \in UpMsg /\ a.type = "security_complete" /\ a.mac
      /\ a.id = ran_ctx[u].mme_s1ap_ue_id
    BY <1>c, SecuredType, NumberingFacts DEF Secured, UpType
<1>1. ran_pc[u] = "set_security" /\ s1ap_dn[u] # <<>>
    BY DEF SetSecurity, RcvDn
<1>2. Head(s1ap_dn[u]).mac
    BY <1>1, RcvFacts
<1>3. /\ ran_pc' = [ran_pc EXCEPT ![u] = "set_eps_session"]
      /\ ran_ctx' = [ran_ctx EXCEPT ![u] = ctx]
      /\ s1ap_up' = [s1ap_up EXCEPT ![u] = Append(s1ap_up[u], a)]
      /\ s1ap_dn' = [s1ap_dn EXCEPT ![u] = Tail(s1ap_dn[u])]
      /\ UNCHANGED <<conn_worker, mmeVars>>
    BY <1>2 DEF SetSecurity, RcvDn, Goto, SendUp, RanNext, connVars
<1>4. UNCHANGED <<backlog, conn_worker, mmeVars, s6aVars, exited>>
    BY <1>2 DEF SetSecurity, RanNext, connVars
<1> HIDE DEF ctx, a
<1>5. /\ \A x \in UE \ {u} : View(x)' = View(x)
      /\ View(u)'.pc = "set_eps_session" /\ View(u)'.ran = ctx
      /\ View(u)'.up = Append(s1ap_up[u], a) /\ View(u)'.dn = Tail(s1ap_dn[u])
      /\ View(u)'.at = View(u).at /\ View(u)'.ctx = View(u).ctx /\ View(u)'.ids = View(u).ids
    BY <1>3, RanView, ZenonT(90)
<1>6. ViewOK(u, View(u)')
  <2>1. /\ View(u) \in Views /\ ViewOK(u, View(u)) /\ View(u).pc = "set_security"
        /\ View(u).dn # <<>> /\ a.id = View(u).ran.mme_s1ap_ue_id
        /\ View(u)'.pc = "set_eps_session" /\ View(u)'.up = Append(View(u).up, a)
        /\ View(u)'.dn = Tail(View(u).dn)
        /\ View(u)'.at = View(u).at /\ View(u)'.ids = View(u).ids
        /\ View(u)'.ctx = View(u).ctx
        /\ View(u)'.ran.mme_s1ap_ue_id = View(u).ran.mme_s1ap_ue_id
        /\ View(u)'.ran.k_asme = View(u).ran.k_asme
        /\ View(u)'.ran.k_nas = KNasRan(View(u).ran.k_asme)
    BY <1>a, <1>c, <1>1, <1>5, Before
  <2> QED
    BY <1>a, <2>1, SecurityView
<1>7. BacklogOK'
    BY <1>3, <1>4, BacklogFrame
<1> QED
    BY <1>4, <1>5, <1>6, <1>7, RanKeeps

\* The terminal stores its bearer.
LEMMA SetEpsSessionUe == ASSUME UeSide, NEW u \in UE, RanNext(u), SetEpsSession(u) PROVE UeInv'
<1> DEFINE m   == Head(s1ap_dn[u])
           ctx == [ran_ctx[u] EXCEPT !.s1_uteid_ul = m.teid, !.s1_uteid_dl = m.teid,
                                     !.ip_addr = m.ip]
           a   == Secured(ran_ctx[u], "attach_complete", m.teid)
<1>t. ran_ctx[u] \in RanContext
    BY DEF UeSide, TypeInv, TypeOK, RanTypeOK
<1>m. m \in DnMsg
    BY RcvDnType DEF SetEpsSession, UeSide, TypeInv, TypeOK
<1>c. /\ ctx.mme_s1ap_ue_id = ran_ctx[u].mme_s1ap_ue_id /\ ctx.k_asme = ran_ctx[u].k_asme
      /\ ctx.k_nas = ran_ctx[u].k_nas
    BY <1>t DEF RanContext
<1>a. /\ a \in UpMsg /\ a.type = "attach_complete" /\ a.mac
      /\ a.id = ran_ctx[u].mme_s1ap_ue_id
    BY <1>t, <1>m, SecuredType DEF Secured, UpType, DnMsg
<1>1. ran_pc[u] = "set_eps_session" /\ s1ap_dn[u] # <<>>
    BY DEF SetEpsSession, RcvDn
<1>2. m.mac
    BY <1>1, RcvFacts
<1>3. /\ ran_pc' = [ran_pc EXCEPT ![u] = "transfer"]
      /\ ran_ctx' = [ran_ctx EXCEPT ![u] = ctx]
      /\ s1ap_up' = [s1ap_up EXCEPT ![u] = Append(s1ap_up[u], a)]
      /\ s1ap_dn' = [s1ap_dn EXCEPT ![u] = Tail(s1ap_dn[u])]
      /\ UNCHANGED <<conn_worker, mmeVars>>
  <2>1. ran_ctx' = [ran_ctx EXCEPT ![u].s1_uteid_ul = m.teid, ![u].s1_uteid_dl = m.teid,
                                   ![u].ip_addr = m.ip]
    BY <1>2 DEF SetEpsSession
  <2>2. ran_ctx' = [ran_ctx EXCEPT ![u] = ctx]
    BY <2>1 DEF UeSide, TypeInv, TypeOK, RanTypeOK
  <2> QED
    BY <1>2, <2>2 DEF SetEpsSession, RcvDn, Goto, SendUp, RanNext, connVars
<1>4. UNCHANGED <<backlog, conn_worker, mmeVars, s6aVars, exited>>
    BY <1>2 DEF SetEpsSession, RanNext, connVars
<1> HIDE DEF ctx, a, m
<1>5. /\ \A x \in UE \ {u} : View(x)' = View(x)
      /\ View(u)'.pc = "transfer" /\ View(u)'.ran = ctx
      /\ View(u)'.up = Append(s1ap_up[u], a) /\ View(u)'.dn = Tail(s1ap_dn[u])
      /\ View(u)'.at = View(u).at /\ View(u)'.ctx = View(u).ctx /\ View(u)'.ids = View(u).ids
    BY <1>3, RanView, ZenonT(90)
<1>6. ViewOK(u, View(u)')
  <2>1. /\ View(u) \in Views /\ ViewOK(u, View(u)) /\ View(u).pc = "set_eps_session"
        /\ View(u).dn # <<>> /\ a.id = View(u).ran.mme_s1ap_ue_id
        /\ ctx.mme_s1ap_ue_id = View(u).ran.mme_s1ap_ue_id
        /\ ctx.k_asme = View(u).ran.k_asme /\ ctx.k_nas = View(u).ran.k_nas
        /\ View(u)'.pc = "transfer" /\ View(u)'.up = Append(View(u).up, a)
        /\ View(u)'.dn = Tail(View(u).dn)
        /\ View(u)'.at = View(u).at /\ View(u)'.ids = View(u).ids
        /\ View(u)'.ctx = View(u).ctx /\ View(u)'.ran = ctx
    BY <1>a, <1>c, <1>1, <1>5, Before
  <2> QED
    BY <1>a, <2>1, AcceptedView
<1>7. BacklogOK'
    BY <1>3, <1>4, BacklogFrame
<1> QED
    BY <1>4, <1>5, <1>6, <1>7, RanKeeps

\* The terminal asks to leave.
LEMMA DetachRequestUe == ASSUME UeSide, NEW u \in UE, RanNext(u), DetachRequest(u) PROVE UeInv'
<1> DEFINE a == Secured(ran_ctx[u], "detach_request", 0)
<1>a. /\ a \in UpMsg /\ a.type = "detach_request" /\ a.mac
      /\ a.id = ran_ctx[u].mme_s1ap_ue_id
  <2>1. ran_ctx[u] \in RanContext
    BY DEF UeSide, TypeInv, TypeOK, RanTypeOK
  <2> QED
    BY <2>1, SecuredType, NumberingFacts DEF Secured, UpType
<1>1. ran_pc[u] = "transfer"
    BY DEF DetachRequest
<1>3. /\ ran_pc' = [ran_pc EXCEPT ![u] = "detach"]
      /\ ran_ctx' = [ran_ctx EXCEPT ![u] = ran_ctx[u]]
      /\ s1ap_up' = [s1ap_up EXCEPT ![u] = Append(s1ap_up[u], a)]
      /\ s1ap_dn' = [s1ap_dn EXCEPT ![u] = s1ap_dn[u]]
      /\ UNCHANGED <<conn_worker, mmeVars>>
  <2>1. ran_ctx' = ran_ctx /\ s1ap_dn' = s1ap_dn
    BY DEF DetachRequest
  <2> QED
    BY <2>1, RanSame DEF DetachRequest, Goto, SendUp, RanNext, connVars, UeSide
<1>4. UNCHANGED <<backlog, conn_worker, mmeVars, s6aVars, exited>>
    BY DEF DetachRequest, RanNext, connVars
<1> HIDE DEF a
<1>5. /\ \A x \in UE \ {u} : View(x)' = View(x)
      /\ View(u)'.pc = "detach" /\ View(u)'.ran = ran_ctx[u]
      /\ View(u)'.up = Append(s1ap_up[u], a) /\ View(u)'.dn = s1ap_dn[u]
      /\ View(u)'.at = View(u).at /\ View(u)'.ctx = View(u).ctx /\ View(u)'.ids = View(u).ids
    BY <1>3, RanView, ZenonT(30)
<1>6. ViewOK(u, View(u)')
  <2>1. /\ View(u) \in Views /\ ViewOK(u, View(u)) /\ View(u).pc = "transfer"
        /\ a.id = View(u).ran.mme_s1ap_ue_id
        /\ View(u)'.pc = "detach" /\ View(u)'.up = Append(View(u).up, a)
        /\ View(u)'.dn = View(u).dn
        /\ View(u)'.at = View(u).at /\ View(u)'.ids = View(u).ids
        /\ View(u)'.ctx = View(u).ctx /\ View(u)'.ran = View(u).ran
    BY <1>a, <1>1, <1>5, Before
  <2> QED
    BY <1>a, <2>1, ReleaseView
<1>7. BacklogOK'
    BY <1>3, <1>4, BacklogFrame
<1> QED
    BY <1>4, <1>5, <1>6, <1>7, RanKeeps

\* The terminal has left and starts over.
LEMMA DetachCompleteUe == ASSUME UeSide, NEW u \in UE, RanNext(u), DetachComplete(u) PROVE UeInv'
<1>1. ran_pc[u] = "detach" /\ s1ap_dn[u] # <<>>
    BY DEF DetachComplete, RcvDn
<1>2. Head(s1ap_dn[u]).mac
    BY <1>1, RcvFacts
<1>3. /\ ran_pc' = [ran_pc EXCEPT ![u] = "loop"]
      /\ ran_ctx' = [ran_ctx EXCEPT ![u] = ran_ctx[u]]
      /\ s1ap_up' = [s1ap_up EXCEPT ![u] = s1ap_up[u]]
      /\ s1ap_dn' = [s1ap_dn EXCEPT ![u] = Tail(s1ap_dn[u])]
      /\ UNCHANGED <<conn_worker, mmeVars>>
  <2>1. ran_ctx' = ran_ctx /\ s1ap_up' = s1ap_up
    BY DEF DetachComplete
  <2> QED
    BY <1>2, <2>1, RanSame DEF DetachComplete, RcvDn, Goto, RanNext, connVars, UeSide
<1>4. UNCHANGED <<backlog, conn_worker, mmeVars, s6aVars, exited>>
    BY <1>2 DEF DetachComplete, RanNext, connVars
<1>5. /\ \A x \in UE \ {u} : View(x)' = View(x)
      /\ View(u)'.pc = "loop" /\ View(u)'.ran = ran_ctx[u]
      /\ View(u)'.up = s1ap_up[u] /\ View(u)'.dn = Tail(s1ap_dn[u])
      /\ View(u)'.at = View(u).at /\ View(u)'.ctx = View(u).ctx /\ View(u)'.ids = View(u).ids
    BY <1>3, RanView, ZenonT(30)
<1>6. ViewOK(u, View(u)')
  <2>1. /\ View(u) \in Views /\ ViewOK(u, View(u)) /\ View(u).pc = "detach"
        /\ View(u).dn # <<>>
        /\ View(u)'.pc = "loop" /\ View(u)'.up = View(u).up
        /\ View(u)'.dn = Tail(View(u).dn)
        /\ View(u)'.at = View(u).at /\ View(u)'.ids = View(u).ids
        /\ View(u)'.ctx = View(u).ctx /\ View(u)'.ran = View(u).ran
    BY <1>1, <1>5, Before
  <2> QED
    BY <2>1, ReleasedView
<1>7. BacklogOK'
    BY <1>3, <1>4, BacklogFrame
<1> QED
    BY <1>4, <1>5, <1>6, <1>7, RanKeeps

\* Every step of a RAN thread.
LEMMA RanUe == ASSUME UeSide, NEW u \in UE, RanNext(u) PROVE UeInv'
BY ConnMmeUe, TimeExceededUe, InitialAttachUe, AuthenticateUe, SetSecurityUe, SetEpsSessionUe,
   DetachRequestUe, DetachCompleteUe DEF RanNext, RanStep

-----------------------------------------------------------------------------
(* The master thread of the S1-MME server.                                 *)

\* A connection is accepted by a worker that does not serve it yet.
LEMMA AcceptUe == ASSUME UeSide, AcceptNext PROVE UeInv'
<1> DEFINE b == Head(backlog)
<1>1. /\ backlog # <<>> /\ backlog \in Seq(UE)
      /\ conn_worker' = [conn_worker EXCEPT ![b] = turn]
      /\ backlog' = Tail(backlog)
      /\ UNCHANGED <<ran_pc, ran_ctx, s1ap_up, s1ap_dn, mmeVars, s6aVars, exited>>
    BY DEF AcceptNext, AcceptConnection, AcceptClient, ranVars, s1apVars, UeSide, TypeInv,
           TypeOK, SctpTypeOK
<1>2. /\ conn_worker \in [UE -> Worker \cup {Nil}] /\ turn \in Worker
      /\ ran_pc \in [UE -> RanPc]
    BY DEF UeSide, TypeInv, TypeOK, SctpTypeOK, RanTypeOK
<1>3. /\ Len(backlog) \in Nat \ {0} /\ Len(backlog') = Len(backlog) - 1 /\ b = backlog[1]
      /\ \A i \in 1 .. Len(backlog) - 1 : backlog'[i] = backlog[i + 1]
      /\ \A i \in 1 .. Len(backlog) : backlog[i] \in UE
    BY <1>1, TakeFacts
<1> HIDE DEF b
<1>4. b \in UE /\ conn_worker[b] = Nil /\ ran_pc[b] # "connect"
    BY <1>3 DEF UeSide, UeInv, BacklogOK
<1>5. \A w \in Worker : mme_job[w].conn # b
    BY <1>4, UEFacts DEF UeSide, UeInv, WorkersOK, NoMmeJob
<1>6. \A x \in UE : Handler(x)' = Handler(x)
    BY <1>1, <1>2, <1>4, <1>5, UEFacts DEF Handler, mmeVars
<1>7. \A x \in UE : View(x)' = View(x)
    BY <1>1, <1>6 DEF View, mmeVars, Entries
<1>8. \A x \in UE : ViewOK(x, View(x))'
    BY <1>7, NoView DEF UeSide
<1>9. WorkersOK'
  <2> SUFFICES ASSUME NEW w \in Worker
               PROVE  IF mme_pc[w] = "idle" THEN mme_job[w] = NoMmeJob
                      ELSE /\ conn_worker'[mme_job[w].conn] = w
                           /\ mme_job[w].guti = mme_job[w].conn
    BY <1>1 DEF WorkersOK, mmeVars
  <2>1. mme_pc[w] # "idle" => mme_job[w].conn \in UE
    BY DEF UeSide, TypeInv, MmeJobsOK
  <2> QED
    BY <1>1, <1>2, <1>5, <2>1 DEF UeSide, UeInv, WorkersOK
<1>10. VectorsOK' /\ OnlyGatewaysExit'
    BY <1>1 DEF UeSide, UeInv, VectorsOK, OnlyGatewaysExit, s6aVars, mmeVars
<1>11. BacklogOK'
  <2>1. \A i, j \in 1 .. Len(backlog') : backlog'[i] = backlog'[j] => i = j
    <3> SUFFICES ASSUME NEW i \in 1 .. Len(backlog'), NEW j \in 1 .. Len(backlog'),
                        backlog'[i] = backlog'[j]
                 PROVE  i = j
      OBVIOUS
    <3>1. i + 1 \in 1 .. Len(backlog) /\ j + 1 \in 1 .. Len(backlog)
      BY <1>3
    <3>2. backlog[i + 1] = backlog[j + 1]
      BY <1>3
    <3>3. i + 1 = j + 1
      BY <3>1, <3>2 DEF UeSide, UeInv, BacklogOK
    <3> QED
      BY <3>3, <1>3
  <2>2. ASSUME NEW i \in 1 .. Len(backlog')
        PROVE  conn_worker'[backlog'[i]] = Nil /\ ran_pc'[backlog'[i]] # "connect"
    <3>1. i + 1 \in 1 .. Len(backlog) /\ 1 \in 1 .. Len(backlog) /\ i + 1 # 1
      BY <1>3
    <3>2. backlog'[i] = backlog[i + 1] /\ backlog[i + 1] # b /\ backlog[i + 1] \in UE
      BY <1>3, <3>1 DEF UeSide, UeInv, BacklogOK
    <3> QED
      BY <1>1, <1>2, <3>1, <3>2 DEF UeSide, UeInv, BacklogOK
  <2>3. \A x \in UE : ran_pc'[x] = "connect" => conn_worker'[x] = Nil
    BY <1>1, <1>2, <1>4 DEF UeSide, UeInv, BacklogOK
  <2> QED
    BY <2>1, <2>2, <2>3 DEF BacklogOK
<1> QED
    BY <1>8, <1>9, <1>10, <1>11 DEF UeInv

-----------------------------------------------------------------------------
(* Steps of the workers.                                                   *)

\* What operator[] finds or creates is a context.
LEMMA MmeCtxType ==
    ASSUME MmeTypeOK, NEW u \in UE
    PROVE  MmeCtx(u) \in MmeContext
BY NumberingFacts DEF MmeTypeOK, MmeCtx, NewMmeContext, MmeContext, Ip

\* What a worker may do to the state of other subscribers and workers: nothing.
\* A handler it is in afterwards is for the subscriber it serves.
WorkerOnly(w, u) ==
    /\ conn_worker[u] = w
    /\ mme_job[w].conn = u \/ mme_job[w].conn = Nil
    /\ \A v \in Worker \ {w} : mme_pc'[v] = mme_pc[v] /\ mme_job'[v] = mme_job[v]
    /\ IF mme_pc'[w] = "idle" THEN mme_job'[w] = NoMmeJob
       ELSE mme_job'[w].conn = u /\ mme_job'[w].guti = u
    /\ \A x \in UE \ {u} :
          /\ s1ap_up'[x] = s1ap_up[x] /\ s1ap_dn'[x] = s1ap_dn[x] /\ mme_ctx'[x] = mme_ctx[x]
          /\ Entries(s1mme_id, x)' = Entries(s1mme_id, x)
    /\ UNCHANGED <<conn_worker, backlog, ran_pc, ran_ctx, exited>>

\* A worker touches the view of the subscriber it serves only.
LEMMA WorkerView ==
    ASSUME UeSide, NEW w \in Worker, NEW u \in UE, WorkerOnly(w, u)
    PROVE  /\ \A x \in UE \ {u} : View(x)' = View(x)
           /\ View(u)'.pc = View(u).pc /\ View(u)'.ran = View(u).ran
           /\ View(u)'.up = s1ap_up'[u] /\ View(u)'.dn = s1ap_dn'[u]
           /\ View(u)'.ctx = mme_ctx'[u]
           /\ View(u)'.at.pc = mme_pc'[w] /\ View(u)'.at.id = mme_job'[w].id
           /\ View(u)'.ids = Entries(s1mme_id, u)'
           /\ WorkersOK'
<1> USE DEF WorkerOnly
<1>1. conn_worker \in [UE -> Worker \cup {Nil}]
    BY DEF UeSide, TypeInv, TypeOK, SctpTypeOK
<1>2. Nil # u /\ w # Nil
    BY UEFacts
<1>5. \A x \in UE \ {u} : Handler(x)' = Handler(x)
  <2> SUFFICES ASSUME NEW x \in UE \ {u} PROVE Handler(x)' = Handler(x)
    OBVIOUS
  <2>1. CASE conn_worker[x] = w
    <3>1. mme_job[w].conn # x /\ mme_job'[w].conn # x
      BY <1>2, UEFacts DEF NoMmeJob
    <3> QED
      BY <2>1, <3>1 DEF Handler
  <2>2. CASE conn_worker[x] = Nil
    BY <2>2 DEF Handler
  <2>3. CASE conn_worker[x] \in Worker \ {w}
    BY <2>3 DEF Handler
  <2> QED
    BY <1>1, <2>1, <2>2, <2>3
<1>6. Handler(u)'.pc = mme_pc'[w] /\ Handler(u)'.id = mme_job'[w].id
  <2>1. CASE mme_pc'[w] = "idle"
    BY <1>2, <2>1 DEF Handler, NoMmeJob
  <2>2. CASE mme_pc'[w] # "idle"
    BY <1>2, <2>2 DEF Handler
  <2> QED
    BY <2>1, <2>2
<1>7. \A x \in UE \ {u} : View(x)' = View(x)
    BY <1>1, <1>5 DEF View
<1>8. /\ View(u)'.pc = View(u).pc /\ View(u)'.ran = View(u).ran
      /\ View(u)'.up = s1ap_up'[u] /\ View(u)'.dn = s1ap_dn'[u] /\ View(u)'.ctx = mme_ctx'[u]
      /\ View(u)'.at.pc = mme_pc'[w] /\ View(u)'.at.id = mme_job'[w].id
      /\ View(u)'.ids = Entries(s1mme_id, u)'
    BY <1>6 DEF View
<1>9. WorkersOK'
    BY DEF WorkersOK, UeSide, UeInv
<1> QED
    BY <1>7, <1>8, <1>9

\* ... and no connection.
LEMMA MmeKeeps ==
    ASSUME UeSide, NEW w \in Worker, NEW u \in UE, WorkerOnly(w, u), ViewOK(u, View(u)'),
           VectorsOK'
    PROVE  UeInv'
<1>1. WorkersOK' /\ \A x \in UE \ {u} : View(x)' = View(x)
    BY WorkerView
<1>2. \A x \in UE : ViewOK(x, View(x))'
    BY <1>1, OneView DEF UeSide
<1>3. BacklogOK' /\ OnlyGatewaysExit'
    BY DEF UeSide, UeInv, BacklogOK, OnlyGatewaysExit, WorkerOnly
<1> QED
    BY <1>1, <1>2, <1>3 DEF UeInv

\* A worker that waits for no vector disturbs none.
LEMMA VectorsFrame ==
    ASSUME UeSide, NEW w \in Worker, mme_pc[w] # "autn_info", NEW job,
           mme_job' = [mme_job EXCEPT ![w] = job], UNCHANGED s6aVars
    PROVE  VectorsOK'
<1>1. \A m \in s6a_req \cup s6a_rsp : m.w \in Worker \ {w}
    BY DEF UeSide, OneCall, S6aCalls, S6aAwaited, TypeInv, TypeOK, S6aTypeOK, S6aReq, S6aRsp
<1>2. \A v \in Worker \ {w} : mme_job'[v] = mme_job[v]
    BY DEF UeSide, TypeInv, TypeOK, MmeTypeOK
<1> QED
    BY <1>1, <1>2 DEF UeSide, UeInv, VectorsOK, s6aVars

\* Ids that nobody enters or removes.
LEMMA IdsSame == ASSUME s1mme_id' = s1mme_id PROVE \A x \in UE : Entries(s1mme_id, x)' = Entries(s1mme_id, x)
BY DEF Entries

\* What a worker leaves alone is the same for it too.
LEMMA MmeSame ==
    ASSUME TypeInv, NEW u \in UE, NEW w \in Worker
    PROVE  /\ s1ap_up = [s1ap_up EXCEPT ![u] = s1ap_up[u]]
           /\ s1ap_dn = [s1ap_dn EXCEPT ![u] = s1ap_dn[u]]
           /\ mme_ctx = [mme_ctx EXCEPT ![u] = mme_ctx[u]]
           /\ mme_pc = [mme_pc EXCEPT ![w] = mme_pc[w]]
           /\ mme_job = [mme_job EXCEPT ![w] = mme_job[w]]
BY DEF TypeInv, TypeOK, MmeTypeOK, SctpTypeOK

\* A worker that takes a message serves nobody else.
LEMMA ReceiveFacts ==
    ASSUME UeSide, NEW w \in Worker, NEW u \in UE, NEW type, Receive(w, u, type)
    PROVE  /\ mme_pc[w] = "idle" /\ conn_worker[u] = w /\ mme_job[w] = NoMmeJob
           /\ mme_job[w].conn = Nil
           /\ View(u).at.pc = "idle" /\ View(u).at = [pc |-> "idle", id |-> 0]
           /\ View(u).up # <<>> /\ Head(View(u).up).type = type
           /\ View(u).up = s1ap_up[u]
           /\ s1ap_up' = [s1ap_up EXCEPT ![u] = Tail(s1ap_up[u])]
<1>1. mme_pc[w] = "idle" /\ conn_worker[u] = w /\ s1ap_up[u] # <<>>
      /\ Head(s1ap_up[u]).type = type /\ s1ap_up' = [s1ap_up EXCEPT ![u] = Tail(s1ap_up[u])]
    BY DEF Receive
<1>2. mme_job[w] = NoMmeJob /\ mme_job[w].conn = Nil
    BY <1>1 DEF UeSide, UeInv, WorkersOK, NoMmeJob
<1>3. Handler(u) = [pc |-> "idle", id |-> 0]
    BY <1>1, IdleHandler DEF UeSide, UeInv
<1> QED
    BY <1>1, <1>2, <1>3, Before

\* A new id, and a question to the HSS.
LEMMA HandleInitialAttachUe ==
    ASSUME UeSide, NEW w \in Worker, NEW u \in UE, MmeNext(w), HandleInitialAttach(w, u)
    PROVE  UeInv'
<1> DEFINE id  == ue_count + 1
           job == [conn |-> u, id |-> id, guti |-> u]
           ctx == [MmeCtx(u) EXCEPT !.mme_s1ap_ue_id = ue_count + 1]
<1>r. Receive(w, u, "initial_attach")
    BY DEF HandleInitialAttach
<1>1. /\ mme_pc[w] = "idle" /\ conn_worker[u] = w /\ mme_job[w].conn = Nil
      /\ View(u).at.pc = "idle" /\ View(u).up # <<>> /\ Head(View(u).up).type = "initial_attach"
      /\ View(u).up = s1ap_up[u]
      /\ s1ap_up' = [s1ap_up EXCEPT ![u] = Tail(s1ap_up[u])]
    BY <1>r, ReceiveFacts
<1>2. /\ mme_pc' = [mme_pc EXCEPT ![w] = "autn_info"]
      /\ mme_job' = [mme_job EXCEPT ![w] = job]
      /\ mme_ctx' = [mme_ctx EXCEPT ![u] = ctx]
      /\ s1mme_id' = [i \in 1 .. id |-> IF i = id THEN u ELSE s1mme_id[i]]
      /\ s6a_req' = s6a_req \cup {[w |-> w, imsi |-> u]} /\ s6a_rsp' = s6a_rsp
      /\ UNCHANGED <<s1ap_dn, backlog, conn_worker, ran_pc, ran_ctx, exited>>
    BY DEF HandleInitialAttach, Block, MmeNext, connVars, ranVars
<1>3. View(u).ids = {} /\ View(u) \in Views /\ ViewOK(u, View(u)) /\ View(u).dn = s1ap_dn[u]
      /\ View(u).ids = Entries(s1mme_id, u)
    BY <1>1, Before, RequestView
<1>4. ue_count \in Nat /\ id \in Nat /\ DOMAIN s1mme_id = 1 .. ue_count
      /\ id \notin 1 .. ue_count /\ 1 .. id = (1 .. ue_count) \cup {id}
    BY DEF UeSide, TypeInv, TypeOK, MmeTypeOK
<1>5. \A x \in UE \ {u} : Entries(s1mme_id, x)' = Entries(s1mme_id, x)
    BY <1>2, <1>4 DEF Entries
<1>6. Entries(s1mme_id, u)' = {id}
    BY <1>2, <1>3, <1>4 DEF Entries
<1>7. job.conn = u /\ job.guti = u /\ job.id = id
    OBVIOUS
<1>8. VectorsOK'
  <2>1. \A m \in s6a_req \cup s6a_rsp : m.w \in Worker \ {w}
    BY <1>1 DEF UeSide, OneCall, S6aCalls, S6aAwaited, TypeInv, TypeOK, S6aTypeOK, S6aReq, S6aRsp
  <2>2. mme_job'[w] = job /\ \A v \in Worker \ {w} : mme_job'[v] = mme_job[v]
    BY <1>2 DEF UeSide, TypeInv, TypeOK, MmeTypeOK
  <2>3. \A m \in s6a_rsp' : m = AutnInfo(m.w, mme_job'[m.w].guti)
    BY <1>2, <2>1, <2>2 DEF UeSide, UeInv, VectorsOK
  <2>4. \A m \in s6a_req' : m.imsi = mme_job'[m.w].guti
    BY <1>2, <1>7, <2>1, <2>2 DEF UeSide, UeInv, VectorsOK
  <2> QED
    BY <2>3, <2>4 DEF VectorsOK
<1>9. WorkerOnly(w, u) /\ mme_pc'[w] = "autn_info" /\ mme_job'[w].id = id
      /\ s1ap_up'[u] = Tail(s1ap_up[u]) /\ s1ap_dn'[u] = s1ap_dn[u]
    BY <1>1, <1>2, <1>5 DEF WorkerOnly, UeSide, TypeInv, TypeOK, SctpTypeOK, MmeTypeOK
<1> HIDE DEF id, job, ctx
<1>10. ViewOK(u, View(u)')
  <2>1. /\ View(u)'.pc = View(u).pc /\ View(u)'.ran = View(u).ran
        /\ View(u)'.up = Tail(View(u).up) /\ View(u)'.dn = View(u).dn
        /\ View(u)'.at.pc = "autn_info" /\ View(u)'.at.id = id /\ View(u)'.ids = {id}
    BY <1>1, <1>3, <1>6, <1>9, WorkerView
  <2> QED
    BY <1>1, <1>3, <1>4, <2>1, InitialAttachView
<1> QED
    BY <1>8, <1>9, <1>10, MmeKeeps

\* The answer of the HSS goes to the terminal.
LEMMA AutnInfoAnswerUe ==
    ASSUME UeSide, NEW w \in Worker, NEW u \in UE, mme_job[w].conn = u, MmeNext(w),
           AutnInfoAnswer(w)
    PROVE  UeInv'
<1>1. mme_pc[w] = "autn_info"
    BY DEF AutnInfoAnswer
<1>2. mme_job[w].guti = u /\ conn_worker[u] = w
      /\ Handler(u) = [pc |-> "autn_info", id |-> mme_job[w].id]
    BY <1>1, BusyHandler DEF UeSide, UeInv
<1>3. PICK m \in s6a_rsp :
          /\ m.w = w
          /\ s6a_rsp' = s6a_rsp \ {m}
          /\ mme_ctx' = [mme_ctx EXCEPT ![u] =
                            [MmeCtx(u) EXCEPT !.xres = m.xres, !.k_asme = m.k_asme]]
          /\ s1ap_dn' = [s1ap_dn EXCEPT ![u] = Append(s1ap_dn[u],
                            [Dn("autn_request", mme_job[w].id) EXCEPT
                                !.autn = m.autn, !.rand = m.rand])]
    BY <1>2 DEF AutnInfoAnswer, SendDn
<1> DEFINE ctx == [MmeCtx(u) EXCEPT !.xres = m.xres, !.k_asme = m.k_asme]
           a   == [Dn("autn_request", mme_job[w].id) EXCEPT !.autn = m.autn, !.rand = m.rand]
<1>4. m.xres = HssXres(u) /\ m.k_asme = HssKAsme(u) /\ m.autn = Autn(HssXres(u))
      /\ m.rand = HssRand[u] /\ m \in S6aRsp
  <2>1. m = AutnInfo(w, u)
    BY <1>2, <1>3 DEF UeSide, UeInv, VectorsOK
  <2>2. m \in S6aRsp
    BY DEF UeSide, TypeInv, TypeOK, S6aTypeOK
  <2> QED
    BY <2>1, <2>2 DEF AutnInfo, HssXres, HssKAsme
<1>5. ctx \in MmeContext /\ ctx.xres = m.xres /\ ctx.k_asme = m.k_asme
  <2>1. MmeCtx(u) \in MmeContext
    BY <1>2, MmeCtxType DEF UeSide, TypeInv, TypeOK
  <2> QED
    BY <1>4, <2>1 DEF MmeContext, S6aRsp
<1>6. ctx # Nil
    BY <1>5, MmeNilAssumption
<1>7. a \in DnMsg /\ a.type = "autn_request" /\ a.id = mme_job[w].id /\ a.autn = m.autn
      /\ a.rand = m.rand
  <2>1. mme_job[w].id \in Nat
    BY DEF UeSide, TypeInv, TypeOK, MmeTypeOK, MmeJob
  <2> QED
    BY <1>4, <2>1, DnMsgType DEF Dn, DnMsg, DnType, S6aRsp
<1>8. /\ mme_pc' = [mme_pc EXCEPT ![w] = "idle"]
      /\ mme_job' = [mme_job EXCEPT ![w] = NoMmeJob]
      /\ UNCHANGED <<s1mme_id, s1ap_up, backlog, conn_worker, ran_pc, ran_ctx, s6a_req, exited>>
    BY DEF AutnInfoAnswer, Unblock, Block, MmeNext, connVars, ranVars
<1>9. VectorsOK'
  <2>1. \A n \in s6a_req' \cup s6a_rsp' : n.w \in Worker \ {w}
    <3>1. \A n \in s6a_req' \cup s6a_rsp' : n.w # w
      BY <1>3, <1>8 DEF UeSide, OneCall, S6aCalls, S6aSingle
    <3>2. \A n \in s6a_req' \cup s6a_rsp' : n.w \in Worker
      BY <1>3, <1>8 DEF UeSide, TypeInv, TypeOK, S6aTypeOK, S6aReq, S6aRsp
    <3> QED
      BY <3>1, <3>2
  <2>2. \A v \in Worker \ {w} : mme_job'[v] = mme_job[v]
    BY <1>8 DEF UeSide, TypeInv, TypeOK, MmeTypeOK
  <2> QED
    BY <1>3, <1>8, <2>1, <2>2 DEF UeSide, UeInv, VectorsOK
<1>10. /\ WorkerOnly(w, u) /\ mme_pc'[w] = "idle" /\ s1ap_up'[u] = s1ap_up[u]
       /\ s1ap_dn'[u] = Append(s1ap_dn[u], a) /\ mme_ctx'[u] = ctx
    BY <1>2, <1>3, <1>8, IdsSame DEF WorkerOnly, UeSide, TypeInv, TypeOK, SctpTypeOK, MmeTypeOK
<1> HIDE DEF ctx, a
<1>11. ViewOK(u, View(u)')
  <2>1. /\ View(u) \in Views /\ ViewOK(u, View(u)) /\ View(u).at.pc = "autn_info"
        /\ View(u).at.id = mme_job[w].id
        /\ View(u)'.pc = View(u).pc /\ View(u)'.ran = View(u).ran
        /\ View(u)'.up = View(u).up /\ View(u)'.dn = Append(View(u).dn, a)
        /\ View(u)'.at.pc = "idle" /\ View(u)'.ids = View(u).ids /\ View(u)'.ctx = ctx
    BY <1>2, <1>8, <1>10, IdsSame, WorkerView, Before
  <2> QED
    BY <1>4, <1>5, <1>6, <1>7, <2>1, ChallengeView
<1> QED
    BY <1>9, <1>10, <1>11, MmeKeeps

\* A request leads to the subscriber that sent it, whose context is there.
LEMMA RequestFacts ==
    ASSUME UeSide, NEW w \in Worker, NEW u \in UE, NEW type, Receive(w, u, type),
           type # "initial_attach"
    PROVE  LET m == Head(s1ap_up[u])
           IN  /\ m \in UpMsg /\ m.type = type
               /\ GetGuti(m.id) = u
               /\ type # "auth_response" => Checked(m)
               /\ mme_ctx[u] # Nil /\ MmeCtx(u) = mme_ctx[u] /\ mme_ctx[u] \in MmeContext
<1> DEFINE m == Head(s1ap_up[u])
<1>1. /\ View(u).at.pc = "idle" /\ View(u).up # <<>> /\ Head(View(u).up).type = type
      /\ View(u).up = s1ap_up[u]
    BY ReceiveFacts
<1>2. /\ View(u) \in Views /\ ViewOK(u, View(u)) /\ View(u).ids = Entries(s1mme_id, u)
      /\ View(u).ctx = mme_ctx[u]
    BY Before
<1>3. /\ View(u).up \in Seq(UpMsg)
      /\ Head(View(u).up).id \in View(u).ids /\ View(u).ctx # Nil
      /\ (Head(View(u).up).type \in {"initial_attach", "auth_response"} \/ Head(View(u).up).mac)
  <2>1. /\ View(u).up \in Seq(UpMsg)
        /\ (Head(View(u).up).type \in {"initial_attach", "auth_response"} \/ Head(View(u).up).mac)
    BY <1>1, <1>2, RequestView
  <2>2. Head(View(u).up).id \in View(u).ids /\ View(u).ctx # Nil
    BY <1>1, <1>2, RequestView
  <2> QED
    BY <2>1, <2>2
<1>4. m \in UpMsg /\ m.type = type
    BY <1>1, <1>3
<1>5. GetGuti(m.id) = u
    BY <1>1, <1>2, <1>3, GutiFact
<1>6. type # "auth_response" => Checked(m)
    BY <1>1, <1>3, <1>5, UEFacts DEF Checked
<1>7. mme_ctx[u] # Nil /\ MmeCtx(u) = mme_ctx[u] /\ mme_ctx[u] \in MmeContext
    BY <1>2, <1>3 DEF MmeCtx, UeSide, TypeInv, TypeOK, MmeTypeOK
<1> QED
    BY <1>4, <1>5, <1>6, <1>7

\* The result is the expected one, and security is set up.
LEMMA HandleAutnUe ==
    ASSUME UeSide, NEW w \in Worker, NEW u \in UE, MmeNext(w), HandleAutn(w, u)
    PROVE  UeInv'
<1> DEFINE m   == Head(s1ap_up[u])
           ctx == [mme_ctx[u] EXCEPT !.k_nas = KNasMme(mme_ctx[u].k_asme)]
           a   == [Dn("security_command", m.id) EXCEPT !.mac = TRUE]
<1>r. Receive(w, u, "auth_response")
    BY DEF HandleAutn
<1>1. /\ mme_pc[w] = "idle" /\ conn_worker[u] = w /\ mme_job[w].conn = Nil
      /\ mme_job[w] = NoMmeJob
      /\ View(u).at = [pc |-> "idle", id |-> 0] /\ View(u).at.pc = "idle"
      /\ View(u).up # <<>> /\ Head(View(u).up).type = "auth_response"
      /\ View(u).up = s1ap_up[u]
      /\ s1ap_up' = [s1ap_up EXCEPT ![u] = Tail(s1ap_up[u])]
    BY <1>r, ReceiveFacts
<1>2. /\ m \in UpMsg /\ m.type = "auth_response" /\ GetGuti(m.id) = u
      /\ mme_ctx[u] # Nil /\ MmeCtx(u) = mme_ctx[u] /\ mme_ctx[u] \in MmeContext
    BY <1>r, RequestFacts
<1>3. ctx \in MmeContext /\ ctx.xres = mme_ctx[u].xres /\ ctx.k_asme = mme_ctx[u].k_asme
      /\ ctx.k_nas = KNasMme(mme_ctx[u].k_asme)
    BY <1>2, KeyFacts DEF MmeContext
<1>4. ctx # Nil
    BY <1>3, MmeNilAssumption
<1>5. a \in DnMsg /\ a.type = "security_command" /\ a.mac
    BY <1>2, DnMsgType DEF Dn, DnMsg, DnType, UpMsg
<1>6. /\ View(u) \in Views /\ ViewOK(u, View(u)) /\ View(u).dn = s1ap_dn[u]
      /\ View(u).ctx = mme_ctx[u] /\ View(u).ids = Entries(s1mme_id, u)
    BY Before
<1>7. m.res = mme_ctx[u].xres
  <2>1. Head(View(u).up).res = View(u).ctx.xres
    <3>1. /\ View(u).pc = "set_security" /\ Len(View(u).up) = 1
          /\ View(u).up \in Seq(UpMsg) /\ Head(View(u).up) = View(u).up[1]
      BY <1>1, <1>6, RequestView
    <3> QED
      BY <1>1, <1>6, <3>1 DEF ViewOK, KeysOK, Known
  <2> QED
    BY <2>1, <1>1, <1>6
<1>8. /\ mme_ctx' = [mme_ctx EXCEPT ![u] = ctx]
      /\ s1ap_dn' = [s1ap_dn EXCEPT ![u] = Append(s1ap_dn[u], a)]
      /\ UNCHANGED <<s1mme_id, mme_pc, mme_job, exited, conn_worker, backlog, ran_pc, ran_ctx,
                     s6aVars>>
  <2>1. GetGuti(Head(s1ap_up[u]).id) # Nil
    BY <1>2, UEFacts
  <2>2. Head(s1ap_up[u]).res = MmeCtx(GetGuti(Head(s1ap_up[u]).id)).xres
    BY <1>2, <1>7
  <2> QED
    BY <1>2, <2>1, <2>2 DEF HandleAutn, SendDn, MmeNext, connVars, ranVars
<1>9. VectorsOK'
    BY <1>8 DEF UeSide, UeInv, VectorsOK, s6aVars
<1>10. /\ WorkerOnly(w, u) /\ mme_pc'[w] = "idle" /\ s1ap_up'[u] = Tail(s1ap_up[u])
       /\ s1ap_dn'[u] = Append(s1ap_dn[u], a) /\ mme_ctx'[u] = ctx /\ mme_job'[w].id = 0
    BY <1>1, <1>8, IdsSame DEF WorkerOnly, UeSide, TypeInv, TypeOK, SctpTypeOK, MmeTypeOK, NoMmeJob
<1> HIDE DEF ctx, a, m
<1>11. ViewOK(u, View(u)')
  <2>0. View(u)'.at = View(u).at
    <3>1. Handler(u) = [pc |-> "idle", id |-> 0] /\ conn_worker'[u] = conn_worker[u]
      BY <1>1, <1>10, Before DEF WorkerOnly
    <3>2. Handler(u)' = Handler(u)
      BY <1>8 DEF Handler
    <3> QED
      BY <3>2 DEF View
  <2>1. /\ View(u)'.pc = View(u).pc /\ View(u)'.ran = View(u).ran
        /\ View(u)'.up = Tail(View(u).up) /\ View(u)'.dn = Append(View(u).dn, a)
        /\ View(u)'.ids = View(u).ids /\ View(u)'.ctx = ctx
        /\ ctx.xres = View(u).ctx.xres /\ ctx.k_asme = View(u).ctx.k_asme
        /\ ctx.k_nas = KNasMme(View(u).ctx.k_asme)
    BY <1>1, <1>3, <1>6, <1>8, <1>10, IdsSame, WorkerView, ZenonT(40)
  <2> QED
    BY <1>1, <1>4, <1>5, <1>6, <2>0, <2>1, ResponseView
<1> QED
    BY <1>9, <1>10, <1>11, MmeKeeps

\* The handlers that go on to ask the SGW: the request is taken, the subscriber's
\* keys stay, and the worker is busy with its id.
LEMMA ServeUe ==
    ASSUME UeSide, NEW w \in Worker, NEW u \in UE, NEW type, NEW pc, Receive(w, u, type),
           \/ type = "security_complete" /\ pc = "create"
           \/ type = "attach_complete" /\ pc = "modify"
           \/ type = "detach_request" /\ pc = "detach",
           mme_ctx'[u] \in MmeContext, mme_ctx'[u].xres = mme_ctx[u].xres,
           mme_ctx'[u].k_asme = mme_ctx[u].k_asme, mme_ctx'[u].k_nas = mme_ctx[u].k_nas,
           \A x \in UE \ {u} : mme_ctx'[x] = mme_ctx[x],
           Block(w, pc, [conn |-> u, id |-> Head(s1ap_up[u]).id, guti |-> u]),
           UNCHANGED <<s1mme_id, s1ap_dn, connVars, ranVars, s6aVars, exited>>
    PROVE  UeInv'
<1> DEFINE m == Head(s1ap_up[u])
           job == [conn |-> u, id |-> m.id, guti |-> u]
<1>1. /\ mme_pc[w] = "idle" /\ conn_worker[u] = w /\ mme_job[w].conn = Nil
      /\ View(u).at.pc = "idle" /\ View(u).up # <<>> /\ Head(View(u).up).type = type
      /\ View(u).up = s1ap_up[u]
      /\ s1ap_up' = [s1ap_up EXCEPT ![u] = Tail(s1ap_up[u])]
    BY ReceiveFacts
<1>2. /\ View(u) \in Views /\ ViewOK(u, View(u)) /\ View(u).dn = s1ap_dn[u]
      /\ View(u).ctx = mme_ctx[u] /\ View(u).ids = Entries(s1mme_id, u)
    BY Before
<1>3. mme_ctx'[u] # Nil
    BY MmeNilAssumption
<1>4. /\ mme_pc' = [mme_pc EXCEPT ![w] = pc] /\ mme_job' = [mme_job EXCEPT ![w] = job]
      /\ UNCHANGED <<s1mme_id, s1ap_dn, conn_worker, backlog, ran_pc, ran_ctx, s6aVars, exited>>
    BY DEF Block, connVars, ranVars
<1>5. VectorsOK'
    BY <1>1, <1>4, VectorsFrame
<1>6. pc # "idle"
    OBVIOUS
<1>7. WorkerOnly(w, u) /\ mme_pc'[w] = pc /\ mme_job'[w].id = m.id
      /\ s1ap_up'[u] = Tail(s1ap_up[u]) /\ s1ap_dn'[u] = s1ap_dn[u]
    BY <1>1, <1>4, <1>6, IdsSame
       DEF WorkerOnly, UeSide, TypeInv, TypeOK, SctpTypeOK, MmeTypeOK
<1> HIDE DEF m, job
<1>8. ViewOK(u, View(u)')
  <2>1. /\ View(u)'.pc = View(u).pc /\ View(u)'.ran = View(u).ran
        /\ View(u)'.up = Tail(View(u).up) /\ View(u)'.dn = View(u).dn
        /\ View(u)'.at.pc = pc /\ View(u)'.at.id = Head(View(u).up).id
        /\ View(u)'.ids = View(u).ids /\ View(u)'.ctx # Nil
        /\ View(u)'.ctx.xres = View(u).ctx.xres /\ View(u)'.ctx.k_asme = View(u).ctx.k_asme
        /\ View(u)'.ctx.k_nas = View(u).ctx.k_nas
    BY <1>1, <1>2, <1>3, <1>4, <1>7, IdsSame, WorkerView DEF m
  <2>2. \/ Head(View(u).up).type = "security_complete" /\ pc = "create"
        \/ Head(View(u).up).type = "attach_complete" /\ pc = "modify"
        \/ Head(View(u).up).type = "detach_request" /\ pc = "detach"
    BY <1>1
  <2> QED
    BY <1>1, <1>2, <2>1, <2>2, ServeView
<1> QED
    BY <1>5, <1>7, <1>8, MmeKeeps

\* The worker asks the SGW for a session.
LEMMA HandleSecurityModeCompleteUe ==
    ASSUME UeSide, NEW w \in Worker, NEW u \in UE, MmeNext(w), HandleSecurityModeComplete(w, u)
    PROVE  UeInv'
<1> DEFINE m   == Head(s1ap_up[u])
           ctx == [mme_ctx[u] EXCEPT !.s11_cteid_mme = S11CteidMme(u)]
<1>r. Receive(w, u, "security_complete")
    BY DEF HandleSecurityModeComplete
<1>1. /\ GetGuti(m.id) = u /\ Checked(m)
      /\ MmeCtx(u) = mme_ctx[u] /\ mme_ctx[u] \in MmeContext
    BY <1>r, RequestFacts
<1>2. ctx \in MmeContext /\ ctx.xres = mme_ctx[u].xres /\ ctx.k_asme = mme_ctx[u].k_asme
      /\ ctx.k_nas = mme_ctx[u].k_nas
    BY <1>1, NumberingFacts DEF MmeContext
<1>3. /\ mme_ctx' = [mme_ctx EXCEPT ![u] = ctx]
      /\ Block(w, "create", [conn |-> u, id |-> m.id, guti |-> u])
      /\ UNCHANGED <<s1mme_id, s1ap_dn, connVars, ranVars, s6aVars, exited>>
    BY <1>1 DEF HandleSecurityModeComplete, MmeNext
<1>4. mme_ctx'[u] = ctx /\ \A x \in UE \ {u} : mme_ctx'[x] = mme_ctx[x]
    BY <1>3 DEF UeSide, TypeInv, TypeOK, MmeTypeOK
<1> HIDE DEF ctx
<1> QED
    BY <1>r, <1>2, <1>3, <1>4, ServeUe

\* The worker asks the SGW to modify the bearer.
LEMMA HandleAttachCompleteUe ==
    ASSUME UeSide, NEW w \in Worker, NEW u \in UE, MmeNext(w), HandleAttachComplete(w, u)
    PROVE  UeInv'
<1> DEFINE m   == Head(s1ap_up[u])
           ctx == [mme_ctx[u] EXCEPT !.s1_uteid_dl = m.teid, !.emm_state = 1]
<1>r. Receive(w, u, "attach_complete")
    BY DEF HandleAttachComplete
<1>1. /\ GetGuti(m.id) = u /\ Checked(m) /\ m \in UpMsg
      /\ MmeCtx(u) = mme_ctx[u] /\ mme_ctx[u] \in MmeContext
    BY <1>r, RequestFacts
<1>2. ctx \in MmeContext /\ ctx.xres = mme_ctx[u].xres /\ ctx.k_asme = mme_ctx[u].k_asme
      /\ ctx.k_nas = mme_ctx[u].k_nas
    BY <1>1 DEF MmeContext, UpMsg
<1>3. /\ mme_ctx' = [mme_ctx EXCEPT ![u] = ctx]
      /\ Block(w, "modify", [conn |-> u, id |-> m.id, guti |-> u])
      /\ UNCHANGED <<s1mme_id, s1ap_dn, connVars, ranVars, s6aVars, exited>>
    BY <1>1 DEF HandleAttachComplete, MmeNext
<1>4. mme_ctx'[u] = ctx /\ \A x \in UE \ {u} : mme_ctx'[x] = mme_ctx[x]
    BY <1>3 DEF UeSide, TypeInv, TypeOK, MmeTypeOK
<1> HIDE DEF ctx
<1> QED
    BY <1>r, <1>2, <1>3, <1>4, ServeUe

\* The worker asks the SGW to end the session.
LEMMA HandleDetachUe ==
    ASSUME UeSide, NEW w \in Worker, NEW u \in UE, MmeNext(w), HandleDetach(w, u)
    PROVE  UeInv'
<1> DEFINE m == Head(s1ap_up[u])
<1>r. Receive(w, u, "detach_request")
    BY DEF HandleDetach
<1>1. /\ GetGuti(m.id) = u /\ Checked(m)
      /\ MmeCtx(u) = mme_ctx[u] /\ mme_ctx[u] \in MmeContext
    BY <1>r, RequestFacts
<1>2. /\ mme_ctx' = [mme_ctx EXCEPT ![u] = mme_ctx[u]]
      /\ Block(w, "detach", [conn |-> u, id |-> m.id, guti |-> u])
      /\ UNCHANGED <<s1mme_id, s1ap_dn, connVars, ranVars, s6aVars, exited>>
    BY <1>1 DEF HandleDetach, MmeNext
<1>3. mme_ctx'[u] = mme_ctx[u] /\ \A x \in UE \ {u} : mme_ctx'[x] = mme_ctx[x]
    BY <1>2 DEF UeSide, TypeInv, TypeOK, MmeTypeOK
<1> QED
    BY <1>r, <1>1, <1>2, <1>3, ServeUe

\* The session's answer goes to the terminal.
LEMMA CreateSessionAnswerUe ==
    ASSUME UeSide, NEW w \in Worker, NEW u \in UE, mme_job[w].conn = u, MmeNext(w),
           CreateSessionAnswer(w)
    PROVE  UeInv'
<1>1. PICK m \in s11_rsp :
          /\ RcvS11(w, "create", m)
          /\ mme_ctx' = [mme_ctx EXCEPT ![mme_job[w].guti] =
                            [MmeCtx(mme_job[w].guti) EXCEPT !.s11_cteid_sgw = m.s11,
                                !.s1_uteid_ul = m.ul, !.ip_addr = m.ip]]
          /\ SendDn(mme_job[w].conn, [Dn("attach_accept", mme_job[w].id) EXCEPT
                                         !.mac = TRUE, !.teid = m.ul, !.ip = m.ip])
    BY DEF CreateSessionAnswer
<1> DEFINE ctx == [mme_ctx[u] EXCEPT !.s11_cteid_sgw = m.s11, !.s1_uteid_ul = m.ul,
                                     !.ip_addr = m.ip]
           a   == [Dn("attach_accept", mme_job[w].id) EXCEPT !.mac = TRUE, !.teid = m.ul,
                                                            !.ip = m.ip]
<1>2. mme_pc[w] = "create" /\ m \in S11Rsp /\ mme_job[w].id \in Nat
    BY <1>1 DEF RcvS11, UeSide, TypeInv, TypeOK, S11TypeOK, MmeTypeOK, MmeJob
<1>3. mme_job[w].guti = u /\ conn_worker[u] = w
      /\ Handler(u) = [pc |-> "create", id |-> mme_job[w].id]
    BY <1>2, BusyHandler DEF UeSide, UeInv
<1>4. /\ View(u) \in Views /\ ViewOK(u, View(u)) /\ View(u).at.pc = "create"
      /\ View(u).dn = s1ap_dn[u] /\ View(u).up = s1ap_up[u]
      /\ View(u).ctx = mme_ctx[u] /\ View(u).ids = Entries(s1mme_id, u)
    BY <1>3, Before
<1>5. mme_ctx[u] # Nil /\ mme_ctx[u] \in MmeContext /\ MmeCtx(u) = mme_ctx[u]
  <2>1. View(u).pc = "set_eps_session" /\ View(u).ctx # Nil
    BY <1>4 DEF ViewOK, Conversation, Cleaning, KeysOK, Known
  <2> QED
    BY <1>4, <2>1 DEF MmeCtx, UeSide, TypeInv, TypeOK, MmeTypeOK
<1>6. ctx \in MmeContext /\ ctx.xres = mme_ctx[u].xres /\ ctx.k_asme = mme_ctx[u].k_asme
      /\ ctx.k_nas = mme_ctx[u].k_nas
    BY <1>2, <1>5 DEF MmeContext, S11Rsp
<1>7. ctx # Nil
    BY <1>6, MmeNilAssumption
<1>8. a \in DnMsg /\ a.type = "attach_accept" /\ a.mac
    BY <1>2, DnMsgType DEF Dn, DnMsg, DnType, S11Rsp
<1>9. /\ mme_ctx' = [mme_ctx EXCEPT ![u] = ctx]
      /\ s1ap_dn' = [s1ap_dn EXCEPT ![u] = Append(s1ap_dn[u], a)]
      /\ mme_pc' = [mme_pc EXCEPT ![w] = "idle"]
      /\ mme_job' = [mme_job EXCEPT ![w] = NoMmeJob]
      /\ UNCHANGED <<s1mme_id, s1ap_up, conn_worker, backlog, ran_pc, ran_ctx, s6aVars, exited>>
    BY <1>1, <1>3, <1>5 DEF CreateSessionAnswer, SendDn, Unblock, Block, MmeNext, connVars, ranVars
<1>10. VectorsOK'
    BY <1>2, <1>9, VectorsFrame
<1>11. /\ WorkerOnly(w, u) /\ mme_pc'[w] = "idle" /\ s1ap_up'[u] = s1ap_up[u]
       /\ s1ap_dn'[u] = Append(s1ap_dn[u], a) /\ mme_ctx'[u] = ctx
    BY <1>3, <1>9, IdsSame DEF WorkerOnly, UeSide, TypeInv, TypeOK, SctpTypeOK, MmeTypeOK
<1> HIDE DEF ctx, a
<1>12. ViewOK(u, View(u)')
  <2>1. /\ View(u)'.pc = View(u).pc /\ View(u)'.ran = View(u).ran
        /\ View(u)'.up = View(u).up /\ View(u)'.dn = Append(View(u).dn, a)
        /\ View(u)'.at.pc = "idle" /\ View(u)'.ids = View(u).ids /\ View(u)'.ctx = ctx
        /\ ctx.xres = View(u).ctx.xres /\ ctx.k_asme = View(u).ctx.k_asme
        /\ ctx.k_nas = View(u).ctx.k_nas
    BY <1>4, <1>6, <1>9, <1>11, IdsSame, WorkerView, ZenonT(40)
  <2> QED
    BY <1>4, <1>7, <1>8, <2>1, CreatedView
<1> QED
    BY <1>10, <1>11, <1>12, MmeKeeps

\* The bearer has been modified.
LEMMA ModifyBearerAnswerUe ==
    ASSUME UeSide, NEW w \in Worker, NEW u \in UE, mme_job[w].conn = u, MmeNext(w),
           ModifyBearerAnswer(w)
    PROVE  UeInv'
<1> DEFINE ctx == [mme_ctx[u] EXCEPT !.ecm_state = 1]
<1>2. mme_pc[w] = "modify"
    BY DEF ModifyBearerAnswer, RcvS11
<1>3. mme_job[w].guti = u /\ conn_worker[u] = w
      /\ Handler(u) = [pc |-> "modify", id |-> mme_job[w].id]
    BY <1>2, BusyHandler DEF UeSide, UeInv
<1>4. /\ View(u) \in Views /\ ViewOK(u, View(u)) /\ View(u).at.pc = "modify"
      /\ View(u).dn = s1ap_dn[u] /\ View(u).up = s1ap_up[u]
      /\ View(u).ctx = mme_ctx[u] /\ View(u).ids = Entries(s1mme_id, u)
    BY <1>3, Before
<1>5. mme_ctx[u] # Nil /\ mme_ctx[u] \in MmeContext /\ MmeCtx(u) = mme_ctx[u]
  <2>1. Known(View(u)) /\ View(u).ctx # Nil
    BY <1>4 DEF ViewOK, Conversation, Cleaning, KeysOK, Known, None, One
  <2> QED
    BY <1>4, <2>1 DEF MmeCtx, UeSide, TypeInv, TypeOK, MmeTypeOK
<1>6. ctx \in MmeContext /\ ctx.xres = mme_ctx[u].xres /\ ctx.k_asme = mme_ctx[u].k_asme
      /\ ctx.k_nas = mme_ctx[u].k_nas
    BY <1>5 DEF MmeContext
<1>7. ctx # Nil
    BY <1>6, MmeNilAssumption
<1>9. /\ mme_ctx' = [mme_ctx EXCEPT ![u] = ctx]
      /\ mme_pc' = [mme_pc EXCEPT ![w] = "idle"]
      /\ mme_job' = [mme_job EXCEPT ![w] = NoMmeJob]
      /\ UNCHANGED <<s1mme_id, s1ap_up, s1ap_dn, conn_worker, backlog, ran_pc, ran_ctx, s6aVars,
                     exited>>
    BY <1>3, <1>5 DEF ModifyBearerAnswer, Unblock, Block, MmeNext, connVars, ranVars, s1apVars
<1>10. VectorsOK'
    BY <1>2, <1>9, VectorsFrame
<1>11. /\ WorkerOnly(w, u) /\ mme_pc'[w] = "idle" /\ s1ap_up'[u] = s1ap_up[u]
       /\ s1ap_dn'[u] = s1ap_dn[u] /\ mme_ctx'[u] = ctx
    BY <1>3, <1>9, IdsSame DEF WorkerOnly, UeSide, TypeInv, TypeOK, SctpTypeOK, MmeTypeOK
<1> HIDE DEF ctx
<1>12. ViewOK(u, View(u)')
  <2>1. /\ View(u)'.pc = View(u).pc /\ View(u)'.ran = View(u).ran
        /\ View(u)'.up = View(u).up /\ View(u)'.dn = View(u).dn
        /\ View(u)'.at.pc = "idle" /\ View(u)'.ids = View(u).ids /\ View(u)'.ctx = ctx
        /\ ctx.xres = View(u).ctx.xres /\ ctx.k_asme = View(u).ctx.k_asme
        /\ ctx.k_nas = View(u).ctx.k_nas
    BY <1>4, <1>6, <1>9, <1>11, IdsSame, WorkerView
  <2> QED
    BY <1>4, <1>7, <2>1, ModifiedView
<1> QED
    BY <1>10, <1>11, <1>12, MmeKeeps

\* The terminal is told before anything is removed.
LEMMA DetachAnswerUe ==
    ASSUME UeSide, NEW w \in Worker, NEW u \in UE, mme_job[w].conn = u, MmeNext(w), DetachAnswer(w)
    PROVE  UeInv'
<1> DEFINE a == [Dn("detach_complete", mme_job[w].id) EXCEPT !.mac = TRUE]
<1>1. mme_pc[w] = "detach" /\ mme_job[w].id \in Nat
    BY DEF DetachAnswer, RcvS11, UeSide, TypeInv, TypeOK, MmeTypeOK, MmeJob
<1>2. mme_job[w].guti = u /\ conn_worker[u] = w
      /\ Handler(u) = [pc |-> "detach", id |-> mme_job[w].id]
    BY <1>1, BusyHandler DEF UeSide, UeInv
<1>3. /\ View(u) \in Views /\ ViewOK(u, View(u)) /\ View(u).at.pc = "detach"
      /\ View(u).at.id = mme_job[w].id
      /\ View(u).dn = s1ap_dn[u] /\ View(u).up = s1ap_up[u]
      /\ View(u).ctx = mme_ctx[u] /\ View(u).ids = Entries(s1mme_id, u)
    BY <1>2, Before
<1>4. a \in DnMsg /\ a.type = "detach_complete" /\ a.mac
    BY <1>1, DnMsgType DEF Dn, DnMsg, DnType
<1>5. /\ s1ap_dn' = [s1ap_dn EXCEPT ![u] = Append(s1ap_dn[u], a)]
      /\ mme_pc' = [mme_pc EXCEPT ![w] = "rem_itfid"]
      /\ UNCHANGED <<s1mme_id, mme_ctx, mme_job, s1ap_up, conn_worker, backlog, ran_pc, ran_ctx,
                     s6aVars, exited>>
    BY DEF DetachAnswer, SendDn, MmeNext, connVars, ranVars
<1>6. VectorsOK'
    BY <1>5 DEF UeSide, UeInv, VectorsOK, s6aVars
<1>7. /\ WorkerOnly(w, u) /\ mme_pc'[w] = "rem_itfid" /\ s1ap_up'[u] = s1ap_up[u]
      /\ s1ap_dn'[u] = Append(s1ap_dn[u], a)
    BY <1>2, <1>5, IdsSame DEF WorkerOnly, UeSide, TypeInv, TypeOK, SctpTypeOK, MmeTypeOK
<1> HIDE DEF a
<1>8. ViewOK(u, View(u)')
  <2>1. /\ View(u)'.pc = View(u).pc /\ View(u)'.ran = View(u).ran
        /\ View(u)'.up = View(u).up /\ View(u)'.dn = Append(View(u).dn, a)
        /\ View(u)'.at.pc = "rem_itfid" /\ View(u)'.at.id = View(u).at.id
        /\ View(u)'.ids = View(u).ids /\ View(u)'.ctx = View(u).ctx
    BY <1>3, <1>5, <1>7, IdsSame, WorkerView, ZenonT(40)
  <2> QED
    BY <1>3, <1>4, <2>1, DetachedView
<1> QED
    BY <1>6, <1>7, <1>8, MmeKeeps

\* The id that is removed is the subscriber's only one.
LEMMA RemItfidUe ==
    ASSUME UeSide, NEW w \in Worker, NEW u \in UE, mme_job[w].conn = u, MmeNext(w), RemItfid(w)
    PROVE  UeInv'
<1>1. mme_pc[w] = "rem_itfid" /\ mme_job[w].id \in 1 .. ue_count
    BY DEF RemItfid, UeSide, TypeInv, MmeJobsOK
<1>2. conn_worker[u] = w /\ mme_job[w].guti = u
      /\ Handler(u) = [pc |-> "rem_itfid", id |-> mme_job[w].id]
    BY <1>1, BusyHandler DEF UeSide, UeInv
<1>3. /\ View(u) \in Views /\ ViewOK(u, View(u)) /\ View(u).at.pc = "rem_itfid"
      /\ View(u).at.id = mme_job[w].id
      /\ View(u).dn = s1ap_dn[u] /\ View(u).up = s1ap_up[u]
      /\ View(u).ctx = mme_ctx[u] /\ View(u).ids = Entries(s1mme_id, u)
    BY <1>2, Before
<1>4. /\ s1mme_id' = [s1mme_id EXCEPT ![mme_job[w].id] = Nil]
      /\ mme_pc' = [mme_pc EXCEPT ![w] = "rem_uectx"]
      /\ UNCHANGED <<mme_ctx, mme_job, s1ap_up, s1ap_dn, conn_worker, backlog, ran_pc, ran_ctx,
                     s6aVars, exited>>
    BY DEF RemItfid, MmeNext, connVars, ranVars, s1apVars
<1>5. Entries(s1mme_id, u) = {mme_job[w].id}
  <2>1. View(u).at.id \in View(u).ids /\ \A i, j \in View(u).ids : i = j
    BY <1>3 DEF ViewOK, IdsOK
  <2> QED
    BY <1>3, <2>1
<1>6. \A x \in UE : Entries(s1mme_id, x)' = Entries(s1mme_id, x) \ {mme_job[w].id}
    BY <1>4, UEFacts DEF Entries, UeSide, TypeInv, TypeOK, MmeTypeOK
<1>7. \A x \in UE \ {u} : Entries(s1mme_id, x)' = Entries(s1mme_id, x)
  <2>1. \A x \in UE \ {u} : mme_job[w].id \notin Entries(s1mme_id, x)
    BY <1>5 DEF Entries
  <2> QED
    BY <1>6, <2>1
<1>8. VectorsOK'
    BY <1>4 DEF UeSide, UeInv, VectorsOK, s6aVars
<1>9. WorkerOnly(w, u) /\ mme_pc'[w] = "rem_uectx" /\ Entries(s1mme_id, u)' = {}
    BY <1>2, <1>4, <1>5, <1>6, <1>7
       DEF WorkerOnly, UeSide, TypeInv, TypeOK, SctpTypeOK, MmeTypeOK
<1>10. ViewOK(u, View(u)')
  <2>1. /\ View(u)'.pc = View(u).pc /\ View(u)'.ran = View(u).ran
        /\ View(u)'.up = View(u).up /\ View(u)'.dn = View(u).dn
        /\ View(u)'.at.pc = "rem_uectx" /\ View(u)'.ids = {} /\ View(u)'.ctx = View(u).ctx
    BY <1>3, <1>4, <1>9, WorkerView, ZenonT(40)
  <2> QED
    BY <1>3, <2>1, IdRemovedView
<1> QED
    BY <1>8, <1>9, <1>10, MmeKeeps

\* The context goes last.
LEMMA RemUectxUe ==
    ASSUME UeSide, NEW w \in Worker, NEW u \in UE, mme_job[w].conn = u, MmeNext(w), RemUectx(w)
    PROVE  UeInv'
<1>1. mme_pc[w] = "rem_uectx"
    BY DEF RemUectx
<1>2. conn_worker[u] = w /\ mme_job[w].guti = u
      /\ Handler(u) = [pc |-> "rem_uectx", id |-> mme_job[w].id]
    BY <1>1, BusyHandler DEF UeSide, UeInv
<1>3. /\ View(u) \in Views /\ ViewOK(u, View(u)) /\ View(u).at.pc = "rem_uectx"
      /\ View(u).dn = s1ap_dn[u] /\ View(u).up = s1ap_up[u]
      /\ View(u).ctx = mme_ctx[u] /\ View(u).ids = Entries(s1mme_id, u)
    BY <1>2, Before
<1>4. /\ mme_ctx' = [mme_ctx EXCEPT ![u] = Nil]
      /\ mme_pc' = [mme_pc EXCEPT ![w] = "idle"]
      /\ mme_job' = [mme_job EXCEPT ![w] = NoMmeJob]
      /\ UNCHANGED <<s1mme_id, s1ap_up, s1ap_dn, conn_worker, backlog, ran_pc, ran_ctx,
                     s6aVars, exited>>
    BY <1>2 DEF RemUectx, Unblock, Block, MmeNext, connVars, ranVars, s1apVars
<1>5. VectorsOK'
    BY <1>1, <1>4, VectorsFrame
<1>6. WorkerOnly(w, u) /\ mme_pc'[w] = "idle" /\ mme_ctx'[u] = Nil
    BY <1>2, <1>4, IdsSame DEF WorkerOnly, UeSide, TypeInv, TypeOK, SctpTypeOK, MmeTypeOK
<1>7. ViewOK(u, View(u)')
  <2>1. /\ View(u)'.pc = View(u).pc /\ View(u)'.ran = View(u).ran
        /\ View(u)'.up = View(u).up /\ View(u)'.dn = View(u).dn
        /\ View(u)'.at.pc = "idle" /\ View(u)'.ids = View(u).ids /\ View(u)'.ctx = Nil
    BY <1>3, <1>4, <1>6, IdsSame, WorkerView
  <2> QED
    BY <1>3, <2>1, CtxRemovedView
<1> QED
    BY <1>5, <1>6, <1>7, MmeKeeps

\* A worker drops a connection that it is not busy with.
LEMMA ConnectionClosedUe ==
    ASSUME UeSide, NEW w \in Worker, NEW u \in UE, MmeNext(w), ConnectionClosed(w, u)
    PROVE  UeInv'
<1>1. /\ mme_pc[w] = "idle" /\ conn_worker[u] = w
      /\ conn_worker' = [conn_worker EXCEPT ![u] = Nil]
      /\ UNCHANGED <<backlog, mmeVars, s1ap_up, s1ap_dn, ran_pc, ran_ctx, s6aVars, exited>>
    BY DEF ConnectionClosed, DropConnection, MmeNext, ranVars, s1apVars
<1>2. conn_worker \in [UE -> Worker \cup {Nil}] /\ \A i \in 1 .. Len(backlog) : backlog[i] \in UE
    BY DEF UeSide, TypeInv, TypeOK, SctpTypeOK
<1>3. Handler(u) = [pc |-> "idle", id |-> 0]
    BY <1>1, IdleHandler DEF UeSide, UeInv
<1>4. Handler(u)' = [pc |-> "idle", id |-> 0]
    BY <1>1, <1>2 DEF Handler
<1>5. \A x \in UE : Handler(x)' = Handler(x)
  <2> SUFFICES ASSUME NEW x \in UE, x # u PROVE Handler(x)' = Handler(x)
    BY <1>3, <1>4
  <2>1. conn_worker'[x] = conn_worker[x]
    BY <1>1, <1>2
  <2> QED
    BY <1>1, <2>1 DEF Handler, mmeVars
<1>6. \A x \in UE : View(x)' = View(x)
    BY <1>1, <1>5 DEF View, mmeVars, Entries
<1>7. \A x \in UE : ViewOK(x, View(x))'
    BY <1>6, NoView DEF UeSide
<1>8. WorkersOK'
  <2> SUFFICES ASSUME NEW v \in Worker
               PROVE  IF mme_pc[v] = "idle" THEN mme_job[v] = NoMmeJob
                      ELSE /\ conn_worker'[mme_job[v].conn] = v
                           /\ mme_job[v].guti = mme_job[v].conn
    BY <1>1 DEF WorkersOK, mmeVars
  <2>1. mme_pc[v] # "idle" => mme_job[v].conn \in UE \ {u}
    BY <1>1 DEF UeSide, UeInv, WorkersOK, TypeInv, MmeJobsOK
  <2> QED
    BY <1>1, <1>2, <2>1 DEF UeSide, UeInv, WorkersOK
<1>9. VectorsOK' /\ OnlyGatewaysExit'
    BY <1>1 DEF UeSide, UeInv, VectorsOK, OnlyGatewaysExit, s6aVars, mmeVars
<1>10. BacklogOK'
    BY <1>1, <1>2 DEF UeSide, UeInv, BacklogOK
<1> QED
    BY <1>7, <1>8, <1>9, <1>10 DEF UeInv

\* Every step of a worker.
LEMMA MmeUe == ASSUME UeSide, NEW w \in Worker, MmeNext(w) PROVE UeInv'
<1>1. CASE mme_pc[w] = "idle"
    BY <1>1, HandleInitialAttachUe, HandleAutnUe, HandleSecurityModeCompleteUe,
       HandleAttachCompleteUe, HandleDetachUe, ConnectionClosedUe
       DEF MmeNext, MmeStep, AutnInfoAnswer, CreateSessionAnswer, ModifyBearerAnswer,
           DetachAnswer, RemItfid, RemUectx, RcvS11
<1>2. CASE mme_pc[w] # "idle"
  <2>1. mme_job[w].conn \in UE
    BY <1>2, BusyHandler DEF UeSide, UeInv
  <2>2. \/ AutnInfoAnswer(w) \/ CreateSessionAnswer(w) \/ ModifyBearerAnswer(w)
        \/ DetachAnswer(w) \/ RemItfid(w) \/ RemUectx(w)
    BY <1>2 DEF MmeNext, MmeStep, HandleInitialAttach, HandleAutn, HandleSecurityModeComplete,
                HandleAttachComplete, HandleDetach, ConnectionClosed, Receive
  <2> QED
    BY <2>1, <2>2, AutnInfoAnswerUe, CreateSessionAnswerUe, ModifyBearerAnswerUe,
       DetachAnswerUe, RemItfidUe, RemUectxUe
<1> QED
    BY <1>1, <1>2

-----------------------------------------------------------------------------
(* Steps of the other nodes.                                               *)

\* A step that touches neither terminals nor the MME changes no view.
LEMMA Elsewhere ==
    ASSUME UeSide, UNCHANGED <<s1apVars, connVars, ranVars, mmeVars>>
    PROVE  WorkersOK' /\ BacklogOK' /\ \A u \in UE : ViewOK(u, View(u))'
<1> USE DEF s1apVars, connVars, ranVars, mmeVars
<1>1. \A x \in UE : View(x)' = View(x)
    BY DEF View, Handler, Entries
<1>2. \A x \in UE : ViewOK(x, View(x))'
    BY <1>1, NoView DEF UeSide
<1>3. WorkersOK' /\ BacklogOK'
    BY DEF UeSide, UeInv, WorkersOK, BacklogOK
<1> QED
    BY <1>2, <1>3

\* The HSS answers with the row of the subscriber it was asked about.
LEMMA HssUe == ASSUME UeSide, NEW w \in Worker, HssNext(w) PROVE UeInv'
<1>1. WorkersOK' /\ BacklogOK' /\ \A u \in UE : ViewOK(u, View(u))'
    BY Elsewhere DEF HssNext
<1>2. PICK m \in s6a_req :
         /\ m.w = w /\ s6a_req' = s6a_req \ {m}
         /\ s6a_rsp' = s6a_rsp \cup {AutnInfo(w, m.imsi)}
    BY DEF HssNext, HandleAutninfoReq
<1>3. mme_job' = mme_job /\ exited' = exited
    BY DEF HssNext, HandleAutninfoReq, mmeVars
<1>4. AutnInfo(w, m.imsi).w = w /\ m.imsi = mme_job[w].guti
    BY <1>2 DEF AutnInfo, UeSide, UeInv, VectorsOK
<1>5. VectorsOK'
    BY <1>2, <1>3, <1>4 DEF UeSide, UeInv, VectorsOK
<1> QED
    BY <1>1, <1>3, <1>5 DEF UeSide, UeInv, OnlyGatewaysExit

\* The gateways may end themselves, and nobody else.
LEMMA SgwUe == ASSUME UeSide, NEW t \in S11Threads, SgwNext(t) PROVE UeInv'
<1>1. WorkersOK' /\ BacklogOK' /\ \A u \in UE : ViewOK(u, View(u))'
  <2>1. UNCHANGED <<s1apVars, connVars, ranVars, mmeVars>>
    BY DEF SgwNext
  <2> QED
    BY <2>1, Elsewhere
<1>2. VectorsOK'
    BY DEF SgwNext, UeSide, UeInv, VectorsOK, mmeVars, s6aVars
<1>3. exited' = exited \/ exited' = exited \cup {"sgw"}
    BY DEF SgwNext, SgwStep, SgwCreateSession, SgwUpdateItfid, SgwInitCtx, SgwCreateSessionAnswer,
           SgwModifyBearer, SgwModifyCtx, SgwDetach, SgwDetachCtx, SgwDetachAnswer, SgwRemItfid,
           SgwRemUectx, SgwExit, Type1Error
<1> QED
    BY <1>1, <1>2, <1>3 DEF UeSide, UeInv, OnlyGatewaysExit

\* The PGW touches nothing a view shows.
LEMMA PgwUe == ASSUME UeSide, NEW p \in PgwThreads, PgwNext(p) PROVE UeInv'
<1>1. WorkersOK' /\ BacklogOK' /\ \A u \in UE : ViewOK(u, View(u))'
  <2>1. UNCHANGED <<s1apVars, connVars, ranVars, mmeVars>>
    BY DEF PgwNext
  <2> QED
    BY <2>1, Elsewhere
<1>2. VectorsOK'
    BY DEF PgwNext, UeSide, UeInv, VectorsOK, mmeVars, s6aVars
<1>3. exited' = exited \/ exited' = exited \cup {"pgw"}
    BY DEF PgwNext, PgwStep, PgwCreateSession, PgwUpdateS5Id, PgwUpdateSgiId, PgwInitCtx,
           PgwDetach, PgwDetachCtx, PgwRemS5Id, PgwRemSgiId, PgwRemUectx, Type1Error
<1> QED
    BY <1>1, <1>2, <1>3 DEF UeSide, UeInv, OnlyGatewaysExit

-----------------------------------------------------------------------------
(* The theorems.                                                           *)

\* Nobody has said anything yet.
LEMMA InitUe == Init => UeInv
<1> SUFFICES ASSUME Init PROVE UeInv
    OBVIOUS
<1> USE DEF Init, SctpInit, RanInit, MmeInit, S6aInit
<1>1. WorkersOK /\ BacklogOK /\ VectorsOK /\ OnlyGatewaysExit
    BY DEF WorkersOK, BacklogOK, VectorsOK, OnlyGatewaysExit
<1>2. ASSUME NEW u \in UE PROVE ViewOK(u, View(u))
  <2>1. /\ View(u).pc = "connect" /\ View(u).up = <<>> /\ View(u).dn = <<>>
        /\ View(u).at.pc = "idle" /\ View(u).ids = {} /\ View(u).ctx = Nil
    BY DEF View, Handler, Entries
  <2>2. None(View(u).up) /\ None(View(u).dn)
    BY <2>1 DEF None
  <2>3. Conversation(View(u))
    BY <2>1, <2>2 DEF Conversation
  <2>4. IdsOK(View(u)) /\ MacsOK(View(u)) /\ KeysOK(u, View(u))
    BY <2>1, <2>2 DEF IdsOK, MacsOK, KeysOK, Known, Left, None
  <2> QED
    BY <2>3, <2>4 DEF ViewOK
<1> QED
    BY <1>1, <1>2 DEF UeInv

\* One case per node, and the stutter.
LEMMA NextUe == UeSide /\ [Next]_vars => UeInv'
<1> SUFFICES ASSUME UeSide, [Next]_vars PROVE UeInv'
    OBVIOUS
<1>1. ASSUME NEW u \in UE, RanNext(u) PROVE UeInv'
    BY <1>1, RanUe
<1>2. CASE AcceptNext
    BY <1>2, AcceptUe
<1>3. ASSUME NEW w \in Worker, MmeNext(w) PROVE UeInv'
    BY <1>3, MmeUe
<1>4. ASSUME NEW w \in Worker, HssNext(w) PROVE UeInv'
    BY <1>4, HssUe
<1>5. ASSUME NEW t \in S11Threads, SgwNext(t) PROVE UeInv'
    BY <1>5, SgwUe
<1>6. ASSUME NEW p \in PgwThreads, PgwNext(p) PROVE UeInv'
    BY <1>6, PgwUe
<1>7. CASE UNCHANGED vars
  <2>1. WorkersOK' /\ BacklogOK' /\ \A u \in UE : ViewOK(u, View(u))'
    BY <1>7, Elsewhere DEF vars
  <2> QED
    BY <1>7, <2>1 DEF vars, UeSide, UeInv, VectorsOK, OnlyGatewaysExit, mmeVars, s6aVars
<1> QED
    BY <1>1, <1>2, <1>3, <1>4, <1>5, <1>6, <1>7 DEF Next, Terminating

\* The invariant, for every number of subscribers, workers and gateway threads:
\* the conversations, the ids and the keys of all subscribers are in order.
THEOREM UeInvariance == Spec => []UeInv
<1> USE DEF UeSide
<1>1. Init => UeInv
    BY InitUe
<1>2. UeInv /\ (TypeInv /\ OneCall) /\ [Next]_vars => UeInv'
    BY NextUe
<1>3. Spec => [](TypeInv /\ OneCall)
    BY TypeInvariance, OneCallInvariance, PTL
<1> QED
    BY <1>1, <1>2, <1>3, PTL DEF Spec

\* What a RAN thread reads is the one message it waits for (sctp_client.cpp's
\* rcv hands over whatever comes next).
THEOREM RanReadsWhatItWaitsFor == Spec => []RanReadsExpected
<1>1. UeSide => RanReadsExpected
  <2> SUFFICES ASSUME UeSide, NEW u \in UE, s1ap_dn[u] # <<>>
               PROVE  /\ Len(s1ap_dn[u]) = 1
                      /\ ran_pc[u] \in DOMAIN ExpectedType
                      /\ Head(s1ap_dn[u]).type = ExpectedType[ran_pc[u]]
    BY DEF RanReadsExpected
  <2>1. /\ View(u) \in Views /\ ViewOK(u, View(u)) /\ View(u).dn # <<>>
        /\ View(u).pc = ran_pc[u] /\ View(u).dn = s1ap_dn[u]
    BY Before
  <2>2. View(u).pc \in DOMAIN ExpectedType /\ One(View(u).dn, ExpectedType[View(u).pc])
    BY <2>1, AnswerView
  <2>3. Head(s1ap_dn[u]) = s1ap_dn[u][1]
    BY <2>1, TakeFacts DEF Views
  <2> QED
    BY <2>1, <2>2, <2>3 DEF One
<1> QED
    BY <1>1, UeInvariance, TypeInvariance, OneCallInvariance, PTL DEF UeSide

\* Terminal and MME hold the same session key and the same NAS key while the
\* terminal is attached, though no message ever compares them.
THEOREM KeysAlwaysAgree == Spec => []KeysAgree
<1>1. UeSide => KeysAgree
  <2> SUFFICES ASSUME UeSide, NEW u \in UE, ran_pc[u] = "transfer"
               PROVE  /\ mme_ctx[u] # Nil
                      /\ mme_ctx[u].k_nas = ran_ctx[u].k_nas
                      /\ mme_ctx[u].k_asme = ran_ctx[u].k_asme
    BY DEF KeysAgree, Attached
  <2>1. /\ ViewOK(u, View(u)) /\ View(u).pc = "transfer" /\ View(u).ctx = mme_ctx[u]
        /\ View(u).ran = ran_ctx[u]
    BY Before
  <2>2. /\ View(u).ctx # Nil /\ View(u).ctx.k_asme = HssKAsme(u)
        /\ View(u).ran.k_asme = HssKAsme(u)
        /\ View(u).ctx.k_nas = KNasMme(HssKAsme(u))
        /\ View(u).ran.k_nas = KNasRan(HssKAsme(u))
    BY <2>1 DEF ViewOK, KeysOK, Known
  <2>3. KNasMme(HssKAsme(u)) = KNasRan(HssKAsme(u))
    <3>1. HssKAsme(u) \in Nat
      BY KeyFacts, HssAssumption DEF HssKAsme, HssXres
    <3> QED
      BY <3>1 DEF KNasMme, KNasRan
  <2> QED
    BY <2>1, <2>2, <2>3
<1> QED
    BY <1>1, UeInvariance, TypeInvariance, OneCallInvariance, PTL DEF UeSide

\* The assertions of the RAN, the MME and the HSS never fail, however the
\* gateways' threads interleave.
THEOREM OnlyGatewaysMayExit == Spec => []OnlyGatewaysExit
<1>1. UeInv => OnlyGatewaysExit
    BY DEF UeInv
<1> QED
    BY <1>1, UeInvariance, PTL
=============================================================================
