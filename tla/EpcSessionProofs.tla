--------------------------- MODULE EpcSessionProofs ---------------------------
(***************************************************************************)
(* The contents of the sessions, for any number of subscribers and         *)
(* threads and however they interleave: every message, local and table     *)
(* entry of a session carries the identifiers and the address of the       *)
(* subscriber it is for, and only terminals with the right key get one.    *)
(* The inductive invariants are SessionInv and GenuineInv.                 *)
(***************************************************************************)
EXTENDS EpcUeProofs

\* What is known of every state: the lower invariants and the sessions'.
SessionSide == UeSide /\ SessionInv

\* Subscribers have different tunnel identifiers.
LEMMA TunnelFacts ==
    \A u \in UE : /\ Tunnel(u) \in Teid
                  /\ IpAddr(u) \in Ip
                  /\ \A v \in UE : Tunnel(u) = Tunnel(v) => u = v
<1>1. \A u \in UE : Tunnel(u) = u
    BY UEAssumption DEF Tunnel, S11CteidMme
<1> QED
    BY <1>1, NumberingFacts DEF Tunnel

\* The lower invariants hold after every step.
LEMMA NextSide == UeSide /\ [Next]_vars => UeSide'
BY NextType, NextCalls, NextUe DEF UeSide, CallInv

\* Views are well typed and in order.
LEMMA ViewsOK == UeSide => \A u \in UE : View(u) \in Views /\ ViewOK(u, View(u))
BY ViewType DEF UeSide, UeInv

\* ... after a step, too.
LEMMA ViewsOKNext == UeSide' => (\A u \in UE : View(u) \in Views /\ ViewOK(u, View(u)))'
BY ViewsOK, PTL

-----------------------------------------------------------------------------
(* Bearers.                                                                *)

\* A terminal that has not been offered a bearer has nothing to name it by.
LEMMA NotOffered ==
    ASSUME NEW u \in UE, NEW v, ViewOK(u, v), ~Offered(v)
    PROVE  BearerOK(u, v)
<1>1. v.pc # "transfer"
    BY DEF Offered
<1>2. \A i \in 1 .. Len(v.dn) : v.dn[i].type # "attach_accept"
    BY DEF ViewOK, Conversation, Offered, None, One
<1>3. \A i \in 1 .. Len(v.up) : v.up[i].type # "attach_complete"
    BY DEF ViewOK, Conversation, Offered, None, One, Two
<1> QED
    BY <1>1, <1>2, <1>3 DEF BearerOK

\* A subscriber of whom nothing changes but its handler keeps its bearer.
LEMMA SameBearer ==
    ASSUME BearersOK, NEW u \in UE, ran_pc'[u] = ran_pc[u], ran_ctx'[u] = ran_ctx[u],
           s1ap_up'[u] = s1ap_up[u], s1ap_dn'[u] = s1ap_dn[u], mme_ctx'[u] = mme_ctx[u]
    PROVE  BearerOK(u, View(u))'
<1>1. BearerOK(u, View(u))
    BY DEF BearersOK
<1>2. /\ View(u)'.pc = View(u).pc /\ View(u)'.ran = View(u).ran
      /\ View(u)'.up = View(u).up /\ View(u)'.dn = View(u).dn /\ View(u)'.ctx = View(u).ctx
    BY DEF View
<1> QED
    BY <1>1, <1>2 DEF BearerOK, Offered

\* A RAN thread leaves the other subscribers alone.
LEMMA RanOthers ==
    ASSUME UeSide, NEW u \in UE, RanNext(u), NEW x \in UE, x # u
    PROVE  /\ ran_pc'[x] = ran_pc[x] /\ ran_ctx'[x] = ran_ctx[x]
           /\ s1ap_up'[x] = s1ap_up[x] /\ s1ap_dn'[x] = s1ap_dn[x]
           /\ mme_ctx'[x] = mme_ctx[x]
<1> USE DEF UeSide, TypeInv, TypeOK, RanTypeOK, SctpTypeOK
<1>0. mme_ctx'[x] = mme_ctx[x]
    BY DEF RanNext, mmeVars
<1>1. CASE ConnMme(u)
    BY <1>0, <1>1 DEF ConnMme, Goto
<1>2. CASE TimeExceeded(u)
    BY <1>0, <1>2 DEF TimeExceeded, Leave, Goto
<1>3. CASE InitialAttach(u)
    BY <1>0, <1>3 DEF InitialAttach, Goto, SendUp
<1>4. CASE Authenticate(u)
    BY <1>0, <1>4 DEF Authenticate, RcvDn, Leave, Goto, SendUp
<1>5. CASE SetSecurity(u)
    BY <1>0, <1>5 DEF SetSecurity, RcvDn, Goto, SendUp
<1>6. CASE SetEpsSession(u)
    BY <1>0, <1>6 DEF SetEpsSession, RcvDn, Goto, SendUp
<1>7. CASE DetachRequest(u)
    BY <1>0, <1>7 DEF DetachRequest, Goto, SendUp
<1>8. CASE DetachComplete(u)
    BY <1>0, <1>8 DEF DetachComplete, RcvDn, Goto
<1> QED
    BY <1>1, <1>2, <1>3, <1>4, <1>5, <1>6, <1>7, <1>8 DEF RanNext, RanStep

\* The terminal stores the bearer it has been offered and repeats its tunnel.
LEMMA StoredBearer ==
    ASSUME NEW u \in UE, NEW v \in Views, ViewOK(u, v), BearerOK(u, v),
           v.pc = "set_eps_session", v.dn # <<>>,
           NEW m, m = Head(v.dn), NEW a \in UpMsg, a.teid = m.teid,
           NEW n, n.pc = "transfer", n.up = Append(v.up, a), n.dn = Tail(v.dn), n.ctx = v.ctx,
           n.ran.s1_uteid_ul = m.teid, n.ran.s1_uteid_dl = m.teid, n.ran.ip_addr = m.ip
    PROVE  BearerOK(u, n)
<1>1. v.dn \in Seq(DnMsg) /\ v.up \in Seq(UpMsg)
    BY DEF Views
<1>2. None(v.up) /\ One(v.dn, "attach_accept") /\ None(n.dn)
  <2>1. None(v.up) /\ None(Tail(v.dn))
    BY AnswerView
  <2>2. One(v.dn, ExpectedType[v.pc])
    BY AnswerView
  <2> QED
    BY <2>1, <2>2 DEF ExpectedType
<1>3. Len(v.dn) = 1 /\ m = v.dn[1] /\ m.type = "attach_accept" /\ Len(n.up) = 1 /\ n.up[1] = a
    BY <1>1, <1>2, TakeFacts, SendFacts DEF One, None
<1>4. m.teid = Tunnel(u) /\ m.ip = IpAddr(u)
    BY <1>3 DEF BearerOK
<1>5. v.ctx.s11_cteid_sgw = Tunnel(u)
    BY <1>2 DEF BearerOK, Offered, One, None
<1> QED
    BY <1>2, <1>3, <1>4, <1>5 DEF BearerOK, None

\* It asks to leave.
LEMMA LeavingBearer ==
    ASSUME NEW u \in UE, NEW v \in Views, ViewOK(u, v), BearerOK(u, v), v.pc = "transfer",
           NEW a \in UpMsg, a.type = "detach_request",
           NEW n, n.pc = "detach", n.up = Append(v.up, a), n.dn = v.dn, n.ctx = v.ctx
    PROVE  BearerOK(u, n)
<1>1. v.up \in Seq(UpMsg) /\ Len(v.up) \in Nat
    BY DEF Views
<1>2. Len(n.up) = Len(v.up) + 1 /\ n.up[Len(v.up) + 1] = a
      /\ \A i \in 1 .. Len(v.up) : n.up[i] = v.up[i]
    BY <1>1, SendFacts
<1>3. \A i \in 1 .. Len(n.up) : n.up[i] = a \/ (i \in 1 .. Len(v.up) /\ n.up[i] = v.up[i])
  <2> SUFFICES ASSUME NEW i \in 1 .. Len(n.up)
               PROVE  n.up[i] = a \/ (i \in 1 .. Len(v.up) /\ n.up[i] = v.up[i])
    OBVIOUS
  <2>1. i \in 1 .. Len(v.up) + 1
    BY <1>2
  <2>2. i = Len(v.up) + 1 \/ i \in 1 .. Len(v.up)
    BY <1>1, <2>1
  <2> QED
    BY <1>2, <2>2
<1> QED
    BY <1>3 DEF BearerOK, Offered

\* A RAN thread keeps its own bearer in order ...
LEMMA RanBearer == ASSUME SessionSide, NEW u \in UE, RanNext(u), UeSide' PROVE BearerOK(u, View(u))'
<1>1. ViewOK(u, View(u)')
    BY ViewsOKNext
<1>2. CASE ~Offered(View(u)')
    BY <1>1, <1>2, NotOffered
<1>3. CASE Offered(View(u)')
  <2>0. View(u)'.pc \in {"set_eps_session", "transfer", "detach"} /\ View(u)'.pc = ran_pc'[u]
        /\ View(u)'.up = s1ap_up'[u] /\ View(u)'.dn = s1ap_dn'[u]
        /\ View(u)'.ran = ran_ctx'[u] /\ View(u)'.ctx = mme_ctx'[u]
    BY <1>3 DEF Offered, View
  <2>1. /\ View(u) \in Views /\ ViewOK(u, View(u)) /\ BearerOK(u, View(u))
        /\ View(u).pc = ran_pc[u] /\ View(u).up = s1ap_up[u] /\ View(u).dn = s1ap_dn[u]
        /\ View(u).ran = ran_ctx[u] /\ View(u).ctx = mme_ctx[u]
    BY ViewsOK DEF SessionSide, SessionInv, BearersOK, View
  <2>2. mme_ctx' = mme_ctx
    BY DEF RanNext, mmeVars
  <2> USE DEF SessionSide, UeSide, TypeInv, TypeOK, RanTypeOK, SctpTypeOK
  <2>3. CASE SetSecurity(u)
    <3>1. s1ap_dn'[u] = Tail(s1ap_dn[u]) /\ ran_pc[u] = "set_security" /\ s1ap_dn[u] # <<>>
      BY <2>3 DEF SetSecurity, RcvDn
    <3>2. None(s1ap_dn'[u])
      BY <2>1, <3>1, AnswerView
    <3>3. ran_pc'[u] \in {"set_security", "set_eps_session"}
      BY <2>3, <3>1 DEF SetSecurity, Goto
    <3> QED
      BY <1>3, <2>0, <3>2, <3>3 DEF Offered
  <2>4. CASE SetEpsSession(u)
    <3> DEFINE m == Head(s1ap_dn[u])
               a == Secured(ran_ctx[u], "attach_complete", m.teid)
    <3>1. s1ap_dn'[u] = Tail(s1ap_dn[u]) /\ ran_pc[u] = "set_eps_session" /\ s1ap_dn[u] # <<>>
      BY <2>4 DEF SetEpsSession, RcvDn
    <3>2. m \in DnMsg /\ m.mac
      BY <2>4, <3>1, RcvDnType, RcvFacts DEF SetEpsSession
    <3>3. a \in UpMsg /\ a.teid = m.teid
      BY <3>2, SecuredType DEF Secured, UpType, DnMsg
    <3>4. ran_pc'[u] = "transfer" /\ s1ap_up'[u] = Append(s1ap_up[u], a)
      BY <2>4, <3>2 DEF SetEpsSession, Goto, SendUp
    <3>5. ran_ctx'[u].s1_uteid_ul = m.teid /\ ran_ctx'[u].s1_uteid_dl = m.teid
          /\ ran_ctx'[u].ip_addr = m.ip
      BY <2>4, <3>2 DEF SetEpsSession, RanContext
    <3> HIDE DEF m, a
    <3>6. m = Head(View(u).dn)
      BY <2>1 DEF m
    <3> QED
      BY <2>0, <2>1, <2>2, <3>1, <3>3, <3>4, <3>5, <3>6, StoredBearer, ZenonT(40)
  <2>5. CASE DetachRequest(u)
    <3> DEFINE a == Secured(ran_ctx[u], "detach_request", 0)
    <3>1. ran_pc[u] = "transfer" /\ ran_pc'[u] = "detach" /\ s1ap_dn' = s1ap_dn
          /\ s1ap_up'[u] = Append(s1ap_up[u], a)
      BY <2>5 DEF DetachRequest, Goto, SendUp
    <3>2. a \in UpMsg /\ a.type = "detach_request"
      BY SecuredType, NumberingFacts DEF Secured, UpType
    <3> HIDE DEF a
    <3> QED
      BY <2>0, <2>1, <2>2, <3>1, <3>2, LeavingBearer
  <2>6. CASE ~SetSecurity(u) /\ ~SetEpsSession(u) /\ ~DetachRequest(u)
    <3>1. ran_pc'[u] \in {"loop", "done", "authenticate", "failed", "set_security"}
          \/ (DetachComplete(u) /\ ran_pc'[u] = "detach")
      <4>1. CASE ConnMme(u)
        BY <4>1 DEF ConnMme, Goto
      <4>2. CASE TimeExceeded(u)
        BY <4>2 DEF TimeExceeded, Leave, Goto
      <4>3. CASE InitialAttach(u)
        BY <4>3 DEF InitialAttach, Goto
      <4>4. CASE Authenticate(u)
        <5>1. ran_pc' = [ran_pc EXCEPT ![u] = "failed"] \/ ran_pc' = [ran_pc EXCEPT ![u] = "set_security"]
          BY <4>4 DEF Authenticate, Leave, Goto
        <5> QED
          BY <5>1
      <4>5. CASE DetachComplete(u)
        <5>1. ran_pc' = [ran_pc EXCEPT ![u] = "loop"] \/ ran_pc' = ran_pc
          BY <4>5 DEF DetachComplete, Goto
        <5>2. ran_pc[u] = "detach"
          BY <4>5 DEF DetachComplete, RcvDn
        <5> QED
          BY <4>5, <5>1, <5>2
      <4> QED
        BY <2>6, <4>1, <4>2, <4>3, <4>4, <4>5 DEF RanNext, RanStep
    <3>2. ~DetachComplete(u)
      <4>1. DetachComplete(u) => s1ap_dn[u] # <<>> /\ ran_pc[u] = "detach"
        BY DEF DetachComplete, RcvDn
      <4>2. DetachComplete(u) => Head(s1ap_dn[u]).mac
        BY <4>1, RcvFacts
      <4>3. DetachComplete(u) => ran_pc'[u] = "loop"
        BY <4>1, <4>2 DEF DetachComplete, Goto
      <4> QED
        BY <2>0, <4>3
    <3> QED
      BY <2>0, <3>1, <3>2
  <2> QED
    BY <2>3, <2>4, <2>5, <2>6
<1> QED
    BY <1>2, <1>3

\* ... and touches nothing else of the sessions.
LEMMA RanSession == ASSUME SessionSide, NEW u \in UE, RanNext(u), UeSide' PROVE SessionInv'
<1>1. BearersOK'
  <2> SUFFICES ASSUME NEW x \in UE PROVE BearerOK(x, View(x))'
    BY DEF BearersOK
  <2>1. CASE x = u
    BY <2>1, RanBearer
  <2>2. CASE x # u
    BY <2>2, RanOthers, SameBearer DEF SessionSide, SessionInv
  <2> QED
    BY <2>1, <2>2
<1> USE DEF SessionSide, SessionInv, RanNext, mmeVars, s11Vars, s5Vars, sgwVars, pgwVars
<1>2. TablesOK'
    BY DEF TablesOK
<1>3. S11Content' /\ S5Content'
    BY DEF S11Content, S5Content
<1>4. SgwLocalsOK' /\ PgwLocalsOK'
    BY DEF SgwLocalsOK, PgwLocalsOK, SgwLocalOK, PgwLocalOK
<1> QED
    BY <1>1, <1>2, <1>3, <1>4

-----------------------------------------------------------------------------
(* The MME.                                                                *)

\* A worker that has no call under way concerns no message and no SGW thread.
LEMMA MmeAlone ==
    ASSUME SessionSide, NEW w \in Worker, mme_pc[w] \notin SessionType,
           \A v \in Worker \ {w} : mme_job'[v] = mme_job[v],
           UNCHANGED <<s11Vars, sgwVars>>
    PROVE  S11Content' /\ SgwLocalsOK'
<1> USE DEF SessionSide, UeSide, SessionInv
<1>1. \A m \in s11_req \cup s11_rsp : m.w \in Worker \ {w}
    BY Callers DEF OneCall, S11Calls, S11Awaited
<1>2. \A t \in S11Threads : SgwOwes(sgw_pc[t]) # "none" => sgw_job[t].src \in Worker \ {w}
    BY Callers DEF OneCall, S11Calls, S11Awaited
<1>3. S11Content'
    BY <1>1 DEF S11Content, S11RequestOK, S11AnswerOK, s11Vars
<1>4. SgwLocalsOK'
    BY <1>2 DEF SgwLocalsOK, SgwLocalOK, sgwVars
<1> QED
    BY <1>3, <1>4

\* A worker asks the SGW.
LEMMA MmeAsks ==
    ASSUME SessionSide, NEW w \in Worker, mme_pc[w] \notin SessionType,
           \A v \in Worker \ {w} : mme_job'[v] = mme_job[v],
           NEW r, r.w = w, S11RequestOK(r, mme_job'[w].conn), s11_req' = s11_req \cup {r},
           UNCHANGED <<s11_rsp, sgwVars>>
    PROVE  S11Content' /\ SgwLocalsOK'
<1> USE DEF SessionSide, UeSide, SessionInv
<1>1. \A m \in s11_req \cup s11_rsp : m.w \in Worker \ {w}
    BY Callers DEF OneCall, S11Calls, S11Awaited
<1>2. \A t \in S11Threads : SgwOwes(sgw_pc[t]) # "none" => sgw_job[t].src \in Worker \ {w}
    BY Callers DEF OneCall, S11Calls, S11Awaited
<1>3. S11Content'
  <2>1. \A m \in s11_req' : S11RequestOK(m, mme_job'[m.w].conn)
    <3> SUFFICES ASSUME NEW m \in s11_req' PROVE S11RequestOK(m, mme_job'[m.w].conn)
      OBVIOUS
    <3>1. CASE m \in s11_req
      <4>1. S11RequestOK(m, mme_job[m.w].conn) /\ mme_job'[m.w] = mme_job[m.w]
        BY <1>1, <3>1 DEF S11Content
      <4> QED
        BY <4>1
    <3> QED
      BY <3>1
  <2>2. \A m \in s11_rsp' : S11AnswerOK(m, mme_job'[m.w].conn)
    BY <1>1 DEF S11Content, S11AnswerOK
  <2> QED
    BY <2>1, <2>2 DEF S11Content, S11RequestOK, S11AnswerOK
<1>4. SgwLocalsOK'
    BY <1>2 DEF SgwLocalsOK, SgwLocalOK, sgwVars
<1> QED
    BY <1>3, <1>4

\* A worker takes the SGW's answer.
LEMMA MmeHears ==
    ASSUME SessionSide, NEW w \in Worker, NEW m \in s11_rsp, m.w = w,
           \A v \in Worker \ {w} : mme_job'[v] = mme_job[v],
           s11_rsp' = s11_rsp \ {m}, UNCHANGED <<s11_req, sgwVars>>
    PROVE  S11Content' /\ SgwLocalsOK'
<1> USE DEF SessionSide, UeSide, SessionInv
<1>1. \A n \in s11_req' \cup s11_rsp' : n.w \in Worker \ {w}
    BY Callers DEF OneCall, S11Calls, S11Single
<1>2. \A t \in S11Threads : SgwOwes(sgw_pc[t]) # "none" => sgw_job[t].src \in Worker \ {w}
    BY Callers DEF OneCall, S11Calls, S11Single
<1>3. S11Content'
    BY <1>1 DEF S11Content, S11RequestOK, S11AnswerOK
<1>4. SgwLocalsOK'
    BY <1>2 DEF SgwLocalsOK, SgwLocalOK, sgwVars
<1> QED
    BY <1>3, <1>4

\* The bearer of the subscriber that is served is in order, the others' as before.
LEMMA MmeBearers ==
    ASSUME SessionSide, NEW u \in UE,
           \A x \in UE \ {u} : s1ap_up'[x] = s1ap_up[x] /\ s1ap_dn'[x] = s1ap_dn[x]
                               /\ mme_ctx'[x] = mme_ctx[x],
           UNCHANGED ranVars, BearerOK(u, View(u))'
    PROVE  BearersOK'
<1> SUFFICES ASSUME NEW x \in UE PROVE BearerOK(x, View(x))'
    BY DEF BearersOK
<1>1. CASE x # u
    BY <1>1, SameBearer DEF SessionSide, SessionInv, ranVars
<1> QED
    BY <1>1

\* A subscriber without the offer of a bearer has it in order, after a step too.
LEMMA Unoffered ==
    ASSUME UeSide', NEW u \in UE, ~Offered(View(u)')
    PROVE  BearerOK(u, View(u))'
BY ViewsOKNext, NotOffered

\* No worker touches SGW, PGW or what is between them.
LEMMA MmeGateways ==
    ASSUME SessionSide, NEW w \in Worker, MmeNext(w)
    PROVE  TablesOK' /\ S5Content' /\ PgwLocalsOK' /\ UNCHANGED <<ranVars, sgwVars>>
<1> USE DEF SessionSide, SessionInv, MmeNext, s5Vars, sgwVars, pgwVars
<1>1. TablesOK'
    BY DEF TablesOK
<1>2. S5Content'
    BY DEF S5Content, S5RequestOK, S5AnswerOK
<1>3. PgwLocalsOK'
    BY DEF PgwLocalsOK, PgwLocalOK
<1> QED
    BY <1>1, <1>2, <1>3

\* What a handler that begins with a message may rely on.
LEMMA ReceiveSession ==
    ASSUME SessionSide, NEW w \in Worker, NEW u \in UE, NEW type, Receive(w, u, type)
    PROVE  LET v == View(u)
               m == Head(s1ap_up[u])
           IN  /\ v \in Views /\ ViewOK(u, v) /\ BearerOK(u, v)
               /\ v.at.pc = "idle" /\ v.up # <<>> /\ Head(v.up).type = type
               /\ v.pc = ran_pc[u] /\ v.up = s1ap_up[u] /\ v.dn = s1ap_dn[u]
               /\ v.ran = ran_ctx[u] /\ v.ctx = mme_ctx[u]
               /\ mme_pc[w] \notin SessionType
               /\ s1ap_up'[u] = Tail(v.up)
               /\ \A x \in UE \ {u} : s1ap_up'[x] = s1ap_up[x]
<1>1. /\ mme_pc[w] = "idle" /\ View(u).at.pc = "idle" /\ View(u).up # <<>>
      /\ Head(View(u).up).type = type /\ View(u).up = s1ap_up[u]
      /\ s1ap_up' = [s1ap_up EXCEPT ![u] = Tail(s1ap_up[u])]
    BY ReceiveFacts DEF SessionSide
<1>2. View(u) \in Views /\ ViewOK(u, View(u)) /\ BearerOK(u, View(u))
    BY ViewsOK DEF SessionSide, SessionInv, BearersOK
<1>3. View(u).pc = ran_pc[u] /\ View(u).dn = s1ap_dn[u] /\ View(u).ran = ran_ctx[u]
      /\ View(u).ctx = mme_ctx[u]
    BY DEF View
<1>4. s1ap_up'[u] = Tail(s1ap_up[u]) /\ \A x \in UE \ {u} : s1ap_up'[x] = s1ap_up[x]
    BY <1>1 DEF SessionSide, UeSide, TypeInv, TypeOK, SctpTypeOK
<1> QED
    BY <1>1, <1>2, <1>3, <1>4 DEF SessionType

\* An attach begins: the terminal waits, nothing is on offer.
LEMMA HandleInitialAttachSession ==
    ASSUME SessionSide, UeSide', NEW w \in Worker, NEW u \in UE, MmeNext(w),
           HandleInitialAttach(w, u)
    PROVE  SessionInv'
<1>1. Receive(w, u, "initial_attach")
    BY DEF HandleInitialAttach
<1>2. ran_pc[u] = "authenticate" /\ mme_pc[w] \notin SessionType
    BY <1>1, ReceiveSession, RequestView
<1>3. /\ TablesOK' /\ S5Content' /\ PgwLocalsOK' /\ UNCHANGED <<ranVars, sgwVars>>
      /\ UNCHANGED s11Vars /\ s1ap_dn' = s1ap_dn
      /\ \A x \in UE \ {u} : s1ap_up'[x] = s1ap_up[x]
    BY <1>1, MmeGateways, ReceiveSession DEF HandleInitialAttach
<1>4. /\ \A x \in UE \ {u} : mme_ctx'[x] = mme_ctx[x]
      /\ \A v \in Worker \ {w} : mme_job'[v] = mme_job[v]
    BY DEF HandleInitialAttach, Block, SessionSide, UeSide, TypeInv, TypeOK, MmeTypeOK
<1>5. ~Offered(View(u)')
  <2>1. View(u)'.pc = "authenticate"
    BY <1>2, <1>3 DEF View, ranVars
  <2> QED
    BY <2>1 DEF Offered
<1>6. BearersOK'
    BY <1>3, <1>4, <1>5, Unoffered, MmeBearers
<1>7. S11Content' /\ SgwLocalsOK'
    BY <1>2, <1>3, <1>4, MmeAlone
<1> QED
    BY <1>3, <1>6, <1>7 DEF SessionInv

\* So it does while it proves who it is.
LEMMA HandleAutnSession ==
    ASSUME SessionSide, UeSide', NEW w \in Worker, NEW u \in UE, MmeNext(w), HandleAutn(w, u)
    PROVE  SessionInv'
<1>1. Receive(w, u, "auth_response")
    BY DEF HandleAutn
<1>2. ran_pc[u] = "set_security" /\ mme_pc[w] \notin SessionType
    BY <1>1, ReceiveSession, RequestView
<1>3. /\ TablesOK' /\ S5Content' /\ PgwLocalsOK' /\ UNCHANGED <<ranVars, sgwVars>>
      /\ UNCHANGED s11Vars
      /\ \A x \in UE \ {u} : s1ap_up'[x] = s1ap_up[x]
    BY <1>1, MmeGateways, ReceiveSession DEF HandleAutn
<1>4. GetGuti(Head(s1ap_up[u]).id) = u
    BY <1>1, RequestFacts DEF SessionSide
<1>5. /\ \A x \in UE \ {u} : mme_ctx'[x] = mme_ctx[x] /\ s1ap_dn'[x] = s1ap_dn[x]
      /\ \A v \in Worker \ {w} : mme_job'[v] = mme_job[v]
  <2>1. u # Nil
    BY UEFacts
  <2>2. /\ \/ \E c : mme_ctx' = [mme_ctx EXCEPT ![u] = c]
        /\ \/ \E m : SendDn(u, m)
           \/ UNCHANGED s1ap_dn
        /\ UNCHANGED mme_job
    BY <1>4, <2>1 DEF HandleAutn
  <2> QED
    BY <2>2 DEF SendDn, SessionSide, UeSide, TypeInv, TypeOK, MmeTypeOK, SctpTypeOK
<1>6. ~Offered(View(u)')
  <2>1. View(u)'.pc = "set_security"
    BY <1>2, <1>3 DEF View, ranVars
  <2> QED
    BY <2>1 DEF Offered
<1>7. BearersOK'
    BY <1>3, <1>5, <1>6, Unoffered, MmeBearers
<1>8. S11Content' /\ SgwLocalsOK'
    BY <1>2, <1>3, <1>5, MmeAlone
<1> QED
    BY <1>3, <1>7, <1>8 DEF SessionInv

\* The request for a session names the subscriber and its own tunnel.
LEMMA HandleSecurityModeCompleteSession ==
    ASSUME SessionSide, UeSide', NEW w \in Worker, NEW u \in UE, MmeNext(w),
           HandleSecurityModeComplete(w, u)
    PROVE  SessionInv'
<1> DEFINE r == [w |-> w, type |-> "create", teid |-> 0, mme |-> Tunnel(u), imsi |-> u, dl |-> 0]
<1>1. Receive(w, u, "security_complete")
    BY DEF HandleSecurityModeComplete
<1>2. mme_pc[w] \notin SessionType /\ View(u).pc = ran_pc[u] /\ View(u).dn = s1ap_dn[u]
    BY <1>1, ReceiveSession
<1>3. View(u).pc = "set_eps_session" /\ None(View(u).dn)
    BY <1>1, ReceiveSession, RequestView
<1>4. /\ TablesOK' /\ S5Content' /\ PgwLocalsOK' /\ UNCHANGED <<ranVars, sgwVars>>
      /\ \A x \in UE \ {u} : s1ap_up'[x] = s1ap_up[x]
    BY <1>1, MmeGateways, ReceiveSession
<1>5. GetGuti(Head(s1ap_up[u]).id) = u /\ Checked(Head(s1ap_up[u]))
    BY <1>1, RequestFacts DEF SessionSide
<1>6. /\ s11_req' = s11_req \cup {r} /\ s11_rsp' = s11_rsp /\ s1ap_dn' = s1ap_dn
      /\ mme_ctx' = [mme_ctx EXCEPT ![u] = [MmeCtx(u) EXCEPT !.s11_cteid_mme = Tunnel(u)]]
      /\ mme_job' = [mme_job EXCEPT ![w] = [conn |-> u, id |-> Head(s1ap_up[u]).id, guti |-> u]]
    BY <1>5 DEF HandleSecurityModeComplete, Block, Tunnel
<1>7. /\ \A x \in UE \ {u} : mme_ctx'[x] = mme_ctx[x]
      /\ \A v \in Worker \ {w} : mme_job'[v] = mme_job[v]
      /\ mme_job'[w].conn = u
    BY <1>6 DEF SessionSide, UeSide, TypeInv, TypeOK, MmeTypeOK
<1>8. ~Offered(View(u)')
  <2>1. View(u)'.pc = "set_eps_session" /\ None(View(u)'.dn)
    BY <1>2, <1>3, <1>4, <1>6 DEF View, ranVars
  <2> QED
    BY <2>1 DEF Offered
<1>9. BearersOK'
    BY <1>4, <1>6, <1>7, <1>8, Unoffered, MmeBearers
<1>10. r.w = w /\ S11RequestOK(r, mme_job'[w].conn)
    BY <1>7 DEF S11RequestOK
<1> HIDE DEF r
<1>11. S11Content' /\ SgwLocalsOK'
    BY <1>2, <1>4, <1>6, <1>7, <1>10, MmeAsks
<1> QED
    BY <1>4, <1>9, <1>11 DEF SessionInv

\* The terminal repeats the tunnel it was given, and the request passes it on.
LEMMA HandleAttachCompleteSession ==
    ASSUME SessionSide, UeSide', NEW w \in Worker, NEW u \in UE, MmeNext(w),
           HandleAttachComplete(w, u)
    PROVE  SessionInv'
<1> DEFINE m   == Head(s1ap_up[u])
           ctx == [mme_ctx[u] EXCEPT !.s1_uteid_dl = m.teid, !.emm_state = 1]
           r   == [w |-> w, type |-> "modify", teid |-> ctx.s11_cteid_sgw, mme |-> 0,
                   imsi |-> Nil, dl |-> ctx.s1_uteid_dl]
<1>1. Receive(w, u, "attach_complete")
    BY DEF HandleAttachComplete
<1>2. /\ mme_pc[w] \notin SessionType /\ View(u).pc = ran_pc[u] /\ View(u).dn = s1ap_dn[u]
      /\ View(u).up = s1ap_up[u] /\ View(u).ran = ran_ctx[u] /\ View(u).ctx = mme_ctx[u]
      /\ BearerOK(u, View(u)) /\ s1ap_up'[u] = Tail(View(u).up) /\ View(u).up # <<>>
    BY <1>1, ReceiveSession
<1>3. /\ m = View(u).up[1] /\ View(u).up \in Seq(UpMsg) /\ m.type = "attach_complete"
      /\ None(View(u).dn) /\ View(u).pc \in {"transfer", "detach"}
    BY <1>1, ReceiveSession, RequestView
<1>4. /\ TablesOK' /\ S5Content' /\ PgwLocalsOK' /\ UNCHANGED <<ranVars, sgwVars>>
      /\ \A x \in UE \ {u} : s1ap_up'[x] = s1ap_up[x]
    BY <1>1, MmeGateways, ReceiveSession
<1>5. /\ GetGuti(m.id) = u /\ Checked(m) /\ MmeCtx(u) = mme_ctx[u] /\ mme_ctx[u] \in MmeContext
      /\ m \in UpMsg
    BY <1>1, RequestFacts DEF SessionSide
<1>6. /\ s11_req' = s11_req \cup {r} /\ s11_rsp' = s11_rsp /\ s1ap_dn' = s1ap_dn
      /\ mme_ctx' = [mme_ctx EXCEPT ![u] = ctx]
      /\ mme_job' = [mme_job EXCEPT ![w] = [conn |-> u, id |-> m.id, guti |-> u]]
    BY <1>5 DEF HandleAttachComplete, Block
<1>7. /\ \A x \in UE \ {u} : mme_ctx'[x] = mme_ctx[x]
      /\ \A v \in Worker \ {w} : mme_job'[v] = mme_job[v]
      /\ mme_job'[w].conn = u /\ mme_ctx'[u] = ctx
    BY <1>6 DEF SessionSide, UeSide, TypeInv, TypeOK, MmeTypeOK
<1>8. ctx.s11_cteid_sgw = mme_ctx[u].s11_cteid_sgw /\ ctx.s1_uteid_dl = m.teid
    BY <1>5 DEF MmeContext
<1>q. /\ Len(View(u).up) \in Nat \ {0} /\ Len(Tail(View(u).up)) = Len(View(u).up) - 1
      /\ \A i \in 1 .. Len(View(u).up) - 1 : Tail(View(u).up)[i] = View(u).up[i + 1]
    BY <1>2, <1>3, TakeFacts
<1>9. m.teid = Tunnel(u) /\ mme_ctx[u].s11_cteid_sgw = Tunnel(u)
    BY <1>2, <1>3, <1>q DEF BearerOK, Offered, None
<1>10. BearerOK(u, View(u)')
  <2>1. /\ View(u)'.pc = View(u).pc /\ View(u)'.dn = View(u).dn /\ View(u)'.ran = View(u).ran
        /\ View(u)'.up = Tail(View(u).up) /\ View(u)'.ctx.s11_cteid_sgw = Tunnel(u)
    BY <1>2, <1>4, <1>6, <1>7, <1>8, <1>9 DEF View, ranVars
  <2>2. \A i \in 1 .. Len(View(u)'.up) :
           View(u)'.up[i].type = "attach_complete" => View(u)'.up[i].teid = Tunnel(u)
    <3> SUFFICES ASSUME NEW i \in 1 .. Len(View(u).up) - 1,
                        View(u).up[i + 1].type = "attach_complete"
                 PROVE  View(u).up[i + 1].teid = Tunnel(u)
      BY <1>q, <2>1
    <3> QED
      BY <1>2, <1>q DEF BearerOK
  <2> QED
    BY <1>2, <2>1, <2>2 DEF BearerOK
<1>11. BearersOK'
    BY <1>4, <1>6, <1>7, <1>10, MmeBearers
<1>12. r.w = w /\ S11RequestOK(r, mme_job'[w].conn)
    BY <1>7, <1>8, <1>9 DEF S11RequestOK
<1> HIDE DEF r, ctx, m
<1>13. S11Content' /\ SgwLocalsOK'
    BY <1>2, <1>4, <1>6, <1>7, <1>12, MmeAsks
<1> QED
    BY <1>4, <1>11, <1>13 DEF SessionInv

\* The request to end the session names its tunnel.
LEMMA HandleDetachSession ==
    ASSUME SessionSide, UeSide', NEW w \in Worker, NEW u \in UE, MmeNext(w), HandleDetach(w, u)
    PROVE  SessionInv'
<1> DEFINE r == [w |-> w, type |-> "detach", teid |-> mme_ctx[u].s11_cteid_sgw, mme |-> 0,
                 imsi |-> Nil, dl |-> 0]
<1>1. Receive(w, u, "detach_request")
    BY DEF HandleDetach
<1>2. /\ mme_pc[w] \notin SessionType /\ View(u).pc = ran_pc[u] /\ View(u).ctx = mme_ctx[u]
      /\ BearerOK(u, View(u)) /\ s1ap_up'[u] = Tail(View(u).up) /\ View(u).up # <<>>
      /\ View(u) \in Views
    BY <1>1, ReceiveSession
<1>3. View(u).pc = "detach" /\ Len(View(u).up) = 1 /\ View(u).up \in Seq(UpMsg)
    BY <1>1, ReceiveSession, RequestView
<1>4. /\ TablesOK' /\ S5Content' /\ PgwLocalsOK' /\ UNCHANGED <<ranVars, sgwVars>>
      /\ \A x \in UE \ {u} : s1ap_up'[x] = s1ap_up[x]
    BY <1>1, MmeGateways, ReceiveSession
<1>5. GetGuti(Head(s1ap_up[u]).id) = u /\ Checked(Head(s1ap_up[u])) /\ MmeCtx(u) = mme_ctx[u]
    BY <1>1, RequestFacts DEF SessionSide
<1>6. /\ s11_req' = s11_req \cup {r} /\ s11_rsp' = s11_rsp /\ s1ap_dn' = s1ap_dn
      /\ mme_ctx' = [mme_ctx EXCEPT ![u] = mme_ctx[u]]
      /\ mme_job' = [mme_job EXCEPT ![w] = [conn |-> u, id |-> Head(s1ap_up[u]).id, guti |-> u]]
    BY <1>5 DEF HandleDetach, Block
<1>7. /\ \A x \in UE \ {u} : mme_ctx'[x] = mme_ctx[x]
      /\ \A v \in Worker \ {w} : mme_job'[v] = mme_job[v]
      /\ mme_job'[w].conn = u
    BY <1>6 DEF SessionSide, UeSide, TypeInv, TypeOK, MmeTypeOK
<1>8. mme_ctx[u].s11_cteid_sgw = Tunnel(u)
    BY <1>2, <1>3 DEF BearerOK, Offered, None
<1>9. ~Offered(View(u)')
  <2>1. View(u)'.pc = "detach" /\ View(u)'.up = Tail(View(u).up)
    BY <1>2, <1>3, <1>4 DEF View, ranVars
  <2>2. None(Tail(View(u).up))
    BY <1>2, <1>3, TakeFacts DEF None
  <2> QED
    BY <2>1, <2>2 DEF Offered
<1>10. BearersOK'
    BY <1>4, <1>6, <1>7, <1>9, Unoffered, MmeBearers
<1>11. r.w = w /\ S11RequestOK(r, mme_job'[w].conn)
    BY <1>7, <1>8 DEF S11RequestOK
<1> HIDE DEF r
<1>12. S11Content' /\ SgwLocalsOK'
    BY <1>2, <1>4, <1>6, <1>7, <1>11, MmeAsks
<1> QED
    BY <1>4, <1>10, <1>12 DEF SessionInv

\* What a worker that goes on may rely on.
LEMMA BusySession ==
    ASSUME SessionSide, NEW w \in Worker, NEW u \in UE, mme_job[w].conn = u
    PROVE  LET v == View(u)
           IN  /\ v \in Views /\ ViewOK(u, v) /\ BearerOK(u, v)
               /\ v.pc = ran_pc[u] /\ v.up = s1ap_up[u] /\ v.dn = s1ap_dn[u]
               /\ v.ran = ran_ctx[u] /\ v.ctx = mme_ctx[u]
               /\ mme_pc[w] # "idle" /\ v.at.pc = mme_pc[w]
               /\ mme_job[w].guti = u
<1>1. mme_pc[w] # "idle"
  <2>1. u # Nil
    BY UEFacts
  <2> QED
    BY <2>1 DEF SessionSide, UeSide, UeInv, WorkersOK, NoMmeJob
<1>2. mme_job[w].guti = u /\ Handler(u) = [pc |-> mme_pc[w], id |-> mme_job[w].id]
    BY <1>1, BusyHandler DEF SessionSide, UeSide, UeInv
<1>3. View(u) \in Views /\ ViewOK(u, View(u)) /\ BearerOK(u, View(u))
    BY ViewsOK DEF SessionSide, SessionInv, BearersOK
<1>4. /\ View(u).pc = ran_pc[u] /\ View(u).dn = s1ap_dn[u] /\ View(u).ran = ran_ctx[u]
      /\ View(u).ctx = mme_ctx[u] /\ View(u).up = s1ap_up[u] /\ View(u).at = Handler(u)
    BY DEF View
<1> QED
    BY <1>1, <1>2, <1>3, <1>4

\* The vector goes to a terminal that waits for it.
LEMMA AutnInfoAnswerSession ==
    ASSUME SessionSide, UeSide', NEW w \in Worker, NEW u \in UE, mme_job[w].conn = u,
           MmeNext(w), AutnInfoAnswer(w)
    PROVE  SessionInv'
<1>1. mme_pc[w] = "autn_info" /\ mme_job[w].guti = u /\ View(u).at.pc = "autn_info"
      /\ ViewOK(u, View(u)) /\ View(u).pc = ran_pc[u]
    BY BusySession DEF AutnInfoAnswer
<1>2. ran_pc[u] = "authenticate"
    BY <1>1 DEF ViewOK, Conversation, Cleaning
<1>3. /\ TablesOK' /\ S5Content' /\ PgwLocalsOK' /\ UNCHANGED <<ranVars, sgwVars>>
      /\ UNCHANGED s11Vars /\ s1ap_up' = s1ap_up
    BY MmeGateways DEF AutnInfoAnswer
<1>4. /\ \A x \in UE \ {u} : mme_ctx'[x] = mme_ctx[x] /\ s1ap_dn'[x] = s1ap_dn[x]
      /\ \A v \in Worker \ {w} : mme_job'[v] = mme_job[v]
  <2>1. /\ \E c : mme_ctx' = [mme_ctx EXCEPT ![u] = c]
        /\ \E m : SendDn(u, m)
        /\ mme_job' = [mme_job EXCEPT ![w] = NoMmeJob]
    BY <1>1 DEF AutnInfoAnswer, Unblock, Block
  <2> QED
    BY <2>1 DEF SendDn, SessionSide, UeSide, TypeInv, TypeOK, MmeTypeOK, SctpTypeOK
<1>5. ~Offered(View(u)')
  <2>1. View(u)'.pc = "authenticate"
    BY <1>2, <1>3 DEF View, ranVars
  <2> QED
    BY <2>1 DEF Offered
<1>6. BearersOK'
    BY <1>3, <1>4, <1>5, Unoffered, MmeBearers
<1>7. mme_pc[w] \notin SessionType
    BY <1>1 DEF SessionType
<1>8. S11Content' /\ SgwLocalsOK'
    BY <1>3, <1>4, <1>7, MmeAlone
<1> QED
    BY <1>3, <1>6, <1>8 DEF SessionInv

\* The MME offers the terminal the bearer the SGW answered with.
LEMMA OfferedBearer ==
    ASSUME NEW u \in UE, NEW v \in Views, ViewOK(u, v), v.at.pc = "create",
           NEW a \in DnMsg, a.teid = Tunnel(u), a.ip = IpAddr(u),
           NEW n, n.pc = v.pc, n.ran = v.ran, n.up = v.up, n.dn = Append(v.dn, a),
           n.ctx.s11_cteid_sgw = Tunnel(u)
    PROVE  BearerOK(u, n)
<1>1. v.pc = "set_eps_session" /\ None(v.up) /\ None(v.dn)
    BY DEF ViewOK, Conversation, Cleaning
<1>2. v.dn \in Seq(DnMsg)
    BY DEF Views
<1>3. Len(n.dn) = 1 /\ n.dn[1] = a
    BY <1>1, <1>2, SendFacts DEF None
<1> QED
    BY <1>1, <1>3 DEF BearerOK, None

\* The worker that reads the create answer keeps the TEIDs the SGW gave it.
LEMMA CreateSessionAnswerSession ==
    ASSUME SessionSide, UeSide', NEW w \in Worker, NEW u \in UE, mme_job[w].conn = u,
           MmeNext(w), CreateSessionAnswer(w)
    PROVE  SessionInv'
<1>1. PICK m \in s11_rsp :
          /\ RcvS11(w, "create", m)
          /\ mme_ctx' = [mme_ctx EXCEPT ![mme_job[w].guti] =
                            [MmeCtx(mme_job[w].guti) EXCEPT !.s11_cteid_sgw = m.s11,
                                !.s1_uteid_ul = m.ul, !.ip_addr = m.ip]]
          /\ SendDn(mme_job[w].conn, [Dn("attach_accept", mme_job[w].id) EXCEPT
                                         !.mac = TRUE, !.teid = m.ul, !.ip = m.ip])
    BY DEF CreateSessionAnswer
<1> DEFINE ctx == [MmeCtx(u) EXCEPT !.s11_cteid_sgw = m.s11, !.s1_uteid_ul = m.ul,
                                    !.ip_addr = m.ip]
           a   == [Dn("attach_accept", mme_job[w].id) EXCEPT !.mac = TRUE, !.teid = m.ul,
                                                            !.ip = m.ip]
<1>2. mme_pc[w] = "create" /\ m \in S11Rsp /\ mme_job[w].id \in Nat /\ m.w = w
      /\ s11_rsp' = s11_rsp \ {m} /\ MmeCtx(u) \in MmeContext
    BY <1>1, MmeCtxType DEF RcvS11, SessionSide, UeSide, TypeInv, TypeOK, S11TypeOK, MmeTypeOK,
                            MmeJob
<1>3. m.type = "create" /\ m.s11 = Tunnel(u) /\ m.ul = Tunnel(u) /\ m.ip = IpAddr(u)
  <2>1. S11AnswerOK(m, u) /\ mme_pc[m.w] = m.type
    BY <1>2 DEF SessionSide, SessionInv, S11Content, UeSide, OneCall, S11Calls, S11Awaited
  <2> QED
    BY <1>2, <2>1 DEF S11AnswerOK
<1>4. /\ mme_job[w].guti = u /\ View(u) \in Views /\ ViewOK(u, View(u))
      /\ View(u).at.pc = "create" /\ View(u).pc = ran_pc[u] /\ View(u).up = s1ap_up[u]
      /\ View(u).dn = s1ap_dn[u] /\ View(u).ran = ran_ctx[u]
    BY <1>2, BusySession
<1>5. /\ TablesOK' /\ S5Content' /\ PgwLocalsOK' /\ UNCHANGED <<ranVars, sgwVars>>
      /\ s11_req' = s11_req /\ s1ap_up' = s1ap_up
    BY MmeGateways DEF CreateSessionAnswer
<1>6. /\ mme_ctx' = [mme_ctx EXCEPT ![u] = ctx]
      /\ s1ap_dn' = [s1ap_dn EXCEPT ![u] = Append(s1ap_dn[u], a)]
      /\ mme_job' = [mme_job EXCEPT ![w] = NoMmeJob]
    BY <1>1, <1>4 DEF CreateSessionAnswer, SendDn, Unblock, Block
<1>7. a \in DnMsg /\ a.teid = Tunnel(u) /\ a.ip = IpAddr(u)
    BY <1>2, <1>3, DnMsgType DEF Dn, DnMsg, DnType, S11Rsp
<1>8. ctx.s11_cteid_sgw = Tunnel(u)
    BY <1>2, <1>3 DEF MmeContext
<1> HIDE DEF a, ctx
<1>9. /\ \A x \in UE \ {u} : mme_ctx'[x] = mme_ctx[x] /\ s1ap_dn'[x] = s1ap_dn[x]
      /\ \A v \in Worker \ {w} : mme_job'[v] = mme_job[v]
      /\ mme_ctx'[u] = ctx /\ s1ap_dn'[u] = Append(s1ap_dn[u], a)
    BY <1>6 DEF SessionSide, UeSide, TypeInv, TypeOK, MmeTypeOK, SctpTypeOK
<1>10. BearerOK(u, View(u)')
  <2>1. /\ View(u)'.pc = View(u).pc /\ View(u)'.ran = View(u).ran /\ View(u)'.up = View(u).up
        /\ View(u)'.dn = Append(View(u).dn, a) /\ View(u)'.ctx.s11_cteid_sgw = Tunnel(u)
    BY <1>4, <1>5, <1>8, <1>9 DEF View, ranVars
  <2> QED
    BY <1>4, <1>7, <2>1, OfferedBearer
<1>11. BearersOK'
    BY <1>5, <1>9, <1>10, MmeBearers
<1>12. S11Content' /\ SgwLocalsOK'
    BY <1>2, <1>5, <1>9, MmeHears
<1> QED
    BY <1>5, <1>11, <1>12 DEF SessionInv

\* The worker that reads the modify answer ends its handler and records the bearer as active.
LEMMA ModifyBearerAnswerSession ==
    ASSUME SessionSide, UeSide', NEW w \in Worker, NEW u \in UE, mme_job[w].conn = u,
           MmeNext(w), ModifyBearerAnswer(w)
    PROVE  SessionInv'
<1>1. PICK m \in s11_rsp : RcvS11(w, "modify", m)
    BY DEF ModifyBearerAnswer
<1> DEFINE ctx == [MmeCtx(u) EXCEPT !.ecm_state = 1]
<1>2. mme_pc[w] = "modify" /\ m.w = w /\ s11_rsp' = s11_rsp \ {m}
    BY <1>1 DEF RcvS11
<1>3. /\ mme_job[w].guti = u /\ View(u) \in Views /\ ViewOK(u, View(u)) /\ BearerOK(u, View(u))
      /\ View(u).at.pc = "modify" /\ View(u).pc = ran_pc[u] /\ View(u).up = s1ap_up[u]
      /\ View(u).dn = s1ap_dn[u] /\ View(u).ran = ran_ctx[u] /\ View(u).ctx = mme_ctx[u]
    BY <1>2, BusySession
<1>4. mme_ctx[u] \in MmeContext /\ MmeCtx(u) = mme_ctx[u]
  <2>1. View(u).pc \in {"transfer", "detach"} /\ (View(u).pc = "detach" => ~None(View(u).up))
    BY <1>3 DEF ViewOK, Conversation, Cleaning, One, None
  <2>2. View(u).ctx # Nil
    BY <1>3, <2>1 DEF ViewOK, KeysOK, Known
  <2> QED
    BY <1>3, <2>2 DEF MmeCtx, SessionSide, UeSide, TypeInv, TypeOK, MmeTypeOK
<1>5. /\ TablesOK' /\ S5Content' /\ PgwLocalsOK' /\ UNCHANGED <<ranVars, sgwVars>>
      /\ s11_req' = s11_req /\ s1ap_up' = s1ap_up /\ s1ap_dn' = s1ap_dn
    BY MmeGateways DEF ModifyBearerAnswer, s1apVars
<1>6. /\ mme_ctx' = [mme_ctx EXCEPT ![u] = ctx]
      /\ mme_job' = [mme_job EXCEPT ![w] = NoMmeJob]
    BY <1>3 DEF ModifyBearerAnswer, Unblock, Block
<1>7. ctx.s11_cteid_sgw = mme_ctx[u].s11_cteid_sgw
    BY <1>4 DEF MmeContext
<1> HIDE DEF ctx
<1>8. /\ \A x \in UE \ {u} : mme_ctx'[x] = mme_ctx[x]
      /\ \A v \in Worker \ {w} : mme_job'[v] = mme_job[v]
      /\ mme_ctx'[u] = ctx
    BY <1>6 DEF SessionSide, UeSide, TypeInv, TypeOK, MmeTypeOK
<1>9. BearerOK(u, View(u)')
  <2>1. /\ View(u)'.pc = View(u).pc /\ View(u)'.ran = View(u).ran /\ View(u)'.up = View(u).up
        /\ View(u)'.dn = View(u).dn /\ View(u)'.ctx.s11_cteid_sgw = View(u).ctx.s11_cteid_sgw
    BY <1>3, <1>5, <1>7, <1>8 DEF View, ranVars
  <2> QED
    BY <1>3, <2>1 DEF BearerOK, Offered
<1>10. BearersOK'
    BY <1>5, <1>8, <1>9, MmeBearers
<1>11. S11Content' /\ SgwLocalsOK'
    BY <1>2, <1>5, <1>8, MmeHears
<1> QED
    BY <1>5, <1>10, <1>11 DEF SessionInv

\* A worker at the end of a detach finds the terminal without an offer.
LEMMA LeavingUnoffered ==
    ASSUME NEW u \in UE, NEW v, ViewOK(u, v), v.at.pc \in {"detach", "rem_itfid", "rem_uectx"},
           NEW n, n.pc = v.pc, n.up = v.up
    PROVE  ~Offered(n)
BY DEF ViewOK, Conversation, Cleaning, Offered, One, None

\* The end of a detach, after the answer of the SGW.
LEMMA DetachedSession ==
    ASSUME SessionSide, UeSide', NEW w \in Worker, NEW u \in UE, mme_job[w].conn = u,
           MmeNext(w), DetachAnswer(w) \/ RemItfid(w) \/ RemUectx(w)
    PROVE  SessionInv'
<1>1. mme_pc[w] \in {"detach", "rem_itfid", "rem_uectx"}
    BY DEF DetachAnswer, RcvS11, RemItfid, RemUectx
<1>2. /\ mme_job[w].guti = u /\ View(u) \in Views /\ ViewOK(u, View(u))
      /\ View(u).at.pc = mme_pc[w] /\ View(u).pc = ran_pc[u] /\ View(u).up = s1ap_up[u]
    BY <1>1, BusySession
<1>3. /\ TablesOK' /\ S5Content' /\ PgwLocalsOK' /\ UNCHANGED <<ranVars, sgwVars>>
      /\ s11_req' = s11_req /\ s1ap_up' = s1ap_up
    BY MmeGateways DEF DetachAnswer, RemItfid, RemUectx, s1apVars, s11Vars
<1>4. /\ \A x \in UE \ {u} : mme_ctx'[x] = mme_ctx[x] /\ s1ap_dn'[x] = s1ap_dn[x]
      /\ \A v \in Worker \ {w} : mme_job'[v] = mme_job[v]
  <2>1. /\ mme_ctx' = mme_ctx \/ mme_ctx' = [mme_ctx EXCEPT ![u] = Nil]
        /\ (\E m : SendDn(u, m)) \/ s1ap_dn' = s1ap_dn
        /\ mme_job' = mme_job \/ mme_job' = [mme_job EXCEPT ![w] = NoMmeJob]
    BY <1>2 DEF DetachAnswer, RemItfid, RemUectx, Unblock, Block, s1apVars
  <2> QED
    BY <2>1 DEF SendDn, SessionSide, UeSide, TypeInv, TypeOK, MmeTypeOK, SctpTypeOK
<1>5. ~Offered(View(u)')
  <2>1. View(u)'.pc = View(u).pc /\ View(u)'.up = View(u).up
    BY <1>2, <1>3 DEF View, ranVars
  <2> QED
    BY <1>1, <1>2, <2>1, LeavingUnoffered
<1>6. BearersOK'
    BY <1>3, <1>4, <1>5, Unoffered, MmeBearers
<1>7. S11Content' /\ SgwLocalsOK'
  <2>1. CASE DetachAnswer(w)
    <3>1. PICK m \in s11_rsp : RcvS11(w, "detach", m)
      BY <2>1 DEF DetachAnswer
    <3>2. m.w = w /\ s11_rsp' = s11_rsp \ {m}
      BY <3>1 DEF RcvS11
    <3> QED
      BY <1>3, <1>4, <3>2, MmeHears
  <2>2. CASE RemItfid(w) \/ RemUectx(w)
    <3>1. mme_pc[w] \notin SessionType /\ UNCHANGED s11Vars
      BY <2>2 DEF RemItfid, RemUectx, SessionType
    <3> QED
      BY <1>3, <1>4, <3>1, MmeAlone
  <2> QED
    BY <2>1, <2>2
<1> QED
    BY <1>3, <1>6, <1>7 DEF SessionInv

\* Steps that concern neither terminals nor gateways concern no session.
LEMMA StillSession ==
    ASSUME SessionSide,
           UNCHANGED <<s1apVars, ranVars, mmeVars, s11Vars, s5Vars, sgwVars, pgwVars>>
    PROVE  SessionInv'
<1> USE DEF SessionSide, SessionInv, mmeVars, s11Vars, s5Vars, sgwVars, pgwVars
<1>1. BearersOK'
  <2> SUFFICES ASSUME NEW x \in UE PROVE BearerOK(x, View(x))'
    BY DEF BearersOK
  <2> QED
    BY SameBearer DEF s1apVars, ranVars
<1>2. TablesOK'
    BY DEF TablesOK
<1>3. S11Content' /\ S5Content'
    BY DEF S11Content, S5Content, S11RequestOK, S11AnswerOK, S5RequestOK, S5AnswerOK
<1>4. SgwLocalsOK' /\ PgwLocalsOK'
    BY DEF SgwLocalsOK, PgwLocalsOK, SgwLocalOK, PgwLocalOK
<1> QED
    BY <1>1, <1>2, <1>3, <1>4

\* Every step of a worker keeps the sessions in order.
LEMMA MmeSession ==
    ASSUME SessionSide, UeSide', NEW w \in Worker, MmeNext(w) PROVE SessionInv'
<1>1. MmeStep(w)
    BY DEF MmeNext
<1>2. CASE \E u \in UE : HandleInitialAttach(w, u)
    BY <1>2, HandleInitialAttachSession
<1>3. CASE \E u \in UE : HandleAutn(w, u)
    BY <1>3, HandleAutnSession
<1>4. CASE \E u \in UE : HandleSecurityModeComplete(w, u)
    BY <1>4, HandleSecurityModeCompleteSession
<1>5. CASE \E u \in UE : HandleAttachComplete(w, u)
    BY <1>5, HandleAttachCompleteSession
<1>6. CASE \E u \in UE : HandleDetach(w, u)
    BY <1>6, HandleDetachSession
<1>7. CASE \E u \in UE : ConnectionClosed(w, u)
  <2>1. UNCHANGED <<s1apVars, ranVars, mmeVars, s11Vars, s5Vars, sgwVars, pgwVars>>
    BY <1>7 DEF ConnectionClosed, MmeNext
  <2> QED
    BY <2>1, StillSession
<1>8. CASE AutnInfoAnswer(w) \/ CreateSessionAnswer(w) \/ ModifyBearerAnswer(w)
           \/ DetachAnswer(w) \/ RemItfid(w) \/ RemUectx(w)
  <2> DEFINE u == mme_job[w].conn
  <2>1. mme_pc[w] # "idle"
    BY <1>8 DEF AutnInfoAnswer, CreateSessionAnswer, ModifyBearerAnswer, DetachAnswer,
                RcvS11, RemItfid, RemUectx
  <2>2. u \in UE
    BY <2>1, BusyHandler DEF SessionSide, UeSide, UeInv
  <2> QED
    BY <1>8, <2>2, AutnInfoAnswerSession, CreateSessionAnswerSession,
       ModifyBearerAnswerSession, DetachedSession
<1> QED
    BY <1>1, <1>2, <1>3, <1>4, <1>5, <1>6, <1>7, <1>8 DEF MmeStep

\* So does every step of the acceptor and of the HSS.
LEMMA HssSession ==
    ASSUME SessionSide, AcceptNext \/ \E w \in Worker : HssNext(w)
    PROVE  SessionInv'
<1>1. UNCHANGED <<s1apVars, ranVars, mmeVars, s11Vars, s5Vars, sgwVars, pgwVars>>
    BY DEF AcceptNext, AcceptConnection, HssNext
<1> QED
    BY <1>1, StillSession

-----------------------------------------------------------------------------
(* The SGW.                                                                *)

\* An SGW or PGW step leaves terminals and the MME alone.
LEMMA GatewayBearers ==
    ASSUME SessionSide, UNCHANGED <<s1apVars, ranVars, mmeVars>>
    PROVE  BearersOK' /\ mme_job' = mme_job
<1>1. mme_job' = mme_job
    BY DEF mmeVars
<1> SUFFICES ASSUME NEW x \in UE PROVE BearerOK(x, View(x))'
    BY <1>1 DEF BearersOK
<1> QED
    BY SameBearer DEF s1apVars, ranVars, mmeVars, SessionSide, SessionInv

\* The interface to the MME: requests are taken, answers given to the subscriber's worker.
LEMMA SgwUpwards ==
    ASSUME SessionSide, mme_job' = mme_job, s11_req' \subseteq s11_req,
           \A m \in s11_rsp' : m \in s11_rsp \/ S11AnswerOK(m, mme_job[m.w].conn)
    PROVE  S11Content'
BY DEF SessionSide, SessionInv, S11Content, S11RequestOK, S11AnswerOK

\* The threads of the SGW, of which one moves.
LEMMA SgwThreads ==
    ASSUME SessionSide, mme_job' = mme_job, NEW t \in S11Threads,
           \A s \in S11Threads \ {t} : sgw_pc'[s] = sgw_pc[s] /\ sgw_job'[s] = sgw_job[s],
           SgwLocalOK(sgw_pc'[t], sgw_job'[t])
    PROVE  SgwLocalsOK'
BY DEF SessionSide, SessionInv, SgwLocalsOK, SgwLocalOK

\* The interface to the PGW: a thread without a call concerns nobody there.
LEMMA SgwAlone ==
    ASSUME SessionSide, NEW t \in S11Threads, sgw_pc[t] \notin {"create", "detach"},
           \A s \in S11Threads \ {t} : sgw_job'[s] = sgw_job[s], UNCHANGED <<s5Vars, pgwVars>>
    PROVE  S5Content' /\ PgwLocalsOK'
<1> USE DEF SessionSide, UeSide, SessionInv
<1>1. \A m \in s5_req \cup s5_rsp : m.t \in S11Threads \ {t}
    BY Callers DEF OneCall, S5Calls, S5Awaited
<1>2. \A p \in PgwThreads : PgwOwes(pgw_pc[p]) # "none" => pgw_job[p].src \in S11Threads \ {t}
    BY Callers DEF OneCall, S5Calls, S5Awaited
<1>3. S5Content'
    BY <1>1 DEF S5Content, S5RequestOK, S5AnswerOK, s5Vars
<1>4. PgwLocalsOK'
    BY <1>2 DEF PgwLocalsOK, PgwLocalOK, pgwVars
<1> QED
    BY <1>3, <1>4

\* A thread asks the PGW.
LEMMA SgwAsks ==
    ASSUME SessionSide, NEW t \in S11Threads, sgw_pc[t] \notin {"create", "detach"},
           \A s \in S11Threads \ {t} : sgw_job'[s] = sgw_job[s],
           NEW r, r.t = t, S5RequestOK(r, sgw_job'[t].imsi), s5_req' = s5_req \cup {r},
           UNCHANGED <<s5_rsp, pgwVars>>
    PROVE  S5Content' /\ PgwLocalsOK'
<1> USE DEF SessionSide, UeSide, SessionInv
<1>1. \A m \in s5_req \cup s5_rsp : m.t \in S11Threads \ {t}
    BY Callers DEF OneCall, S5Calls, S5Awaited
<1>2. \A p \in PgwThreads : PgwOwes(pgw_pc[p]) # "none" => pgw_job[p].src \in S11Threads \ {t}
    BY Callers DEF OneCall, S5Calls, S5Awaited
<1>3. \A m \in s5_req : S5RequestOK(m, sgw_job'[m.t].imsi)
    BY <1>1 DEF S5Content
<1>4. \A m \in s5_rsp : S5AnswerOK(m, sgw_job'[m.t].imsi)
    BY <1>1 DEF S5Content
<1>5. S5Content'
    BY <1>3, <1>4 DEF S5Content, S5RequestOK, S5AnswerOK
<1>6. PgwLocalsOK'
    BY <1>2 DEF PgwLocalsOK, PgwLocalOK, pgwVars
<1> QED
    BY <1>5, <1>6

\* A thread takes the PGW's answer.
LEMMA SgwHears ==
    ASSUME SessionSide, NEW t \in S11Threads, NEW m \in s5_rsp, m.t = t,
           \A s \in S11Threads \ {t} : sgw_job'[s] = sgw_job[s],
           s5_rsp' = s5_rsp \ {m}, UNCHANGED <<s5_req, pgwVars>>
    PROVE  S5Content' /\ PgwLocalsOK'
<1> USE DEF SessionSide, UeSide, SessionInv
<1>1. \A n \in s5_req' \cup s5_rsp' : n.t \in S11Threads \ {t}
    BY Callers DEF OneCall, S5Calls, S5Single
<1>2. \A p \in PgwThreads : PgwOwes(pgw_pc[p]) # "none" => pgw_job[p].src \in S11Threads \ {t}
    BY Callers DEF OneCall, S5Calls, S5Single
<1>3. S5Content'
    BY <1>1 DEF S5Content, S5RequestOK, S5AnswerOK
<1>4. PgwLocalsOK'
    BY <1>2 DEF PgwLocalsOK, PgwLocalOK, pgwVars
<1> QED
    BY <1>3, <1>4

\* The tables of the SGW: every entry stands under a tunnel of its subscriber.
LEMMA SgwTables ==
    ASSUME SessionSide, UNCHANGED pgwVars,
           \A i \in Itf, x \in Teid : \/ sgw_id'[i][x] = sgw_id[i][x]
                                      \/ sgw_id'[i][x] = Nil
                                      \/ x = Tunnel(sgw_id'[i][x])
    PROVE  TablesOK'
<1> USE DEF SessionSide, SessionInv, TablesOK, pgwVars
<1>1. \A i \in Itf, x \in Teid : sgw_id'[i][x] # Nil => x = Tunnel(sgw_id'[i][x])
    BY DEF Tunnel
<1>2. \A x \in Teid : pgw_s5_id'[x] # Nil => x = Tunnel(pgw_s5_id'[x])
    BY DEF Tunnel
<1>3. \A a \in Ip : pgw_sgi_id'[a] # Nil => a = IpAddr(pgw_sgi_id'[a])
    OBVIOUS
<1> QED
    BY <1>1, <1>2, <1>3 DEF TablesOK

\* What a request names is what the thread that takes it works on.
LEMMA RequestSession ==
    ASSUME SessionSide, NEW m \in s11_req
    PROVE  LET u == mme_job[m.w].conn
           IN  /\ m \in S11Req /\ m.w \in Worker /\ u \in UE /\ S11RequestOK(m, u)
               /\ m.type \in {"modify", "detach"} /\ SgwImsi(11, m.teid) # Nil =>
                     SgwImsi(11, m.teid) = u
<1> DEFINE u == mme_job[m.w].conn
<1>1. m \in S11Req /\ m.w \in Worker /\ m.teid \in Teid /\ m.type \in SessionType
    BY DEF SessionSide, UeSide, TypeInv, TypeOK, S11TypeOK, S11Req
<1>2. mme_pc[m.w] = m.type
    BY DEF SessionSide, UeSide, OneCall, S11Calls, S11Awaited
<1>3. u \in UE
    BY <1>1, <1>2, BusyHandler DEF SessionSide, UeSide, UeInv, SessionType
<1>4. S11RequestOK(m, u)
    BY DEF SessionSide, SessionInv, S11Content
<1>5. ASSUME m.type \in {"modify", "detach"}, SgwImsi(11, m.teid) # Nil
      PROVE  SgwImsi(11, m.teid) = u
  <2>1. m.teid = Tunnel(u)
    BY <1>4, <1>5 DEF S11RequestOK
  <2>2. sgw_id[11][m.teid] \in UE /\ m.teid = Tunnel(sgw_id[11][m.teid])
    BY <1>1, <1>5 DEF SgwImsi, SessionSide, SessionInv, TablesOK, UeSide, TypeInv, TypeOK,
                      SgwTypeOK, Itf
  <2> QED
    BY <1>3, <2>1, <2>2, TunnelFacts DEF SgwImsi
<1> QED
    BY <1>1, <1>3, <1>4, <1>5

\* The SGW takes a create request of the worker that waits for it.
LEMMA SgwCreateSessionSession ==
    ASSUME SessionSide, NEW t \in S11Threads, SgwNext(t), SgwCreateSession(t) PROVE SessionInv'
<1> USE DEF SgwNext, SgwCreateSession
<1>1. BearersOK' /\ mme_job' = mme_job
    BY GatewayBearers
<1>2. PICK m \in s11_req :
          /\ SgwReceive(t, "create", m)
          /\ sgw_job' = [sgw_job EXCEPT ![t] =
                [src |-> m.w, imsi |-> m.imsi, cteid |-> m.mme, dl |-> 0,
                 teid |-> [i \in Itf |-> m.mme]]]
    OBVIOUS
<1>3. sgw_pc[t] = "idle" /\ m.type = "create" /\ s11_req' = s11_req \ {m}
    BY <1>2 DEF SgwReceive, SgwAt
<1>4. /\ sgw_pc'[t] = "update_itfid" /\ UNCHANGED <<s11_rsp, s5Vars, pgwVars, sgw_id>>
      /\ \A s \in S11Threads \ {t} : sgw_pc'[s] = sgw_pc[s] /\ sgw_job'[s] = sgw_job[s]
      /\ sgw_job'[t].src = m.w /\ sgw_job'[t].imsi = m.imsi
      /\ sgw_job'[t].cteid = m.mme /\ sgw_job'[t].teid = [i \in Itf |-> m.mme]
    BY <1>2 DEF SgwGoto, SessionSide, UeSide, TypeInv, TypeOK, SgwTypeOK
<1>5. m.imsi = mme_job[m.w].conn /\ m.mme = Tunnel(m.imsi)
    BY <1>3, RequestSession DEF S11RequestOK
<1>6. SgwLocalOK(sgw_pc'[t], sgw_job'[t])
    BY <1>4, <1>5 DEF SgwLocalOK, SgwOwes, Tunnels
<1>7. SgwLocalsOK'
    BY <1>1, <1>4, <1>6, SgwThreads
<1>8. S5Content' /\ PgwLocalsOK'
    BY <1>3, <1>4, SgwAlone
<1>9. S11Content'
    BY <1>1, <1>3, <1>4, SgwUpwards
<1>10. TablesOK'
    BY <1>4, SgwTables
<1> QED
    BY <1>1, <1>7, <1>8, <1>9, <1>10 DEF SessionInv

\* One update_itfid: one more of the session's identifiers leads to the subscriber.
LEMMA SgwUpdateItfidSession ==
    ASSUME SessionSide, NEW t \in S11Threads, SgwNext(t), SgwUpdateItfid(t) PROVE SessionInv'
<1> USE DEF SgwNext, SgwUpdateItfid
<1> DEFINE job == sgw_job[t]
           itf == Head(sgw_itf[t])
<1>1. BearersOK' /\ mme_job' = mme_job
    BY GatewayBearers
<1>2. sgw_pc[t] = "update_itfid" /\ sgw_job' = sgw_job /\ UNCHANGED <<s11Vars, s5Vars, pgwVars>>
    BY DEF SgwAt
<1>3. /\ \A s \in S11Threads \ {t} : sgw_pc'[s] = sgw_pc[s] /\ sgw_job'[s] = sgw_job[s]
      /\ sgw_pc'[t] \in {"update_itfid", "init_ctx"}
  <2>1. sgw_itf[t] # <<>> /\ SgwTypeOK
    BY <1>2 DEF SessionSide, UeSide, TypeInv, TypeOK, SgwJobsOK
  <2>2. NextItf(t, "init_ctx") /\ "init_ctx" \in SgwPc \ {"update_itfid", "rem_itfid"}
    BY DEF SgwPc
  <2> QED
    BY <1>2, <2>1, <2>2, NextItfType
<1>4. /\ mme_job[job.src].conn = job.imsi /\ job.cteid = Tunnel(job.imsi)
      /\ job.teid = Tunnels(job.imsi) /\ job.imsi \in UE /\ itf \in Itf
  <2>1. SgwLocalOK(sgw_pc[t], job)
    BY DEF SessionSide, SessionInv, SgwLocalsOK
  <2>2. job.imsi \in UE /\ sgw_itf[t] # <<>> /\ sgw_itf[t] \in Seq(Itf)
    BY <1>2 DEF SessionSide, UeSide, TypeInv, TypeOK, SgwJobsOK, SgwTypeOK
  <2>3. itf \in Itf
    BY <2>2, QueueFacts
  <2> QED
    BY <1>2, <2>1, <2>2, <2>3 DEF SgwLocalOK, SgwOwes
<1>5. SgwLocalOK(sgw_pc'[t], sgw_job'[t])
    BY <1>2, <1>3, <1>4 DEF SgwLocalOK, SgwOwes
<1>6. SgwLocalsOK'
    BY <1>1, <1>3, <1>5, SgwThreads
<1>7. S5Content' /\ PgwLocalsOK'
    BY <1>2, <1>3, SgwAlone
<1>8. S11Content'
    BY <1>1, <1>2, SgwUpwards DEF s11Vars
<1>9. TablesOK'
  <2>1. job.teid[itf] = Tunnel(job.imsi)
    BY <1>4 DEF Tunnels
  <2>2. \A i \in Itf, x \in Teid : \/ sgw_id'[i][x] = sgw_id[i][x]
                                   \/ sgw_id'[i][x] = job.imsi /\ x = Tunnel(job.imsi)
    BY <1>4, <2>1, TunnelFacts DEF SessionSide, UeSide, TypeInv, TypeOK, SgwTypeOK
  <2>3. \A i \in Itf, x \in Teid : \/ sgw_id'[i][x] = sgw_id[i][x]
                                   \/ x = Tunnel(sgw_id'[i][x])
    BY <2>2
  <2> QED
    BY <1>2, <2>3, SgwTables
<1> QED
    BY <1>1, <1>6, <1>7, <1>8, <1>9 DEF SessionInv

\* init_ctx, and the create request to the PGW with the same identifiers.
LEMMA SgwInitCtxSession ==
    ASSUME SessionSide, NEW t \in S11Threads, SgwNext(t), SgwInitCtx(t) PROVE SessionInv'
<1> USE DEF SgwNext, SgwInitCtx
<1> DEFINE job == sgw_job[t]
           r   == [t |-> t, type |-> "create", teid |-> job.teid[5], imsi |-> job.imsi]
<1>1. BearersOK' /\ mme_job' = mme_job
    BY GatewayBearers
<1>2. /\ sgw_pc[t] = "init_ctx" /\ sgw_job' = sgw_job /\ UNCHANGED <<s11Vars, s5_rsp, pgwVars>>
      /\ s5_req' = s5_req \cup {r} /\ sgw_id' = sgw_id
    BY DEF SgwAt
<1>3. /\ \A s \in S11Threads \ {t} : sgw_pc'[s] = sgw_pc[s] /\ sgw_job'[s] = sgw_job[s]
      /\ sgw_pc'[t] = "create"
    BY <1>2 DEF SgwGoto, SessionSide, UeSide, TypeInv, TypeOK, SgwTypeOK
<1>4. SgwLocalOK(sgw_pc[t], job)
    BY DEF SessionSide, SessionInv, SgwLocalsOK
<1>5. SgwLocalOK(sgw_pc'[t], sgw_job'[t])
    BY <1>2, <1>3, <1>4 DEF SgwLocalOK, SgwOwes
<1>6. SgwLocalsOK'
    BY <1>1, <1>3, <1>5, SgwThreads
<1>7. r.t = t /\ S5RequestOK(r, sgw_job'[t].imsi)
    BY <1>2, <1>4 DEF S5RequestOK, SgwLocalOK, SgwOwes, Tunnels, Itf
<1>8. S5Content' /\ PgwLocalsOK'
  <2> HIDE DEF r
  <2> QED
    BY <1>2, <1>3, <1>7, SgwAsks
<1>9. S11Content'
    BY <1>1, <1>2, SgwUpwards DEF s11Vars
<1>10. TablesOK'
    BY <1>2, SgwTables
<1> QED
    BY <1>1, <1>6, <1>8, <1>9, <1>10 DEF SessionInv

\* The SGW passes the PGW's answer on to the worker it came for.
LEMMA SgwCreateSessionAnswerSession ==
    ASSUME SessionSide, NEW t \in S11Threads, SgwNext(t), SgwCreateSessionAnswer(t)
    PROVE  SessionInv'
<1> USE DEF SgwNext, SgwCreateSessionAnswer
<1> DEFINE job == sgw_job[t]
<1>1. BearersOK' /\ mme_job' = mme_job
    BY GatewayBearers
<1>2. PICK m \in s5_rsp :
          /\ RcvS5(t, "create", m)
          /\ Reply(job.src, "create", job.cteid, job.teid[11], job.teid[1], m.ip)
    OBVIOUS
<1>3. /\ sgw_pc[t] = "create" /\ m.t = t /\ s5_rsp' = s5_rsp \ {m} /\ m.type = "create"
      /\ UNCHANGED <<s11_req, s5_req, pgwVars, sgw_id>>
    BY <1>2 DEF RcvS5, SgwAt, SessionSide, UeSide, OneCall, S5Calls, S5Awaited
<1>4. /\ \A s \in S11Threads \ {t} : sgw_pc'[s] = sgw_pc[s] /\ sgw_job'[s] = sgw_job[s]
      /\ sgw_pc'[t] = "idle" /\ sgw_job'[t] = NoSgwJob
    BY <1>2 DEF SgwGoto, SessionSide, UeSide, TypeInv, TypeOK, SgwTypeOK
<1>5. SgwLocalOK(sgw_pc[t], job) /\ S5AnswerOK(m, job.imsi)
    BY <1>3 DEF SessionSide, SessionInv, SgwLocalsOK, S5Content
<1>6. SgwLocalsOK'
  <2>1. SgwLocalOK(sgw_pc'[t], sgw_job'[t])
    BY <1>4 DEF SgwLocalOK, SgwOwes
  <2> QED
    BY <1>1, <1>4, <2>1, SgwThreads
<1>7. S5Content' /\ PgwLocalsOK'
    BY <1>3, <1>4, SgwHears
<1>8. S11Content'
  <2>1. /\ mme_job[job.src].conn = job.imsi /\ job.teid[11] = Tunnel(job.imsi)
        /\ job.teid[1] = Tunnel(job.imsi) /\ m.ip = IpAddr(job.imsi)
    BY <1>3, <1>5 DEF SgwLocalOK, SgwOwes, Tunnels, Itf, S5AnswerOK
  <2>2. \A n \in s11_rsp' : n \in s11_rsp \/ S11AnswerOK(n, mme_job[n.w].conn)
    BY <1>2, <2>1 DEF Reply, S11AnswerOK
  <2> QED
    BY <1>1, <1>3, <2>2, SgwUpwards
<1>9. TablesOK'
    BY <1>3, SgwTables
<1> QED
    BY <1>1, <1>6, <1>7, <1>8, <1>9 DEF SessionInv

\* Modify and detach look the subscriber up by the tunnel: they find the caller's, or exit.
LEMMA SgwLookupSession ==
    ASSUME SessionSide, NEW t \in S11Threads, SgwNext(t), SgwModifyBearer(t) \/ SgwDetach(t)
    PROVE  SessionInv'
<1> USE DEF SgwNext
<1>1. BearersOK' /\ mme_job' = mme_job
    BY GatewayBearers
<1>2. PICK m \in s11_req :
          /\ sgw_pc[t] = "idle" /\ m.type \in {"modify", "detach"} /\ s11_req' = s11_req \ {m}
          /\ \/ UNCHANGED sgwVars
             \/ /\ SgwImsi(11, m.teid) # Nil
                /\ sgw_id' = sgw_id
                /\ \/ /\ m.type = "modify" /\ SgwGoto(t, "modify_ctx")
                      /\ sgw_job' = [sgw_job EXCEPT ![t] = [NoSgwJob EXCEPT
                            !.src = m.w, !.imsi = SgwImsi(11, m.teid), !.dl = m.dl]]
                   \/ /\ m.type = "detach" /\ SgwGoto(t, "detach_ctx")
                      /\ sgw_job' = [sgw_job EXCEPT ![t] = [NoSgwJob EXCEPT
                            !.src = m.w, !.imsi = SgwImsi(11, m.teid)]]
  <2>1. CASE SgwModifyBearer(t)
    BY <2>1 DEF SgwModifyBearer, SgwReceive, SgwAt, SgwExit
  <2>2. CASE SgwDetach(t)
    BY <2>2 DEF SgwDetach, SgwReceive, SgwAt, SgwExit
  <2> QED
    BY <2>1, <2>2
<1>3. UNCHANGED <<s11_rsp, s5Vars, pgwVars>> /\ sgw_id' = sgw_id
    BY <1>2 DEF SgwModifyBearer, SgwDetach, sgwVars
<1>4. S5Content' /\ PgwLocalsOK' /\ SgwLocalsOK'
  <2>1. CASE UNCHANGED sgwVars
    <3>1. \A s \in S11Threads : sgw_pc'[s] = sgw_pc[s] /\ sgw_job'[s] = sgw_job[s]
      BY <2>1 DEF sgwVars
    <3>2. SgwLocalOK(sgw_pc'[t], sgw_job'[t])
      BY <3>1 DEF SessionSide, SessionInv, SgwLocalsOK
    <3> QED
      BY <1>1, <1>2, <1>3, <3>1, <3>2, SgwThreads, SgwAlone
  <2>2. CASE ~UNCHANGED sgwVars
    <3>1. SgwImsi(11, m.teid) = mme_job[m.w].conn /\ S11RequestOK(m, mme_job[m.w].conn)
      BY <1>2, <2>2, RequestSession
    <3>2. /\ \A s \in S11Threads \ {t} : sgw_pc'[s] = sgw_pc[s] /\ sgw_job'[s] = sgw_job[s]
          /\ sgw_job'[t].src = m.w /\ sgw_job'[t].imsi = SgwImsi(11, m.teid)
          /\ \/ m.type = "modify" /\ sgw_pc'[t] = "modify_ctx" /\ sgw_job'[t].dl = m.dl
             \/ m.type = "detach" /\ sgw_pc'[t] = "detach_ctx"
      BY <1>2, <2>2 DEF SgwGoto, NoSgwJob, SessionSide, UeSide, TypeInv, TypeOK, SgwTypeOK
    <3>3. SgwLocalOK(sgw_pc'[t], sgw_job'[t])
      BY <3>1, <3>2 DEF SgwLocalOK, SgwOwes, S11RequestOK
    <3> QED
      BY <1>1, <1>2, <1>3, <3>2, <3>3, SgwThreads, SgwAlone
  <2> QED
    BY <2>1, <2>2
<1>5. S11Content'
    BY <1>1, <1>2, <1>3, SgwUpwards
<1>6. TablesOK'
    BY <1>3, SgwTables
<1> QED
    BY <1>1, <1>4, <1>5, <1>6 DEF SessionInv

\* modify bearer stores the eNodeB's TEID in the context and answers.
LEMMA SgwModifyCtxSession ==
    ASSUME SessionSide, NEW t \in S11Threads, SgwNext(t), SgwModifyCtx(t) PROVE SessionInv'
<1> USE DEF SgwNext, SgwModifyCtx
<1>1. BearersOK' /\ mme_job' = mme_job
    BY GatewayBearers
<1>2. /\ sgw_pc[t] = "modify_ctx" /\ UNCHANGED <<s11_req, s5Vars, pgwVars, sgw_id>>
      /\ \A m \in s11_rsp' : m \in s11_rsp \/ m.type = "modify"
    BY DEF SgwAt, Reply
<1>3. /\ \A s \in S11Threads \ {t} : sgw_pc'[s] = sgw_pc[s] /\ sgw_job'[s] = sgw_job[s]
      /\ sgw_pc'[t] = "idle" /\ sgw_job'[t] = NoSgwJob
    BY DEF SgwGoto, SessionSide, UeSide, TypeInv, TypeOK, SgwTypeOK
<1>4. SgwLocalsOK'
  <2>1. SgwLocalOK(sgw_pc'[t], sgw_job'[t])
    BY <1>3 DEF SgwLocalOK, SgwOwes
  <2> QED
    BY <1>1, <1>3, <2>1, SgwThreads
<1>5. S5Content' /\ PgwLocalsOK'
    BY <1>2, <1>3, SgwAlone
<1>6. S11Content'
    BY <1>1, <1>2, SgwUpwards DEF S11AnswerOK
<1>7. TablesOK'
    BY <1>2, SgwTables
<1> QED
    BY <1>1, <1>4, <1>5, <1>6, <1>7 DEF SessionInv

\* The SGW reads the context of a detach and asks the PGW.
LEMMA SgwDetachCtxSession ==
    ASSUME SessionSide, NEW t \in S11Threads, SgwNext(t), SgwDetachCtx(t) PROVE SessionInv'
<1> USE DEF SgwNext, SgwDetachCtx
<1> DEFINE job == sgw_job[t]
<1>1. BearersOK' /\ mme_job' = mme_job
    BY GatewayBearers
<1>2. sgw_pc[t] = "detach_ctx" /\ UNCHANGED <<s11Vars, s5_rsp, pgwVars>> /\ sgw_id' = sgw_id
    BY DEF SgwAt, SgwExit, sgwVars
<1>3. /\ \A s \in S11Threads \ {t} : sgw_pc'[s] = sgw_pc[s] /\ sgw_job'[s] = sgw_job[s]
      /\ sgw_pc'[t] \in {"detach_ctx", "detach"}
      /\ sgw_job'[t].src = job.src /\ sgw_job'[t].imsi = job.imsi
  <2>1. job \in SgwJob
    BY DEF SessionSide, UeSide, TypeInv, TypeOK, SgwTypeOK
  <2>2. CASE SgwExit
    BY <1>2, <2>2 DEF SgwExit, sgwVars
  <2>3. CASE ~SgwExit
    BY <2>1, <2>3 DEF SgwGoto, SgwJob, SessionSide, UeSide, TypeInv, TypeOK, SgwTypeOK
  <2> QED
    BY <2>2, <2>3
<1>4. SgwLocalOK(sgw_pc[t], job)
    BY DEF SessionSide, SessionInv, SgwLocalsOK
<1>5. SgwLocalsOK'
  <2>1. SgwLocalOK(sgw_pc'[t], sgw_job'[t])
    BY <1>1, <1>2, <1>3, <1>4 DEF SgwLocalOK, SgwOwes
  <2> QED
    BY <1>1, <1>3, <2>1, SgwThreads
<1>6. S5Content' /\ PgwLocalsOK'
  <2>1. CASE s5_req' = s5_req
    BY <1>2, <1>3, <2>1, SgwAlone DEF s5Vars
  <2>2. CASE s5_req' # s5_req
    <3> DEFINE r == [t |-> t, type |-> "detach", teid |-> sgw_ctx[job.imsi].s5_cteid_ul, imsi |-> Nil]
    <3>1. s5_req' = s5_req \cup {r}
      BY <2>2
    <3>2. r.t = t /\ S5RequestOK(r, sgw_job'[t].imsi)
      BY DEF S5RequestOK
    <3> HIDE DEF r
    <3> QED
      BY <1>2, <1>3, <3>1, <3>2, SgwAsks
  <2> QED
    BY <2>1, <2>2
<1>7. S11Content'
    BY <1>1, <1>2, SgwUpwards DEF s11Vars
<1>8. TablesOK'
    BY <1>2, SgwTables
<1> QED
    BY <1>1, <1>5, <1>6, <1>7, <1>8 DEF SessionInv

\* The SGW answers the detach and has its removals left to do.
LEMMA SgwDetachAnswerSession ==
    ASSUME SessionSide, NEW t \in S11Threads, SgwNext(t), SgwDetachAnswer(t) PROVE SessionInv'
<1> USE DEF SgwNext, SgwDetachAnswer
<1>1. BearersOK' /\ mme_job' = mme_job
    BY GatewayBearers
<1>2. PICK m \in s5_rsp : RcvS5(t, "detach", m)
    OBVIOUS
<1>3. /\ sgw_pc[t] = "detach" /\ m.t = t /\ s5_rsp' = s5_rsp \ {m}
      /\ UNCHANGED <<s11_req, s5_req, pgwVars, sgw_id>>
      /\ \A n \in s11_rsp' : n \in s11_rsp \/ n.type = "detach"
    BY <1>2 DEF RcvS5, SgwAt, Reply
<1>4. /\ \A s \in S11Threads \ {t} : sgw_pc'[s] = sgw_pc[s] /\ sgw_job'[s] = sgw_job[s]
      /\ sgw_pc'[t] = "rem_itfid"
    BY DEF SgwGoto, SessionSide, UeSide, TypeInv, TypeOK, SgwTypeOK
<1>5. SgwLocalsOK'
  <2>1. SgwLocalOK(sgw_pc'[t], sgw_job'[t])
    BY <1>4 DEF SgwLocalOK, SgwOwes
  <2> QED
    BY <1>1, <1>4, <2>1, SgwThreads
<1>6. S5Content' /\ PgwLocalsOK'
    BY <1>3, <1>4, SgwHears
<1>7. S11Content'
    BY <1>1, <1>3, SgwUpwards DEF S11AnswerOK
<1>8. TablesOK'
    BY <1>3, SgwTables
<1> QED
    BY <1>1, <1>5, <1>6, <1>7, <1>8 DEF SessionInv

\* Removals take entries away.
LEMMA SgwRemovalSession ==
    ASSUME SessionSide, NEW t \in S11Threads, SgwNext(t), SgwRemItfid(t) \/ SgwRemUectx(t)
    PROVE  SessionInv'
<1> USE DEF SgwNext
<1>1. BearersOK' /\ mme_job' = mme_job
    BY GatewayBearers
<1>2. sgw_pc[t] \in {"rem_itfid", "rem_uectx"} /\ UNCHANGED <<s11Vars, s5Vars, pgwVars>>
    BY DEF SgwRemItfid, SgwRemUectx, SgwAt
<1>3. /\ \A s \in S11Threads \ {t} : sgw_pc'[s] = sgw_pc[s] /\ sgw_job'[s] = sgw_job[s]
      /\ \/ sgw_pc'[t] \in {"rem_itfid", "rem_uectx"}
         \/ sgw_pc'[t] = "idle" /\ sgw_job'[t] = NoSgwJob
  <2>1. CASE SgwRemItfid(t)
    <3>1. sgw_itf[t] # <<>> /\ SgwTypeOK /\ sgw_pc[t] = "rem_itfid"
      BY <2>1 DEF SgwRemItfid, SgwAt, SessionSide, UeSide, TypeInv, TypeOK, SgwJobsOK
    <3>2. NextItf(t, "rem_uectx") /\ "rem_uectx" \in SgwPc \ {"update_itfid", "rem_itfid"}
      BY <2>1 DEF SgwPc, SgwRemItfid
    <3>3. sgw_job' = sgw_job
      BY <2>1 DEF SgwRemItfid
    <3> QED
      BY <3>1, <3>2, <3>3, NextItfType
  <2>2. CASE SgwRemUectx(t)
    BY <2>2 DEF SgwRemUectx, SgwGoto, SessionSide, UeSide, TypeInv, TypeOK, SgwTypeOK
  <2> QED
    BY <2>1, <2>2
<1>4. SgwLocalsOK'
  <2>1. SgwLocalOK(sgw_pc'[t], sgw_job'[t])
    BY <1>3 DEF SgwLocalOK, SgwOwes
  <2> QED
    BY <1>1, <1>3, <2>1, SgwThreads
<1>5. S5Content' /\ PgwLocalsOK'
    BY <1>2, <1>3, SgwAlone
<1>6. S11Content'
    BY <1>1, <1>2, SgwUpwards DEF s11Vars
<1>7. TablesOK'
  <2>1. \A i \in Itf, x \in Teid : sgw_id'[i][x] = sgw_id[i][x] \/ sgw_id'[i][x] = Nil
    <3>1. sgw_id' = sgw_id \/ \E i, x : sgw_id' = [sgw_id EXCEPT ![i][x] = Nil]
      BY DEF SgwRemItfid, SgwRemUectx
    <3> QED
      BY <3>1, ZenonT(40) DEF SessionSide, UeSide, TypeInv, TypeOK, SgwTypeOK
  <2> QED
    BY <1>2, <2>1, SgwTables
<1> QED
    BY <1>1, <1>4, <1>5, <1>6, <1>7 DEF SessionInv

\* Any step of an S11 thread.
LEMMA SgwSession == ASSUME SessionSide, NEW t \in S11Threads, SgwNext(t) PROVE SessionInv'
BY SgwCreateSessionSession, SgwUpdateItfidSession, SgwInitCtxSession,
   SgwCreateSessionAnswerSession, SgwLookupSession, SgwModifyCtxSession, SgwDetachCtxSession,
   SgwDetachAnswerSession, SgwRemovalSession DEF SgwNext, SgwStep

-----------------------------------------------------------------------------
(* The PGW.                                                                *)

\* A PGW step leaves the MME's side of the sessions alone, takes requests and
\* gives answers about the subscriber the SGW thread works on.
LEMMA PgwUpwards ==
    ASSUME SessionSide, NEW p \in PgwThreads, PgwNext(p), s5_req' \subseteq s5_req,
           \A m \in s5_rsp' : m \in s5_rsp \/ S5AnswerOK(m, sgw_job[m.t].imsi)
    PROVE  BearersOK' /\ S11Content' /\ SgwLocalsOK' /\ S5Content'
<1> USE DEF SessionSide, SessionInv, PgwNext, mmeVars, s11Vars, sgwVars
<1>1. BearersOK'
    BY GatewayBearers
<1>2. S11Content'
    BY DEF S11Content, S11RequestOK, S11AnswerOK
<1>3. SgwLocalsOK'
    BY DEF SgwLocalsOK, SgwLocalOK
<1>4. S5Content'
    BY DEF S5Content, S5RequestOK, S5AnswerOK
<1> QED
    BY <1>1, <1>2, <1>3, <1>4

\* The threads of the PGW, of which one moves.
LEMMA PgwThreadsMove ==
    ASSUME SessionSide, NEW p \in PgwThreads, PgwNext(p),
           \A q \in PgwThreads \ {p} : pgw_pc'[q] = pgw_pc[q] /\ pgw_job'[q] = pgw_job[q],
           PgwLocalOK(pgw_pc'[p], pgw_job'[p])
    PROVE  PgwLocalsOK'
BY DEF SessionSide, SessionInv, PgwLocalsOK, PgwLocalOK, PgwNext, sgwVars

\* The tables of the PGW: every entry stands under a tunnel or address of its subscriber.
LEMMA PgwTables ==
    ASSUME SessionSide, NEW p \in PgwThreads, PgwNext(p),
           \A x \in Teid : \/ pgw_s5_id'[x] = pgw_s5_id[x]
                           \/ pgw_s5_id'[x] = Nil
                           \/ x = Tunnel(pgw_s5_id'[x]),
           \A a \in Ip : \/ pgw_sgi_id'[a] = pgw_sgi_id[a]
                         \/ pgw_sgi_id'[a] = Nil
                         \/ a = IpAddr(pgw_sgi_id'[a])
    PROVE  TablesOK'
<1> USE DEF SessionSide, SessionInv, TablesOK, PgwNext, sgwVars
<1>1. \A i \in Itf, x \in Teid : sgw_id'[i][x] # Nil => x = Tunnel(sgw_id'[i][x])
    OBVIOUS
<1>2. \A x \in Teid : pgw_s5_id'[x] # Nil => x = Tunnel(pgw_s5_id'[x])
    BY DEF Tunnel
<1>3. \A a \in Ip : pgw_sgi_id'[a] # Nil => a = IpAddr(pgw_sgi_id'[a])
    OBVIOUS
<1> QED
    BY <1>1, <1>2, <1>3

\* The PGW takes the create request of the S11 thread that waits for it.
LEMMA PgwCreateSessionSession ==
    ASSUME SessionSide, NEW p \in PgwThreads, PgwNext(p), PgwCreateSession(p) PROVE SessionInv'
<1>1. PICK m \in s5_req :
          /\ PgwReceive(p, "create", m)
          /\ pgw_job' = [pgw_job EXCEPT ![p] = [src |-> m.t, imsi |-> m.imsi, teid |-> m.teid,
                                                ip |-> IpAddr(m.imsi)]]
    BY DEF PgwCreateSession
<1>2. m.type = "create" /\ s5_req' = s5_req \ {m} /\ s5_rsp' = s5_rsp
      /\ pgw_s5_id' = pgw_s5_id /\ pgw_sgi_id' = pgw_sgi_id
    BY <1>1 DEF PgwReceive, PgwCreateSession
<1>3. /\ \A q \in PgwThreads \ {p} : pgw_pc'[q] = pgw_pc[q] /\ pgw_job'[q] = pgw_job[q]
      /\ pgw_pc'[p] = "update_s5" /\ pgw_job'[p].src = m.t /\ pgw_job'[p].imsi = m.imsi
      /\ pgw_job'[p].teid = m.teid /\ pgw_job'[p].ip = IpAddr(m.imsi)
    BY <1>1 DEF PgwCreateSession, PgwGoto, SessionSide, UeSide, TypeInv, TypeOK, PgwTypeOK
<1>4. m.imsi = sgw_job[m.t].imsi /\ m.teid = Tunnel(m.imsi)
    BY <1>2 DEF SessionSide, SessionInv, S5Content, S5RequestOK
<1>5. PgwLocalOK(pgw_pc'[p], pgw_job'[p])
    BY <1>3, <1>4 DEF PgwLocalOK, PgwOwes
<1>6. BearersOK' /\ S11Content' /\ SgwLocalsOK' /\ S5Content'
    BY <1>2, PgwUpwards
<1>7. PgwLocalsOK'
    BY <1>3, <1>5, PgwThreadsMove
<1>8. TablesOK'
    BY <1>2, PgwTables
<1> QED
    BY <1>6, <1>7, <1>8 DEF SessionInv

\* The tables get the subscriber under its own tunnel and its own address.
LEMMA PgwUpdateSession ==
    ASSUME SessionSide, NEW p \in PgwThreads, PgwNext(p), PgwUpdateS5Id(p) \/ PgwUpdateSgiId(p)
    PROVE  SessionInv'
<1> DEFINE job == pgw_job[p]
<1>1. /\ pgw_pc[p] \in {"update_s5", "update_sgi"} /\ UNCHANGED <<s5Vars, pgw_job>>
      /\ \/ pgw_s5_id' = [pgw_s5_id EXCEPT ![job.teid] = job.imsi] /\ pgw_sgi_id' = pgw_sgi_id
         \/ pgw_sgi_id' = [pgw_sgi_id EXCEPT ![job.ip] = job.imsi] /\ pgw_s5_id' = pgw_s5_id
    BY DEF PgwUpdateS5Id, PgwUpdateSgiId, PgwAt
<1>2. /\ \A q \in PgwThreads \ {p} : pgw_pc'[q] = pgw_pc[q] /\ pgw_job'[q] = pgw_job[q]
      /\ pgw_pc'[p] \in {"update_sgi", "init_ctx"} /\ pgw_job'[p] = job
  <2>1. CASE PgwUpdateS5Id(p)
    BY <1>1, <2>1 DEF PgwUpdateS5Id, PgwGoto, SessionSide, UeSide, TypeInv, TypeOK, PgwTypeOK
  <2>2. CASE PgwUpdateSgiId(p)
    BY <1>1, <2>2 DEF PgwUpdateSgiId, PgwGoto, SessionSide, UeSide, TypeInv, TypeOK, PgwTypeOK
  <2> QED
    BY <2>1, <2>2
<1>3. PgwLocalOK(pgw_pc[p], job)
    BY DEF SessionSide, SessionInv, PgwLocalsOK
<1>4. PgwLocalOK(pgw_pc'[p], pgw_job'[p])
    BY <1>1, <1>2, <1>3 DEF PgwLocalOK, PgwOwes
<1>5. job.teid = Tunnel(job.imsi) /\ job.ip = IpAddr(job.imsi)
    BY <1>1, <1>3 DEF PgwLocalOK, PgwOwes
<1>6. BearersOK' /\ S11Content' /\ SgwLocalsOK' /\ S5Content'
    BY <1>1, PgwUpwards DEF s5Vars
<1>7. PgwLocalsOK'
    BY <1>2, <1>4, PgwThreadsMove
<1>8. TablesOK'
  <2>1. \A x \in Teid : pgw_s5_id'[x] = pgw_s5_id[x] \/ x = Tunnel(pgw_s5_id'[x])
    BY <1>1, <1>5 DEF SessionSide, UeSide, TypeInv, TypeOK, PgwTypeOK
  <2>2. \A a \in Ip : pgw_sgi_id'[a] = pgw_sgi_id[a] \/ a = IpAddr(pgw_sgi_id'[a])
    BY <1>1, <1>5 DEF SessionSide, UeSide, TypeInv, TypeOK, PgwTypeOK
  <2> QED
    BY <2>1, <2>2, PgwTables
<1> QED
    BY <1>6, <1>7, <1>8 DEF SessionInv

\* The answer repeats the subscriber's tunnel and gives its address.
LEMMA PgwInitCtxSession ==
    ASSUME SessionSide, NEW p \in PgwThreads, PgwNext(p), PgwInitCtx(p) PROVE SessionInv'
<1> DEFINE job == pgw_job[p]
<1>1. /\ pgw_pc[p] = "init_ctx" /\ PgwReply(job.src, "create", job.teid, job.teid, job.ip)
      /\ UNCHANGED <<s5_req, pgw_s5_id, pgw_sgi_id>>
    BY DEF PgwInitCtx, PgwAt
<1>2. /\ \A q \in PgwThreads \ {p} : pgw_pc'[q] = pgw_pc[q] /\ pgw_job'[q] = pgw_job[q]
      /\ pgw_pc'[p] = "idle" /\ pgw_job'[p] = NoPgwJob
    BY DEF PgwInitCtx, PgwGoto, SessionSide, UeSide, TypeInv, TypeOK, PgwTypeOK
<1>3. PgwLocalOK(pgw_pc[p], job)
    BY DEF SessionSide, SessionInv, PgwLocalsOK
<1>4. sgw_job[job.src].imsi = job.imsi /\ job.teid = Tunnel(job.imsi) /\ job.ip = IpAddr(job.imsi)
    BY <1>1, <1>3 DEF PgwLocalOK, PgwOwes
<1>5. \A m \in s5_rsp' : m \in s5_rsp \/ S5AnswerOK(m, sgw_job[m.t].imsi)
    BY <1>1, <1>4 DEF PgwReply, S5AnswerOK
<1>6. BearersOK' /\ S11Content' /\ SgwLocalsOK' /\ S5Content'
    BY <1>1, <1>5, PgwUpwards
<1>7. PgwLocalsOK'
  <2>1. PgwLocalOK(pgw_pc'[p], pgw_job'[p])
    BY <1>2 DEF PgwLocalOK, PgwOwes
  <2> QED
    BY <1>2, <2>1, PgwThreadsMove
<1>8. TablesOK'
    BY <1>1, PgwTables
<1> QED
    BY <1>6, <1>7, <1>8 DEF SessionInv

\* A detach only takes entries away.
LEMMA PgwDetachSession ==
    ASSUME SessionSide, NEW p \in PgwThreads, PgwNext(p),
           PgwDetach(p) \/ PgwDetachCtx(p) \/ PgwRemS5Id(p) \/ PgwRemSgiId(p) \/ PgwRemUectx(p)
    PROVE  SessionInv'
<1> USE DEF SessionSide, UeSide, TypeInv, TypeOK, PgwTypeOK
<1>1. /\ s5_req' \subseteq s5_req
      /\ \A m \in s5_rsp' : m \in s5_rsp \/ m.type = "detach"
  <2>1. CASE PgwDetach(p)
    <3>1. (\E m \in s5_req : s5_req' = s5_req \ {m}) /\ s5_rsp' = s5_rsp
      BY <2>1 DEF PgwDetach, PgwReceive
    <3> QED
      BY <3>1
  <2>2. CASE PgwDetachCtx(p)
    BY <2>2 DEF PgwDetachCtx, PgwReply
  <2>3. CASE PgwRemS5Id(p) \/ PgwRemSgiId(p) \/ PgwRemUectx(p)
    <3>1. s5_req' = s5_req /\ s5_rsp' = s5_rsp
      BY <2>3 DEF PgwRemS5Id, PgwRemSgiId, PgwRemUectx, s5Vars
    <3> QED
      BY <3>1
  <2> QED
    BY <2>1, <2>2, <2>3
<1>2. /\ \A q \in PgwThreads \ {p} : pgw_pc'[q] = pgw_pc[q] /\ pgw_job'[q] = pgw_job[q]
      /\ \/ pgw_pc'[p] \in {"detach_ctx", "rem_s5", "rem_sgi", "rem_uectx"}
         \/ pgw_pc'[p] = "idle" /\ pgw_job'[p] = NoPgwJob
  <2>1. CASE PgwDetach(p)
    <3>1. CASE UNCHANGED pgwVars
      <4>1. pgw_pc[p] = "idle" /\ pgw_job' = pgw_job /\ pgw_pc' = pgw_pc
        BY <2>1, <3>1 DEF PgwDetach, PgwReceive, PgwAt, pgwVars
      <4>2. pgw_job[p] = NoPgwJob
        BY <4>1 DEF SessionInv, PgwLocalsOK, PgwLocalOK
      <4> QED
        BY <4>1, <4>2
    <3>2. CASE ~UNCHANGED pgwVars
      BY <2>1, <3>2 DEF PgwDetach, PgwGoto
    <3> QED
      BY <3>1, <3>2
  <2>2. CASE PgwDetachCtx(p)
    BY <2>2 DEF PgwDetachCtx, PgwGoto
  <2>3. CASE PgwRemS5Id(p) \/ PgwRemSgiId(p)
    BY <2>3 DEF PgwRemS5Id, PgwRemSgiId, PgwGoto
  <2>4. CASE PgwRemUectx(p)
    BY <2>4 DEF PgwRemUectx, PgwGoto
  <2> QED
    BY <2>1, <2>2, <2>3, <2>4
<1>3. BearersOK' /\ S11Content' /\ SgwLocalsOK' /\ S5Content'
    BY <1>1, PgwUpwards DEF S5AnswerOK
<1>4. PgwLocalsOK'
  <2>1. PgwLocalOK(pgw_pc'[p], pgw_job'[p])
    BY <1>2 DEF PgwLocalOK, PgwOwes
  <2> QED
    BY <1>2, <2>1, PgwThreadsMove
<1>5. TablesOK'
  <2>1. /\ pgw_s5_id' = pgw_s5_id \/ \E x : pgw_s5_id' = [pgw_s5_id EXCEPT ![x] = Nil]
        /\ pgw_sgi_id' = pgw_sgi_id \/ \E a : pgw_sgi_id' = [pgw_sgi_id EXCEPT ![a] = Nil]
    BY DEF PgwDetach, PgwDetachCtx, PgwRemS5Id, PgwRemSgiId, PgwRemUectx, pgwVars
  <2>2. \A x \in Teid : pgw_s5_id'[x] = pgw_s5_id[x] \/ pgw_s5_id'[x] = Nil
    BY <2>1
  <2>3. \A a \in Ip : pgw_sgi_id'[a] = pgw_sgi_id[a] \/ pgw_sgi_id'[a] = Nil
    BY <2>1
  <2> QED
    BY <2>2, <2>3, PgwTables
<1> QED
    BY <1>3, <1>4, <1>5 DEF SessionInv

\* Any step of an S5 thread.
LEMMA PgwSession == ASSUME SessionSide, NEW p \in PgwThreads, PgwNext(p) PROVE SessionInv'
BY PgwCreateSessionSession, PgwUpdateSession, PgwInitCtxSession, PgwDetachSession
   DEF PgwNext, PgwStep

-----------------------------------------------------------------------------
(* The invariant.                                                          *)

\* Nobody has a session at first.
LEMMA InitSession == Init => SessionInv
<1> SUFFICES ASSUME Init PROVE SessionInv
    OBVIOUS
<1> USE DEF Init
<1>1. BearersOK
  <2> SUFFICES ASSUME NEW u \in UE PROVE BearerOK(u, View(u))
    BY DEF BearersOK
  <2>1. View(u).pc = "connect" /\ View(u).up = <<>> /\ View(u).dn = <<>>
    BY DEF View, RanInit, SctpInit
  <2> QED
    BY <2>1 DEF BearerOK, Offered
<1>2. TablesOK
    BY DEF TablesOK, SgwInit, PgwInit
<1>3. S11Content /\ S5Content
    BY DEF S11Content, S5Content, UdpInit
<1>4. SgwLocalsOK
    BY DEF SgwLocalsOK, SgwLocalOK, SgwOwes, SgwInit
<1>5. PgwLocalsOK
    BY DEF PgwLocalsOK, PgwLocalOK, PgwOwes, PgwInit
<1> QED
    BY <1>1, <1>2, <1>3, <1>4, <1>5 DEF SessionInv

\* Every step keeps the sessions in order.
LEMMA NextSession == SessionSide /\ [Next]_vars => SessionInv'
<1> SUFFICES ASSUME SessionSide, [Next]_vars PROVE SessionInv'
    OBVIOUS
<1>1. UeSide'
    BY NextSide DEF SessionSide
<1>2. CASE vars' = vars
    BY <1>2, StillSession DEF vars, s1apVars, connVars, ranVars, mmeVars, s6aVars, s11Vars,
                              s5Vars, sgwVars, pgwVars
<1>3. CASE Next
  <2>1. CASE \E u \in UE : RanNext(u)
    BY <1>1, <2>1, RanSession
  <2>2. CASE AcceptNext \/ \E w \in Worker : HssNext(w)
    BY <2>2, HssSession
  <2>3. CASE \E w \in Worker : MmeNext(w)
    BY <1>1, <2>3, MmeSession
  <2>4. CASE \E t \in S11Threads : SgwNext(t)
    BY <2>4, SgwSession
  <2>5. CASE \E p \in PgwThreads : PgwNext(p)
    BY <2>5, PgwSession
  <2>6. CASE Terminating
    BY <1>2, <2>6 DEF Terminating
  <2> QED
    BY <1>3, <2>1, <2>2, <2>3, <2>4, <2>5, <2>6 DEF Next
<1> QED
    BY <1>2, <1>3

\* SessionInv is an invariant: whatever is said or stored about a session, in any
\* node and on any interface, is said or stored about the subscriber it belongs to.
THEOREM SessionInvariance == Spec => []SessionInv
<1>1. Init => UeSide /\ SessionInv
    BY InitType, InitCalls, InitUe, InitSession DEF UeSide
<1>2. (UeSide /\ SessionInv) /\ [Next]_vars => (UeSide /\ SessionInv)'
    BY NextSide, NextSession DEF SessionSide
<1> QED
    BY <1>1, <1>2, PTL DEF Spec

-----------------------------------------------------------------------------
(* Authentication.                                                         *)

\* A worker asks for a session only for a terminal that has proved its key.
LEMMA MmeGenuine ==
    ASSUME UeSide, GenuineInv, NEW w \in Worker, MmeNext(w) PROVE GenuineInv'
<1>1. UNCHANGED <<s5Vars, sgwVars, pgwVars>>
    BY DEF MmeNext
<1>2. \A m \in s11_req' : m \in s11_req \/ m.type # "create" \/ m.imsi \in Genuine
  <2>1. CASE \E u \in UE : HandleSecurityModeComplete(w, u)
    <3>1. PICK u \in UE : HandleSecurityModeComplete(w, u)
      BY <2>1
    <3>2. Receive(w, u, "security_complete")
      BY <3>1 DEF HandleSecurityModeComplete
    <3>3. View(u).pc = "set_eps_session"
      <4>1. View(u) \in Views /\ ViewOK(u, View(u)) /\ View(u).at.pc = "idle"
            /\ View(u).up # <<>> /\ Head(View(u).up).type = "security_complete"
        BY <3>2, ViewsOK, ReceiveFacts
      <4> QED
        BY <4>1, RequestView
    <3>4. u \in Genuine
      BY <3>3, ViewsOK DEF ViewOK, KeysOK, Genuine
    <3>5. GetGuti(Head(s1ap_up[u]).id) = u
      BY <3>2, RequestFacts
    <3> QED
      BY <3>1, <3>4, <3>5 DEF HandleSecurityModeComplete
  <2>2. CASE (\E u \in UE : HandleAttachComplete(w, u)) \/ (\E u \in UE : HandleDetach(w, u))
    <3>1. s11_req' = s11_req \/ \E r : s11_req' = s11_req \cup {r} /\ r.type \in {"modify", "detach"}
      <4>1. CASE \E u \in UE : HandleAttachComplete(w, u)
        BY <4>1 DEF HandleAttachComplete
      <4>2. CASE \E u \in UE : HandleDetach(w, u)
        BY <4>2 DEF HandleDetach
      <4> QED
        BY <2>2, <4>1, <4>2
    <3> QED
      BY <3>1
  <2>3. CASE /\ ~\E u \in UE : HandleSecurityModeComplete(w, u)
             /\ ~\E u \in UE : HandleAttachComplete(w, u)
             /\ ~\E u \in UE : HandleDetach(w, u)
    <3>1. s11_req' = s11_req
      BY <2>3 DEF MmeNext, MmeStep, HandleInitialAttach, HandleAutn, ConnectionClosed,
                  AutnInfoAnswer, CreateSessionAnswer, ModifyBearerAnswer, DetachAnswer,
                  RemItfid, RemUectx, s11Vars
    <3> QED
      BY <3>1
  <2> QED
    BY <2>1, <2>2, <2>3
<1> QED
    BY <1>1, <1>2 DEF GenuineInv, s5Vars, sgwVars, pgwVars

\* The SGW works for whom it was asked to, and passes that on.
LEMMA SgwGenuine ==
    ASSUME UeSide, GenuineInv, NEW t \in S11Threads, SgwNext(t) PROVE GenuineInv'
<1> USE DEF GenuineInv
<1>1. pgwVars' = pgwVars
    BY DEF SgwNext
<1>2. SgwTypeOK /\ SgwTypeOK'
  <2>1. TypeInv'
    BY NextType DEF Next, UeSide
  <2> QED
    BY <2>1 DEF UeSide, TypeInv, TypeOK
<1>3. \A m \in s11_req' : m \in s11_req
  <2>1. s11_req' = s11_req \/ \E m : s11_req' = s11_req \ {m}
    BY DEF SgwNext, SgwStep, SgwCreateSession, SgwUpdateItfid, SgwInitCtx,
           SgwCreateSessionAnswer, SgwModifyBearer, SgwModifyCtx, SgwDetach, SgwDetachCtx,
           SgwDetachAnswer, SgwRemItfid, SgwRemUectx, SgwReceive, s11Vars
  <2> QED
    BY <2>1
<1>4. \A m \in s5_req' : m \in s5_req \/ m.type # "create" \/ m.imsi \in Genuine
  <2>1. CASE SgwInitCtx(t)
    <3>1. sgw_job[t].imsi \in Genuine
      <4>1. sgw_job[t].imsi \in UE
        BY <2>1 DEF SgwInitCtx, SgwAt, UeSide, TypeInv, SgwJobsOK
      <4> QED
        BY <4>1, UEFacts
    <3> QED
      BY <2>1, <3>1 DEF SgwInitCtx
  <2>2. CASE SgwDetachCtx(t)
    BY <2>2 DEF SgwDetachCtx
  <2>3. CASE ~SgwInitCtx(t) /\ ~SgwDetachCtx(t)
    <3>1. s5_req' = s5_req
      BY <2>3 DEF SgwNext, SgwStep, SgwCreateSession, SgwUpdateItfid,
           SgwCreateSessionAnswer, SgwModifyBearer, SgwModifyCtx, SgwDetach,
           SgwDetachAnswer, SgwRemItfid, SgwRemUectx, s5Vars
    <3> QED
      BY <3>1
  <2> QED
    BY <2>1, <2>2, <2>3
<1>5. \A s \in S11Threads : sgw_job'[s].imsi \in Genuine \cup {Nil}
  <2> SUFFICES ASSUME NEW s \in S11Threads PROVE sgw_job'[s].imsi \in Genuine \cup {Nil}
    OBVIOUS
  <2>1. CASE SgwCreateSession(t)
    <3>1. PICK m \in s11_req :
             /\ SgwReceive(t, "create", m)
             /\ sgw_job' = [sgw_job EXCEPT ![t] =
                   [src |-> m.w, imsi |-> m.imsi, cteid |-> m.mme, dl |-> 0,
                    teid |-> [i \in Itf |-> m.mme]]]
      BY <2>1 DEF SgwCreateSession
    <3>2. m.imsi \in Genuine
      BY <3>1 DEF SgwReceive
    <3>3. sgw_job'[s] = sgw_job[s] \/ sgw_job'[s].imsi = m.imsi
      BY <1>2, <3>1 DEF SgwTypeOK
    <3> QED
      BY <3>2, <3>3
  <2>2. CASE SgwModifyBearer(t) \/ SgwDetach(t)
    <3>1. PICK m \in s11_req :
             \/ sgw_job' = sgw_job
             \/ sgw_job' = [sgw_job EXCEPT ![t] = [NoSgwJob EXCEPT
                     !.src = m.w, !.imsi = SgwImsi(11, m.teid), !.dl = m.dl]]
             \/ sgw_job' = [sgw_job EXCEPT ![t] = [NoSgwJob EXCEPT
                     !.src = m.w, !.imsi = SgwImsi(11, m.teid)]]
      BY <2>2 DEF SgwModifyBearer, SgwDetach, SgwExit, sgwVars
    <3>2. SgwImsi(11, m.teid) \in Genuine \cup {Nil}
      <4>1. m.teid \in Teid
        BY DEF UeSide, TypeInv, TypeOK, S11TypeOK, S11Req
      <4> QED
        BY <4>1 DEF SgwImsi, Itf
    <3>3. sgw_job'[s] = sgw_job[s] \/ sgw_job'[s].imsi = SgwImsi(11, m.teid)
      BY <1>2, <3>1, ZenonT(40) DEF SgwTypeOK, NoSgwJob
    <3> QED
      BY <3>2, <3>3
  <2>3. CASE SgwDetachCtx(t)
    <3>1. sgw_job'[s].imsi = sgw_job[s].imsi
      BY <1>2, <2>3 DEF SgwDetachCtx, SgwExit, sgwVars, SgwTypeOK, SgwJob
    <3> QED
      BY <3>1
  <2>4. CASE SgwCreateSessionAnswer(t) \/ SgwModifyCtx(t) \/ SgwRemUectx(t)
    <3>1. sgw_job' = [sgw_job EXCEPT ![t] = NoSgwJob]
      BY <2>4 DEF SgwCreateSessionAnswer, SgwModifyCtx, SgwRemUectx
    <3>2. sgw_job'[s] = sgw_job[s] \/ sgw_job'[s].imsi = Nil
      BY <1>2, <3>1 DEF SgwTypeOK, NoSgwJob
    <3> QED
      BY <3>2
  <2>5. CASE SgwUpdateItfid(t) \/ SgwInitCtx(t) \/ SgwDetachAnswer(t) \/ SgwRemItfid(t)
    <3>1. sgw_job' = sgw_job
      BY <2>5 DEF SgwUpdateItfid, SgwInitCtx, SgwDetachAnswer, SgwRemItfid
    <3> QED
      BY <3>1
  <2> QED
    BY <2>1, <2>2, <2>3, <2>4, <2>5 DEF SgwNext, SgwStep
<1>6. \A i \in Itf, x \in Teid : sgw_id'[i][x] \in Genuine \cup {Nil}
  <2>1. CASE SgwUpdateItfid(t) \/ SgwRemItfid(t)
    <3>1. PICK v \in {sgw_job[t].imsi, Nil} : \E i, x : sgw_id' = [sgw_id EXCEPT ![i][x] = v]
      BY <2>1 DEF SgwUpdateItfid, SgwRemItfid
    <3>2. \A j \in Itf, y \in Teid : sgw_id'[j][y] = sgw_id[j][y] \/ sgw_id'[j][y] = v
      <4> HIDE DEF GenuineInv
      <4> QED
        BY <1>2, <3>1 DEF SgwTypeOK
    <3> QED
      BY <3>1, <3>2
  <2>2. CASE ~SgwUpdateItfid(t) /\ ~SgwRemItfid(t)
    <3>1. sgw_id' = sgw_id
      <4>1. CASE SgwCreateSession(t) \/ SgwInitCtx(t) \/ SgwCreateSessionAnswer(t)
                 \/ SgwModifyCtx(t) \/ SgwDetachAnswer(t) \/ SgwRemUectx(t)
        BY <4>1 DEF SgwCreateSession, SgwInitCtx, SgwCreateSessionAnswer, SgwModifyCtx,
                    SgwDetachAnswer, SgwRemUectx
      <4>2. CASE SgwModifyBearer(t) \/ SgwDetach(t) \/ SgwDetachCtx(t)
        BY <4>2 DEF SgwModifyBearer, SgwDetach, SgwDetachCtx, SgwExit, sgwVars
      <4> QED
        BY <2>2, <4>1, <4>2 DEF SgwNext, SgwStep
    <3> QED
      BY <3>1
  <2> QED
    BY <2>1, <2>2
<1>7. \A u \in UE : sgw_ctx'[u] # Nil => u \in Genuine
  <2> SUFFICES ASSUME NEW u \in UE, sgw_ctx'[u] # Nil PROVE u \in Genuine
    OBVIOUS
  <2>1. sgw_ctx'[u] = sgw_ctx[u] \/ u = sgw_job[t].imsi
    <3>1. sgw_ctx' = sgw_ctx \/ \E c : sgw_ctx' = [sgw_ctx EXCEPT ![sgw_job[t].imsi] = c]
      <4>1. CASE SgwInitCtx(t) \/ SgwCreateSessionAnswer(t) \/ SgwModifyCtx(t) \/ SgwRemUectx(t)
        BY <4>1 DEF SgwInitCtx, SgwCreateSessionAnswer, SgwModifyCtx, SgwRemUectx
      <4>2. CASE SgwCreateSession(t) \/ SgwUpdateItfid(t) \/ SgwDetachAnswer(t) \/ SgwRemItfid(t)
        BY <4>2 DEF SgwCreateSession, SgwUpdateItfid, SgwDetachAnswer, SgwRemItfid
      <4>3. CASE SgwModifyBearer(t) \/ SgwDetach(t) \/ SgwDetachCtx(t)
        BY <4>3 DEF SgwModifyBearer, SgwDetach, SgwDetachCtx, SgwExit, sgwVars
      <4> QED
        BY <4>1, <4>2, <4>3 DEF SgwNext, SgwStep
    <3> QED
      BY <1>2, <3>1 DEF SgwTypeOK
  <2> QED
    BY <2>1, UEFacts
<1>8. \A u \in UE : pgw_ctx'[u] # Nil => u \in Genuine
    BY <1>1 DEF pgwVars
<1> QED
    BY <1>1, <1>3, <1>4, <1>5, <1>6, <1>7, <1>8 DEF pgwVars

\* So does the PGW.
LEMMA PgwGenuine ==
    ASSUME UeSide, GenuineInv, NEW p \in PgwThreads, PgwNext(p) PROVE GenuineInv'
<1> USE DEF GenuineInv
<1>1. UNCHANGED <<s11Vars, sgwVars>>
    BY DEF PgwNext
<1>2. PgwTypeOK
    BY DEF UeSide, TypeInv, TypeOK
<1>3. \A m \in s5_req' : m \in s5_req
  <2>1. s5_req' = s5_req \/ \E m : s5_req' = s5_req \ {m}
    BY DEF PgwNext, PgwStep, PgwCreateSession, PgwUpdateS5Id, PgwUpdateSgiId, PgwInitCtx,
           PgwDetach, PgwDetachCtx, PgwRemS5Id, PgwRemSgiId, PgwRemUectx, PgwReceive, s5Vars
  <2> QED
    BY <2>1
<1>4. \A q \in PgwThreads : pgw_job'[q].imsi \in Genuine \cup {Nil}
  <2> SUFFICES ASSUME NEW q \in PgwThreads PROVE pgw_job'[q].imsi \in Genuine \cup {Nil}
    OBVIOUS
  <2>1. CASE PgwCreateSession(p)
    <3>1. PICK m \in s5_req :
             /\ PgwReceive(p, "create", m)
             /\ pgw_job' = [pgw_job EXCEPT ![p] = [src |-> m.t, imsi |-> m.imsi,
                               teid |-> m.teid, ip |-> IpAddr(m.imsi)]]
      BY <2>1 DEF PgwCreateSession
    <3>2. m.imsi \in Genuine
      BY <3>1 DEF PgwReceive
    <3>3. pgw_job'[q] = pgw_job[q] \/ pgw_job'[q].imsi = m.imsi
      BY <1>2, <3>1 DEF PgwTypeOK
    <3> QED
      BY <3>2, <3>3
  <2>2. CASE PgwDetach(p)
    <3>1. PICK m \in s5_req :
             \/ pgw_job' = pgw_job
             \/ pgw_job' = [pgw_job EXCEPT ![p] = [NoPgwJob EXCEPT !.src = m.t,
                                                       !.imsi = pgw_s5_id[m.teid]]]
      BY <2>2 DEF PgwDetach, pgwVars
    <3>2. pgw_s5_id[m.teid] \in Genuine \cup {Nil}
      <4>1. m.teid \in Teid
        BY DEF UeSide, TypeInv, TypeOK, S5TypeOK, S5Req
      <4> QED
        BY <4>1
    <3>3. pgw_job'[q] = pgw_job[q] \/ pgw_job'[q].imsi = pgw_s5_id[m.teid]
      BY <1>2, <3>1 DEF PgwTypeOK, NoPgwJob
    <3> QED
      BY <3>2, <3>3
  <2>3. CASE PgwDetachCtx(p)
    <3>1. pgw_job'[q].imsi = pgw_job[q].imsi
      BY <1>2, <2>3 DEF PgwDetachCtx, PgwTypeOK, PgwJob
    <3> QED
      BY <3>1
  <2>4. CASE PgwInitCtx(p) \/ PgwRemUectx(p)
    <3>1. pgw_job' = [pgw_job EXCEPT ![p] = NoPgwJob]
      BY <2>4 DEF PgwInitCtx, PgwRemUectx
    <3>2. pgw_job'[q] = pgw_job[q] \/ pgw_job'[q].imsi = Nil
      BY <1>2, <3>1 DEF PgwTypeOK, NoPgwJob
    <3> QED
      BY <3>2
  <2>5. CASE PgwUpdateS5Id(p) \/ PgwUpdateSgiId(p) \/ PgwRemS5Id(p) \/ PgwRemSgiId(p)
    <3>1. pgw_job' = pgw_job
      BY <2>5 DEF PgwUpdateS5Id, PgwUpdateSgiId, PgwRemS5Id, PgwRemSgiId
    <3> QED
      BY <3>1
  <2> QED
    BY <2>1, <2>2, <2>3, <2>4, <2>5 DEF PgwNext, PgwStep
<1>5. \A x \in Teid : pgw_s5_id'[x] \in Genuine \cup {Nil}
  <2>1. \/ pgw_s5_id' = pgw_s5_id
        \/ \E x : pgw_s5_id' = [pgw_s5_id EXCEPT ![x] = pgw_job[p].imsi]
        \/ \E x : pgw_s5_id' = [pgw_s5_id EXCEPT ![x] = Nil]
    BY DEF PgwNext, PgwStep, PgwCreateSession, PgwUpdateS5Id, PgwUpdateSgiId, PgwInitCtx,
           PgwDetach, PgwDetachCtx, PgwRemS5Id, PgwRemSgiId, PgwRemUectx, pgwVars
  <2>2. \A x \in Teid : pgw_s5_id'[x] = pgw_s5_id[x] \/ pgw_s5_id'[x] \in {pgw_job[p].imsi, Nil}
    BY <1>2, <2>1 DEF PgwTypeOK
  <2> QED
    BY <2>2
<1>6. \A u \in UE : pgw_ctx'[u] # Nil => u \in Genuine
  <2> SUFFICES ASSUME NEW u \in UE, pgw_ctx'[u] # Nil PROVE u \in Genuine
    OBVIOUS
  <2>1. pgw_ctx'[u] = pgw_ctx[u] \/ u = pgw_job[p].imsi
    <3>1. pgw_ctx' = pgw_ctx \/ \E c : pgw_ctx' = [pgw_ctx EXCEPT ![pgw_job[p].imsi] = c]
      BY DEF PgwNext, PgwStep, PgwCreateSession, PgwUpdateS5Id, PgwUpdateSgiId, PgwInitCtx,
           PgwDetach, PgwDetachCtx, PgwRemS5Id, PgwRemSgiId, PgwRemUectx, pgwVars
    <3> QED
      BY <1>2, <3>1 DEF PgwTypeOK
  <2> QED
    BY <2>1, UEFacts
<1>7. \A u \in UE : sgw_ctx'[u] # Nil => u \in Genuine
    BY <1>1 DEF sgwVars
<1> QED
    BY <1>1, <1>3, <1>4, <1>5, <1>6, <1>7 DEF s11Vars, sgwVars

\* Every step keeps subscribers with the wrong key out of the gateways.
LEMMA NextGenuine == UeSide /\ GenuineInv /\ [Next]_vars => GenuineInv'
<1> SUFFICES ASSUME UeSide, GenuineInv, [Next]_vars PROVE GenuineInv'
    OBVIOUS
<1>1. CASE UNCHANGED <<s11Vars, s5Vars, sgwVars, pgwVars>>
    BY <1>1 DEF GenuineInv, s11Vars, s5Vars, sgwVars, pgwVars
<1>2. CASE vars' = vars
    BY <1>1, <1>2 DEF vars
<1>3. CASE Next
  <2>1. CASE (\E u \in UE : RanNext(u)) \/ AcceptNext \/ \E w \in Worker : HssNext(w)
    <3>1. UNCHANGED <<s11Vars, s5Vars, sgwVars, pgwVars>>
      BY <2>1 DEF RanNext, AcceptNext, AcceptConnection, HssNext
    <3> QED
      BY <1>1, <3>1
  <2>2. CASE \E w \in Worker : MmeNext(w)
    BY <2>2, MmeGenuine
  <2>3. CASE \E t \in S11Threads : SgwNext(t)
    BY <2>3, SgwGenuine
  <2>4. CASE \E p \in PgwThreads : PgwNext(p)
    BY <2>4, PgwGenuine
  <2>5. CASE Terminating
    BY <1>2, <2>5 DEF Terminating
  <2> QED
    BY <1>3, <2>1, <2>2, <2>3, <2>4, <2>5 DEF Next
<1> QED
    BY <1>2, <1>3

\* GenuineInv is an invariant: no gateway thread, table or message between the
\* gateways ever carries a subscriber whose key differs from the HSS's.
THEOREM GenuineInvariance == Spec => []GenuineInv
<1>1. Init => UeSide /\ GenuineInv
  <2>1. Init => GenuineInv
    BY DEF Init, GenuineInv, UdpInit, SgwInit, PgwInit, NoSgwJob, NoPgwJob
  <2> QED
    BY <2>1, InitType, InitCalls, InitUe DEF UeSide
<1>2. (UeSide /\ GenuineInv) /\ [Next]_vars => (UeSide /\ GenuineInv)'
    BY NextSide, NextGenuine
<1> QED
    BY <1>1, <1>2, PTL DEF Spec

\* OnlyAuthenticated is an invariant: a terminal without the key in its row of
\* autn_info never gets a context in SGW or PGW.
THEOREM OnlyAuthenticatedServed == Spec => []OnlyAuthenticated
<1>1. GenuineInv => OnlyAuthenticated
    BY DEF GenuineInv, OnlyAuthenticated, Genuine
<1> QED
    BY <1>1, GenuineInvariance, PTL
=============================================================================
