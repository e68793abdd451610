--------------------------- MODULE EpcBearerProofs ----------------------------
(***************************************************************************)
(* The tables of SGW and PGW, for any number of subscribers and, where a   *)
(* terminal attaches once, of threads: what a gateway holds of each        *)
(* subscriber follows what terminal and MME know of it, however its threads*)
(* interleave.  The inductive invariant is GwInv.  With it the control plane*)
(* implements the service of EpsBearer: every step of every process is a step*)
(* of the service towards one subscriber, or none.                         *)
(***************************************************************************)
EXTENDS EpcSessionProofs, FiniteSetTheorems

\* What is known of every state: the lower invariants and the gateways'.
GwSide == SessionSide /\ GwInv

\* Where the address table is long enough, subscribers have different addresses.
LEMMA AddressFacts ==
    ASSUME Addressable, NEW u \in UE, NEW v \in UE, IpAddr(u) = IpAddr(v)
    PROVE  u = v
<1>1. u \in Nat /\ v \in Nat
    BY UEFacts
<1>2. u \div 252 = v \div 252 /\ u % 252 = v % 252
  <2>1. <<1 + (u \div 252), 3 + (u % 252)>> = <<1 + (v \div 252), 3 + (v % 252)>>
    BY DEF IpAddr, Addressable
  <2>2. 1 + (u \div 252) = 1 + (v \div 252) /\ 3 + (u % 252) = 3 + (v % 252)
    BY <2>1
  <2> QED
    BY <1>1, <2>2
<1> QED
    BY <1>1, <1>2

-----------------------------------------------------------------------------
(* Who is served.                                                          *)

\* Two workers never serve the same connection.
LEMMA OneWorker ==
    ASSUME UeSide, NEW v \in Worker, NEW w \in Worker, mme_pc[v] # "idle", mme_pc[w] # "idle",
           mme_job[v].conn = mme_job[w].conn
    PROVE  v = w
BY DEF UeSide, UeInv, WorkersOK

\* What the worker that serves a subscriber is at says where its terminal is.
LEMMA ServedView ==
    ASSUME SessionSide, NEW w \in Worker, mme_pc[w] \in SessionType
    PROVE  LET u == mme_job[w].conn
           IN  /\ u \in UE
               /\ View(u).at.pc = mme_pc[w]
               /\ mme_pc[w] = "create" => ~Offered(View(u)) /\ ran_pc[u] = "set_eps_session"
               /\ mme_pc[w] = "modify" => Offered(View(u))
               /\ mme_pc[w] = "detach" => ~Offered(View(u)) /\ ran_pc[u] = "detach"
<1> DEFINE u == mme_job[w].conn
<1>1. mme_pc[w] # "idle"
    BY DEF SessionType
<1>2. u \in UE
    BY <1>1, BusyHandler DEF SessionSide, UeSide, UeInv
<1>3. ViewOK(u, View(u)) /\ View(u).at.pc = mme_pc[w] /\ View(u).pc = ran_pc[u]
    BY <1>2, BusySession
<1>4. CASE mme_pc[w] = "create"
    BY <1>2, <1>3, <1>4 DEF ViewOK, Conversation, Cleaning, Offered
<1>5. CASE mme_pc[w] = "modify"
    BY <1>2, <1>3, <1>5 DEF ViewOK, Conversation, Cleaning, Offered, One, None
<1>6. CASE mme_pc[w] = "detach"
    BY <1>2, <1>3, <1>6 DEF ViewOK, Conversation, Cleaning, Offered
<1> QED
    BY <1>4, <1>5, <1>6 DEF SessionType

\* A request to the SGW is of the type its worker is at, one thread at most
\* has something of that worker in hand, and it holds the session or not.
LEMMA RequestHolds ==
    ASSUME SessionSide, NEW m \in s11_req
    PROVE  LET u == mme_job[m.w].conn
           IN  /\ u \in UE
               /\ mme_pc[m.w] = m.type
               /\ m.type = "create" => ~Holds(u) /\ ran_pc[u] = "set_eps_session"
               /\ m.type \in {"modify", "detach"} => Holds(u)
               /\ ~Given(u)
               /\ \A n \in s11_req : mme_job[n.w].conn = u => n = m
<1> DEFINE u == mme_job[m.w].conn
<1>1. /\ m.w \in Worker /\ m.type \in SessionType /\ mme_pc[m.w] = m.type /\ m.type # "idle"
      /\ \A n \in s11_req \cup s11_rsp : n.w \in Worker /\ n.type \in SessionType
                                         /\ mme_pc[n.w] = n.type /\ n.type # "idle"
    BY Callers DEF SessionSide, UeSide, OneCall, S11Calls, S11Awaited, SessionType
<1>2. /\ u \in UE
      /\ m.type = "create" => ~Offered(View(u)) /\ ran_pc[u] = "set_eps_session"
      /\ m.type = "modify" => Offered(View(u))
      /\ m.type = "detach" => ~Offered(View(u)) /\ ran_pc[u] = "detach"
    BY <1>1, ServedView
<1>3. \A n \in s11_req \cup s11_rsp : mme_job[n.w].conn = u => n.w = m.w
    BY <1>1, OneWorker DEF SessionSide
<1>4. /\ \A n \in s11_req : n.w = m.w => n = m
      /\ \A n \in s11_rsp : n.w # m.w
    BY DEF SessionSide, UeSide, OneCall, S11Calls, S11Single
<1>5. ~Given(u)
    BY <1>3, <1>4 DEF Given
<1>6. Asked(u) <=> m.type = "detach"
    BY <1>3, <1>4 DEF Asked
<1> QED
    BY <1>1, <1>2, <1>3, <1>4, <1>5, <1>6 DEF Holds

\* An SGW thread that owes an answer works for the one worker that serves its
\* subscriber, and nothing else is under way between them.
LEMMA ThreadHolds ==
    ASSUME SessionSide, NEW t \in S11Threads, SgwOwes(sgw_pc[t]) # "none"
    PROVE  LET u == sgw_job[t].imsi
               w == sgw_job[t].src
           IN  /\ u \in UE /\ w \in Worker
               /\ mme_pc[w] = SgwOwes(sgw_pc[t]) /\ mme_job[w].conn = u
               /\ SgwOwes(sgw_pc[t]) = "create" => ran_pc[u] = "set_eps_session"
               /\ SgwOwes(sgw_pc[t]) = "detach" => ran_pc[u] = "detach"
               /\ Holds(u) <=> SgwOwes(sgw_pc[t]) = "modify"
               /\ ~Offered(View(u)) <=> SgwOwes(sgw_pc[t]) # "modify"
               /\ ~Given(u) /\ ~Asked(u)
               /\ \A m \in s11_req : mme_job[m.w].conn # u
               /\ \A s \in S11Threads :
                     SgwOwes(sgw_pc[s]) # "none" /\ sgw_job[s].imsi = u => s = t
<1> DEFINE u == sgw_job[t].imsi
           w == sgw_job[t].src
<1>1. w \in Worker /\ mme_pc[w] = SgwOwes(sgw_pc[t]) /\ mme_pc[w] \in SessionType
      /\ mme_pc[w] # "idle"
    BY Callers DEF SessionSide, UeSide, OneCall, S11Calls, S11Awaited, SessionType
<1>2. mme_job[w].conn = u
    BY DEF SessionSide, SessionInv, SgwLocalsOK, SgwLocalOK
<1>3. /\ u \in UE
      /\ mme_pc[w] = "create" => ~Offered(View(u)) /\ ran_pc[u] = "set_eps_session"
      /\ mme_pc[w] = "modify" => Offered(View(u))
      /\ mme_pc[w] = "detach" => ~Offered(View(u)) /\ ran_pc[u] = "detach"
    BY <1>1, <1>2, ServedView
<1>4. \A n \in s11_req \cup s11_rsp : mme_job[n.w].conn # u
  <2> SUFFICES ASSUME NEW n \in s11_req \cup s11_rsp, mme_job[n.w].conn = u PROVE FALSE
    OBVIOUS
  <2>1. n.w \in Worker /\ mme_pc[n.w] # "idle"
    BY Callers DEF SessionSide, UeSide, OneCall, S11Calls, S11Awaited, SessionType
  <2>2. n.w = w
    BY <1>1, <1>2, <2>1, OneWorker DEF SessionSide
  <2> QED
    BY <2>2 DEF SessionSide, UeSide, OneCall, S11Calls, S11Single
<1>5. ~Given(u) /\ ~Asked(u)
    BY <1>4 DEF Given, Asked
<1>6. ASSUME NEW s \in S11Threads, SgwOwes(sgw_pc[s]) # "none", sgw_job[s].imsi = u
      PROVE  s = t
  <2>1. sgw_job[s].src \in Worker /\ mme_pc[sgw_job[s].src] # "idle"
    BY <1>6, Callers DEF SessionSide, UeSide, OneCall, S11Calls, S11Awaited, SessionType
  <2>2. mme_job[sgw_job[s].src].conn = u
    BY <1>6 DEF SessionSide, SessionInv, SgwLocalsOK, SgwLocalOK
  <2>3. sgw_job[s].src = w
    BY <1>1, <1>2, <2>1, <2>2, OneWorker DEF SessionSide
  <2> QED
    BY <1>6, <2>3 DEF SessionSide, UeSide, OneCall, S11Calls, S11Single
<1>7. /\ mme_pc[w] = "create" => ~Holds(u)
      /\ mme_pc[w] = "modify" => Holds(u)
      /\ mme_pc[w] = "detach" => ~Holds(u)
    BY <1>3, <1>5 DEF Holds
<1> QED
    BY <1>1, <1>2, <1>3, <1>4, <1>5, <1>6, <1>7 DEF SessionType

-----------------------------------------------------------------------------
(* Terminals, MME and HSS.                                                 *)

\* What a terminal has been offered depends on its own state and its queues only.
LEMMA OfferedSame ==
    ASSUME NEW x \in UE, ran_pc'[x] = ran_pc[x], s1ap_up'[x] = s1ap_up[x],
           s1ap_dn'[x] = s1ap_dn[x]
    PROVE  Offered(View(x))' <=> Offered(View(x))
<1>1. View(x)'.pc = View(x).pc /\ View(x)'.up = View(x).up /\ View(x)'.dn = View(x).dn
    BY DEF View
<1> QED
    BY <1>1 DEF Offered

\* The gateways stay as they are while who holds a session does.
LEMMA SgwSame ==
    ASSUME UNCHANGED sgwVars, NEW u \in UE, Holds(u)' <=> Holds(u), SgwOK(u)
    PROVE  SgwOK(u)'
<1> USE DEF sgwVars
<1>1. SgwOn(u)' = SgwOn(u) /\ SgwIn(u)' = SgwIn(u)
    BY DEF SgwOn, SgwIn
<1>2. \A t \in SgwOn(u) : SgwStage(u, SgwView(u, t))' <=> SgwStage(u, SgwView(u, t))
    BY <1>1 DEF SgwStage, SgwView
<1>3. SgwRest(u)' <=> SgwRest(u)
    BY <1>1 DEF SgwRest
<1> QED
    BY <1>1, <1>2, <1>3 DEF SgwOK

\* ... in either of them.
LEMMA PgwSame ==
    ASSUME UNCHANGED pgwVars, NEW u \in UE, PgwHolds(u)' <=> PgwHolds(u), PgwOK(u)
    PROVE  PgwOK(u)'
<1> USE DEF pgwVars
<1>1. PgwOn(u)' = PgwOn(u)
    BY DEF PgwOn
<1>2. \A p \in PgwOn(u) : PgwStage(u, PgwView(u, p))' <=> PgwStage(u, PgwView(u, p))
    BY <1>1 DEF PgwStage, PgwView
<1>3. PgwRest(u)' <=> PgwRest(u)
    BY <1>1 DEF PgwRest
<1> QED
    BY <1>1, <1>2, <1>3 DEF PgwOK

\* A step of terminals, MME or HSS that leaves the sessions with who holds them,
\* ends no process and lets nobody return too early keeps the gateways in order.
LEMMA GatewaysStill ==
    ASSUME GwSide, UNCHANGED <<s5Vars, sgwVars, pgwVars>>, exited' = {},
           \A x \in UE : Holds(x)' <=> Holds(x),
           \A x \in UE : Removing(x) /\ MaxRounds <= 1 => Gone(x)'
    PROVE  GwInv'
<1> USE DEF GwSide, GwInv
<1>1. \A x \in UE : SgwOK(x)'
    BY SgwSame
<1>2. \A x \in UE : PgwOK(x)'
  <2> SUFFICES ASSUME NEW x \in UE PROVE PgwOK(x)'
    OBVIOUS
  <2>1. PgwHolds(x)' <=> PgwHolds(x)
    BY DEF PgwHolds, PgwGiven, PgwAsked, SgwOn, s5Vars, sgwVars
  <2> QED
    BY <2>1, PgwSame
<1>3. DetachesOK'
    BY DEF DetachesOK, s5Vars, sgwVars, pgwVars
<1>4. MaxRounds <= 1 => \A x \in UE : Removing(x)' => Gone(x)'
    BY DEF Removing, SgwOn, PgwOn, sgwVars, pgwVars
<1>5. NoExit'
    BY DEF NoExit
<1> QED
    BY <1>1, <1>2, <1>3, <1>4, <1>5

\* A terminal's own step neither takes nor gives a session: it accepts the bearer
\* it has been offered and asks for its release.
LEMMA RanOffered ==
    ASSUME SessionSide, NEW u \in UE, RanNext(u)
    PROVE  Offered(View(u))' <=> Offered(View(u))
<1>1. /\ View(u) \in Views /\ ViewOK(u, View(u))
      /\ View(u).pc = ran_pc[u] /\ View(u).up = s1ap_up[u] /\ View(u).dn = s1ap_dn[u]
    BY ViewsOK DEF SessionSide, View
<1>2. View(u)'.pc = ran_pc'[u] /\ View(u)'.up = s1ap_up'[u] /\ View(u)'.dn = s1ap_dn'[u]
    BY DEF View
<1> USE DEF SessionSide, UeSide, TypeInv, TypeOK, RanTypeOK, SctpTypeOK
<1>3. CASE ran_pc[u] \notin {"set_eps_session", "transfer", "detach"} /\ ~SetSecurity(u)
  <2>1. ran_pc'[u] \notin {"set_eps_session", "transfer", "detach"}
    <3>1. CASE ConnMme(u)
      BY <3>1 DEF ConnMme, Goto
    <3>2. CASE TimeExceeded(u)
      BY <3>2 DEF TimeExceeded, Leave, Goto
    <3>3. CASE InitialAttach(u)
      BY <3>3 DEF InitialAttach, Goto
    <3>4. CASE Authenticate(u)
      <4>1. \/ ran_pc' = [ran_pc EXCEPT ![u] = "failed"]
            \/ ran_pc' = [ran_pc EXCEPT ![u] = "set_security"]
        BY <3>4 DEF Authenticate, Leave, Goto
      <4> QED
        BY <4>1
    <3> QED
      BY <1>3, <3>1, <3>2, <3>3, <3>4 DEF RanNext, RanStep, SetEpsSession, DetachRequest,
                                          DetachComplete, RcvDn
  <2> QED
    BY <1>1, <1>2, <1>3, <2>1 DEF Offered
<1>4. CASE SetSecurity(u)
  <2>1. ran_pc[u] = "set_security" /\ s1ap_dn[u] # <<>> /\ s1ap_dn'[u] = Tail(s1ap_dn[u])
    BY <1>4 DEF SetSecurity, RcvDn
  <2>2. None(s1ap_dn'[u])
    BY <1>1, <2>1, AnswerView
  <2>3. ran_pc'[u] \in {"set_security", "set_eps_session"}
    BY <1>4, <2>1 DEF SetSecurity, Goto
  <2> QED
    BY <1>1, <1>2, <2>1, <2>2, <2>3 DEF Offered
<1>5. CASE SetEpsSession(u)
  <2>1. ran_pc[u] = "set_eps_session" /\ s1ap_dn[u] # <<>>
    BY <1>5 DEF SetEpsSession, RcvDn
  <2>2. Head(s1ap_dn[u]).mac
    BY <2>1, RcvFacts
  <2>3. ran_pc'[u] = "transfer"
    BY <1>5, <2>2 DEF SetEpsSession, Goto
  <2>4. ~None(s1ap_dn[u])
    BY <2>1, NoneFact
  <2> QED
    BY <1>1, <1>2, <2>1, <2>3, <2>4 DEF Offered
<1>6. CASE DetachRequest(u)
  <2> DEFINE a == Secured(ran_ctx[u], "detach_request", 0)
  <2>1. ran_pc[u] = "transfer" /\ ran_pc'[u] = "detach" /\ s1ap_up'[u] = Append(s1ap_up[u], a)
    BY <1>6 DEF DetachRequest, Goto, SendUp
  <2>2. a \in UpMsg
    BY SecuredType, NumberingFacts DEF UpType
  <2> HIDE DEF a
  <2>3. ~None(s1ap_up'[u])
    BY <2>1, <2>2, SendFacts DEF None
  <2> QED
    BY <1>1, <1>2, <2>1, <2>3 DEF Offered
<1>7. CASE DetachComplete(u)
  <2>1. ran_pc[u] = "detach" /\ s1ap_dn[u] # <<>>
    BY <1>7 DEF DetachComplete, RcvDn
  <2>2. Head(s1ap_dn[u]).mac /\ None(s1ap_up[u])
    BY <1>1, <2>1, RcvFacts, AnswerView
  <2>3. ran_pc'[u] = "loop"
    BY <1>7, <2>2 DEF DetachComplete, Goto
  <2> QED
    BY <1>1, <1>2, <2>1, <2>2, <2>3 DEF Offered
<1> QED
  <2>1. ran_pc[u] \in {"set_eps_session", "transfer", "detach"} =>
           SetEpsSession(u) \/ DetachRequest(u) \/ DetachComplete(u)
    BY DEF RanNext, RanStep, ConnMme, TimeExceeded, InitialAttach, Authenticate, SetSecurity, RcvDn
  <2> QED
    BY <1>3, <1>4, <1>5, <1>6, <1>7, <2>1

\* A terminal that is leaving and attaches no more stays away.
LEMMA RanGone ==
    ASSUME SessionSide, NEW u \in UE, RanNext(u), MaxRounds <= 1, NEW x \in UE, Gone(x)
    PROVE  Gone(x)'
<1> USE DEF SessionSide, UeSide, TypeInv, TypeOK, RanTypeOK
<1>1. CASE ConnMme(u)
    BY <1>1 DEF ConnMme, Goto, Gone
<1>2. CASE TimeExceeded(u)
    BY <1>2 DEF TimeExceeded, Leave, Goto, Gone
<1>3. CASE InitialAttach(u)
  <2>1. u # x
    BY <1>3, RoundsAssumption DEF InitialAttach, Gone
  <2> QED
    BY <1>3, <2>1 DEF InitialAttach, Goto, Gone
<1>4. CASE Authenticate(u)
  <2>1. \E pc : ran_pc' = [ran_pc EXCEPT ![u] = pc]
    BY <1>4 DEF Authenticate, Leave, Goto
  <2>2. ran_pc[u] = "authenticate" /\ ran_round' = ran_round
    BY <1>4 DEF Authenticate, RcvDn
  <2> QED
    BY <2>1, <2>2 DEF Gone
<1>5. CASE SetSecurity(u) \/ SetEpsSession(u) \/ DetachRequest(u)
  <2>1. ran_pc' = ran_pc \/ \E pc : ran_pc' = [ran_pc EXCEPT ![u] = pc]
    BY <1>5 DEF SetSecurity, SetEpsSession, DetachRequest, Goto
  <2>2. ran_pc[u] \in {"set_security", "set_eps_session", "transfer"} /\ ran_round' = ran_round
    BY <1>5 DEF SetSecurity, SetEpsSession, DetachRequest, RcvDn
  <2> QED
    BY <2>1, <2>2 DEF Gone
<1>6. CASE DetachComplete(u)
  <2>1. \/ ran_pc' = ran_pc /\ ran_round' = ran_round
        \/ /\ ran_pc' = [ran_pc EXCEPT ![u] = "loop"]
           /\ ran_round' = [ran_round EXCEPT ![u] = @ + 1]
    BY <1>6 DEF DetachComplete, Goto
  <2>2. ran_round[x] \in Nat /\ ran_round[u] \in Nat /\ MaxRounds \in Nat /\ ran_pc[u] = "detach"
    BY <1>6, RoundsAssumption DEF DetachComplete, RcvDn
  <2> QED
    BY <2>1, <2>2 DEF Gone
<1> QED
    BY <1>1, <1>2, <1>3, <1>4, <1>5, <1>6 DEF RanNext, RanStep

\* Every step of a terminal keeps the gateways in order.
LEMMA RanGateways == ASSUME GwSide, SessionSide', NEW u \in UE, RanNext(u) PROVE GwInv'
<1>1. UNCHANGED <<s5Vars, sgwVars, pgwVars>> /\ s11_req' = s11_req /\ s11_rsp' = s11_rsp
      /\ mme_job' = mme_job
    BY DEF RanNext, s11Vars, mmeVars
<1>2. exited' = {}
  <2>1. exited' = exited \/ exited' = exited \cup {"ran"}
    BY DEF RanNext, RanStep, ConnMme, TimeExceeded, InitialAttach, Authenticate, SetSecurity,
           SetEpsSession, DetachRequest, DetachComplete, Type1Error
  <2>2. exited' \subseteq {"sgw", "pgw"}
    BY DEF SessionSide, UeSide, UeInv, OnlyGatewaysExit
  <2> QED
    BY <2>1, <2>2 DEF GwSide, GwInv, NoExit
<1>3. \A x \in UE : Offered(View(x))' <=> Offered(View(x))
  <2> SUFFICES ASSUME NEW x \in UE PROVE Offered(View(x))' <=> Offered(View(x))
    OBVIOUS
  <2>1. CASE x = u
    BY <2>1, RanOffered DEF GwSide
  <2>2. CASE x # u
    BY <2>2, RanOthers, OfferedSame DEF GwSide, SessionSide
  <2> QED
    BY <2>1, <2>2
<1>4. \A x \in UE : Holds(x)' <=> Holds(x)
    BY <1>1, <1>3 DEF Holds, Given, Asked
<1>5. \A x \in UE : Removing(x) /\ MaxRounds <= 1 => Gone(x)'
    BY RanGone DEF GwSide, GwInv
<1> QED
    BY <1>1, <1>2, <1>4, <1>5, GatewaysStill

\* A worker that has no call to the SGW under way changes none.
LEMMA CallsAlone ==
    ASSUME SessionSide, NEW w \in Worker, mme_pc[w] \notin SessionType,
           \A v \in Worker \ {w} : mme_job'[v] = mme_job[v], UNCHANGED s11Vars, NEW x \in UE
    PROVE  (Given(x)' <=> Given(x)) /\ (Asked(x)' <=> Asked(x))
<1>1. \A m \in s11_req \cup s11_rsp : m.w \in Worker \ {w}
    BY Callers DEF SessionSide, UeSide, OneCall, S11Calls, S11Awaited
<1>2. \A m \in s11_req \cup s11_rsp : mme_job'[m.w] = mme_job[m.w]
    BY <1>1
<1> QED
    BY <1>2 DEF Given, Asked, s11Vars

\* A request to the SGW adds one of its type.
LEMMA CallsAsk ==
    ASSUME SessionSide, NEW w \in Worker, mme_pc[w] \notin SessionType,
           \A v \in Worker \ {w} : mme_job'[v] = mme_job[v],
           NEW r, r.w = w, s11_req' = s11_req \cup {r}, s11_rsp' = s11_rsp, NEW x \in UE
    PROVE  /\ Given(x)' <=> Given(x)
           /\ Asked(x)' <=> Asked(x) \/ (r.type = "detach" /\ mme_job'[w].conn = x)
<1>1. \A m \in s11_req \cup s11_rsp : m.w \in Worker \ {w}
    BY Callers DEF SessionSide, UeSide, OneCall, S11Calls, S11Awaited
<1>2. \A m \in s11_req \cup s11_rsp : mme_job'[m.w] = mme_job[m.w]
    BY <1>1
<1> QED
    BY <1>2 DEF Given, Asked

\* An answer that is taken is gone.
LEMMA CallsHear ==
    ASSUME SessionSide, NEW w \in Worker, NEW m \in s11_rsp, m.w = w,
           \A v \in Worker \ {w} : mme_job'[v] = mme_job[v],
           s11_rsp' = s11_rsp \ {m}, s11_req' = s11_req, NEW x \in UE
    PROVE  /\ Given(x) <=> Given(x)' \/ (m.type = "create" /\ mme_job[w].conn = x)
           /\ Asked(x)' <=> Asked(x)
<1>1. \A n \in s11_req' \cup s11_rsp' : n.w \in Worker \ {w}
    BY Callers DEF SessionSide, UeSide, OneCall, S11Calls, S11Single
<1>2. \A n \in s11_req' \cup s11_rsp' : mme_job'[n.w] = mme_job[n.w]
    BY <1>1
<1> QED
    BY <1>2 DEF Given, Asked

\* A worker serves its subscriber and leaves with the others what they hold.
LEMMA OneServed ==
    ASSUME NEW u \in UE, UNCHANGED ranVars,
           \A x \in UE \ {u} : s1ap_up'[x] = s1ap_up[x] /\ s1ap_dn'[x] = s1ap_dn[x],
           \A x \in UE \ {u} : (Given(x)' <=> Given(x)) /\ (Asked(x)' <=> Asked(x)),
           Holds(u)' <=> Holds(u)
    PROVE  \A x \in UE : Holds(x)' <=> Holds(x)
<1> SUFFICES ASSUME NEW x \in UE, x # u PROVE Holds(x)' <=> Holds(x)
    OBVIOUS
<1>1. ran_pc'[x] = ran_pc[x] /\ s1ap_up'[x] = s1ap_up[x] /\ s1ap_dn'[x] = s1ap_dn[x]
    BY DEF ranVars
<1>2. Offered(View(x))' <=> Offered(View(x))
    BY <1>1, OfferedSame
<1> QED
    BY <1>2 DEF Holds

\* A worker's step that leaves the sessions with who holds them keeps the gateways in order.
LEMMA MmeStill ==
    ASSUME GwSide, SessionSide', NEW w \in Worker, MmeNext(w),
           \A x \in UE : Holds(x)' <=> Holds(x)
    PROVE  GwInv'
<1>1. UNCHANGED <<s5Vars, sgwVars, pgwVars, ranVars>>
    BY DEF MmeNext
<1>2. exited' = {}
  <2>1. exited' = exited \/ exited' = exited \cup {"mme"}
    <3>1. CASE \E u \in UE : HandleInitialAttach(w, u) \/ ConnectionClosed(w, u)
      BY <3>1 DEF HandleInitialAttach, ConnectionClosed
    <3>2. CASE \E u \in UE : HandleAutn(w, u) \/ HandleSecurityModeComplete(w, u)
                             \/ HandleAttachComplete(w, u) \/ HandleDetach(w, u)
      BY <3>2 DEF HandleAutn, HandleSecurityModeComplete, HandleAttachComplete, HandleDetach,
                  MmeExit, Type1Error
    <3>3. CASE AutnInfoAnswer(w) \/ CreateSessionAnswer(w) \/ ModifyBearerAnswer(w)
               \/ DetachAnswer(w) \/ RemItfid(w) \/ RemUectx(w)
      BY <3>3 DEF AutnInfoAnswer, CreateSessionAnswer, ModifyBearerAnswer, DetachAnswer,
                  RemItfid, RemUectx
    <3> QED
      BY <3>1, <3>2, <3>3 DEF MmeNext, MmeStep
  <2>2. exited' \subseteq {"sgw", "pgw"}
    BY DEF SessionSide, UeSide, UeInv, OnlyGatewaysExit
  <2> QED
    BY <2>1, <2>2 DEF GwSide, GwInv, NoExit
<1>3. \A x \in UE : Removing(x) /\ MaxRounds <= 1 => Gone(x)'
    BY <1>1 DEF GwSide, GwInv, Gone, ranVars
<1> QED
    BY <1>1, <1>2, <1>3, GatewaysStill

\* Until it asks for a session, a terminal holds none.
LEMMA AttachHolds ==
    ASSUME GwSide, SessionSide', NEW w \in Worker, NEW u \in UE, MmeNext(w),
           HandleInitialAttach(w, u) \/ HandleAutn(w, u) \/ HandleSecurityModeComplete(w, u)
    PROVE  \A x \in UE : Holds(x)' <=> Holds(x)
<1>0. PICK type \in {"initial_attach", "auth_response", "security_complete"} : Receive(w, u, type)
    BY DEF HandleInitialAttach, HandleAutn, HandleSecurityModeComplete
<1>1. /\ View(u) \in Views /\ ViewOK(u, View(u)) /\ View(u).at.pc = "idle" /\ View(u).up # <<>>
      /\ Head(View(u).up).type = type /\ View(u).pc = ran_pc[u] /\ View(u).dn = s1ap_dn[u]
      /\ mme_pc[w] \notin SessionType
      /\ \A x \in UE \ {u} : s1ap_up'[x] = s1ap_up[x]
    BY <1>0, ReceiveSession DEF GwSide
<1>2. /\ None(View(u).dn)
      /\ \/ type \in {"initial_attach", "auth_response"}
              /\ View(u).pc \in {"authenticate", "set_security"}
         \/ type = "security_complete" /\ View(u).pc = "set_eps_session"
    BY <1>1, RequestView
<1>3. UNCHANGED ranVars
    BY DEF MmeNext
<1>4. /\ \A x \in UE \ {u} : s1ap_dn'[x] = s1ap_dn[x]
      /\ type = "security_complete" => s1ap_dn' = s1ap_dn
      /\ \A v \in Worker \ {w} : mme_job'[v] = mme_job[v]
      /\ s11_rsp' = s11_rsp
      /\ \/ s11_req' = s11_req
         \/ \E r : r.w = w /\ r.type = "create" /\ s11_req' = s11_req \cup {r}
  <2> USE DEF GwSide, SessionSide, UeSide, TypeInv, TypeOK, MmeTypeOK, SctpTypeOK
  <2>1. CASE HandleInitialAttach(w, u)
    BY <2>1, <1>0 DEF HandleInitialAttach, Block, s11Vars
  <2>2. CASE HandleAutn(w, u)
    <3>1. UNCHANGED s11Vars /\ mme_job' = mme_job
          /\ (s1ap_dn' = s1ap_dn \/ \E m : SendDn(u, m))
      BY <2>2 DEF HandleAutn, MmeExit, mmeVars
    <3>2. type = "auth_response"
      BY <2>2, <1>1 DEF HandleAutn, Receive, View
    <3> QED
      BY <3>1, <3>2 DEF SendDn, s11Vars
  <2>3. CASE HandleSecurityModeComplete(w, u)
    <3>1. /\ mme_job' = mme_job \/ \E job : mme_job' = [mme_job EXCEPT ![w] = job]
          /\ s11_rsp' = s11_rsp /\ s1ap_dn' = s1ap_dn
      BY <2>3 DEF HandleSecurityModeComplete, MmeExit, mmeVars, Block
    <3>2. \/ s11_req' = s11_req
          \/ \E teid, imsi : s11_req' = s11_req \cup {[w |-> w, type |-> "create", teid |-> 0,
                                              mme |-> teid, imsi |-> imsi, dl |-> 0]}
      BY <2>3 DEF HandleSecurityModeComplete, MmeExit
    <3>3. \A v \in Worker \ {w} : mme_job'[v] = mme_job[v]
      BY <3>1
    <3>4. \/ s11_req' = s11_req
          \/ \E r : r.w = w /\ r.type = "create" /\ s11_req' = s11_req \cup {r}
      BY <3>2
    <3> QED
      BY <3>1, <3>3, <3>4
  <2> QED
    BY <2>1, <2>2, <2>3
<1>5. \A x \in UE : (Given(x)' <=> Given(x)) /\ (Asked(x)' <=> Asked(x))
  <2> SUFFICES ASSUME NEW x \in UE PROVE (Given(x)' <=> Given(x)) /\ (Asked(x)' <=> Asked(x))
    OBVIOUS
  <2>0. SessionSide
    BY DEF GwSide
  <2>1. CASE s11_req' = s11_req
    <3>1. UNCHANGED s11Vars
      BY <1>4, <2>1 DEF s11Vars
    <3> QED
      BY <1>1, <1>4, <2>0, <3>1, CallsAlone
  <2>2. CASE s11_req' # s11_req
    <3>1. PICK r : r.w = w /\ r.type = "create" /\ s11_req' = s11_req \cup {r}
      BY <1>4, <2>2
    <3> QED
      BY <1>1, <1>4, <2>0, <3>1, CallsAsk
  <2> QED
    BY <2>1, <2>2
<1>6. Offered(View(u))' <=> Offered(View(u))
  <2>1. View(u)'.pc = View(u).pc /\ View(u)'.dn = s1ap_dn'[u]
    BY <1>1, <1>3 DEF View, ranVars
  <2> QED
    BY <1>1, <1>2, <1>4, <2>1 DEF Offered
<1>7. Holds(u)' <=> Holds(u)
    BY <1>5, <1>6 DEF Holds
<1> QED
    BY <1>1, <1>3, <1>4, <1>5, <1>7, OneServed

\* A terminal that asks for its bearer's release keeps it until the SGW has read
\* the request, and one that has just accepted a bearer keeps it anyway.
LEMMA ReleaseHolds ==
    ASSUME GwSide, SessionSide', NEW w \in Worker, NEW u \in UE, MmeNext(w),
           HandleAttachComplete(w, u) \/ HandleDetach(w, u)
    PROVE  \A x \in UE : Holds(x)' <=> Holds(x)
<1>0. PICK type \in {"attach_complete", "detach_request"} :
          /\ Receive(w, u, type)
          /\ type = "attach_complete" => HandleAttachComplete(w, u)
          /\ type = "detach_request" => HandleDetach(w, u)
    BY DEF HandleAttachComplete, HandleDetach
<1>s. SessionSide
    BY DEF GwSide
<1>1. /\ View(u) \in Views /\ ViewOK(u, View(u)) /\ View(u).at.pc = "idle" /\ View(u).up # <<>>
      /\ Head(View(u).up).type = type /\ View(u).pc = ran_pc[u] /\ View(u).dn = s1ap_dn[u]
      /\ View(u).up = s1ap_up[u] /\ s1ap_up'[u] = Tail(View(u).up)
      /\ mme_pc[w] \notin SessionType
      /\ \A x \in UE \ {u} : s1ap_up'[x] = s1ap_up[x]
    BY <1>0, <1>s, ReceiveSession
<1>2. /\ View(u).up \in Seq(UpMsg) /\ None(View(u).dn)
      /\ \/ type = "attach_complete" /\ View(u).pc = "transfer"
         \/ type = "attach_complete" /\ View(u).pc = "detach" /\ Len(View(u).up) = 2
         \/ type = "detach_request" /\ View(u).pc = "detach" /\ Len(View(u).up) = 1
    BY <1>1, RequestView DEF Two
<1>3. UNCHANGED ranVars
    BY DEF MmeNext
<1>4. GetGuti(Head(s1ap_up[u]).id) = u /\ Checked(Head(s1ap_up[u]))
    BY <1>0, <1>s, RequestFacts DEF SessionSide
<1>5. PICK r, job :
         /\ r.w = w /\ s11_req' = s11_req \cup {r} /\ s11_rsp' = s11_rsp /\ s1ap_dn' = s1ap_dn
         /\ r.type = IF type = "detach_request" THEN "detach" ELSE "modify"
         /\ mme_job' = [mme_job EXCEPT ![w] = job] /\ job.conn = u
  <2>1. CASE type = "attach_complete"
    <3> DEFINE r == [w |-> w, type |-> "modify",
                     teid |-> [MmeCtx(u) EXCEPT !.s1_uteid_dl = Head(s1ap_up[u]).teid,
                                                !.emm_state = 1].s11_cteid_sgw,
                     mme |-> 0, imsi |-> Nil,
                     dl |-> [MmeCtx(u) EXCEPT !.s1_uteid_dl = Head(s1ap_up[u]).teid,
                                              !.emm_state = 1].s1_uteid_dl]
               job == [conn |-> u, id |-> Head(s1ap_up[u]).id, guti |-> u]
    <3>1. /\ s11_req' = s11_req \cup {r} /\ s11_rsp' = s11_rsp /\ s1ap_dn' = s1ap_dn
          /\ mme_job' = [mme_job EXCEPT ![w] = job]
      BY <1>0, <1>4, <2>1 DEF HandleAttachComplete, Block
    <3>2. r.w = w /\ r.type = "modify" /\ job.conn = u
      OBVIOUS
    <3> HIDE DEF r, job
    <3> QED
      BY <2>1, <3>1, <3>2
  <2>2. CASE type = "detach_request"
    <3> DEFINE r == [w |-> w, type |-> "detach", teid |-> MmeCtx(u).s11_cteid_sgw,
                     mme |-> 0, imsi |-> Nil, dl |-> 0]
               job == [conn |-> u, id |-> Head(s1ap_up[u]).id, guti |-> u]
    <3>1. /\ s11_req' = s11_req \cup {r} /\ s11_rsp' = s11_rsp /\ s1ap_dn' = s1ap_dn
          /\ mme_job' = [mme_job EXCEPT ![w] = job]
      BY <1>0, <1>4, <2>2 DEF HandleDetach, Block
    <3>2. r.w = w /\ r.type = "detach" /\ job.conn = u
      OBVIOUS
    <3> HIDE DEF r, job
    <3> QED
      BY <2>2, <3>1, <3>2
  <2> QED
    BY <2>1, <2>2
<1>6. /\ \A v \in Worker \ {w} : mme_job'[v] = mme_job[v]
      /\ mme_job'[w].conn = u
    BY <1>5, <1>s DEF SessionSide, UeSide, TypeInv, TypeOK, MmeTypeOK
<1>7. \A x \in UE : /\ Given(x)' <=> Given(x)
                    /\ Asked(x)' <=> Asked(x) \/ (type = "detach_request" /\ x = u)
  <2> SUFFICES ASSUME NEW x \in UE
               PROVE  /\ Given(x)' <=> Given(x)
                      /\ Asked(x)' <=> Asked(x) \/ (type = "detach_request" /\ x = u)
    OBVIOUS
  <2>1. /\ Given(x)' <=> Given(x)
        /\ Asked(x)' <=> Asked(x) \/ (r.type = "detach" /\ mme_job'[w].conn = x)
    BY <1>s, <1>1, <1>5, <1>6, CallsAsk
  <2> QED
    BY <1>5, <1>6, <2>1
<1>8. View(u)'.pc = View(u).pc /\ View(u)'.dn = View(u).dn /\ View(u)'.up = Tail(View(u).up)
    BY <1>1, <1>3, <1>5 DEF View, ranVars
<1>9. Len(Tail(View(u).up)) = Len(View(u).up) - 1 /\ Len(View(u).up) \in Nat \ {0}
    BY <1>1, <1>2, TakeFacts
<1>10. Holds(u)' <=> Holds(u)
  <2>1. CASE type = "attach_complete"
    <3>1. View(u).pc = "transfer" \/ (View(u).pc = "detach" /\ Len(View(u).up) = 2)
      BY <1>2, <2>1
    <3>2. View(u).pc = "detach" => Len(View(u).up) # 0 /\ Len(Tail(View(u).up)) # 0
      <4>1. Len(View(u).up) = 2 => Len(View(u).up) # 0 /\ Len(Tail(View(u).up)) # 0
        BY <1>9
      <4> QED
        BY <3>1, <4>1
    <3>3. Offered(View(u)) /\ Offered(View(u))'
      BY <1>8, <3>1, <3>2 DEF Offered, None
    <3> QED
      BY <1>7, <2>1, <3>3 DEF Holds
  <2>2. CASE type = "detach_request"
    <3>1. View(u).pc = "detach"
      BY <1>2, <2>2
    <3>2. Len(View(u).up) = 1
      BY <1>2, <2>2
    <3>3. Len(View(u).up) # 0
      BY <3>2
    <3>4. Offered(View(u))
      BY <3>1, <3>3 DEF Offered, None
    <3> QED
      BY <1>7, <2>2, <3>4 DEF Holds
  <2> QED
    BY <2>1, <2>2
<1> QED
    BY <1>1, <1>3, <1>5, <1>7, <1>10, OneServed

\* What a worker that goes on with a session's subscriber leaves with the others.
LEMMA BusyOthers ==
    ASSUME GwSide, NEW w \in Worker, NEW u \in UE, mme_job[w].conn = u, MmeNext(w),
           AutnInfoAnswer(w) \/ CreateSessionAnswer(w) \/ ModifyBearerAnswer(w)
           \/ DetachAnswer(w) \/ RemItfid(w) \/ RemUectx(w)
    PROVE  /\ s1ap_up' = s1ap_up /\ \A x \in UE \ {u} : s1ap_dn'[x] = s1ap_dn[x]
           /\ \A v \in Worker \ {w} : mme_job'[v] = mme_job[v]
           /\ UNCHANGED ranVars
           /\ \A x \in UE \ {u} : (Given(x)' <=> Given(x)) /\ (Asked(x)' <=> Asked(x))
           /\ \/ (Given(u)' <=> Given(u)) /\ (Asked(u)' <=> Asked(u))
              \/ CreateSessionAnswer(w)
<1>s. SessionSide /\ UNCHANGED ranVars
    BY DEF GwSide, MmeNext
<1>0. TypeInv /\ TypeOK /\ MmeTypeOK /\ SctpTypeOK
    BY <1>s DEF SessionSide, UeSide, TypeInv, TypeOK
<1>1. /\ s1ap_up' = s1ap_up
      /\ s1ap_dn' = s1ap_dn \/ \E m : SendDn(u, m)
      /\ mme_job' = mme_job \/ \E job : mme_job' = [mme_job EXCEPT ![w] = job]
      /\ s11_req' = s11_req
    BY DEF AutnInfoAnswer, CreateSessionAnswer, ModifyBearerAnswer, DetachAnswer, RemItfid,
           RemUectx, Unblock, Block, s1apVars, s11Vars
<1>2. /\ \A x \in UE \ {u} : s1ap_dn'[x] = s1ap_dn[x]
      /\ \A v \in Worker \ {w} : mme_job'[v] = mme_job[v]
    BY <1>0, <1>1 DEF SendDn, MmeTypeOK, SctpTypeOK
<1>3. CASE AutnInfoAnswer(w) \/ RemItfid(w) \/ RemUectx(w)
  <2>1. mme_pc[w] \notin SessionType /\ UNCHANGED s11Vars
    BY <1>3 DEF AutnInfoAnswer, RemItfid, RemUectx, SessionType
  <2>2. \A x \in UE : (Given(x)' <=> Given(x)) /\ (Asked(x)' <=> Asked(x))
    BY <1>s, <1>2, <2>1, CallsAlone
  <2> QED
    BY <1>s, <1>1, <1>2, <2>2
<1>4. CASE CreateSessionAnswer(w) \/ ModifyBearerAnswer(w) \/ DetachAnswer(w)
  <2>1. PICK m \in s11_rsp : m.w = w /\ s11_rsp' = s11_rsp \ {m} /\ mme_pc[w] \in SessionType
                             /\ (mme_pc[w] = "create" => CreateSessionAnswer(w))
    BY <1>4 DEF CreateSessionAnswer, ModifyBearerAnswer, DetachAnswer, RcvS11, SessionType
  <2>2. m.type = mme_pc[w]
    BY <1>s, <2>1 DEF SessionSide, UeSide, OneCall, S11Calls, S11Awaited
  <2>3. \A x \in UE : /\ Given(x) <=> Given(x)' \/ (m.type = "create" /\ mme_job[w].conn = x)
                      /\ Asked(x)' <=> Asked(x)
    BY <1>s, <1>1, <1>2, <2>1, CallsHear
  <2> QED
    BY <1>s, <1>1, <1>2, <2>1, <2>2, <2>3
<1> QED
    BY <1>3, <1>4

\* A worker that goes on gives its subscriber the session it was asked for, or
\* leaves with it what it holds.
LEMMA BusyHolds ==
    ASSUME GwSide, NEW w \in Worker, NEW u \in UE, mme_job[w].conn = u, MmeNext(w),
           AutnInfoAnswer(w) \/ CreateSessionAnswer(w) \/ ModifyBearerAnswer(w)
           \/ DetachAnswer(w) \/ RemItfid(w) \/ RemUectx(w)
    PROVE  \A x \in UE : Holds(x)' <=> Holds(x)
<1>1. /\ s1ap_up' = s1ap_up /\ \A x \in UE \ {u} : s1ap_dn'[x] = s1ap_dn[x]
      /\ UNCHANGED ranVars
      /\ \A x \in UE \ {u} : (Given(x)' <=> Given(x)) /\ (Asked(x)' <=> Asked(x))
      /\ \/ (Given(u)' <=> Given(u)) /\ (Asked(u)' <=> Asked(u))
         \/ CreateSessionAnswer(w)
    BY BusyOthers
<1>2. /\ View(u) \in Views /\ ViewOK(u, View(u)) /\ View(u).pc = ran_pc[u]
      /\ View(u).up = s1ap_up[u] /\ View(u).dn = s1ap_dn[u] /\ View(u).at.pc = mme_pc[w]
    BY BusySession DEF GwSide
<1>3. View(u)'.pc = View(u).pc /\ View(u)'.up = View(u).up /\ View(u)'.dn = s1ap_dn'[u]
    BY <1>1, <1>2 DEF View, ranVars
<1>4. Holds(u)' <=> Holds(u)
  <2>1. CASE CreateSessionAnswer(w)
    <3>1. PICK m \in s11_rsp :
             /\ RcvS11(w, "create", m)
             /\ SendDn(u, [Dn("attach_accept", mme_job[w].id) EXCEPT
                              !.mac = TRUE, !.teid = m.ul, !.ip = m.ip])
      BY <2>1 DEF CreateSessionAnswer
    <3> DEFINE a == [Dn("attach_accept", mme_job[w].id) EXCEPT !.mac = TRUE, !.teid = m.ul,
                                                              !.ip = m.ip]
    <3>2. m.w = w /\ mme_pc[w] = "create" /\ m \in S11Rsp /\ m.type = "create"
          /\ mme_job[w].id \in Nat /\ SctpTypeOK
      BY <3>1 DEF RcvS11, GwSide, SessionSide, UeSide, TypeInv, TypeOK, S11TypeOK, MmeTypeOK,
                  MmeJob, OneCall, S11Calls, S11Awaited
    <3>3. Given(u)
      BY <3>2 DEF Given
    <3>4. View(u).pc = "set_eps_session" /\ None(View(u).dn) /\ View(u).dn \in Seq(DnMsg)
      BY <1>2, <3>2 DEF ViewOK, Conversation, Cleaning, Views
    <3>5. a \in DnMsg
      BY <3>2, DnMsgType DEF Dn, DnMsg, DnType, S11Rsp
    <3>6. s1ap_dn'[u] = Append(View(u).dn, a)
      BY <1>2, <3>1, <3>2 DEF SendDn, SctpTypeOK
    <3> HIDE DEF a
    <3>7. ~None(s1ap_dn'[u])
      BY <3>4, <3>5, <3>6, SendFacts DEF None
    <3>8. Offered(View(u))'
      BY <1>3, <3>4, <3>7 DEF Offered
    <3> QED
      BY <3>3, <3>8 DEF Holds
  <2>2. CASE ~CreateSessionAnswer(w)
    <3>1. CASE ModifyBearerAnswer(w)
      <4>1. s1ap_dn' = s1ap_dn
        BY <3>1 DEF ModifyBearerAnswer, s1apVars
      <4>2. Offered(View(u))' <=> Offered(View(u))
        BY <1>2, <1>3, <4>1 DEF Offered
      <4> QED
        BY <1>1, <2>2, <4>2 DEF Holds
    <3>2. CASE ~ModifyBearerAnswer(w)
      <4>1. mme_pc[w] \in {"autn_info", "detach", "rem_itfid", "rem_uectx"}
        BY <2>2, <3>2 DEF AutnInfoAnswer, DetachAnswer, RemItfid, RemUectx, RcvS11
      <4>2. View(u).pc # "set_eps_session"
        BY <1>2, <4>1 DEF ViewOK, Conversation, Cleaning
      <4>3. Offered(View(u))' <=> Offered(View(u))
        BY <1>3, <4>2 DEF Offered
      <4> QED
        BY <1>1, <2>2, <4>3 DEF Holds
    <3> QED
      BY <3>1, <3>2
  <2> QED
    BY <2>1, <2>2
<1> QED
    BY <1>1, <1>4, OneServed

\* Every step of a worker keeps the gateways in order.
LEMMA MmeGatewaysKept == ASSUME GwSide, SessionSide', NEW w \in Worker, MmeNext(w) PROVE GwInv'
<1>1. CASE \E u \in UE : HandleInitialAttach(w, u) \/ HandleAutn(w, u)
                         \/ HandleSecurityModeComplete(w, u)
    BY <1>1, AttachHolds, MmeStill
<1>2. CASE \E u \in UE : HandleAttachComplete(w, u) \/ HandleDetach(w, u)
    BY <1>2, ReleaseHolds, MmeStill
<1>3. CASE \E u \in UE : ConnectionClosed(w, u)
  <2>1. UNCHANGED <<ranVars, s1apVars, s11Vars, mmeVars>>
    BY <1>3 DEF ConnectionClosed, MmeNext
  <2>2. \A x \in UE : Offered(View(x))' <=> Offered(View(x))
    BY <2>1, OfferedSame DEF ranVars, s1apVars
  <2>3. \A x \in UE : Holds(x)' <=> Holds(x)
    BY <2>1, <2>2 DEF Holds, Given, Asked, s11Vars, mmeVars
  <2> QED
    BY <2>3, MmeStill
<1>4. CASE AutnInfoAnswer(w) \/ CreateSessionAnswer(w) \/ ModifyBearerAnswer(w)
           \/ DetachAnswer(w) \/ RemItfid(w) \/ RemUectx(w)
  <2> DEFINE u == mme_job[w].conn
  <2>1. mme_pc[w] # "idle"
    BY <1>4 DEF AutnInfoAnswer, CreateSessionAnswer, ModifyBearerAnswer, DetachAnswer,
                RcvS11, RemItfid, RemUectx
  <2>2. u \in UE
    BY <2>1, BusyHandler DEF GwSide, SessionSide, UeSide, UeInv
  <2>3. \A x \in UE : Holds(x)' <=> Holds(x)
    BY <1>4, <2>2, BusyHolds
  <2> QED
    BY <2>3, MmeStill
<1> QED
    BY <1>1, <1>2, <1>3, <1>4 DEF MmeNext, MmeStep

\* So does every step of the acceptor and of the HSS.
LEMMA HssGatewaysKept ==
    ASSUME GwSide, AcceptNext \/ \E w \in Worker : HssNext(w)
    PROVE  GwInv'
<1>1. UNCHANGED <<s1apVars, ranVars, mmeVars, s11Vars, s5Vars, sgwVars, pgwVars, exited>>
    BY DEF AcceptNext, AcceptConnection, HssNext, HandleAutninfoReq
<1>2. \A x \in UE : Offered(View(x))' <=> Offered(View(x))
    BY <1>1, OfferedSame DEF ranVars, s1apVars
<1>3. \A x \in UE : Holds(x)' <=> Holds(x)
    BY <1>1, <1>2 DEF Holds, Given, Asked, s11Vars, mmeVars
<1>4. exited' = {} /\ \A x \in UE : Removing(x) /\ MaxRounds <= 1 => Gone(x)'
    BY <1>1 DEF GwSide, GwInv, NoExit, Gone, ranVars
<1> QED
    BY <1>1, <1>3, <1>4, GatewaysStill

-----------------------------------------------------------------------------
(* The SGW.                                                                *)

\* A subscriber has a session if it has been offered one, and both sides of the
\* S11 interface know that; a step of a gateway does not change the offer.
LEMMA GatewayOffers ==
    ASSUME UNCHANGED <<s1apVars, ranVars>>, NEW x \in UE
    PROVE  Offered(View(x))' <=> Offered(View(x))
BY OfferedSame DEF s1apVars, ranVars

\* Between SGW and PGW a session is held while the SGW thread that works on the
\* subscriber has yet to be answered, or has yet to ask.
LEMMA PgwHoldsAt ==
    SessionSide =>
        /\ \A u \in UE, t \in S11Threads : SgwOn(u) = {t} =>
              (PgwHolds(u) <=> \/ sgw_pc[t] \in {"modify_ctx", "detach_ctx"}
                               \/ sgw_pc[t] = "create" /\ PgwGiven(u)
                               \/ sgw_pc[t] = "detach" /\ PgwAsked(u))
        /\ \A u \in UE : SgwOn(u) = {} => (PgwHolds(u) <=> Holds(u))
<1> SUFFICES ASSUME SessionSide, NEW u \in UE
             PROVE  /\ \A t \in S11Threads : SgwOn(u) = {t} =>
                          (PgwHolds(u) <=> \/ sgw_pc[t] \in {"modify_ctx", "detach_ctx"}
                                           \/ sgw_pc[t] = "create" /\ PgwGiven(u)
                                           \/ sgw_pc[t] = "detach" /\ PgwAsked(u))
                    /\ SgwOn(u) = {} => (PgwHolds(u) <=> Holds(u))
    OBVIOUS
<1>1. \A m \in s5_req \cup s5_rsp : m.t \in S11Threads /\ sgw_pc[m.t] = m.type
    BY Callers DEF SessionSide, UeSide, OneCall, S5Calls, S5Awaited
<1>2. /\ PgwGiven(u) => \E t \in SgwOn(u) : sgw_pc[t] = "create"
      /\ PgwAsked(u) => \E t \in SgwOn(u) : sgw_pc[t] = "detach"
    BY <1>1 DEF PgwGiven, PgwAsked, SgwOn
<1>3. ASSUME NEW t \in S11Threads, SgwOn(u) = {t}
      PROVE  PgwHolds(u) <=> \/ sgw_pc[t] \in {"modify_ctx", "detach_ctx"}
                             \/ sgw_pc[t] = "create" /\ PgwGiven(u)
                             \/ sgw_pc[t] = "detach" /\ PgwAsked(u)
    BY <1>2, <1>3 DEF PgwHolds
<1>4. SgwOn(u) = {} => (PgwHolds(u) <=> Holds(u))
    BY <1>2 DEF PgwHolds
<1> QED
    BY <1>3, <1>4

\* The same of the next state.
LEMMA PgwHoldsAtNext ==
    SessionSide' =>
       (/\ \A u \in UE, t \in S11Threads : SgwOn(u) = {t} =>
              (PgwHolds(u) <=> \/ sgw_pc[t] \in {"modify_ctx", "detach_ctx"}
                               \/ sgw_pc[t] = "create" /\ PgwGiven(u)
                               \/ sgw_pc[t] = "detach" /\ PgwAsked(u))
        /\ \A u \in UE : SgwOn(u) = {} => (PgwHolds(u) <=> Holds(u)))'
BY PgwHoldsAt, PTL

\* A step of an SGW thread that concerns one subscriber only.
SgwTouches(t, u) ==
    /\ UNCHANGED <<s1apVars, connVars, ranVars, mmeVars, s6aVars, pgwVars, exited>>
    /\ \A s \in S11Threads \ {t} :
          sgw_pc'[s] = sgw_pc[s] /\ sgw_itf'[s] = sgw_itf[s] /\ sgw_job'[s] = sgw_job[s]
    /\ sgw_job[t].imsi \in {u, Nil} /\ sgw_job'[t].imsi \in {u, Nil}
    /\ \A x \in UE \ {u} : sgw_ctx'[x] = sgw_ctx[x]
    /\ \A x \in UE \ {u}, i \in Itf : sgw_id'[i][Tunnel(x)] = sgw_id[i][Tunnel(x)]
    /\ \A m : mme_job[m.w].conn # u =>
          (m \in s11_req' <=> m \in s11_req) /\ (m \in s11_rsp' <=> m \in s11_rsp)
    /\ \A m : m.t # t => (m \in s5_req' <=> m \in s5_req) /\ (m \in s5_rsp' <=> m \in s5_rsp)

\* The other subscribers do not notice.
LEMMA SgwOthers ==
    ASSUME GwSide, NEW t \in S11Threads, NEW u \in UE, SgwTouches(t, u), NEW x \in UE, x # u
    PROVE  SgwOK(x)' /\ PgwOK(x)'
<1>1. /\ UNCHANGED <<s1apVars, ranVars, mmeVars, pgwVars>>
      /\ \A s \in S11Threads \ {t} :
            sgw_pc'[s] = sgw_pc[s] /\ sgw_itf'[s] = sgw_itf[s] /\ sgw_job'[s] = sgw_job[s]
      /\ sgw_job[t].imsi # x /\ sgw_job'[t].imsi # x
      /\ sgw_ctx'[x] = sgw_ctx[x]
      /\ \A i \in Itf : sgw_id'[i][Tunnel(x)] = sgw_id[i][Tunnel(x)]
    BY UEFacts DEF SgwTouches
<1>2. SgwOn(x)' = SgwOn(x) /\ t \notin SgwOn(x) /\ SgwOn(x) \subseteq S11Threads
    BY <1>1 DEF SgwOn
<1>3. SgwIn(x)' = SgwIn(x)
    BY <1>1 DEF SgwIn
<1>4. Holds(x)' <=> Holds(x)
  <2>1. (Given(x)' <=> Given(x)) /\ (Asked(x)' <=> Asked(x))
    BY <1>1 DEF Given, Asked, SgwTouches, mmeVars
  <2>2. Offered(View(x))' <=> Offered(View(x))
    BY <1>1, GatewayOffers
  <2> QED
    BY <2>1, <2>2 DEF Holds
<1>5. \A s \in SgwOn(x) : SgwStage(x, SgwView(x, s))' <=> SgwStage(x, SgwView(x, s))
    BY <1>1, <1>2, <1>3, <1>4 DEF SgwStage, SgwView
<1>6. SgwRest(x)' <=> SgwRest(x)
    BY <1>1, <1>3, <1>4 DEF SgwRest
<1>7. SgwOK(x)'
    BY <1>2, <1>5, <1>6 DEF SgwOK, GwSide, GwInv
<1>8. PgwHolds(x)' <=> PgwHolds(x)
  <2>1. (PgwGiven(x)' <=> PgwGiven(x)) /\ (PgwAsked(x)' <=> PgwAsked(x))
    <3>1. \A m : m.t = t => sgw_job'[m.t].imsi # x /\ sgw_job[m.t].imsi # x
      BY <1>1
    <3>2. \A m \in s5_req \cup s5_rsp : m.t \in S11Threads
      BY Callers DEF GwSide, SessionSide, UeSide
    <3>3. \A m : m.t # t => (m \in s5_req' <=> m \in s5_req) /\ (m \in s5_rsp' <=> m \in s5_rsp)
      BY DEF SgwTouches
    <3> QED
      BY <1>1, <3>1, <3>2, <3>3 DEF PgwGiven, PgwAsked
  <2> QED
    BY <1>1, <1>2, <1>4, <2>1 DEF PgwHolds
<1>9. PgwOK(x)'
    BY <1>1, <1>8, PgwSame DEF GwSide, GwInv
<1> QED
    BY <1>7, <1>9

\* What a step of an SGW thread has to show for the subscriber it concerns.
LEMMA SgwKept ==
    ASSUME GwSide, NEW t \in S11Threads, NEW u \in UE, SgwTouches(t, u), SgwOK(u)',
           PgwHolds(u)' <=> PgwHolds(u),
           sgw_pc[t] = "detach" => sgw_job'[t].imsi = sgw_job[t].imsi,
           \A m \in s5_req' : m \in s5_req \/ m.type = "create"
                                \/ m.teid = Tunnel(sgw_job'[m.t].imsi),
           sgw_pc'[t] \in {"rem_itfid", "rem_uectx"} =>
              sgw_pc[t] \in {"rem_itfid", "rem_uectx"} \/ ran_pc[u] = "detach"
    PROVE  GwInv'
<1>s. SessionSide /\ GwInv
    BY DEF GwSide
<1>0. /\ UNCHANGED <<ranVars, pgwVars, exited>>
      /\ \A s \in S11Threads \ {t} :
            sgw_pc'[s] = sgw_pc[s] /\ sgw_itf'[s] = sgw_itf[s] /\ sgw_job'[s] = sgw_job[s]
      /\ sgw_job[t].imsi \in {u, Nil} /\ sgw_job'[t].imsi \in {u, Nil}
    BY DEF SgwTouches
<1>1. \A x \in UE : SgwOK(x)'
    BY SgwOthers
<1>2. \A x \in UE : PgwOK(x)'
  <2>1. PgwOK(u)'
    BY <1>0, <1>s, PgwSame DEF GwInv
  <2> QED
    BY <2>1, SgwOthers
<1>3. DetachesOK'
  <2>1. /\ \A m \in s5_req : m.t \in S11Threads /\ sgw_pc[m.t] = m.type
        /\ \A p \in PgwThreads : PgwOwes(pgw_pc[p]) = "detach" =>
              pgw_job[p].src \in S11Threads /\ sgw_pc[pgw_job[p].src] = "detach"
    BY <1>s, Callers DEF SessionSide, UeSide, OneCall, S5Calls, S5Awaited
  <2>2. \A s \in S11Threads : sgw_pc[s] = "detach" => sgw_job'[s].imsi = sgw_job[s].imsi
    BY <1>0
  <2>3. \A m \in s5_req' : m.type = "detach" => m.teid = Tunnel(sgw_job'[m.t].imsi)
    BY <1>s, <2>1, <2>2 DEF GwInv, DetachesOK
  <2>4. \A p \in PgwThreads :
           PgwOwes(pgw_pc[p]) = "detach" => sgw_job'[pgw_job[p].src].imsi = pgw_job[p].imsi
    BY <1>s, <2>1, <2>2 DEF GwInv, DetachesOK
  <2> QED
    BY <1>0, <2>3, <2>4 DEF DetachesOK, pgwVars, Tunnel
<1>4. ASSUME MaxRounds <= 1, NEW x \in UE, Removing(x)' PROVE Gone(x)'
  <2>1. PgwOn(x)' = PgwOn(x) /\ pgw_pc' = pgw_pc /\ (Gone(x)' <=> Gone(x))
    BY <1>0 DEF PgwOn, pgwVars, ranVars, Gone
  <2>2. Removing(x) => Gone(x)
    BY <1>s, <1>4 DEF GwInv
  <2>3. CASE \E p \in PgwOn(x)' : pgw_pc'[p] \in {"rem_s5", "rem_sgi", "rem_uectx"}
    BY <2>1, <2>2, <2>3 DEF Removing
  <2>4. CASE \E s \in SgwOn(x)' : sgw_pc'[s] \in {"rem_itfid", "rem_uectx"}
    <3>1. PICK s \in S11Threads : sgw_job'[s].imsi = x /\ sgw_pc'[s] \in {"rem_itfid", "rem_uectx"}
      BY <2>4 DEF SgwOn
    <3>2. CASE s # t
      BY <1>0, <2>1, <2>2, <3>1, <3>2 DEF Removing, SgwOn
    <3>3. CASE s = t
      <4>1. x = u
        BY <1>0, <3>1, <3>3, UEFacts
      <4>2. CASE ran_pc[u] = "detach"
        BY <2>1, <4>1, <4>2 DEF Gone
      <4>3. CASE sgw_pc[t] \in {"rem_itfid", "rem_uectx"}
        <5>1. sgw_job[t].imsi \in UE
          BY <1>s, <4>3 DEF SessionSide, UeSide, TypeInv, SgwJobsOK
        <5>2. t \in SgwOn(x)
          BY <1>0, <4>1, <5>1, UEFacts DEF SgwOn
        <5> QED
          BY <2>1, <2>2, <4>3, <5>2 DEF Removing
      <4> QED
        BY <3>1, <3>3, <4>2, <4>3
    <3> QED
      BY <3>2, <3>3
  <2> QED
    BY <1>4, <2>3, <2>4 DEF Removing
<1>5. NoExit'
    BY <1>0, <1>s DEF GwInv, NoExit
<1> QED
    BY <1>1, <1>2, <1>3, <1>4, <1>5 DEF GwInv

\* A thread that works on a subscriber is the only one, and finds what it left.
LEMMA SgwWorking ==
    ASSUME GwSide, NEW t \in S11Threads, sgw_pc[t] # "idle"
    PROVE  LET u == sgw_job[t].imsi
           IN  u \in UE /\ SgwOn(u) = {t} /\ SgwStage(u, SgwView(u, t))
<1> DEFINE u == sgw_job[t].imsi
<1>1. u \in UE
    BY DEF GwSide, SessionSide, UeSide, TypeInv, SgwJobsOK
<1>2. t \in SgwOn(u) /\ SgwOK(u)
    BY <1>1 DEF SgwOn, GwSide, GwInv
<1> QED
    BY <1>1, <1>2 DEF SgwOK

\* Where it goes on, the next thing to find is in place.
LEMMA SgwMoved ==
    ASSUME NEW t \in S11Threads, NEW u \in UE, SgwOn(u)' = {t}, SgwStage(u, SgwView(u, t))'
    PROVE  SgwOK(u)'
BY DEF SgwOK

\* Where it is done, all or nothing is left.
LEMMA SgwDone ==
    ASSUME NEW t \in S11Threads, NEW u \in UE, SgwOn(u)' = {}, SgwRest(u)'
    PROVE  SgwOK(u)'
BY DEF SgwOK

\* A thread that keeps, takes or leaves its subscriber.
LEMMA SgwOnNext ==
    ASSUME SessionSide, NEW t \in S11Threads, NEW u \in UE, SgwOn(u) \subseteq {t},
           \A s \in S11Threads \ {t} : sgw_job'[s] = sgw_job[s]
    PROVE  SgwOn(u)' = IF sgw_job'[t].imsi = u THEN {t} ELSE {}
<1>1. \A s \in S11Threads \ {t} : sgw_job'[s].imsi # u
    BY DEF SgwOn
<1> QED
    BY <1>1 DEF SgwOn

\* One round of a loop over the interfaces.
LEMMA Looping ==
    ASSUME NEW itf, NEW done, Looped(itf, done)
    PROVE  /\ itf \in Seq(Itf) /\ itf # <<>> /\ Head(itf) \in Itf \ done /\ done \subseteq Itf
           /\ IF Len(itf) = 1 THEN done \cup {Head(itf)} = Itf
              ELSE Looped(Tail(itf), done \cup {Head(itf)})
<1>1. CASE itf = <<11, 1, 5>> /\ done = {}
    BY <1>1 DEF Looped, Itf
<1>2. CASE itf = <<1, 5>> /\ done = {11}
    BY <1>2 DEF Looped, Itf
<1>3. CASE itf = <<5>> /\ done = {11, 1}
    BY <1>3 DEF Looped, Itf
<1> QED
    BY <1>1, <1>2, <1>3 DEF Looped

\* No thread works on the subscriber of a request that is taken: what it asks for
\* is what the SGW has.
LEMMA FreeToTake ==
    ASSUME Serialised, GwSide, NEW t \in S11Threads, sgw_pc[t] = "idle", NEW m \in s11_req
    PROVE  LET u == mme_job[m.w].conn
           IN  /\ u \in UE /\ m \in S11Req /\ m.w \in Worker /\ S11RequestOK(m, u)
               /\ SgwOn(u) = {}
               /\ SgwRest(u)
<1> DEFINE u == mme_job[m.w].conn
<1>s. SessionSide /\ GwInv
    BY DEF GwSide
<1>1. /\ u \in UE
      /\ m.type = "create" => ~Holds(u) /\ ran_pc[u] = "set_eps_session"
      /\ m.type \in {"modify", "detach"} => Holds(u)
    BY <1>s, RequestHolds
<1>2. m \in S11Req /\ m.w \in Worker /\ S11RequestOK(m, u) /\ m.type \in SessionType
    BY <1>s, RequestSession DEF S11Req
<1>3. SgwOK(u) /\ (MaxRounds <= 1 => (Removing(u) => Gone(u)))
    BY <1>1, <1>s DEF GwInv
<1>4. ASSUME NEW s \in SgwOn(u) PROVE FALSE
  <2>1. s \in S11Threads /\ sgw_job[s].imsi = u
    BY <1>4 DEF SgwOn
  <2>2. SgwOwes(sgw_pc[s]) = "none"
    BY <1>s, <2>1, ThreadHolds
  <2>3. SgwStage(u, SgwView(u, s))
    BY <1>3, <1>4 DEF SgwOK
  <2>4. sgw_pc[s] \in {"rem_itfid", "rem_uectx"} /\ ~Holds(u)
    BY <2>2, <2>3 DEF SgwStage, SgwView, SgwOwes
  <2>5. Removing(u)
    BY <1>4, <2>4 DEF Removing
  <2>6. s # t
    BY <2>4
  <2> QED
    BY <1>1, <1>2, <1>3, <2>1, <2>4, <2>5, <2>6 DEF Serialised, Single, Gone, SessionType
<1>5. SgwOn(u) = {}
    BY <1>4
<1> QED
    BY <1>1, <1>2, <1>3, <1>5 DEF SgwOK

\* A create is taken.
LEMMA SgwCreateSessionKept ==
    ASSUME Serialised, GwSide, SessionSide', NEW t \in S11Threads, SgwNext(t),
           SgwCreateSession(t)
    PROVE  GwInv'
<1>s. SessionSide /\ SessionSide'
    BY DEF GwSide
<1>0. SgwTypeOK /\ sgw_pc[t] = "idle" /\ sgw_job[t].imsi = Nil
  <2>1. SgwTypeOK /\ SgwLocalsOK
    BY <1>s DEF SessionSide, UeSide, TypeInv, TypeOK, SessionInv
  <2> QED
    BY <2>1 DEF SgwCreateSession, SgwReceive, SgwAt, SgwLocalsOK, SgwLocalOK, NoSgwJob
<1>1. PICK m \in s11_req :
         /\ m.type = "create" /\ s11_req' = s11_req \ {m}
         /\ sgw_job' = [sgw_job EXCEPT ![t] =
               [src |-> m.w, imsi |-> m.imsi, cteid |-> m.mme, dl |-> 0,
                teid |-> [i \in Itf |-> m.mme]]]
    BY DEF SgwCreateSession, SgwReceive
<1>2. PICK u \in UE :
         /\ u = mme_job[m.w].conn /\ m.imsi = u /\ m.mme = Tunnel(u)
         /\ SgwOn(u) = {} /\ SgwRest(u) /\ ~Holds(u)
  <2> DEFINE u == mme_job[m.w].conn
  <2>1. u \in UE /\ S11RequestOK(m, u) /\ SgwOn(u) = {} /\ SgwRest(u)
    BY <1>0, FreeToTake
  <2>2. ~Holds(u)
    BY <1>1, <1>s, RequestHolds
  <2> QED
    BY <1>1, <2>1, <2>2 DEF S11RequestOK
<1>3. /\ \A s \in S11Threads \ {t} :
            sgw_pc'[s] = sgw_pc[s] /\ sgw_itf'[s] = sgw_itf[s] /\ sgw_job'[s] = sgw_job[s]
      /\ sgw_pc'[t] = "update_itfid" /\ sgw_itf'[t] = <<11, 1, 5>>
      /\ sgw_job'[t].imsi = u
      /\ UNCHANGED <<sgw_id, sgw_ctx, s11_rsp, s5Vars, exited>>
      /\ UNCHANGED <<s1apVars, connVars, ranVars, mmeVars, s6aVars, pgwVars>>
    BY <1>0, <1>1, <1>2 DEF SgwCreateSession, SgwNext, SgwGoto, ItfUpdates, SgwTypeOK
<1>4. SgwTouches(t, u)
    BY <1>0, <1>1, <1>2, <1>3 DEF SgwTouches, s5Vars
<1>5. SgwOn(u)' = {t}
    BY <1>2, <1>3, <1>s, SgwOnNext
<1>6. ~Holds(u)'
  <2>1. Offered(View(u))' <=> Offered(View(u))
    BY <1>2, <1>3, GatewayOffers
  <2>2. (Given(u)' <=> Given(u)) /\ (Asked(u)' => Asked(u))
    BY <1>1, <1>2, <1>3 DEF Given, Asked, mmeVars
  <2> QED
    BY <1>2, <2>1, <2>2 DEF Holds
<1>7. SgwOK(u)'
  <2>1. SgwIn(u)' = {} /\ sgw_ctx'[u] = Nil
    BY <1>2, <1>3 DEF SgwIn, SgwRest
  <2>2. SgwStage(u, SgwView(u, t))'
    BY <1>3, <1>6, <2>1 DEF SgwStage, SgwView, Looped
  <2> QED
    BY <1>2, <1>5, <2>2, SgwMoved
<1>8. PgwHolds(u)' <=> PgwHolds(u)
  <2>1. ~PgwHolds(u)
    BY <1>2, <1>s, PgwHoldsAt
  <2>2. ~PgwHolds(u)'
    BY <1>2, <1>3, <1>5, <1>s, PgwHoldsAtNext
  <2> QED
    BY <2>1, <2>2
<1>9. s5_req' = s5_req
    BY <1>3 DEF s5Vars
<1> QED
    BY <1>0, <1>2, <1>3, <1>4, <1>7, <1>8, <1>9, SgwKept

\* A step of a gateway that neither takes a request nor answers one leaves the
\* sessions with who holds them; an answer to a create gives one.
LEMMA GatewayHolds ==
    ASSUME UNCHANGED <<s1apVars, ranVars, mmeVars>>, NEW u \in UE, s11_req' = s11_req
    PROVE  /\ s11_rsp' = s11_rsp => (Holds(u)' <=> Holds(u))
           /\ \A r : s11_rsp' = s11_rsp \cup {r} =>
                 (Holds(u)' <=> Holds(u) \/ (r.type = "create" /\ mme_job[r.w].conn = u))
<1>1. Offered(View(u))' <=> Offered(View(u))
    BY GatewayOffers
<1>2. mme_job' = mme_job
    BY DEF mmeVars
<1> QED
    BY <1>1, <1>2 DEF Holds, Given, Asked

\* One round of either loop moves its thread only.
LEMMA LoopMoves ==
    ASSUME SgwTypeOK, NEW t \in S11Threads, NEW next, NextItf(t, next)
    PROVE  /\ \A s \in S11Threads \ {t} : sgw_pc'[s] = sgw_pc[s] /\ sgw_itf'[s] = sgw_itf[s]
           /\ sgw_itf'[t] = Tail(sgw_itf[t])
           /\ sgw_pc'[t] = IF Len(sgw_itf[t]) = 1 THEN next ELSE sgw_pc[t]
BY DEF NextItf, SgwTypeOK

\* An identifier is entered.
LEMMA SgwUpdateItfidKept ==
    ASSUME GwSide, SessionSide', NEW t \in S11Threads, SgwNext(t), SgwUpdateItfid(t)
    PROVE  GwInv'
<1>s. SessionSide /\ SessionSide' /\ SgwTypeOK
    BY DEF GwSide, SessionSide, UeSide, TypeInv, TypeOK
<1>0. sgw_pc[t] = "update_itfid"
    BY DEF SgwUpdateItfid, SgwAt
<1>1. PICK u \in UE : u = sgw_job[t].imsi /\ SgwOn(u) = {t} /\ SgwStage(u, SgwView(u, t))
    BY <1>0, SgwWorking
<1> DEFINE i == Head(sgw_itf[t])
<1>2. Looped(sgw_itf[t], SgwIn(u)) /\ sgw_ctx[u] = Nil /\ ~Holds(u)
    BY <1>0, <1>1 DEF SgwStage, SgwView
<1>3. i \in Itf \ SgwIn(u) /\ Tunnel(u) \in Teid
    BY <1>2, Looping, TunnelFacts
<1>4. sgw_job[t].teid[i] = Tunnel(u)
  <2>1. sgw_job[t].teid = Tunnels(u)
    BY <1>0, <1>1, <1>s DEF SessionSide, SessionInv, SgwLocalsOK, SgwLocalOK, SgwOwes
  <2> QED
    BY <1>3, <2>1 DEF Tunnels
<1>5. /\ \A s \in S11Threads \ {t} : sgw_pc'[s] = sgw_pc[s] /\ sgw_itf'[s] = sgw_itf[s]
      /\ sgw_itf'[t] = Tail(sgw_itf[t])
      /\ sgw_pc'[t] = IF Len(sgw_itf[t]) = 1 THEN "init_ctx" ELSE "update_itfid"
  <2>1. NextItf(t, "init_ctx")
    BY DEF SgwUpdateItfid
  <2> QED
    BY <1>0, <1>s, <2>1, LoopMoves
<1>6. /\ UNCHANGED <<sgw_ctx, sgw_job, s11_req, s11_rsp, s5_req, s5_rsp, exited>>
      /\ UNCHANGED <<s1apVars, connVars, ranVars, mmeVars, s6aVars, pgwVars>>
    BY DEF SgwUpdateItfid, SgwNext, s11Vars, s5Vars
<1>7. \A j \in Itf, x \in Teid :
         sgw_id'[j][x] = IF j = i /\ x = Tunnel(u) THEN u ELSE sgw_id[j][x]
  <2>1. sgw_id' = [sgw_id EXCEPT ![i][Tunnel(u)] = u]
    BY <1>1, <1>4 DEF SgwUpdateItfid
  <2> HIDE DEF i
  <2> QED
    BY <1>s, <2>1 DEF SgwTypeOK
<1>8. SgwTouches(t, u)
  <2>1. \A x \in UE \ {u}, j \in Itf : sgw_id'[j][Tunnel(x)] = sgw_id[j][Tunnel(x)]
    BY <1>7, TunnelFacts
  <2> QED
    BY <1>1, <1>5, <1>6, <2>1 DEF SgwTouches
<1>9. SgwIn(u)' = SgwIn(u) \cup {i}
  <2> HIDE DEF i
  <2> QED
    BY <1>3, <1>7 DEF SgwIn
<1>10. SgwOn(u)' = {t} /\ ~Holds(u)'
    BY <1>1, <1>2, <1>6, GatewayHolds DEF SgwOn
<1>11. SgwOK(u)'
  <2>1. IF Len(sgw_itf[t]) = 1 THEN SgwIn(u)' = Itf ELSE Looped(sgw_itf'[t], SgwIn(u)')
    <3>1. IF Len(sgw_itf[t]) = 1 THEN SgwIn(u) \cup {i} = Itf
          ELSE Looped(Tail(sgw_itf[t]), SgwIn(u) \cup {i})
      BY <1>2, Looping
    <3> HIDE DEF i
    <3> QED
      BY <1>5, <1>9, <3>1
  <2>2. SgwStage(u, SgwView(u, t))'
    BY <1>2, <1>5, <1>6, <1>10, <2>1 DEF SgwStage, SgwView
  <2> QED
    BY <1>10, <2>2, SgwMoved
<1>12. ~PgwHolds(u) /\ ~PgwHolds(u)'
  <2>1. ~PgwHolds(u)
    BY <1>0, <1>1, <1>s, PgwHoldsAt
  <2>2. ~PgwHolds(u)'
    BY <1>5, <1>10, <1>s, PgwHoldsAtNext
  <2> QED
    BY <2>1, <2>2
<1> QED
    BY <1>0, <1>5, <1>6, <1>8, <1>11, <1>12, SgwKept

\* An identifier is removed.
LEMMA SgwRemItfidKept ==
    ASSUME GwSide, SessionSide', NEW t \in S11Threads, SgwNext(t), SgwRemItfid(t)
    PROVE  GwInv'
<1>s. SessionSide /\ SessionSide' /\ SgwTypeOK
    BY DEF GwSide, SessionSide, UeSide, TypeInv, TypeOK
<1>0. sgw_pc[t] = "rem_itfid"
    BY DEF SgwRemItfid, SgwAt
<1>1. PICK u \in UE : u = sgw_job[t].imsi /\ SgwOn(u) = {t} /\ SgwStage(u, SgwView(u, t))
    BY <1>0, SgwWorking
<1> DEFINE i == Head(sgw_itf[t])
<1>2. /\ Looped(sgw_itf[t], Itf \ SgwIn(u)) /\ sgw_ctx[u] # Nil /\ ~Holds(u)
      /\ sgw_job[t].teid = Tunnels(u)
    BY <1>0, <1>1 DEF SgwStage, SgwView
<1>3. i \in Itf /\ Tunnel(u) \in Teid
    BY <1>2, Looping, TunnelFacts
<1>4. sgw_job[t].teid[i] = Tunnel(u)
    BY <1>2, <1>3 DEF Tunnels
<1>5. /\ \A s \in S11Threads \ {t} : sgw_pc'[s] = sgw_pc[s] /\ sgw_itf'[s] = sgw_itf[s]
      /\ sgw_itf'[t] = Tail(sgw_itf[t])
      /\ sgw_pc'[t] = IF Len(sgw_itf[t]) = 1 THEN "rem_uectx" ELSE "rem_itfid"
  <2>1. NextItf(t, "rem_uectx")
    BY DEF SgwRemItfid
  <2> QED
    BY <1>0, <1>s, <2>1, LoopMoves
<1>6. /\ UNCHANGED <<sgw_ctx, sgw_job, s11_req, s11_rsp, s5_req, s5_rsp, exited>>
      /\ UNCHANGED <<s1apVars, connVars, ranVars, mmeVars, s6aVars, pgwVars>>
    BY DEF SgwRemItfid, SgwNext, s11Vars, s5Vars
<1>7. \A j \in Itf, x \in Teid :
         sgw_id'[j][x] = IF j = i /\ x = Tunnel(u) THEN Nil ELSE sgw_id[j][x]
  <2>1. sgw_id' = [sgw_id EXCEPT ![i][Tunnel(u)] = Nil]
    BY <1>1, <1>4 DEF SgwRemItfid
  <2> HIDE DEF i
  <2> QED
    BY <1>s, <2>1 DEF SgwTypeOK
<1>8. SgwTouches(t, u)
  <2>1. \A x \in UE \ {u}, j \in Itf : sgw_id'[j][Tunnel(x)] = sgw_id[j][Tunnel(x)]
    BY <1>7, TunnelFacts
  <2> QED
    BY <1>1, <1>5, <1>6, <2>1 DEF SgwTouches
<1>9. Itf \ SgwIn(u)' = (Itf \ SgwIn(u)) \cup {i} /\ SgwIn(u)' \subseteq Itf
  <2>1. SgwIn(u)' = SgwIn(u) \ {i}
    <3> HIDE DEF i
    <3> QED
      BY <1>3, <1>7, UEFacts DEF SgwIn
  <2>2. SgwIn(u) \subseteq Itf
    BY DEF SgwIn
  <2> HIDE DEF i
  <2> QED
    BY <1>3, <2>1, <2>2
<1>10. SgwOn(u)' = {t} /\ ~Holds(u)'
    BY <1>1, <1>2, <1>6, GatewayHolds DEF SgwOn
<1>11. SgwOK(u)'
  <2>1. IF Len(sgw_itf[t]) = 1 THEN Itf \ SgwIn(u)' = Itf
        ELSE Looped(sgw_itf'[t], Itf \ SgwIn(u)')
    <3>1. IF Len(sgw_itf[t]) = 1 THEN (Itf \ SgwIn(u)) \cup {i} = Itf
          ELSE Looped(Tail(sgw_itf[t]), (Itf \ SgwIn(u)) \cup {i})
      BY <1>2, Looping
    <3> HIDE DEF i
    <3> QED
      BY <1>5, <1>9, <3>1
  <2>2. Len(sgw_itf[t]) = 1 => SgwIn(u)' = {}
    BY <1>9, <2>1
  <2>3. SgwStage(u, SgwView(u, t))'
    BY <1>2, <1>5, <1>6, <1>10, <2>1, <2>2 DEF SgwStage, SgwView
  <2> QED
    BY <1>10, <2>3, SgwMoved
<1>12. ~PgwHolds(u) /\ ~PgwHolds(u)'
  <2>1. ~PgwHolds(u)
    BY <1>0, <1>1, <1>s, PgwHoldsAt
  <2>2. ~PgwHolds(u)'
    BY <1>5, <1>10, <1>s, PgwHoldsAtNext
  <2> QED
    BY <2>1, <2>2
<1> QED
    BY <1>0, <1>5, <1>6, <1>8, <1>11, <1>12, SgwKept

\* The last removal.
LEMMA SgwRemUectxKept ==
    ASSUME GwSide, SessionSide', NEW t \in S11Threads, SgwNext(t), SgwRemUectx(t)
    PROVE  GwInv'
<1>s. SessionSide /\ SessionSide' /\ SgwTypeOK
    BY DEF GwSide, SessionSide, UeSide, TypeInv, TypeOK
<1>0. sgw_pc[t] = "rem_uectx"
    BY DEF SgwRemUectx, SgwAt
<1>1. PICK u \in UE : u = sgw_job[t].imsi /\ SgwOn(u) = {t} /\ SgwStage(u, SgwView(u, t))
    BY <1>0, SgwWorking
<1>2. SgwIn(u) = {} /\ ~Holds(u)
    BY <1>0, <1>1 DEF SgwStage, SgwView
<1>3. /\ \A s \in S11Threads \ {t} : sgw_pc'[s] = sgw_pc[s] /\ sgw_job'[s] = sgw_job[s]
      /\ sgw_pc'[t] = "idle" /\ sgw_job'[t].imsi = Nil
      /\ \A x \in UE \ {u} : sgw_ctx'[x] = sgw_ctx[x]
      /\ sgw_ctx'[u] = Nil
      /\ UNCHANGED <<sgw_id, sgw_itf, s11_req, s11_rsp, s5_req, s5_rsp, exited>>
      /\ UNCHANGED <<s1apVars, connVars, ranVars, mmeVars, s6aVars, pgwVars>>
    BY <1>1, <1>s DEF SgwRemUectx, SgwNext, SgwGoto, SgwTypeOK, NoSgwJob, s11Vars, s5Vars
<1>4. SgwTouches(t, u)
    BY <1>1, <1>3 DEF SgwTouches
<1>5. SgwOn(u)' = {}
    BY <1>1, <1>3, <1>s, SgwOnNext, UEFacts
<1>6. ~Holds(u)'
    BY <1>2, <1>3, GatewayHolds
<1>7. SgwOK(u)'
  <2>1. SgwIn(u)' = {}
    BY <1>2, <1>3 DEF SgwIn
  <2>2. SgwRest(u)'
    BY <1>3, <1>6, <2>1 DEF SgwRest
  <2> QED
    BY <1>5, <2>2, SgwDone
<1>8. ~PgwHolds(u) /\ ~PgwHolds(u)'
  <2>1. ~PgwHolds(u)
    BY <1>0, <1>1, <1>s, PgwHoldsAt
  <2>2. ~PgwHolds(u)'
    BY <1>5, <1>6, <1>s, PgwHoldsAtNext
  <2> QED
    BY <2>1, <2>2
<1> QED
    BY <1>0, <1>3, <1>4, <1>7, <1>8, SgwKept

\* The context is initialised, and the PGW is asked.
LEMMA SgwInitCtxKept ==
    ASSUME GwSide, SessionSide', NEW t \in S11Threads, SgwNext(t), SgwInitCtx(t)
    PROVE  GwInv'
<1>s. SessionSide /\ SessionSide' /\ SgwTypeOK
    BY DEF GwSide, SessionSide, UeSide, TypeInv, TypeOK
<1>0. sgw_pc[t] = "init_ctx"
    BY DEF SgwInitCtx, SgwAt
<1>1. PICK u \in UE : u = sgw_job[t].imsi /\ SgwOn(u) = {t} /\ SgwStage(u, SgwView(u, t))
    BY <1>0, SgwWorking
<1>2. SgwIn(u) = Itf /\ sgw_ctx[u] = Nil /\ ~Holds(u)
    BY <1>0, <1>1 DEF SgwStage, SgwView
<1> DEFINE job == sgw_job[t]
           r   == [t |-> t, type |-> "create", teid |-> job.teid[5], imsi |-> job.imsi]
           c   == [NewSgwContext EXCEPT !.s11_cteid_mme = job.cteid,
                                        !.s11_cteid_sgw = job.teid[11],
                                        !.s1_uteid_ul = job.teid[1],
                                        !.s5_uteid_dl = job.teid[5],
                                        !.pgw = TRUE]
<1>3. /\ \A s \in S11Threads \ {t} : sgw_pc'[s] = sgw_pc[s]
      /\ sgw_pc'[t] = "create"
      /\ sgw_ctx' = [sgw_ctx EXCEPT ![u] = c]
      /\ s5_req' = s5_req \cup {r}
      /\ UNCHANGED <<sgw_id, sgw_itf, sgw_job, s11_req, s11_rsp, s5_rsp, exited>>
      /\ UNCHANGED <<s1apVars, connVars, ranVars, mmeVars, s6aVars, pgwVars>>
    BY <1>1, <1>2, <1>s DEF SgwInitCtx, SgwNext, SgwGoto, SgwTypeOK, SgwCtx, s11Vars
<1>4. r.t = t /\ r.type = "create"
    OBVIOUS
<1>5. SgwHalf(u, c)
  <2>1. job.teid = Tunnels(u)
    BY <1>0, <1>1, <1>s DEF SessionSide, SessionInv, SgwLocalsOK, SgwLocalOK, SgwOwes
  <2>2. job.teid[11] = Tunnel(u) /\ job.teid[1] = Tunnel(u) /\ job.teid[5] = Tunnel(u)
    BY <2>1 DEF Tunnels, Itf
  <2>3. c # Nil
    <3>1. c \in SgwContext
      <4>1. job.cteid \in Teid /\ Tunnel(u) \in Teid /\ 0 \in Teid
        BY <1>s, TunnelFacts DEF SgwTypeOK, SgwJob, Teid
      <4> QED
        BY <2>2, <4>1 DEF NewSgwContext, SgwContext
    <3> QED
      BY <3>1, SgwNilAssumption
  <2> QED
    BY <2>2, <2>3 DEF SgwHalf, NewSgwContext
<1> HIDE DEF job, r, c
<1>6. SgwTouches(t, u)
  <2>1. \A x \in UE \ {u} : sgw_ctx'[x] = sgw_ctx[x]
    BY <1>3, <1>s DEF SgwTypeOK
  <2>2. \A m : m.t # t => (m \in s5_req' <=> m \in s5_req) /\ (m \in s5_rsp' <=> m \in s5_rsp)
    BY <1>3, <1>4
  <2> QED
    BY <1>1, <1>3, <2>1, <2>2 DEF SgwTouches
<1>7. SgwOn(u)' = {t} /\ SgwIn(u)' = Itf /\ ~Holds(u)'
    BY <1>1, <1>2, <1>3, GatewayHolds DEF SgwOn, SgwIn
<1>8. SgwOK(u)'
  <2>1. sgw_ctx'[u] = c
    BY <1>3, <1>s DEF SgwTypeOK
  <2>2. SgwStage(u, SgwView(u, t))'
    BY <1>3, <1>5, <1>7, <2>1 DEF SgwStage, SgwView
  <2> QED
    BY <1>7, <2>2, SgwMoved
<1>9. ~PgwHolds(u) /\ ~PgwHolds(u)'
  <2>1. ~PgwHolds(u)
    BY <1>0, <1>1, <1>s, PgwHoldsAt
  <2>2. ~PgwGiven(u)
    BY <2>1 DEF PgwHolds
  <2>3. ~PgwGiven(u)'
    BY <1>3, <2>2 DEF PgwGiven
  <2>4. ~PgwHolds(u)'
    BY <1>3, <1>7, <1>s, <2>3, PgwHoldsAtNext
  <2> QED
    BY <2>1, <2>4
<1>10. \A m \in s5_req' : m \in s5_req \/ m.type = "create"
    BY <1>3, <1>4
<1> QED
    BY <1>0, <1>3, <1>6, <1>8, <1>9, <1>10, SgwKept

\* The PGW has answered a create.
LEMMA SgwCreateSessionAnswerKept ==
    ASSUME GwSide, SessionSide', NEW t \in S11Threads, SgwNext(t), SgwCreateSessionAnswer(t)
    PROVE  GwInv'
<1>s. SessionSide /\ SessionSide' /\ SgwTypeOK
    BY DEF GwSide, SessionSide, UeSide, TypeInv, TypeOK
<1>0. sgw_pc[t] = "create"
    BY DEF SgwCreateSessionAnswer, RcvS5, SgwAt
<1>1. PICK u \in UE : u = sgw_job[t].imsi /\ SgwOn(u) = {t} /\ SgwStage(u, SgwView(u, t))
    BY <1>0, SgwWorking
<1>2. SgwIn(u) = Itf /\ SgwHalf(u, sgw_ctx[u]) /\ ~Holds(u)
    BY <1>0, <1>1 DEF SgwStage, SgwView
<1>3. PICK m \in s5_rsp :
         /\ m.t = t /\ s5_rsp' = s5_rsp \ {m}
         /\ sgw_ctx' = [sgw_ctx EXCEPT ![u] = [sgw_ctx[u] EXCEPT !.s5_uteid_ul = m.ul,
                                                                  !.s5_cteid_ul = m.teid]]
         /\ Reply(sgw_job[t].src, "create", sgw_job[t].cteid, sgw_job[t].teid[11],
                  sgw_job[t].teid[1], m.ip)
    BY <1>1, <1>2 DEF SgwCreateSessionAnswer, RcvS5, SgwCtx, SgwHalf
<1>4. m \in S5Rsp /\ m.type = "create" /\ m.ul = Tunnel(u) /\ m.teid = Tunnel(u)
  <2>1. m \in S5Rsp /\ m.type = "create" /\ S5AnswerOK(m, u)
    BY <1>0, <1>1, <1>3, <1>s DEF SessionSide, SessionInv, S5Content, UeSide, OneCall, S5Calls,
                                  S5Awaited, TypeInv, TypeOK, S5TypeOK
  <2> QED
    BY <2>1 DEF S5AnswerOK
<1> DEFINE c == [sgw_ctx[u] EXCEPT !.s5_uteid_ul = m.ul, !.s5_cteid_ul = m.teid]
           r == [w |-> sgw_job[t].src, type |-> "create", teid |-> sgw_job[t].cteid,
                 s11 |-> sgw_job[t].teid[11], ul |-> sgw_job[t].teid[1], ip |-> m.ip]
<1>5. /\ \A s \in S11Threads \ {t} : sgw_pc'[s] = sgw_pc[s] /\ sgw_job'[s] = sgw_job[s]
      /\ sgw_pc'[t] = "idle" /\ sgw_job'[t].imsi = Nil
      /\ sgw_ctx' = [sgw_ctx EXCEPT ![u] = c]
      /\ s11_rsp' = s11_rsp \cup {r}
      /\ UNCHANGED <<sgw_id, sgw_itf, s11_req, s5_req, exited>>
      /\ UNCHANGED <<s1apVars, connVars, ranVars, mmeVars, s6aVars, pgwVars>>
    BY <1>3, <1>s DEF SgwCreateSessionAnswer, SgwNext, SgwGoto, SgwTypeOK, NoSgwJob, Reply
<1>6. r.type = "create" /\ mme_job[r.w].conn = u
  <2>1. mme_job[sgw_job[t].src].conn = u
    BY <1>0, <1>1, <1>s DEF SessionSide, SessionInv, SgwLocalsOK, SgwLocalOK, SgwOwes
  <2> QED
    BY <2>1
<1>7. SgwFull(u, c)
  <2>1. sgw_ctx[u] \in SgwContext
    BY <1>2, <1>s DEF SgwTypeOK, SgwHalf
  <2>2. c # Nil
    <3>1. c \in SgwContext
      <4>1. m.ul \in Teid /\ m.teid \in Teid
        BY <1>4, TunnelFacts
      <4> QED
        BY <2>1, <4>1 DEF SgwContext
    <3> QED
      BY <3>1, SgwNilAssumption
  <2> QED
    BY <1>2, <1>4, <2>1, <2>2 DEF SgwFull, SgwHalf, SgwContext
<1> HIDE DEF c, r
<1>8. SgwTouches(t, u)
  <2>1. \A x \in UE \ {u} : sgw_ctx'[x] = sgw_ctx[x]
    BY <1>5, <1>s DEF SgwTypeOK
  <2>2. \A n : n.t # t => (n \in s5_req' <=> n \in s5_req) /\ (n \in s5_rsp' <=> n \in s5_rsp)
    BY <1>3, <1>5
  <2>3. \A n : mme_job[n.w].conn # u =>
          (n \in s11_req' <=> n \in s11_req) /\ (n \in s11_rsp' <=> n \in s11_rsp)
    BY <1>5, <1>6
  <2> QED
    BY <1>1, <1>5, <2>1, <2>2, <2>3 DEF SgwTouches
<1>9. SgwOn(u)' = {}
    BY <1>1, <1>5, <1>s, SgwOnNext, UEFacts
<1>10. SgwIn(u)' = Itf /\ sgw_ctx'[u] = c
    BY <1>2, <1>5, <1>s DEF SgwIn, SgwTypeOK
<1>11. Holds(u)'
    BY <1>5, <1>6, GatewayHolds
<1>12. SgwOK(u)'
  <2>1. SgwRest(u)'
    BY <1>7, <1>10, <1>11 DEF SgwRest
  <2> QED
    BY <1>9, <2>1, SgwDone
<1>13. PgwHolds(u) /\ PgwHolds(u)'
  <2>1. PgwGiven(u)
    BY <1>1, <1>3, <1>4 DEF PgwGiven
  <2>2. PgwHolds(u)
    BY <2>1 DEF PgwHolds
  <2>3. PgwHolds(u)'
    BY <1>9, <1>11 DEF PgwHolds
  <2> QED
    BY <2>2, <2>3
<1> QED
    BY <1>0, <1>5, <1>8, <1>12, <1>13, SgwKept

\* A modify or a detach is taken: the TEID it names leads to its subscriber.
LEMMA SgwLookupKept ==
    ASSUME Serialised, GwSide, SessionSide', NEW t \in S11Threads, SgwNext(t),
           SgwModifyBearer(t) \/ SgwDetach(t)
    PROVE  GwInv'
<1>s. SessionSide /\ SessionSide' /\ SgwTypeOK
    BY DEF GwSide, SessionSide, UeSide, TypeInv, TypeOK
<1>0. sgw_pc[t] = "idle" /\ sgw_job[t].imsi = Nil
  <2>1. sgw_pc[t] = "idle"
    BY DEF SgwModifyBearer, SgwDetach, SgwReceive, SgwAt
  <2>2. sgw_job[t] = NoSgwJob
    BY <1>s, <2>1 DEF SessionSide, SessionInv, SgwLocalsOK, SgwLocalOK
  <2> QED
    BY <2>1, <2>2 DEF NoSgwJob
<1>1. PICK m \in s11_req :
         /\ s11_req' = s11_req \ {m}
         /\ m.type \in {"modify", "detach"}
         /\ SgwImsi(11, m.teid) # Nil =>
               /\ \E job : /\ sgw_job' = [sgw_job EXCEPT ![t] = job]
                           /\ job.imsi = SgwImsi(11, m.teid)
                           /\ m.type = "modify" => job.dl = m.dl
               /\ SgwGoto(t, IF m.type = "modify" THEN "modify_ctx" ELSE "detach_ctx")
               /\ UNCHANGED <<sgw_id, sgw_ctx, sgw_itf, exited>>
  <2>1. CASE SgwModifyBearer(t)
    <3>1. PICK m \in s11_req :
             /\ SgwReceive(t, "modify", m)
             /\ IF SgwImsi(11, m.teid) = Nil THEN SgwExit
                ELSE /\ sgw_job' = [sgw_job EXCEPT ![t] =
                           [NoSgwJob EXCEPT !.src = m.w, !.imsi = SgwImsi(11, m.teid),
                                            !.dl = m.dl]]
                     /\ SgwGoto(t, "modify_ctx")
                     /\ UNCHANGED <<sgw_id, sgw_ctx, sgw_itf, exited>>
      BY <2>1 DEF SgwModifyBearer
    <3> DEFINE job == [NoSgwJob EXCEPT !.src = m.w, !.imsi = SgwImsi(11, m.teid), !.dl = m.dl]
    <3>2. job.imsi = SgwImsi(11, m.teid) /\ job.dl = m.dl
      BY DEF NoSgwJob
    <3>3. SgwImsi(11, m.teid) # Nil =>
             /\ sgw_job' = [sgw_job EXCEPT ![t] = job]
             /\ SgwGoto(t, "modify_ctx")
             /\ UNCHANGED <<sgw_id, sgw_ctx, sgw_itf, exited>>
      BY <3>1
    <3>4. m.type = "modify" /\ s11_req' = s11_req \ {m}
      BY <3>1 DEF SgwReceive
    <3> HIDE DEF job
    <3> QED
      BY <3>2, <3>3, <3>4
  <2>2. CASE SgwDetach(t)
    <3>1. PICK m \in s11_req :
             /\ SgwReceive(t, "detach", m)
             /\ IF SgwImsi(11, m.teid) = Nil THEN SgwExit
                ELSE /\ sgw_job' = [sgw_job EXCEPT ![t] =
                           [NoSgwJob EXCEPT !.src = m.w, !.imsi = SgwImsi(11, m.teid)]]
                     /\ SgwGoto(t, "detach_ctx")
                     /\ UNCHANGED <<sgw_id, sgw_ctx, sgw_itf, exited>>
      BY <2>2 DEF SgwDetach
    <3> DEFINE job == [NoSgwJob EXCEPT !.src = m.w, !.imsi = SgwImsi(11, m.teid)]
    <3>2. job.imsi = SgwImsi(11, m.teid)
      BY DEF NoSgwJob
    <3>3. SgwImsi(11, m.teid) # Nil =>
             /\ sgw_job' = [sgw_job EXCEPT ![t] = job]
             /\ SgwGoto(t, "detach_ctx")
             /\ UNCHANGED <<sgw_id, sgw_ctx, sgw_itf, exited>>
      BY <3>1
    <3>4. m.type = "detach" /\ s11_req' = s11_req \ {m}
      BY <3>1 DEF SgwReceive
    <3> HIDE DEF job
    <3> QED
      BY <3>2, <3>3, <3>4
  <2> QED
    BY <2>1, <2>2
<1>2. PICK u \in UE :
         /\ u = mme_job[m.w].conn /\ SgwOn(u) = {} /\ SgwRest(u) /\ Holds(u) /\ ~Given(u)
         /\ \A n \in s11_req : mme_job[n.w].conn = u => n = m
         /\ m.teid = Tunnel(u) /\ (m.type = "modify" => m.dl = Tunnel(u))
  <2> DEFINE u == mme_job[m.w].conn
  <2>1. u \in UE /\ SgwOn(u) = {} /\ SgwRest(u) /\ S11RequestOK(m, u)
    BY <1>0, FreeToTake
  <2>2. Holds(u) /\ ~Given(u) /\ (\A n \in s11_req : mme_job[n.w].conn = u => n = m)
    BY <1>1, <1>s, RequestHolds
  <2> QED
    BY <1>1, <2>1, <2>2 DEF S11RequestOK
<1>3. SgwIn(u) = Itf /\ SgwFull(u, sgw_ctx[u]) /\ SgwImsi(11, m.teid) = u /\ u # Nil
    BY <1>2, UEFacts DEF SgwRest, SgwIn, SgwImsi, Itf
<1>4. /\ \A s \in S11Threads \ {t} : sgw_pc'[s] = sgw_pc[s] /\ sgw_job'[s] = sgw_job[s]
      /\ sgw_pc'[t] = IF m.type = "modify" THEN "modify_ctx" ELSE "detach_ctx"
      /\ sgw_job'[t].imsi = u
      /\ UNCHANGED <<sgw_id, sgw_ctx, sgw_itf, s11_rsp, s5_req, s5_rsp, exited>>
      /\ UNCHANGED <<s1apVars, connVars, ranVars, mmeVars, s6aVars, pgwVars>>
  <2>1. UNCHANGED <<s11_rsp, s5_req, s5_rsp>>
    BY DEF SgwModifyBearer, SgwDetach, s5Vars
  <2> QED
    BY <1>1, <1>3, <1>s, <2>1 DEF SgwNext, SgwGoto, SgwTypeOK
<1>5. SgwTouches(t, u)
    BY <1>0, <1>1, <1>2, <1>4 DEF SgwTouches
<1>6. SgwOn(u)' = {t} /\ SgwIn(u)' = Itf
    BY <1>2, <1>3, <1>4, <1>s, SgwOnNext DEF SgwIn
<1>7. Holds(u)' <=> m.type = "modify"
  <2>1. Offered(View(u))' <=> Offered(View(u))
    BY <1>4, GatewayOffers
  <2>2. ~Given(u)' /\ ~Asked(u)'
    BY <1>1, <1>2, <1>4 DEF Given, Asked, mmeVars
  <2>3. Asked(u) <=> m.type = "detach"
    BY <1>2 DEF Asked
  <2>4. m.type = "detach" => ~Offered(View(u))
    <3>1. mme_pc[m.w] = m.type /\ m.w \in Worker
      BY <1>s, RequestHolds, RequestSession
    <3> QED
      BY <1>2, <1>s, <3>1, ServedView DEF SessionType
  <2> QED
    BY <1>1, <1>2, <2>1, <2>2, <2>3, <2>4 DEF Holds
<1>8. SgwOK(u)'
  <2>1. SgwStage(u, SgwView(u, t))'
    BY <1>1, <1>3, <1>4, <1>6, <1>7 DEF SgwStage, SgwView
  <2> QED
    BY <1>6, <2>1, SgwMoved
<1>9. PgwHolds(u) /\ PgwHolds(u)'
  <2>1. PgwHolds(u)
    BY <1>2 DEF PgwHolds
  <2>2. sgw_pc'[t] \in {"modify_ctx", "detach_ctx"}
    BY <1>4
  <2>3. PgwHolds(u)'
    BY <1>6, <2>2 DEF PgwHolds
  <2> QED
    BY <2>1, <2>3
<1>10. sgw_pc'[t] \notin {"rem_itfid", "rem_uectx"}
    BY <1>4
<1> QED
    BY <1>0, <1>4, <1>5, <1>8, <1>9, <1>10, SgwKept

\* The eNodeB's end of the bearer is stored.
LEMMA SgwModifyCtxKept ==
    ASSUME GwSide, SessionSide', NEW t \in S11Threads, SgwNext(t), SgwModifyCtx(t)
    PROVE  GwInv'
<1>s. SessionSide /\ SessionSide' /\ SgwTypeOK
    BY DEF GwSide, SessionSide, UeSide, TypeInv, TypeOK
<1>0. sgw_pc[t] = "modify_ctx"
    BY DEF SgwModifyCtx, SgwAt
<1>1. PICK u \in UE : u = sgw_job[t].imsi /\ SgwOn(u) = {t} /\ SgwStage(u, SgwView(u, t))
    BY <1>0, SgwWorking
<1>2. SgwIn(u) = Itf /\ SgwFull(u, sgw_ctx[u]) /\ Holds(u)
    BY <1>0, <1>1 DEF SgwStage, SgwView
<1>3. sgw_job[t].dl = Tunnel(u) /\ mme_job[sgw_job[t].src].conn = u
  <2>1. SgwLocalOK(sgw_pc[t], sgw_job[t])
    BY <1>s DEF SessionSide, SessionInv, SgwLocalsOK
  <2> QED
    BY <1>0, <1>1, <2>1 DEF SgwLocalOK, SgwOwes
<1> DEFINE c == SetEnodeb(sgw_ctx[u], sgw_job[t].dl)
           r == [w |-> sgw_job[t].src, type |-> "modify", teid |-> sgw_ctx[u].s11_cteid_mme,
                 s11 |-> 0, ul |-> 0, ip |-> NoIp]
<1>4. /\ \A s \in S11Threads \ {t} : sgw_pc'[s] = sgw_pc[s] /\ sgw_job'[s] = sgw_job[s]
      /\ sgw_pc'[t] = "idle" /\ sgw_job'[t].imsi = Nil
      /\ sgw_ctx' = [sgw_ctx EXCEPT ![u] = c]
      /\ s11_rsp' = s11_rsp \cup {r}
      /\ UNCHANGED <<sgw_id, sgw_itf, s11_req, s5_req, s5_rsp, exited>>
      /\ UNCHANGED <<s1apVars, connVars, ranVars, mmeVars, s6aVars, pgwVars>>
  <2>1. SgwCtx(u) = sgw_ctx[u]
    BY <1>2 DEF SgwCtx, SgwFull, SgwHalf
  <2>2. sgw_ctx' = [sgw_ctx EXCEPT ![u] = c] /\ s11_rsp' = s11_rsp \cup {r}
    BY <1>1, <2>1 DEF SgwModifyCtx, Reply
  <2> HIDE DEF c, r
  <2> QED
    BY <1>s, <2>2 DEF SgwModifyCtx, SgwNext, SgwGoto, SgwTypeOK, NoSgwJob, s5Vars
<1>5. r.type = "modify" /\ mme_job[r.w].conn = u
    BY <1>3
<1>6. SgwFull(u, c)
  <2>1. sgw_ctx[u] \in SgwContext
    BY <1>2, <1>s DEF SgwTypeOK, SgwFull, SgwHalf
  <2>2. c # Nil
    <3>1. c \in SgwContext
      <4>1. sgw_job[t].dl \in Teid
        BY <1>3, TunnelFacts
      <4> QED
        BY <2>1, <4>1 DEF SgwContext, SetEnodeb
    <3> QED
      BY <3>1, SgwNilAssumption
  <2> QED
    BY <1>2, <1>3, <2>1, <2>2 DEF SgwFull, SgwHalf, SgwContext, SetEnodeb
<1> HIDE DEF c, r
<1>7. SgwTouches(t, u)
  <2>1. \A x \in UE \ {u} : sgw_ctx'[x] = sgw_ctx[x]
    BY <1>4, <1>s DEF SgwTypeOK
  <2>2. \A n : mme_job[n.w].conn # u =>
          (n \in s11_req' <=> n \in s11_req) /\ (n \in s11_rsp' <=> n \in s11_rsp)
    BY <1>4, <1>5
  <2> QED
    BY <1>1, <1>4, <2>1, <2>2 DEF SgwTouches
<1>8. SgwOn(u)' = {}
    BY <1>1, <1>4, <1>s, SgwOnNext, UEFacts
<1>9. SgwIn(u)' = Itf /\ sgw_ctx'[u] = c
    BY <1>2, <1>4, <1>s DEF SgwIn, SgwTypeOK
<1>10. Holds(u)'
    BY <1>2, <1>4, GatewayHolds
<1>11. SgwOK(u)'
  <2>1. SgwRest(u)'
    BY <1>6, <1>9, <1>10 DEF SgwRest
  <2> QED
    BY <1>8, <2>1, SgwDone
<1>12. PgwHolds(u) /\ PgwHolds(u)'
    BY <1>0, <1>1, <1>8, <1>10 DEF PgwHolds
<1> QED
    BY <1>0, <1>4, <1>7, <1>11, <1>12, SgwKept

\* The context of a detach is there, and names the session's tunnels.
LEMMA SgwDetachCtxKept ==
    ASSUME GwSide, SessionSide', NEW t \in S11Threads, SgwNext(t), SgwDetachCtx(t)
    PROVE  GwInv'
<1>s. SessionSide /\ SessionSide' /\ SgwTypeOK
    BY DEF GwSide, SessionSide, UeSide, TypeInv, TypeOK
<1>0. sgw_pc[t] = "detach_ctx"
    BY DEF SgwDetachCtx, SgwAt
<1>1. PICK u \in UE : u = sgw_job[t].imsi /\ SgwOn(u) = {t} /\ SgwStage(u, SgwView(u, t))
    BY <1>0, SgwWorking
<1>2. SgwIn(u) = Itf /\ SgwFull(u, sgw_ctx[u]) /\ ~Holds(u)
    BY <1>0, <1>1 DEF SgwStage, SgwView
<1> DEFINE c == sgw_ctx[sgw_job[t].imsi]
           r == [t |-> t, type |-> "detach", teid |-> c.s5_cteid_ul, imsi |-> Nil]
           f == [i \in Itf |-> CASE i = 11 -> c.s11_cteid_sgw
                                 [] i = 1  -> c.s1_uteid_ul
                                 [] i = 5  -> c.s5_uteid_dl]
<1>3. /\ sgw_job' = [sgw_job EXCEPT ![t].cteid = c.s11_cteid_mme, ![t].teid = f]
      /\ s5_req' = s5_req \cup {r}
      /\ SgwGoto(t, "detach")
      /\ UNCHANGED <<sgw_id, sgw_ctx, sgw_itf, s11_req, s11_rsp, s5_rsp, exited>>
      /\ UNCHANGED <<s1apVars, connVars, ranVars, mmeVars, s6aVars, pgwVars>>
  <2>1. c # Nil /\ SgwCtx(sgw_job[t].imsi).pgw
    BY <1>1, <1>2 DEF SgwFull, SgwHalf, SgwCtx
  <2>2. sgw_job' = [sgw_job EXCEPT ![t].cteid = c.s11_cteid_mme, ![t].teid = f]
    BY <2>1 DEF SgwDetachCtx
  <2> QED
    BY <2>1, <2>2 DEF SgwDetachCtx, SgwNext, s11Vars
<1>4. /\ \A s \in S11Threads \ {t} : sgw_pc'[s] = sgw_pc[s] /\ sgw_job'[s] = sgw_job[s]
      /\ sgw_pc'[t] = "detach" /\ sgw_job'[t].imsi = u
  <2> HIDE DEF c, f, r
  <2> QED
    BY <1>1, <1>3, <1>s DEF SgwGoto, SgwTypeOK, SgwJob
<1>5. sgw_job'[t].teid = Tunnels(u)
  <2>1. f = Tunnels(u)
    BY <1>1, <1>2 DEF SgwFull, SgwHalf, Tunnels, Itf
  <2>2. sgw_job'[t].teid = f
    <3> HIDE DEF c, f, r
    <3> QED
      BY <1>3, <1>s DEF SgwTypeOK, SgwJob
  <2> QED
    BY <2>1, <2>2
<1>6. r.t = t /\ r.type = "detach" /\ r.teid = Tunnel(u)
    BY <1>1, <1>2 DEF SgwFull
<1> HIDE DEF c, f, r
<1>7. SgwTouches(t, u)
  <2>1. \A m : m.t # t => (m \in s5_req' <=> m \in s5_req) /\ (m \in s5_rsp' <=> m \in s5_rsp)
    BY <1>3, <1>6
  <2> QED
    BY <1>1, <1>3, <1>4, <2>1 DEF SgwTouches
<1>8. SgwOn(u)' = {t}
    BY <1>1, <1>4, <1>s, SgwOnNext
<1>9. SgwIn(u)' = Itf /\ ~Holds(u)'
    BY <1>2, <1>3, GatewayHolds DEF SgwIn
<1>10. SgwOK(u)'
  <2>1. SgwStage(u, SgwView(u, t))'
    BY <1>2, <1>3, <1>4, <1>5, <1>9 DEF SgwStage, SgwView
  <2> QED
    BY <1>8, <2>1, SgwMoved
<1>11. PgwHolds(u) /\ PgwHolds(u)'
  <2>1. PgwHolds(u)
    BY <1>0, <1>1 DEF PgwHolds
  <2>2. PgwAsked(u)'
    BY <1>3, <1>4, <1>6 DEF PgwAsked
  <2>3. PgwHolds(u)'
    BY <2>2 DEF PgwHolds
  <2> QED
    BY <2>1, <2>3
<1>12. \A m \in s5_req' : m \in s5_req \/ m.teid = Tunnel(sgw_job'[m.t].imsi)
    BY <1>3, <1>4, <1>6
<1> QED
    BY <1>0, <1>4, <1>7, <1>10, <1>11, <1>12, SgwKept

\* The PGW has answered a detach, and the MME is answered before anything is removed.
LEMMA SgwDetachAnswerKept ==
    ASSUME GwSide, SessionSide', NEW t \in S11Threads, SgwNext(t), SgwDetachAnswer(t)
    PROVE  GwInv'
<1>s. SessionSide /\ SessionSide' /\ SgwTypeOK
    BY DEF GwSide, SessionSide, UeSide, TypeInv, TypeOK
<1>0. PICK m \in s5_rsp : sgw_pc[t] = "detach" /\ m.t = t /\ s5_rsp' = s5_rsp \ {m}
    BY DEF SgwDetachAnswer, RcvS5, SgwAt
<1>1. PICK u \in UE : u = sgw_job[t].imsi /\ SgwOn(u) = {t} /\ SgwStage(u, SgwView(u, t))
    BY <1>0, SgwWorking
<1>2. /\ SgwIn(u) = Itf /\ SgwFull(u, sgw_ctx[u]) /\ ~Holds(u)
      /\ sgw_job[t].teid = Tunnels(u)
    BY <1>0, <1>1 DEF SgwStage, SgwView
<1>3. mme_job[sgw_job[t].src].conn = u /\ ran_pc[u] = "detach"
  <2>1. SgwOwes(sgw_pc[t]) = "detach"
    BY <1>0 DEF SgwOwes
  <2> QED
    BY <1>1, <1>s, <2>1, ThreadHolds
<1> DEFINE r == [w |-> sgw_job[t].src, type |-> "detach", teid |-> sgw_job[t].cteid,
                 s11 |-> 0, ul |-> 0, ip |-> NoIp]
<1>4. /\ \A s \in S11Threads \ {t} : sgw_pc'[s] = sgw_pc[s] /\ sgw_itf'[s] = sgw_itf[s]
      /\ sgw_pc'[t] = "rem_itfid" /\ sgw_itf'[t] = <<11, 1, 5>>
      /\ s11_rsp' = s11_rsp \cup {r}
      /\ UNCHANGED <<sgw_id, sgw_ctx, sgw_job, s11_req, s5_req, exited>>
      /\ UNCHANGED <<s1apVars, connVars, ranVars, mmeVars, s6aVars, pgwVars>>
    BY <1>s DEF SgwDetachAnswer, SgwNext, SgwGoto, SgwTypeOK, Reply, ItfRemovals
<1>5. r.type = "detach" /\ mme_job[r.w].conn = u
    BY <1>3
<1> HIDE DEF r
<1>6. SgwTouches(t, u)
  <2>1. \A n : n.t # t => (n \in s5_req' <=> n \in s5_req) /\ (n \in s5_rsp' <=> n \in s5_rsp)
    BY <1>0, <1>4
  <2>2. \A n : mme_job[n.w].conn # u =>
          (n \in s11_req' <=> n \in s11_req) /\ (n \in s11_rsp' <=> n \in s11_rsp)
    BY <1>4, <1>5
  <2> QED
    BY <1>1, <1>4, <2>1, <2>2 DEF SgwTouches
<1>7. SgwOn(u)' = {t} /\ SgwIn(u)' = Itf
    BY <1>1, <1>2, <1>4 DEF SgwOn, SgwIn
<1>8. ~Holds(u)'
    BY <1>2, <1>4, <1>5, GatewayHolds
<1>9. SgwOK(u)'
  <2>1. sgw_ctx'[u] # Nil /\ sgw_job'[t].teid = Tunnels(u)
    BY <1>2, <1>4 DEF SgwFull, SgwHalf
  <2>2. Looped(sgw_itf'[t], Itf \ SgwIn(u)')
    BY <1>4, <1>7 DEF Looped
  <2>3. SgwStage(u, SgwView(u, t))'
    BY <1>4, <1>8, <2>1, <2>2 DEF SgwStage, SgwView
  <2> QED
    BY <1>7, <2>3, SgwMoved
<1>10. ~PgwHolds(u) /\ ~PgwHolds(u)'
  <2>1. ~PgwAsked(u)
    <3>1. \A n \in s5_req : n.t # t
      BY <1>0, <1>s DEF SessionSide, UeSide, OneCall, S5Calls, S5Single
    <3>2. \A n \in s5_req : n.t \in S11Threads
      BY <1>s, Callers DEF SessionSide, UeSide
    <3> QED
      BY <1>1, <3>1, <3>2 DEF PgwAsked, SgwOn
  <2>2. ~PgwHolds(u)
    BY <1>0, <1>1, <1>s, <2>1, PgwHoldsAt
  <2>3. ~PgwHolds(u)'
    BY <1>4, <1>7, <1>s, PgwHoldsAtNext
  <2> QED
    BY <2>2, <2>3
<1> QED
    BY <1>3, <1>4, <1>6, <1>9, <1>10, SgwKept

\* Every step of the SGW keeps the gateways in order.
LEMMA SgwGatewaysKept ==
    ASSUME Serialised, GwSide, SessionSide', NEW t \in S11Threads, SgwNext(t)
    PROVE  GwInv'
BY SgwCreateSessionKept, SgwUpdateItfidKept, SgwInitCtxKept, SgwCreateSessionAnswerKept,
   SgwLookupKept, SgwModifyCtxKept, SgwDetachCtxKept, SgwDetachAnswerKept, SgwRemItfidKept,
   SgwRemUectxKept DEF SgwNext, SgwStep

-----------------------------------------------------------------------------
(* The PGW.                                                                *)

\* A step of a PGW thread that concerns one subscriber only.
PgwTouches(p, u) ==
    /\ UNCHANGED <<s1apVars, connVars, ranVars, mmeVars, s6aVars, s11Vars, sgwVars, exited>>
    /\ \A q \in PgwThreads \ {p} : pgw_pc'[q] = pgw_pc[q] /\ pgw_job'[q] = pgw_job[q]
    /\ pgw_job[p].imsi \in {u, Nil} /\ pgw_job'[p].imsi \in {u, Nil}
    /\ \A x \in UE \ {u} : /\ pgw_s5_id'[Tunnel(x)] = pgw_s5_id[Tunnel(x)]
                           /\ pgw_sgi_id'[IpAddr(x)] = pgw_sgi_id[IpAddr(x)]
                           /\ pgw_ctx'[x] = pgw_ctx[x]
    /\ \A m : sgw_job[m.t].imsi # u =>
          (m \in s5_req' <=> m \in s5_req) /\ (m \in s5_rsp' <=> m \in s5_rsp)

\* Who holds a session between MME and SGW is none of the PGW's business.
LEMMA PgwLeavesHolds ==
    ASSUME UNCHANGED <<s1apVars, ranVars, mmeVars, s11Vars>>, NEW x \in UE
    PROVE  Holds(x)' <=> Holds(x)
BY GatewayHolds DEF s11Vars

\* The other subscribers do not notice.
LEMMA PgwOthers ==
    ASSUME GwSide, NEW p \in PgwThreads, NEW u \in UE, PgwTouches(p, u), NEW x \in UE, x # u
    PROVE  PgwOK(x)'
<1>1. /\ UNCHANGED <<s1apVars, ranVars, mmeVars, s11Vars, sgwVars>>
      /\ \A q \in PgwThreads \ {p} : pgw_pc'[q] = pgw_pc[q] /\ pgw_job'[q] = pgw_job[q]
      /\ pgw_job[p].imsi # x /\ pgw_job'[p].imsi # x
      /\ pgw_s5_id'[Tunnel(x)] = pgw_s5_id[Tunnel(x)]
      /\ pgw_sgi_id'[IpAddr(x)] = pgw_sgi_id[IpAddr(x)]
      /\ pgw_ctx'[x] = pgw_ctx[x]
    BY UEFacts DEF PgwTouches
<1>2. PgwOn(x)' = PgwOn(x) /\ p \notin PgwOn(x) /\ PgwOn(x) \subseteq PgwThreads
    BY <1>1 DEF PgwOn
<1>3. PgwHolds(x)' <=> PgwHolds(x)
  <2>1. (PgwGiven(x)' <=> PgwGiven(x)) /\ (PgwAsked(x)' <=> PgwAsked(x))
    BY <1>1 DEF PgwGiven, PgwAsked, PgwTouches, sgwVars
  <2>2. (Holds(x)' <=> Holds(x)) /\ SgwOn(x)' = SgwOn(x) /\ sgw_pc' = sgw_pc
    BY <1>1, PgwLeavesHolds DEF SgwOn, sgwVars
  <2> QED
    BY <2>1, <2>2 DEF PgwHolds
<1>4. \A q \in PgwOn(x) : PgwStage(x, PgwView(x, q))' <=> PgwStage(x, PgwView(x, q))
    BY <1>1, <1>2, <1>3 DEF PgwStage, PgwView
<1>5. PgwRest(x)' <=> PgwRest(x)
    BY <1>1, <1>3 DEF PgwRest
<1> QED
    BY <1>2, <1>4, <1>5 DEF PgwOK, GwSide, GwInv

\* What a step of a PGW thread has to show for the subscriber it concerns.
LEMMA PgwKept ==
    ASSUME GwSide, NEW p \in PgwThreads, NEW u \in UE, PgwTouches(p, u), PgwOK(u)',
           s5_req' \subseteq s5_req,
           PgwOwes(pgw_pc'[p]) = "detach" =>
              sgw_job[pgw_job'[p].src].imsi = pgw_job'[p].imsi,
           pgw_pc'[p] \in {"rem_s5", "rem_sgi", "rem_uectx"} =>
              pgw_pc[p] \in {"rem_s5", "rem_sgi", "rem_uectx"} \/ ran_pc[u] = "detach"
    PROVE  GwInv'
<1>s. SessionSide /\ GwInv
    BY DEF GwSide
<1>0. /\ UNCHANGED <<s1apVars, ranVars, mmeVars, s11Vars, sgwVars, exited>>
      /\ \A q \in PgwThreads \ {p} : pgw_pc'[q] = pgw_pc[q] /\ pgw_job'[q] = pgw_job[q]
      /\ pgw_job[p].imsi \in {u, Nil} /\ pgw_job'[p].imsi \in {u, Nil}
    BY DEF PgwTouches
<1>1. \A x \in UE : SgwOK(x)'
    BY <1>0, <1>s, SgwSame, PgwLeavesHolds DEF GwInv
<1>2. \A x \in UE : PgwOK(x)'
    BY PgwOthers
<1>3. DetachesOK'
  <2>1. sgw_job' = sgw_job /\ sgw_pc' = sgw_pc
    BY <1>0 DEF sgwVars
  <2>2. \A m \in s5_req' : m.type = "detach" => m.teid = Tunnel(sgw_job'[m.t].imsi)
    BY <1>s, <2>1 DEF GwInv, DetachesOK
  <2>3. \A q \in PgwThreads :
           PgwOwes(pgw_pc'[q]) = "detach" => sgw_job'[pgw_job'[q].src].imsi = pgw_job'[q].imsi
    BY <1>0, <1>s, <2>1 DEF GwInv, DetachesOK
  <2> QED
    BY <2>2, <2>3 DEF DetachesOK, Tunnel, PgwOwes
<1>4. ASSUME MaxRounds <= 1, NEW x \in UE, Removing(x)' PROVE Gone(x)'
  <2>1. SgwOn(x)' = SgwOn(x) /\ sgw_pc' = sgw_pc /\ (Gone(x)' <=> Gone(x))
    BY <1>0 DEF SgwOn, sgwVars, ranVars, Gone
  <2>2. Removing(x) => Gone(x)
    BY <1>s, <1>4 DEF GwInv
  <2>3. CASE \E t \in SgwOn(x)' : sgw_pc'[t] \in {"rem_itfid", "rem_uectx"}
    BY <2>1, <2>2, <2>3 DEF Removing
  <2>4. CASE \E q \in PgwOn(x)' : pgw_pc'[q] \in {"rem_s5", "rem_sgi", "rem_uectx"}
    <3>1. PICK q \in PgwThreads :
             pgw_job'[q].imsi = x /\ pgw_pc'[q] \in {"rem_s5", "rem_sgi", "rem_uectx"}
      BY <2>4 DEF PgwOn
    <3>2. CASE q # p
      BY <1>0, <2>1, <2>2, <3>1, <3>2 DEF Removing, PgwOn
    <3>3. CASE q = p
      <4>1. x = u
        BY <1>0, <3>1, <3>3, UEFacts
      <4>2. CASE ran_pc[u] = "detach"
        BY <2>1, <4>1, <4>2 DEF Gone
      <4>3. CASE pgw_pc[p] \in {"rem_s5", "rem_sgi", "rem_uectx"}
        <5>1. pgw_job[p].imsi \in UE
          BY <1>s, <4>3 DEF SessionSide, UeSide, TypeInv, PgwJobsOK
        <5>2. p \in PgwOn(x)
          BY <1>0, <4>1, <5>1, UEFacts DEF PgwOn
        <5> QED
          BY <2>1, <2>2, <4>3, <5>2 DEF Removing
      <4> QED
        BY <3>1, <3>3, <4>2, <4>3
    <3> QED
      BY <3>2, <3>3
  <2> QED
    BY <1>4, <2>3, <2>4 DEF Removing
<1>5. NoExit'
    BY <1>0, <1>s DEF GwInv, NoExit
<1> QED
    BY <1>1, <1>2, <1>3, <1>4, <1>5 DEF GwInv

\* A thread that works on a subscriber is the only one, and finds what it left.
LEMMA PgwWorking ==
    ASSUME GwSide, NEW p \in PgwThreads, pgw_pc[p] # "idle"
    PROVE  LET u == pgw_job[p].imsi
           IN  u \in UE /\ PgwOn(u) = {p} /\ PgwStage(u, PgwView(u, p))
<1> DEFINE u == pgw_job[p].imsi
<1>1. u \in UE
    BY DEF GwSide, SessionSide, UeSide, TypeInv, PgwJobsOK
<1>2. p \in PgwOn(u) /\ PgwOK(u)
    BY <1>1 DEF PgwOn, GwSide, GwInv
<1> QED
    BY <1>1, <1>2 DEF PgwOK

\* Where it goes on, the next thing to find is in place.
LEMMA PgwMoved ==
    ASSUME NEW p \in PgwThreads, NEW u \in UE, PgwOn(u)' = {p}, PgwStage(u, PgwView(u, p))'
    PROVE  PgwOK(u)'
BY DEF PgwOK

\* Where it is done, all or nothing is left.
LEMMA PgwDone ==
    ASSUME NEW p \in PgwThreads, NEW u \in UE, PgwOn(u)' = {}, PgwRest(u)'
    PROVE  PgwOK(u)'
BY DEF PgwOK

\* A thread that keeps, takes or leaves its subscriber.
LEMMA PgwOnNext ==
    ASSUME NEW p \in PgwThreads, NEW u \in UE, PgwOn(u) \subseteq {p},
           \A q \in PgwThreads \ {p} : pgw_job'[q] = pgw_job[q]
    PROVE  PgwOn(u)' = IF pgw_job'[p].imsi = u THEN {p} ELSE {}
<1>1. \A q \in PgwThreads \ {p} : pgw_job'[q].imsi # u
    BY DEF PgwOn
<1> QED
    BY <1>1 DEF PgwOn

\* A step that leaves the interface to the SGW alone leaves the sessions with who
\* holds them.
LEMMA PgwHoldsSame ==
    ASSUME UNCHANGED <<s1apVars, ranVars, mmeVars, s11Vars, s5Vars, sgwVars>>, NEW u \in UE
    PROVE  PgwHolds(u)' <=> PgwHolds(u)
<1>1. Holds(u)' <=> Holds(u)
    BY PgwLeavesHolds
<1> QED
    BY <1>1 DEF PgwHolds, PgwGiven, PgwAsked, SgwOn, s5Vars, sgwVars

\* No thread works on the subscriber of a request that is taken: what it asks for
\* is what the PGW has.
LEMMA PgwFreeToTake ==
    ASSUME Serialised, GwSide, NEW p \in PgwThreads, pgw_pc[p] = "idle", NEW m \in s5_req
    PROVE  LET u == sgw_job[m.t].imsi
           IN  /\ u \in UE /\ m \in S5Req /\ m.t \in S11Threads /\ sgw_pc[m.t] = m.type
               /\ SgwOn(u) = {m.t} /\ PgwOn(u) = {} /\ PgwRest(u)
               /\ ~PgwGiven(u) /\ (PgwHolds(u) <=> m.type = "detach")
               /\ \A n \in s5_req : sgw_job[n.t].imsi = u => n = m
<1> DEFINE u == sgw_job[m.t].imsi
<1>s. SessionSide /\ GwInv
    BY DEF GwSide
<1>1. /\ m \in S5Req /\ m.t \in S11Threads /\ m.type \in {"create", "detach"}
      /\ sgw_pc[m.t] = m.type
    BY <1>s, Callers DEF SessionSide, UeSide, TypeInv, TypeOK, S5TypeOK, OneCall, S5Calls, S5Awaited
<1>2. u \in UE /\ SgwOn(u) = {m.t}
    BY <1>1, SgwWorking
<1>3. /\ \A n \in s5_req \cup s5_rsp : sgw_job[n.t].imsi = u => n.t = m.t
      /\ \A q \in PgwThreads : PgwOwes(pgw_pc[q]) # "none" /\ sgw_job[pgw_job[q].src].imsi = u =>
            pgw_job[q].src = m.t
    BY <1>2, <1>s, Callers DEF SessionSide, UeSide, SgwOn
<1>4. /\ ~PgwGiven(u)
      /\ \A n \in s5_req : sgw_job[n.t].imsi = u => n = m
      /\ \A q \in PgwThreads : PgwOwes(pgw_pc[q]) # "none" => sgw_job[pgw_job[q].src].imsi # u
    BY <1>3, <1>s DEF SessionSide, UeSide, OneCall, S5Calls, S5Single, PgwGiven
<1>5. PgwHolds(u) <=> m.type = "detach"
  <2>1. PgwAsked(u) <=> m.type = "detach"
    BY <1>4 DEF PgwAsked
  <2> QED
    BY <1>1, <1>2, <1>4, <1>s, <2>1, PgwHoldsAt
<1>6. PgwOK(u) /\ (MaxRounds <= 1 => (Removing(u) => Gone(u)))
    BY <1>2, <1>s DEF GwInv
<1>7. ASSUME NEW q \in PgwOn(u) PROVE FALSE
  <2>1. q \in PgwThreads /\ pgw_job[q].imsi = u /\ pgw_pc[q] \in PgwPc
    BY <1>7, <1>s DEF PgwOn, SessionSide, UeSide, TypeInv, TypeOK, PgwTypeOK
  <2>2. PgwOwes(pgw_pc[q]) = "none"
    <3>1. CASE PgwOwes(pgw_pc[q]) = "create"
      BY <1>4, <1>s, <2>1, <3>1 DEF SessionSide, SessionInv, PgwLocalsOK, PgwLocalOK
    <3>2. CASE PgwOwes(pgw_pc[q]) = "detach"
      BY <1>4, <1>s, <2>1, <3>2 DEF GwInv, DetachesOK
    <3>3. PgwOwes(pgw_pc[q]) \in {"create", "detach", "none"}
      BY <2>1 DEF PgwOwes, PgwPc
    <3> QED
      BY <3>1, <3>2, <3>3
  <2>3. PgwStage(u, PgwView(u, q))
    BY <1>6, <1>7 DEF PgwOK
  <2>4. pgw_pc[q] \in {"rem_s5", "rem_sgi", "rem_uectx"} /\ ~PgwHolds(u)
    BY <2>2, <2>3 DEF PgwStage, PgwView, PgwOwes
  <2>5. Removing(u)
    BY <1>7, <2>4 DEF Removing
  <2>6. q # p
    BY <2>4
  <2>7. ran_pc[u] = "set_eps_session"
    <3>1. SgwOwes(sgw_pc[m.t]) = "create"
      BY <1>1, <1>5, <2>4 DEF SgwOwes
    <3> QED
      BY <1>1, <1>s, <3>1, ThreadHolds
  <2> QED
    BY <1>6, <2>1, <2>5, <2>6, <2>7 DEF Serialised, Single, Gone
<1>8. PgwOn(u) = {}
    BY <1>7
<1> QED
    BY <1>1, <1>2, <1>4, <1>5, <1>6, <1>8 DEF PgwOK

\* A create is taken.
LEMMA PgwCreateSessionKept ==
    ASSUME Serialised, GwSide, SessionSide', NEW p \in PgwThreads, PgwNext(p),
           PgwCreateSession(p)
    PROVE  GwInv'
<1>s. SessionSide /\ SessionSide' /\ PgwTypeOK
    BY DEF GwSide, SessionSide, UeSide, TypeInv, TypeOK
<1>0. pgw_pc[p] = "idle" /\ pgw_job[p].imsi = Nil
  <2>1. pgw_pc[p] = "idle"
    BY DEF PgwCreateSession, PgwReceive, PgwAt
  <2>2. pgw_job[p] = NoPgwJob
    BY <1>s, <2>1 DEF SessionSide, SessionInv, PgwLocalsOK, PgwLocalOK
  <2> QED
    BY <2>1, <2>2 DEF NoPgwJob
<1>1. PICK m \in s5_req :
         /\ m.type = "create" /\ s5_req' = s5_req \ {m}
         /\ pgw_job' = [pgw_job EXCEPT ![p] = [src |-> m.t, imsi |-> m.imsi, teid |-> m.teid,
                                               ip |-> IpAddr(m.imsi)]]
    BY DEF PgwCreateSession, PgwReceive
<1>2. PICK u \in UE :
         /\ u = sgw_job[m.t].imsi /\ m.imsi = u /\ m.t \in S11Threads /\ sgw_pc[m.t] = "create"
         /\ SgwOn(u) = {m.t} /\ PgwOn(u) = {} /\ PgwRest(u) /\ ~PgwGiven(u) /\ ~PgwHolds(u)
  <2> DEFINE u == sgw_job[m.t].imsi
  <2>1. /\ u \in UE /\ m.t \in S11Threads /\ sgw_pc[m.t] = "create"
        /\ SgwOn(u) = {m.t} /\ PgwOn(u) = {} /\ PgwRest(u) /\ ~PgwGiven(u) /\ ~PgwHolds(u)
    BY <1>0, <1>1, PgwFreeToTake
  <2>2. m.imsi = u
    BY <1>1, <1>s DEF SessionSide, SessionInv, S5Content, S5RequestOK
  <2> QED
    BY <2>1, <2>2
<1>3. /\ \A q \in PgwThreads \ {p} : pgw_pc'[q] = pgw_pc[q] /\ pgw_job'[q] = pgw_job[q]
      /\ pgw_pc'[p] = "update_s5" /\ pgw_job'[p].imsi = u
      /\ UNCHANGED <<pgw_s5_id, pgw_sgi_id, pgw_ctx, s5_rsp, exited>>
      /\ UNCHANGED <<s1apVars, connVars, ranVars, mmeVars, s6aVars, s11Vars, sgwVars>>
    BY <1>1, <1>2, <1>s DEF PgwCreateSession, PgwNext, PgwGoto, PgwTypeOK
<1>4. PgwTouches(p, u)
    BY <1>0, <1>1, <1>2, <1>3 DEF PgwTouches
<1>5. PgwOn(u)' = {p}
    BY <1>2, <1>3, PgwOnNext
<1>6. ~PgwHolds(u)'
  <2>1. SgwOn(u)' = {m.t} /\ sgw_pc'[m.t] = "create"
    BY <1>2, <1>3 DEF SgwOn, sgwVars
  <2>2. ~PgwGiven(u)'
    BY <1>2, <1>3 DEF PgwGiven, sgwVars
  <2> QED
    BY <1>2, <1>s, <2>1, <2>2, PgwHoldsAtNext
<1>7. PgwOK(u)'
  <2>1. PgwStage(u, PgwView(u, p))'
    BY <1>2, <1>3, <1>6 DEF PgwStage, PgwView, PgwRest
  <2> QED
    BY <1>5, <2>1, PgwMoved
<1>8. s5_req' \subseteq s5_req /\ PgwOwes(pgw_pc'[p]) # "detach"
    BY <1>1, <1>3 DEF PgwOwes
<1> QED
    BY <1>3, <1>4, <1>7, <1>8, PgwKept

\* The tunnel and the address are entered, or removed.
LEMMA PgwTableKept ==
    ASSUME Addressable, GwSide, SessionSide', NEW p \in PgwThreads, PgwNext(p),
           PgwUpdateS5Id(p) \/ PgwUpdateSgiId(p) \/ PgwRemS5Id(p) \/ PgwRemSgiId(p)
    PROVE  GwInv'
<1>s. SessionSide /\ SessionSide' /\ PgwTypeOK
    BY DEF GwSide, SessionSide, UeSide, TypeInv, TypeOK
<1>0. pgw_pc[p] \in {"update_s5", "update_sgi", "rem_s5", "rem_sgi"}
    BY DEF PgwUpdateS5Id, PgwUpdateSgiId, PgwRemS5Id, PgwRemSgiId, PgwAt
<1>1. PICK u \in UE : u = pgw_job[p].imsi /\ PgwOn(u) = {p} /\ PgwStage(u, PgwView(u, p))
    BY <1>0, PgwWorking
<1>2. /\ ~PgwHolds(u)
      /\ pgw_pc[p] \in {"update_s5", "rem_s5"} => pgw_job[p].teid = Tunnel(u)
      /\ pgw_pc[p] \in {"update_sgi", "rem_s5", "rem_sgi"} => pgw_job[p].ip = IpAddr(u)
  <2>1. pgw_pc[p] \in {"update_s5", "update_sgi"} =>
           pgw_job[p].teid = Tunnel(u) /\ pgw_job[p].ip = IpAddr(u)
    BY <1>1, <1>s DEF SessionSide, SessionInv, PgwLocalsOK, PgwLocalOK, PgwOwes
  <2> QED
    BY <1>0, <1>1, <2>1 DEF PgwStage, PgwView
<1>3. /\ pgw_job' = pgw_job /\ pgw_ctx' = pgw_ctx /\ UNCHANGED <<s5Vars, exited>>
      /\ UNCHANGED <<s1apVars, connVars, ranVars, mmeVars, s6aVars, s11Vars, sgwVars>>
      /\ \A q \in PgwThreads \ {p} : pgw_pc'[q] = pgw_pc[q]
  <2>1. \E pc : pgw_pc' = [pgw_pc EXCEPT ![p] = pc]
    BY DEF PgwUpdateS5Id, PgwUpdateSgiId, PgwRemS5Id, PgwRemSgiId, PgwGoto
  <2>2. \A q \in PgwThreads \ {p} : pgw_pc'[q] = pgw_pc[q]
    BY <1>s, <2>1 DEF PgwTypeOK
  <2> QED
    BY <2>2 DEF PgwUpdateS5Id, PgwUpdateSgiId, PgwRemS5Id, PgwRemSgiId, PgwNext
<1>4. /\ \A x \in UE \ {u} : /\ pgw_s5_id'[Tunnel(x)] = pgw_s5_id[Tunnel(x)]
                             /\ pgw_sgi_id'[IpAddr(x)] = pgw_sgi_id[IpAddr(x)]
      /\ \/ /\ pgw_pc[p] = "update_s5" /\ pgw_pc'[p] = "update_sgi"
            /\ pgw_s5_id'[Tunnel(u)] = u /\ pgw_sgi_id' = pgw_sgi_id
         \/ /\ pgw_pc[p] = "update_sgi" /\ pgw_pc'[p] = "init_ctx"
            /\ pgw_sgi_id'[IpAddr(u)] = u /\ pgw_s5_id' = pgw_s5_id
         \/ /\ pgw_pc[p] = "rem_s5" /\ pgw_pc'[p] = "rem_sgi"
            /\ pgw_s5_id'[Tunnel(u)] = Nil /\ pgw_sgi_id' = pgw_sgi_id
         \/ /\ pgw_pc[p] = "rem_sgi" /\ pgw_pc'[p] = "rem_uectx"
            /\ pgw_sgi_id'[IpAddr(u)] = Nil /\ pgw_s5_id' = pgw_s5_id
  <2>1. /\ Tunnel(u) \in Teid /\ IpAddr(u) \in Ip
        /\ \A x \in UE \ {u} : Tunnel(x) # Tunnel(u) /\ IpAddr(x) # IpAddr(u)
    BY TunnelFacts, AddressFacts
  <2>2. ASSUME NEW v, pgw_s5_id' = [pgw_s5_id EXCEPT ![Tunnel(u)] = v], pgw_sgi_id' = pgw_sgi_id
        PROVE  /\ pgw_s5_id'[Tunnel(u)] = v
               /\ \A x \in UE \ {u} : /\ pgw_s5_id'[Tunnel(x)] = pgw_s5_id[Tunnel(x)]
                                      /\ pgw_sgi_id'[IpAddr(x)] = pgw_sgi_id[IpAddr(x)]
    BY <1>s, <2>1, <2>2 DEF PgwTypeOK
  <2>3. ASSUME NEW v, pgw_sgi_id' = [pgw_sgi_id EXCEPT ![IpAddr(u)] = v], pgw_s5_id' = pgw_s5_id
        PROVE  /\ pgw_sgi_id'[IpAddr(u)] = v
               /\ \A x \in UE \ {u} : /\ pgw_s5_id'[Tunnel(x)] = pgw_s5_id[Tunnel(x)]
                                      /\ pgw_sgi_id'[IpAddr(x)] = pgw_sgi_id[IpAddr(x)]
    BY <1>s, <2>1, <2>3 DEF PgwTypeOK
  <2>4. CASE PgwUpdateS5Id(p)
    <3>1. /\ pgw_pc[p] = "update_s5" /\ pgw_pc'[p] = "update_sgi" /\ pgw_sgi_id' = pgw_sgi_id
          /\ pgw_s5_id' = [pgw_s5_id EXCEPT ![pgw_job[p].teid] = pgw_job[p].imsi]
      BY <1>s, <2>4 DEF PgwUpdateS5Id, PgwAt, PgwGoto, PgwTypeOK
    <3>2. pgw_s5_id' = [pgw_s5_id EXCEPT ![Tunnel(u)] = u]
      BY <1>1, <1>2, <3>1
    <3> QED
      BY <2>2, <3>1, <3>2
  <2>5. CASE PgwUpdateSgiId(p)
    <3>1. /\ pgw_pc[p] = "update_sgi" /\ pgw_pc'[p] = "init_ctx" /\ pgw_s5_id' = pgw_s5_id
          /\ pgw_sgi_id' = [pgw_sgi_id EXCEPT ![pgw_job[p].ip] = pgw_job[p].imsi]
      BY <1>s, <2>5 DEF PgwUpdateSgiId, PgwAt, PgwGoto, PgwTypeOK
    <3>2. pgw_sgi_id' = [pgw_sgi_id EXCEPT ![IpAddr(u)] = u]
      BY <1>1, <1>2, <3>1
    <3> QED
      BY <2>3, <3>1, <3>2
  <2>6. CASE PgwRemS5Id(p)
    <3>1. /\ pgw_pc[p] = "rem_s5" /\ pgw_pc'[p] = "rem_sgi" /\ pgw_sgi_id' = pgw_sgi_id
          /\ pgw_s5_id' = [pgw_s5_id EXCEPT ![pgw_job[p].teid] = Nil]
      BY <1>s, <2>6 DEF PgwRemS5Id, PgwAt, PgwGoto, PgwTypeOK
    <3>2. pgw_s5_id' = [pgw_s5_id EXCEPT ![Tunnel(u)] = Nil]
      BY <1>2, <3>1
    <3> QED
      BY <2>2, <3>1, <3>2
  <2>7. CASE PgwRemSgiId(p)
    <3>1. /\ pgw_pc[p] = "rem_sgi" /\ pgw_pc'[p] = "rem_uectx" /\ pgw_s5_id' = pgw_s5_id
          /\ pgw_sgi_id' = [pgw_sgi_id EXCEPT ![pgw_job[p].ip] = Nil]
      BY <1>s, <2>7 DEF PgwRemSgiId, PgwAt, PgwGoto, PgwTypeOK
    <3>2. pgw_sgi_id' = [pgw_sgi_id EXCEPT ![IpAddr(u)] = Nil]
      BY <1>2, <3>1
    <3> QED
      BY <2>3, <3>1, <3>2
  <2> QED
    BY <2>4, <2>5, <2>6, <2>7
<1>5. PgwTouches(p, u)
    BY <1>1, <1>3, <1>4 DEF PgwTouches, s5Vars
<1>6. PgwOn(u)' = {p} /\ ~PgwHolds(u)'
    BY <1>1, <1>2, <1>3, PgwHoldsSame DEF PgwOn
<1>7. PgwOK(u)'
  <2>1. PgwStage(u, PgwView(u, p))'
    BY <1>1, <1>3, <1>4, <1>6 DEF PgwStage, PgwView
  <2> QED
    BY <1>6, <2>1, PgwMoved
<1>8. /\ s5_req' \subseteq s5_req /\ PgwOwes(pgw_pc'[p]) # "detach"
      /\ pgw_pc'[p] \in {"rem_s5", "rem_sgi", "rem_uectx"} =>
            pgw_pc[p] \in {"rem_s5", "rem_sgi", "rem_uectx"}
    BY <1>3, <1>4 DEF PgwOwes, s5Vars
<1> QED
    BY <1>5, <1>7, <1>8, PgwKept

\* The context is initialised, and the SGW is answered.
LEMMA PgwInitCtxKept ==
    ASSUME GwSide, SessionSide', NEW p \in PgwThreads, PgwNext(p), PgwInitCtx(p)
    PROVE  GwInv'
<1>s. SessionSide /\ SessionSide' /\ PgwTypeOK
    BY DEF GwSide, SessionSide, UeSide, TypeInv, TypeOK
<1>0. pgw_pc[p] = "init_ctx"
    BY DEF PgwInitCtx, PgwAt
<1>1. PICK u \in UE : u = pgw_job[p].imsi /\ PgwOn(u) = {p} /\ PgwStage(u, PgwView(u, p))
    BY <1>0, PgwWorking
<1>2. /\ pgw_s5_id[Tunnel(u)] = u /\ pgw_sgi_id[IpAddr(u)] = u
      /\ pgw_job[p].teid = Tunnel(u) /\ pgw_job[p].ip = IpAddr(u)
      /\ sgw_job[pgw_job[p].src].imsi = u
  <2>1. pgw_s5_id[Tunnel(u)] = u /\ pgw_sgi_id[IpAddr(u)] = u
    BY <1>0, <1>1 DEF PgwStage, PgwView
  <2>2. PgwLocalOK(pgw_pc[p], pgw_job[p])
    BY <1>s DEF SessionSide, SessionInv, PgwLocalsOK
  <2> QED
    BY <1>0, <1>1, <2>1, <2>2 DEF PgwLocalOK, PgwOwes
<1> DEFINE job == pgw_job[p]
           c == [ip_addr |-> job.ip, s5_uteid_ul |-> job.teid, s5_uteid_dl |-> job.teid,
                 s5_cteid_ul |-> job.teid, s5_cteid_dl |-> job.teid]
           r == [t |-> job.src, type |-> "create", teid |-> job.teid, ul |-> job.teid,
                 ip |-> job.ip]
<1>3. /\ \A q \in PgwThreads \ {p} : pgw_pc'[q] = pgw_pc[q] /\ pgw_job'[q] = pgw_job[q]
      /\ pgw_pc'[p] = "idle" /\ pgw_job'[p].imsi = Nil
      /\ pgw_ctx' = [pgw_ctx EXCEPT ![u] = c]
      /\ s5_rsp' = s5_rsp \cup {r}
      /\ UNCHANGED <<pgw_s5_id, pgw_sgi_id, s5_req, exited>>
      /\ UNCHANGED <<s1apVars, connVars, ranVars, mmeVars, s6aVars, s11Vars, sgwVars>>
    BY <1>1, <1>s DEF PgwInitCtx, PgwNext, PgwGoto, PgwTypeOK, NoPgwJob, PgwReply
<1>4. r.type = "create" /\ sgw_job[r.t].imsi = u
    BY <1>2
<1>5. PgwFull(u, c)
  <2>1. c \in PgwContext
    BY <1>2, TunnelFacts DEF PgwContext
  <2>2. c # Nil
    BY <2>1, PgwNilAssumption
  <2> QED
    BY <1>2, <2>2 DEF PgwFull
<1> HIDE DEF job, c, r
<1>6. PgwTouches(p, u)
  <2>1. \A x \in UE \ {u} : pgw_ctx'[x] = pgw_ctx[x]
    BY <1>3, <1>s DEF PgwTypeOK
  <2>2. \A m : sgw_job[m.t].imsi # u =>
          (m \in s5_req' <=> m \in s5_req) /\ (m \in s5_rsp' <=> m \in s5_rsp)
    BY <1>3, <1>4
  <2> QED
    BY <1>1, <1>3, <2>1, <2>2 DEF PgwTouches
<1>7. PgwOn(u)' = {}
    BY <1>1, <1>3, PgwOnNext, UEFacts
<1>8. PgwHolds(u)'
  <2>1. PgwGiven(u)'
    BY <1>3, <1>4 DEF PgwGiven, sgwVars
  <2> QED
    BY <2>1 DEF PgwHolds
<1>9. PgwOK(u)'
  <2>1. pgw_ctx'[u] = c
    BY <1>3, <1>s DEF PgwTypeOK
  <2>2. PgwRest(u)'
    BY <1>2, <1>3, <1>5, <1>8, <2>1 DEF PgwRest
  <2> QED
    BY <1>7, <2>2, PgwDone
<1>10. s5_req' \subseteq s5_req /\ PgwOwes(pgw_pc'[p]) # "detach"
    BY <1>3 DEF PgwOwes
<1> QED
    BY <1>3, <1>6, <1>9, <1>10, PgwKept

\* A detach is taken: the tunnel it names leads to its subscriber.
LEMMA PgwDetachKept ==
    ASSUME Serialised, GwSide, SessionSide', NEW p \in PgwThreads, PgwNext(p), PgwDetach(p)
    PROVE  GwInv'
<1>s. SessionSide /\ SessionSide' /\ PgwTypeOK /\ GwInv
    BY DEF GwSide, SessionSide, UeSide, TypeInv, TypeOK
<1>0. pgw_pc[p] = "idle" /\ pgw_job[p].imsi = Nil
  <2>1. pgw_pc[p] = "idle"
    BY DEF PgwDetach, PgwReceive, PgwAt
  <2>2. pgw_job[p] = NoPgwJob
    BY <1>s, <2>1 DEF SessionSide, SessionInv, PgwLocalsOK, PgwLocalOK
  <2> QED
    BY <2>1, <2>2 DEF NoPgwJob
<1>1. PICK m \in s5_req :
         /\ m.type = "detach" /\ s5_req' = s5_req \ {m}
         /\ pgw_s5_id[m.teid] # Nil =>
               /\ pgw_job' = [pgw_job EXCEPT ![p] =
                                 [NoPgwJob EXCEPT !.src = m.t, !.imsi = pgw_s5_id[m.teid]]]
               /\ PgwGoto(p, "detach_ctx")
               /\ UNCHANGED <<pgw_s5_id, pgw_sgi_id, pgw_ctx, exited>>
    BY DEF PgwDetach, PgwReceive
<1>2. PICK u \in UE :
         /\ u = sgw_job[m.t].imsi /\ m.teid = Tunnel(u) /\ m.t \in S11Threads
         /\ sgw_pc[m.t] = "detach" /\ SgwOn(u) = {m.t} /\ PgwOn(u) = {} /\ PgwRest(u)
         /\ ~PgwGiven(u) /\ PgwHolds(u)
         /\ \A n \in s5_req : sgw_job[n.t].imsi = u => n = m
  <2> DEFINE u == sgw_job[m.t].imsi
  <2>1. /\ u \in UE /\ m.t \in S11Threads /\ sgw_pc[m.t] = "detach"
        /\ SgwOn(u) = {m.t} /\ PgwOn(u) = {} /\ PgwRest(u) /\ ~PgwGiven(u) /\ PgwHolds(u)
        /\ \A n \in s5_req : sgw_job[n.t].imsi = u => n = m
    BY <1>0, <1>1, PgwFreeToTake
  <2>2. m.teid = Tunnel(u)
    BY <1>1, <1>s DEF GwInv, DetachesOK
  <2> QED
    BY <2>1, <2>2
<1>3. pgw_s5_id[m.teid] = u /\ u # Nil /\ pgw_sgi_id[IpAddr(u)] = u /\ PgwFull(u, pgw_ctx[u])
    BY <1>2, UEFacts DEF PgwRest
<1>4. /\ \A q \in PgwThreads \ {p} : pgw_pc'[q] = pgw_pc[q] /\ pgw_job'[q] = pgw_job[q]
      /\ pgw_pc'[p] = "detach_ctx" /\ pgw_job'[p].imsi = u /\ pgw_job'[p].src = m.t
      /\ UNCHANGED <<pgw_s5_id, pgw_sgi_id, pgw_ctx, s5_rsp, exited>>
      /\ UNCHANGED <<s1apVars, connVars, ranVars, mmeVars, s6aVars, s11Vars, sgwVars>>
  <2> DEFINE job == [NoPgwJob EXCEPT !.src = m.t, !.imsi = pgw_s5_id[m.teid]]
  <2>1. s5_rsp' = s5_rsp
    BY DEF PgwDetach
  <2>2. job.imsi = u /\ job.src = m.t
    BY <1>3 DEF NoPgwJob
  <2>3. /\ pgw_job' = [pgw_job EXCEPT ![p] = job]
        /\ PgwGoto(p, "detach_ctx")
        /\ UNCHANGED <<pgw_s5_id, pgw_sgi_id, pgw_ctx, exited>>
    BY <1>1, <1>3
  <2> HIDE DEF job
  <2>4. /\ \A q \in PgwThreads \ {p} : pgw_pc'[q] = pgw_pc[q] /\ pgw_job'[q] = pgw_job[q]
        /\ pgw_pc'[p] = "detach_ctx" /\ pgw_job'[p] = job
    BY <1>s, <2>3 DEF PgwGoto, PgwTypeOK
  <2> QED
    BY <2>1, <2>2, <2>3, <2>4 DEF PgwNext
<1>5. PgwTouches(p, u)
    BY <1>0, <1>1, <1>2, <1>4 DEF PgwTouches
<1>6. PgwOn(u)' = {p}
    BY <1>2, <1>4, PgwOnNext
<1>7. ~PgwHolds(u)'
  <2>1. SgwOn(u)' = {m.t} /\ sgw_pc'[m.t] = "detach"
    BY <1>2, <1>4 DEF SgwOn, sgwVars
  <2>2. ~PgwAsked(u)'
    BY <1>1, <1>2, <1>4 DEF PgwAsked, sgwVars
  <2> QED
    BY <1>2, <1>s, <2>1, <2>2, PgwHoldsAtNext
<1>8. PgwOK(u)'
  <2>1. PgwStage(u, PgwView(u, p))'
    BY <1>2, <1>3, <1>4, <1>7 DEF PgwStage, PgwView
  <2> QED
    BY <1>6, <2>1, PgwMoved
<1>9. s5_req' \subseteq s5_req /\ sgw_job[pgw_job'[p].src].imsi = pgw_job'[p].imsi
    BY <1>1, <1>2, <1>4
<1> QED
    BY <1>4, <1>5, <1>8, <1>9, PgwKept

\* The context of a detach is there, and the SGW is answered before anything is removed.
LEMMA PgwDetachCtxKept ==
    ASSUME GwSide, SessionSide', NEW p \in PgwThreads, PgwNext(p), PgwDetachCtx(p)
    PROVE  GwInv'
<1>s. SessionSide /\ SessionSide' /\ PgwTypeOK /\ GwInv
    BY DEF GwSide, SessionSide, UeSide, TypeInv, TypeOK
<1>0. pgw_pc[p] = "detach_ctx"
    BY DEF PgwDetachCtx, PgwAt
<1>1. PICK u \in UE : u = pgw_job[p].imsi /\ PgwOn(u) = {p} /\ PgwStage(u, PgwView(u, p))
    BY <1>0, PgwWorking
<1>2. /\ pgw_s5_id[Tunnel(u)] = u /\ pgw_sgi_id[IpAddr(u)] = u /\ PgwFull(u, pgw_ctx[u])
      /\ ~PgwHolds(u)
    BY <1>0, <1>1 DEF PgwStage, PgwView
<1>3. sgw_job[pgw_job[p].src].imsi = u /\ ran_pc[u] = "detach"
  <2>1. PgwOwes(pgw_pc[p]) = "detach"
    BY <1>0 DEF PgwOwes
  <2>2. /\ pgw_job[p].src \in S11Threads /\ sgw_pc[pgw_job[p].src] = "detach"
        /\ sgw_job[pgw_job[p].src].imsi = u
    BY <1>1, <1>s, <2>1, Callers DEF SessionSide, UeSide, OneCall, S5Calls, S5Awaited, GwInv,
                                     DetachesOK
  <2>3. SgwOwes(sgw_pc[pgw_job[p].src]) = "detach"
    BY <2>2 DEF SgwOwes
  <2> QED
    BY <1>s, <2>2, <2>3, ThreadHolds
<1> DEFINE c == pgw_ctx[u]
           job == [pgw_job[p] EXCEPT !.teid = c.s5_cteid_ul, !.ip = c.ip_addr]
           r == [t |-> pgw_job[p].src, type |-> "detach", teid |-> c.s5_cteid_dl, ul |-> 0,
                 ip |-> NoIp]
<1>4. /\ pgw_ctx' = [pgw_ctx EXCEPT ![u] = c]
      /\ pgw_job' = [pgw_job EXCEPT ![p] = job]
      /\ s5_rsp' = s5_rsp \cup {r}
      /\ PgwGoto(p, "rem_s5")
      /\ UNCHANGED <<pgw_s5_id, pgw_sgi_id, s5_req, exited>>
      /\ UNCHANGED <<s1apVars, connVars, ranVars, mmeVars, s6aVars, s11Vars, sgwVars>>
  <2>1. PgwCtx(u) = c
    BY <1>2 DEF PgwCtx, PgwFull
  <2> HIDE DEF c
  <2> QED
    BY <1>1, <2>1 DEF PgwDetachCtx, PgwNext, PgwReply
<1>5. r.type = "detach" /\ sgw_job[r.t].imsi = u
    BY <1>3
<1>6. job.imsi = u /\ job.teid = Tunnel(u) /\ job.ip = IpAddr(u)
  <2>1. pgw_job[p] \in PgwJob
    BY <1>s DEF PgwTypeOK
  <2> QED
    BY <1>1, <1>2, <2>1 DEF PgwJob, PgwFull
<1>7. pgw_ctx' = pgw_ctx
    BY <1>4, <1>s DEF PgwTypeOK
<1> HIDE DEF c, job, r
<1>8. /\ \A q \in PgwThreads \ {p} : pgw_pc'[q] = pgw_pc[q] /\ pgw_job'[q] = pgw_job[q]
      /\ pgw_pc'[p] = "rem_s5" /\ pgw_job'[p] = job
    BY <1>4, <1>s DEF PgwGoto, PgwTypeOK
<1>9. PgwTouches(p, u)
  <2>1. \A m : sgw_job[m.t].imsi # u =>
          (m \in s5_req' <=> m \in s5_req) /\ (m \in s5_rsp' <=> m \in s5_rsp)
    BY <1>4, <1>5
  <2> QED
    BY <1>1, <1>4, <1>6, <1>7, <1>8, <2>1 DEF PgwTouches
<1>10. PgwOn(u)' = {p}
    BY <1>1, <1>6, <1>8, PgwOnNext
<1>11. ~PgwHolds(u)'
  <2>1. (PgwGiven(u)' <=> PgwGiven(u)) /\ (PgwAsked(u)' <=> PgwAsked(u))
    BY <1>4, <1>5 DEF PgwGiven, PgwAsked, sgwVars
  <2>2. (Holds(u)' <=> Holds(u)) /\ SgwOn(u)' = SgwOn(u) /\ sgw_pc' = sgw_pc
    BY <1>4, PgwLeavesHolds DEF SgwOn, sgwVars
  <2> QED
    BY <1>2, <2>1, <2>2 DEF PgwHolds
<1>12. PgwOK(u)'
  <2>1. pgw_ctx'[u] # Nil
    BY <1>2, <1>7 DEF PgwFull
  <2>2. PgwStage(u, PgwView(u, p))'
    BY <1>2, <1>4, <1>6, <1>8, <1>11, <2>1 DEF PgwStage, PgwView
  <2> QED
    BY <1>10, <2>2, PgwMoved
<1>13. s5_req' \subseteq s5_req /\ PgwOwes(pgw_pc'[p]) # "detach"
    BY <1>4, <1>8 DEF PgwOwes
<1> QED
    BY <1>3, <1>9, <1>12, <1>13, PgwKept

\* The last removal.
LEMMA PgwRemUectxKept ==
    ASSUME GwSide, SessionSide', NEW p \in PgwThreads, PgwNext(p), PgwRemUectx(p)
    PROVE  GwInv'
<1>s. SessionSide /\ SessionSide' /\ PgwTypeOK
    BY DEF GwSide, SessionSide, UeSide, TypeInv, TypeOK
<1>0. pgw_pc[p] = "rem_uectx"
    BY DEF PgwRemUectx, PgwAt
<1>1. PICK u \in UE : u = pgw_job[p].imsi /\ PgwOn(u) = {p} /\ PgwStage(u, PgwView(u, p))
    BY <1>0, PgwWorking
<1>2. pgw_s5_id[Tunnel(u)] = Nil /\ pgw_sgi_id[IpAddr(u)] = Nil /\ ~PgwHolds(u)
    BY <1>0, <1>1 DEF PgwStage, PgwView
<1>3. /\ \A q \in PgwThreads \ {p} : pgw_pc'[q] = pgw_pc[q] /\ pgw_job'[q] = pgw_job[q]
      /\ pgw_pc'[p] = "idle" /\ pgw_job'[p].imsi = Nil
      /\ \A x \in UE \ {u} : pgw_ctx'[x] = pgw_ctx[x]
      /\ pgw_ctx'[u] = Nil
      /\ UNCHANGED <<pgw_s5_id, pgw_sgi_id, s5Vars, exited>>
      /\ UNCHANGED <<s1apVars, connVars, ranVars, mmeVars, s6aVars, s11Vars, sgwVars>>
    BY <1>1, <1>s DEF PgwRemUectx, PgwNext, PgwGoto, PgwTypeOK, NoPgwJob
<1>4. PgwTouches(p, u)
    BY <1>1, <1>3 DEF PgwTouches, s5Vars
<1>5. PgwOn(u)' = {}
    BY <1>1, <1>3, PgwOnNext, UEFacts
<1>6. PgwOK(u)'
  <2>1. ~PgwHolds(u)'
    BY <1>2, <1>3, PgwHoldsSame
  <2>2. PgwRest(u)'
    BY <1>2, <1>3, <2>1 DEF PgwRest
  <2> QED
    BY <1>5, <2>2, PgwDone
<1>7. s5_req' \subseteq s5_req /\ PgwOwes(pgw_pc'[p]) # "detach"
    BY <1>3 DEF PgwOwes, s5Vars
<1> QED
    BY <1>3, <1>4, <1>6, <1>7, PgwKept

\* Every step of the PGW keeps the gateways in order.
LEMMA PgwGatewaysKept ==
    ASSUME Serialised, Addressable, GwSide, SessionSide', NEW p \in PgwThreads, PgwNext(p)
    PROVE  GwInv'
BY PgwCreateSessionKept, PgwTableKept, PgwInitCtxKept, PgwDetachKept, PgwDetachCtxKept,
   PgwRemUectxKept DEF PgwNext, PgwStep

-----------------------------------------------------------------------------
(* The invariant and what follows from it.                                 *)

\* At start no gateway holds or works on anybody.
LEMMA InitGateways == Init => GwInv
<1> SUFFICES ASSUME Init PROVE GwInv
    OBVIOUS
<1> USE DEF Init, RanInit, SctpInit, UdpInit, SgwInit, PgwInit
<1>1. \A u \in UE : SgwOn(u) = {} /\ PgwOn(u) = {}
    BY UEFacts DEF SgwOn, PgwOn, NoSgwJob, NoPgwJob
<1>2. \A u \in UE : ~Holds(u) /\ ~PgwHolds(u)
  <2> SUFFICES ASSUME NEW u \in UE PROVE ~Holds(u) /\ ~PgwHolds(u)
    OBVIOUS
  <2>1. View(u).pc = "connect"
    BY DEF View
  <2>2. ~Holds(u)
    BY <2>1 DEF Holds, Given, Asked, Offered
  <2> QED
    BY <1>1, <2>2 DEF PgwHolds, PgwGiven, PgwAsked
<1>3. ASSUME NEW u \in UE PROVE SgwOK(u)
  <2>1. SgwIn(u) = {}
    BY UEFacts, NumberingFacts DEF SgwIn, Tunnel
  <2> QED
    BY <1>1, <1>2, <2>1 DEF SgwOK, SgwRest
<1>4. ASSUME NEW u \in UE PROVE PgwOK(u)
  <2>1. pgw_s5_id[Tunnel(u)] = Nil /\ pgw_sgi_id[IpAddr(u)] = Nil
    BY UEFacts, NumberingFacts DEF Tunnel
  <2> QED
    BY <1>1, <1>2, <2>1 DEF PgwOK, PgwRest
<1>5. \A u \in UE : ~Removing(u)
    BY <1>1 DEF Removing
<1>6. DetachesOK
  <2>1. \A p \in PgwThreads : PgwOwes(pgw_pc[p]) = "none"
    BY DEF PgwOwes
  <2> QED
    BY <2>1 DEF DetachesOK
<1> QED
    BY <1>3, <1>4, <1>5, <1>6 DEF GwInv, NoExit

\* Every step keeps the gateways in order.
LEMMA NextGateways == Serialised /\ Addressable /\ GwSide /\ [Next]_vars => GwSide'
<1> SUFFICES ASSUME Serialised, Addressable, GwSide, [Next]_vars PROVE GwSide'
    OBVIOUS
<1>1. SessionSide'
    BY NextSide, NextSession DEF GwSide, SessionSide
<1>2. ASSUME vars' = vars PROVE GwInv'
  <2>1. UNCHANGED <<s1apVars, ranVars, mmeVars, s11Vars, s5Vars, sgwVars, pgwVars, exited>>
    BY <1>2 DEF vars
  <2>2. \A x \in UE : Offered(View(x))' <=> Offered(View(x))
    BY <2>1, OfferedSame DEF ranVars, s1apVars
  <2>3. \A x \in UE : Holds(x)' <=> Holds(x)
    BY <2>1, <2>2 DEF Holds, Given, Asked, s11Vars, mmeVars
  <2>4. exited' = {} /\ \A x \in UE : Removing(x) /\ MaxRounds <= 1 => Gone(x)'
    BY <2>1 DEF GwSide, GwInv, NoExit, Gone, ranVars
  <2> QED
    BY <2>1, <2>3, <2>4, GatewaysStill
<1>3. ASSUME Next PROVE GwInv'
  <2>1. CASE \E u \in UE : RanNext(u)
    BY <1>1, <2>1, RanGateways
  <2>2. CASE AcceptNext \/ \E w \in Worker : HssNext(w)
    BY <2>2, HssGatewaysKept
  <2>3. CASE \E w \in Worker : MmeNext(w)
    BY <1>1, <2>3, MmeGatewaysKept
  <2>4. CASE \E t \in S11Threads : SgwNext(t)
    BY <1>1, <2>4, SgwGatewaysKept
  <2>5. CASE \E p \in PgwThreads : PgwNext(p)
    BY <1>1, <2>5, PgwGatewaysKept
  <2>6. CASE Terminating
    BY <1>2, <2>6 DEF Terminating
  <2> QED
    BY <1>3, <2>1, <2>2, <2>3, <2>4, <2>5, <2>6 DEF Next
<1> QED
    BY <1>1, <1>2, <1>3 DEF GwSide

\* All of it holds in every state.
LEMMA GwSideAlways == ASSUME Serialised, Addressable PROVE Spec => []GwSide
<1>1. Init => GwSide
    BY InitType, InitCalls, InitUe, InitSession, InitGateways DEF GwSide, SessionSide, UeSide
<1>2. GwSide /\ [Next]_vars => GwSide'
    BY NextGateways
<1> QED
    BY <1>1, <1>2, PTL DEF Spec

\* GwInv is an invariant: whatever the interleaving, what SGW and PGW hold of a
\* subscriber is what the stage of its session calls for.
THEOREM GatewayInvariance == ASSUME Serialised, Addressable PROVE Spec => []GwInv
<1>1. GwSide => GwInv
    BY DEF GwSide
<1> QED
    BY <1>1, GwSideAlways, PTL

\* NoExit is an invariant: no assertion of any process fails.
THEOREM NobodyExits == ASSUME Serialised, Addressable PROVE Spec => []NoExit
<1>1. GwInv => NoExit
    BY DEF GwInv
<1> QED
    BY <1>1, GatewayInvariance, PTL

\* A subscriber that holds its session finds it complete in the SGW, also while
\* a thread enters the eNodeB into it, ...
LEMMA HeldBySgw ==
    ASSUME GwSide, NEW u \in UE, Holds(u)
    PROVE  /\ SgwIn(u) = Itf /\ SgwFull(u, sgw_ctx[u])
           /\ PgwHolds(u)
<1>1. SgwOK(u)
    BY DEF GwSide, GwInv
<1>2. CASE SgwOn(u) = {}
    BY <1>1, <1>2 DEF SgwOK, SgwRest, PgwHolds
<1>3. ASSUME NEW t \in SgwOn(u)
      PROVE  SgwIn(u) = Itf /\ SgwFull(u, sgw_ctx[u]) /\ PgwHolds(u)
  <2>1. SgwStage(u, SgwView(u, t))
    BY <1>1, <1>3 DEF SgwOK
  <2>2. sgw_pc[t] = "modify_ctx" /\ SgwIn(u) = Itf /\ SgwFull(u, sgw_ctx[u])
    BY <2>1 DEF SgwStage, SgwView
  <2> QED
    BY <1>3, <2>2 DEF PgwHolds
<1> QED
    BY <1>2, <1>3

\* ... and in the PGW.
LEMMA HeldByPgw ==
    ASSUME GwSide, NEW u \in UE, PgwHolds(u)
    PROVE  /\ pgw_s5_id[Tunnel(u)] = u /\ pgw_sgi_id[IpAddr(u)] = u
           /\ PgwFull(u, pgw_ctx[u])
<1>1. PgwOK(u)
    BY DEF GwSide, GwInv
<1>2. PgwOn(u) = {}
  <2> SUFFICES ASSUME NEW p \in PgwOn(u) PROVE FALSE
    OBVIOUS
  <2>1. PgwStage(u, PgwView(u, p))
    BY <1>1 DEF PgwOK
  <2> QED
    BY <2>1 DEF PgwStage, PgwView
<1> QED
    BY <1>1, <1>2 DEF PgwOK, PgwRest

\* The bearer of a terminal that transfers data is connected.
LEMMA Connected == GwSide => BearerConnected
<1> SUFFICES ASSUME GwSide, NEW u \in UE, Attached(u)
             PROVE  UplinkConnected(u) /\ DownlinkConnected(u)
    BY DEF BearerConnected
<1>1. /\ Offered(View(u))
      /\ ran_ctx[u].s1_uteid_ul = Tunnel(u)
      /\ ran_ctx[u].s1_uteid_dl = Tunnel(u)
      /\ ran_ctx[u].ip_addr = IpAddr(u)
  <2>1. BearerOK(u, View(u))
    BY DEF GwSide, SessionSide, SessionInv, BearersOK
  <2>2. View(u).pc = "transfer" /\ View(u).ran = ran_ctx[u]
    BY DEF View, Attached
  <2> QED
    BY <2>1, <2>2 DEF BearerOK, Offered
<1>2. SgwIn(u) = Itf /\ SgwFull(u, sgw_ctx[u]) /\ PgwHolds(u)
    BY <1>1, HeldBySgw DEF Holds
<1>3. /\ pgw_s5_id[Tunnel(u)] = u /\ pgw_sgi_id[IpAddr(u)] = u
      /\ PgwFull(u, pgw_ctx[u])
    BY <1>2, HeldByPgw
<1>4. \A i \in Itf : sgw_id[i][Tunnel(u)] = u
    BY <1>2 DEF SgwIn
<1>5. sgw_id[1][Tunnel(u)] = u /\ sgw_id[5][Tunnel(u)] = u
    BY <1>4 DEF Itf
<1>6. UplinkConnected(u)
    BY <1>1, <1>2, <1>3, <1>5 DEF UplinkConnected, SgwFull, SgwHalf
<1>7. DownlinkConnected(u)
    BY <1>1, <1>2, <1>3, <1>5 DEF DownlinkConnected, SgwFull, SgwHalf, PgwFull
<1> QED
    BY <1>6, <1>7

\* BearerConnected is an invariant: while a terminal transfers data, both
\* directions of its bearer lead through the tables of both gateways.
THEOREM BearersConnected == ASSUME Serialised, Addressable PROVE Spec => []BearerConnected
BY Connected, GwSideAlways, PTL

\* The answer to a create is about the subscriber of the worker that reads it.
LEMMA Matched == GwSide => SessionsMatch
<1> SUFFICES ASSUME GwSide, NEW m \in s11_rsp, m.type = "create"
             PROVE  /\ sgw_id[11][m.s11] = mme_job[m.w].guti
                    /\ sgw_id[1][m.ul] = mme_job[m.w].guti
    BY DEF SessionsMatch
<1> DEFINE u == mme_job[m.w].conn
<1>1. m.w \in Worker /\ mme_pc[m.w] = "create"
  <2>1. m.w \in Worker /\ mme_pc[m.w] = m.type
    BY Callers DEF GwSide, SessionSide, UeSide, OneCall, S11Calls, S11Awaited
  <2> QED
    BY <2>1
<1>2. u \in UE /\ mme_job[m.w].guti = u
    BY <1>1 DEF GwSide, SessionSide, UeSide, UeInv, WorkersOK, TypeInv, MmeJobsOK
<1>3. m.s11 = Tunnel(u) /\ m.ul = Tunnel(u)
    BY DEF GwSide, SessionSide, SessionInv, S11Content, S11AnswerOK
<1>4. Holds(u)
    BY DEF Holds, Given
<1>5. SgwIn(u) = Itf
    BY <1>2, <1>4, HeldBySgw
<1>6. \A i \in Itf : sgw_id[i][Tunnel(u)] = u
    BY <1>5 DEF SgwIn
<1>7. sgw_id[11][Tunnel(u)] = u /\ sgw_id[1][Tunnel(u)] = u
    BY <1>6 DEF Itf
<1> QED
    BY <1>2, <1>3, <1>7

\* SessionsMatch is an invariant: an answer to a create names tunnels that the
\* SGW has entered for the very subscriber its reader serves.
THEOREM SessionsAlwaysMatch == ASSUME Serialised, Addressable PROVE Spec => []SessionsMatch
BY Matched, GwSideAlways, PTL

-----------------------------------------------------------------------------
(* Tables.                                                                 *)

\* A subscriber has one entry in a table of the SGW at most.
LEMMA SgwEntries ==
    ASSUME GwSide, NEW u \in UE, NEW i \in Itf
    PROVE  Entries(sgw_id[i], u) = IF i \in SgwIn(u) THEN {Tunnel(u)} ELSE {}
<1>1. DOMAIN sgw_id[i] = Teid
    BY DEF GwSide, SessionSide, UeSide, TypeInv, TypeOK, SgwTypeOK
<1>2. \A x \in Teid : sgw_id[i][x] = u => x = Tunnel(u)
    BY UEFacts DEF GwSide, SessionSide, SessionInv, TablesOK
<1>3. Tunnel(u) \in Teid
    BY TunnelFacts
<1> QED
    BY <1>1, <1>2, <1>3 DEF Entries, SgwIn

\* ... and of the PGW.
LEMMA PgwEntries ==
    ASSUME GwSide, NEW u \in UE
    PROVE  /\ Entries(pgw_s5_id, u) = IF pgw_s5_id[Tunnel(u)] = u THEN {Tunnel(u)} ELSE {}
           /\ Entries(pgw_sgi_id, u) = IF pgw_sgi_id[IpAddr(u)] = u THEN {IpAddr(u)} ELSE {}
<1>1. DOMAIN pgw_s5_id = Teid /\ DOMAIN pgw_sgi_id = Ip
    BY DEF GwSide, SessionSide, UeSide, TypeInv, TypeOK, PgwTypeOK
<1>2. /\ \A x \in Teid : pgw_s5_id[x] = u => x = Tunnel(u)
      /\ \A a \in Ip : pgw_sgi_id[a] = u => a = IpAddr(u)
    BY UEFacts DEF GwSide, SessionSide, SessionInv, TablesOK
<1>3. Tunnel(u) \in Teid /\ IpAddr(u) \in Ip
    BY TunnelFacts
<1> QED
    BY <1>1, <1>2, <1>3 DEF Entries

\* The SGW's tables agree on a subscriber that no thread works on.
LEMMA SgwSettled == GwSide => SgwConsistent
<1> SUFFICES ASSUME GwSide, NEW u \in UE, \A t \in S11Threads : sgw_job[t].imsi # u
             PROVE  IF sgw_ctx[u] = Nil THEN \A i \in Itf : Entries(sgw_id[i], u) = {}
                    ELSE \A i \in Itf : Cardinality(Entries(sgw_id[i], u)) = 1
    BY DEF SgwConsistent
<1>1. SgwRest(u)
  <2>1. SgwOn(u) = {}
    BY DEF SgwOn
  <2> QED
    BY <2>1 DEF GwSide, GwInv, SgwOK
<1>2. CASE Holds(u)
  <2>1. SgwIn(u) = Itf /\ sgw_ctx[u] # Nil
    BY <1>1, <1>2 DEF SgwRest, SgwFull, SgwHalf
  <2>2. \A i \in Itf : Entries(sgw_id[i], u) = {Tunnel(u)}
    BY <2>1, SgwEntries
  <2> QED
    BY <2>1, <2>2, FS_Singleton
<1>3. CASE ~Holds(u)
  <2>1. SgwIn(u) = {} /\ sgw_ctx[u] = Nil
    BY <1>1, <1>3 DEF SgwRest
  <2> QED
    BY <2>1, SgwEntries
<1> QED
    BY <1>2, <1>3

\* So do the PGW's.
LEMMA PgwSettled == GwSide => PgwConsistent
<1> SUFFICES ASSUME GwSide, NEW u \in UE, \A p \in PgwThreads : pgw_job[p].imsi # u
             PROVE  IF pgw_ctx[u] = Nil
                    THEN Entries(pgw_s5_id, u) = {} /\ Entries(pgw_sgi_id, u) = {}
                    ELSE /\ Cardinality(Entries(pgw_s5_id, u)) = 1
                         /\ Cardinality(Entries(pgw_sgi_id, u)) = 1
    BY DEF PgwConsistent
<1>1. PgwRest(u)
  <2>1. PgwOn(u) = {}
    BY DEF PgwOn
  <2> QED
    BY <2>1 DEF GwSide, GwInv, PgwOK
<1>2. CASE PgwHolds(u)
  <2>1. pgw_s5_id[Tunnel(u)] = u /\ pgw_sgi_id[IpAddr(u)] = u /\ pgw_ctx[u] # Nil
    BY <1>1, <1>2 DEF PgwRest, PgwFull
  <2>2. Entries(pgw_s5_id, u) = {Tunnel(u)} /\ Entries(pgw_sgi_id, u) = {IpAddr(u)}
    BY <2>1, PgwEntries
  <2> QED
    BY <2>1, <2>2, FS_Singleton
<1>3. CASE ~PgwHolds(u)
  <2>1. pgw_s5_id[Tunnel(u)] = Nil /\ pgw_sgi_id[IpAddr(u)] = Nil /\ pgw_ctx[u] = Nil
    BY <1>1, <1>3 DEF PgwRest
  <2> QED
    BY <2>1, PgwEntries, UEFacts
<1> QED
    BY <1>2, <1>3

\* SgwConsistent is an invariant: a subscriber whom no SGW thread is working on
\* has a context and one entry in each of the three tables, or nothing.
THEOREM SgwTablesAgree == ASSUME Serialised, Addressable PROVE Spec => []SgwConsistent
BY SgwSettled, GwSideAlways, PTL

\* PgwConsistent is an invariant: the same of the two tables of the PGW.
THEOREM PgwTablesAgree == ASSUME Serialised, Addressable PROVE Spec => []PgwConsistent
BY PgwSettled, GwSideAlways, PTL

\* A subscriber that has left, and for whom no thread is at work, is unknown to
\* every node.
LEMMA NothingLeft == GwSide => NoResidue
<1> SUFFICES ASSUME GwSide, NEW u \in UE, ~Busy(u)
             PROVE  /\ Entries(s1mme_id, u) = {} /\ mme_ctx[u] = Nil
                    /\ sgw_ctx[u] = Nil /\ \A i \in Itf : Entries(sgw_id[i], u) = {}
                    /\ pgw_ctx[u] = Nil
                    /\ Entries(pgw_s5_id, u) = {} /\ Entries(pgw_sgi_id, u) = {}
    BY DEF NoResidue
<1>1. /\ ran_pc[u] \in {"connect", "loop", "done"}
      /\ \A w \in Worker : mme_job[w].conn # u
      /\ SgwOn(u) = {} /\ PgwOn(u) = {}
    BY DEF Busy, SgwOn, PgwOn
<1>2. Entries(s1mme_id, u) = {} /\ mme_ctx[u] = Nil
  <2>1. conn_worker[u] \in Worker \cup {Nil}
    BY DEF GwSide, SessionSide, UeSide, TypeInv, TypeOK, SctpTypeOK
  <2>2. Handler(u).pc = "idle"
    BY <1>1, <2>1 DEF Handler
  <2>3. IdsOK(View(u))
    BY ViewsOK DEF GwSide, SessionSide, ViewOK
  <2>4. Left(View(u)) /\ View(u).at.pc = "idle"
    BY <1>1, <2>2 DEF Left, View
  <2>5. View(u).ids = {} /\ View(u).ctx = Nil
    BY <2>3, <2>4 DEF IdsOK
  <2> QED
    BY <2>5 DEF View
<1>3. ~Holds(u)
  <2>1. ~Offered(View(u))
    BY <1>1 DEF Offered, View
  <2>2. \A m \in s11_req \cup s11_rsp : m.w \in Worker
    BY Callers DEF GwSide, SessionSide, UeSide
  <2> QED
    BY <1>1, <2>1, <2>2 DEF Holds, Given, Asked
<1>4. ~PgwHolds(u)
  <2>1. \A m \in s5_req \cup s5_rsp : m.t \in S11Threads
    BY Callers DEF GwSide, SessionSide, UeSide
  <2>2. ~PgwGiven(u) /\ ~PgwAsked(u)
    BY <1>1, <2>1 DEF PgwGiven, PgwAsked, SgwOn
  <2> QED
    BY <1>1, <1>3, <2>2 DEF PgwHolds
<1>5. SgwIn(u) = {} /\ sgw_ctx[u] = Nil
    BY <1>1, <1>3 DEF GwSide, GwInv, SgwOK, SgwRest
<1>6. pgw_s5_id[Tunnel(u)] = Nil /\ pgw_sgi_id[IpAddr(u)] = Nil /\ pgw_ctx[u] = Nil
    BY <1>1, <1>4 DEF GwSide, GwInv, PgwOK, PgwRest
<1>7. \A i \in Itf : Entries(sgw_id[i], u) = {}
    BY <1>5, SgwEntries
<1>8. Entries(pgw_s5_id, u) = {} /\ Entries(pgw_sgi_id, u) = {}
    BY <1>6, PgwEntries, UEFacts
<1> QED
    BY <1>2, <1>5, <1>6, <1>7, <1>8

\* NoResidue is an invariant: a detach leaves nothing behind in any node.
THEOREM NothingStaysBehind == ASSUME Serialised, Addressable PROVE Spec => []NoResidue
BY NothingLeft, GwSideAlways, PTL

\* NoInterference is an invariant: all of these hold together, so no thread of a
\* gateway disturbs what another one's subscriber relies on.
THEOREM ThreadsDoNotInterfere == ASSUME Serialised, Addressable PROVE Spec => []NoInterference
<1>1. NoExit /\ BearerConnected /\ RanReadsExpected /\ SessionsMatch /\ SgwConsistent
      /\ PgwConsistent /\ NoResidue => NoInterference
    BY DEF NoInterference
<1> QED
    BY <1>1, NobodyExits, BearersConnected, RanReadsWhatItWaitsFor, SessionsAlwaysMatch,
       SgwTablesAgree, PgwTablesAgree, NothingStaysBehind, PTL

-----------------------------------------------------------------------------
\* A step is one of the service's, or none of its concern.
Promised == Bearer!BearerNext \/ UNCHANGED Bearer!bearerVars

\* What is known of every state.
BearerSide == GwSide /\ GenuineInv

-----------------------------------------------------------------------------
(* The nodes that serve a subscriber.                                      *)

\* A node serves a subscriber when it has its context and all its entries.
ServedBy(u) ==
    /\ Serving(u) \subseteq Bearer!Node
    /\ "mme" \in Serving(u) <=> mme_ctx[u] # Nil
    /\ "sgw" \in Serving(u) <=> sgw_ctx[u] # Nil /\ SgwIn(u) = Itf
    /\ "pgw" \in Serving(u) <=> /\ pgw_ctx[u] # Nil
                                /\ pgw_s5_id[Tunnel(u)] = u
                                /\ pgw_sgi_id[IpAddr(u)] = u

\* ... and its entries stand under the subscriber's own identifiers.
LEMMA ServingIs == GwSide => \A u \in UE : ServedBy(u)
<1> SUFFICES ASSUME GwSide, NEW u \in UE PROVE ServedBy(u)
    OBVIOUS
<1>1. SgwIn(u) = Itf <=> \A i \in Itf : Entries(sgw_id[i], u) # {}
  <2>1. \A i \in Itf : Entries(sgw_id[i], u) # {} <=> i \in SgwIn(u)
    BY SgwEntries
  <2>2. SgwIn(u) \subseteq Itf
    BY DEF SgwIn
  <2> QED
    BY <2>1, <2>2
<1>2. /\ pgw_s5_id[Tunnel(u)] = u <=> Entries(pgw_s5_id, u) # {}
      /\ pgw_sgi_id[IpAddr(u)] = u <=> Entries(pgw_sgi_id, u) # {}
    BY PgwEntries
<1> QED
    BY <1>1, <1>2 DEF ServedBy, Serving, Bearer!Node

\* ... after a step, too.
LEMMA ServingIsNext == GwSide' => (\A u \in UE : ServedBy(u))'
BY ServingIs, PTL

\* A subscriber that has been offered its bearer is served by every node.
LEMMA OfferedServed == GwSide => \A u \in UE : Offered(View(u)) => Serving(u) = Bearer!Node
<1> SUFFICES ASSUME GwSide, NEW u \in UE, Offered(View(u)) PROVE Serving(u) = Bearer!Node
    OBVIOUS
<1>1. SgwIn(u) = Itf /\ SgwFull(u, sgw_ctx[u]) /\ PgwHolds(u)
    BY HeldBySgw DEF Holds
<1>2. /\ pgw_s5_id[Tunnel(u)] = u /\ pgw_sgi_id[IpAddr(u)] = u
      /\ PgwFull(u, pgw_ctx[u])
    BY <1>1, HeldByPgw
<1>3. mme_ctx[u] # Nil
  <2>1. KeysOK(u, View(u)) /\ View(u).ctx = mme_ctx[u]
    BY ViewsOK DEF GwSide, SessionSide, ViewOK, View
  <2>2. Known(View(u))
    BY DEF Offered, Known
  <2> QED
    BY <2>1, <2>2 DEF KeysOK
<1>4. ServedBy(u)
    BY ServingIs
<1> QED
    BY <1>1, <1>2, <1>3, <1>4 DEF ServedBy, Bearer!Node, SgwFull, SgwHalf, PgwFull

\* So is one that transfers data, before and after a step.
LEMMA AttachedServed == GwSide => \A u \in UE : ran_pc[u] = "transfer" => Serving(u) = Bearer!Node
<1>1. \A u \in UE : ran_pc[u] = "transfer" => Offered(View(u))
    BY DEF Offered, View
<1> QED
    BY <1>1, OfferedServed

\* The same after a step.
LEMMA AttachedServedNext ==
    GwSide' => (\A u \in UE : ran_pc[u] = "transfer" => Serving(u) = Bearer!Node)'
BY AttachedServed, PTL

-----------------------------------------------------------------------------
(* Steps of the service.                                                   *)

\* How the phase of a subscriber may change.
PhaseMove(u) ==
    \/ Phase(u)' = Phase(u)
    \/ Phase(u) = "idle" /\ Phase(u)' = "attaching"
    \/ Phase(u) = "attaching" /\ Phase(u)' = "attached" /\ Serving(u) = Bearer!Node
    \/ Phase(u) = "attaching" /\ Phase(u)' = "rejected" /\ Serving(u) = {"mme"}
    \/ Phase(u) = "attached" /\ Phase(u)' = "releasing"
    \/ Phase(u) = "releasing" /\ Phase(u)' = "idle"

\* A step that moves one subscriber and no node.
LEMMA PhaseStep ==
    ASSUME NEW u \in UE, \A x \in UE : Serving(x)' = Serving(x),
           \A x \in UE \ {u} : Phase(x)' = Phase(x), PhaseMove(u)
    PROVE  Promised
<1> DEFINE ph == [x \in UE |-> Phase(x)]
           nd == [x \in UE |-> Serving(x)]
<1>1. nd' = nd
    OBVIOUS
<1>2. ph' = [ph EXCEPT ![u] = Phase(u)']
    OBVIOUS
<1>3. ph[u] = Phase(u) /\ nd[u] = Serving(u)
    OBVIOUS
<1>4. Phase(u)' = Phase(u) => ph' = ph
    OBVIOUS
<1> QED
    BY <1>1, <1>2, <1>3, <1>4 DEF PhaseMove, Promised, Bearer!BearerNext, Bearer!bearerVars,
       Bearer!Request, Bearer!Accept, Bearer!Reject, Bearer!Release, Bearer!Released, Bearer!Step

\* A step of one node for one subscriber: it may begin to serve it in its turn,
\* and it never stops while the subscriber is attached.
LEMMA NodeStep ==
    ASSUME GwSide, GwSide', ran_pc' = ran_pc, NEW u \in UE, NEW n \in Bearer!Node,
           \A x \in UE, k \in Bearer!Node :
              x # u \/ k # n => (k \in Serving(x)' <=> k \in Serving(x)),
           n \in Serving(u)' /\ n \notin Serving(u) =>
              Phase(u) = "attaching" /\ Bearer!Before[n] \subseteq Serving(u)
    PROVE  Promised
<1> DEFINE ph == [x \in UE |-> Phase(x)]
           nd == [x \in UE |-> Serving(x)]
<1>1. \A x \in UE : Phase(x)' = Phase(x)
    BY DEF Phase
<1>2. ph' = ph
    BY <1>1
<1>3. \A x \in UE : Serving(x) \subseteq Bearer!Node /\ Serving(x)' \subseteq Bearer!Node
    BY ServingIs, ServingIsNext DEF ServedBy
<1>4. \A x \in UE \ {u} : Serving(x)' = Serving(x)
    BY <1>3
<1>5. nd' = [nd EXCEPT ![u] = Serving(u)']
    BY <1>4
<1>6. ph[u] = Phase(u) /\ nd[u] = Serving(u)
    OBVIOUS
<1>7. CASE n \in Serving(u)' /\ n \notin Serving(u)
  <2>1. Serving(u)' = Serving(u) \cup {n}
    BY <1>3, <1>7
  <2>2. Bearer!Serve(u, n)
    BY <1>2, <1>5, <1>6, <1>7, <2>1 DEF Bearer!Serve
  <2> QED
    BY <2>2 DEF Promised, Bearer!BearerNext
<1>8. CASE n \notin Serving(u)' /\ n \in Serving(u)
  <2>1. Serving(u)' = Serving(u) \ {n}
    BY <1>3, <1>8
  <2>2. Phase(u) # "attached"
    <3>1. ran_pc[u] # "transfer"
      BY <1>8, AttachedServedNext
    <3>2. ran_pc[u] \in RanPc
      BY DEF GwSide, SessionSide, UeSide, TypeInv, TypeOK, RanTypeOK
    <3> QED
      BY <3>1, <3>2 DEF Phase, RanPc
  <2>3. Bearer!Forget(u, n)
    BY <1>2, <1>5, <1>6, <1>8, <2>1, <2>2 DEF Bearer!Forget
  <2> QED
    BY <2>3 DEF Promised, Bearer!BearerNext
<1>9. CASE n \in Serving(u)' <=> n \in Serving(u)
  <2>1. Serving(u)' = Serving(u)
    BY <1>3, <1>9
  <2>2. nd' = nd
    BY <1>5, <2>1
  <2> QED
    BY <1>2, <2>2 DEF Promised, Bearer!bearerVars
<1> QED
    BY <1>7, <1>8, <1>9

-----------------------------------------------------------------------------
(* Terminals.                                                              *)

\* A terminal goes from phase to phase as the service allows: it is attached
\* only when every node serves it, and gives up only when none but the MME does.
LEMMA RanPhases ==
    ASSUME BearerSide, NEW u \in UE, RanNext(u)
    PROVE  (\A x \in UE \ {u} : ran_pc'[x] = ran_pc[x]) /\ PhaseMove(u)
<1>s. GwSide /\ SessionSide /\ UeSide /\ ran_pc \in [UE -> RanPc]
    BY DEF BearerSide, GwSide, SessionSide, UeSide, TypeInv, TypeOK, RanTypeOK
<1>v. /\ View(u) \in Views /\ ViewOK(u, View(u)) /\ View(u).pc = ran_pc[u]
      /\ View(u).dn = s1ap_dn[u] /\ View(u).ctx = mme_ctx[u]
    BY <1>s, Before
<1>1. CASE ConnMme(u) \/ TimeExceeded(u)
  <2>1. ran_pc[u] \in {"connect", "loop"} /\ \E pc \in {"loop", "done"} :
           ran_pc' = [ran_pc EXCEPT ![u] = pc]
    BY <1>1 DEF ConnMme, TimeExceeded, Leave, Goto
  <2> QED
    BY <1>s, <2>1 DEF PhaseMove, Phase
<1>2. CASE InitialAttach(u)
  <2>1. ran_pc[u] = "loop" /\ ran_pc' = [ran_pc EXCEPT ![u] = "authenticate"]
    BY <1>2 DEF InitialAttach, Goto
  <2> QED
    BY <1>s, <2>1 DEF PhaseMove, Phase
<1>3. CASE Authenticate(u)
  <2> DEFINE m == Head(s1ap_dn[u])
  <2>1. ran_pc[u] = "authenticate" /\ s1ap_dn[u] # <<>>
    BY <1>3 DEF Authenticate, RcvDn
  <2>2. CASE Autn(Xres(RanKey(u), m.rand)) = m.autn
    <3>1. ran_pc' = [ran_pc EXCEPT ![u] = "set_security"]
      BY <1>3, <2>2 DEF Authenticate, Goto
    <3> QED
      BY <1>s, <2>1, <3>1 DEF PhaseMove, Phase
  <2>3. CASE Autn(Xres(RanKey(u), m.rand)) # m.autn
    <3>1. ran_pc' = [ran_pc EXCEPT ![u] = "failed"]
      BY <1>3, <2>3 DEF Authenticate, Leave, Goto
    <3>2. /\ m.autn = Autn(HssXres(u)) /\ m.rand = HssRand[u]
          /\ mme_ctx[u] # Nil
      <4>1. s1ap_dn[u] \in Seq(DnMsg)
        BY <1>v DEF Views
      <4>2. 1 \in 1 .. Len(s1ap_dn[u]) /\ m = s1ap_dn[u][1]
        BY <2>1, <4>1, TakeFacts
      <4>3. ~None(s1ap_dn[u])
        BY <2>1, <4>1, NoneFact
      <4> QED
        BY <1>v, <2>1, <4>2, <4>3 DEF ViewOK, KeysOK
    <3>3. u \notin Genuine
      BY <2>3, <3>2 DEF Genuine, HssXres
    <3>4. sgw_ctx[u] = Nil /\ pgw_ctx[u] = Nil
      BY <3>3 DEF BearerSide, GenuineInv
    <3>5. Serving(u) = {"mme"}
      BY <1>s, <3>2, <3>4, ServingIs DEF ServedBy, Bearer!Node
    <3> QED
      BY <1>s, <2>1, <3>1, <3>5 DEF PhaseMove, Phase
  <2> QED
    BY <2>2, <2>3
<1>4. CASE SetSecurity(u)
  <2>1. ran_pc[u] = "set_security" /\ ran_pc'[u] \in {"set_security", "set_eps_session"}
        /\ \A x \in UE \ {u} : ran_pc'[x] = ran_pc[x]
    BY <1>4, <1>s DEF SetSecurity, RcvDn, Goto
  <2> QED
    BY <2>1 DEF PhaseMove, Phase
<1>5. CASE SetEpsSession(u)
  <2>1. ran_pc[u] = "set_eps_session" /\ s1ap_dn[u] # <<>>
    BY <1>5 DEF SetEpsSession, RcvDn
  <2>2. Head(s1ap_dn[u]).mac
    BY <1>s, <2>1, RcvFacts
  <2>3. ran_pc' = [ran_pc EXCEPT ![u] = "transfer"]
    BY <1>5, <2>2 DEF SetEpsSession, Goto
  <2>4. Offered(View(u))
    <3>1. s1ap_dn[u] \in Seq(DnMsg)
      BY <1>v DEF Views
    <3>2. ~None(s1ap_dn[u])
      BY <2>1, <3>1, NoneFact
    <3> QED
      BY <1>v, <2>1, <3>2 DEF Offered
  <2>5. Serving(u) = Bearer!Node
    BY <1>s, <2>4, OfferedServed
  <2> QED
    BY <1>s, <2>1, <2>3, <2>5 DEF PhaseMove, Phase
<1>6. CASE DetachRequest(u)
  <2>1. ran_pc[u] = "transfer" /\ ran_pc' = [ran_pc EXCEPT ![u] = "detach"]
    BY <1>6 DEF DetachRequest, Goto
  <2> QED
    BY <1>s, <2>1 DEF PhaseMove, Phase
<1>7. CASE DetachComplete(u)
  <2>1. ran_pc[u] = "detach" /\ ran_pc'[u] \in {"detach", "loop"}
        /\ \A x \in UE \ {u} : ran_pc'[x] = ran_pc[x]
    BY <1>7, <1>s DEF DetachComplete, RcvDn, Goto
  <2> QED
    BY <2>1 DEF PhaseMove, Phase
<1> QED
    BY <1>1, <1>2, <1>3, <1>4, <1>5, <1>6, <1>7 DEF RanNext, RanStep

\* Nodes that keep their tables serve whom they served.
LEMMA ServingSame ==
    ASSUME UNCHANGED <<mme_ctx, sgw_id, sgw_ctx, pgw_s5_id, pgw_sgi_id, pgw_ctx>>
    PROVE  \A x \in UE : Serving(x)' = Serving(x)
BY DEF Serving, Entries

\* A step of a terminal is one of the service's.
LEMMA RanPromised == ASSUME BearerSide, NEW u \in UE, RanNext(u) PROVE Promised
<1>1. (\A x \in UE \ {u} : ran_pc'[x] = ran_pc[x]) /\ PhaseMove(u)
    BY RanPhases
<1>2. \A x \in UE : Serving(x)' = Serving(x)
    BY ServingSame DEF RanNext, mmeVars, sgwVars, pgwVars
<1>3. \A x \in UE \ {u} : Phase(x)' = Phase(x)
    BY <1>1 DEF Phase
<1> QED
    BY <1>1, <1>2, <1>3, PhaseStep

\* A step that leaves the terminals and the tables alone is none of its concern.
LEMMA StillPromised ==
    ASSUME UNCHANGED <<ran_pc, mme_ctx, sgw_id, sgw_ctx, pgw_s5_id, pgw_sgi_id, pgw_ctx>>
    PROVE  Promised
<1>1. \A x \in UE : Serving(x)' = Serving(x) /\ Phase(x)' = Phase(x)
    BY ServingSame DEF Phase
<1> QED
    BY <1>1 DEF Promised, Bearer!bearerVars

-----------------------------------------------------------------------------
(* The MME.                                                                *)

\* A worker that takes a message changes the context of its sender only, and
\* opens one for a terminal that attaches only.
LEMMA ReceivedContext ==
    ASSUME SessionSide, NEW w \in Worker, NEW u \in UE, MmeNext(w),
           \/ HandleInitialAttach(w, u) \/ HandleAutn(w, u) \/ HandleSecurityModeComplete(w, u)
           \/ HandleAttachComplete(w, u) \/ HandleDetach(w, u)
    PROVE  /\ \A x \in UE \ {u} : mme_ctx'[x] = mme_ctx[x]
           /\ mme_ctx[u] = Nil => ran_pc[u] = "authenticate"
<1>s. UeSide /\ MmeTypeOK
    BY DEF SessionSide, UeSide, TypeInv, TypeOK
<1>1. CASE HandleInitialAttach(w, u)
  <2>1. Receive(w, u, "initial_attach")
    BY <1>1 DEF HandleInitialAttach
  <2>2. /\ View(u).at.pc = "idle" /\ View(u).up # <<>>
        /\ Head(View(u).up).type = "initial_attach"
    BY <1>s, <2>1, ReceiveFacts
  <2>3. View(u) \in Views /\ ViewOK(u, View(u)) /\ View(u).pc = ran_pc[u]
    BY <1>s, Before
  <2>4. ran_pc[u] = "authenticate"
    BY <2>2, <2>3, RequestView
  <2>5. \A x \in UE \ {u} : mme_ctx'[x] = mme_ctx[x]
    <3>1. \E c : mme_ctx' = [mme_ctx EXCEPT ![u] = c]
      BY <1>1 DEF HandleInitialAttach
    <3> QED
      BY <1>s, <3>1 DEF MmeTypeOK
  <2> QED
    BY <2>4, <2>5
<1>2. ASSUME NEW type, Receive(w, u, type), type # "initial_attach",
             mme_ctx' = mme_ctx
                \/ \E c : mme_ctx' = [mme_ctx EXCEPT ![GetGuti(Head(s1ap_up[u]).id)] = c]
      PROVE  mme_ctx[u] # Nil /\ \A x \in UE \ {u} : mme_ctx'[x] = mme_ctx[x]
  <2>1. GetGuti(Head(s1ap_up[u]).id) = u /\ mme_ctx[u] # Nil
    BY <1>2, <1>s, RequestFacts
  <2>2. mme_ctx' = mme_ctx \/ \E c : mme_ctx' = [mme_ctx EXCEPT ![u] = c]
    BY <1>2, <2>1
  <2> QED
    BY <1>s, <2>1, <2>2 DEF MmeTypeOK
<1>3. CASE HandleAutn(w, u)
  <2>1. Receive(w, u, "auth_response")
    BY <1>3 DEF HandleAutn
  <2>2. mme_ctx' = mme_ctx
           \/ \E c : mme_ctx' = [mme_ctx EXCEPT ![GetGuti(Head(s1ap_up[u]).id)] = c]
    BY <1>3 DEF HandleAutn, MmeExit, mmeVars
  <2> QED
    BY <1>2, <2>1, <2>2
<1>4. CASE HandleSecurityModeComplete(w, u)
  <2>1. Receive(w, u, "security_complete")
    BY <1>4 DEF HandleSecurityModeComplete
  <2>2. mme_ctx' = mme_ctx
           \/ \E c : mme_ctx' = [mme_ctx EXCEPT ![GetGuti(Head(s1ap_up[u]).id)] = c]
    BY <1>4 DEF HandleSecurityModeComplete, MmeExit, mmeVars
  <2> QED
    BY <1>2, <2>1, <2>2
<1>5. CASE HandleAttachComplete(w, u)
  <2>1. Receive(w, u, "attach_complete")
    BY <1>5 DEF HandleAttachComplete
  <2>2. mme_ctx' = mme_ctx
           \/ \E c : mme_ctx' = [mme_ctx EXCEPT ![GetGuti(Head(s1ap_up[u]).id)] = c]
    BY <1>5 DEF HandleAttachComplete, MmeExit, mmeVars
  <2> QED
    BY <1>2, <2>1, <2>2
<1>6. CASE HandleDetach(w, u)
  <2>1. Receive(w, u, "detach_request")
    BY <1>6 DEF HandleDetach
  <2>2. mme_ctx' = mme_ctx
           \/ \E c : mme_ctx' = [mme_ctx EXCEPT ![GetGuti(Head(s1ap_up[u]).id)] = c]
    BY <1>6 DEF HandleDetach, MmeExit, mmeVars
  <2> QED
    BY <1>2, <2>1, <2>2
<1> QED
    BY <1>1, <1>3, <1>4, <1>5, <1>6

\* A worker that reads an answer has the context of the one it serves, or the
\* terminal is attaching.
LEMMA AnsweredContext ==
    ASSUME SessionSide, NEW w \in Worker, MmeNext(w),
           AutnInfoAnswer(w) \/ CreateSessionAnswer(w) \/ ModifyBearerAnswer(w) \/ RemUectx(w)
    PROVE  \E u \in UE :
              /\ \A x \in UE \ {u} : mme_ctx'[x] = mme_ctx[x]
              /\ mme_ctx[u] = Nil /\ mme_ctx'[u] # Nil => ran_pc[u] = "authenticate"
<1>s. UeSide /\ TypeInv /\ WorkersOK /\ MmeTypeOK
    BY DEF SessionSide, UeSide, UeInv, TypeInv, TypeOK
<1>0. mme_pc[w] \in {"autn_info", "create", "modify", "rem_uectx"}
    BY DEF AutnInfoAnswer, CreateSessionAnswer, ModifyBearerAnswer, RcvS11, RemUectx
<1>1. PICK u \in UE : mme_job[w].conn = u
    BY <1>0, <1>s, BusyHandler
<1>2. /\ ViewOK(u, View(u)) /\ mme_job[w].guti = u /\ View(u).at.pc = mme_pc[w]
      /\ View(u).pc = ran_pc[u] /\ View(u).ctx = mme_ctx[u]
    BY <1>1, BusySession
<1>3. PICK c : mme_ctx' = [mme_ctx EXCEPT ![u] = c] /\ (mme_pc[w] = "rem_uectx" => c = Nil)
  <2>1. CASE AutnInfoAnswer(w)
    BY <1>2, <2>1 DEF AutnInfoAnswer
  <2>2. CASE CreateSessionAnswer(w)
    BY <1>2, <2>2 DEF CreateSessionAnswer, RcvS11
  <2>3. CASE ModifyBearerAnswer(w)
    BY <1>2, <2>3 DEF ModifyBearerAnswer, RcvS11
  <2>4. CASE RemUectx(w)
    BY <1>2, <2>4 DEF RemUectx
  <2> QED
    BY <2>1, <2>2, <2>3, <2>4
<1>4. (\A x \in UE \ {u} : mme_ctx'[x] = mme_ctx[x]) /\ mme_ctx'[u] = c
    BY <1>s, <1>3 DEF MmeTypeOK
<1>5. mme_pc[w] = "autn_info" => ran_pc[u] = "authenticate"
    BY <1>2 DEF ViewOK, Conversation, Cleaning
<1>6. mme_pc[w] \in {"create", "modify"} => mme_ctx[u] # Nil
  <2>1. mme_pc[w] \in {"create", "modify"} => Known(View(u))
    BY <1>2 DEF ViewOK, Conversation, Cleaning, Known, One, None
  <2> QED
    BY <1>2, <2>1 DEF ViewOK, KeysOK
<1> QED
    BY <1>0, <1>3, <1>4, <1>5, <1>6

\* A step of the MME is one of the service's: it begins to serve a terminal that
\* attaches.
LEMMA MmePromised ==
    ASSUME GwSide, GwSide', NEW w \in Worker, MmeNext(w)
    PROVE  Promised
<1>s. SessionSide
    BY DEF GwSide
<1>1. UNCHANGED <<ran_pc, sgw_id, sgw_ctx, pgw_s5_id, pgw_sgi_id, pgw_ctx>>
    BY DEF MmeNext, ranVars, sgwVars, pgwVars
<1>2. ASSUME NEW u \in UE, \A x \in UE \ {u} : mme_ctx'[x] = mme_ctx[x],
             mme_ctx[u] = Nil /\ mme_ctx'[u] # Nil => ran_pc[u] = "authenticate"
      PROVE  Promised
  <2>1. \A x \in UE : ServedBy(x) /\ ServedBy(x)'
    BY ServingIs, ServingIsNext
  <2>2. \A x \in UE : SgwIn(x)' = SgwIn(x)
    BY <1>1 DEF SgwIn
  <2>3. \A x \in UE : /\ "sgw" \in Serving(x)' <=> "sgw" \in Serving(x)
                      /\ "pgw" \in Serving(x)' <=> "pgw" \in Serving(x)
    BY <1>1, <2>1, <2>2 DEF ServedBy, Tunnel
  <2>4. \A x \in UE \ {u} : "mme" \in Serving(x)' <=> "mme" \in Serving(x)
    BY <1>2, <2>1 DEF ServedBy
  <2>5. "mme" \in Serving(u)' /\ "mme" \notin Serving(u) => ran_pc[u] = "authenticate"
    BY <1>2, <2>1 DEF ServedBy
  <2>6. "mme" \in Bearer!Node /\ Bearer!Before["mme"] = {}
    BY DEF Bearer!Node, Bearer!Before
  <2>7. \A x \in UE, k \in Bearer!Node :
           x # u \/ k # "mme" => (k \in Serving(x)' <=> k \in Serving(x))
    BY <2>3, <2>4 DEF Bearer!Node
  <2>8. "mme" \in Serving(u)' /\ "mme" \notin Serving(u) =>
           Phase(u) = "attaching" /\ Bearer!Before["mme"] \subseteq Serving(u)
    BY <2>5, <2>6 DEF Phase
  <2> QED
    BY <1>1, <2>6, <2>7, <2>8, NodeStep
<1>3. CASE \E u \in UE : \/ HandleInitialAttach(w, u) \/ HandleAutn(w, u)
                         \/ HandleSecurityModeComplete(w, u) \/ HandleAttachComplete(w, u)
                         \/ HandleDetach(w, u)
    BY <1>2, <1>3, <1>s, ReceivedContext
<1>4. CASE AutnInfoAnswer(w) \/ CreateSessionAnswer(w) \/ ModifyBearerAnswer(w) \/ RemUectx(w)
    BY <1>2, <1>4, <1>s, AnsweredContext
<1>5. CASE (\E u \in UE : ConnectionClosed(w, u)) \/ DetachAnswer(w) \/ RemItfid(w)
  <2>1. mme_ctx' = mme_ctx
    BY <1>5 DEF ConnectionClosed, DetachAnswer, RemItfid, mmeVars
  <2> QED
    BY <1>1, <2>1, StillPromised
<1> QED
    BY <1>3, <1>4, <1>5 DEF MmeNext, MmeStep

-----------------------------------------------------------------------------
(* The gateways.                                                           *)

\* A terminal whose session is being created is attaching, and the MME serves it.
LEMMA Creating ==
    ASSUME SessionSide, NEW t \in S11Threads, SgwOwes(sgw_pc[t]) = "create"
    PROVE  LET u == sgw_job[t].imsi
           IN  u \in UE /\ ran_pc[u] = "set_eps_session" /\ mme_ctx[u] # Nil
<1>1. sgw_job[t].imsi \in UE /\ ran_pc[sgw_job[t].imsi] = "set_eps_session"
    BY ThreadHolds
<1>2. PICK u \in UE : u = sgw_job[t].imsi /\ ran_pc[u] = "set_eps_session"
    BY <1>1
<1>3. ViewOK(u, View(u)) /\ View(u).pc = ran_pc[u] /\ View(u).ctx = mme_ctx[u]
    BY Before DEF SessionSide
<1>4. mme_ctx[u] # Nil
    BY <1>2, <1>3 DEF ViewOK, KeysOK, Known
<1> QED
    BY <1>2, <1>4

\* What a step of the SGW does to its tables concerns one subscriber, and makes
\* it one that the SGW serves only at the end of a create.
SgwEnters(u) ==
    /\ \A x \in UE \ {u} : sgw_ctx'[x] = sgw_ctx[x] /\ SgwIn(x)' = SgwIn(x)
    /\ \/ sgw_ctx[u] # Nil /\ SgwIn(u) = Itf
       \/ sgw_ctx'[u] = Nil \/ SgwIn(u)' # Itf
       \/ ran_pc[u] = "set_eps_session" /\ mme_ctx[u] # Nil

\* Its loops over the interfaces, ...
LEMMA SgwTableEnters ==
    ASSUME GwSide, NEW t \in S11Threads, SgwUpdateItfid(t) \/ SgwRemItfid(t)
    PROVE  \E u \in UE : SgwEnters(u)
<1>s. SessionSide /\ SgwTypeOK
    BY DEF GwSide, SessionSide, UeSide, TypeInv, TypeOK
<1>0. \/ SgwUpdateItfid(t) /\ sgw_pc[t] = "update_itfid"
      \/ SgwRemItfid(t) /\ sgw_pc[t] = "rem_itfid"
    BY DEF SgwUpdateItfid, SgwRemItfid, SgwAt
<1>1. PICK u \in UE : u = sgw_job[t].imsi /\ SgwStage(u, SgwView(u, t))
    BY <1>0, SgwWorking
<1> DEFINE i == Head(sgw_itf[t])
<1>2. \/ sgw_pc[t] = "update_itfid" /\ Looped(sgw_itf[t], SgwIn(u)) /\ sgw_ctx[u] = Nil
      \/ sgw_pc[t] = "rem_itfid" /\ Looped(sgw_itf[t], Itf \ SgwIn(u))
            /\ sgw_job[t].teid = Tunnels(u)
    BY <1>0, <1>1 DEF SgwStage, SgwView
<1>3. i \in Itf /\ Tunnel(u) \in Teid
    BY <1>2, Looping, TunnelFacts
<1>4. sgw_job[t].teid[i] = Tunnel(u)
  <2>1. sgw_pc[t] = "update_itfid" => sgw_job[t].teid = Tunnels(u)
    BY <1>1, <1>s DEF SessionSide, SessionInv, SgwLocalsOK, SgwLocalOK, SgwOwes
  <2> QED
    BY <1>2, <1>3, <2>1 DEF Tunnels
<1>5. PICK v \in {u, Nil} : /\ sgw_id' = [sgw_id EXCEPT ![i][Tunnel(u)] = v]
                            /\ v = u => sgw_pc[t] = "update_itfid"
  <2>1. CASE SgwUpdateItfid(t) /\ sgw_pc[t] = "update_itfid"
    <3>1. sgw_id' = [sgw_id EXCEPT ![i][Tunnel(u)] = u]
      BY <1>1, <1>4, <2>1 DEF SgwUpdateItfid
    <3> QED
      BY <2>1, <3>1
  <2>2. CASE SgwRemItfid(t)
    <3>1. sgw_id' = [sgw_id EXCEPT ![i][Tunnel(u)] = Nil]
      BY <1>1, <1>4, <2>2 DEF SgwRemItfid
    <3> QED
      BY <3>1, UEFacts
  <2> QED
    BY <1>0, <2>1, <2>2
<1>6. sgw_ctx' = sgw_ctx
    BY DEF SgwUpdateItfid, SgwRemItfid
<1> HIDE DEF i
<1>7. \A j \in Itf, x \in Teid :
         sgw_id'[j][x] = IF j = i /\ x = Tunnel(u) THEN v ELSE sgw_id[j][x]
    BY <1>s, <1>5 DEF SgwTypeOK
<1>8. \A x \in UE \ {u} : SgwIn(x)' = SgwIn(x)
  <2>1. \A x \in UE \ {u}, j \in Itf : sgw_id'[j][Tunnel(x)] = sgw_id[j][Tunnel(x)]
    BY <1>7, TunnelFacts
  <2> QED
    BY <2>1 DEF SgwIn, Tunnel
<1>9. sgw_ctx'[u] = Nil \/ SgwIn(u)' # Itf
  <2>1. CASE v = u
    BY <1>2, <1>5, <1>6, <2>1
  <2>2. CASE v = Nil
    <3>1. sgw_id'[i][Tunnel(u)] = Nil
      BY <1>3, <1>7, <2>2
    <3>2. i \notin SgwIn(u)'
      BY <3>1, UEFacts DEF SgwIn, Tunnel
    <3> QED
      BY <1>3, <3>2
  <2> QED
    BY <2>1, <2>2
<1> QED
    BY <1>6, <1>8, <1>9 DEF SgwEnters

\* ... and what it does to its contexts.
LEMMA SgwContextEnters ==
    ASSUME GwSide, NEW t \in S11Threads,
           SgwInitCtx(t) \/ SgwCreateSessionAnswer(t) \/ SgwModifyCtx(t) \/ SgwRemUectx(t)
    PROVE  \E u \in UE : SgwEnters(u)
<1>s. SessionSide /\ SgwTypeOK
    BY DEF GwSide, SessionSide, UeSide, TypeInv, TypeOK
<1>0. \/ SgwInitCtx(t) /\ sgw_pc[t] = "init_ctx"
      \/ SgwCreateSessionAnswer(t) /\ sgw_pc[t] = "create"
      \/ SgwModifyCtx(t) /\ sgw_pc[t] = "modify_ctx"
      \/ SgwRemUectx(t) /\ sgw_pc[t] = "rem_uectx"
    BY DEF SgwInitCtx, SgwCreateSessionAnswer, SgwModifyCtx, SgwRemUectx, RcvS5, SgwAt
<1>1. PICK u \in UE : u = sgw_job[t].imsi /\ SgwStage(u, SgwView(u, t))
    BY <1>0, SgwWorking
<1>2. PICK c : /\ sgw_ctx' = [sgw_ctx EXCEPT ![u] = c]
               /\ sgw_pc[t] = "rem_uectx" => c = Nil
  <2>1. CASE SgwInitCtx(t)
    BY <1>0, <1>1, <2>1 DEF SgwInitCtx, SgwAt
  <2>2. CASE SgwCreateSessionAnswer(t)
    BY <1>0, <1>1, <2>2 DEF SgwCreateSessionAnswer, RcvS5, SgwAt
  <2>3. CASE SgwModifyCtx(t)
    BY <1>0, <1>1, <2>3 DEF SgwModifyCtx, SgwAt
  <2>4. CASE SgwRemUectx(t)
    BY <1>0, <1>1, <2>4 DEF SgwRemUectx, SgwAt
  <2> QED
    BY <2>1, <2>2, <2>3, <2>4
<1>3. (\A x \in UE \ {u} : sgw_ctx'[x] = sgw_ctx[x]) /\ sgw_ctx'[u] = c
    BY <1>s, <1>2 DEF SgwTypeOK
<1>4. \A x \in UE : SgwIn(x)' = SgwIn(x)
  <2>1. sgw_id' = sgw_id
    BY DEF SgwInitCtx, SgwCreateSessionAnswer, SgwModifyCtx, SgwRemUectx
  <2> QED
    BY <2>1 DEF SgwIn
<1>5. CASE sgw_pc[t] \in {"init_ctx", "create"}
  <2>1. SgwOwes(sgw_pc[t]) = "create"
    BY <1>5 DEF SgwOwes
  <2>2. ran_pc[u] = "set_eps_session" /\ mme_ctx[u] # Nil
    BY <1>1, <1>s, <2>1, Creating
  <2> QED
    BY <1>3, <1>4, <2>2 DEF SgwEnters
<1>6. CASE sgw_pc[t] = "modify_ctx"
  <2>1. sgw_ctx[u] # Nil /\ SgwIn(u) = Itf
    BY <1>1, <1>6 DEF SgwStage, SgwView, SgwFull, SgwHalf
  <2> QED
    BY <1>3, <1>4, <2>1 DEF SgwEnters
<1>7. CASE sgw_pc[t] = "rem_uectx"
    BY <1>2, <1>3, <1>4, <1>7 DEF SgwEnters
<1> QED
    BY <1>0, <1>5, <1>6, <1>7

\* A step of the SGW is one of the service's: it begins to serve a terminal that
\* attaches and whom the MME serves.
LEMMA SgwPromised ==
    ASSUME GwSide, GwSide', NEW t \in S11Threads, SgwNext(t)
    PROVE  Promised
<1>1. UNCHANGED <<ran_pc, mme_ctx, pgw_s5_id, pgw_sgi_id, pgw_ctx>>
    BY DEF SgwNext, ranVars, mmeVars, pgwVars
<1>2. ASSUME NEW u \in UE, SgwEnters(u) PROVE Promised
  <2>1. \A x \in UE : ServedBy(x) /\ ServedBy(x)'
    BY ServingIs, ServingIsNext
  <2>2. \A x \in UE : /\ "mme" \in Serving(x)' <=> "mme" \in Serving(x)
                      /\ "pgw" \in Serving(x)' <=> "pgw" \in Serving(x)
    BY <1>1, <2>1 DEF ServedBy, Tunnel
  <2>3. \A x \in UE \ {u} : "sgw" \in Serving(x)' <=> "sgw" \in Serving(x)
    BY <1>2, <2>1 DEF ServedBy, SgwEnters
  <2>4. "sgw" \in Serving(u)' /\ "sgw" \notin Serving(u) =>
           ran_pc[u] = "set_eps_session" /\ "mme" \in Serving(u)
    BY <1>2, <2>1 DEF ServedBy, SgwEnters
  <2>5. "sgw" \in Bearer!Node /\ Bearer!Before["sgw"] = {"mme"}
    BY DEF Bearer!Node, Bearer!Before
  <2>6. \A x \in UE, k \in Bearer!Node :
           x # u \/ k # "sgw" => (k \in Serving(x)' <=> k \in Serving(x))
    BY <2>2, <2>3 DEF Bearer!Node
  <2>7. "sgw" \in Serving(u)' /\ "sgw" \notin Serving(u) =>
           Phase(u) = "attaching" /\ Bearer!Before["sgw"] \subseteq Serving(u)
    BY <2>4, <2>5 DEF Phase
  <2> QED
    BY <1>1, <2>5, <2>6, <2>7, NodeStep
<1>3. CASE SgwUpdateItfid(t) \/ SgwRemItfid(t)
    BY <1>2, <1>3, SgwTableEnters
<1>4. CASE SgwInitCtx(t) \/ SgwCreateSessionAnswer(t) \/ SgwModifyCtx(t) \/ SgwRemUectx(t)
    BY <1>2, <1>4, SgwContextEnters
<1>5. CASE SgwCreateSession(t) \/ SgwModifyBearer(t) \/ SgwDetach(t) \/ SgwDetachCtx(t)
              \/ SgwDetachAnswer(t)
  <2>1. UNCHANGED <<sgw_id, sgw_ctx>>
    BY <1>5 DEF SgwCreateSession, SgwModifyBearer, SgwDetach, SgwDetachCtx, SgwDetachAnswer,
                SgwExit, sgwVars
  <2> QED
    BY <1>1, <2>1, StillPromised
<1> QED
    BY <1>3, <1>4, <1>5 DEF SgwNext, SgwStep

\* What a step of the PGW does to its tables concerns one subscriber, and makes
\* it one that the PGW serves only at the end of a create.
PgwEnters(u) ==
    /\ \A x \in UE \ {u} : /\ pgw_ctx'[x] = pgw_ctx[x]
                           /\ pgw_s5_id'[Tunnel(x)] = pgw_s5_id[Tunnel(x)]
                           /\ pgw_sgi_id'[IpAddr(x)] = pgw_sgi_id[IpAddr(x)]
    /\ \/ pgw_ctx[u] # Nil /\ pgw_s5_id[Tunnel(u)] = u /\ pgw_sgi_id[IpAddr(u)] = u
       \/ pgw_ctx'[u] = Nil \/ pgw_s5_id'[Tunnel(u)] # u \/ pgw_sgi_id'[IpAddr(u)] # u
       \/ /\ ran_pc[u] = "set_eps_session" /\ mme_ctx[u] # Nil
          /\ sgw_ctx[u] # Nil /\ SgwIn(u) = Itf

\* Its tables, ...
LEMMA PgwTableEnters ==
    ASSUME Addressable, GwSide, NEW p \in PgwThreads,
           PgwUpdateS5Id(p) \/ PgwUpdateSgiId(p) \/ PgwRemS5Id(p) \/ PgwRemSgiId(p)
    PROVE  \E u \in UE : PgwEnters(u)
<1>s. SessionSide /\ PgwTypeOK
    BY DEF GwSide, SessionSide, UeSide, TypeInv, TypeOK
<1>0. \/ PgwUpdateS5Id(p) /\ pgw_pc[p] = "update_s5"
      \/ PgwUpdateSgiId(p) /\ pgw_pc[p] = "update_sgi"
      \/ PgwRemS5Id(p) /\ pgw_pc[p] = "rem_s5"
      \/ PgwRemSgiId(p) /\ pgw_pc[p] = "rem_sgi"
    BY DEF PgwUpdateS5Id, PgwUpdateSgiId, PgwRemS5Id, PgwRemSgiId, PgwAt
<1>1. PICK u \in UE : u = pgw_job[p].imsi /\ PgwStage(u, PgwView(u, p))
    BY <1>0, PgwWorking
<1>2. /\ pgw_pc[p] \in {"update_s5", "update_sgi"} => pgw_ctx[u] = Nil
      /\ pgw_pc[p] \in {"update_s5", "rem_s5"} => pgw_job[p].teid = Tunnel(u)
      /\ pgw_pc[p] \in {"update_sgi", "rem_sgi"} => pgw_job[p].ip = IpAddr(u)
  <2>1. pgw_pc[p] \in {"update_s5", "update_sgi"} =>
           pgw_job[p].teid = Tunnel(u) /\ pgw_job[p].ip = IpAddr(u)
    BY <1>1, <1>s DEF SessionSide, SessionInv, PgwLocalsOK, PgwLocalOK, PgwOwes
  <2> QED
    BY <1>0, <1>1, <2>1 DEF PgwStage, PgwView
<1>3. pgw_ctx' = pgw_ctx
    BY DEF PgwUpdateS5Id, PgwUpdateSgiId, PgwRemS5Id, PgwRemSgiId
<1>4. /\ Tunnel(u) \in Teid /\ IpAddr(u) \in Ip
      /\ \A x \in UE \ {u} : Tunnel(x) # Tunnel(u) /\ IpAddr(x) # IpAddr(u)
    BY TunnelFacts, AddressFacts
<1>5. CASE PgwUpdateS5Id(p) \/ PgwRemS5Id(p)
  <2>1. PICK v : /\ pgw_s5_id' = [pgw_s5_id EXCEPT ![Tunnel(u)] = v]
                 /\ pgw_sgi_id' = pgw_sgi_id
                 /\ pgw_ctx[u] = Nil \/ v = Nil
    <3>1. CASE PgwUpdateS5Id(p)
      BY <1>0, <1>1, <1>2, <3>1 DEF PgwUpdateS5Id, PgwAt
    <3>2. CASE PgwRemS5Id(p)
      BY <1>0, <1>1, <1>2, <3>2 DEF PgwRemS5Id, PgwAt
    <3> QED
      BY <1>5, <3>1, <3>2
  <2>2. /\ pgw_s5_id'[Tunnel(u)] = v
        /\ \A x \in UE \ {u} : pgw_s5_id'[Tunnel(x)] = pgw_s5_id[Tunnel(x)]
    BY <1>4, <1>s, <2>1 DEF PgwTypeOK
  <2> QED
    BY <1>3, <2>1, <2>2, UEFacts DEF PgwEnters
<1>6. CASE PgwUpdateSgiId(p) \/ PgwRemSgiId(p)
  <2>1. PICK v : /\ pgw_sgi_id' = [pgw_sgi_id EXCEPT ![IpAddr(u)] = v]
                 /\ pgw_s5_id' = pgw_s5_id
                 /\ pgw_ctx[u] = Nil \/ v = Nil
    <3>1. CASE PgwUpdateSgiId(p)
      BY <1>0, <1>1, <1>2, <3>1 DEF PgwUpdateSgiId, PgwAt
    <3>2. CASE PgwRemSgiId(p)
      BY <1>0, <1>1, <1>2, <3>2 DEF PgwRemSgiId, PgwAt
    <3> QED
      BY <1>6, <3>1, <3>2
  <2>2. /\ pgw_sgi_id'[IpAddr(u)] = v
        /\ \A x \in UE \ {u} : pgw_sgi_id'[IpAddr(x)] = pgw_sgi_id[IpAddr(x)]
    BY <1>4, <1>s, <2>1 DEF PgwTypeOK
  <2> QED
    BY <1>3, <2>1, <2>2, UEFacts DEF PgwEnters
<1> QED
    BY <1>5, <1>6

\* ... and its contexts.
LEMMA PgwContextEnters ==
    ASSUME GwSide, NEW p \in PgwThreads, PgwInitCtx(p) \/ PgwDetachCtx(p) \/ PgwRemUectx(p)
    PROVE  \E u \in UE : PgwEnters(u)
<1>s. SessionSide /\ PgwTypeOK
    BY DEF GwSide, SessionSide, UeSide, TypeInv, TypeOK
<1>0. \/ PgwInitCtx(p) /\ pgw_pc[p] = "init_ctx"
      \/ PgwDetachCtx(p) /\ pgw_pc[p] = "detach_ctx"
      \/ PgwRemUectx(p) /\ pgw_pc[p] = "rem_uectx"
    BY DEF PgwInitCtx, PgwDetachCtx, PgwRemUectx, PgwAt
<1>1. PICK u \in UE : u = pgw_job[p].imsi /\ PgwStage(u, PgwView(u, p))
    BY <1>0, PgwWorking
<1>2. PICK c : /\ pgw_ctx' = [pgw_ctx EXCEPT ![u] = c]
               /\ pgw_pc[p] = "rem_uectx" => c = Nil
  <2>1. CASE PgwInitCtx(p)
    BY <1>0, <1>1, <2>1 DEF PgwInitCtx, PgwAt
  <2>2. CASE PgwDetachCtx(p)
    BY <1>0, <1>1, <2>2 DEF PgwDetachCtx, PgwAt
  <2>3. CASE PgwRemUectx(p)
    BY <1>0, <1>1, <2>3 DEF PgwRemUectx, PgwAt
  <2> QED
    BY <2>1, <2>2, <2>3
<1>3. /\ \A x \in UE \ {u} : pgw_ctx'[x] = pgw_ctx[x]
      /\ pgw_ctx'[u] = c
      /\ pgw_s5_id' = pgw_s5_id /\ pgw_sgi_id' = pgw_sgi_id
    BY <1>s, <1>2 DEF PgwTypeOK, PgwInitCtx, PgwDetachCtx, PgwRemUectx
<1>4. CASE pgw_pc[p] = "init_ctx"
  <2>1. PICK t \in S11Threads : sgw_pc[t] = "create" /\ sgw_job[t].imsi = u
    <3>1. PgwOwes(pgw_pc[p]) = "create"
      BY <1>4 DEF PgwOwes
    <3>2. pgw_job[p].src \in S11Threads /\ sgw_pc[pgw_job[p].src] = "create"
      BY <1>s, <3>1, Callers DEF SessionSide, UeSide, OneCall, S5Calls, S5Awaited
    <3>3. sgw_job[pgw_job[p].src].imsi = u
      BY <1>1, <1>s, <3>1 DEF SessionSide, SessionInv, PgwLocalsOK, PgwLocalOK
    <3> QED
      BY <3>2, <3>3
  <2>2. ran_pc[u] = "set_eps_session" /\ mme_ctx[u] # Nil
    BY <1>s, <2>1, Creating DEF SgwOwes
  <2>3. SgwStage(u, SgwView(u, t))
    BY <2>1, SgwWorking
  <2>4. sgw_ctx[u] # Nil /\ SgwIn(u) = Itf
    BY <2>1, <2>3 DEF SgwStage, SgwView, SgwHalf
  <2> QED
    BY <1>3, <2>2, <2>4 DEF PgwEnters
<1>5. CASE pgw_pc[p] = "detach_ctx"
  <2>1. pgw_ctx[u] # Nil /\ pgw_s5_id[Tunnel(u)] = u /\ pgw_sgi_id[IpAddr(u)] = u
    BY <1>1, <1>5 DEF PgwStage, PgwView, PgwFull
  <2> QED
    BY <1>3, <2>1 DEF PgwEnters
<1>6. CASE pgw_pc[p] = "rem_uectx"
    BY <1>2, <1>3, <1>6 DEF PgwEnters
<1> QED
    BY <1>0, <1>4, <1>5, <1>6

\* A step of the PGW is one of the service's: it begins to serve a terminal that
\* attaches and whom MME and SGW serve.
LEMMA PgwPromised ==
    ASSUME Addressable, GwSide, GwSide', NEW p \in PgwThreads, PgwNext(p)
    PROVE  Promised
<1>1. UNCHANGED <<ran_pc, mme_ctx, sgw_id, sgw_ctx>>
    BY DEF PgwNext, ranVars, mmeVars, sgwVars
<1>2. ASSUME NEW u \in UE, PgwEnters(u) PROVE Promised
  <2>1. \A x \in UE : ServedBy(x) /\ ServedBy(x)'
    BY ServingIs, ServingIsNext
  <2>2. \A x \in UE : SgwIn(x)' = SgwIn(x)
    BY <1>1 DEF SgwIn
  <2>3. \A x \in UE : /\ "mme" \in Serving(x)' <=> "mme" \in Serving(x)
                      /\ "sgw" \in Serving(x)' <=> "sgw" \in Serving(x)
    BY <1>1, <2>1, <2>2 DEF ServedBy
  <2>4. \A x \in UE \ {u} : "pgw" \in Serving(x)' <=> "pgw" \in Serving(x)
    BY <1>2, <2>1 DEF ServedBy, PgwEnters, Tunnel
  <2>5. "pgw" \in Serving(u)' /\ "pgw" \notin Serving(u) =>
           ran_pc[u] = "set_eps_session" /\ "mme" \in Serving(u) /\ "sgw" \in Serving(u)
    BY <1>2, <2>1 DEF ServedBy, PgwEnters, Tunnel
  <2>6. "pgw" \in Bearer!Node /\ Bearer!Before["pgw"] = {"mme", "sgw"}
    BY DEF Bearer!Node, Bearer!Before
  <2>7. \A x \in UE, k \in Bearer!Node :
           x # u \/ k # "pgw" => (k \in Serving(x)' <=> k \in Serving(x))
    BY <2>3, <2>4 DEF Bearer!Node
  <2>8. "pgw" \in Serving(u)' /\ "pgw" \notin Serving(u) =>
           Phase(u) = "attaching" /\ Bearer!Before["pgw"] \subseteq Serving(u)
    BY <2>5, <2>6 DEF Phase
  <2> QED
    BY <1>1, <2>6, <2>7, <2>8, NodeStep
<1>3. CASE PgwUpdateS5Id(p) \/ PgwUpdateSgiId(p) \/ PgwRemS5Id(p) \/ PgwRemSgiId(p)
    BY <1>2, <1>3, PgwTableEnters
<1>4. CASE PgwInitCtx(p) \/ PgwDetachCtx(p) \/ PgwRemUectx(p)
    BY <1>2, <1>4, PgwContextEnters
<1>5. CASE PgwCreateSession(p) \/ PgwDetach(p)
  <2>1. UNCHANGED <<pgw_s5_id, pgw_sgi_id, pgw_ctx>>
    BY <1>5 DEF PgwCreateSession, PgwDetach, pgwVars
  <2> QED
    BY <1>1, <2>1, StillPromised
<1> QED
    BY <1>3, <1>4, <1>5 DEF PgwNext, PgwStep

-----------------------------------------------------------------------------
(* The refinement.                                                         *)

\* At start every subscriber is idle and nobody serves it.
LEMMA InitPromised == Init => Bearer!BearerInit
<1> SUFFICES ASSUME Init PROVE Bearer!BearerInit
    OBVIOUS
<1>1. \A u \in UE : Phase(u) = "idle"
    BY DEF Init, RanInit, Phase
<1>2. \A u \in UE : Serving(u) = {}
    BY DEF Init, MmeInit, SgwInit, PgwInit, Serving
<1> QED
    BY <1>1, <1>2 DEF Bearer!BearerInit

\* Every step of the control plane is one of the service's.
LEMMA NextPromised ==
    Addressable /\ BearerSide /\ BearerSide' /\ [Next]_vars =>
        [Bearer!BearerNext]_(Bearer!bearerVars)
<1> SUFFICES ASSUME Addressable, BearerSide, BearerSide', [Next]_vars PROVE Promised
    BY DEF Promised
<1>s. GwSide /\ GwSide'
    BY DEF BearerSide
<1>1. CASE vars' = vars
    BY <1>1, StillPromised DEF vars, ranVars, mmeVars, sgwVars, pgwVars
<1>2. CASE Next
  <2>1. CASE \E u \in UE : RanNext(u)
    BY <2>1, RanPromised
  <2>2. CASE AcceptNext \/ \E w \in Worker : HssNext(w)
    BY <2>2, StillPromised DEF AcceptNext, AcceptConnection, HssNext, ranVars, mmeVars,
                               sgwVars, pgwVars
  <2>3. CASE \E w \in Worker : MmeNext(w)
    BY <1>s, <2>3, MmePromised
  <2>4. CASE \E t \in S11Threads : SgwNext(t)
    BY <1>s, <2>4, SgwPromised
  <2>5. CASE \E p \in PgwThreads : PgwNext(p)
    BY <1>s, <2>5, PgwPromised
  <2>6. CASE Terminating
    BY <1>1, <2>6 DEF Terminating
  <2> QED
    BY <1>2, <2>1, <2>2, <2>3, <2>4, <2>5, <2>6 DEF Next
<1> QED
    BY <1>1, <1>2

\* ImplementsBearer: the control plane implements the service of EpsBearer.  A
\* terminal is attached only once MME, SGW and PGW serve it, they begin to in that
\* order, and no removal of an earlier detach takes a bearer that is in use.
THEOREM ControlPlaneImplementsBearer ==
    ASSUME Serialised, Addressable PROVE Spec => ImplementsBearer
<1>1. Spec => []BearerSide
  <2>1. GwSide /\ GenuineInv => BearerSide
    BY DEF BearerSide
  <2> QED
    BY <2>1, GwSideAlways, GenuineInvariance, PTL
<1>2. BearerSide /\ BearerSide' /\ [Next]_vars => [Bearer!BearerNext]_(Bearer!bearerVars)
    BY NextPromised
<1> QED
    BY <1>1, <1>2, InitPromised, PTL DEF Spec, ImplementsBearer, Bearer!BearerSpec
=============================================================================
