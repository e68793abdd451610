------------------------------ MODULE ReplProofs -------------------------------
(***************************************************************************)
(* Types, and the identifiers of the MME cluster, for any number of        *)
(* subscribers and replicas, any binding, with and without replication,    *)
(* crashes and losses.  The inductive invariant Inv(own) says that every   *)
(* place which couples an mme_s1ap_ue_id with a subscriber (tables, store, *)
(* replication datagrams, handlers, terminals) couples a pair of own.  For *)
(* own = AllPairs it is about types; for an own that grows with each       *)
(* initial attach and gives an id to one subscriber it yields IdLeadsHome. *)
(***************************************************************************)
EXTENDS Repl, FiniteSetTheorems, TLAPS

AllPairs == UeId \X UE

\* A context that a table, a datagram or the store holds for subscriber g.
TableCtx(own, g, ctx) ==
    <<ctx.id, g>> \in own /\ ctx.imsi = g /\ ctx.xres = g /\ ctx.k_nas \in {0, g}

\* The tables of a replica of the MME.
Tables(own, r) ==
    /\ \A id \in UeId : r.ids[id] # 0 => <<id, r.ids[id]>> \in own
    /\ \A g \in Teid : r.ctx[g] # None => TableCtx(own, g, r.ctx[g])

\* An entry under id in the store or in a datagram.
Stored(own, id, e) == e.ctx.id = id /\ TableCtx(own, e.imsi, e.ctx)

MmeOK(own) ==
    /\ \A m \in MmeReplica : Tables(own, mme[m])
    /\ \A id \in UeId : mme_store[id] # None => Stored(own, id, mme_store[id])
    /\ \A p \in mme_rep : p.push => Stored(own, p.id, p.entry)

TerminalOK(own, u) ==
    /\ ran_ctx[u].id # 0 => <<ran_ctx[u].id, u>> \in own
    /\ ran_pc[u] \in Step \ {"initial_attach"} => ran_ctx[u].id # 0 /\ ran_ctx[u].k_asme = u
    /\ \A i \in Step : conn[u][i] \in alive \cup {Broken}

\* The request of u, wherever it is: it is for the step u is at, the id in it is
\* u's, and a handler of the MME that waits for the SGW does so with u's context.
RequestOK(own, u, j) ==
    /\ j.step = ran_pc[u]
    /\ j.id # 0 => <<j.id, u>> \in own
    /\ j.step # "initial_attach" => j.id # 0 /\ j.key = u
    /\ j.step = "initial_attach" =>
          /\ j.at \in {"mme", "reply", "silent"}
          /\ j.at = "reply" => j.id # 0
          /\ tries[u] # 0
    /\ j.at \in {"sgw", "pgw", "sgw_answer", "mme_answer"} =>
          TableCtx(own, u, j.ctx) /\ j.ctx.k_nas = u
    /\ j.live => j.m \in alive

JobOK(own, u) == Busy(u) => RequestOK(own, u, job[u])

\* The initial attaches that the MME has taken up, or that were lost.
Taken == {a \in UE \X (1 .. MaxTries) :
             a[2] < tries[a[1]] \/ (a[2] = tries[a[1]] /\ ~At(a[1], "mme", "initial_attach"))}

\* A replica has handed out no more ids than there were initial attaches.
CountOK == \A m \in MmeReplica : mme[m].count \in InitVal[m] .. InitVal[m] + Cardinality(Taken)

Inv(own) ==
    /\ own \subseteq AllPairs
    /\ TypeOK
    /\ MmeOK(own)
    /\ \A u \in UE : TerminalOK(own, u) /\ JobOK(own, u)
    /\ CountOK

\* The ids that replica m may hand out.
Ids(m) == InitVal[m] + 1 .. InitVal[m] + Cardinality(UE) * MaxTries

\* INIT_VAL of the replicas are far enough apart for the ids never to meet.
IdsApart == \A m, n \in MmeReplica : m # n => Ids(m) \cap Ids(n) = {}

\* An id belongs to one subscriber, and those not yet handed out to none.
Homes(own) ==
    /\ \A p, q \in own : p[1] = q[1] => p[2] = q[2]
    /\ \A m \in MmeReplica \cap alive, p \in own : p[1] \in Ids(m) => p[1] <= mme[m].count

-----------------------------------------------------------------------------
(* Constants and numbers.                                                  *)

LEMMA Names == 0 \notin UE /\ 0 \in Teid /\ UE \subseteq Teid /\ 0 \notin UeId /\ UeId \subseteq Nat
<1>1. 0 \notin UE /\ 0 \in Teid /\ UE \subseteq Teid
    BY ReplUEAssumption DEF Teid
<1>2. IsFiniteSet(UE) /\ MaxTries \in Nat
    BY ReplUEAssumption, ReplBoundAssumption
<1>3. PICK b \in Nat : b = Cardinality(UE) * MaxTries
    BY <1>2, FS_CardinalityType
<1>4. ASSUME NEW m \in MmeReplica, NEW id \in InitVal[m] + 1 .. InitVal[m] + b
      PROVE  id \in Nat /\ id # 0
    BY <1>4, ReplInitAssumption
<1>5. UeId = UNION {InitVal[m] + 1 .. InitVal[m] + b : m \in MmeReplica}
    BY <1>3 DEF UeId
<1> QED
    BY <1>1, <1>4, <1>5

\* There are no more initial attaches than the runs of the terminals have.
LEMMA TakenFacts ==
    /\ IsFiniteSet(Taken) /\ Cardinality(Taken) \in Nat
    /\ Cardinality(Taken) <= Cardinality(UE) * MaxTries
<1>1. IsFiniteSet(UE) /\ MaxTries \in Nat
    BY ReplUEAssumption, ReplBoundAssumption
<1>2. IsFiniteSet(1 .. MaxTries) /\ Cardinality(1 .. MaxTries) = MaxTries
    BY <1>1, FS_Interval
<1>3. /\ IsFiniteSet(UE \X (1 .. MaxTries))
      /\ Cardinality(UE \X (1 .. MaxTries)) = Cardinality(UE) * Cardinality(1 .. MaxTries)
    BY <1>1, <1>2, FS_Product
<1>4. Taken \subseteq UE \X (1 .. MaxTries)
    BY DEF Taken
<1>5. IsFiniteSet(Taken) /\ Cardinality(Taken) <= Cardinality(UE \X (1 .. MaxTries))
    BY <1>3, <1>4, FS_Subset
<1> QED
    BY <1>2, <1>3, <1>5, FS_CardinalityType

\* What becomes of the bound when no initial attach is dropped from the count.
LEMMA CountStays ==
    ASSUME CountOK, Taken \subseteq Taken', mme \in [MmeReplica -> MmeState],
           \A m \in MmeReplica : mme'[m].count \in {mme[m].count, InitVal[m]}
    PROVE  CountOK'
<1>1. Cardinality(Taken) <= Cardinality(Taken)'
  <2>1. (IsFiniteSet(Taken))'
      BY TakenFacts, PTL
  <2> QED
      BY <2>1, FS_Subset
<1>2. Cardinality(Taken) \in Nat /\ Cardinality(Taken)' \in Nat
  <2>1. (Cardinality(Taken) \in Nat)'
      BY TakenFacts, PTL
  <2> QED
      BY <2>1, TakenFacts
<1>3. ASSUME NEW m \in MmeReplica
      PROVE  mme'[m].count \in InitVal[m] .. InitVal[m] + Cardinality(Taken)'
  <2>1. InitVal[m] \in Nat
      BY ReplInitAssumption
  <2>2. mme[m].count \in InitVal[m] .. InitVal[m] + Cardinality(Taken)
      BY DEF CountOK
  <2> QED
      BY <1>1, <1>2, <2>1, <2>2
<1> QED
    BY <1>3 DEF CountOK

\* That is so when no new attach is before the MME.
LEMMA TakenGrows ==
    ASSUME tries' = tries, tries \in [UE -> 0 .. MaxTries],
           \A u \in UE : At(u, "mme", "initial_attach")' => At(u, "mme", "initial_attach")
    PROVE  Taken \subseteq Taken'
    BY DEF Taken

-----------------------------------------------------------------------------
(* Requests.                                                               *)

\* What a request keeps while the gateways have it.
Same(j, k) ==
    /\ k.step = j.step /\ k.m = j.m /\ k.live = j.live
    /\ k.ctx = j.ctx /\ k.id = j.id /\ k.key = j.key

LEMMA TimedOutFacts ==
    ASSUME NEW j \in Job, NEW at \in {"mme_answer", "sgw_answer"}
    PROVE  TimedOut(j, at) \in Job /\ TimedOut(j, at).at = at /\ Same(j, TimedOut(j, at))
<1>1. 0 \in Teid
    BY Names
<1>2. PICK t \in Teid : t = IF at = "sgw_answer" THEN j.teid ELSE 0
    BY <1>1 DEF Job
<1>3. TimedOut(j, at) = [j EXCEPT !.at = at, !.teid = t, !.s5 = 0, !.ip = 0, !.ok = FALSE]
    BY <1>2 DEF TimedOut, Job
<1> QED
    BY <1>1, <1>3 DEF Job, Same

LEMMA DatagramFacts ==
    ASSUME job \in [UE -> Job], losses \in 0 .. MaxLosses, NEW u \in UE, NEW j \in Job,
           NEW waiting \in {"mme_answer", "sgw_answer"}, Datagram(u, j, waiting)
    PROVE  /\ losses' \in 0 .. MaxLosses
           /\ \E k \in Job : /\ job' = [job EXCEPT ![u] = k]
                             /\ Same(j, k) /\ k.at \in {j.at, waiting}
<1>1. MaxLosses \in Nat
    BY ReplBoundAssumption
<1>2. CASE Pass(u, j) /\ UNCHANGED losses
    BY <1>2 DEF Pass, Same
<1>3. CASE losses < MaxLosses /\ losses' = losses + 1 /\ Pass(u, TimedOut(j, waiting))
  <2>1. losses' \in 0 .. MaxLosses
      BY <1>1, <1>3
  <2> QED
      BY <1>3, <2>1, TimedOutFacts DEF Pass
<1> QED
    BY <1>2, <1>3 DEF Datagram

\* Where the step is u's, and concerns u's request, the others' are what they were.
LEMMA OthersKeep ==
    ASSUME NEW own, Inv(own), NEW u \in UE, NEW k \in Job, job' = [job EXCEPT ![u] = k],
           UNCHANGED <<ranVars, alive>>,
           k.at # "none" => RequestOK(own, u, k)
    PROVE  \A v \in UE : TerminalOK(own, v)' /\ JobOK(own, v)'
<1>1. ASSUME NEW v \in UE PROVE TerminalOK(own, v)'
    BY DEF Inv, TerminalOK, ranVars
<1>2. job \in [UE -> Job]
    BY DEF Inv, TypeOK
<1>3. ASSUME NEW v \in UE, v # u PROVE JobOK(own, v)'
  <2>1. job'[v] = job[v] /\ JobOK(own, v)
      BY <1>2, <1>3 DEF Inv
  <2> QED
      BY <2>1 DEF JobOK, Busy, RequestOK, TableCtx, ranVars
<1>4. JobOK(own, u)'
  <2>1. job'[u] = k
      BY <1>2
  <2> QED
      BY <2>1 DEF JobOK, Busy, RequestOK, TableCtx, ranVars
<1> QED
    BY <1>1, <1>3, <1>4

\* A step of a gateway for u: what it does to the request.
Moves(u) ==
    \E k \in Job :
        /\ job' = [job EXCEPT ![u] = k]
        /\ Same(job[u], k)
        /\ job[u].at \in {"sgw", "pgw", "sgw_answer"}
        /\ k.at \in {"pgw", "sgw_answer", "mme_answer"}

\* Nothing the MME knows changes by it.
LEMMA GatewayKeeps ==
    ASSUME NEW own, Inv(own), NEW u \in UE, Moves(u), UNCHANGED <<ranVars, alive, mmeVars>>,
           losses' \in 0 .. MaxLosses, exited' \subseteq Replica, ReplSgwTypeOK', ReplPgwTypeOK'
    PROVE  Inv(own)'
<1>1. PICK k \in Job : /\ job' = [job EXCEPT ![u] = k]
                       /\ Same(job[u], k)
                       /\ job[u].at \in {"sgw", "pgw", "sgw_answer"}
                       /\ k.at \in {"pgw", "sgw_answer", "mme_answer"}
    BY DEF Moves
<1>2. job \in [UE -> Job] /\ job' \in [UE -> Job]
    BY <1>1 DEF Inv, TypeOK
<1>3. TypeOK'
  <2>1. RanTypeOK' /\ ReplMmeTypeOK'
      BY DEF Inv, TypeOK, RanTypeOK, ReplMmeTypeOK, ranVars, mmeVars
  <2> QED
      BY <1>2, <2>1 DEF TypeOK
<1>4. MmeOK(own)'
    BY DEF Inv, MmeOK, mmeVars
<1>5. RequestOK(own, u, k)
  <2>1. JobOK(own, u) /\ Busy(u)
      BY <1>1 DEF Inv, Busy
  <2>2. RequestOK(own, u, job[u])
      BY <2>1 DEF JobOK
  <2>3. job[u].step # "initial_attach"
      BY <1>1, <2>2 DEF RequestOK
  <2> QED
      BY <1>1, <2>2, <2>3 DEF RequestOK, Same
<1>6. \A v \in UE : TerminalOK(own, v)' /\ JobOK(own, v)'
    BY <1>1, <1>5, OthersKeep
<1>7. CountOK'
  <2>1. \A v \in UE : At(v, "mme", "initial_attach")' => At(v, "mme", "initial_attach")
      BY <1>1, <1>2 DEF At
  <2>2. Taken \subseteq Taken'
      BY <2>1, TakenGrows DEF Inv, TypeOK, RanTypeOK, ranVars
  <2> QED
      BY <2>2, CountStays DEF Inv, TypeOK, ReplMmeTypeOK, mmeVars
<1> QED
    BY <1>3, <1>4, <1>6, <1>7 DEF Inv

-----------------------------------------------------------------------------
(* The SGW: types of its tables, then its steps.                           *)

LEMMA SgwContextTypes ==
    ASSUME NEW r \in SgwState, NEW imsi \in Teid
    PROVE  /\ NewSgwContext \in SgwContext
           /\ SgwContextOf(r, imsi) \in SgwContext
           /\ \A ctx \in SgwContext \cup {None} : SgwSetContext(r, imsi, ctx) \in SgwState
<1>1. NewSgwContext \in SgwContext
    BY Names DEF NewSgwContext, SgwContext
<1>2. SgwContextOf(r, imsi) \in SgwContext
    BY <1>1 DEF SgwContextOf, SgwState
<1> QED
    BY <1>1, <1>2 DEF SgwSetContext, SgwState

LEMMA SetIdsType ==
    ASSUME NEW r \in SgwState, NEW ctx \in SgwContext, NEW s11 \in Teid \cup {None},
           NEW s1 \in Teid \cup {None}, NEW s5 \in Teid \cup {None}
    PROVE  SetIds(r, ctx, s11, s1, s5) \in SgwState
    BY DEF SetIds, SgwState, IdTable

LEMMA SgwRememberTypes ==
    ASSUME NEW r \in SgwState, NEW e \in Entry(SgwContext)
    PROVE  SgwRemember(r, e) \in SgwState /\ SgwForget(r, e.imsi, e.ctx) \in SgwState
<1>1. e.imsi \in Teid /\ e.ctx \in SgwContext
    BY DEF Entry
<1>2. SgwSetContext(r, e.imsi, e.ctx) \in SgwState
    BY <1>1, SgwContextTypes
<1>3. SgwRemember(r, e) \in SgwState
    BY <1>1, <1>2, SetIdsType DEF SgwRemember
<1>4. SetIds(r, e.ctx, None, None, None) \in SgwState
    BY <1>1, SetIdsType
<1>5. SgwForget(r, e.imsi, e.ctx) \in SgwState
    BY <1>1, <1>4, SgwContextTypes DEF SgwForget
<1> QED
    BY <1>3, <1>5

LEMMA SgwGetImsiType ==
    ASSUME NEW r \in SgwState, NEW teid \in Teid
    PROVE  SgwGetImsi(r, "s11", teid) \in Teid
    BY Names DEF SgwGetImsi, SgwState, IdTable

LEMMA SgwGetType ==
    ASSUME ReplSgwTypeOK, NEW itf \in Interface, NEW teid \in Teid
    PROVE  SgwGet(itf, teid) \subseteq Entry(SgwContext)
<1>1. CASE sgw_store[itf][teid] = None
  <2>1. \A junk \in Teid : Missing(junk, NewSgwContext) \in Entry(SgwContext)
      BY Names DEF Missing, Entry, NewSgwContext, SgwContext
  <2> QED
      BY <1>1, <2>1 DEF SgwGet
<1>2. CASE sgw_store[itf][teid] # None
    BY <1>2 DEF SgwGet, ReplSgwTypeOK
<1> QED
    BY <1>1, <1>2

LEMMA FillType ==
    ASSUME NEW r \in SgwState, NEW itf \in Interface, NEW e \in Entry(SgwContext)
    PROVE  Fill(r, itf, e) \in SgwState
<1>1. e.imsi \in Teid /\ e.ctx \in SgwContext
    BY DEF Entry
<1>2. PICK q \in SgwState : q = SgwSetContext(r, e.imsi, e.ctx)
    BY <1>1, SgwContextTypes
<1>3. PICK key : key = e.ctx[itf]
    OBVIOUS
<1>4. Fill(r, itf, e) = [q EXCEPT ![itf][key] = e.imsi]
    BY <1>2, <1>3 DEF Fill
<1>5. CASE itf = "s11"
    BY <1>1, <1>4, <1>5 DEF SgwState, IdTable
<1>6. CASE itf = "s1"
    BY <1>1, <1>4, <1>6 DEF SgwState, IdTable
<1>7. CASE itf = "s5"
    BY <1>1, <1>4, <1>7 DEF SgwState, IdTable
<1> QED
    BY <1>5, <1>6, <1>7 DEF Interface

LEMMA SgwPulledType ==
    ASSUME ReplSgwTypeOK, NEW r \in SgwState, NEW itf \in Interface, NEW teid \in Teid
    PROVE  SgwPulled(r, itf, teid) \subseteq SgwState
    BY SgwGetType, FillType DEF SgwPulled

LEMMA StoreTypes ==
    ASSUME ReplSgwTypeOK, NEW e \in Entry(SgwContext)
    PROVE  /\ StorePut(e) \in [Interface -> [Teid -> Entry(SgwContext) \cup {None}]]
           /\ StoreErase(e.ctx) \in [Interface -> [Teid -> Entry(SgwContext) \cup {None}]]
<1>1. ASSUME NEW i \in Interface
      PROVE  /\ [sgw_store[i] EXCEPT ![e.ctx[i]] = e] \in [Teid -> Entry(SgwContext) \cup {None}]
             /\ [sgw_store[i] EXCEPT ![e.ctx[i]] = None] \in [Teid -> Entry(SgwContext) \cup {None}]
    BY DEF ReplSgwTypeOK
<1> QED
    BY <1>1 DEF StorePut, StoreErase

SgwRepType == [to : SgwReplica, push : BOOLEAN, n : 0 .. MaxTries, entry : Entry(SgwContext)]

LEMMA SgwReplicateType ==
    ASSUME ReplSgwTypeOK, RanTypeOK, NEW u \in UE, NEW s, NEW push \in BOOLEAN,
           NEW e \in Entry(SgwContext), SgwReplicate(u, s, push, e)
    PROVE  sgw_rep' \subseteq SgwRepType
<1>1. \A t \in SgwReplica : [to |-> t, push |-> push, n |-> tries[u], entry |-> e] \in SgwRepType
    BY DEF SgwRepType, RanTypeOK
<1>2. sgw_rep \subseteq SgwRepType
    BY DEF ReplSgwTypeOK, SgwRepType
<1> QED
    BY <1>1, <1>2 DEF SgwReplicate

\* The types of the SGW after a step of replica s that leaves r in its tables.
LEMMA SgwTypes ==
    ASSUME ReplSgwTypeOK, NEW s, NEW r \in SgwState, sgw' = [sgw EXCEPT ![s] = r],
           sgw_store' \in [Interface -> [Teid -> Entry(SgwContext) \cup {None}]],
           sgw_rep' \subseteq SgwRepType, sgw_pull' \subseteq sgw_pull
    PROVE  ReplSgwTypeOK'
    BY DEF ReplSgwTypeOK, SgwRepType

\* An answer of the SGW.
LEMMA SgwReplyFacts ==
    ASSUME job \in [UE -> Job], losses \in 0 .. MaxLosses, NEW u \in UE, NEW late,
           SgwReply(u, late), job[u].at \in {"sgw", "pgw", "sgw_answer"}
    PROVE  losses' \in 0 .. MaxLosses /\ Moves(u)
<1>1. PICK j \in Job : j = [job[u] EXCEPT !.at = "mme_answer", !.ok = TRUE]
  <2>1. PICK i \in Job : i = job[u]
      OBVIOUS
  <2>2. [i EXCEPT !.at = "mme_answer", !.ok = TRUE] \in Job
      BY DEF Job
  <2> QED
      BY <2>1, <2>2
<1>2. Same(job[u], j) /\ j.at = "mme_answer"
    BY <1>1 DEF Same, Job
<1>3. CASE Datagram(u, j, "mme_answer")
  <2>1. PICK k \in Job : job' = [job EXCEPT ![u] = k] /\ Same(j, k) /\ k.at = "mme_answer"
      BY <1>2, <1>3, DatagramFacts
  <2>2. losses' \in 0 .. MaxLosses
      BY <1>3, DatagramFacts
  <2> QED
      BY <1>2, <2>1, <2>2 DEF Moves, Same
<1>4. CASE Pass(u, TimedOut(job[u], "mme_answer")) /\ UNCHANGED losses
    BY <1>4, TimedOutFacts DEF Pass, Moves
<1> QED
    BY <1>1, <1>3, <1>4 DEF SgwReply

LEMMA SgwReturnFacts ==
    ASSUME TypeOK, NEW u \in UE, NEW r \in SgwState, SgwReturn(u, r),
           job[u].at \in {"sgw", "pgw", "sgw_answer"}, UNCHANGED sgw_pull
    PROVE  /\ Moves(u) /\ losses' = losses /\ exited' = exited
           /\ ReplSgwTypeOK'
<1>1. Moves(u) /\ losses' = losses /\ exited' = exited
    BY TimedOutFacts DEF SgwReturn, Pass, Moves, TypeOK
<1>2. sgw' = [sgw EXCEPT ![job[u].s] = r] /\ UNCHANGED <<sgw_store, sgw_rep>>
    BY DEF SgwReturn, SetSgw
<1>3. ReplSgwTypeOK'
    BY <1>2, SgwTypes DEF TypeOK, ReplSgwTypeOK, SgwRepType
<1> QED
    BY <1>1, <1>3

\* A request that goes on after SgwServing is u's own; the step is one of the SGW.
LEMMA SgwServes ==
    ASSUME NEW own, Inv(own), NEW u \in UE, Moves(u), UNCHANGED <<ranVars, alive, mmeVars, pgwVars>>,
           losses' \in 0 .. MaxLosses, exited' \subseteq Replica, ReplSgwTypeOK'
    PROVE  Inv(own)'
<1>1. ReplPgwTypeOK'
    BY DEF Inv, TypeOK, ReplPgwTypeOK, pgwVars
<1> QED
    BY <1>1, GatewayKeeps

LEMMA SgwCreateKeeps ==
    ASSUME NEW own, Inv(own), NEW u \in UE, SgwCreate(u), UNCHANGED pgwVars
    PROVE  Inv(own)'
<1>1. PICK j \in Job : j = job[u]
    BY DEF Inv, TypeOK
<1>2. j.s \in SgwReplica /\ j.imsi \in Teid /\ j.teid \in Teid
    BY DEF Job
<1>3. PICK r \in SgwState : r = sgw[j.s]
    BY <1>2 DEF Inv, TypeOK, ReplSgwTypeOK
<1>4. PICK old \in SgwContext : old = SgwContextOf(r, j.imsi)
    BY <1>2, SgwContextTypes
<1>5. PICK ctx \in SgwContext :
          ctx = [old EXCEPT !.s11 = j.teid, !.s1 = j.teid, !.s5 = j.teid, !.pgw = TRUE]
    BY <1>2 DEF SgwContext
<1>6. PICK e \in Entry(SgwContext) : e = [imsi |-> j.imsi, ctx |-> ctx]
    BY <1>2 DEF Entry
<1>7. PICK q \in SgwState : q = SgwRemember(r, e)
    BY SgwRememberTypes
<1>8. PICK k \in Job : k = [j EXCEPT !.at = "pgw"]
    BY DEF Job
<1>9. /\ j.at = "sgw"
      /\ UNCHANGED <<ranVars, alive, mmeVars, sgw_pull, sgw_store, sgw_rep, exited>>
      /\ sgw' = [sgw EXCEPT ![j.s] = q]
      /\ Datagram(u, k, "sgw_answer")
    BY <1>1, <1>3, <1>4, <1>5, <1>6, <1>7, <1>8 DEF SgwCreate, SgwServing, At, SetSgw
<1>10. losses' \in 0 .. MaxLosses /\ Moves(u)
  <2>1. job \in [UE -> Job] /\ losses \in 0 .. MaxLosses
      BY DEF Inv, TypeOK
  <2>2. PICK m \in Job : /\ job' = [job EXCEPT ![u] = m]
                         /\ Same(k, m) /\ m.at \in {k.at, "sgw_answer"}
      BY <1>9, <2>1, DatagramFacts
  <2>3. losses' \in 0 .. MaxLosses
      BY <1>9, <2>1, DatagramFacts
  <2>4. Same(j, k) /\ k.at = "pgw"
      BY <1>8 DEF Same, Job
  <2> QED
      BY <1>1, <1>9, <2>2, <2>3, <2>4 DEF Moves, Same
<1>11. ReplSgwTypeOK'
    BY <1>9, SgwTypes DEF Inv, TypeOK, ReplSgwTypeOK, SgwRepType
<1>12. exited' \subseteq Replica
    BY <1>9 DEF Inv, TypeOK
<1> QED
    BY <1>9, <1>10, <1>11, <1>12, SgwServes

LEMMA SgwCreateAnswerKeeps ==
    ASSUME NEW own, Inv(own), NEW u \in UE, SgwCreateAnswer(u), UNCHANGED pgwVars
    PROVE  Inv(own)'
<1>1. PICK j \in Job : j = job[u]
    BY DEF Inv, TypeOK
<1>2. j.s \in SgwReplica /\ j.imsi \in Teid /\ j.s5 \in Teid
    BY DEF Job
<1>3. PICK r \in SgwState : r = sgw[j.s]
    BY <1>2 DEF Inv, TypeOK, ReplSgwTypeOK
<1>4. PICK old \in SgwContext : old = SgwContextOf(r, j.imsi)
    BY <1>2, SgwContextTypes
<1>5. PICK ctx \in SgwContext : ctx = [old EXCEPT !.s5_cteid_ul = j.s5]
    BY <1>2 DEF SgwContext
<1>6. PICK e \in Entry(SgwContext) : e = [imsi |-> j.imsi, ctx |-> ctx]
    BY <1>2 DEF Entry
<1>7. PICK q \in SgwState : q = SgwSetContext(r, j.imsi, ctx)
    BY <1>2, SgwContextTypes
<1>8. /\ j.at = "sgw_answer"
      /\ UNCHANGED <<ranVars, alive, mmeVars, sgw_pull, sgw_rep, exited>>
      /\ sgw' = [sgw EXCEPT ![j.s] = q]
      /\ sgw_store' \in {StorePut(e), sgw_store}
      /\ SgwReply(u, ~j.ok)
    BY <1>1, <1>3, <1>4, <1>5, <1>6, <1>7 DEF SgwCreateAnswer, SgwServing, At, SetSgw
<1>9. losses' \in 0 .. MaxLosses /\ Moves(u)
    BY <1>1, <1>8, SgwReplyFacts DEF Inv, TypeOK
<1>10. ReplSgwTypeOK'
  <2>1. ReplSgwTypeOK
      BY DEF Inv, TypeOK
  <2>2. sgw_store' \in [Interface -> [Teid -> Entry(SgwContext) \cup {None}]]
      BY <1>8, <2>1, StoreTypes DEF ReplSgwTypeOK
  <2> QED
      BY <1>8, <2>1, <2>2, SgwTypes DEF ReplSgwTypeOK, SgwRepType
<1>11. exited' \subseteq Replica
    BY <1>8 DEF Inv, TypeOK
<1> QED
    BY <1>8, <1>9, <1>10, <1>11, SgwServes

LEMMA WithEnodebType ==
    ASSUME NEW ctx \in SgwContext, NEW dl \in Teid
    PROVE  WithEnodeb(ctx, dl) \in SgwContext
    BY DEF WithEnodeb, SgwContext

LEMMA SgwModifyKeeps ==
    ASSUME NEW own, Inv(own), NEW u \in UE, SgwModify(u), UNCHANGED pgwVars
    PROVE  Inv(own)'
<1>1. PICK j \in Job : j = job[u]
    BY DEF Inv, TypeOK
<1>2. j.s \in SgwReplica /\ j.teid \in Teid /\ j.ctx.s1_uteid_dl \in Teid
    BY DEF Job, MmeContext
<1>3. ReplSgwTypeOK /\ RanTypeOK
    BY DEF Inv, TypeOK
<1>4. sgw[j.s] \in SgwState
    BY <1>2, <1>3 DEF ReplSgwTypeOK
<1>5. SgwPulled(sgw[j.s], "s11", j.teid) \subseteq SgwState
    BY <1>2, <1>3, <1>4, SgwPulledType DEF Interface
<1>6. PICK r \in SgwState :
          LET imsi == SgwGetImsi(r, "s11", j.teid)
              ctx  == WithEnodeb(SgwContextOf(r, imsi), j.ctx.s1_uteid_dl)
              new  == SgwSetContext(r, imsi, ctx)
          IN  \/ imsi = 0 /\ SgwReturn(u, r)
              \/ /\ imsi # 0
                 /\ SetSgw(u, IF Binding = "UE_BASED" THEN new
                              ELSE SetIds(new, ctx, None, None, None))
                 /\ SgwPush([imsi |-> imsi, ctx |-> ctx])
                 /\ SgwReplicate(u, j.s, TRUE, [imsi |-> imsi, ctx |-> ctx])
                 /\ SgwReply(u, FALSE)
                 /\ UNCHANGED exited
    BY <1>1, <1>4, <1>5, Zenon DEF SgwModify
<1>7. j.at = "sgw" /\ UNCHANGED <<ranVars, alive, mmeVars, sgw_pull>>
    BY <1>1 DEF SgwModify, SgwServing, At
<1>8. PICK imsi \in Teid : imsi = SgwGetImsi(r, "s11", j.teid)
    BY <1>2, SgwGetImsiType
<1>9. PICK ctx \in SgwContext : ctx = WithEnodeb(SgwContextOf(r, imsi), j.ctx.s1_uteid_dl)
    BY <1>2, SgwContextTypes, WithEnodebType
<1>10. PICK new \in SgwState : new = SgwSetContext(r, imsi, ctx)
    BY SgwContextTypes
<1>11. PICK e \in Entry(SgwContext) : e = [imsi |-> imsi, ctx |-> ctx]
    BY DEF Entry
<1>12. CASE SgwReturn(u, r)
  <2>1. Moves(u) /\ losses' = losses /\ exited' = exited /\ ReplSgwTypeOK'
      BY <1>1, <1>7, <1>12, SgwReturnFacts DEF Inv
  <2>2. losses' \in 0 .. MaxLosses /\ exited' \subseteq Replica
      BY <2>1 DEF Inv, TypeOK
  <2> QED
      BY <1>7, <2>1, <2>2, SgwServes
<1>13. CASE /\ SetSgw(u, IF Binding = "UE_BASED" THEN new ELSE SetIds(new, ctx, None, None, None))
            /\ SgwPush(e) /\ SgwReplicate(u, j.s, TRUE, e) /\ SgwReply(u, FALSE)
            /\ UNCHANGED exited
  <2>1. losses' \in 0 .. MaxLosses /\ Moves(u)
      BY <1>1, <1>7, <1>13, SgwReplyFacts DEF Inv, TypeOK
  <2>2. PICK q \in SgwState : sgw' = [sgw EXCEPT ![j.s] = q]
    <3>1. SetIds(new, ctx, None, None, None) \in SgwState
        BY SetIdsType
    <3> QED
        BY <1>1, <1>13, <3>1 DEF SetSgw
  <2>3. sgw_store' \in [Interface -> [Teid -> Entry(SgwContext) \cup {None}]]
      BY <1>3, <1>13, StoreTypes DEF SgwPush, ReplSgwTypeOK
  <2>4. sgw_rep' \subseteq SgwRepType
      BY <1>3, <1>13, SgwReplicateType
  <2>5. ReplSgwTypeOK'
      BY <1>3, <1>7, <2>2, <2>3, <2>4, SgwTypes
  <2>6. exited' \subseteq Replica
      BY <1>13 DEF Inv, TypeOK
  <2> QED
      BY <1>7, <2>1, <2>5, <2>6, SgwServes
<1> QED
    BY <1>6, <1>8, <1>9, <1>10, <1>11, <1>12, <1>13

LEMMA SgwDetachKeeps ==
    ASSUME NEW own, Inv(own), NEW u \in UE, SgwDetach(u), UNCHANGED pgwVars
    PROVE  Inv(own)'
<1>1. PICK j \in Job : j = job[u]
    BY DEF Inv, TypeOK
<1>2. j.s \in SgwReplica /\ j.teid \in Teid
    BY DEF Job
<1>3. ReplSgwTypeOK /\ job \in [UE -> Job] /\ losses \in 0 .. MaxLosses
    BY DEF Inv, TypeOK
<1>4. sgw[j.s] \in SgwState
    BY <1>2, <1>3 DEF ReplSgwTypeOK
<1>5. SgwPulled(sgw[j.s], "s11", j.teid) \subseteq SgwState
    BY <1>2, <1>3, <1>4, SgwPulledType DEF Interface
<1>6. PICK r \in SgwState :
          LET imsi == SgwGetImsi(r, "s11", j.teid)
              ctx  == SgwContextOf(r, imsi)
              req  == [j EXCEPT !.sess = [imsi |-> imsi, ctx |-> ctx],
                                !.s5 = ctx.s5_cteid_ul, !.at = "pgw"]
          IN  \/ imsi = 0 /\ SgwReturn(u, r)
              \/ /\ imsi # 0 /\ r.ctx[imsi] = None
                 /\ SetSgw(u, r)
                 /\ Exit(j.s)
                 /\ Pass(u, TimedOut(j, "mme_answer"))
                 /\ UNCHANGED <<sgw_store, sgw_rep, losses>>
              \/ /\ imsi # 0 /\ r.ctx[imsi] # None
                 /\ SetSgw(u, r)
                 /\ IF ctx.pgw THEN Datagram(u, req, "sgw_answer")
                    ELSE Pass(u, TimedOut(req, "sgw_answer")) /\ UNCHANGED losses
                 /\ UNCHANGED <<sgw_store, sgw_rep, exited>>
    BY <1>1, <1>4, <1>5, Zenon DEF SgwDetach
<1>7. j.at = "sgw" /\ UNCHANGED <<ranVars, alive, mmeVars, sgw_pull>>
    BY <1>1 DEF SgwDetach, SgwServing, At
<1>8. PICK imsi \in Teid : imsi = SgwGetImsi(r, "s11", j.teid)
    BY <1>2, SgwGetImsiType
<1>9. PICK ctx \in SgwContext : ctx = SgwContextOf(r, imsi)
    BY SgwContextTypes
<1>10. PICK req \in Job : /\ req = [j EXCEPT !.sess = [imsi |-> imsi, ctx |-> ctx],
                                             !.s5 = ctx.s5_cteid_ul, !.at = "pgw"]
                          /\ req.at = "pgw" /\ Same(j, req)
  <2>1. [imsi |-> imsi, ctx |-> ctx] \in Entry(SgwContext) /\ ctx.s5_cteid_ul \in Teid
      BY DEF Entry, SgwContext
  <2>2. PICK e \in Entry(SgwContext), s5 \in Teid :
            e = [imsi |-> imsi, ctx |-> ctx] /\ s5 = ctx.s5_cteid_ul
      BY <2>1
  <2>3. PICK k : k = [j EXCEPT !.sess = e, !.s5 = s5, !.at = "pgw"]
      OBVIOUS
  <2>4. k \in Job
      BY <2>3 DEF Job
  <2>5. k.at = "pgw" /\ Same(j, k)
      BY <2>3 DEF Job, Same
  <2> QED
      BY <2>2, <2>3, <2>4, <2>5
<1>11. exited \subseteq Replica /\ j.s \in Replica
    BY <1>2 DEF Inv, TypeOK, Replica
<1>12. ASSUME SetSgw(u, r), UNCHANGED <<sgw_store, sgw_rep>> PROVE ReplSgwTypeOK'
    BY <1>1, <1>3, <1>7, <1>12, SgwTypes DEF SetSgw, ReplSgwTypeOK, SgwRepType
<1>13. CASE SgwReturn(u, r)
  <2>1. Moves(u) /\ losses' = losses /\ exited' = exited /\ ReplSgwTypeOK'
      BY <1>1, <1>7, <1>13, SgwReturnFacts DEF Inv
  <2> QED
      BY <1>3, <1>7, <1>11, <2>1, SgwServes
<1>14. CASE /\ SetSgw(u, r) /\ Exit(j.s) /\ Pass(u, TimedOut(j, "mme_answer"))
            /\ UNCHANGED <<sgw_store, sgw_rep, losses>>
  <2>1. Moves(u)
      BY <1>1, <1>7, <1>14, TimedOutFacts DEF Pass, Moves
  <2>2. exited' \subseteq Replica
      BY <1>11, <1>14 DEF Exit
  <2> QED
      BY <1>3, <1>7, <1>12, <1>14, <2>1, <2>2, SgwServes
<1>15. CASE /\ SetSgw(u, r)
            /\ IF ctx.pgw THEN Datagram(u, req, "sgw_answer")
               ELSE Pass(u, TimedOut(req, "sgw_answer")) /\ UNCHANGED losses
            /\ UNCHANGED <<sgw_store, sgw_rep, exited>>
  <2>1. Moves(u) /\ losses' \in 0 .. MaxLosses
    <3>1. CASE Datagram(u, req, "sgw_answer")
      <4>1. PICK k \in Job : /\ job' = [job EXCEPT ![u] = k]
                             /\ Same(req, k) /\ k.at \in {"pgw", "sgw_answer"}
          BY <1>3, <1>10, <3>1, DatagramFacts
      <4>2. losses' \in 0 .. MaxLosses
          BY <1>3, <3>1, DatagramFacts
      <4> QED
          BY <1>1, <1>7, <1>10, <4>1, <4>2 DEF Moves, Same
    <3>2. CASE Pass(u, TimedOut(req, "sgw_answer")) /\ UNCHANGED losses
      <4>1. PICK k \in Job : /\ k = TimedOut(req, "sgw_answer")
                             /\ Same(req, k) /\ k.at = "sgw_answer"
          BY TimedOutFacts
      <4>2. job' = [job EXCEPT ![u] = k] /\ losses' \in 0 .. MaxLosses
          BY <1>3, <3>2, <4>1 DEF Pass
      <4>3. Same(j, k)
          BY <1>10, <4>1 DEF Same
      <4>4. job[u].at \in {"sgw", "pgw", "sgw_answer"} /\ Same(job[u], k)
          BY <1>1, <1>7, <4>3
      <4>5. k.at \in {"pgw", "sgw_answer", "mme_answer"}
          BY <4>1
      <4> QED
          BY <4>2, <4>4, <4>5 DEF Moves
    <3> QED
        BY <1>15, <3>1, <3>2
  <2> QED
      BY <1>7, <1>11, <1>12, <1>15, <2>1, SgwServes
<1> QED
    BY <1>6, <1>8, <1>9, <1>10, <1>13, <1>14, <1>15

LEMMA SgwDetachAnswerKeeps ==
    ASSUME NEW own, Inv(own), NEW u \in UE, SgwDetachAnswer(u), UNCHANGED pgwVars
    PROVE  Inv(own)'
<1>1. PICK j \in Job : j = job[u]
    BY DEF Inv, TypeOK
<1>2. j.s \in SgwReplica /\ j.sess \in Entry(SgwContext)
    BY DEF Job
<1>3. ReplSgwTypeOK /\ RanTypeOK /\ exited \subseteq Replica /\ losses \in 0 .. MaxLosses
    BY DEF Inv, TypeOK
<1>4. PICK r \in SgwState : r = sgw[j.s]
    BY <1>2, <1>3 DEF ReplSgwTypeOK
<1>5. PICK q \in SgwState : q = SgwForget(r, j.sess.imsi, j.sess.ctx)
    BY <1>2, SgwRememberTypes
<1>6. j.at = "sgw_answer" /\ UNCHANGED <<ranVars, alive, mmeVars, sgw_pull>>
    BY <1>1 DEF SgwDetachAnswer, SgwServing, At
<1>7. CASE SgwReturn(u, r)
  <2>1. Moves(u) /\ losses' = losses /\ exited' = exited /\ ReplSgwTypeOK'
      BY <1>1, <1>6, <1>7, SgwReturnFacts DEF Inv
  <2> QED
      BY <1>3, <1>6, <2>1, SgwServes
<1>8. CASE /\ SetSgw(u, q)
           /\ sgw_store' = IF SessionSync THEN StoreErase(j.sess.ctx) ELSE sgw_store
           /\ SgwReplicate(u, j.s, FALSE, j.sess)
           /\ SgwReply(u, FALSE)
           /\ UNCHANGED exited
  <2>1. losses' \in 0 .. MaxLosses /\ Moves(u)
      BY <1>1, <1>6, <1>8, SgwReplyFacts DEF Inv, TypeOK
  <2>2. sgw_store' \in [Interface -> [Teid -> Entry(SgwContext) \cup {None}]]
      BY <1>2, <1>3, <1>8, StoreTypes DEF ReplSgwTypeOK
  <2>3. sgw_rep' \subseteq SgwRepType
      BY <1>2, <1>3, <1>8, SgwReplicateType
  <2>4. ReplSgwTypeOK'
      BY <1>1, <1>3, <1>6, <1>8, <2>2, <2>3, SgwTypes DEF SetSgw
  <2> QED
      BY <1>3, <1>6, <1>8, <2>1, <2>4, SgwServes
<1> QED
    BY <1>1, <1>4, <1>5, <1>7, <1>8 DEF SgwDetachAnswer

LEMMA SgwGoneKeeps ==
    ASSUME NEW own, Inv(own), NEW u \in UE, SgwGone(u), UNCHANGED pgwVars
    PROVE  Inv(own)'
<1>1. Moves(u)
    BY TimedOutFacts DEF Inv, TypeOK, SgwGone, Pass, Moves
<1>2. ReplSgwTypeOK'
    BY DEF Inv, TypeOK, ReplSgwTypeOK, SgwGone, sgwVars
<1> QED
    BY <1>1, <1>2, SgwServes DEF Inv, TypeOK, SgwGone

-----------------------------------------------------------------------------
(* Steps that touch no request.                                            *)

LEMMA RequestsKeep ==
    ASSUME NEW own, Inv(own), UNCHANGED <<ranVars, alive, job, mme, mme_store>>,
           mme_rep' \subseteq mme_rep, UNCHANGED <<flow, restarts>>,
           losses' \in 0 .. MaxLosses, exited' \subseteq Replica, ReplSgwTypeOK', ReplPgwTypeOK'
    PROVE  Inv(own)'
<1>1. TypeOK'
    BY DEF Inv, TypeOK, RanTypeOK, ReplMmeTypeOK, ranVars
<1>2. MmeOK(own)'
    BY DEF Inv, MmeOK
<1>3. ASSUME NEW v \in UE PROVE TerminalOK(own, v)' /\ JobOK(own, v)'
    BY DEF Inv, TerminalOK, JobOK, Busy, RequestOK, TableCtx, ranVars
<1>4. CountOK'
  <2>1. Taken \subseteq Taken'
      BY TakenGrows DEF Inv, TypeOK, RanTypeOK, ranVars, At
  <2> QED
      BY <2>1, CountStays DEF Inv, TypeOK, ReplMmeTypeOK
<1> QED
    BY <1>1, <1>2, <1>3, <1>4 DEF Inv

LEMMA SgwFetchKeeps ==
    ASSUME NEW own, Inv(own), NEW u \in UE, NEW s \in SgwReplica, SgwFetch(s, u), UNCHANGED pgwVars
    PROVE  Inv(own)'
<1>1. ReplSgwTypeOK
    BY DEF Inv, TypeOK
<1>2. u \in Teid
    BY Names
<1>3. PICK itf \in {"s1", "s5"} : \E e \in SgwGet(itf, u) :
          sgw_pull' = sgw_pull \cup {[s |-> s, itf |-> itf, entry |-> e]}
    BY DEF SgwFetch
<1>4. PICK e \in SgwGet(itf, u) :
          sgw_pull' = sgw_pull \cup {[s |-> s, itf |-> itf, entry |-> e]}
    BY <1>3
<1>5. e \in Entry(SgwContext)
    BY <1>1, <1>2, <1>4, SgwGetType DEF Interface
<1>6. ReplSgwTypeOK'
    BY <1>1, <1>4, <1>5 DEF SgwFetch, ReplSgwTypeOK
<1>7. ReplPgwTypeOK'
    BY DEF Inv, TypeOK, ReplPgwTypeOK, pgwVars
<1> QED
    BY <1>6, <1>7, RequestsKeep DEF SgwFetch, mmeVars, Inv, TypeOK

LEMMA SgwFillKeeps ==
    ASSUME NEW own, Inv(own), SgwFill, UNCHANGED pgwVars
    PROVE  Inv(own)'
<1>1. ReplSgwTypeOK
    BY DEF Inv, TypeOK
<1>2. PICK p \in sgw_pull : /\ sgw' = [sgw EXCEPT ![p.s] = Fill(sgw[p.s], p.itf, p.entry)]
                            /\ sgw_pull' = sgw_pull \ {p}
    BY DEF SgwFill
<1>3. p.s \in SgwReplica /\ p.itf \in Interface /\ p.entry \in Entry(SgwContext)
    BY <1>1 DEF ReplSgwTypeOK, Interface
<1>4. PICK q \in SgwState : q = Fill(sgw[p.s], p.itf, p.entry)
    BY <1>1, <1>3, FillType DEF ReplSgwTypeOK
<1>5. ReplSgwTypeOK'
    BY <1>1, <1>2, <1>4, SgwTypes DEF SgwFill, ReplSgwTypeOK, SgwRepType
<1>6. ReplPgwTypeOK'
    BY DEF Inv, TypeOK, ReplPgwTypeOK, pgwVars
<1> QED
    BY <1>5, <1>6, RequestsKeep DEF SgwFill, mmeVars, Inv, TypeOK

LEMMA SgwReceiveReplicationKeeps ==
    ASSUME NEW own, Inv(own), SgwReceiveReplication, UNCHANGED pgwVars
    PROVE  Inv(own)'
<1>1. ReplSgwTypeOK
    BY DEF Inv, TypeOK
<1>2. PICK p \in sgw_rep :
          /\ sgw' = [sgw EXCEPT ![p.to] = IF p.push THEN SgwRemember(sgw[p.to], p.entry)
                                          ELSE SgwForget(sgw[p.to], p.entry.imsi, p.entry.ctx)]
          /\ sgw_rep' = sgw_rep \ {p}
    BY DEF SgwReceiveReplication
<1>3. p.to \in SgwReplica /\ p.entry \in Entry(SgwContext)
    BY <1>1 DEF ReplSgwTypeOK
<1>4. PICK q \in SgwState : q = IF p.push THEN SgwRemember(sgw[p.to], p.entry)
                                ELSE SgwForget(sgw[p.to], p.entry.imsi, p.entry.ctx)
    BY <1>1, <1>3, SgwRememberTypes DEF ReplSgwTypeOK
<1>5. ReplSgwTypeOK'
    BY <1>1, <1>2, <1>4, SgwTypes DEF SgwReceiveReplication, ReplSgwTypeOK, SgwRepType
<1>6. ReplPgwTypeOK'
    BY DEF Inv, TypeOK, ReplPgwTypeOK, pgwVars
<1> QED
    BY <1>5, <1>6, RequestsKeep DEF SgwReceiveReplication, mmeVars, Inv, TypeOK

\* An SGW replica dies: no terminal is connected to it.
LEMMA SgwCrashKeeps ==
    ASSUME NEW own, Inv(own), NEW s \in SgwReplica, SgwCrash(s), UNCHANGED pgwVars
    PROVE  Inv(own)'
<1>1. /\ alive' = alive \ {s} /\ s \notin MmeReplica
      /\ UNCHANGED <<ranVars, mmeVars, sgwVars, job, losses, exited>>
    BY ReplReplicaAssumption DEF SgwCrash
<1>2. TypeOK'
    BY <1>1 DEF Inv, TypeOK, RanTypeOK, ReplMmeTypeOK, ReplSgwTypeOK, ReplPgwTypeOK,
                ranVars, mmeVars, sgwVars, pgwVars
<1>3. MmeOK(own)'
    BY <1>1 DEF Inv, MmeOK, mmeVars
<1>4. ASSUME NEW v \in UE PROVE TerminalOK(own, v)' /\ JobOK(own, v)'
  <2>1. TerminalOK(own, v) /\ JobOK(own, v) /\ job[v] \in Job
      BY DEF Inv, TypeOK
  <2>2. conn[v] \in [Step -> MmeReplica \cup {Broken}]
      BY DEF Inv, TypeOK, RanTypeOK
  <2>3. TerminalOK(own, v)'
      BY <1>1, <2>1, <2>2 DEF TerminalOK, ranVars
  <2>4. job[v].live => job[v].m \in alive' \/ job[v].m \notin alive
      BY <1>1, <2>1 DEF Job
  <2> QED
      BY <1>1, <2>1, <2>3, <2>4 DEF JobOK, Busy, RequestOK, TableCtx, ranVars
<1>5. CountOK'
  <2>1. Taken \subseteq Taken'
      BY <1>1, TakenGrows DEF Inv, TypeOK, RanTypeOK, ranVars, At
  <2> QED
      BY <1>1, <2>1, CountStays DEF Inv, TypeOK, ReplMmeTypeOK, mmeVars
<1> QED
    BY <1>2, <1>3, <1>4, <1>5 DEF Inv

-----------------------------------------------------------------------------
(* The PGW.                                                                *)

LEMMA PgwTableTypes ==
    ASSUME NEW r \in PgwState, NEW e \in Entry(PgwContext)
    PROVE  /\ PgwRemember(r, e) \in PgwState
           /\ PgwForget(r, e) \in PgwState
           /\ \A ip \in UE : PgwFill(r, ip, e) \in PgwState
<1>1. e.imsi \in Teid /\ e.ctx \in PgwContext
    BY DEF Entry
<1>2. PICK i \in Teid, c \in PgwContext : i = e.imsi /\ c = e.ctx
    BY <1>1
<1>3. c.s5 \in Teid /\ c.sgi \in Teid
    BY DEF PgwContext
<1>4. PgwRemember(r, e) \in PgwState
    BY <1>2, <1>3 DEF PgwRemember, PgwState, IdTable
<1>5. PgwForget(r, e) \in PgwState
    BY <1>2, <1>3 DEF PgwForget, PgwState, IdTable
<1>6. ASSUME NEW ip \in UE PROVE PgwFill(r, ip, e) \in PgwState
    BY <1>2, Names DEF PgwFill, PgwState, IdTable
<1> QED
    BY <1>4, <1>5, <1>6

LEMMA PgwGetType ==
    ASSUME ReplPgwTypeOK, NEW itf \in PgwInterface, NEW key \in Teid
    PROVE  PgwGet(itf, key) \subseteq Entry(PgwContext)
<1>1. CASE pgw_store[itf][key] = None
  <2>1. \A junk \in Teid : Missing(junk, NewPgwContext) \in Entry(PgwContext)
      BY Names DEF Missing, Entry, NewPgwContext, PgwContext
  <2> QED
      BY <1>1, <2>1 DEF PgwGet
<1>2. CASE pgw_store[itf][key] # None
    BY <1>2 DEF PgwGet, ReplPgwTypeOK
<1> QED
    BY <1>1, <1>2

PgwRepType == [to : PgwReplica, push : BOOLEAN, n : 0 .. MaxTries, entry : Entry(PgwContext)]

LEMMA PgwReplicateType ==
    ASSUME ReplPgwTypeOK, RanTypeOK, NEW u \in UE, NEW p, NEW push \in BOOLEAN,
           NEW e \in Entry(PgwContext), PgwReplicate(u, p, push, e)
    PROVE  pgw_rep' \subseteq PgwRepType
<1>1. \A q \in PgwReplica : [to |-> q, push |-> push, n |-> tries[u], entry |-> e] \in PgwRepType
    BY DEF PgwRepType, RanTypeOK
<1>2. pgw_rep \subseteq PgwRepType
    BY DEF ReplPgwTypeOK, PgwRepType
<1> QED
    BY <1>1, <1>2 DEF PgwReplicate

LEMMA PgwStoreTypes ==
    ASSUME ReplPgwTypeOK, NEW e \in Entry(PgwContext)
    PROVE  /\ PgwStorePut(e) \in [PgwInterface -> [Teid -> Entry(PgwContext) \cup {None}]]
           /\ PgwStoreErase(e) \in [PgwInterface -> [Teid -> Entry(PgwContext) \cup {None}]]
    BY DEF PgwStorePut, PgwStoreErase, ReplPgwTypeOK, PgwInterface

LEMMA PgwCreateKeeps ==
    ASSUME NEW own, Inv(own), NEW u \in UE, NEW p \in PgwReplica, PgwCreate(u, p)
    PROVE  Inv(own)'
<1>1. PICK j \in Job : j = job[u]
    BY DEF Inv, TypeOK
<1>2. j.imsi \in Teid /\ j.teid \in Teid
    BY DEF Job
<1>3. PICK e \in Entry(PgwContext) :
          e = [imsi |-> j.imsi, ctx |-> [s5 |-> j.teid, sgi |-> j.imsi, s5_uteid_dl |-> j.teid]]
    BY <1>2 DEF Entry, PgwContext
<1>4. ReplPgwTypeOK /\ RanTypeOK /\ job \in [UE -> Job] /\ losses \in 0 .. MaxLosses
    BY DEF Inv, TypeOK
<1>5. PICK k : k = [j EXCEPT !.at = "sgw_answer", !.s5 = j.teid, !.ip = j.imsi, !.ok = TRUE]
    OBVIOUS
<1>6. k \in Job /\ k.at = "sgw_answer" /\ Same(j, k)
    BY <1>2, <1>5 DEF Job, Same
<1>7. /\ j.at = "pgw"
      /\ UNCHANGED <<ranVars, alive, mmeVars, sgwVars, pgw_pull, exited>>
      /\ pgw' = [pgw EXCEPT ![p] = PgwRemember(pgw[p], e)]
      /\ pgw_store' = IF SessionSync THEN PgwStorePut(e) ELSE pgw_store
      /\ PgwReplicate(u, p, TRUE, e)
      /\ Datagram(u, k, "sgw_answer")
    BY <1>1, <1>3, <1>5, Zenon DEF PgwCreate, PgwServing, At
<1>8. losses' \in 0 .. MaxLosses /\ Moves(u)
  <2>1. PICK m \in Job : /\ job' = [job EXCEPT ![u] = m]
                         /\ Same(k, m) /\ m.at = "sgw_answer"
      BY <1>4, <1>6, <1>7, DatagramFacts
  <2>2. losses' \in 0 .. MaxLosses
      BY <1>4, <1>6, <1>7, DatagramFacts
  <2> QED
      BY <1>1, <1>6, <1>7, <2>1, <2>2 DEF Moves, Same
<1>9. ReplPgwTypeOK'
  <2>1. PgwRemember(pgw[p], e) \in PgwState
      BY <1>4, PgwTableTypes DEF ReplPgwTypeOK
  <2>2. pgw_store' \in [PgwInterface -> [Teid -> Entry(PgwContext) \cup {None}]]
      BY <1>4, <1>7, PgwStoreTypes DEF ReplPgwTypeOK
  <2>3. pgw_rep' \subseteq PgwRepType
      BY <1>4, <1>7, PgwReplicateType
  <2> QED
      BY <1>4, <1>7, <2>1, <2>2, <2>3 DEF ReplPgwTypeOK, PgwRepType
<1>10. ReplSgwTypeOK'
    BY <1>7 DEF Inv, TypeOK, ReplSgwTypeOK, sgwVars
<1>11. exited' \subseteq Replica
    BY <1>7 DEF Inv, TypeOK
<1> QED
    BY <1>7, <1>8, <1>9, <1>10, <1>11, GatewayKeeps

LEMMA PgwDetachKeeps ==
    ASSUME NEW own, Inv(own), NEW u \in UE, NEW p \in PgwReplica, PgwDetach(u, p)
    PROVE  Inv(own)'
<1>1. PICK j \in Job : j = job[u]
    BY DEF Inv, TypeOK
<1>2. j.s5 \in Teid
    BY DEF Job
<1>3. /\ ReplPgwTypeOK /\ RanTypeOK /\ job \in [UE -> Job] /\ losses \in 0 .. MaxLosses
      /\ exited \subseteq Replica
    BY DEF Inv, TypeOK
<1>4. PgwFound(p, j.s5) \subseteq Entry(PgwContext)
  <2>1. CASE SessionSync
      BY <1>2, <1>3, <2>1, PgwGetType DEF PgwFound, PgwInterface
  <2>2. CASE ~SessionSync
    <3>1. PICK r \in PgwState : r = pgw[p]
        BY <1>3 DEF ReplPgwTypeOK
    <3>2. PICK imsi \in Teid : imsi = IF r.s5[j.s5] = None THEN 0 ELSE r.s5[j.s5]
        BY <1>2, Names DEF PgwState, IdTable
    <3>3. NewPgwContext \in PgwContext
        BY Names DEF NewPgwContext, PgwContext
    <3>4. PgwContextOf(r, imsi) \in PgwContext
        BY <3>3 DEF PgwContextOf, PgwState
    <3>5. PgwFound(p, j.s5) = {[imsi |-> imsi, ctx |-> PgwContextOf(r, imsi)]}
        BY <2>2, <3>1, <3>2 DEF PgwFound
    <3> QED
        BY <3>4, <3>5 DEF Entry
  <2> QED
      BY <2>1, <2>2
<1>5. PICK e \in PgwFound(p, j.s5) :
          /\ pgw' = IF SessionSync THEN pgw ELSE [pgw EXCEPT ![p].ctx[e.imsi] = e.ctx]
          /\ \/ /\ Exit(p)
                /\ Pass(u, TimedOut(j, "sgw_answer"))
                /\ UNCHANGED <<pgw_store, pgw_rep, losses>>
             \/ /\ pgw_store' = IF SessionSync THEN PgwStoreErase(e) ELSE pgw_store
                /\ PgwReplicate(u, p, FALSE, e)
                /\ Datagram(u, [j EXCEPT !.at = "sgw_answer", !.ok = TRUE], "sgw_answer")
                /\ UNCHANGED exited
    BY <1>1 DEF PgwDetach
<1>6. j.at = "pgw" /\ UNCHANGED <<ranVars, alive, mmeVars, sgwVars, pgw_pull>>
    BY <1>1 DEF PgwDetach, PgwServing, At
<1>7. e \in Entry(PgwContext) /\ e.imsi \in Teid /\ e.ctx \in PgwContext
    BY <1>4 DEF Entry
<1>8. pgw' \in [PgwReplica -> PgwState]
  <2>1. PICK r \in PgwState : r = [pgw[p] EXCEPT !.ctx[e.imsi] = e.ctx]
      BY <1>3, <1>7 DEF ReplPgwTypeOK, PgwState
  <2>2. [pgw EXCEPT ![p].ctx[e.imsi] = e.ctx] = [pgw EXCEPT ![p] = r]
      BY <2>1
  <2> QED
      BY <1>3, <1>5, <2>2 DEF ReplPgwTypeOK
<1>9. ReplSgwTypeOK'
    BY <1>6 DEF Inv, TypeOK, ReplSgwTypeOK, sgwVars
<1>10. CASE /\ Exit(p) /\ Pass(u, TimedOut(j, "sgw_answer"))
            /\ UNCHANGED <<pgw_store, pgw_rep, losses>>
  <2>1. Moves(u)
      BY <1>1, <1>6, <1>10, TimedOutFacts DEF Pass, Moves
  <2>2. ReplPgwTypeOK'
      BY <1>3, <1>6, <1>8, <1>10 DEF ReplPgwTypeOK
  <2>3. exited' \subseteq Replica
      BY <1>3, <1>10 DEF Exit, Replica
  <2> QED
      BY <1>3, <1>6, <1>9, <1>10, <2>1, <2>2, <2>3, GatewayKeeps
<1>11. CASE /\ pgw_store' = IF SessionSync THEN PgwStoreErase(e) ELSE pgw_store
            /\ PgwReplicate(u, p, FALSE, e)
            /\ Datagram(u, [j EXCEPT !.at = "sgw_answer", !.ok = TRUE], "sgw_answer")
            /\ UNCHANGED exited
  <2>1. PICK k : k = [j EXCEPT !.at = "sgw_answer", !.ok = TRUE]
      OBVIOUS
  <2>2. k \in Job /\ k.at = "sgw_answer" /\ Same(j, k)
      BY <2>1 DEF Job, Same
  <2>3. Datagram(u, k, "sgw_answer")
      BY <1>11, <2>1
  <2>4. PICK m \in Job : job' = [job EXCEPT ![u] = m] /\ Same(k, m) /\ m.at = "sgw_answer"
      BY <1>3, <2>2, <2>3, DatagramFacts
  <2>5. losses' \in 0 .. MaxLosses
      BY <1>3, <2>2, <2>3, DatagramFacts
  <2>6. Moves(u)
      BY <1>1, <1>6, <2>2, <2>4 DEF Moves, Same
  <2>7. pgw_store' \in [PgwInterface -> [Teid -> Entry(PgwContext) \cup {None}]]
      BY <1>3, <1>7, <1>11, PgwStoreTypes DEF ReplPgwTypeOK
  <2>8. pgw_rep' \subseteq PgwRepType
      BY <1>3, <1>7, <1>11, PgwReplicateType
  <2>9. ReplPgwTypeOK'
      BY <1>3, <1>6, <1>8, <2>7, <2>8 DEF ReplPgwTypeOK, PgwRepType
  <2> QED
      BY <1>3, <1>6, <1>9, <1>11, <2>5, <2>6, <2>9, GatewayKeeps
<1> QED
    BY <1>5, <1>10, <1>11

LEMMA PgwFetchKeeps ==
    ASSUME NEW own, Inv(own), NEW u \in UE, NEW p \in PgwReplica, PgwFetch(p, u)
    PROVE  Inv(own)'
<1>1. ReplPgwTypeOK
    BY DEF Inv, TypeOK
<1>2. u \in Teid
    BY Names
<1>3. PICK e \in PgwGet("sgi", u) : pgw_pull' = pgw_pull \cup {[p |-> p, ip |-> u, entry |-> e]}
    BY DEF PgwFetch
<1>4. e \in Entry(PgwContext)
    BY <1>1, <1>2, <1>3, PgwGetType DEF PgwInterface
<1>5. ReplPgwTypeOK'
    BY <1>1, <1>3, <1>4 DEF PgwFetch, ReplPgwTypeOK
<1>6. ReplSgwTypeOK'
    BY DEF Inv, TypeOK, ReplSgwTypeOK, sgwVars, PgwFetch
<1> QED
    BY <1>5, <1>6, RequestsKeep DEF PgwFetch, mmeVars, Inv, TypeOK

LEMMA PgwFillStepKeeps ==
    ASSUME NEW own, Inv(own), PgwFillStep
    PROVE  Inv(own)'
<1>1. ReplPgwTypeOK
    BY DEF Inv, TypeOK
<1>2. PICK q \in pgw_pull : /\ pgw' = [pgw EXCEPT ![q.p] = PgwFill(pgw[q.p], q.ip, q.entry)]
                            /\ pgw_pull' = pgw_pull \ {q}
    BY DEF PgwFillStep
<1>3. q.p \in PgwReplica /\ q.ip \in UE /\ q.entry \in Entry(PgwContext)
    BY <1>1 DEF ReplPgwTypeOK
<1>4. PICK r \in PgwState : r = PgwFill(pgw[q.p], q.ip, q.entry)
    BY <1>1, <1>3, PgwTableTypes DEF ReplPgwTypeOK
<1>5. ReplPgwTypeOK'
    BY <1>1, <1>2, <1>4 DEF PgwFillStep, ReplPgwTypeOK
<1>6. ReplSgwTypeOK'
    BY DEF Inv, TypeOK, ReplSgwTypeOK, sgwVars, PgwFillStep
<1> QED
    BY <1>5, <1>6, RequestsKeep DEF PgwFillStep, mmeVars, Inv, TypeOK

LEMMA PgwReceiveReplicationKeeps ==
    ASSUME NEW own, Inv(own), PgwReceiveReplication
    PROVE  Inv(own)'
<1>1. ReplPgwTypeOK
    BY DEF Inv, TypeOK
<1>2. PICK q \in pgw_rep :
          /\ pgw' = [pgw EXCEPT ![q.to] = IF q.push THEN PgwRemember(pgw[q.to], q.entry)
                                          ELSE PgwForget(pgw[q.to], q.entry)]
          /\ pgw_rep' = pgw_rep \ {q}
    BY DEF PgwReceiveReplication
<1>3. q.to \in PgwReplica /\ q.entry \in Entry(PgwContext)
    BY <1>1 DEF ReplPgwTypeOK
<1>4. PICK r \in PgwState : r = IF q.push THEN PgwRemember(pgw[q.to], q.entry)
                                ELSE PgwForget(pgw[q.to], q.entry)
    BY <1>1, <1>3, PgwTableTypes DEF ReplPgwTypeOK
<1>5. ReplPgwTypeOK'
    BY <1>1, <1>2, <1>4 DEF PgwReceiveReplication, ReplPgwTypeOK
<1>6. ReplSgwTypeOK'
    BY DEF Inv, TypeOK, ReplSgwTypeOK, sgwVars, PgwReceiveReplication
<1> QED
    BY <1>5, <1>6, RequestsKeep DEF PgwReceiveReplication, mmeVars, Inv, TypeOK

-----------------------------------------------------------------------------
(* The MME: its tables, the store and the datagrams.                       *)

StoreOK(own, st) ==
    /\ st \in [UeId -> Entry(MmeContext) \cup {None}]
    /\ \A id \in UeId : st[id] # None => Stored(own, id, st[id])

MmeRepType == [to : MmeReplica, push : BOOLEAN, id : UeId, n : 0 .. MaxTries,
               entry : Entry(MmeContext)]

RepOK(own, q) == q \subseteq MmeRepType /\ \A p \in q : p.push => Stored(own, p.id, p.entry)

LEMMA RememberFacts ==
    ASSUME NEW own, NEW r \in MmeState, Tables(own, r), NEW id \in UeId,
           NEW e \in Entry(MmeContext), Stored(own, id, e)
    PROVE  /\ Remember(r, id, e) \in MmeState
           /\ Tables(own, Remember(r, id, e))
           /\ Remember(r, id, e).count = r.count
<1>1. PICK g \in Teid, c \in MmeContext : g = e.imsi /\ c = e.ctx
    BY DEF Entry
<1>2. TableCtx(own, g, c) /\ <<id, g>> \in own
    BY <1>1 DEF Stored, TableCtx
<1>3. PICK q : q = [r EXCEPT !.ids[id] = g, !.ctx[g] = c]
    OBVIOUS
<1>4. q \in MmeState /\ q.count = r.count
    BY <1>3 DEF MmeState
<1>5. Tables(own, q)
    BY <1>2, <1>3 DEF Tables, MmeState
<1> QED
    BY <1>1, <1>3, <1>4, <1>5 DEF Remember

LEMMA ForgetFacts ==
    ASSUME NEW own, NEW r \in MmeState, Tables(own, r), NEW id \in UeId, NEW g \in Teid
    PROVE  /\ Forget(r, id, g) \in MmeState
           /\ Tables(own, Forget(r, id, g))
           /\ Forget(r, id, g).count = r.count
<1>1. 0 \in Teid
    BY Names
<1>2. PICK q : q = [r EXCEPT !.ids[id] = 0, !.ctx[g] = None]
    OBVIOUS
<1>3. q \in MmeState /\ q.count = r.count
    BY <1>1, <1>2 DEF MmeState
<1>4. Tables(own, q)
    BY <1>2 DEF Tables, MmeState
<1> QED
    BY <1>2, <1>3, <1>4 DEF Forget

LEMMA SetContextFacts ==
    ASSUME NEW own, NEW r \in MmeState, Tables(own, r), NEW g \in Teid, NEW c \in MmeContext,
           TableCtx(own, g, c)
    PROVE  /\ SetContext(r, g, c) \in MmeState
           /\ Tables(own, SetContext(r, g, c))
           /\ SetContext(r, g, c).count = r.count
<1>1. PICK q : q = [r EXCEPT !.ctx[g] = c]
    OBVIOUS
<1>2. q \in MmeState /\ q.count = r.count
    BY <1>1 DEF MmeState
<1>3. Tables(own, q)
    BY <1>1 DEF Tables, MmeState
<1> QED
    BY <1>1, <1>2, <1>3 DEF SetContext

LEMMA PulledFacts ==
    ASSUME NEW own, StoreOK(own, mme_store), NEW r \in MmeState, Tables(own, r), NEW id \in UeId
    PROVE  /\ Pulled(r, id) \in MmeState
           /\ Tables(own, Pulled(r, id))
           /\ Pulled(r, id).count = r.count
<1>1. CASE mme_store[id] = None
    BY <1>1 DEF Pulled
<1>2. CASE mme_store[id] # None
  <2>1. mme_store[id] \in Entry(MmeContext) /\ Stored(own, id, mme_store[id])
      BY <1>2 DEF StoreOK
  <2> QED
      BY <1>2, <2>1, RememberFacts DEF Pulled
<1> QED
    BY <1>1, <1>2

LEMMA PushFacts ==
    ASSUME NEW own, own \subseteq AllPairs, StoreOK(own, mme_store), NEW g \in Teid,
           NEW c \in MmeContext, TableCtx(own, g, c), PushContext(g, c)
    PROVE  StoreOK(own, mme_store')
<1>1. PICK e \in Entry(MmeContext) : e = [imsi |-> g, ctx |-> c]
    BY DEF Entry
<1>2. c.id \in UeId /\ Stored(own, c.id, e)
    BY <1>1 DEF TableCtx, AllPairs, Stored
<1>3. mme_store' = [mme_store EXCEPT ![c.id] = e]
    BY <1>1 DEF PushContext
<1>4. mme_store' \in [UeId -> Entry(MmeContext) \cup {None}]
    BY <1>3 DEF StoreOK
<1>5. ASSUME NEW id \in UeId, mme_store'[id] # None PROVE Stored(own, id, mme_store'[id])
    BY <1>2, <1>3, <1>5 DEF StoreOK
<1> QED
    BY <1>4, <1>5 DEF StoreOK

LEMMA ReplicateFacts ==
    ASSUME NEW own, RanTypeOK, RepOK(own, mme_rep), NEW u \in UE, NEW m, NEW push \in BOOLEAN,
           NEW id \in UeId, NEW g \in Teid, NEW c \in MmeContext,
           push => Stored(own, id, [imsi |-> g, ctx |-> c]), Replicate(u, m, push, id, g, c)
    PROVE  RepOK(own, mme_rep')
<1>1. PICK e \in Entry(MmeContext) : e = [imsi |-> g, ctx |-> c]
    BY DEF Entry
<1>2. PICK n \in 0 .. MaxTries : n = tries[u]
    BY DEF RanTypeOK
<1>3. ASSUME NEW t \in MmeReplica, NEW p,
             p = [to |-> t, push |-> push, id |-> id, n |-> n, entry |-> e]
      PROVE  p \in MmeRepType /\ (p.push => Stored(own, p.id, p.entry))
    BY <1>1, <1>3 DEF MmeRepType
<1>4. mme_rep' = IF ~Rep THEN mme_rep
                 ELSE mme_rep \cup {[to |-> t, push |-> push, id |-> id, n |-> n, entry |-> e] :
                                    t \in MmeReplica \ {m}}
    BY <1>1, <1>2 DEF Replicate
<1> QED
    BY <1>3, <1>4, Zenon DEF RepOK

\* What is known of the MME where u's request is served, and all that a step of
\* its handler has to keep: replica m is left with the tables r.
MmeKnows(own) == StoreOK(own, mme_store) /\ RepOK(own, mme_rep)

LEMMA MmeKnown ==
    ASSUME NEW own, Inv(own)
    PROVE  /\ MmeKnows(own)
           /\ \A m \in MmeReplica : mme[m] \in MmeState /\ Tables(own, mme[m])
    BY DEF Inv, TypeOK, ReplMmeTypeOK, MmeOK, MmeKnows, StoreOK, RepOK, MmeRepType

FlowOK == flow \in [MmeReplica -> [UE -> SgwReplica \cup {None}]]

LEMMA MmeServes ==
    ASSUME NEW own, Inv(own), NEW u \in UE, NEW r \in MmeState, Tables(own, r),
           r.count = mme[job[u].m].count, SetMme(u, r), MmeKnows(own)', FlowOK',
           NEW k \in Job, job' = [job EXCEPT ![u] = k], k.at # "mme",
           k.at # "none" => RequestOK(own, u, k),
           UNCHANGED <<ranVars, alive, restarts, sgwVars, pgwVars>>,
           losses' \in 0 .. MaxLosses, exited' \subseteq Replica
    PROVE  Inv(own)' /\ \A m \in MmeReplica : mme'[m].count = mme[m].count
<1>1. /\ job \in [UE -> Job] /\ job' \in [UE -> Job] /\ own \subseteq AllPairs
      /\ mme \in [MmeReplica -> MmeState] /\ RanTypeOK
    BY DEF Inv, TypeOK, ReplMmeTypeOK
<1>2. mme' = [mme EXCEPT ![job[u].m] = r]
    BY DEF SetMme
<1>3. mme' \in [MmeReplica -> MmeState]
    BY <1>1, <1>2
<1>4. \A m \in MmeReplica : mme'[m].count = mme[m].count
    BY <1>1, <1>2
<1>5. ReplMmeTypeOK'
  <2>1. mme_store' \in [UeId -> Entry(MmeContext) \cup {None}]
      BY DEF MmeKnows, StoreOK
  <2>2. mme_rep' \subseteq MmeRepType
      BY DEF MmeKnows, RepOK
  <2>3. flow' \in [MmeReplica -> [UE -> SgwReplica \cup {None}]]
      BY DEF FlowOK
  <2>4. restarts' \in 0 .. MaxRestarts
      BY DEF Inv, TypeOK, ReplMmeTypeOK
  <2> QED
      BY <1>3, <2>1, <2>2, <2>3, <2>4 DEF ReplMmeTypeOK, MmeRepType
<1>6. TypeOK'
  <2>1. RanTypeOK' /\ ReplSgwTypeOK' /\ ReplPgwTypeOK'
      BY DEF Inv, TypeOK, RanTypeOK, ReplSgwTypeOK, ReplPgwTypeOK, ranVars, sgwVars, pgwVars
  <2> QED
      BY <1>1, <1>5, <2>1 DEF TypeOK
<1>7. MmeOK(own)'
  <2>1. ASSUME NEW m \in MmeReplica PROVE Tables(own, mme[m])'
    <3>1. mme'[m] = r \/ mme'[m] = mme[m]
        BY <1>1, <1>2
    <3>2. Tables(own, mme[m])
        BY MmeKnown
    <3> QED
        BY <3>1, <3>2 DEF Tables, TableCtx
  <2>2. \A id \in UeId : mme_store'[id] # None => Stored(own, id, mme_store'[id])
      BY DEF MmeKnows, StoreOK
  <2>3. \A p \in mme_rep' : p.push => Stored(own, p.id, p.entry)
      BY DEF MmeKnows, RepOK
  <2> QED
      BY <2>1, <2>2, <2>3 DEF MmeOK, Stored, TableCtx
<1>8. \A v \in UE : TerminalOK(own, v)' /\ JobOK(own, v)'
    BY OthersKeep
<1>9. CountOK'
  <2>1. \A v \in UE : At(v, "mme", "initial_attach")' => At(v, "mme", "initial_attach")
      BY <1>1 DEF At
  <2>2. Taken \subseteq Taken'
      BY <1>1, <2>1, TakenGrows DEF RanTypeOK, ranVars
  <2>3. CountOK
      BY DEF Inv
  <2> QED
      BY <1>1, <1>4, <2>2, <2>3, CountStays
<1> QED
    BY <1>1, <1>4, <1>6, <1>7, <1>8, <1>9 DEF Inv

\* The context found through the id of u's request is u's, if its keys are.
LEMMA Admitted ==
    ASSUME NEW own, NEW u \in UE, NEW id \in UeId, NEW r \in MmeState, Tables(own, r),
           r.ids[id] # 0,
           \/ ContextOf(r, r.ids[id]).xres = u
           \/ ContextOf(r, r.ids[id]).k_nas = u
    PROVE  /\ r.ids[id] = u
           /\ ContextOf(r, r.ids[id]) \in MmeContext
           /\ TableCtx(own, u, ContextOf(r, r.ids[id]))
<1>1. PICK g \in Teid : g = r.ids[id]
    BY DEF MmeState
<1>2. u # 0
    BY Names
<1>3. r.ctx[g] # None
    BY <1>1, <1>2 DEF ContextOf, NewMmeContext
<1>4. r.ctx[g] \in MmeContext /\ TableCtx(own, g, r.ctx[g])
    BY <1>3 DEF Tables, MmeState
<1>5. g = u
    BY <1>1, <1>2, <1>3, <1>4 DEF ContextOf, TableCtx
<1> QED
    BY <1>1, <1>3, <1>4, <1>5 DEF ContextOf

\* A handler that goes no further.
LEMMA SilentFacts ==
    ASSUME NEW own, Inv(own), NEW u \in UE, Busy(u), NEW at \in {"silent", "reply"},
           at = "reply" => job[u].id # 0
    PROVE  \E k \in Job : /\ k = [job[u] EXCEPT !.at = at] /\ k.at = at
                          /\ RequestOK(own, u, k)
<1>1. PICK j \in Job : j = job[u]
    BY DEF Inv, TypeOK
<1>2. PICK k : k = [j EXCEPT !.at = at]
    OBVIOUS
<1>3. k \in Job /\ k.at = at /\ Same(j, k)
    BY <1>2 DEF Job, Same
<1>4. RequestOK(own, u, j)
    BY <1>1 DEF Inv, JobOK
<1>5. RequestOK(own, u, k)
    BY <1>1, <1>3, <1>4 DEF RequestOK, Same
<1> QED
    BY <1>1, <1>2, <1>3, <1>5

\* The early returns, and the one that ends the replica.
LEMMA ReturnKeeps ==
    ASSUME NEW own, Inv(own), NEW u \in UE, Busy(u), NEW r \in MmeState, Tables(own, r),
           r.count = mme[job[u].m].count, UNCHANGED <<ranVars, alive, restarts, sgwVars, pgwVars>>,
           Return(u, r) \/ HmacFailure(u, r)
    PROVE  Inv(own)' /\ \A m \in MmeReplica : mme'[m].count = mme[m].count
<1>1. PICK k \in Job : k = [job[u] EXCEPT !.at = "silent"] /\ k.at = "silent" /\ RequestOK(own, u, k)
    BY SilentFacts
<1>2. /\ SetMme(u, r) /\ job' = [job EXCEPT ![u] = k]
      /\ UNCHANGED <<mme_store, mme_rep, flow, losses>>
    BY <1>1 DEF Return, HmacFailure, Silent, Pass
<1>3. exited' \subseteq Replica
  <2>1. job[u].m \in Replica /\ exited \subseteq Replica
      BY DEF Inv, TypeOK, Job, Replica
  <2> QED
      BY <2>1 DEF Return, HmacFailure, Exit
<1>4. MmeKnows(own)' /\ FlowOK' /\ losses' \in 0 .. MaxLosses
  <2>1. MmeKnows(own)
      BY MmeKnown
  <2> QED
      BY <1>2, <2>1 DEF MmeKnows, StoreOK, RepOK, Stored, TableCtx, FlowOK, Inv, TypeOK, ReplMmeTypeOK
<1> QED
    BY <1>1, <1>2, <1>3, <1>4, MmeServes

CountsKeep == \A m \in MmeReplica : mme'[m].count = mme[m].count

LEMMA MmeAuthenticateKeeps ==
    ASSUME NEW own, Inv(own), NEW u \in UE, MmeAuthenticate(u), UNCHANGED <<sgwVars, pgwVars>>
    PROVE  Inv(own)' /\ CountsKeep
<1>1. PICK j \in Job : j = job[u]
    BY DEF Inv, TypeOK
<1>2. j.at = "mme" /\ j.step = "authenticate" /\ UNCHANGED <<ranVars, alive, restarts>>
    BY <1>1 DEF MmeAuthenticate, Serving, At
<1>3. Busy(u) /\ RequestOK(own, u, j) /\ own \subseteq AllPairs
    BY <1>1, <1>2 DEF Inv, JobOK, Busy
<1>4. PICK id \in UeId : id = j.id /\ <<id, u>> \in own /\ j.key = u /\ id # 0
    BY <1>2, <1>3 DEF RequestOK, AllPairs
<1>5. MmeKnows(own) /\ mme[j.m] \in MmeState /\ Tables(own, mme[j.m]) /\ j.m \in MmeReplica
    BY MmeKnown DEF Job
<1>6. PICK r \in MmeState : /\ r = IF AlwaysSync THEN Pulled(mme[j.m], id) ELSE mme[j.m]
                            /\ Tables(own, r) /\ r.count = mme[j.m].count
    BY <1>5, PulledFacts DEF MmeKnows
<1>7. PICK g \in Teid : g = r.ids[id]
    BY DEF MmeState
<1>8. PICK c : c = ContextOf(r, g)
    OBVIOUS
<1>9. \/ Return(u, r)
      \/ Return(u, Forget(r, id, g))
      \/ /\ r.ids[id] # 0 /\ c.xres = u
         /\ SetMme(u, SetContext(r, g, [c EXCEPT !.k_nas = c.xres]))
         /\ PushIfAlwaysSync(g, [c EXCEPT !.k_nas = c.xres])
         /\ Reply(u, j)
         /\ UNCHANGED <<mme_rep, flow, losses, exited>>
    BY <1>1, <1>4, <1>6, <1>7, <1>8 DEF MmeAuthenticate, NotFound
<1>10. CASE Return(u, r)
    BY <1>1, <1>2, <1>3, <1>6, <1>10, ReturnKeeps DEF CountsKeep
<1>11. CASE Return(u, Forget(r, id, g))
  <2>1. PICK q \in MmeState : q = Forget(r, id, g) /\ Tables(own, q) /\ q.count = r.count
      BY <1>6, ForgetFacts
  <2> QED
      BY <1>1, <1>2, <1>3, <1>6, <1>11, <2>1, ReturnKeeps DEF CountsKeep
<1>12. CASE /\ r.ids[id] # 0 /\ c.xres = u
            /\ SetMme(u, SetContext(r, g, [c EXCEPT !.k_nas = c.xres]))
            /\ PushIfAlwaysSync(g, [c EXCEPT !.k_nas = c.xres])
            /\ Reply(u, j)
            /\ UNCHANGED <<mme_rep, flow, losses, exited>>
  <2>1. g = u /\ c \in MmeContext /\ TableCtx(own, u, c)
    <3>1. Tables(own, r) /\ r.ids[id] # 0 /\ ContextOf(r, r.ids[id]).xres = u
        BY <1>6, <1>7, <1>8, <1>12
    <3>2. /\ r.ids[id] = u /\ ContextOf(r, r.ids[id]) \in MmeContext
          /\ TableCtx(own, u, ContextOf(r, r.ids[id]))
        BY <3>1, Admitted
    <3> QED
        BY <1>7, <1>8, <3>2
  <2>2. PICK new : new = [c EXCEPT !.k_nas = u]
      OBVIOUS
  <2>3. new \in MmeContext /\ TableCtx(own, u, new) /\ u \in Teid
      BY <2>1, <2>2, Names DEF MmeContext, TableCtx
  <2>4. PICK q \in MmeState : q = SetContext(r, u, new) /\ Tables(own, q) /\ q.count = r.count
      BY <1>6, <2>3, SetContextFacts
  <2>5. SetMme(u, q) /\ PushIfAlwaysSync(u, new)
      BY <1>12, <2>1, <2>2, <2>4
  <2>6. StoreOK(own, mme_store)'
    <3>1. StoreOK(own, mme_store')
        BY <1>3, <1>5, <2>3, <2>5, PushFacts DEF PushIfAlwaysSync, MmeKnows
    <3> QED
        BY <3>1
  <2>7. RepOK(own, mme_rep)'
      BY <1>5, <1>12 DEF MmeKnows, RepOK
  <2>8. FlowOK' /\ losses' \in 0 .. MaxLosses /\ exited' \subseteq Replica
      BY <1>12 DEF FlowOK, Inv, TypeOK, ReplMmeTypeOK
  <2>9. PICK k \in Job : k = [j EXCEPT !.at = "reply"] /\ k.at = "reply" /\ RequestOK(own, u, k)
      BY <1>1, <1>3, <1>4, SilentFacts
  <2>10. job' = [job EXCEPT ![u] = k]
      BY <1>12, <2>9 DEF Reply, Pass
  <2> QED
      BY <1>1, <1>2, <1>6, <2>4, <2>5, <2>6, <2>7, <2>8, <2>9, <2>10, MmeServes DEF MmeKnows, CountsKeep
<1> QED
    BY <1>9, <1>10, <1>11, <1>12

\* The request that leaves for the SGW cluster carries u's context.
AskOK(own, u, j, k) == /\ Same([j EXCEPT !.ctx = k.ctx], k) /\ k.at = "sgw"
                       /\ k \in Job /\ k.s \in SgwReplica
                       /\ TableCtx(own, u, k.ctx) /\ k.ctx.k_nas = u

LEMMA AskSgwKeeps ==
    ASSUME NEW own, Inv(own), NEW u \in UE, NEW pulls, NEW r \in MmeState, Tables(own, r),
           r.count = mme[job[u].m].count, NEW keeps \in BOOLEAN, NEW request,
           UNCHANGED <<ranVars, alive, restarts, sgwVars, pgwVars>>,
           job[u].at = "mme", job[u].step \in {"set_security", "set_eps_session", "detach"},
           (r.ids[job[u].id] # 0 /\ ContextOf(r, r.ids[job[u].id]).k_nas = u)
              => AskOK(own, u, job[u], request),
           AskSgw(u, pulls, r, keeps, request)
    PROVE  Inv(own)' /\ CountsKeep
<1>1. PICK j \in Job : j = job[u]
    BY DEF Inv, TypeOK
<1>2. Busy(u) /\ RequestOK(own, u, j) /\ own \subseteq AllPairs
    BY <1>1 DEF Inv, JobOK, Busy
<1>3. PICK id \in UeId : id = j.id /\ j.key = u
    BY <1>1, <1>2 DEF RequestOK, AllPairs
<1>4. PICK g \in Teid : g = r.ids[id]
    BY DEF MmeState
<1>5. \/ Return(u, r) \/ HmacFailure(u, r)
      \/ /\ g # 0 /\ ContextOf(r, g).k_nas = u
         /\ SetMme(u, IF keeps THEN SetContext(r, g, request.ctx) ELSE r)
         /\ Route(u, request.s)
         /\ Datagram(u, request, "mme_answer")
         /\ UNCHANGED <<mme_store, mme_rep, exited>>
    BY <1>1, <1>3, <1>4, Zenon DEF AskSgw, NotFound
<1>6. CASE Return(u, r) \/ HmacFailure(u, r)
    BY <1>2, <1>6, ReturnKeeps DEF CountsKeep
<1>7. CASE /\ g # 0 /\ ContextOf(r, g).k_nas = u
           /\ SetMme(u, IF keeps THEN SetContext(r, g, request.ctx) ELSE r)
           /\ Route(u, request.s)
           /\ Datagram(u, request, "mme_answer")
           /\ UNCHANGED <<mme_store, mme_rep, exited>>
  <2>1. g = u /\ u \in Teid
      BY <1>3, <1>4, <1>7, Admitted, Names
  <2>2. AskOK(own, u, j, request)
      BY <1>1, <1>3, <1>4, <1>7
  <2>3. request.ctx \in MmeContext
      BY <2>2 DEF AskOK, Job
  <2>4. PICK q \in MmeState : /\ q = IF keeps THEN SetContext(r, u, request.ctx) ELSE r
                              /\ Tables(own, q) /\ q.count = r.count
      BY <2>1, <2>2, <2>3, SetContextFacts DEF AskOK
  <2>5. PICK k \in Job : /\ job' = [job EXCEPT ![u] = k]
                         /\ Same(request, k) /\ k.at \in {"sgw", "mme_answer"}
      BY <1>7, <2>2, DatagramFacts DEF AskOK, Inv, TypeOK
  <2>6. losses' \in 0 .. MaxLosses
      BY <1>7, <2>2, DatagramFacts DEF AskOK, Inv, TypeOK
  <2>7. RequestOK(own, u, k)
    <3>1. k.step = j.step /\ k.m = j.m /\ k.live = j.live /\ k.id = j.id /\ k.key = j.key
        BY <2>2, <2>5 DEF AskOK, Same, Job
    <3>2. k.ctx = request.ctx
        BY <2>5 DEF Same
    <3> QED
        BY <1>1, <1>2, <2>2, <2>5, <3>1, <3>2 DEF RequestOK, AskOK
  <2>8. SetMme(u, q)
      BY <1>7, <2>1, <2>4
  <2>9. MmeKnows(own)'
    <3>1. MmeKnows(own)
        BY MmeKnown
    <3> QED
        BY <1>7, <3>1 DEF MmeKnows, StoreOK, RepOK
  <2>10. FlowOK'
    <3>1. flow \in [MmeReplica -> [UE -> SgwReplica \cup {None}]] /\ j.m \in MmeReplica
        BY DEF Inv, TypeOK, ReplMmeTypeOK, Job
    <3>2. PICK f \in SgwReplica \cup {None} : flow' = [flow EXCEPT ![j.m][u] = f]
        BY <1>1, <1>7, <2>2 DEF Route, AskOK
    <3> QED
        BY <3>1, <3>2 DEF FlowOK
  <2>11. exited' \subseteq Replica
      BY <1>7 DEF Inv, TypeOK
  <2> QED
      BY <2>4, <2>5, <2>6, <2>7, <2>8, <2>9, <2>10, <2>11, MmeServes DEF CountsKeep
<1> QED
    BY <1>5, <1>6, <1>7

LEMMA MmeAskKeeps ==
    ASSUME NEW own, Inv(own), NEW u \in UE, NEW s \in SgwReplica,
           NEW step \in {"set_security", "set_eps_session", "detach"},
           MmeAsk(u, step, s), UNCHANGED <<sgwVars, pgwVars>>
    PROVE  Inv(own)' /\ CountsKeep
<1>1. PICK j \in Job : j = job[u]
    BY DEF Inv, TypeOK
<1>2. j.at = "mme" /\ j.step = step /\ UNCHANGED <<ranVars, alive, restarts>>
    BY <1>1 DEF MmeAsk, Serving, At
<1>3. Busy(u) /\ RequestOK(own, u, j) /\ own \subseteq AllPairs
    BY <1>1, <1>2 DEF Inv, JobOK, Busy
<1>4. PICK id \in UeId : id = j.id
    BY <1>2, <1>3 DEF RequestOK, AllPairs
<1>5. MmeKnows(own) /\ mme[j.m] \in MmeState /\ Tables(own, mme[j.m]) /\ j.m \in MmeReplica
    BY MmeKnown DEF Job
<1>6. PICK r \in MmeState : /\ r = IF PullsFor(step) THEN Pulled(mme[j.m], id) ELSE mme[j.m]
                            /\ Tables(own, r) /\ r.count = mme[j.m].count
    BY <1>5, PulledFacts DEF MmeKnows
<1>7. PICK g \in Teid : g = r.ids[id]
    BY DEF MmeState
<1>8. PICK c : c = ContextOf(r, g)
    OBVIOUS
<1>9. ASSUME g # 0, c.k_nas = u
      PROVE  /\ AskOK(own, u, j, CreateRequest(j, s, g, c))
             /\ AskOK(own, u, j, ModifyRequest(j, s, c))
             /\ AskOK(own, u, j, DetachRequest(j, s, c))
  <2>1. g = u /\ c \in MmeContext /\ TableCtx(own, u, c)
      BY <1>6, <1>7, <1>8, <1>9, Admitted
  <2>2. c.imsi \in Teid /\ c.s11_cteid_sgw \in Teid /\ j.teid \in Teid
      BY <2>1 DEF MmeContext, Job
  <2>3. AskOK(own, u, j, CreateRequest(j, s, g, c))
    <3>1. PICK k : k = CreateRequest(j, s, g, c)
        OBVIOUS
    <3>2. k \in Job /\ k.ctx = c /\ k.at = "sgw" /\ k.s = s
        BY <1>7, <2>1, <2>2, <3>1 DEF CreateRequest, Job
    <3>3. Same([j EXCEPT !.ctx = c], k)
        BY <3>1 DEF CreateRequest, Same, Job
    <3> QED
        BY <1>9, <2>1, <3>1, <3>2, <3>3 DEF AskOK
  <2>4. AskOK(own, u, j, DetachRequest(j, s, c))
    <3>1. PICK k : k = DetachRequest(j, s, c)
        OBVIOUS
    <3>2. k \in Job /\ k.ctx = c /\ k.at = "sgw" /\ k.s = s
        BY <2>1, <2>2, <3>1 DEF DetachRequest, Job
    <3>3. Same([j EXCEPT !.ctx = c], k)
        BY <3>1 DEF DetachRequest, Same, Job
    <3> QED
        BY <1>9, <2>1, <3>1, <3>2, <3>3 DEF AskOK
  <2>5. AskOK(own, u, j, ModifyRequest(j, s, c))
    <3>1. PICK d : d = [c EXCEPT !.s1_uteid_dl = j.teid]
        OBVIOUS
    <3>2. d \in MmeContext /\ TableCtx(own, u, d) /\ d.k_nas = u
        BY <1>9, <2>1, <2>2, <3>1 DEF MmeContext, TableCtx
    <3>3. PICK t \in Teid : t = c.s11_cteid_sgw
        BY <2>2
    <3>4. PICK k : k = [j EXCEPT !.at = "sgw", !.s = s, !.ctx = d, !.teid = t]
        OBVIOUS
    <3>5. k \in Job /\ k.ctx = d /\ k.at = "sgw" /\ k.s = s
        BY <3>2, <3>4 DEF Job
    <3>6. Same([j EXCEPT !.ctx = d], k)
        BY <3>4 DEF Same, Job
    <3>7. ModifyRequest(j, s, c) = k
        BY <3>1, <3>3, <3>4 DEF ModifyRequest
    <3> QED
        BY <3>2, <3>5, <3>6, <3>7 DEF AskOK
  <2> QED
      BY <2>3, <2>4, <2>5
<1>10. PICK keeps \in BOOLEAN, request \in {CreateRequest(j, s, g, c), ModifyRequest(j, s, c),
                                            DetachRequest(j, s, c)} :
          AskSgw(u, PullsFor(step), r, keeps, request)
    BY <1>1, <1>4, <1>6, <1>7, <1>8, Zenon DEF MmeAsk
<1>11. g # 0 /\ c.k_nas = u => AskOK(own, u, j, request)
    BY <1>9, <1>10
<1>12. (r.ids[job[u].id] # 0 /\ ContextOf(r, r.ids[job[u].id]).k_nas = u)
          => AskOK(own, u, job[u], request)
    BY <1>1, <1>4, <1>7, <1>8, <1>11
<1>13. /\ job[u].at = "mme" /\ job[u].step \in {"set_security", "set_eps_session", "detach"}
       /\ Tables(own, r) /\ r.count = mme[job[u].m].count
    BY <1>1, <1>2, <1>6
<1> QED
    BY <1>2, <1>10, <1>12, <1>13, AskSgwKeeps

\* The answers of the SGW reach a handler that holds u's context.
LEMMA AnswerFacts ==
    ASSUME NEW own, Inv(own), NEW u \in UE, NEW step, Answered(u, step)
    PROVE  /\ job[u] \in Job /\ job[u].at = "mme_answer" /\ RequestOK(own, u, job[u])
           /\ job[u].ctx \in MmeContext /\ TableCtx(own, u, job[u].ctx) /\ job[u].ctx.k_nas = u
           /\ GutiOf(u) = u /\ u \in Teid /\ job[u].id \in UeId /\ <<job[u].id, u>> \in own
           /\ job[u].step = step /\ Busy(u) /\ own \subseteq AllPairs
           /\ job[u].m \in MmeReplica /\ mme[job[u].m] \in MmeState /\ Tables(own, mme[job[u].m])
           /\ MmeKnows(own) /\ FlowOK' /\ losses' \in 0 .. MaxLosses /\ exited' \subseteq Replica
           /\ UNCHANGED <<ranVars, alive, restarts>>
<1>1. PICK j \in Job : j = job[u]
    BY DEF Inv, TypeOK
<1>2. j.at = "mme_answer" /\ j.step = step /\ Busy(u)
    BY <1>1 DEF Answered, At, Busy
<1>3. RequestOK(own, u, j) /\ own \subseteq AllPairs
    BY <1>1, <1>2 DEF Inv, JobOK
<1>4. TableCtx(own, u, j.ctx) /\ j.ctx.k_nas = u
    BY <1>2, <1>3 DEF RequestOK
<1>5. GutiOf(u) = u
    BY <1>1, <1>4 DEF GutiOf, TableCtx
<1>6. j.id \in UeId /\ <<j.id, u>> \in own
    BY <1>2, <1>3 DEF RequestOK, AllPairs
<1>7. /\ j.m \in MmeReplica /\ mme[j.m] \in MmeState /\ Tables(own, mme[j.m]) /\ MmeKnows(own)
      /\ j.ctx \in MmeContext
    BY MmeKnown DEF Job
<1>8. FlowOK'
  <2>1. flow \in [MmeReplica -> [UE -> SgwReplica \cup {None}]]
      BY DEF Inv, TypeOK, ReplMmeTypeOK
  <2>2. PICK f \in SgwReplica \cup {None} : f = IF j.ok THEN flow[j.m][u] ELSE None
      BY <1>7, <2>1
  <2>3. flow' = [flow EXCEPT ![j.m][u] = f]
      BY <1>1, <2>2 DEF Answered
  <2> QED
      BY <1>7, <2>1, <2>3 DEF FlowOK
<1>9. /\ losses' \in 0 .. MaxLosses /\ exited' \subseteq Replica
      /\ UNCHANGED <<ranVars, alive, restarts>>
    BY DEF Answered, Inv, TypeOK
<1>10. u \in Teid
    BY Names
<1> QED
    BY <1>1, <1>2, <1>3, <1>4, <1>5, <1>6, <1>7, <1>8, <1>9, <1>10

\* What becomes of u's request when its handler answers, or says nothing.
LEMMA ReplyFacts ==
    ASSUME NEW own, NEW u \in UE, NEW j \in Job, RequestOK(own, u, j), j.id # 0,
           NEW k, Same(j, k), k.at \in {"reply", "silent"}
    PROVE  RequestOK(own, u, k)
    BY DEF RequestOK, Same

LEMMA MmeCreateAnswerKeeps ==
    ASSUME NEW own, Inv(own), NEW u \in UE, MmeCreateAnswer(u), UNCHANGED <<sgwVars, pgwVars>>
    PROVE  Inv(own)' /\ CountsKeep
<1>1. Answered(u, "set_security")
    BY DEF MmeCreateAnswer
<1>2. PICK j \in Job : j = job[u]
    BY DEF Inv, TypeOK
<1>3. /\ RequestOK(own, u, j) /\ j.id # 0 /\ j.id \in UeId /\ u \in Teid /\ Busy(u)
      /\ j.ctx \in MmeContext /\ TableCtx(own, u, j.ctx) /\ j.imsi \in Teid /\ j.teid \in Teid
  <2>1. RequestOK(own, u, j) /\ Busy(u) /\ TableCtx(own, u, j.ctx)
      BY <1>1, <1>2, AnswerFacts
  <2>2. j.id \in UeId /\ u \in Teid
      BY <1>1, <1>2, AnswerFacts
  <2> QED
      BY <2>1, <2>2, Names DEF Job
<1>4. /\ mme[j.m] \in MmeState /\ Tables(own, mme[j.m]) /\ MmeKnows(own)
      /\ own \subseteq AllPairs /\ RanTypeOK
  <2>1. mme[j.m] \in MmeState /\ Tables(own, mme[j.m]) /\ MmeKnows(own)
      BY <1>1, <1>2, AnswerFacts
  <2> QED
      BY <2>1 DEF Inv, TypeOK
<1>5. PICK ctx : ctx = [j.ctx EXCEPT !.s11_cteid_sgw = j.teid]
    OBVIOUS
<1>6. ctx \in MmeContext /\ TableCtx(own, u, ctx)
    BY <1>3, <1>5 DEF MmeContext, TableCtx
<1>7. PICK err_code \in ErrCodes :
          /\ SetMme(u, SetContext(mme[j.m], u, ctx))
          /\ PushIfAlwaysSync(u, ctx)
          /\ Reply(u, [j EXCEPT !.ok = err_code >= 0, !.imsi = u])
  <2>1. GutiOf(u) = u
      BY <1>1, AnswerFacts
  <2> QED
      BY <1>2, <1>5, <2>1 DEF MmeCreateAnswer
<1>8. PICK q \in MmeState : q = SetContext(mme[j.m], u, ctx) /\ Tables(own, q)
                            /\ q.count = mme[j.m].count
    BY <1>3, <1>4, <1>6, SetContextFacts
<1>9. PICK k \in Job : job' = [job EXCEPT ![u] = k] /\ k.at = "reply" /\ RequestOK(own, u, k)
  <2>1. PICK ok \in BOOLEAN : ok = (err_code >= 0)
    <3>1. CASE err_code >= 0
        BY <3>1, Zenon
    <3>2. CASE ~(err_code >= 0)
      <4>1. PICK n \in Int : n = err_code
          BY ReplErrAssumption
      <4>2. (n >= 0) = FALSE
          BY <3>2, <4>1
      <4> QED
          BY <4>1, <4>2, Zenon
    <3> QED
        BY <3>1, <3>2
  <2>2. PICK k : k = [j EXCEPT !.at = "reply", !.ok = ok, !.imsi = u]
      OBVIOUS
  <2>3. k \in Job /\ k.at = "reply" /\ RequestOK(own, u, k)
    <3>1. k \in Job /\ k.at = "reply" /\ Same(j, k)
        BY <1>3, <2>2 DEF Job, Same
    <3> QED
        BY <1>3, <3>1, ReplyFacts
  <2>4. job' = [job EXCEPT ![u] = k]
      BY <1>7, <2>1, <2>2 DEF Reply, Pass, Job
  <2> QED
      BY <2>3, <2>4
<1>10. MmeKnows(own)'
  <2>1. StoreOK(own, mme_store')
      BY <1>3, <1>4, <1>6, <1>7, PushFacts DEF PushIfAlwaysSync, MmeKnows
  <2>2. RepOK(own, mme_rep)'
      BY <1>4 DEF MmeCreateAnswer, MmeKnows, RepOK
  <2> QED
      BY <2>1, <2>2 DEF MmeKnows
<1>11. SetMme(u, q) /\ q.count = mme[job[u].m].count
    BY <1>2, <1>7, <1>8
<1>12. /\ FlowOK' /\ losses' \in 0 .. MaxLosses /\ exited' \subseteq Replica
      /\ UNCHANGED <<ranVars, alive, restarts>>
    BY <1>1, AnswerFacts
<1> QED
    BY <1>8, <1>9, <1>10, <1>11, <1>12, MmeServes DEF CountsKeep

\* A handler that leaves the tables, the store and the siblings alone.
LEMMA UntouchedKeeps ==
    ASSUME NEW own, Inv(own), NEW u \in UE, NEW step, Answered(u, step),
           UNCHANGED <<mme, mme_store, mme_rep, sgwVars, pgwVars>>,
           NEW k \in Job, job' = [job EXCEPT ![u] = k], k.at # "mme", RequestOK(own, u, k)
    PROVE  Inv(own)' /\ CountsKeep
<1>1. PICK r \in MmeState : r = mme[job[u].m] /\ Tables(own, r)
    BY AnswerFacts
<1>2. SetMme(u, r)
    BY <1>1 DEF SetMme, Inv, TypeOK, ReplMmeTypeOK
<1>3. MmeKnows(own)'
  <2>1. MmeKnows(own)
      BY MmeKnown
  <2> QED
      BY <2>1 DEF MmeKnows, StoreOK, RepOK
<1>4. /\ FlowOK' /\ losses' \in 0 .. MaxLosses /\ exited' \subseteq Replica
      /\ UNCHANGED <<ranVars, alive, restarts>>
    BY AnswerFacts
<1> QED
    BY <1>1, <1>2, <1>3, <1>4, MmeServes DEF CountsKeep

LEMMA MmeModifyAnswerKeeps ==
    ASSUME NEW own, Inv(own), NEW u \in UE, MmeModifyAnswer(u), UNCHANGED <<sgwVars, pgwVars>>
    PROVE  Inv(own)' /\ CountsKeep
<1>1. Answered(u, "set_eps_session")
    BY DEF MmeModifyAnswer
<1>2. PICK j \in Job : j = job[u]
    BY DEF Inv, TypeOK
<1>3. /\ RequestOK(own, u, j) /\ j.id # 0 /\ j.id \in UeId /\ u \in Teid /\ Busy(u)
      /\ j.ctx \in MmeContext /\ TableCtx(own, u, j.ctx) /\ j.imsi \in Teid /\ j.teid \in Teid
  <2>1. RequestOK(own, u, j) /\ Busy(u) /\ TableCtx(own, u, j.ctx)
      BY <1>1, <1>2, AnswerFacts
  <2>2. j.id \in UeId /\ u \in Teid
      BY <1>1, <1>2, AnswerFacts
  <2> QED
      BY <2>1, <2>2, Names DEF Job
<1>4. /\ mme[j.m] \in MmeState /\ Tables(own, mme[j.m]) /\ MmeKnows(own)
      /\ own \subseteq AllPairs /\ RanTypeOK
  <2>1. mme[j.m] \in MmeState /\ Tables(own, mme[j.m]) /\ MmeKnows(own)
      BY <1>1, <1>2, AnswerFacts
  <2> QED
      BY <2>1 DEF Inv, TypeOK
<1>5. PICK ctx : ctx = [j.ctx EXCEPT !.ecm_state = 1]
    OBVIOUS
<1>6. ctx \in MmeContext /\ TableCtx(own, u, ctx)
    BY <1>3, <1>5 DEF MmeContext, TableCtx
<1>7. \/ UNCHANGED <<mme, mme_store, mme_rep>> /\ Reply(u, [j EXCEPT !.ok = FALSE])
      \/ /\ SetMme(u, SetContext(mme[j.m], u, ctx))
         /\ PushIfSessionSync(u, ctx)
         /\ Replicate(u, j.m, TRUE, ctx.id, u, ctx)
         /\ Reply(u, j)
  <2>1. GutiOf(u) = u
      BY <1>1, AnswerFacts
  <2> QED
      BY <1>2, <1>5, <2>1 DEF MmeModifyAnswer
<1>8. ASSUME NEW ok \in BOOLEAN, Reply(u, [j EXCEPT !.ok = ok])
      PROVE  \E k \in Job : job' = [job EXCEPT ![u] = k] /\ k.at = "reply" /\ RequestOK(own, u, k)
  <2>1. PICK k : k = [j EXCEPT !.at = "reply", !.ok = ok, !.imsi = j.imsi]
      OBVIOUS
  <2>2. k \in Job /\ k.at = "reply" /\ RequestOK(own, u, k)
    <3>1. k \in Job /\ k.at = "reply" /\ Same(j, k)
        BY <1>3, <2>1 DEF Job, Same
    <3> QED
        BY <1>3, <3>1, ReplyFacts
  <2>3. k = [[j EXCEPT !.ok = ok] EXCEPT !.at = "reply"]
      BY <2>1 DEF Job
  <2>4. job' = [job EXCEPT ![u] = k]
      BY <1>8, <2>3 DEF Reply, Pass
  <2> QED
      BY <2>2, <2>4
<1>9. CASE UNCHANGED <<mme, mme_store, mme_rep>> /\ Reply(u, [j EXCEPT !.ok = FALSE])
  <2>1. PICK k \in Job : job' = [job EXCEPT ![u] = k] /\ k.at = "reply" /\ RequestOK(own, u, k)
      BY <1>8, <1>9
  <2> QED
      BY <1>1, <1>9, <2>1, UntouchedKeeps
<1>10. CASE /\ SetMme(u, SetContext(mme[j.m], u, ctx))
           /\ PushIfSessionSync(u, ctx)
           /\ Replicate(u, j.m, TRUE, ctx.id, u, ctx)
           /\ Reply(u, j)
  <2>1. j = [j EXCEPT !.ok = j.ok] /\ j.ok \in BOOLEAN
      BY DEF Job
  <2>2. PICK k \in Job : job' = [job EXCEPT ![u] = k] /\ k.at = "reply" /\ RequestOK(own, u, k)
      BY <1>8, <1>10, <2>1
  <2>3. PICK q \in MmeState : q = SetContext(mme[j.m], u, ctx) /\ Tables(own, q)
                              /\ q.count = mme[j.m].count
      BY <1>3, <1>4, <1>6, SetContextFacts
  <2>4. StoreOK(own, mme_store')
      BY <1>3, <1>4, <1>6, <1>10, PushFacts DEF PushIfSessionSync, MmeKnows
  <2>5. RepOK(own, mme_rep')
    <3>1. ctx.id \in UeId /\ Stored(own, ctx.id, [imsi |-> u, ctx |-> ctx])
        BY <1>4, <1>6 DEF TableCtx, Stored, AllPairs
    <3> QED
        BY <1>3, <1>4, <1>6, <1>10, <3>1, ReplicateFacts DEF MmeKnows
  <2>6. SetMme(u, q) /\ q.count = mme[job[u].m].count
      BY <1>2, <1>10, <2>3
  <2>7. MmeKnows(own)'
      BY <2>4, <2>5 DEF MmeKnows
  <2>8. /\ FlowOK' /\ losses' \in 0 .. MaxLosses /\ exited' \subseteq Replica
        /\ UNCHANGED <<ranVars, alive, restarts>>
      BY <1>1, AnswerFacts
  <2> QED
      BY <2>2, <2>3, <2>6, <2>7, <2>8, MmeServes DEF CountsKeep
<1> QED
    BY <1>7, <1>9, <1>10

LEMMA MmeDetachAnswerKeeps ==
    ASSUME NEW own, Inv(own), NEW u \in UE, MmeDetachAnswer(u), UNCHANGED <<sgwVars, pgwVars>>
    PROVE  Inv(own)' /\ CountsKeep
<1>1. Answered(u, "detach")
    BY DEF MmeDetachAnswer
<1>2. PICK j \in Job : j = job[u]
    BY DEF Inv, TypeOK
<1>3. /\ RequestOK(own, u, j) /\ j.id # 0 /\ j.id \in UeId /\ u \in Teid /\ Busy(u)
      /\ j.ctx \in MmeContext /\ TableCtx(own, u, j.ctx) /\ j.imsi \in Teid /\ j.teid \in Teid
  <2>1. RequestOK(own, u, j) /\ Busy(u) /\ TableCtx(own, u, j.ctx)
      BY <1>1, <1>2, AnswerFacts
  <2>2. j.id \in UeId /\ u \in Teid
      BY <1>1, <1>2, AnswerFacts
  <2> QED
      BY <2>1, <2>2, Names DEF Job
<1>4. /\ mme[j.m] \in MmeState /\ Tables(own, mme[j.m]) /\ MmeKnows(own)
      /\ own \subseteq AllPairs /\ RanTypeOK
  <2>1. mme[j.m] \in MmeState /\ Tables(own, mme[j.m]) /\ MmeKnows(own)
      BY <1>1, <1>2, AnswerFacts
  <2> QED
      BY <2>1 DEF Inv, TypeOK
<1>5. \/ UNCHANGED <<mme, mme_store, mme_rep>> /\ Silent(u)
      \/ /\ SetMme(u, Forget(mme[j.m], j.id, j.imsi))
         /\ Replicate(u, j.m, FALSE, j.id, j.imsi, NewMmeContext)
         /\ Reply(u, j)
         /\ UNCHANGED mme_store
    BY <1>2 DEF MmeDetachAnswer
<1>6. ASSUME NEW at \in {"silent", "reply"}, job' = [job EXCEPT ![u] = [j EXCEPT !.at = at]]
      PROVE  \E k \in Job : job' = [job EXCEPT ![u] = k] /\ k.at = at /\ RequestOK(own, u, k)
    BY <1>3, <1>2, <1>6, SilentFacts
<1>7. CASE UNCHANGED <<mme, mme_store, mme_rep>> /\ Silent(u)
  <2>1. PICK k \in Job : job' = [job EXCEPT ![u] = k] /\ k.at = "silent" /\ RequestOK(own, u, k)
      BY <1>2, <1>6, <1>7 DEF Silent, Pass
  <2> QED
      BY <1>1, <1>7, <2>1, UntouchedKeeps
<1>8. CASE /\ SetMme(u, Forget(mme[j.m], j.id, j.imsi))
           /\ Replicate(u, j.m, FALSE, j.id, j.imsi, NewMmeContext)
           /\ Reply(u, j)
           /\ UNCHANGED mme_store
  <2>1. PICK k \in Job : job' = [job EXCEPT ![u] = k] /\ k.at = "reply" /\ RequestOK(own, u, k)
      BY <1>6, <1>8 DEF Reply, Pass
  <2>2. PICK q \in MmeState : q = Forget(mme[j.m], j.id, j.imsi) /\ Tables(own, q)
                              /\ q.count = mme[j.m].count
      BY <1>3, <1>4, ForgetFacts
  <2>3. RepOK(own, mme_rep')
    <3>1. NewMmeContext \in MmeContext
        BY Names DEF NewMmeContext, MmeContext
    <3> QED
        BY <1>3, <1>4, <1>8, <3>1, ReplicateFacts DEF MmeKnows
  <2>4. StoreOK(own, mme_store)'
      BY <1>4, <1>8 DEF MmeKnows, StoreOK
  <2>5. SetMme(u, q) /\ q.count = mme[job[u].m].count
      BY <1>2, <1>8, <2>2
  <2>6. MmeKnows(own)'
      BY <2>3, <2>4 DEF MmeKnows
  <2>7. /\ FlowOK' /\ losses' \in 0 .. MaxLosses /\ exited' \subseteq Replica
        /\ UNCHANGED <<ranVars, alive, restarts>>
      BY <1>1, AnswerFacts
  <2> QED
      BY <2>1, <2>2, <2>5, <2>6, <2>7, MmeServes DEF CountsKeep
<1> QED
    BY <1>5, <1>7, <1>8

LEMMA ConnectionLostKeeps ==
    ASSUME NEW own, Inv(own), NEW u \in UE, ConnectionLost(u), UNCHANGED <<sgwVars, pgwVars>>
    PROVE  Inv(own)' /\ CountsKeep
<1>1. Busy(u) /\ Silent(u) /\ UNCHANGED <<ranVars, alive, mmeVars, losses, exited>>
    BY DEF ConnectionLost, Busy
<1>2. PICK k \in Job : k = [job[u] EXCEPT !.at = "silent"] /\ k.at = "silent" /\ RequestOK(own, u, k)
    BY <1>1, SilentFacts
<1>3. job' = [job EXCEPT ![u] = k]
    BY <1>1, <1>2 DEF Silent, Pass
<1>4. PICK r \in MmeState : r = mme[job[u].m] /\ Tables(own, r)
  <2>1. job[u].m \in MmeReplica
      BY DEF Inv, TypeOK, Job
  <2> QED
      BY <2>1, MmeKnown
<1>5. SetMme(u, r) /\ UNCHANGED <<mme_store, mme_rep, flow, restarts>>
    BY <1>1, <1>4 DEF SetMme, mmeVars, Inv, TypeOK, ReplMmeTypeOK
<1>6. MmeKnows(own)'
  <2>1. MmeKnows(own)
      BY MmeKnown
  <2> QED
      BY <1>5, <2>1 DEF MmeKnows, StoreOK, RepOK
<1>7. FlowOK' /\ losses' \in 0 .. MaxLosses /\ exited' \subseteq Replica
    BY <1>1, <1>5 DEF FlowOK, Inv, TypeOK, ReplMmeTypeOK
<1> QED
    BY <1>1, <1>2, <1>3, <1>4, <1>5, <1>6, <1>7, MmeServes DEF CountsKeep

\* The tables of replica m are replaced by r, without a request of anyone.
LEMMA MmeReplaced ==
    ASSUME NEW own, Inv(own), NEW m \in MmeReplica, NEW r \in MmeState, Tables(own, r),
           mme' = [mme EXCEPT ![m] = r], UNCHANGED <<mme_store, flow, restarts>>,
           mme_rep' \subseteq mme_rep
    PROVE  ReplMmeTypeOK' /\ MmeOK(own)'
<1>1. mme \in [MmeReplica -> MmeState] /\ mme' \in [MmeReplica -> MmeState]
    BY DEF Inv, TypeOK, ReplMmeTypeOK
<1>2. ASSUME NEW n \in MmeReplica PROVE Tables(own, mme[n])'
  <2>1. mme'[n] = r \/ mme'[n] = mme[n]
      BY <1>1
  <2>2. Tables(own, mme[n])
      BY MmeKnown
  <2> QED
      BY <2>1, <2>2 DEF Tables, TableCtx
<1>3. ReplMmeTypeOK'
    BY <1>1 DEF Inv, TypeOK, ReplMmeTypeOK
<1>4. MmeOK(own)'
    BY <1>2 DEF Inv, MmeOK, Stored, TableCtx
<1> QED
    BY <1>3, <1>4

LEMMA MmeReceiveReplicationKeeps ==
    ASSUME NEW own, Inv(own), MmeReceiveReplication, UNCHANGED <<sgwVars, pgwVars>>
    PROVE  Inv(own)' /\ CountsKeep
<1>1. PICK p \in mme_rep :
          /\ mme' = [mme EXCEPT ![p.to] = IF p.push THEN Remember(mme[p.to], p.id, p.entry)
                                          ELSE Forget(mme[p.to], p.id, p.entry.imsi)]
          /\ mme_rep' = mme_rep \ {p}
    BY DEF MmeReceiveReplication
<1>2. UNCHANGED <<ranVars, alive, job, losses, exited, mme_store, flow, restarts>>
    BY DEF MmeReceiveReplication
<1>3. /\ p.to \in MmeReplica /\ p.id \in UeId /\ p.entry \in Entry(MmeContext)
      /\ p.entry.imsi \in Teid /\ (p.push => Stored(own, p.id, p.entry))
  <2>1. RepOK(own, mme_rep)
      BY MmeKnown DEF MmeKnows
  <2> QED
      BY <2>1 DEF RepOK, MmeRepType, Entry
<1>4. mme[p.to] \in MmeState /\ Tables(own, mme[p.to]) /\ mme \in [MmeReplica -> MmeState]
    BY <1>3, MmeKnown DEF Inv, TypeOK, ReplMmeTypeOK
<1>5. PICK r \in MmeState : /\ r = IF p.push THEN Remember(mme[p.to], p.id, p.entry)
                                   ELSE Forget(mme[p.to], p.id, p.entry.imsi)
                            /\ Tables(own, r) /\ r.count = mme[p.to].count
    BY <1>3, <1>4, RememberFacts, ForgetFacts
<1>6. mme' = [mme EXCEPT ![p.to] = r]
    BY <1>1, <1>5
<1>7. ReplMmeTypeOK' /\ MmeOK(own)'
    BY <1>1, <1>2, <1>3, <1>5, <1>6, MmeReplaced
<1>8. CountsKeep
    BY <1>3, <1>4, <1>5, <1>6 DEF CountsKeep
<1>9. TypeOK'
    BY <1>2, <1>7 DEF Inv, TypeOK, RanTypeOK, ReplSgwTypeOK, ReplPgwTypeOK, ranVars, sgwVars, pgwVars
<1>10. ASSUME NEW v \in UE PROVE TerminalOK(own, v)' /\ JobOK(own, v)'
    BY <1>2 DEF Inv, TerminalOK, JobOK, Busy, RequestOK, TableCtx, ranVars
<1>11. CountOK'
  <2>1. Taken \subseteq Taken'
      BY <1>2, TakenGrows DEF Inv, TypeOK, RanTypeOK, ranVars, At
  <2>2. CountOK /\ (\A m \in MmeReplica : mme'[m].count \in {mme[m].count, InitVal[m]})
      BY <1>8 DEF Inv, CountsKeep
  <2> QED
      BY <1>4, <2>1, <2>2, CountStays
<1> QED
    BY <1>7, <1>8, <1>9, <1>10, <1>11 DEF Inv

LEMMA MmeCrashKeeps ==
    ASSUME NEW own, Inv(own), NEW m \in MmeReplica, MmeCrash(m), UNCHANGED <<sgwVars, pgwVars>>
    PROVE  /\ Inv(own)' /\ alive' = alive \ {m}
           /\ \A n \in MmeReplica \ {m} : mme'[n].count = mme[n].count
<1>1. /\ alive' = alive \ {m}
      /\ conn' = [u \in UE |-> [i \in Step |-> IF conn[u][i] = m THEN Broken ELSE conn[u][i]]]
      /\ job' = [u \in UE |-> IF job[u].m = m THEN [job[u] EXCEPT !.live = FALSE] ELSE job[u]]
      /\ mme' = [mme EXCEPT ![m] = NewMme(m)]
      /\ UNCHANGED <<ran_pc, ran_ctx, ctr, tries, mme_store, mme_rep, flow, restarts, losses, exited>>
    BY DEF MmeCrash
<1>2. /\ job \in [UE -> Job] /\ RanTypeOK /\ mme \in [MmeReplica -> MmeState]
    BY DEF Inv, TypeOK, ReplMmeTypeOK
<1>3. NewMme(m) \in MmeState /\ Tables(own, NewMme(m)) /\ NewMme(m).count = InitVal[m]
  <2>1. InitVal[m] \in Nat
      BY ReplInitAssumption
  <2> QED
      BY <2>1, Names DEF NewMme, InitialCount, MmeState, Tables
<1>4. ReplMmeTypeOK' /\ MmeOK(own)'
    BY <1>1, <1>3, MmeReplaced
<1>5. ASSUME NEW v \in UE
      PROVE  job'[v] \in Job /\ job'[v].at = job[v].at /\ job'[v].step = job[v].step
             /\ job'[v].id = job[v].id /\ job'[v].key = job[v].key /\ job'[v].ctx = job[v].ctx
             /\ (job'[v].live => job[v].live /\ job'[v].m = job[v].m /\ job[v].m # m)
  <2>1. PICK j \in Job : j = job[v]
      BY <1>2
  <2>2. job'[v] = IF j.m = m THEN [j EXCEPT !.live = FALSE] ELSE j
      BY <1>1, <2>1
  <2>3. CASE j.m = m
    <3>1. PICK k : k = [j EXCEPT !.live = FALSE]
        OBVIOUS
    <3>2. /\ k \in Job /\ ~k.live /\ k.at = j.at /\ k.step = j.step
          /\ k.id = j.id /\ k.key = j.key /\ k.ctx = j.ctx
        BY <3>1 DEF Job
    <3> QED
        BY <2>1, <2>2, <2>3, <3>1, <3>2
  <2> QED
      BY <2>1, <2>2, <2>3
<1>6. TypeOK'
  <2>1. conn' \in [UE -> [Step -> MmeReplica \cup {Broken}]]
      BY <1>1, <1>2 DEF RanTypeOK
  <2>2. job' \in [UE -> Job]
      BY <1>1, <1>5
  <2>3. RanTypeOK'
      BY <1>1, <1>2, <2>1 DEF RanTypeOK
  <2> QED
      BY <1>1, <1>4, <2>2, <2>3 DEF Inv, TypeOK, ReplSgwTypeOK, ReplPgwTypeOK, sgwVars, pgwVars
<1>7. ASSUME NEW v \in UE PROVE TerminalOK(own, v)' /\ JobOK(own, v)'
  <2>1. TerminalOK(own, v) /\ JobOK(own, v)
      BY DEF Inv
  <2>2. TerminalOK(own, v)'
      BY <1>1, <2>1 DEF TerminalOK
  <2>3. JobOK(own, v)'
      BY <1>1, <1>5, <2>1 DEF JobOK, Busy, RequestOK, TableCtx
  <2> QED
      BY <2>2, <2>3
<1>8. CountOK'
  <2>1. \A v \in UE : At(v, "mme", "initial_attach")' => At(v, "mme", "initial_attach")
      BY <1>5 DEF At
  <2>2. Taken \subseteq Taken'
      BY <1>1, <1>2, <2>1, TakenGrows DEF RanTypeOK
  <2>3. CountOK /\ (\A n \in MmeReplica : mme'[n].count \in {mme[n].count, InitVal[n]})
      BY <1>1, <1>2, <1>3 DEF Inv
  <2> QED
      BY <1>2, <2>2, <2>3, CountStays
<1> QED
    BY <1>1, <1>2, <1>4, <1>6, <1>7, <1>8 DEF Inv

LEMMA MmeRestartKeeps ==
    ASSUME NEW own, Inv(own), NEW m \in MmeReplica, MmeRestart(m), UNCHANGED <<sgwVars, pgwVars>>
    PROVE  Inv(own)' /\ MaxRestarts # 0
<1>1. /\ restarts < MaxRestarts /\ restarts' = restarts + 1 /\ alive' = alive \cup {m}
      /\ UNCHANGED <<ranVars, mme, mme_store, mme_rep, flow, job, losses, exited>>
    BY DEF MmeRestart
<1>2. restarts' \in 0 .. MaxRestarts /\ MaxRestarts # 0
  <2>1. restarts \in 0 .. MaxRestarts /\ MaxRestarts \in Nat
      BY ReplBoundAssumption DEF Inv, TypeOK, ReplMmeTypeOK
  <2> QED
      BY <1>1, <2>1
<1>3. TypeOK'
  <2>1. RanTypeOK'
      BY <1>1 DEF Inv, TypeOK, RanTypeOK, ranVars, Replica
  <2>2. ReplMmeTypeOK'
      BY <1>1, <1>2 DEF Inv, TypeOK, ReplMmeTypeOK
  <2> QED
      BY <1>1, <2>1, <2>2 DEF Inv, TypeOK, ReplSgwTypeOK, ReplPgwTypeOK, sgwVars, pgwVars
<1>4. MmeOK(own)'
    BY <1>1 DEF Inv, MmeOK, Stored, TableCtx, Tables
<1>5. ASSUME NEW v \in UE PROVE TerminalOK(own, v)' /\ JobOK(own, v)'
    BY <1>1 DEF Inv, TerminalOK, JobOK, Busy, RequestOK, TableCtx, ranVars
<1>6. CountOK'
  <2>1. Taken \subseteq Taken'
      BY <1>1, TakenGrows DEF Inv, TypeOK, RanTypeOK, ranVars, At
  <2> QED
      BY <1>1, <2>1, CountStays DEF Inv, TypeOK, ReplMmeTypeOK
<1> QED
    BY <1>2, <1>3, <1>4, <1>5, <1>6 DEF Inv

-----------------------------------------------------------------------------
(* An initial attach hands out the next id of the replica that serves it.  *)

LEMMA Grows ==
    ASSUME NEW own, Inv(own), NEW own2, own \subseteq own2, own2 \subseteq AllPairs
    PROVE  Inv(own2)
<1>1. ASSUME NEW g, NEW c, TableCtx(own, g, c) PROVE TableCtx(own2, g, c)
    BY <1>1 DEF TableCtx
<1>2. ASSUME NEW r, Tables(own, r) PROVE Tables(own2, r)
    BY <1>1, <1>2 DEF Tables
<1>3. ASSUME NEW id, NEW e, Stored(own, id, e) PROVE Stored(own2, id, e)
    BY <1>1, <1>3 DEF Stored
<1>4. MmeOK(own2)
    BY <1>2, <1>3 DEF Inv, MmeOK
<1>5. ASSUME NEW v \in UE PROVE TerminalOK(own2, v) /\ JobOK(own2, v)
  <2>1. TerminalOK(own, v) /\ JobOK(own, v)
      BY DEF Inv
  <2>2. TerminalOK(own2, v)
      BY <2>1 DEF TerminalOK
  <2>3. JobOK(own2, v)
      BY <1>1, <2>1 DEF JobOK, RequestOK
  <2> QED
      BY <2>2, <2>3
<1> QED
    BY <1>4, <1>5 DEF Inv

\* The MME has taken up one more initial attach, and there was room for it.
LEMMA TakenOneMore ==
    ASSUME NEW u \in UE, job \in [UE -> Job], tries \in [UE -> 0 .. MaxTries], tries[u] # 0,
           At(u, "mme", "initial_attach"), tries' = tries,
           NEW k, k.at # "mme", job' = [job EXCEPT ![u] = k]
    PROVE  /\ Cardinality(Taken)' = Cardinality(Taken) + 1
           /\ Cardinality(Taken) + 1 <= Cardinality(UE) * MaxTries
<1>1. MaxTries \in Nat
    BY ReplBoundAssumption
<1>2. tries[u] \in 1 .. MaxTries
    BY <1>1
<1>3. <<u, tries[u]>> \notin Taken
    BY <1>2 DEF Taken
<1>4. \A v \in UE : At(v, "mme", "initial_attach")' = (v # u /\ At(v, "mme", "initial_attach"))
    BY DEF At
<1>5. Taken' = {a \in UE \X (1 .. MaxTries) :
                   a[2] < tries[a[1]]
                   \/ (a[2] = tries[a[1]] /\ (a[1] = u \/ ~At(a[1], "mme", "initial_attach")))}
    BY <1>4 DEF Taken
<1>6. Taken' = Taken \cup {<<u, tries[u]>>}
  <2>1. ASSUME NEW a \in UE \X (1 .. MaxTries), a[1] = u, a[2] = tries[a[1]]
        PROVE  a = <<u, tries[u]>>
      BY <2>1
  <2> QED
      BY <1>2, <1>5, <2>1, Zenon DEF Taken
<1>7. IsFiniteSet(Taken)
    BY TakenFacts
<1>8. Cardinality(Taken') = Cardinality(Taken) + 1
    BY <1>3, <1>6, <1>7, FS_AddElement
<1>9. (Cardinality(Taken) <= Cardinality(UE) * MaxTries)'
    BY TakenFacts, PTL
<1> QED
    BY <1>8, <1>9

LEMMA MmeInitialAttachKeeps ==
    ASSUME NEW own, Inv(own), NEW u \in UE, MmeInitialAttach(u), UNCHANGED <<sgwVars, pgwVars>>
    PROVE  \E m \in MmeReplica \cap alive : \E id \in Ids(m) : \E own2 :
              /\ id = mme[m].count + 1 /\ own2 = own \cup {<<id, u>>}
              /\ Inv(own2)'
              /\ mme'[m].count = id
              /\ \A n \in MmeReplica \ {m} : mme'[n].count = mme[n].count
              /\ alive' = alive
<1>1. PICK j \in Job : j = job[u]
    BY DEF Inv, TypeOK
<1>2. PICK m \in MmeReplica : m = j.m
    BY DEF Job
<1>3. PICK id : id = mme[m].count + 1
    OBVIOUS
<1>4. PICK ctx : ctx = [NewMmeContext EXCEPT !.imsi = u, !.id = id, !.xres = u]
    OBVIOUS
<1>5. PICK k : k = [[j EXCEPT !.id = id] EXCEPT !.at = "reply"]
    OBVIOUS
<1>6. /\ At(u, "mme", "initial_attach") /\ j.live
      /\ UNCHANGED <<ranVars, alive, restarts, mme_rep, flow, losses, exited>>
      /\ mme' = [mme EXCEPT ![m] = [Remember(mme[m], id, [imsi |-> u, ctx |-> ctx]) EXCEPT !.count = id]]
      /\ PushIfAlwaysSync(u, ctx)
      /\ job' = [job EXCEPT ![u] = k]
    BY <1>1, <1>2, <1>3, <1>4, <1>5 DEF MmeInitialAttach, Serving, SetMme, Reply, Pass
<1>7. /\ job \in [UE -> Job] /\ RanTypeOK /\ mme \in [MmeReplica -> MmeState]
      /\ own \subseteq AllPairs /\ RequestOK(own, u, j) /\ CountOK
  <2>1. Busy(u)
      BY <1>6 DEF At, Busy
  <2> QED
      BY <1>1, <2>1 DEF Inv, TypeOK, ReplMmeTypeOK, JobOK
<1>8. tries[u] # 0 /\ m \in alive /\ j.step = "initial_attach" /\ j.at = "mme"
    BY <1>1, <1>2, <1>6, <1>7 DEF RequestOK, At
<1>9. k.at = "reply" /\ tries' = tries
    BY <1>5, <1>6 DEF Job, ranVars
<1>10. /\ Cardinality(Taken)' = Cardinality(Taken) + 1
       /\ Cardinality(Taken) + 1 <= Cardinality(UE) * MaxTries
    BY <1>6, <1>7, <1>8, <1>9, TakenOneMore DEF RanTypeOK
<1>11. id \in Ids(m) /\ id \in Nat \ {0} /\ id \in InitVal[m] .. InitVal[m] + Cardinality(Taken)'
  <2>1. /\ InitVal[m] \in Nat /\ Cardinality(Taken) \in Nat
        /\ mme[m].count \in InitVal[m] .. InitVal[m] + Cardinality(Taken)
      BY <1>7, ReplInitAssumption, TakenFacts DEF CountOK
  <2>2. PICK b \in Nat : b = Cardinality(UE) * MaxTries
      BY ReplUEAssumption, ReplBoundAssumption, FS_CardinalityType
  <2>3. id \in InitVal[m] + 1 .. InitVal[m] + b /\ id \in Nat \ {0}
      BY <1>3, <1>10, <2>1, <2>2
  <2>4. id \in InitVal[m] .. InitVal[m] + Cardinality(Taken)'
      BY <1>3, <1>10, <2>1
  <2> QED
      BY <2>2, <2>3, <2>4 DEF Ids
<1>12. id \in UeId /\ u \in Teid
    BY <1>11, Names DEF Ids, UeId
<1>13. PICK own2 : own2 = own \cup {<<id, u>>}
    OBVIOUS
<1>14. own \subseteq own2 /\ <<id, u>> \in own2 /\ own2 \subseteq AllPairs /\ Inv(own2)
  <2>1. own \subseteq own2 /\ <<id, u>> \in own2 /\ own2 \subseteq AllPairs
      BY <1>7, <1>12, <1>13 DEF AllPairs
  <2> QED
      BY <2>1, Grows
<1>15. ctx \in MmeContext /\ TableCtx(own2, u, ctx) /\ ctx.id = id
    BY <1>4, <1>12, <1>14, Names DEF NewMmeContext, MmeContext, TableCtx
<1>16. PICK e \in Entry(MmeContext) : e = [imsi |-> u, ctx |-> ctx] /\ Stored(own2, id, e)
  <2>1. PICK e : e = [imsi |-> u, ctx |-> ctx]
      OBVIOUS
  <2> QED
      BY <1>12, <1>15, <2>1 DEF Entry, Stored
<1>17. PICK q \in MmeState : q = Remember(mme[m], id, e) /\ Tables(own2, q)
  <2>1. mme[m] \in MmeState /\ Tables(own2, mme[m])
      BY <1>14, MmeKnown
  <2> QED
      BY <1>12, <1>16, <2>1, RememberFacts
<1>18. PICK r \in MmeState : r = [q EXCEPT !.count = id] /\ Tables(own2, r) /\ r.count = id
  <2>1. PICK r : r = [q EXCEPT !.count = id]
      OBVIOUS
  <2>2. r \in MmeState /\ r.count = id /\ r.ids = q.ids /\ r.ctx = q.ctx
      BY <1>11, <2>1 DEF MmeState
  <2>3. Tables(own2, r)
      BY <1>17, <2>2 DEF Tables
  <2> QED
      BY <2>1, <2>2, <2>3
<1>19. mme' = [mme EXCEPT ![m] = r]
    BY <1>6, <1>16, <1>17, <1>18
<1>20. ReplMmeTypeOK' /\ MmeOK(own2)'
  <2>1. StoreOK(own2, mme_store')
    <3>1. StoreOK(own2, mme_store)
        BY <1>14, MmeKnown DEF MmeKnows
    <3> QED
        BY <1>6, <1>12, <1>14, <1>15, <3>1, PushFacts DEF PushIfAlwaysSync
  <2>2. mme' \in [MmeReplica -> MmeState]
      BY <1>7, <1>19
  <2>3. ASSUME NEW n \in MmeReplica PROVE Tables(own2, mme[n])'
    <3>1. mme'[n] = r \/ mme'[n] = mme[n]
        BY <1>7, <1>19
    <3>2. Tables(own2, mme[n])
        BY <1>14, MmeKnown
    <3>3. PICK t : t = mme'[n] /\ Tables(own2, t)
        BY <1>18, <3>1, <3>2
    <3> QED
        BY <3>3 DEF Tables, TableCtx
  <2>4. ReplMmeTypeOK'
      BY <1>6, <2>1, <2>2 DEF Inv, TypeOK, ReplMmeTypeOK, StoreOK
  <2>5. \A p \in mme_rep' : p.push => Stored(own2, p.id, p.entry)
      BY <1>6, <1>14 DEF Inv, MmeOK
  <2> QED
      BY <2>1, <2>3, <2>4, <2>5 DEF MmeOK, StoreOK, Stored, TableCtx
<1>21. k \in Job /\ RequestOK(own2, u, k)
  <2>1. k \in Job
      BY <1>5, <1>12 DEF Job
  <2>2. k.step = j.step /\ k.id = id /\ k.live = j.live /\ k.m = j.m
      BY <1>5 DEF Job
  <2> QED
      BY <1>7, <1>8, <1>9, <1>11, <1>14, <2>1, <2>2 DEF RequestOK
<1>22. TypeOK'
  <2>1. job' \in [UE -> Job] /\ losses' \in 0 .. MaxLosses /\ exited' \subseteq Replica
      BY <1>6, <1>7, <1>21 DEF Inv, TypeOK
  <2>2. RanTypeOK' /\ ReplSgwTypeOK' /\ ReplPgwTypeOK'
      BY <1>6 DEF Inv, TypeOK, RanTypeOK, ReplSgwTypeOK, ReplPgwTypeOK, ranVars, sgwVars, pgwVars
  <2> QED
      BY <1>20, <2>1, <2>2 DEF TypeOK
<1>23. \A v \in UE : TerminalOK(own2, v)' /\ JobOK(own2, v)'
    BY <1>6, <1>14, <1>21, OthersKeep
<1>24. mme'[m].count = id /\ \A n \in MmeReplica \ {m} : mme'[n] = mme[n]
    BY <1>7, <1>18, <1>19
<1>25. CountOK'
  <2>1. ASSUME NEW n \in MmeReplica
        PROVE  mme'[n].count \in InitVal[n] .. InitVal[n] + Cardinality(Taken)'
    <3>1. CASE n = m
        BY <1>11, <1>24, <3>1
    <3>2. CASE n # m
      <4>1. mme'[n].count \in InitVal[n] .. InitVal[n] + Cardinality(Taken)
          BY <1>7, <1>24, <3>2 DEF CountOK
      <4>2. InitVal[n] \in Nat /\ Cardinality(Taken) \in Nat
          BY ReplInitAssumption, TakenFacts
      <4> QED
          BY <1>10, <4>1, <4>2
    <3> QED
        BY <3>1, <3>2
  <2> QED
      BY <2>1 DEF CountOK
<1>26. Inv(own2)'
    BY <1>14, <1>20, <1>22, <1>23, <1>25 DEF Inv
<1>27. m \in MmeReplica \cap alive /\ alive' = alive
    BY <1>6, <1>8
<1>28. \A n \in MmeReplica \ {m} : mme'[n].count = mme[n].count
    BY <1>24
<1> QED
    BY <1>3, <1>11, <1>13, <1>24, <1>26, <1>27, <1>28

-----------------------------------------------------------------------------
(* The terminals.                                                          *)

\* A step of terminal u: the others' records are what they were.
Alone(u) ==
    \A v \in UE \ {u} :
        /\ ran_pc'[v] = ran_pc[v] /\ ran_ctx'[v] = ran_ctx[v] /\ conn'[v] = conn[v]
        /\ tries'[v] = tries[v] /\ job'[v] = job[v]

LEMMA TerminalKeeps ==
    ASSUME NEW own, Inv(own), NEW u \in UE, RanTypeOK', job' \in [UE -> Job], Alone(u),
           UNCHANGED <<alive, losses, exited, mmeVars, sgwVars, pgwVars>>,
           Taken \subseteq Taken', TerminalOK(own, u)', JobOK(own, u)'
    PROVE  Inv(own)' /\ CountsKeep
<1>1. TypeOK'
    BY DEF Inv, TypeOK, ReplMmeTypeOK, ReplSgwTypeOK, ReplPgwTypeOK, mmeVars, sgwVars, pgwVars
<1>2. MmeOK(own)'
    BY DEF Inv, MmeOK, mmeVars
<1>3. ASSUME NEW v \in UE PROVE TerminalOK(own, v)' /\ JobOK(own, v)'
  <2>1. CASE v = u
      BY <2>1
  <2>2. CASE v # u
    <3>1. TerminalOK(own, v) /\ JobOK(own, v)
        BY DEF Inv
    <3>2. /\ ran_pc'[v] = ran_pc[v] /\ ran_ctx'[v] = ran_ctx[v] /\ conn'[v] = conn[v]
          /\ tries'[v] = tries[v] /\ job'[v] = job[v]
        BY <2>2 DEF Alone
    <3>3. TerminalOK(own, v)'
        BY <3>1, <3>2 DEF TerminalOK
    <3>4. JobOK(own, v)'
        BY <3>1, <3>2 DEF JobOK, Busy, RequestOK, TableCtx
    <3> QED
        BY <3>3, <3>4
  <2> QED
      BY <2>1, <2>2
<1>4. CountsKeep
    BY DEF CountsKeep, mmeVars
<1>5. CountOK'
  <2>1. CountOK /\ (\A m \in MmeReplica : mme'[m].count \in {mme[m].count, InitVal[m]})
      BY <1>4 DEF Inv, CountsKeep
  <2> QED
      BY <2>1, CountStays DEF Inv, TypeOK, ReplMmeTypeOK
<1> QED
    BY <1>1, <1>2, <1>3, <1>4, <1>5 DEF Inv

\* What the steps do to the terminal alone, and what it has to keep.
RanOK(own, u) == RanTypeOK' /\ TerminalOK(own, u)'

RanAlone(u) ==
    \A v \in UE \ {u} :
        /\ ran_pc'[v] = ran_pc[v] /\ ran_ctx'[v] = ran_ctx[v] /\ conn'[v] = conn[v]

LEMMA RanWrites ==
    ASSUME NEW own, RanTypeOK, NEW u \in UE,
           NEW pc \in Step \cup {"idle", "done"}, ran_pc' = [ran_pc EXCEPT ![u] = pc],
           NEW ctx \in RanContext, ran_ctx' = [ran_ctx EXCEPT ![u] = ctx],
           NEW n \in 0 .. RetryLimitFull, ctr' = [ctr EXCEPT ![u] = n],
           NEW c \in [Step -> MmeReplica \cup {Broken}], conn' = [conn EXCEPT ![u] = c],
           UNCHANGED <<tries, alive>>,
           \A i \in Step : c[i] \in alive \cup {Broken},
           ctx.id # 0 => <<ctx.id, u>> \in own,
           pc \in Step \ {"initial_attach"} => ctx.id # 0 /\ ctx.k_asme = u
    PROVE  RanOK(own, u) /\ RanAlone(u)
<1>1. RanTypeOK'
    BY DEF RanTypeOK
<1>2. ran_pc'[u] = pc /\ ran_ctx'[u] = ctx /\ conn'[u] = c
    BY DEF RanTypeOK
<1>3. TerminalOK(own, u)'
    BY <1>2 DEF TerminalOK
<1>4. RanAlone(u)
    BY DEF RanAlone, RanTypeOK
<1> QED
    BY <1>1, <1>3, <1>4 DEF RanOK

LEMMA ConnectionsType ==
    ASSUME NEW c \in Connections
    PROVE  c \in [Step -> MmeReplica \cup {Broken}] /\ \A i \in Step : c[i] \in alive \cup {Broken}
    BY DEF Connections

\* The terminal of Inv, as the lemmas below need it.
LEMMA TerminalFacts ==
    ASSUME NEW own, Inv(own), NEW u \in UE
    PROVE  /\ RanTypeOK /\ TerminalOK(own, u)
           /\ ran_ctx[u] \in RanContext /\ ctr[u] \in 0 .. RetryLimitFull
           /\ conn[u] \in [Step -> MmeReplica \cup {Broken}]
           /\ \A i \in Step : conn[u][i] \in alive \cup {Broken}
           /\ ran_ctx[u].id # 0 => <<ran_ctx[u].id, u>> \in own
           /\ ran_pc[u] \in Step \cup {"idle", "done"}
           /\ ran_pc[u] \in Step \ {"initial_attach"} => ran_ctx[u].id # 0 /\ ran_ctx[u].k_asme = u
           /\ ran_ctx' = ran_ctx => ran_ctx' = [ran_ctx EXCEPT ![u] = ran_ctx[u]]
           /\ ctr' = ctr => ctr' = [ctr EXCEPT ![u] = ctr[u]]
           /\ conn' = conn => conn' = [conn EXCEPT ![u] = conn[u]]
    BY DEF Inv, TypeOK, RanTypeOK, TerminalOK

\* The terminal goes on, with what it knows, on the connections it has.
LEMMA GoesOn ==
    ASSUME NEW own, Inv(own), NEW u \in UE,
           NEW pc \in Step \cup {"idle", "done"}, ran_pc' = [ran_pc EXCEPT ![u] = pc],
           NEW ctx \in RanContext, ran_ctx' = [ran_ctx EXCEPT ![u] = ctx],
           NEW n \in 0 .. RetryLimitFull, ctr' = [ctr EXCEPT ![u] = n],
           UNCHANGED <<conn, tries, alive>>,
           ctx.id # 0 => <<ctx.id, u>> \in own,
           pc \in Step \ {"initial_attach"} => ctx.id # 0 /\ ctx.k_asme = u
    PROVE  RanOK(own, u) /\ RanAlone(u)
<1>1. PICK c \in [Step -> MmeReplica \cup {Broken}] :
          conn' = [conn EXCEPT ![u] = c] /\ \A i \in Step : c[i] \in alive \cup {Broken}
  <2>1. conn \in [UE -> [Step -> MmeReplica \cup {Broken}]] /\ TerminalOK(own, u)
      BY DEF Inv, TypeOK, RanTypeOK
  <2>2. conn' = [conn EXCEPT ![u] = conn[u]]
      BY <2>1
  <2> QED
      BY <2>1, <2>2 DEF TerminalOK
<1>2. RanTypeOK
    BY DEF Inv, TypeOK
<1> QED
    BY <1>1, <1>2, RanWrites

LEMMA GotoFacts ==
    ASSUME NEW u \in UE, NEW step \in Step, Goto(u, step)
    PROVE  \E pc \in Step \cup {"idle", "done"} :
               ran_pc' = [ran_pc EXCEPT ![u] = pc] /\ pc \in {step, "done"}
    BY DEF Goto

LEMMA LaunchKeeps ==
    ASSUME NEW own, Inv(own), NEW u \in UE, Launch(u), UNCHANGED alive
    PROVE  RanOK(own, u) /\ RanAlone(u)
<1>1. PICK pc \in Step \cup {"idle", "done"} :
          ran_pc' = [ran_pc EXCEPT ![u] = pc] /\ pc \in {"initial_attach", "done"}
    BY GotoFacts DEF Launch, Step
<1>2. NewRanContext \in RanContext /\ NewRanContext.id = 0
    BY Names DEF NewRanContext, RanContext
<1>3. PICK c \in Connections : conn' = [conn EXCEPT ![u] = c]
    BY DEF Launch
<1>4. 0 \in 0 .. RetryLimitFull
    BY ReplRetryAssumption
<1>5. c \in [Step -> MmeReplica \cup {Broken}] /\ \A i \in Step : c[i] \in alive \cup {Broken}
    BY <1>3, ConnectionsType
<1>6. pc \notin Step \ {"initial_attach"}
    BY <1>1 DEF Step
<1>7. RanTypeOK
    BY TerminalFacts
<1> QED
    BY <1>1, <1>2, <1>3, <1>4, <1>5, <1>6, <1>7, RanWrites DEF Launch

LEMMA RetryWithKeeps ==
    ASSUME NEW own, Inv(own), NEW u \in UE, ran_pc[u] \in Step, NEW ctx \in RanContext,
           ctx.id = ran_ctx[u].id, ctx.k_asme = ran_ctx[u].k_asme, RetryWith(u, ctx),
           UNCHANGED alive
    PROVE  RanOK(own, u) /\ RanAlone(u) /\ tries' = tries
<1>0. ctx.id # 0 => <<ctx.id, u>> \in own
    BY TerminalFacts
<1>1. CASE /\ ran_pc' = [ran_pc EXCEPT ![u] = "done"]
           /\ ran_ctx' = [ran_ctx EXCEPT ![u] = ctx]
           /\ UNCHANGED <<ctr, tries, conn>>
  <2>1. "done" \notin Step \ {"initial_attach"}
      BY DEF Step
  <2>2. ctr[u] \in 0 .. RetryLimitFull /\ ctr' = [ctr EXCEPT ![u] = ctr[u]]
      BY <1>1, TerminalFacts
  <2> QED
      BY <1>0, <1>1, <2>1, <2>2, GoesOn
<1>2. CASE /\ MayRetry(u)
           /\ ctr' = [ctr EXCEPT ![u] = @ + 1]
           /\ ran_pc' = [ran_pc EXCEPT ![u] = Retried(u)]
           /\ ran_ctx' = [ran_ctx EXCEPT ![u] = ctx]
           /\ \E c \in Connections : conn' = [conn EXCEPT ![u] = c]
           /\ UNCHANGED tries
  <2>1. PICK c \in Connections : conn' = [conn EXCEPT ![u] = c]
      BY <1>2
  <2>2. c \in [Step -> MmeReplica \cup {Broken}] /\ \A i \in Step : c[i] \in alive \cup {Broken}
      BY <2>1, ConnectionsType
  <2>3. Retried(u) \in {ran_pc[u], "initial_attach"} /\ "initial_attach" \in Step
      BY DEF Retried, Step
  <2>4. PICK n \in 0 .. RetryLimitFull : ctr' = [ctr EXCEPT ![u] = n]
    <3>1. ctr[u] \in 0 .. RetryLimitFull /\ ctr[u] < RetryLimitFull
        BY <1>2, TerminalFacts DEF MayRetry
    <3>2. ctr[u] + 1 \in 0 .. RetryLimitFull
        BY <3>1, ReplRetryAssumption
    <3> QED
        BY <1>2, <3>2
  <2>5. PICK pc \in Step : pc = Retried(u) /\ pc \in {ran_pc[u], "initial_attach"}
      BY <2>3
  <2>6. pc \in Step \ {"initial_attach"} => ctx.id # 0 /\ ctx.k_asme = u
      BY <2>5, TerminalFacts
  <2>7. ran_pc' = [ran_pc EXCEPT ![u] = pc]
      BY <1>2, <2>5
  <2>8. RanTypeOK
      BY TerminalFacts
  <2>9. RanOK(own, u) /\ RanAlone(u)
      BY <1>0, <1>2, <2>1, <2>2, <2>4, <2>6, <2>7, <2>8, RanWrites
  <2> QED
      BY <1>2, <2>9
<1>3. CASE Launch(u)
    BY <1>3, LaunchKeeps DEF Launch
<1> QED
    BY <1>1, <1>2, <1>3 DEF RetryWith

LEMMA RetryKeeps ==
    ASSUME NEW own, Inv(own), NEW u \in UE, ran_pc[u] \in Step, Retry(u), UNCHANGED alive
    PROVE  RanOK(own, u) /\ RanAlone(u) /\ tries' = tries
    BY RetryWithKeeps, TerminalFacts DEF Retry

LEMMA GiveUpKeeps ==
    ASSUME NEW own, Inv(own), NEW u \in UE, ran_pc[u] \in Step, GiveUp(u), UNCHANGED alive
    PROVE  RanOK(own, u) /\ RanAlone(u) /\ tries' = tries
<1>1. CASE ran_pc[u] = "set_eps_session"
  <2>1. Goto(u, "detach") /\ UNCHANGED <<ran_ctx, ctr, tries, conn>>
      BY <1>1 DEF GiveUp
  <2>2. PICK pc \in Step \cup {"idle", "done"} : ran_pc' = [ran_pc EXCEPT ![u] = pc]
      BY <2>1, GotoFacts DEF Step
  <2>3. ran_ctx[u].id # 0 /\ ran_ctx[u].k_asme = u
      BY <1>1, TerminalFacts DEF Step
  <2>4. ran_ctx[u] \in RanContext /\ ran_ctx' = [ran_ctx EXCEPT ![u] = ran_ctx[u]]
      BY <2>1, TerminalFacts
  <2>5. ctr[u] \in 0 .. RetryLimitFull /\ ctr' = [ctr EXCEPT ![u] = ctr[u]]
      BY <2>1, TerminalFacts
  <2>6. ran_ctx[u].id # 0 => <<ran_ctx[u].id, u>> \in own
      BY TerminalFacts
  <2> QED
      BY <2>1, <2>2, <2>3, <2>4, <2>5, <2>6, GoesOn
<1>2. CASE ran_pc[u] # "set_eps_session"
    BY <1>2, RetryKeeps DEF GiveUp
<1> QED
    BY <1>1, <1>2

LEMMA AdvanceKeeps ==
    ASSUME NEW own, Inv(own), NEW u \in UE, NEW step \in Step, NEW ctx \in RanContext,
           <<ctx.id, u>> \in own, ctx.id # 0, ctx.k_asme = u, Advance(u, step, ctx), UNCHANGED alive
    PROVE  RanOK(own, u) /\ RanAlone(u) /\ tries' = tries
<1>1. PICK pc \in Step \cup {"idle", "done"} : ran_pc' = [ran_pc EXCEPT ![u] = pc]
    BY GotoFacts DEF Advance
<1>2. ctr[u] \in 0 .. RetryLimitFull /\ ctr' = [ctr EXCEPT ![u] = ctr[u]]
    BY TerminalFacts DEF Advance
<1>3. /\ ran_ctx' = [ran_ctx EXCEPT ![u] = ctx]
      /\ UNCHANGED <<conn, tries, alive>>
    BY DEF Advance
<1>4. RanOK(own, u) /\ RanAlone(u)
    BY <1>1, <1>2, <1>3, GoesOn
<1> QED
    BY <1>3, <1>4

\* A terminal that has no request once the step is over.
LEMMA Rests ==
    ASSUME NEW own, Inv(own), NEW u \in UE, RanOK(own, u), RanAlone(u), tries' = tries,
           ~Busy(u)', UNCHANGED <<alive, losses, exited, mmeVars, sgwVars, pgwVars>>,
           \/ job' = job
           \/ job' = [job EXCEPT ![u] = NoJob] /\ NoJob \in Job
    PROVE  Inv(own)' /\ CountsKeep
<1>1. job \in [UE -> Job] /\ tries \in [UE -> 0 .. MaxTries]
    BY DEF Inv, TypeOK, RanTypeOK
<1>2. job' \in [UE -> Job] /\ \A v \in UE \ {u} : job'[v] = job[v]
    BY <1>1
<1>3. Alone(u)
    BY <1>2 DEF Alone, RanAlone
<1>4. JobOK(own, u)'
    BY DEF JobOK
<1>5. Taken \subseteq Taken'
  <2>1. \A v \in UE : At(v, "mme", "initial_attach")' => At(v, "mme", "initial_attach")
      BY <1>2 DEF At, Busy
  <2> QED
      BY <1>1, <2>1, TakenGrows
<1> QED
    BY <1>2, <1>3, <1>4, <1>5, TerminalKeeps DEF RanOK

LEMMA NoJobType == NoJob \in Job /\ NoJob.at = "none" /\ NoJob.live = TRUE
<1>1. (CHOOSE m \in MmeReplica : TRUE) \in MmeReplica
    BY ReplReplicaAssumption
<1>2. (CHOOSE s \in SgwReplica : TRUE) \in SgwReplica
    BY ReplReplicaAssumption
<1>3. NewMmeContext \in MmeContext
    BY Names DEF NewMmeContext, MmeContext
<1>4. Missing(0, NewSgwContext) \in Entry(SgwContext)
    BY Names DEF Missing, Entry, NewSgwContext, SgwContext
<1>5. PICK m \in MmeReplica, s \in SgwReplica :
          m = (CHOOSE n \in MmeReplica : TRUE) /\ s = (CHOOSE n \in SgwReplica : TRUE)
    BY <1>1, <1>2
<1>6. PICK ctx \in MmeContext, sess \in Entry(SgwContext) :
          ctx = NewMmeContext /\ sess = Missing(0, NewSgwContext)
    BY <1>3, <1>4
<1>7. NoJob = [at |-> "none", step |-> "detach", m |-> m, s |-> s, live |-> TRUE, ctx |-> ctx,
               sess |-> sess, id |-> 0, key |-> 0, teid |-> 0, imsi |-> 0, s5 |-> 0,
               ip |-> 0, ok |-> FALSE]
    BY <1>5, <1>6 DEF NoJob
<1> QED
    BY <1>7, Names DEF Job, Step

LEMMA StartKeeps ==
    ASSUME NEW own, Inv(own), NEW u \in UE, Start(u), UNCHANGED <<mmeVars, sgwVars, pgwVars>>
    PROVE  Inv(own)' /\ CountsKeep
<1>1. RanOK(own, u) /\ RanAlone(u) /\ tries' = tries /\ job' = job
    BY LaunchKeeps DEF Start, Launch
<1>2. ~Busy(u)
  <2>1. Busy(u) => job[u].step = ran_pc[u] /\ job[u].step \in Step
      BY DEF Inv, TypeOK, JobOK, RequestOK, Job
  <2> QED
      BY <2>1 DEF Start, Step
<1>3. ~Busy(u)'
    BY <1>1, <1>2 DEF Busy
<1> QED
    BY <1>1, <1>3, Rests DEF Start

LEMMA RequestOnBrokenConnectionKeeps ==
    ASSUME NEW own, Inv(own), NEW u \in UE, RequestOnBrokenConnection(u),
           UNCHANGED <<mmeVars, sgwVars, pgwVars>>
    PROVE  Inv(own)' /\ CountsKeep
<1>1. RanOK(own, u) /\ RanAlone(u) /\ tries' = tries
    BY GiveUpKeeps DEF RequestOnBrokenConnection
<1>2. ~Busy(u)'
    BY DEF RequestOnBrokenConnection, Busy
<1> QED
    BY <1>1, <1>2, Rests DEF RequestOnBrokenConnection

LEMMA JobDropped ==
    ASSUME NEW own, Inv(own), NEW u \in UE, Pass(u, NoJob)
    PROVE  ~Busy(u)' /\ job' = [job EXCEPT ![u] = NoJob] /\ NoJob \in Job
    BY NoJobType DEF Inv, TypeOK, Pass, Busy

LEMMA NoAnswerKeeps ==
    ASSUME NEW own, Inv(own), NEW u \in UE, NoAnswer(u), UNCHANGED <<mmeVars, sgwVars, pgwVars>>
    PROVE  Inv(own)' /\ CountsKeep
<1>1. ran_pc[u] \in Step
  <2>1. job[u] \in Job /\ JobOK(own, u) /\ Busy(u)
      BY DEF NoAnswer, Inv, TypeOK, Busy
  <2> QED
      BY <2>1 DEF JobOK, RequestOK, Job
<1>2. RanOK(own, u) /\ RanAlone(u) /\ tries' = tries
    BY <1>1, GiveUpKeeps DEF NoAnswer
<1>3. ~Busy(u)' /\ job' = [job EXCEPT ![u] = NoJob] /\ NoJob \in Job
    BY JobDropped DEF NoAnswer
<1> QED
    BY <1>2, <1>3, Rests DEF NoAnswer

LEMMA AnswerKeeps ==
    ASSUME NEW own, Inv(own), NEW u \in UE, Answer(u), UNCHANGED <<mmeVars, sgwVars, pgwVars>>
    PROVE  Inv(own)' /\ CountsKeep
<1>1. PICK j \in Job : j = job[u]
    BY DEF Inv, TypeOK
<1>2. j.at = "reply" /\ Pass(u, NoJob) /\ UNCHANGED <<alive, losses, exited>>
    BY <1>1 DEF Answer
<1>3. RequestOK(own, u, j) /\ j.step = ran_pc[u] /\ own \subseteq AllPairs
    BY <1>1, <1>2 DEF Inv, JobOK, Busy, RequestOK
<1>4. PICK old \in RanContext : old = ran_ctx[u]
    BY TerminalFacts
<1>5. u \in Teid /\ j.imsi \in Teid /\ j.teid \in Teid /\ j.ip \in Teid /\ j.id \in {0} \cup UeId
    BY Names DEF Job
<1>6. ASSUME j.step # "initial_attach"
      PROVE  old.id # 0 /\ old.k_asme = u /\ <<old.id, u>> \in own
  <2>1. ran_pc[u] \in Step \ {"initial_attach"}
      BY <1>3, <1>6 DEF Job
  <2> QED
      BY <1>4, <2>1, TerminalFacts
<1>7. RanOK(own, u) /\ RanAlone(u) /\ tries' = tries
  <2>1. CASE j.step = "initial_attach" /\ InitialAttachAnswer(u)
    <3>1. PICK ctx : ctx = [old EXCEPT !.id = j.id, !.k_asme = u]
        OBVIOUS
    <3>2. ctx \in RanContext /\ ctx.id = j.id /\ ctx.k_asme = u
        BY <1>5, <3>1 DEF RanContext
    <3>3. j.id # 0 /\ <<j.id, u>> \in own
        BY <1>2, <1>3, <2>1 DEF RequestOK
    <3>4. Advance(u, "authenticate", ctx) /\ "authenticate" \in Step
        BY <1>1, <1>4, <2>1, <3>1 DEF InitialAttachAnswer, Step
    <3> QED
        BY <1>2, <3>2, <3>3, <3>4, AdvanceKeeps
  <2>2. CASE j.step = "authenticate" /\ AuthenticateAnswer(u)
    <3>1. Advance(u, "set_security", old) /\ "set_security" \in Step
        BY <1>4, <2>2 DEF AuthenticateAnswer, Step
    <3> QED
        BY <1>2, <1>6, <2>2, <3>1, AdvanceKeeps
  <2>3. CASE j.step = "set_security" /\ SetSecurityAnswer(u)
    <3>1. PICK ctx : ctx = [old EXCEPT !.guti = j.imsi, !.s1_uteid_ul = j.teid, !.ip = j.ip]
        OBVIOUS
    <3>2. ctx \in RanContext /\ ctx.id = old.id /\ ctx.k_asme = old.k_asme
        BY <1>5, <3>1 DEF RanContext
    <3>3. Advance(u, "set_eps_session", ctx) \/ RetryWith(u, ctx)
        BY <1>1, <1>4, <2>3, <3>1 DEF SetSecurityAnswer
    <3>4. CASE Advance(u, "set_eps_session", ctx)
      <4>1. "set_eps_session" \in Step
          BY DEF Step
      <4> QED
          BY <1>2, <1>6, <2>3, <3>2, <3>4, <4>1, AdvanceKeeps
    <3>5. CASE RetryWith(u, ctx)
      <4>1. ran_pc[u] \in Step
          BY <1>3 DEF Job
      <4> QED
          BY <1>2, <1>4, <3>2, <3>5, <4>1, RetryWithKeeps
    <3> QED
        BY <3>3, <3>4, <3>5
  <2>4. CASE j.step = "set_eps_session" /\ SetEpsSessionAnswer(u)
    <3>1. Advance(u, "detach", old) /\ "detach" \in Step
        BY <1>4, <2>4 DEF SetEpsSessionAnswer, Step
    <3> QED
        BY <1>2, <1>6, <2>4, <3>1, AdvanceKeeps
  <2>5. CASE j.step = "detach" /\ DetachAnswer(u)
    <3>1. PICK pc \in Step \cup {"idle", "done"} :
              ran_pc' = [ran_pc EXCEPT ![u] = pc] /\ pc \in {"initial_attach", "done"}
        BY <2>5, GotoFacts DEF DetachAnswer, Step
    <3>2. 0 \in 0 .. RetryLimitFull
        BY ReplRetryAssumption
    <3>3. /\ ctr' = [ctr EXCEPT ![u] = 0] /\ UNCHANGED <<conn, tries, alive>>
          /\ ran_ctx' = [ran_ctx EXCEPT ![u] = old]
        BY <1>2, <1>4, <2>5, TerminalFacts DEF DetachAnswer
    <3>4. pc \notin Step \ {"initial_attach"}
        BY <3>1 DEF Step
    <3>5. <<old.id, u>> \in own
        BY <1>6, <2>5
    <3>6. RanOK(own, u) /\ RanAlone(u)
        BY <3>1, <3>2, <3>3, <3>4, <3>5, GoesOn
    <3> QED
        BY <3>3, <3>6
  <2> QED
      BY <1>1, <2>1, <2>2, <2>3, <2>4, <2>5 DEF Answer
<1>8. ~Busy(u)' /\ job' = [job EXCEPT ![u] = NoJob] /\ NoJob \in Job
    BY <1>2, JobDropped
<1> QED
    BY <1>2, <1>7, <1>8, Rests

LEMMA RequestKeeps ==
    ASSUME NEW own, Inv(own), NEW u \in UE, Request(u), UNCHANGED <<mmeVars, sgwVars, pgwVars>>
    PROVE  Inv(own)' /\ CountsKeep
<1>1. PICK pc \in Step, ctx \in RanContext, m \in MmeReplica \cup {Broken} :
          pc = ran_pc[u] /\ ctx = ran_ctx[u] /\ m = conn[u][pc]
  <2>1. ran_ctx[u] \in RanContext /\ conn[u] \in [Step -> MmeReplica \cup {Broken}]
      BY TerminalFacts
  <2>2. ran_pc[u] \in Step
      BY DEF Request
  <2> QED
      BY <2>1, <2>2
<1>2. PICK k : k = [NoJob EXCEPT !.at = "mme", !.step = pc, !.m = m, !.id = ctx.id,
                                 !.key = ctx.k_asme, !.imsi = ctx.guti, !.teid = ctx.s1_uteid_ul]
    OBVIOUS
<1>3. /\ ~Busy(u) /\ m # Broken /\ (pc = "initial_attach" => ~TimeExceeded(u))
      /\ tries' = [tries EXCEPT ![u] = IF pc = "initial_attach" THEN @ + 1 ELSE @]
      /\ job' = [job EXCEPT ![u] = k]
      /\ UNCHANGED <<ran_pc, ran_ctx, ctr, conn, alive, losses, exited>>
    BY <1>1, <1>2 DEF Request, Pass
<1>4. /\ job \in [UE -> Job] /\ RanTypeOK /\ TerminalOK(own, u)
    BY DEF Inv, TypeOK
<1>5. m \in MmeReplica /\ m \in alive
    BY <1>1, <1>3, <1>4 DEF TerminalOK
<1>6. k \in Job /\ k.at = "mme" /\ k.step = pc /\ k.m = m /\ k.id = ctx.id /\ k.key = ctx.k_asme
  <2>1. ctx.id \in {0} \cup UeId /\ {ctx.k_asme, ctx.guti, ctx.s1_uteid_ul} \subseteq Teid
      BY DEF RanContext
  <2>2. PICK n \in Job : n = NoJob
      BY NoJobType
  <2>3. PICK id \in {0} \cup UeId, key \in Teid, imsi \in Teid, teid \in Teid :
            id = ctx.id /\ key = ctx.k_asme /\ imsi = ctx.guti /\ teid = ctx.s1_uteid_ul
      BY <2>1
  <2>4. k = [n EXCEPT !.at = "mme", !.step = pc, !.m = m, !.id = id, !.key = key,
                      !.imsi = imsi, !.teid = teid]
      BY <1>2, <2>2, <2>3
  <2> QED
      BY <1>5, <2>3, <2>4 DEF Job
<1>7. tries' \in [UE -> 0 .. MaxTries] /\ (pc = "initial_attach" => tries'[u] = tries[u] + 1)
  <2>1. tries[u] \in 0 .. MaxTries /\ MaxTries \in Nat /\ tries \in [UE -> 0 .. MaxTries]
      BY <1>4, ReplBoundAssumption DEF RanTypeOK
  <2>2. CASE pc = "initial_attach"
    <3>1. tries[u] + 1 \in 0 .. MaxTries
        BY <1>3, <2>1, <2>2 DEF TimeExceeded
    <3>2. tries' = [tries EXCEPT ![u] = tries[u] + 1]
        BY <1>3, <2>2
    <3> QED
        BY <2>1, <3>1, <3>2
  <2>3. CASE pc # "initial_attach"
      BY <1>3, <2>1, <2>3
  <2> QED
      BY <2>2, <2>3
<1>8. RanTypeOK' /\ job' \in [UE -> Job]
    BY <1>3, <1>4, <1>6, <1>7 DEF RanTypeOK
<1>9. TerminalOK(own, u)'
    BY <1>3, <1>4 DEF TerminalOK
<1>10. JobOK(own, u)'
  <2>1. job'[u] = k /\ ran_pc'[u] = pc
      BY <1>1, <1>3, <1>4
  <2>2. /\ ctx.id # 0 => <<ctx.id, u>> \in own
        /\ pc # "initial_attach" => ctx.id # 0 /\ ctx.k_asme = u
      BY <1>1, <1>4 DEF TerminalOK
  <2>3. pc = "initial_attach" => tries'[u] # 0
      BY <1>4, <1>7, ReplBoundAssumption DEF RanTypeOK
  <2>4. m \in alive'
      BY <1>3, <1>5
  <2> QED
      BY <1>6, <2>1, <2>2, <2>3, <2>4 DEF JobOK, RequestOK
<1>11. Alone(u)
    BY <1>3, <1>4, <1>6, <1>7, <1>8 DEF Alone, RanTypeOK
<1>12. Taken \subseteq Taken'
  <2>1. ASSUME NEW a \in Taken PROVE a \in Taken'
    <3>1. PICK v \in UE, n \in 1 .. MaxTries : a = <<v, n>>
        BY <2>1 DEF Taken
    <3>2. n < tries[v] \/ (n = tries[v] /\ ~At(v, "mme", "initial_attach"))
        BY <2>1, <3>1 DEF Taken
    <3>3. CASE v # u
      <4>1. tries'[v] = tries[v] /\ job'[v] = job[v]
          BY <1>11, <3>3 DEF Alone
      <4>2. n < tries'[v] \/ (n = tries'[v] /\ ~At(v, "mme", "initial_attach")')
          BY <3>2, <4>1 DEF At
      <4> QED
          BY <3>1, <4>2 DEF Taken
    <3>4. CASE v = u
      <4>1. n \in Nat /\ tries[u] \in Nat
          BY <1>4, ReplBoundAssumption DEF RanTypeOK
      <4>2. CASE pc = "initial_attach"
        <5>1. n < tries'[u]
            BY <1>7, <3>2, <3>4, <4>1, <4>2
        <5> QED
            BY <3>1, <3>4, <5>1 DEF Taken
      <4>3. CASE pc # "initial_attach"
        <5>1. tries'[u] = tries[u] /\ ~At(u, "mme", "initial_attach")'
            BY <1>3, <1>4, <1>6, <4>3 DEF At, RanTypeOK
        <5> QED
            BY <3>1, <3>2, <3>4, <5>1 DEF Taken
      <4> QED
          BY <4>2, <4>3
    <3> QED
        BY <3>3, <3>4
  <2> QED
      BY <2>1
<1> QED
    BY <1>3, <1>8, <1>9, <1>10, <1>11, <1>12, TerminalKeeps

-----------------------------------------------------------------------------
(* All steps, and what follows from them.                                  *)

\* No id is handed out, and none is handed out again.
NoNewId == MaxRestarts = 0 =>
    /\ alive' \subseteq alive
    /\ \A m \in MmeReplica \cap alive' : mme'[m].count = mme[m].count

LEMMA ServeKeeps ==
    ASSUME NEW own, Inv(own), NEW u \in UE, Serve(u), ~MmeInitialAttach(u)
    PROVE  Inv(own)' /\ NoNewId
<1>1. CASE RanStep(u) /\ UNCHANGED <<mmeVars, sgwVars, pgwVars>>
  <2>1. alive' = alive
      BY <1>1 DEF RanStep, Start, Request, RequestOnBrokenConnection, NoAnswer, Answer
  <2>2. Inv(own)' /\ CountsKeep
      BY <1>1, StartKeeps, RequestKeeps, RequestOnBrokenConnectionKeeps, NoAnswerKeeps,
         AnswerKeeps DEF RanStep
  <2> QED
      BY <2>1, <2>2 DEF NoNewId, CountsKeep
<1>2. CASE MmeStep(u) /\ UNCHANGED <<sgwVars, pgwVars>>
  <2>1. \/ MmeAuthenticate(u) \/ MmeCreateAnswer(u) \/ MmeModifyAnswer(u) \/ MmeDetachAnswer(u)
        \/ ConnectionLost(u)
      BY <1>2 DEF MmeStep
  <2>2. alive' = alive
      BY <2>1 DEF MmeAuthenticate, Serving, MmeCreateAnswer, MmeModifyAnswer, MmeDetachAnswer,
                  Answered, ConnectionLost
  <2>3. Inv(own)' /\ CountsKeep
      BY <1>2, <2>1, MmeAuthenticateKeeps, MmeCreateAnswerKeeps, MmeModifyAnswerKeeps,
         MmeDetachAnswerKeeps, ConnectionLostKeeps
  <2> QED
      BY <2>2, <2>3 DEF NoNewId, CountsKeep
<1>3. CASE /\ \E s \in SgwReplica, step \in {"set_security", "set_eps_session", "detach"} :
                 MmeAsk(u, step, s)
           /\ UNCHANGED <<sgwVars, pgwVars>>
  <2>1. PICK s \in SgwReplica, step \in {"set_security", "set_eps_session", "detach"} :
            MmeAsk(u, step, s)
      BY <1>3
  <2>2. alive' = alive
      BY <2>1 DEF MmeAsk, Serving
  <2>3. Inv(own)' /\ CountsKeep
      BY <1>3, <2>1, MmeAskKeeps
  <2> QED
      BY <2>2, <2>3 DEF NoNewId, CountsKeep
<1>4. CASE SgwStep(u) /\ UNCHANGED pgwVars
  <2>1. Inv(own)'
      BY <1>4, SgwCreateKeeps, SgwCreateAnswerKeeps, SgwModifyKeeps, SgwDetachKeeps,
         SgwDetachAnswerKeeps, SgwGoneKeeps DEF SgwStep
  <2>2. UNCHANGED <<alive, mme>>
      BY <1>4 DEF SgwStep, SgwCreate, SgwCreateAnswer, SgwModify, SgwDetach, SgwDetachAnswer,
                  SgwGone, SgwServing, mmeVars
  <2> QED
      BY <2>1, <2>2 DEF NoNewId
<1>5. CASE PgwStep(u)
  <2>1. Inv(own)'
      BY <1>5, PgwCreateKeeps, PgwDetachKeeps DEF PgwStep
  <2>2. UNCHANGED <<alive, mme>>
      BY <1>5 DEF PgwStep, PgwCreate, PgwDetach, PgwServing, mmeVars
  <2> QED
      BY <2>1, <2>2 DEF NoNewId
<1> QED
    BY <1>1, <1>2, <1>3, <1>4, <1>5 DEF Serve

LEMMA OthersStepKeeps ==
    ASSUME NEW own, Inv(own), Synchronise \/ Forward \/ Fault \/ UNCHANGED vars
    PROVE  Inv(own)' /\ NoNewId
<1>1. CASE Synchronise
  <2>1. Inv(own)'
      BY <1>1, MmeReceiveReplicationKeeps, SgwReceiveReplicationKeeps, PgwReceiveReplicationKeeps
      DEF Synchronise
  <2>2. CASE MmeReceiveReplication /\ UNCHANGED <<sgwVars, pgwVars>>
      BY <2>1, <2>2, MmeReceiveReplicationKeeps DEF NoNewId, CountsKeep, MmeReceiveReplication
  <2>3. CASE SgwReceiveReplication \/ PgwReceiveReplication
      BY <2>1, <2>3 DEF NoNewId, SgwReceiveReplication, PgwReceiveReplication, mmeVars
  <2> QED
      BY <1>1, <2>2, <2>3 DEF Synchronise
<1>2. CASE Forward
  <2>1. Inv(own)'
      BY <1>2, SgwFetchKeeps, SgwFillKeeps, PgwFetchKeeps, PgwFillStepKeeps DEF Forward
  <2>2. UNCHANGED <<alive, mme>>
      BY <1>2 DEF Forward, SgwFetch, SgwFill, PgwFetch, PgwFillStep, mmeVars
  <2> QED
      BY <2>1, <2>2 DEF NoNewId
<1>3. CASE Fault
  <2>1. CASE (\E m \in MmeReplica : MmeCrash(m) \/ MmeRestart(m)) /\ UNCHANGED <<sgwVars, pgwVars>>
    <3>1. PICK m \in MmeReplica : MmeCrash(m) \/ MmeRestart(m)
        BY <2>1
    <3>2. CASE MmeCrash(m)
        BY <2>1, <3>2, MmeCrashKeeps DEF NoNewId
    <3>3. CASE MmeRestart(m)
        BY <2>1, <3>3, MmeRestartKeeps DEF NoNewId
    <3> QED
        BY <3>1, <3>2, <3>3
  <2>2. CASE (\E s \in SgwReplica : SgwCrash(s)) /\ UNCHANGED pgwVars
    <3>1. Inv(own)'
        BY <2>2, SgwCrashKeeps
    <3>2. alive' \subseteq alive /\ mme' = mme
        BY <2>2 DEF SgwCrash, mmeVars
    <3> QED
        BY <3>1, <3>2 DEF NoNewId
  <2> QED
      BY <1>3, <2>1, <2>2 DEF Fault
<1>4. CASE UNCHANGED vars
  <2>1. UNCHANGED <<ranVars, alive, job, losses, exited, mmeVars, sgwVars, pgwVars>>
      BY <1>4 DEF vars
  <2>2. ReplSgwTypeOK' /\ ReplPgwTypeOK' /\ losses' \in 0 .. MaxLosses /\ exited' \subseteq Replica
      BY <2>1 DEF Inv, TypeOK, ReplSgwTypeOK, ReplPgwTypeOK, sgwVars, pgwVars
  <2>3. Inv(own)'
      BY <2>1, <2>2, RequestsKeep DEF mmeVars
  <2> QED
      BY <2>1, <2>3 DEF NoNewId, mmeVars
<1> QED
    BY <1>1, <1>2, <1>3, <1>4

\* The invariant goes on with the pairs it had, and the one of an initial attach.
LEMMA InvStep ==
    ASSUME NEW own \in SUBSET AllPairs, Inv(own), [Next]_vars
    PROVE  \E own2 \in SUBSET AllPairs :
               /\ Inv(own2)'
               /\ IdsApart /\ MaxRestarts = 0 /\ Homes(own) => Homes(own2)'
<1>1. ASSUME Inv(own)', NoNewId, MaxRestarts = 0, Homes(own) PROVE Homes(own)'
  <2>1. ASSUME NEW m \in MmeReplica \cap alive', NEW p \in own, p[1] \in Ids(m)
        PROVE  p[1] <= mme'[m].count
      BY <1>1, <2>1 DEF NoNewId, Homes
  <2> QED
      BY <1>1, <2>1 DEF Homes
<1>2. CASE \E u \in UE : Serve(u) /\ ~MmeInitialAttach(u)
    BY <1>1, <1>2, ServeKeeps
<1>3. CASE Synchronise \/ Forward \/ Fault \/ UNCHANGED vars
    BY <1>1, <1>3, OthersStepKeeps
<1>4. CASE \E u \in UE : Serve(u) /\ MmeInitialAttach(u)
  <2>1. PICK u \in UE : Serve(u) /\ MmeInitialAttach(u)
      BY <1>4
  <2>2. UNCHANGED <<sgwVars, pgwVars>>
    <3>1. job[u].at = "mme"
        BY <2>1 DEF MmeInitialAttach, Serving, At
    <3>2. ~SgwStep(u)
        BY <3>1 DEF SgwStep, SgwCreate, SgwCreateAnswer, SgwModify, SgwDetach, SgwDetachAnswer,
                    SgwGone, SgwServing, At
    <3>3. ~PgwStep(u)
        BY <3>1 DEF PgwStep, PgwCreate, PgwDetach, PgwServing, At
    <3> QED
        BY <2>1, <3>2, <3>3 DEF Serve
  <2>3. PICK m \in MmeReplica \cap alive : \E id \in Ids(m) : \E own2 :
            /\ id = mme[m].count + 1 /\ own2 = own \cup {<<id, u>>}
            /\ Inv(own2)'
            /\ mme'[m].count = id
            /\ \A n \in MmeReplica \ {m} : mme'[n].count = mme[n].count
            /\ alive' = alive
      BY <2>1, <2>2, MmeInitialAttachKeeps
  <2>4. PICK id \in Ids(m) : \E own2 :
            /\ id = mme[m].count + 1 /\ own2 = own \cup {<<id, u>>}
            /\ Inv(own2)'
            /\ mme'[m].count = id
            /\ \A n \in MmeReplica \ {m} : mme'[n].count = mme[n].count
            /\ alive' = alive
      BY <2>3
  <2>5. PICK own2 :
            /\ id = mme[m].count + 1 /\ own2 = own \cup {<<id, u>>}
            /\ Inv(own2)'
            /\ mme'[m].count = id
            /\ \A n \in MmeReplica \ {m} : mme'[n].count = mme[n].count
            /\ alive' = alive
      BY <2>4
  <2>6. ASSUME IdsApart, Homes(own) PROVE Homes(own2)'
    <3>1. \A n \in MmeReplica : mme[n].count \in Nat
        BY DEF Inv, TypeOK, ReplMmeTypeOK, MmeState
    <3>2. \A p \in own : p[1] # id
        BY <2>5, <2>6, <3>1 DEF Homes
    <3>3. \A p, q \in own2 : p[1] = q[1] => p[2] = q[2]
        BY <2>5, <2>6, <3>2 DEF Homes
    <3>4. ASSUME NEW n \in MmeReplica \cap alive', NEW p \in own2, p[1] \in Ids(n)
          PROVE  p[1] <= mme'[n].count
      <4>1. CASE p \in own
        <5>1. p[1] <= mme[n].count /\ p[1] \in Nat
            BY <2>5, <2>6, <3>4, <4>1, Names DEF Homes, AllPairs
        <5>2. mme[n].count \in Nat /\ mme[m].count \in Nat
            BY <3>1
        <5>3. mme'[n].count = mme[n].count \/ (n = m /\ mme'[n].count = mme[m].count + 1)
            BY <2>5
        <5> QED
            BY <5>1, <5>2, <5>3
      <4>2. CASE p = <<id, u>>
        <5>1. n = m
            BY <2>5, <2>6, <3>4, <4>2 DEF IdsApart
        <5>2. mme[m].count \in Nat
            BY <3>1
        <5> QED
            BY <2>5, <4>2, <5>1, <5>2
      <4> QED
          BY <2>5, <4>1, <4>2
    <3> QED
        BY <3>3, <3>4 DEF Homes
  <2>7. own2 \in SUBSET AllPairs
      BY <2>5 DEF Inv
  <2> QED
      BY <2>5, <2>6, <2>7
<1> QED
    BY <1>2, <1>3, <1>4 DEF Next

LEMMA InvInit == Init => Inv({}) /\ Homes({})
<1> SUFFICES ASSUME Init PROVE Inv({}) /\ Homes({})
    OBVIOUS
<1>1. TypeOK
  <2>1. job \in [UE -> Job] /\ losses \in 0 .. MaxLosses /\ exited \subseteq Replica
      BY NoJobType, ReplBoundAssumption DEF Init
  <2>2. RanTypeOK
    <3>1. NewRanContext \in RanContext
        BY Names DEF NewRanContext, RanContext
    <3> QED
        BY <3>1, ReplRetryAssumption, ReplBoundAssumption DEF Init, RanInit, RanTypeOK
  <2>3. ReplMmeTypeOK
    <3>1. \A m \in MmeReplica : NewMme(m) \in MmeState
        BY ReplInitAssumption, Names DEF NewMme, InitialCount, MmeState
    <3> QED
        BY <3>1, ReplBoundAssumption DEF Init, ReplMmeInit, ReplMmeTypeOK
  <2>4. ReplSgwTypeOK
    <3>1. NewSgw \in SgwState
        BY DEF NewSgw, NewIdTable, SgwState, IdTable
    <3> QED
        BY <3>1 DEF Init, ReplSgwInit, ReplSgwTypeOK
  <2>5. ReplPgwTypeOK
    <3>1. NewPgw \in PgwState
        BY DEF NewPgw, NewIdTable, PgwState, IdTable
    <3> QED
        BY <3>1 DEF Init, ReplPgwInit, ReplPgwTypeOK
  <2> QED
      BY <2>1, <2>2, <2>3, <2>4, <2>5 DEF TypeOK
<1>2. MmeOK({})
    BY DEF Init, ReplMmeInit, MmeOK, Tables, NewMme
<1>3. ASSUME NEW u \in UE PROVE TerminalOK({}, u) /\ JobOK({}, u)
    BY NoJobType DEF Init, RanInit, TerminalOK, JobOK, Busy, NewRanContext, Step
<1>4. CountOK
  <2>1. ASSUME NEW m \in MmeReplica
        PROVE  mme[m].count \in InitVal[m] .. InitVal[m] + Cardinality(Taken)
    <3>1. mme[m].count = InitVal[m] /\ InitVal[m] \in Nat
        BY ReplInitAssumption DEF Init, ReplMmeInit, NewMme, InitialCount
    <3> QED
        BY <3>1, TakenFacts
  <2> QED
      BY <2>1 DEF CountOK
<1> QED
    BY <1>1, <1>2, <1>3, <1>4 DEF Inv, Homes

\* Every record of the terminals and of the clusters, their stores and their
\* replication datagrams is well formed, whatever crashes, restarts or is lost: in
\* particular a handler goes on to the SGW only with a context of the store or of
\* the tables, and no replica runs out of the ids its INIT_VAL leaves it.
THEOREM TypeCorrect == Spec => []TypeOK
<1> DEFINE I == \E own \in SUBSET AllPairs : Inv(own)
<1>1. Init => I
    BY InvInit
<1>2. I /\ [Next]_vars => I'
    BY InvStep
<1>3. I => TypeOK
    BY DEF Inv
<1> QED
    BY <1>1, <1>2, <1>3, PTL DEF Spec

\* When the INIT_VAL of the replicas are far enough apart and no replica is started
\* again, the id a terminal holds leads to that terminal in every table and in the
\* store, for any number of subscribers and replicas, any binding, and with crashes,
\* losses and datagrams of the replication at any time.
THEOREM IdsLeadHome ==
    ASSUME IdsApart, MaxRestarts = 0
    PROVE  Spec => []IdLeadsHome
<1> DEFINE I == \E own \in SUBSET AllPairs : Inv(own) /\ Homes(own)
<1>1. Init => I
    BY InvInit
<1>2. I /\ [Next]_vars => I'
    BY InvStep
<1>3. I => IdLeadsHome
  <2>1. ASSUME NEW own \in SUBSET AllPairs, Inv(own), Homes(own), NEW u \in UE, NEW id,
               id = ran_ctx[u].id, id # 0
        PROVE  /\ \A m \in MmeReplica : mme[m].ids[id] \in {0, u}
               /\ mme_store[id] # None => mme_store[id].imsi = u
    <3>1. <<id, u>> \in own /\ id \in UeId
        BY <2>1 DEF Inv, TerminalOK, AllPairs
    <3>2. ASSUME NEW v, <<id, v>> \in own PROVE v = u
        BY <2>1, <3>1, <3>2 DEF Homes
    <3>3. \A m \in MmeReplica : mme[m].ids[id] \in {0, u}
        BY <2>1, <3>1, <3>2 DEF Inv, MmeOK, Tables
    <3>4. mme_store[id] # None => mme_store[id].imsi = u
        BY <2>1, <3>1, <3>2 DEF Inv, MmeOK, Stored, TableCtx
    <3> QED
        BY <3>3, <3>4
  <2> QED
      BY <2>1 DEF IdLeadsHome
<1> QED
    BY <1>1, <1>2, <1>3, PTL DEF Spec
=============================================================================
