--------------------------- MODULE KbyBearerProofs ----------------------------
(***************************************************************************)
(* The events of the SGW and of the PGW keep CallInv, too: it is an        *)
(* invariant of the v3.0 control plane.  The safety properties follow from it,*)
(* and so does the refinement: every event is a step of the service of     *)
(* EpsBearer towards one subscriber, or none.                              *)
(***************************************************************************)
EXTENDS KbyMmeProofs

-----------------------------------------------------------------------------
(* Steps of the gateways.                                                  *)

\* The steps of a call that SGW and PGW take.
SgwSteps == {<<11, 12>>, <<12, 13>>, <<14, 15>>, <<18, 19>>, <<23, 24>>, <<25, 26>>}

\* Those that the PGW takes.
PgwSteps == {<<13, 14>>, <<24, 25>>}

\* They change nothing that the terminal and the MME hold of the call, but what is on
\* its connection to the SGW.
LEMMA GatewayAdvance ==
    ASSUME TypeOK, NEW call \in [UE -> Call], Calls(call), NEW u \in UE, NEW c, c = call[u],
           NEW d \in Call, <<c.at, d.at>> \in SgwSteps \cup PgwSteps,
           d.ran = c.ran, d.out = c.out, d.id = c.id,
           NEW dl \in Teid, s11' = S11Map(u, c, d, dl),
           UNCHANGED <<ranVars, mmeVars, s1, s6a, exited>>,
           FdsOK(d), SgwOK(u, d)', PgwOK(u, d)', SgwFrame(u, c, d), PgwFrame(u, c, d),
           FdsMove(call, u, d), Armed'
    PROVE  \E next \in [UE -> Call] : Calls(next)'
<1>1. c \in Call /\ CallOK(u, c)
    BY DEF Calls
<1>2. <<c.at, d.at>> \in {<<11, 12>>, <<12, 13>>, <<13, 14>>, <<14, 15>>, <<18, 19>>, <<23, 24>>,
                          <<24, 25>>, <<25, 26>>}
    BY DEF SgwSteps, PgwSteps
<1>3. c.out \in Fd /\ c.out # 0 /\ c.ran # 0
    BY <1>1, <1>2, MmeAt DEF Call
<1>4. RanOK(u, d)'
  <2>1. Pc(d.at) = Pc(c.at)
      BY <1>2 DEF Pc
  <2>2. S1State(d.at) = S1State(c.at)
      BY <1>2 DEF S1State
  <2>3. S1Up(u, d) = S1Up(u, c)
      BY <1>2 DEF S1Up
  <2>4. S1Down(u, d) = S1Down(u, c)
      BY <1>2 DEF S1Down
  <2>5. UNCHANGED <<ran_pc, ran_ctx, rounds, s1>>
      BY DEF ranVars
  <2> QED
      BY <1>1, <1>2, <2>1, <2>2, <2>3, <2>4, <2>5 DEF CallOK, RanOK
<1>5. MmeOK(u, d)'
  <2>1. RanEntry(d) = RanEntry(c)
      BY <1>2 DEF RanEntry
  <2>2. OutEntry(u, d) = OutEntry(u, c)
      BY <1>2 DEF OutEntry, Waiting
  <2>3. HssLink(u, d) = HssLink(u, c)
      BY <1>2 DEF HssLink
  <2>4. S11OK(u, d)'
    <3>1. s11'[d.out] = S11Link(u, d, dl)
        BY <1>3 DEF S11Map
    <3> QED
        BY <3>1 DEF S11OK, S11Link
  <2>5. MmeFdsOK(u, c) /\ MmeCtxOK(u, c) /\ c.id <= ue_count /\ (\A i \in UeId : s1mme_id[i] = u <=> i = c.id)
      BY <1>1 DEF CallOK, MmeOK
  <2>6. UNCHANGED <<mme_fdmap, s6a, mme_ctx, ue_count, s1mme_id>>
      BY DEF mmeVars
  <2>7. MmeFdsOK(u, d)'
      BY <2>1, <2>2, <2>3, <2>4, <2>5, <2>6 DEF MmeFdsOK
  <2>8. MmeCtxOK(u, d)'
      BY <1>2, <2>5, <2>6 DEF MmeCtxOK
  <2> QED
      BY <2>5, <2>6, <2>7, <2>8 DEF MmeOK
<1>6. CallOK(u, d)'
    BY <1>4, <1>5 DEF CallOK
<1>7. RanFrame(u)
    BY DEF RanFrame, ranVars
<1>8. MmeFrame(u, c, d)
  <2>1. ue_count \in Nat
      BY Names DEF TypeOK, KbyMmeTypeOK
  <2>2. \A f \in Fd \ {c.out} : s11'[f] = s11[f]
      BY DEF S11Map
  <2> QED
      BY <2>1, <2>2 DEF MmeFrame, mmeVars
<1>9. ue_count' = Cardinality(Numbered([call EXCEPT ![u] = d])') /\ ue_count' \in Nat
  <2>1. UNCHANGED <<rounds, ue_count>> /\ (d.at \in 1 .. 2 <=> call[u].at \in 1 .. 2)
      BY <1>2 DEF ranVars, mmeVars
  <2> QED
      BY <2>1, SameNumbered
<1>10. exited' = {}
    BY DEF Calls
<1> QED
    BY <1>6, <1>7, <1>8, <1>9, <1>10, Move

\* They keep the types of what the others hold.
LEMMA GatewayTypes ==
    ASSUME TypeOK, UNCHANGED <<ranVars, mmeVars, s1, s6a, exited>>,
           s11' \in [Fd -> Link], s5' \in [Fd -> Link], KbySgwTypeOK', KbyPgwTypeOK'
    PROVE  TypeOK'
BY DEF TypeOK, KbyBaseTypeOK, KbyRanTypeOK, KbyMmeTypeOK, ranVars, mmeVars

\* A connection to the SGW that a step leaves alone.
LEMMA S11Stays ==
    ASSUME TypeOK, NEW call \in [UE -> Call], Calls(call), NEW u \in UE, NEW c, c = call[u],
           NEW d \in Call, <<c.at, d.at>> \in {<<12, 13>>, <<13, 14>>, <<24, 25>>},
           d.out = c.out, d.mme = c.mme
    PROVE  s11 = S11Map(u, c, d, 0)
<1>1. c \in Call /\ CallOK(u, c) /\ s11 \in [Fd -> Link]
    BY DEF Calls, TypeOK, KbyBaseTypeOK
<1>2. c.out \in Fd /\ S11OK(u, c)
    BY <1>1, MmeAt DEF Call
<1>3. S11State(d) = S11State(c)
    BY DEF S11State
<1>4. S11Up(u, d) = S11Up(u, c)
    BY DEF S11Up
<1>5. \A dl : S11Down(u, d, 0) = S11Down(u, c, dl)
    BY DEF S11Down
<1>6. s11[c.out] = S11Link(u, d, 0)
    BY <1>2, <1>3, <1>4, <1>5 DEF S11OK, S11Link
<1> QED
    BY <1>1, <1>2, <1>6 DEF S11Map

\* What a call says of the SGW's and the PGW's side of it.
LEMMA SgwAt ==
    ASSUME NEW u \in UE, NEW c \in Call, CallOK(u, c)
    PROVE  /\ c.mme # 0 => c.at \in 10 .. 25 /\ sgw_fdmap[c.mme] = MmeEntry(c)
           /\ c.mme = 0 => c.at \notin 12 .. 25
           /\ c.pgw # 0 <=> c.at \in 12 .. 25
           /\ c.pgw # 0 => sgw_fdmap[c.pgw] = PgwEntry(u, c) /\ s5[c.pgw] = S5Link(u, c)
           /\ s11_id[u] = IF c.at \in 12 .. 25 THEN u ELSE 0
           /\ s1_id[u] = IF c.at \in 12 .. 25 THEN u ELSE 0
           /\ s5_id[u] = IF c.at \in 12 .. 25 THEN u ELSE 0
           /\ sgw_ctx[u] # None <=> c.at \in 12 .. 25
           /\ c.at \in 12 .. 25 => sgw_ctx[u].teid = u
           /\ c.at \in 15 .. 25 => sgw_ctx[u].s5_ul = u
           /\ c.at \in 19 .. 25 => sgw_ctx[u].s1_uteid_dl = u
BY DEF CallOK, FdsOK, SgwOK, S5Link

\* ... and of the PGW.
LEMMA PgwAt ==
    ASSUME NEW u \in UE, NEW c \in Call, CallOK(u, c)
    PROVE  /\ c.sgw # 0 => c.at \in 12 .. 24 /\ c.sgw \in pgw_fdmap
           /\ c.sgw = 0 => c.at \notin 14 .. 24
           /\ pgw_s5_id[u] = IF c.at \in 14 .. 24 THEN u ELSE 0
           /\ sgi_id[u] = IF c.at \in 14 .. 24 THEN u ELSE 0
           /\ pgw_ctx[u] = IF c.at \in 14 .. 24 THEN [teid |-> u, ip_addr |-> u] ELSE None
BY DEF CallOK, FdsOK, PgwOK

\* The entries of a call are entries.
LEMMA SgwEntries ==
    ASSUME NEW u \in UE, NEW c \in Call
    PROVE  /\ MmeEntry(c) \in SgwData \cup {None} /\ PgwEntry(u, c) \in SgwData \cup {None}
           /\ c.at \in 10 .. 11 \/ c.at \in 15 .. 23 => MmeEntry(c) # None
           /\ c.at \in 12 .. 14 \/ c.at \in 24 .. 25 => PgwEntry(u, c) # None
<1>1. c.mme \in {0} \cup Fd /\ c.pgw \in {0} \cup Fd /\ u \in Teid
    BY Names DEF Call
<1>2. [Msg(1) EXCEPT !.teid = u, !.imsi = u] \in Message
  <2>1. 0 \in Teid /\ 1 \in 1 .. 5
      BY Names
  <2> QED
      BY <2>1, CallMessages
<1>3. None \notin SgwData
    BY KbySgwNoneAssumption
<1>4. \A f \in {0} \cup Fd : FromMme(f) \in SgwData
    BY Names DEF FromMme, SgwData
<1>5. /\ MmeEntry(c) \in SgwData \cup {None}
      /\ c.at \in 10 .. 11 \/ c.at \in 15 .. 23 => MmeEntry(c) # None
    BY <1>1, <1>3, <1>4 DEF MmeEntry
<1>6. \A a \in 1 .. 4, b \in Message \cup {None} :
          [act |-> a, initial_fd |-> c.mme, tid |-> u, guti |-> u, buf |-> b] \in SgwData
    BY <1>1 DEF SgwData
<1>7. /\ PgwEntry(u, c) \in SgwData \cup {None}
      /\ c.at \in 12 .. 14 \/ c.at \in 24 .. 25 => PgwEntry(u, c) # None
    BY <1>2, <1>3, <1>6 DEF PgwEntry
<1> QED
    BY <1>5, <1>7

-----------------------------------------------------------------------------
(* The tables of the SGW.                                                  *)

\* What an event makes of them when it takes a call from c to d.
SgwMap(u, c, d) ==
    [f \in Fd |-> IF f = d.pgw THEN PgwEntry(u, d) ELSE IF f = d.mme THEN MmeEntry(d)
                  ELSE IF f \in {c.mme, c.pgw} THEN None ELSE sgw_fdmap[f]]

\* The connections to the PGW once call c of u has become d.
S5Map(u, c, d) ==
    [f \in Fd |-> IF f = d.pgw THEN S5Link(u, d) ELSE IF f = c.pgw THEN NoLink ELSE s5[f]]

\* One of them changes, or ends.
LEMMA S5Same ==
    ASSUME TypeOK, NEW u, NEW c, NEW d
    PROVE  /\ d.pgw \in Fd /\ c.pgw \in {0, d.pgw} =>
                 S5Map(u, c, d) = [s5 EXCEPT ![d.pgw] = S5Link(u, d)]
           /\ d.pgw = 0 /\ c.pgw \in Fd => S5Map(u, c, d) = [s5 EXCEPT ![c.pgw] = NoLink]
<1>1. s5 \in [Fd -> Link] /\ 0 \notin Fd
    BY Names DEF TypeOK, KbyBaseTypeOK
<1>2. ASSUME d.pgw \in Fd, c.pgw \in {0, d.pgw}
      PROVE  S5Map(u, c, d) = [s5 EXCEPT ![d.pgw] = S5Link(u, d)]
    BY <1>1, <1>2 DEF S5Map
<1>3. ASSUME d.pgw = 0, c.pgw \in Fd PROVE S5Map(u, c, d) = [s5 EXCEPT ![c.pgw] = NoLink]
    BY <1>1, <1>3 DEF S5Map
<1> QED
    BY <1>2, <1>3

\* What stands under u in a table of the SGW.
SgwKey(u, d) == IF d.at \in 12 .. 25 THEN u ELSE 0

\* An event of the SGW in terms of these tables.
LEMMA SgwTables ==
    ASSUME TypeOK, NEW call \in [UE -> Call], Calls(call), NEW u \in UE, NEW c, c = call[u],
           NEW d \in Call, <<c.at, d.at>> \in SgwSteps,
           d.ran = c.ran, d.out = c.out, d.id = c.id, d.sgw = c.sgw, d.mme \in {c.mme, 0},
           d.mme # 0 <=> d.at # 26, d.pgw # 0 <=> d.at # 26, c.mme # 0,
           FdsMove(call, u, d), UNCHANGED <<ranVars, mmeVars, s1, s6a, pgwVars, exited>>,
           NEW dl \in Teid, s11' = S11Map(u, c, d, dl),
           s5' = S5Map(u, c, d), sgw_fdmap' = SgwMap(u, c, d),
           sgw_armed' = {f \in Fd : sgw_fdmap'[f] # None},
           s11_id' = [s11_id EXCEPT ![u] = SgwKey(u, d)],
           s1_id' = [s1_id EXCEPT ![u] = SgwKey(u, d)],
           s5_id' = [s5_id EXCEPT ![u] = SgwKey(u, d)], sgw_dl' \in Teid,
           NEW ctx \in SgwContext \cup {None}, sgw_ctx' = [sgw_ctx EXCEPT ![u] = ctx],
           ctx # None <=> d.at \in 12 .. 25, d.at \in 12 .. 25 => ctx.teid = u,
           d.at \in 15 .. 25 => ctx.s5_ul = u, d.at \in 19 .. 25 => ctx.s1_uteid_dl = u
    PROVE  TypeOK' /\ \E next \in [UE -> Call] : Calls(next)'
<1>1. c \in Call /\ CallOK(u, c)
    BY DEF Calls
<1>2. /\ c.out \in Fd /\ c.mme \in Fd /\ c.pgw \in {0} \cup Fd /\ d.pgw \in {0} \cup Fd
      /\ 0 \notin Fd /\ d.mme \in {0} \cup Fd
  <2>1. c.out # 0
      BY <1>1, MmeAt DEF SgwSteps
  <2> QED
      BY <1>1, <2>1, Names DEF Call
<1>3. d.mme = 0 \/ d.mme # d.pgw
  <2>1. c.mme # c.pgw
      BY <1>2 DEF Calls, Apart
  <2> QED
      BY <1>2, <2>1 DEF FdsMove
<1>4. TypeOK'
  <2>1. /\ S5Link(u, d) \in Link /\ S11Link(u, d, dl) \in Link
        /\ PgwEntry(u, d) \in SgwData \cup {None} /\ MmeEntry(d) \in SgwData \cup {None}
      BY CallLinks, SgwEntries
  <2>2. s11' \in [Fd -> Link] /\ s5' \in [Fd -> Link]
      BY <2>1, Names DEF S5Map, S11Map, TypeOK, KbyBaseTypeOK
  <2>3. sgw_fdmap' \in [Fd -> SgwData \cup {None}]
      BY <2>1 DEF SgwMap, TypeOK, KbySgwTypeOK
  <2>4. SgwKey(u, d) \in Teid
      BY Names DEF SgwKey
  <2>5. KbySgwTypeOK'
      BY <2>3, <2>4 DEF TypeOK, KbySgwTypeOK
  <2>6. KbyPgwTypeOK'
      BY DEF TypeOK, KbyPgwTypeOK, pgwVars
  <2> QED
      BY <2>2, <2>5, <2>6, GatewayTypes
<1>5. FdsOK(d)
  <2>1. d.at \in 12 .. 26 /\ (d.at = 26 => c.sgw = 0) /\ (c.at \in 14 .. 24 <=> d.at \in 14 .. 24 \/ c.at = 24)
      BY <1>1 DEF CallOK, FdsOK, SgwSteps
  <2> QED
      BY <1>1 DEF CallOK, FdsOK, SgwSteps
<1>6. SgwOK(u, d)'
  <2>1. d.mme # 0 => sgw_fdmap'[d.mme] = MmeEntry(d)
      BY <1>2, <1>3 DEF SgwMap
  <2>2. d.pgw # 0 => sgw_fdmap'[d.pgw] = PgwEntry(u, d) /\ s5'[d.pgw] = S5Link(u, d)
      BY <1>2 DEF SgwMap, S5Map
  <2>3. \A table \in {s11_id', s1_id', s5_id'} : table[u] = IF d.at \in 12 .. 25 THEN u ELSE 0
      BY DEF SgwKey, TypeOK, KbySgwTypeOK
  <2>4. sgw_ctx'[u] = ctx
      BY DEF TypeOK, KbySgwTypeOK
  <2> QED
      BY <2>1, <2>2, <2>3, <2>4 DEF SgwOK, S5Link
<1>7. PgwOK(u, d)'
    BY <1>1 DEF CallOK, PgwOK, pgwVars, SgwSteps
<1>8. SgwFrame(u, c, d)
  <2>1. \A f \in Fd \ {c.mme, c.pgw, d.pgw} : sgw_fdmap'[f] = sgw_fdmap[f]
      BY <1>2 DEF SgwMap
  <2>2. \A f \in Fd \ {c.pgw, d.pgw} : s5'[f] = s5[f]
      BY DEF S5Map
  <2>3. c.mme # d.mme => sgw_fdmap'[c.mme] = None
      BY <1>2, <1>3 DEF SgwMap, FdsMove, Calls, Apart
  <2>4. c.pgw \notin {d.pgw, 0} => sgw_fdmap'[c.pgw] = None /\ s5'[c.pgw] = NoLink
    <3>1. c.pgw # c.mme
        BY <1>2 DEF Calls, Apart
    <3> QED
        BY <1>2, <3>1 DEF SgwMap, S5Map
  <2>5. \A v \in UE \ {u} : /\ s11_id'[v] = s11_id[v] /\ s1_id'[v] = s1_id[v]
                            /\ s5_id'[v] = s5_id[v] /\ sgw_ctx'[v] = sgw_ctx[v]
      BY DEF TypeOK, KbySgwTypeOK
  <2> QED
      BY <2>1, <2>2, <2>3, <2>4, <2>5 DEF SgwFrame
<1>9. PgwFrame(u, c, d)
    BY DEF PgwFrame, pgwVars
<1>10. Armed'
    BY DEF Calls, Armed, mmeVars, pgwVars
<1>11. <<c.at, d.at>> \in SgwSteps \cup PgwSteps
    OBVIOUS
<1>12. UNCHANGED <<ranVars, mmeVars, s1, s6a, exited>>
    OBVIOUS
<1>13. \E next \in [UE -> Call] : Calls(next)'
    BY <1>5, <1>6, <1>7, <1>8, <1>9, <1>10, <1>11, <1>12, GatewayAdvance
<1> QED
    BY <1>4, <1>13

-----------------------------------------------------------------------------
(* Descriptors of the SGW.                                                 *)

\* The server's end of a connection to the SGW.
LEMMA S11Servers ==
    ASSUME TypeOK, NEW call \in [UE -> Call], Calls(call), NEW f \in Fd
    PROVE  /\ s11[f].srv # 0 => \E u \in UE : f = call[u].out /\ s11[f].srv = call[u].mme
           /\ \A u \in UE : call[u].mme # 0 =>
                 call[u].out \in Fd /\ s11[call[u].out].srv = call[u].mme
<1>1. \A u \in UE : call[u] \in Call /\ CallOK(u, call[u])
    BY DEF Calls
<1>2. ASSUME NEW u \in UE, call[u].out # 0
      PROVE  call[u].out \in Fd /\ s11[call[u].out].srv = call[u].mme
  <2>1. PICK c \in Call : c = call[u] /\ CallOK(u, c) /\ c.out # 0
      BY <1>1, <1>2
  <2>2. c.out \in Fd
      BY <2>1 DEF Call
  <2>3. S11OK(u, c)
      BY <2>1, MmeAt
  <2>4. s11[c.out].srv = c.mme
      BY <2>3 DEF S11OK
  <2> QED
      BY <2>1, <2>2, <2>4
<1>3. ASSUME NEW u \in UE, call[u].mme # 0 PROVE call[u].out # 0
  <2>1. PICK c \in Call : c = call[u] /\ CallOK(u, c) /\ c.mme # 0
      BY <1>1, <1>3
  <2>2. c.at \in 10 .. 25
      BY <2>1, SgwAt
  <2>3. c.out # 0
      BY <2>1, <2>2, MmeAt
  <2> QED
      BY <2>1, <2>3
<1>4. ASSUME s11[f].srv # 0 PROVE \E u \in UE : f = call[u].out /\ s11[f].srv = call[u].mme
  <2>1. s11[f] # NoLink
      BY <1>4 DEF NoLink
  <2>2. PICK u \in UE : f = call[u].out
      BY <2>1 DEF Calls, NoStrays
  <2>3. call[u].out # 0
      BY <2>2, Names
  <2> QED
      BY <1>2, <2>2, <2>3
<1> QED
    BY <1>2, <1>3, <1>4

\* The SGW's open descriptors are those of the calls.
LEMMA SgwUsedIs ==
    ASSUME TypeOK, NEW call \in [UE -> Call], Calls(call)
    PROVE  SgwUsed = ({call[u].mme : u \in UE} \cup {call[u].pgw : u \in UE}) \ {0}
<1>1. \A u \in UE : call[u] \in Call /\ CallOK(u, call[u])
    BY DEF Calls
<1>2. DOMAIN s5 = Fd /\ DOMAIN s11 = Fd
    BY DEF TypeOK, KbyBaseTypeOK
<1>3. Servers(s11) = {call[u].mme : u \in UE} \ {0}
  <2>1. \A f \in Fd : s11[f].srv # 0 => \E u \in UE : s11[f].srv = call[u].mme
      BY S11Servers
  <2>2. \A u \in UE : call[u].mme # 0 => \E f \in Fd : s11[f].srv = call[u].mme
    <3>1. 1 \in Fd
        BY FdFacts DEF Fd
    <3> QED
        BY <3>1, S11Servers
  <2> QED
      BY <1>2, <2>1, <2>2 DEF Servers
<1>4. \A f \in Clients(s5) : \E u \in UE : f = call[u].pgw /\ f # 0
  <2> SUFFICES ASSUME NEW f \in Clients(s5) PROVE \E u \in UE : f = call[u].pgw /\ f # 0
      OBVIOUS
  <2>1. f \in Fd /\ s5[f] # NoLink
      BY <1>2 DEF Clients, NoLink
  <2> QED
      BY <2>1, Names DEF Calls, NoStrays
<1>5. ASSUME NEW u \in UE, call[u].pgw # 0 PROVE call[u].pgw \in Clients(s5)
  <2>1. PICK c \in Call : c = call[u] /\ CallOK(u, c) /\ c.pgw # 0
      BY <1>1, <1>5
  <2>2. c.pgw \in Fd /\ s5[c.pgw] = S5Link(u, c)
      BY <2>1, SgwAt DEF Call
  <2>3. S5State(c) # "closed"
      BY DEF S5State
  <2> QED
      BY <1>2, <2>1, <2>2, <2>3 DEF Clients, S5Link
<1> QED
    BY <1>3, <1>4, <1>5, Zenon DEF SgwUsed

\* A new descriptor of the SGW is nobody's, and nothing stands under it.
LEMMA FreshPgw ==
    ASSUME TypeOK, NEW call \in [UE -> Call], Calls(call), NEW g, g = FreeFd(SgwUsed)
    PROVE  /\ g \in Fd /\ g # 0 /\ \A v \in UE : g \notin {call[v].mme, call[v].pgw}
           /\ sgw_fdmap[g] = None /\ s5[g] = NoLink
<1> DEFINE mme == [u \in UE |-> call[u].mme]
           pgw == [u \in UE |-> call[u].pgw]
<1>1. SgwUsed \subseteq {mme[u] : u \in UE} \cup {pgw[u] : u \in UE}
    BY SgwUsedIs
<1>2. mme = [u \in UE |-> mme[u]] /\ pgw = [u \in UE |-> pgw[u]]
    OBVIOUS
<1> HIDE DEF mme, pgw
<1>3. g \in Fd \ SgwUsed
    BY <1>1, <1>2, FreeFdFacts
<1>4. g # 0
    BY <1>3, Names
<1>5. \A v \in UE : g \notin {call[v].mme, call[v].pgw}
    BY <1>3, <1>4, SgwUsedIs
<1> QED
    BY <1>3, <1>4, <1>5 DEF Calls, NoStrays

\* A descriptor of the MME's is one call's.
LEMMA MmeOne ==
    ASSUME TypeOK, NEW call \in [UE -> Call], Calls(call), NEW u \in UE, call[u].mme # 0
    PROVE  At(s11, call[u].mme) = {call[u].out}
<1>1. PICK f, k : f = call[u].out /\ k = call[u].mme
    OBVIOUS
<1>2. f \in Fd /\ s11[f].srv = k
  <2>1. 1 \in Fd
      BY FdFacts DEF Fd
  <2> QED
      BY <1>1, <2>1, S11Servers
<1>3. ASSUME NEW h \in Fd, s11[h].srv = k PROVE h = f
  <2>1. PICK v \in UE : h = call[v].out /\ s11[h].srv = call[v].mme
      BY <1>1, <1>3, S11Servers
  <2>2. v = u
      BY <1>1, <1>3, <2>1 DEF Calls, Apart
  <2> QED
      BY <1>1, <2>1, <2>2
<1> QED
    BY <1>1, <1>2, <1>3 DEF At, TypeOK, KbyBaseTypeOK


-----------------------------------------------------------------------------
(* What the SGW is waiting for.                                            *)

\* An event on a descriptor to the PGW is that of a call.
LEMMA PgwEventOf ==
    ASSUME TypeOK, NEW call \in [UE -> Call], Calls(call), NEW f \in Fd, NEW act, act # 1,
           SgwEvent(f, act)
    PROVE  \E u \in UE, c \in Call :
              /\ c = call[u] /\ CallOK(u, c) /\ f = c.pgw /\ c.pgw # 0
              /\ c.mme \in Fd /\ c.mme # 0 /\ c.out \in Fd /\ c.out # 0
              /\ sgw_fdmap[f] = PgwEntry(u, c) /\ s5[f] = S5Link(u, c)
              /\ sgw_fdmap[f].initial_fd = c.mme
              /\ sgw_fdmap[f].tid = u /\ sgw_fdmap[f].guti = u
              /\ <<act, c.at>> \in {<<2, 12>>, <<3, 13>>, <<3, 14>>, <<4, 24>>, <<4, 25>>}
              /\ s5[f].down # None => c.at \in {14, 25}
<1>1. sgw_fdmap[f] # None /\ sgw_fdmap[f].act = act
    BY DEF SgwEvent
<1>2. PICK u \in UE : f \in {call[u].mme, call[u].pgw}
    BY <1>1 DEF Calls, NoStrays
<1>3. PICK c \in Call : c = call[u] /\ CallOK(u, c) /\ f \in {c.mme, c.pgw} /\ f # 0
    BY <1>2, Names DEF Calls
<1>4. f = c.pgw
  <2>1. ASSUME f = c.mme PROVE FALSE
    <3>1. sgw_fdmap[f] = MmeEntry(c)
        BY <1>3, <2>1, SgwAt
    <3>2. MmeEntry(c).act = 1
        BY <1>1, <3>1 DEF MmeEntry, FromMme
    <3> QED
        BY <1>1, <3>1, <3>2
  <2> QED
      BY <1>3, <2>1
<1>5. c.at \in 12 .. 25 /\ sgw_fdmap[f] = PgwEntry(u, c) /\ s5[f] = S5Link(u, c)
    BY <1>3, <1>4, SgwAt
<1>6. c.mme # 0 /\ c.mme \in Fd
    BY <1>3, <1>5, SgwAt DEF Call
<1>7. c.out # 0 /\ c.out \in Fd
    BY <1>3, <1>5, MmeAt DEF Call
<1>8. /\ sgw_fdmap[f].initial_fd = c.mme /\ sgw_fdmap[f].tid = u /\ sgw_fdmap[f].guti = u
      /\ <<act, c.at>> \in {<<2, 12>>, <<3, 13>>, <<3, 14>>, <<4, 24>>, <<4, 25>>}
    BY <1>1, <1>5 DEF PgwEntry
<1>9. s5[f].down # None => c.at \in {14, 25}
    BY <1>5 DEF S5Link, S5Down
<1> QED
    BY <1>3, <1>4, <1>5, <1>6, <1>7, <1>8, <1>9

\* A request of the MME is that of a call.
LEMMA SgwRequestOf ==
    ASSUME TypeOK, NEW call \in [UE -> Call], Calls(call), NEW f \in Fd, NEW type,
           SgwRequest(f, type)
    PROVE  \E u \in UE, c \in Call :
              /\ c = call[u] /\ CallOK(u, c) /\ f = c.out /\ c.out # 0
              /\ c.mme \in Fd /\ c.mme # 0 /\ s11[f].srv = c.mme /\ s11[f].up = S11Up(u, c)
              /\ sgw_fdmap[c.mme] = MmeEntry(c) /\ sgw_fdmap[c.mme] # None
              /\ <<type, c.at>> \in {<<1, 11>>, <<2, 18>>, <<3, 23>>}
<1>1. s11[f].up # None /\ s11[f].up.type = type /\ s11[f].srv # 0
      /\ sgw_fdmap[s11[f].srv] # None
    BY DEF SgwRequest, SgwEvent
<1>2. PICK u \in UE : f = call[u].out /\ s11[f].srv = call[u].mme
    BY <1>1, S11Servers
<1>3. PICK c \in Call : c = call[u] /\ CallOK(u, c) /\ f = c.out /\ f # 0 /\ s11[f].srv = c.mme
    BY <1>2, Names DEF Calls
<1>4. s11[f].up = S11Up(u, c)
  <2>1. S11OK(u, c)
      BY <1>3, MmeAt
  <2> QED
      BY <1>3, <2>1 DEF S11OK
<1>5. c.at \in {11, 18, 23}
    BY <1>1, <1>4 DEF S11Up
<1>6. <<type, c.at>> \in {<<1, 11>>, <<2, 18>>, <<3, 23>>}
  <2>1. c.at = 11 => s11[f].up = Fields(1, 0, u, u, 0, 0)
      BY <1>4, S11Messages
  <2>2. c.at = 18 => s11[f].up = Fields(2, 0, u, u, 0, 0)
      BY <1>4, S11Messages
  <2>3. c.at = 23 => s11[f].up = Fields(3, 0, 0, u, 0, 0)
      BY <1>4, S11Messages
  <2> QED
      BY <1>1, <1>5, <2>1, <2>2, <2>3 DEF Fields
<1>7. c.mme # 0 /\ c.mme \in Fd
    BY <1>1, <1>3 DEF Call
<1>8. sgw_fdmap[c.mme] = MmeEntry(c)
    BY <1>3, <1>7, SgwAt
<1> QED
    BY <1>1, <1>3, <1>4, <1>6, <1>7, <1>8

-----------------------------------------------------------------------------
(* Entries that go from one descriptor of a call to the other.             *)

\* The call goes on to wait for the PGW.
LEMMA MmeToPgw ==
    ASSUME TypeOK, NEW call \in [UE -> Call], Calls(call), NEW u \in UE,
           NEW c, c = call[u], NEW d \in Call, d.mme = c.mme, c.mme # 0,
           d.pgw \in Fd, c.pgw \in {0, d.pgw}, d.mme # d.pgw, sgw_fdmap[d.pgw] = None,
           <<c.at, d.at>> \in {<<11, 12>>, <<23, 24>>}, SgwWait(c.mme, d.pgw, PgwEntry(u, d))
    PROVE  sgw_fdmap' = SgwMap(u, c, d) /\ sgw_armed' = {f \in Fd : sgw_fdmap'[f] # None}
<1>1. c \in Call /\ CallOK(u, c) /\ sgw_fdmap \in [Fd -> SgwData \cup {None}]
    BY DEF Calls, TypeOK, KbySgwTypeOK
<1>2. c.mme \in Fd /\ 0 \notin Fd
    BY <1>1, Names DEF Call
<1>3. MmeEntry(d) = None
    BY DEF MmeEntry
<1>4. PgwEntry(u, d) # None
    BY SgwEntries
<1>5. sgw_armed = {h \in Fd : sgw_fdmap[h] # None}
    BY DEF Calls, Armed
<1>6. sgw_fdmap' = [[sgw_fdmap EXCEPT ![c.mme] = None] EXCEPT ![d.pgw] = PgwEntry(u, d)]
    BY <1>1, <1>2 DEF SgwWait, Insert, Erase
<1>7. sgw_fdmap' = SgwMap(u, c, d)
  <2>1. \A h \in Fd : sgw_fdmap'[h] = IF h = d.pgw THEN PgwEntry(u, d)
                                     ELSE IF h = c.mme THEN None ELSE sgw_fdmap[h]
      BY <1>1, <1>2, <1>6
  <2>2. sgw_fdmap' = [h \in Fd |-> sgw_fdmap'[h]]
      BY <1>1, <1>6
  <2> QED
      BY <1>2, <1>3, <2>1, <2>2 DEF SgwMap
<1>8. \A h \in Fd : sgw_fdmap'[h] # None <=> h = d.pgw \/ (h # c.mme /\ sgw_fdmap[h] # None)
    BY <1>1, <1>2, <1>4, <1>6
<1> QED
    BY <1>5, <1>7, <1>8 DEF SgwWait

\* The PGW has answered the create: the MME's descriptor is waited on again.
LEMMA PgwToMme ==
    ASSUME TypeOK, NEW call \in [UE -> Call], Calls(call), NEW u \in UE,
           NEW c, c = call[u], NEW d \in Call, d.mme = c.mme, d.pgw = c.pgw, c.mme # 0, c.pgw # 0,
           c.at = 14, d.at = 15, SgwWait(c.pgw, c.mme, MmeEntry(d))
    PROVE  sgw_fdmap' = SgwMap(u, c, d) /\ sgw_armed' = {f \in Fd : sgw_fdmap'[f] # None}
<1>1. c \in Call /\ CallOK(u, c) /\ sgw_fdmap \in [Fd -> SgwData \cup {None}]
    BY DEF Calls, TypeOK, KbySgwTypeOK
<1>2. c.mme \in Fd /\ c.pgw \in Fd /\ 0 \notin Fd
    BY <1>1, Names DEF Call
<1>3. c.mme # c.pgw
    BY DEF Calls, Apart
<1>4. sgw_fdmap[c.mme] = None
  <2>1. MmeEntry(c) = None
      BY DEF MmeEntry
  <2> QED
      BY <1>1, <2>1, SgwAt
<1>5. MmeEntry(d) # None
    BY SgwEntries
<1>6. PgwEntry(u, d) = None
    BY DEF PgwEntry
<1>7. sgw_armed = {h \in Fd : sgw_fdmap[h] # None}
    BY DEF Calls, Armed
<1>8. sgw_fdmap' = [[sgw_fdmap EXCEPT ![c.pgw] = None] EXCEPT ![c.mme] = MmeEntry(d)]
    BY <1>1, <1>2, <1>3, <1>4 DEF SgwWait, Insert, Erase
<1>9. sgw_fdmap' = SgwMap(u, c, d)
  <2>1. \A h \in Fd : sgw_fdmap'[h] = IF h = c.mme THEN MmeEntry(d)
                                     ELSE IF h = c.pgw THEN None ELSE sgw_fdmap[h]
      BY <1>1, <1>2, <1>8
  <2>2. sgw_fdmap' = [h \in Fd |-> sgw_fdmap'[h]]
      BY <1>1, <1>8
  <2> QED
      BY <1>2, <1>3, <1>6, <2>1, <2>2 DEF SgwMap
<1>10. \A h \in Fd : sgw_fdmap'[h] # None <=> h = c.mme \/ (h # c.pgw /\ sgw_fdmap[h] # None)
    BY <1>1, <1>2, <1>3, <1>5, <1>8
<1> QED
    BY <1>2, <1>7, <1>9, <1>10 DEF SgwWait

-----------------------------------------------------------------------------
(* The connection from the MME.                                            *)

\* Written out, with the downlink TEID of an answer.
LEMMA S11Is ==
    ASSUME NEW u \in UE, NEW c \in Call, CallOK(u, c), c.out # 0
    PROVE  \E dl \in Teid : s11[c.out] = S11Link(u, c, dl)
<1>1. S11OK(u, c)
    BY MmeAt
<1> QED
    BY <1>1 DEF S11OK, S11Link

\* A request is read.
LEMMA S11Taken ==
    ASSUME TypeOK, NEW call \in [UE -> Call], Calls(call), NEW u \in UE,
           NEW c, c = call[u], NEW d \in Call, d.out = c.out, d.mme = c.mme, c.mme # 0,
           <<c.at, d.at>> \in {<<11, 12>>, <<23, 24>>}
    PROVE  [s11 EXCEPT ![c.out].up = None] = S11Map(u, c, d, 0)
<1>1. c \in Call /\ CallOK(u, c) /\ s11 \in [Fd -> Link]
    BY DEF Calls, TypeOK, KbyBaseTypeOK
<1>2. c.out # 0 /\ c.out \in Fd
    BY <1>1, MmeAt DEF Call
<1>3. PICK dl \in Teid : s11[c.out] = S11Link(u, c, dl)
    BY <1>1, <1>2, S11Is
<1>4. S11State(d) = S11State(c)
    BY DEF S11State
<1>5. S11Up(u, d) = None
    BY DEF S11Up
<1>6. S11Down(u, c, dl) = None
    BY DEF S11Down
<1>7. S11Down(u, d, 0) = None
    BY DEF S11Down
<1>8. [s11[c.out] EXCEPT !.up = None] = S11Link(u, d, 0)
    BY <1>3, <1>4, <1>5, <1>6, <1>7 DEF S11Link
<1> QED
    BY <1>1, <1>2, <1>8 DEF S11Map

\* The answer to a create is written.
LEMMA S11Replied ==
    ASSUME TypeOK, NEW call \in [UE -> Call], Calls(call), NEW u \in UE,
           NEW c, c = call[u], NEW d \in Call, d.out = c.out, d.mme = c.mme, c.mme # 0,
           c.at = 14, d.at = 15, NEW dl \in Teid
    PROVE  Reply(s11, c.mme, S11Down(u, d, dl)) = S11Map(u, c, d, dl)
<1>1. c \in Call /\ CallOK(u, c) /\ s11 \in [Fd -> Link]
    BY DEF Calls, TypeOK, KbyBaseTypeOK
<1>2. c.out # 0 /\ c.out \in Fd
    BY <1>1, MmeAt DEF Call
<1>3. PICK e \in Teid : s11[c.out] = S11Link(u, c, e)
    BY <1>1, <1>2, S11Is
<1>4. S11State(d) = S11State(c)
    BY DEF S11State
<1>5. S11Up(u, d) = None
    BY DEF S11Up
<1>6. S11Up(u, c) = None
    BY DEF S11Up
<1>7. PICK m : m = S11Down(u, d, dl)
    OBVIOUS
<1>8. Reply(s11, c.mme, m) = [s11 EXCEPT ![c.out].down = m]
  <2>1. At(s11, c.mme) = {c.out}
      BY MmeOne
  <2> QED
      BY <1>1, <1>2, <1>7, <2>1 DEF Reply
<1>9. [s11[c.out] EXCEPT !.down = m] = S11Link(u, d, dl)
    BY <1>3, <1>4, <1>5, <1>6, <1>7 DEF S11Link
<1> QED
    BY <1>1, <1>2, <1>7, <1>8, <1>9 DEF S11Map

\* So is that to a modify.
LEMMA S11Modified ==
    ASSUME TypeOK, NEW call \in [UE -> Call], Calls(call), NEW u \in UE,
           NEW c, c = call[u], NEW d \in Call, d.out = c.out, d.mme = c.mme,
           c.at = 18, d.at = 19
    PROVE  Answer(s11, c.out, S11Down(u, d, 0)) = S11Map(u, c, d, 0)
<1>1. c \in Call /\ CallOK(u, c) /\ s11 \in [Fd -> Link]
    BY DEF Calls, TypeOK, KbyBaseTypeOK
<1>2. c.out # 0 /\ c.out \in Fd
    BY <1>1, MmeAt DEF Call
<1>3. PICK e \in Teid : s11[c.out] = S11Link(u, c, e)
    BY <1>1, <1>2, S11Is
<1>4. S11State(d) = S11State(c)
    BY DEF S11State
<1>5. S11Up(u, d) = None
    BY DEF S11Up
<1>6. PICK m : m = S11Down(u, d, 0)
    OBVIOUS
<1>7. Answer(s11, c.out, m) = [s11 EXCEPT ![c.out] =
          [state |-> s11[c.out].state, srv |-> s11[c.out].srv, up |-> None, down |-> m]]
  <2>1. PICK f \in Fd : f = c.out
      BY <1>2
  <2>2. Answer(s11, f, m) = [s11 EXCEPT ![f] =
            [state |-> s11[f].state, srv |-> s11[f].srv, up |-> None, down |-> m]]
      BY <1>1, AnswerForm
  <2> QED
      BY <1>6, <2>1, <2>2
<1>8. [state |-> s11[c.out].state, srv |-> s11[c.out].srv, up |-> None, down |-> m]
      = S11Link(u, d, 0)
    BY <1>3, <1>4, <1>5, <1>6 DEF S11Link
<1> QED
    BY <1>1, <1>2, <1>6, <1>7, <1>8 DEF S11Map

-----------------------------------------------------------------------------
(* The events of the SGW.                                                  *)

\* The create: the session is entered, and a connection to the PGW is opened.
LEMMA SgwCreateMoves ==
    ASSUME TypeOK, NEW call \in [UE -> Call], Calls(call), NEW f \in Fd, SgwCreate(f),
           UNCHANGED pgwVars
    PROVE  TypeOK' /\ \E next \in [UE -> Call] : Calls(next)'
<1>1. PICK u \in UE, c \in Call :
          /\ c = call[u] /\ CallOK(u, c) /\ f = c.out /\ c.out # 0
          /\ c.mme \in Fd /\ c.mme # 0 /\ s11[f].srv = c.mme /\ s11[f].up = S11Up(u, c)
          /\ sgw_fdmap[c.mme] = MmeEntry(c) /\ sgw_fdmap[c.mme] # None
          /\ <<1, c.at>> \in {<<1, 11>>, <<2, 18>>, <<3, 23>>}
    BY SgwRequestOf DEF SgwCreate
<1>2. c.at = 11
    BY <1>1
<1>3. PICK g : g = FreeFd(SgwUsed)
    OBVIOUS
<1>4. /\ g \in Fd /\ g # 0 /\ \A v \in UE : g \notin {call[v].mme, call[v].pgw}
      /\ sgw_fdmap[g] = None /\ s5[g] = NoLink
    BY <1>3, FreshPgw
<1>5. PICK d : d = [at |-> 12, ran |-> c.ran, out |-> c.out, mme |-> c.mme, pgw |-> g,
                    sgw |-> c.sgw, id |-> c.id]
    OBVIOUS
<1>6. /\ d \in Call /\ d.at = 12 /\ d.ran = c.ran /\ d.out = c.out /\ d.id = c.id
      /\ d.mme = c.mme /\ d.pgw = g /\ d.sgw = c.sgw
    BY <1>4, <1>5 DEF Call
<1>7. c.pgw = 0 /\ c.sgw = 0 /\ sgw_ctx[u] = None
  <2>1. c.pgw = 0 /\ sgw_ctx[u] = None
      BY <1>1, <1>2, SgwAt
  <2>2. c.sgw = 0
      BY <1>1, <1>2 DEF CallOK, FdsOK
  <2> QED
      BY <2>1, <2>2
<1>8. s11[f].up.teid = u /\ s11[f].up.imsi = u
    BY <1>1, <1>2, S11Messages DEF Fields
<1>9. PICK e : e = [act |-> 2, initial_fd |-> c.mme, tid |-> u, guti |-> u,
                    buf |-> [Msg(1) EXCEPT !.teid = u, !.imsi = u]]
    OBVIOUS
<1>10. e = PgwEntry(u, d)
    BY <1>6, <1>9 DEF PgwEntry
<1>11. PICK ctx : ctx = [NewSgwContext EXCEPT !.teid = u]
    OBVIOUS
<1>12. /\ s11_id' = [s11_id EXCEPT ![u] = u]
       /\ s1_id' = [s1_id EXCEPT ![u] = u]
       /\ s5_id' = [s5_id EXCEPT ![u] = u]
       /\ sgw_dl' = u
       /\ sgw_ctx' = [sgw_ctx EXCEPT ![u] = ctx]
       /\ s5' = Connect(s5, g)
       /\ SgwWait(c.mme, g, e)
       /\ s11' = [s11 EXCEPT ![c.out].up = None]
       /\ UNCHANGED exited
    BY <1>1, <1>3, <1>7, <1>8, <1>9, <1>11 DEF SgwCreate
<1>13. UNCHANGED <<ranVars, mmeVars, s1, s6a, pgwVars, exited>>
    BY <1>12 DEF SgwCreate, SgwRequest, SgwEvent
<1>14. <<c.at, d.at>> \in SgwSteps /\ FdsMove(call, u, d)
    BY <1>1, <1>2, <1>4, <1>6 DEF SgwSteps, FdsMove
<1>15. s11' = S11Map(u, c, d, 0)
  <2>1. <<c.at, d.at>> \in {<<11, 12>>, <<23, 24>>}
      BY <1>2, <1>6
  <2>2. c = call[u] /\ c.mme # 0
      BY <1>1
  <2> QED
      BY <1>6, <1>12, <2>1, <2>2, S11Taken
<1>16. s5' = S5Map(u, c, d)
  <2>1. S5Link(u, d) = [state |-> "syn", srv |-> 0, up |-> None, down |-> None]
    <3>1. S5State(d) = "syn"
        BY <1>6, <1>7 DEF S5State
    <3>2. S5Up(u, d) = None
        BY <1>6 DEF S5Up
    <3>3. S5Down(u, d) = None
        BY <1>6 DEF S5Down
    <3> QED
        BY <1>6, <1>7, <3>1, <3>2, <3>3 DEF S5Link
  <2>2. Connect(s5, g) = [s5 EXCEPT ![g] = [state |-> "syn", srv |-> 0, up |-> None, down |-> None]]
      BY <1>4, ConnectForm DEF TypeOK, KbyBaseTypeOK
  <2> QED
      BY <1>4, <1>6, <1>7, <1>12, <2>1, <2>2, S5Same
<1>17. sgw_fdmap' = SgwMap(u, c, d) /\ sgw_armed' = {h \in Fd : sgw_fdmap'[h] # None}
  <2>1. d.pgw \in Fd /\ c.pgw \in {0, d.pgw} /\ d.mme # d.pgw /\ sgw_fdmap[d.pgw] = None
      BY <1>1, <1>4, <1>6, <1>7
  <2>2. SgwWait(c.mme, d.pgw, PgwEntry(u, d))
      BY <1>6, <1>10, <1>12
  <2> QED
      BY <1>1, <1>2, <1>6, <2>1, <2>2, MmeToPgw
<1>18. SgwKey(u, d) = u
    BY <1>6 DEF SgwKey
<1>19. ctx \in SgwContext /\ ctx.teid = u /\ ctx # None
    BY <1>11, Names, KbySgwNoneAssumption DEF SgwContext, NewSgwContext
<1>20. 0 \in Teid /\ sgw_dl' \in Teid
    BY <1>12, Names
<1>21. /\ c.mme # 0 /\ d.mme \in {c.mme, 0}
       /\ d.mme # 0 <=> d.at # 26
       /\ d.pgw # 0 <=> d.at # 26
    BY <1>1, <1>4, <1>6
<1>22. /\ s11_id' = [s11_id EXCEPT ![u] = SgwKey(u, d)]
       /\ s1_id' = [s1_id EXCEPT ![u] = SgwKey(u, d)]
       /\ s5_id' = [s5_id EXCEPT ![u] = SgwKey(u, d)]
       /\ sgw_ctx' = [sgw_ctx EXCEPT ![u] = ctx]
    BY <1>12, <1>18
<1>23. /\ ctx \in SgwContext \cup {None}
       /\ ctx # None <=> d.at \in 12 .. 25
       /\ d.at \in 12 .. 25 => ctx.teid = u
       /\ d.at \in 15 .. 25 => ctx.s5_ul = u
       /\ d.at \in 19 .. 25 => ctx.s1_uteid_dl = u
    BY <1>6, <1>19
<1> QED
    BY <1>1, <1>6, <1>13, <1>14, <1>15, <1>16, <1>17, <1>20, <1>21, <1>22, <1>23, SgwTables

\* The connection to the PGW is open: the request is sent.
LEMMA SgwPgwConnectedMoves ==
    ASSUME TypeOK, NEW call \in [UE -> Call], Calls(call), NEW f \in Fd, SgwPgwConnected(f),
           UNCHANGED pgwVars
    PROVE  TypeOK' /\ \E next \in [UE -> Call] : Calls(next)'
<1>1. PICK u \in UE, c \in Call :
          /\ c = call[u] /\ CallOK(u, c) /\ f = c.pgw /\ c.pgw # 0
          /\ c.mme \in Fd /\ c.mme # 0 /\ c.out \in Fd /\ c.out # 0
          /\ sgw_fdmap[f] = PgwEntry(u, c) /\ s5[f] = S5Link(u, c)
          /\ sgw_fdmap[f].initial_fd = c.mme
          /\ sgw_fdmap[f].tid = u /\ sgw_fdmap[f].guti = u
          /\ <<2, c.at>> \in {<<2, 12>>, <<3, 13>>, <<3, 14>>, <<4, 24>>, <<4, 25>>}
          /\ s5[f].down # None => c.at \in {14, 25}
    BY PgwEventOf DEF SgwPgwConnected
<1>2. c.at = 12
    BY <1>1
<1>3. PICK d : d = [c EXCEPT !.at = 13]
    OBVIOUS
<1>4. /\ d \in Call /\ d.at = 13 /\ d.ran = c.ran /\ d.out = c.out /\ d.id = c.id
      /\ d.mme = c.mme /\ d.pgw = c.pgw /\ d.sgw = c.sgw
    BY <1>3 DEF Call
<1>5. PICK m : m = [Msg(1) EXCEPT !.teid = u, !.imsi = u]
    OBVIOUS
<1>6. sgw_fdmap[f] = [act |-> 2, initial_fd |-> c.mme, tid |-> u, guti |-> u, buf |-> m]
    BY <1>1, <1>2, <1>5 DEF PgwEntry
<1>7. UNCHANGED <<ranVars, mmeVars, s1, s6a, pgwVars, exited>>
      /\ UNCHANGED <<s11, sgw_armed, s11_id, s1_id, s5_id, sgw_ctx, sgw_dl>>
    BY DEF SgwPgwConnected, SgwEvent, sgwTables
<1>8. <<c.at, d.at>> \in SgwSteps /\ FdsMove(call, u, d)
    BY <1>1, <1>2, <1>4 DEF SgwSteps, FdsMove
<1>9. s11' = S11Map(u, c, d, 0)
  <2>1. s11 = S11Map(u, c, d, 0)
      BY <1>1, <1>2, <1>4, S11Stays
  <2> QED
      BY <1>7, <2>1
<1>10. s5' = S5Map(u, c, d)
  <2>1. S5State(d) = S5State(c)
      BY <1>2, <1>4 DEF S5State
  <2>2. S5Up(u, d) = m
      BY <1>4, <1>5 DEF S5Up
  <2>3. S5Down(u, c) = None
      BY <1>2 DEF S5Down
  <2>4. S5Down(u, d) = None
      BY <1>4 DEF S5Down
  <2>5. [s5[f] EXCEPT !.up = m] = S5Link(u, d)
      BY <1>1, <1>4, <2>1, <2>2, <2>3, <2>4 DEF S5Link
  <2>6. s5' = [s5 EXCEPT ![f].up = m]
      BY <1>6 DEF SgwPgwConnected, SendUp
  <2>7. s5' = [s5 EXCEPT ![f] = S5Link(u, d)]
      BY <2>5, <2>6
  <2>8. d.pgw \in Fd /\ c.pgw = d.pgw /\ d.pgw = f
      BY <1>1, <1>4
  <2> QED
      BY <1>1, <1>4, <2>7, <2>8, S5Same
<1>11. PgwEntry(u, d) = [act |-> 3, initial_fd |-> c.mme, tid |-> u, guti |-> u, buf |-> None]
    BY <1>4 DEF PgwEntry
<1>12. sgw_fdmap' = [sgw_fdmap EXCEPT ![f] = PgwEntry(u, d)]
  <2>1. [sgw_fdmap[f] EXCEPT !.act = 3]
        = [act |-> 3, initial_fd |-> c.mme, tid |-> u, guti |-> u, buf |-> m]
      BY <1>6
  <2>2. [[act |-> 3, initial_fd |-> c.mme, tid |-> u, guti |-> u, buf |-> m] EXCEPT !.buf = None]
        = [act |-> 3, initial_fd |-> c.mme, tid |-> u, guti |-> u, buf |-> None]
      OBVIOUS
  <2>3. sgw_fdmap' = [sgw_fdmap EXCEPT ![f].act = 3, ![f].buf = None]
      BY DEF SgwPgwConnected
  <2>4. sgw_fdmap \in [Fd -> SgwData \cup {None}]
      BY DEF TypeOK, KbySgwTypeOK
  <2> QED
      BY <1>11, <2>1, <2>2, <2>3, <2>4
<1>13. sgw_fdmap' = SgwMap(u, c, d)
  <2>1. MmeEntry(d) = None
      BY <1>4 DEF MmeEntry
  <2>2. MmeEntry(c) = None
      BY <1>2 DEF MmeEntry
  <2>3. sgw_fdmap[c.mme] = None
      BY <1>1, <2>2, SgwAt
  <2>4. SgwMap(u, c, d) = [h \in Fd |-> IF h = f THEN PgwEntry(u, d) ELSE sgw_fdmap[h]]
    <3>1. /\ f = d.pgw /\ c.mme = d.mme /\ c.pgw = d.pgw
          /\ MmeEntry(d) = sgw_fdmap[c.mme]
        BY <1>1, <1>4, <2>1, <2>3
    <3> QED
        BY <3>1 DEF SgwMap
  <2>5. sgw_fdmap \in [Fd -> SgwData \cup {None}]
      BY DEF TypeOK, KbySgwTypeOK
  <2>6. [sgw_fdmap EXCEPT ![f] = PgwEntry(u, d)]
        = [h \in Fd |-> IF h = f THEN PgwEntry(u, d) ELSE sgw_fdmap[h]]
      BY <2>5
  <2> QED
      BY <1>12, <2>4, <2>6, Zenon
<1>14. sgw_armed' = {h \in Fd : sgw_fdmap'[h] # None}
  <2>1. PgwEntry(u, d) # None
      BY <1>4, SgwEntries
  <2>2. sgw_fdmap[f] # None
      BY DEF SgwPgwConnected, SgwEvent
  <2> QED
      BY <1>7, <1>12, <2>1, <2>2 DEF Calls, Armed, TypeOK, KbySgwTypeOK
<1>15. SgwKey(u, d) = u
    BY <1>4 DEF SgwKey
<1>16. /\ s11_id' = [s11_id EXCEPT ![u] = SgwKey(u, d)]
       /\ s1_id' = [s1_id EXCEPT ![u] = SgwKey(u, d)]
       /\ s5_id' = [s5_id EXCEPT ![u] = SgwKey(u, d)]
  <2>1. s11_id[u] = u /\ s1_id[u] = u /\ s5_id[u] = u
      BY <1>1, <1>2, SgwAt
  <2> QED
      BY <1>7, <1>15, <2>1 DEF TypeOK, KbySgwTypeOK
<1>17. PICK ctx \in SgwContext \cup {None} : ctx = sgw_ctx[u]
    BY DEF TypeOK, KbySgwTypeOK
<1>18. ctx.teid = u /\ ctx # None
    BY <1>1, <1>2, <1>17, SgwAt
<1>19. sgw_ctx' = [sgw_ctx EXCEPT ![u] = ctx]
    BY <1>7, <1>17 DEF TypeOK, KbySgwTypeOK
<1>20. 0 \in Teid /\ sgw_dl' \in Teid
    BY <1>7, Names DEF TypeOK, KbySgwTypeOK
<1>21. /\ c.mme # 0 /\ d.mme \in {c.mme, 0}
       /\ d.mme # 0 <=> d.at # 26
       /\ d.pgw # 0 <=> d.at # 26
    BY <1>1, <1>4
<1>22. /\ ctx \in SgwContext \cup {None}
       /\ ctx # None <=> d.at \in 12 .. 25
       /\ d.at \in 12 .. 25 => ctx.teid = u
       /\ d.at \in 15 .. 25 => ctx.s5_ul = u
       /\ d.at \in 19 .. 25 => ctx.s1_uteid_dl = u
    BY <1>4, <1>18
<1>23. UNCHANGED <<ranVars, mmeVars, s1, s6a, pgwVars, exited>> /\ c = call[u]
    BY <1>1, <1>7
<1> QED
    BY <1>4, <1>8, <1>9, <1>10, <1>13, <1>14, <1>16, <1>19, <1>20, <1>21, <1>22, <1>23,
       SgwTables

\* The keys of a session that goes on.
LEMMA SgwKeysStay ==
    ASSUME TypeOK, NEW u \in UE, NEW c \in Call, CallOK(u, c), NEW d,
           c.at \in 12 .. 25, d.at \in 12 .. 25
    PROVE  /\ s11_id = [s11_id EXCEPT ![u] = SgwKey(u, d)]
           /\ s1_id = [s1_id EXCEPT ![u] = SgwKey(u, d)]
           /\ s5_id = [s5_id EXCEPT ![u] = SgwKey(u, d)]
<1>1. s11_id[u] = u /\ s1_id[u] = u /\ s5_id[u] = u
    BY SgwAt
<1>2. SgwKey(u, d) = u
    BY DEF SgwKey
<1> QED
    BY <1>1, <1>2 DEF TypeOK, KbySgwTypeOK

\* The PGW has answered the create: the context is complete, and the MME gets the
\* answer.
LEMMA SgwCreateAnswerMoves ==
    ASSUME TypeOK, NEW call \in [UE -> Call], Calls(call), NEW f \in Fd, SgwCreateAnswer(f),
           UNCHANGED pgwVars
    PROVE  TypeOK' /\ \E next \in [UE -> Call] : Calls(next)'
<1>1. PICK u \in UE, c \in Call :
          /\ c = call[u] /\ CallOK(u, c) /\ f = c.pgw /\ c.pgw # 0
          /\ c.mme \in Fd /\ c.mme # 0 /\ c.out \in Fd /\ c.out # 0
          /\ sgw_fdmap[f] = PgwEntry(u, c) /\ s5[f] = S5Link(u, c)
          /\ sgw_fdmap[f].initial_fd = c.mme
          /\ sgw_fdmap[f].tid = u /\ sgw_fdmap[f].guti = u
          /\ <<3, c.at>> \in {<<2, 12>>, <<3, 13>>, <<3, 14>>, <<4, 24>>, <<4, 25>>}
          /\ s5[f].down # None => c.at \in {14, 25}
    BY PgwEventOf DEF SgwCreateAnswer
<1>2. c.at = 14
    BY <1>1 DEF SgwCreateAnswer
<1>3. PICK d : d = [c EXCEPT !.at = 15]
    OBVIOUS
<1>4. /\ d \in Call /\ d.at = 15 /\ d.ran = c.ran /\ d.out = c.out /\ d.id = c.id
      /\ d.mme = c.mme /\ d.pgw = c.pgw /\ d.sgw = c.sgw
    BY <1>3 DEF Call
<1>5. s5[f].down.teid = u /\ s5[f].down.ip = u
  <2>1. S5Down(u, c) = Fields(1, 0, 0, u, 0, u)
      BY <1>2, S5Messages
  <2> QED
      BY <1>1, <2>1 DEF S5Link, Fields
<1>6. PICK dl \in Teid : dl = sgw_dl
    BY DEF TypeOK, KbySgwTypeOK
<1>7. PICK ctx : ctx = [sgw_ctx[u] EXCEPT !.s5_ul = u]
    OBVIOUS
<1>8. /\ sgw_ctx' = [sgw_ctx EXCEPT ![u] = ctx]
      /\ s5' = [s5 EXCEPT ![f].down = None]
      /\ s11' = Reply(s11, c.mme, [Msg(1) EXCEPT !.teid = u, !.s5 = dl, !.ip = u])
      /\ SgwWait(f, c.mme, FromMme(f))
      /\ UNCHANGED <<sgwTables, sgw_dl, exited>>
  <2>1. [sgw_ctx EXCEPT ![u].s5_ul = u] = [sgw_ctx EXCEPT ![u] = ctx]
      BY <1>7
  <2> QED
      BY <1>1, <1>5, <1>6, <2>1 DEF SgwCreateAnswer
<1>9. UNCHANGED <<ranVars, mmeVars, s1, s6a, pgwVars, exited>> /\ c = call[u]
    BY <1>1, <1>8 DEF SgwCreateAnswer, SgwEvent
<1>10. <<c.at, d.at>> \in SgwSteps /\ FdsMove(call, u, d)
    BY <1>1, <1>2, <1>4 DEF SgwSteps, FdsMove
<1>11. s11' = S11Map(u, c, d, dl)
  <2>1. S11Down(u, d, dl) = [Msg(1) EXCEPT !.teid = u, !.s5 = dl, !.ip = u]
      BY <1>4 DEF S11Down
  <2> QED
      BY <1>1, <1>2, <1>4, <1>8, <2>1, S11Replied
<1>12. s5' = S5Map(u, c, d)
  <2>1. S5State(d) = S5State(c)
      BY <1>2, <1>4 DEF S5State
  <2>2. S5Up(u, d) = None
      BY <1>4 DEF S5Up
  <2>3. S5Up(u, c) = None
      BY <1>2 DEF S5Up
  <2>4. S5Down(u, d) = None
      BY <1>4 DEF S5Down
  <2>5. [s5[f] EXCEPT !.down = None] = S5Link(u, d)
      BY <1>1, <1>4, <2>1, <2>2, <2>3, <2>4 DEF S5Link
  <2> QED
      BY <1>1, <1>4, <1>8, <2>5 DEF S5Map, TypeOK, KbyBaseTypeOK
<1>13. sgw_fdmap' = SgwMap(u, c, d) /\ sgw_armed' = {h \in Fd : sgw_fdmap'[h] # None}
  <2>1. MmeEntry(d) = FromMme(f)
      BY <1>1, <1>4 DEF MmeEntry
  <2>2. SgwWait(c.pgw, c.mme, MmeEntry(d))
      BY <1>1, <1>8, <2>1
  <2> QED
      BY <1>1, <1>2, <1>4, <2>2, PgwToMme
<1>14. /\ s11_id' = [s11_id EXCEPT ![u] = SgwKey(u, d)]
       /\ s1_id' = [s1_id EXCEPT ![u] = SgwKey(u, d)]
       /\ s5_id' = [s5_id EXCEPT ![u] = SgwKey(u, d)]
  <2>1. UNCHANGED <<s11_id, s1_id, s5_id>>
      BY <1>8 DEF sgwTables
  <2> QED
      BY <1>1, <1>2, <1>4, <2>1, SgwKeysStay
<1>15. /\ ctx \in SgwContext \cup {None}
       /\ ctx # None <=> d.at \in 12 .. 25
       /\ d.at \in 12 .. 25 => ctx.teid = u
       /\ d.at \in 15 .. 25 => ctx.s5_ul = u
       /\ d.at \in 19 .. 25 => ctx.s1_uteid_dl = u
  <2>1. sgw_ctx[u] # None /\ sgw_ctx[u].teid = u
      BY <1>1, <1>2, SgwAt
  <2>2. sgw_ctx[u] \in SgwContext
      BY <2>1 DEF TypeOK, KbySgwTypeOK
  <2>3. ctx \in SgwContext /\ ctx.teid = u /\ ctx.s5_ul = u
      BY <1>7, <2>1, <2>2, Names DEF SgwContext
  <2> QED
      BY <1>4, <2>3, KbySgwNoneAssumption
<1>16. sgw_ctx' = [sgw_ctx EXCEPT ![u] = ctx] /\ sgw_dl' \in Teid
    BY <1>6, <1>8
<1>17. /\ c.mme # 0 /\ d.mme \in {c.mme, 0}
       /\ d.mme # 0 <=> d.at # 26
       /\ d.pgw # 0 <=> d.at # 26
    BY <1>1, <1>4
<1> QED
    BY <1>4, <1>9, <1>10, <1>11, <1>12, <1>13, <1>14, <1>15, <1>16, <1>17, SgwTables

\* The modify: the context gets the downlink TEID, and the MME the answer.
LEMMA SgwModifyMoves ==
    ASSUME TypeOK, NEW call \in [UE -> Call], Calls(call), NEW f \in Fd, SgwModify(f),
           UNCHANGED pgwVars
    PROVE  TypeOK' /\ \E next \in [UE -> Call] : Calls(next)'
<1>1. PICK u \in UE, c \in Call :
          /\ c = call[u] /\ CallOK(u, c) /\ f = c.out /\ c.out # 0
          /\ c.mme \in Fd /\ c.mme # 0 /\ s11[f].srv = c.mme /\ s11[f].up = S11Up(u, c)
          /\ sgw_fdmap[c.mme] = MmeEntry(c) /\ sgw_fdmap[c.mme] # None
          /\ <<2, c.at>> \in {<<1, 11>>, <<2, 18>>, <<3, 23>>}
    BY SgwRequestOf DEF SgwModify
<1>2. c.at = 18
    BY <1>1
<1>3. PICK d : d = [c EXCEPT !.at = 19]
    OBVIOUS
<1>4. /\ d \in Call /\ d.at = 19 /\ d.ran = c.ran /\ d.out = c.out /\ d.id = c.id
      /\ d.mme = c.mme /\ d.pgw = c.pgw /\ d.sgw = c.sgw
    BY <1>3 DEF Call
<1>5. s11[f].up.teid = u /\ s11[f].up.imsi = u
    BY <1>1, <1>2, S11Messages DEF Fields
<1>6. /\ s11_id[u] = u /\ sgw_ctx[u] # None /\ sgw_ctx[u].teid = u /\ sgw_ctx[u].s5_ul = u
      /\ c.pgw # 0 /\ c.pgw \in Fd /\ sgw_fdmap[c.pgw] = PgwEntry(u, c) /\ s5[c.pgw] = S5Link(u, c)
  <2>1. c.pgw # 0 /\ c.pgw \in Fd
      BY <1>1, <1>2, SgwAt DEF Call
  <2> QED
      BY <1>1, <1>2, <2>1, SgwAt
<1>7. u # 0 /\ Imsi(u) = u
    BY <1>6, Names DEF Imsi
<1>8. PICK ctx : ctx = [sgw_ctx[u] EXCEPT !.s1_uteid_dl = u]
    OBVIOUS
<1>9. /\ sgw_ctx' = [sgw_ctx EXCEPT ![u] = ctx]
      /\ s11' = Answer(s11, c.out, [Msg(2) EXCEPT !.teid = u])
      /\ UNCHANGED <<sgw_fdmap, sgw_armed, sgwTables, sgw_dl, s5, exited>>
  <2>1. [sgw_ctx EXCEPT ![u].s1_uteid_dl = u] = [sgw_ctx EXCEPT ![u] = ctx]
      BY <1>8
  <2> QED
      BY <1>1, <1>5, <1>6, <1>7, <2>1 DEF SgwModify
<1>10. UNCHANGED <<ranVars, mmeVars, s1, s6a, pgwVars, exited>> /\ c = call[u]
    BY <1>1, <1>9 DEF SgwModify, SgwRequest, SgwEvent
<1>11. <<c.at, d.at>> \in SgwSteps /\ FdsMove(call, u, d)
    BY <1>1, <1>2, <1>4 DEF SgwSteps, FdsMove
<1>12. s11' = S11Map(u, c, d, 0)
  <2>1. S11Down(u, d, 0) = [Msg(2) EXCEPT !.teid = u]
      BY <1>4 DEF S11Down
  <2> QED
      BY <1>1, <1>2, <1>4, <1>9, <2>1, S11Modified
<1>13. s5' = S5Map(u, c, d)
  <2>1. S5State(d) = S5State(c)
      BY <1>2, <1>4 DEF S5State
  <2>2. S5Up(u, d) = S5Up(u, c)
      BY <1>2, <1>4 DEF S5Up
  <2>3. S5Down(u, d) = S5Down(u, c)
      BY <1>2, <1>4 DEF S5Down
  <2>4. s5[c.pgw] = S5Link(u, d)
      BY <1>4, <1>6, <2>1, <2>2, <2>3 DEF S5Link
  <2> QED
      BY <1>4, <1>6, <1>9, <2>4 DEF S5Map, TypeOK, KbyBaseTypeOK
<1>14. sgw_fdmap' = SgwMap(u, c, d)
  <2>1. MmeEntry(d) = MmeEntry(c)
      BY <1>2, <1>4 DEF MmeEntry
  <2>2. PgwEntry(u, d) = PgwEntry(u, c)
      BY <1>2, <1>4 DEF PgwEntry
  <2> QED
      BY <1>1, <1>4, <1>6, <1>9, <2>1, <2>2 DEF SgwMap, TypeOK, KbySgwTypeOK
<1>15. sgw_armed' = {h \in Fd : sgw_fdmap'[h] # None}
    BY <1>9 DEF Calls, Armed
<1>16. /\ s11_id' = [s11_id EXCEPT ![u] = SgwKey(u, d)]
       /\ s1_id' = [s1_id EXCEPT ![u] = SgwKey(u, d)]
       /\ s5_id' = [s5_id EXCEPT ![u] = SgwKey(u, d)]
  <2>1. UNCHANGED <<s11_id, s1_id, s5_id>>
      BY <1>9 DEF sgwTables
  <2> QED
      BY <1>1, <1>2, <1>4, <2>1, SgwKeysStay
<1>17. /\ ctx \in SgwContext \cup {None}
       /\ ctx # None <=> d.at \in 12 .. 25
       /\ d.at \in 12 .. 25 => ctx.teid = u
       /\ d.at \in 15 .. 25 => ctx.s5_ul = u
       /\ d.at \in 19 .. 25 => ctx.s1_uteid_dl = u
  <2>1. sgw_ctx[u] \in SgwContext
      BY <1>6 DEF TypeOK, KbySgwTypeOK
  <2>2. ctx \in SgwContext /\ ctx.teid = u /\ ctx.s5_ul = u /\ ctx.s1_uteid_dl = u
      BY <1>6, <1>8, <2>1, Names DEF SgwContext
  <2> QED
      BY <1>4, <2>2, KbySgwNoneAssumption
<1>18. sgw_ctx' = [sgw_ctx EXCEPT ![u] = ctx] /\ sgw_dl' \in Teid /\ 0 \in Teid
    BY <1>9, Names DEF TypeOK, KbySgwTypeOK
<1>19. /\ c.mme # 0 /\ d.mme \in {c.mme, 0}
       /\ d.mme # 0 <=> d.at # 26
       /\ d.pgw # 0 <=> d.at # 26
    BY <1>1, <1>4, <1>6
<1> QED
    BY <1>4, <1>10, <1>11, <1>12, <1>13, <1>14, <1>15, <1>16, <1>17, <1>18, <1>19, SgwTables

\* The detach goes on to the PGW.
LEMMA SgwDetachMoves ==
    ASSUME TypeOK, NEW call \in [UE -> Call], Calls(call), NEW f \in Fd, SgwDetach(f),
           UNCHANGED pgwVars
    PROVE  TypeOK' /\ \E next \in [UE -> Call] : Calls(next)'
<1>1. PICK u \in UE, c \in Call :
          /\ c = call[u] /\ CallOK(u, c) /\ f = c.out /\ c.out # 0
          /\ c.mme \in Fd /\ c.mme # 0 /\ s11[f].srv = c.mme /\ s11[f].up = S11Up(u, c)
          /\ sgw_fdmap[c.mme] = MmeEntry(c) /\ sgw_fdmap[c.mme] # None
          /\ <<3, c.at>> \in {<<1, 11>>, <<2, 18>>, <<3, 23>>}
    BY SgwRequestOf DEF SgwDetach
<1>2. c.at = 23
    BY <1>1
<1>3. PICK d : d = [c EXCEPT !.at = 24]
    OBVIOUS
<1>4. /\ d \in Call /\ d.at = 24 /\ d.ran = c.ran /\ d.out = c.out /\ d.id = c.id
      /\ d.mme = c.mme /\ d.pgw = c.pgw /\ d.sgw = c.sgw
    BY <1>3 DEF Call
<1>5. s11[f].up.teid = u
    BY <1>1, <1>2, S11Messages DEF Fields
<1>6. /\ s11_id[u] = u /\ sgw_ctx[u] # None /\ sgw_ctx[u].teid = u /\ sgw_ctx[u].s5_ul = u
      /\ sgw_ctx[u].s1_uteid_dl = u
      /\ c.pgw # 0 /\ c.pgw \in Fd /\ sgw_fdmap[c.pgw] = PgwEntry(u, c) /\ s5[c.pgw] = S5Link(u, c)
  <2>1. c.pgw # 0 /\ c.pgw \in Fd
      BY <1>1, <1>2, SgwAt DEF Call
  <2> QED
      BY <1>1, <1>2, <2>1, SgwAt
<1>7. u # 0 /\ Imsi(u) = u
    BY <1>6, Names DEF Imsi
<1>8. sgw_fdmap[c.mme].initial_fd = c.pgw
  <2>1. MmeEntry(c) = FromMme(c.pgw)
      BY <1>2 DEF MmeEntry
  <2> QED
      BY <1>1, <2>1 DEF FromMme
<1>9. PICK m : m = [Msg(4) EXCEPT !.teid = u]
    OBVIOUS
<1>10. PICK e : e = [act |-> 4, initial_fd |-> c.mme, tid |-> u, guti |-> u, buf |-> None]
    OBVIOUS
<1>11. e = PgwEntry(u, d)
    BY <1>4, <1>10 DEF PgwEntry
<1>12. /\ sgw_dl' = u
       /\ s11' = [s11 EXCEPT ![c.out].up = None]
       /\ s5' = SendUp(s5, c.pgw, m)
       /\ SgwWait(c.mme, c.pgw, e)
       /\ UNCHANGED <<sgwTables, sgw_ctx, exited>>
    BY <1>1, <1>5, <1>6, <1>7, <1>8, <1>9, <1>10 DEF SgwDetach
<1>13. UNCHANGED <<ranVars, mmeVars, s1, s6a, pgwVars, exited>> /\ c = call[u]
    BY <1>1, <1>12 DEF SgwDetach, SgwRequest, SgwEvent
<1>14. <<c.at, d.at>> \in SgwSteps /\ FdsMove(call, u, d)
    BY <1>1, <1>2, <1>4 DEF SgwSteps, FdsMove
<1>15. s11' = S11Map(u, c, d, 0)
  <2>1. <<c.at, d.at>> \in {<<11, 12>>, <<23, 24>>}
      BY <1>2, <1>4
  <2>2. c = call[u] /\ c.mme # 0
      BY <1>1
  <2> QED
      BY <1>4, <1>12, <2>1, <2>2, S11Taken
<1>16. s5' = S5Map(u, c, d)
  <2>1. S5State(d) = S5State(c)
      BY <1>2, <1>4 DEF S5State
  <2>2. S5Up(u, d) = m
      BY <1>4, <1>9 DEF S5Up
  <2>3. S5Down(u, c) = None
      BY <1>2 DEF S5Down
  <2>4. S5Down(u, d) = None
      BY <1>4 DEF S5Down
  <2>5. [s5[c.pgw] EXCEPT !.up = m] = S5Link(u, d)
      BY <1>4, <1>6, <2>1, <2>2, <2>3, <2>4 DEF S5Link
  <2>6. s5' = [s5 EXCEPT ![c.pgw].up = m]
      BY <1>12 DEF SendUp
  <2> QED
      BY <1>4, <1>6, <2>5, <2>6 DEF S5Map, TypeOK, KbyBaseTypeOK
<1>17. sgw_fdmap' = SgwMap(u, c, d) /\ sgw_armed' = {h \in Fd : sgw_fdmap'[h] # None}
  <2>1. c.mme # c.pgw
      BY <1>1 DEF Calls, Apart
  <2>2. sgw_fdmap[c.pgw] = None
    <3>1. PgwEntry(u, c) = None
        BY <1>2 DEF PgwEntry
    <3> QED
        BY <1>6, <3>1
  <2>3. d.pgw \in Fd /\ c.pgw \in {0, d.pgw} /\ d.mme # d.pgw /\ sgw_fdmap[d.pgw] = None
      BY <1>4, <1>6, <2>1, <2>2
  <2>4. SgwWait(c.mme, d.pgw, PgwEntry(u, d))
      BY <1>4, <1>11, <1>12
  <2> QED
      BY <1>1, <1>2, <1>4, <2>3, <2>4, MmeToPgw
<1>18. /\ s11_id' = [s11_id EXCEPT ![u] = SgwKey(u, d)]
       /\ s1_id' = [s1_id EXCEPT ![u] = SgwKey(u, d)]
       /\ s5_id' = [s5_id EXCEPT ![u] = SgwKey(u, d)]
  <2>1. UNCHANGED <<s11_id, s1_id, s5_id>>
      BY <1>12 DEF sgwTables
  <2> QED
      BY <1>1, <1>2, <1>4, <2>1, SgwKeysStay
<1>19. PICK ctx \in SgwContext \cup {None} : ctx = sgw_ctx[u]
    BY DEF TypeOK, KbySgwTypeOK
<1>20. /\ ctx # None <=> d.at \in 12 .. 25
       /\ d.at \in 12 .. 25 => ctx.teid = u
       /\ d.at \in 15 .. 25 => ctx.s5_ul = u
       /\ d.at \in 19 .. 25 => ctx.s1_uteid_dl = u
    BY <1>4, <1>6, <1>19
<1>21. sgw_ctx' = [sgw_ctx EXCEPT ![u] = ctx] /\ sgw_dl' \in Teid /\ 0 \in Teid
    BY <1>12, <1>19, Names DEF TypeOK, KbySgwTypeOK
<1>22. /\ c.mme # 0 /\ d.mme \in {c.mme, 0}
       /\ d.mme # 0 <=> d.at # 26
       /\ d.pgw # 0 <=> d.at # 26
    BY <1>1, <1>4, <1>6
<1> QED
    BY <1>4, <1>13, <1>14, <1>15, <1>16, <1>17, <1>18, <1>20, <1>21, <1>22, SgwTables

\* The PGW has answered the detach: the session and both connections end.
LEMMA SgwDetachAnswerMoves ==
    ASSUME TypeOK, NEW call \in [UE -> Call], Calls(call), NEW f \in Fd, SgwDetachAnswer(f),
           UNCHANGED pgwVars
    PROVE  TypeOK' /\ \E next \in [UE -> Call] : Calls(next)'
<1>1. PICK u \in UE, c \in Call :
          /\ c = call[u] /\ CallOK(u, c) /\ f = c.pgw /\ c.pgw # 0
          /\ c.mme \in Fd /\ c.mme # 0 /\ c.out \in Fd /\ c.out # 0
          /\ sgw_fdmap[f] = PgwEntry(u, c) /\ s5[f] = S5Link(u, c)
          /\ sgw_fdmap[f].initial_fd = c.mme
          /\ sgw_fdmap[f].tid = u /\ sgw_fdmap[f].guti = u
          /\ <<4, c.at>> \in {<<2, 12>>, <<3, 13>>, <<3, 14>>, <<4, 24>>, <<4, 25>>}
          /\ s5[f].down # None => c.at \in {14, 25}
    BY PgwEventOf DEF SgwDetachAnswer
<1>2. c.at = 25
    BY <1>1 DEF SgwDetachAnswer
<1>3. PICK d : d = [at |-> 26, ran |-> c.ran, out |-> c.out, mme |-> 0, pgw |-> 0,
                    sgw |-> c.sgw, id |-> c.id]
    OBVIOUS
<1>4. /\ d \in Call /\ d.at = 26 /\ d.ran = c.ran /\ d.out = c.out /\ d.id = c.id
      /\ d.mme = 0 /\ d.pgw = 0 /\ d.sgw = c.sgw
    BY <1>3 DEF Call
<1>5. u # 0 /\ Imsi(u) = u
  <2>1. s11_id[u] = u
      BY <1>1, <1>2, SgwAt
  <2> QED
      BY <2>1, Names DEF Imsi
<1>6. PICK m : m = [Msg(3) EXCEPT !.teid = u]
    OBVIOUS
<1>7. /\ SgwForget(u)
      /\ s5' = [s5 EXCEPT ![f] = NoLink]
      /\ s11' = Shut(Reply(s11, c.mme, m), c.mme)
      /\ sgw_fdmap' = Erase(Erase(sgw_fdmap, f), c.mme)
      /\ sgw_armed' = sgw_armed \ {f, c.mme}
      /\ UNCHANGED <<sgw_dl, exited>>
    BY <1>1, <1>5, <1>6 DEF SgwDetachAnswer
<1>8. UNCHANGED <<ranVars, mmeVars, s1, s6a, pgwVars, exited>> /\ c = call[u]
    BY <1>1, <1>7 DEF SgwDetachAnswer, SgwEvent
<1>9. <<c.at, d.at>> \in SgwSteps /\ FdsMove(call, u, d)
    BY <1>1, <1>2, <1>4 DEF SgwSteps, FdsMove
<1>10. s11' = S11Map(u, c, d, 0)
  <2>1. s11 \in [Fd -> Link]
      BY DEF TypeOK, KbyBaseTypeOK
  <2>2. PICK dl \in Teid : s11[c.out] = S11Link(u, c, dl)
      BY <1>1, S11Is
  <2>3. At(s11, c.mme) = {c.out}
      BY <1>1, MmeOne
  <2>4. S11Up(u, c) = None
      BY <1>2 DEF S11Up
  <2>5. S11Up(u, d) = None
      BY <1>4 DEF S11Up
  <2>6. S11Down(u, d, 0) = m
      BY <1>4, <1>6 DEF S11Down
  <2>7. S11State(d) = "shut"
      BY <1>4 DEF S11State
  <2>8. S11Link(u, d, 0) = [state |-> "shut", srv |-> 0, up |-> None, down |-> m]
      BY <1>4, <2>5, <2>6, <2>7 DEF S11Link
  <2>9. PICK r : r = Reply(s11, c.mme, m)
      OBVIOUS
  <2>10. r = [s11 EXCEPT ![c.out].down = m]
      BY <1>1, <2>1, <2>3, <2>9 DEF Reply
  <2>11. [s11[c.out] EXCEPT !.down = m]
         = [state |-> S11State(c), srv |-> c.mme, up |-> None, down |-> m]
      BY <2>2, <2>4 DEF S11Link
  <2>12. r[c.out] = [state |-> S11State(c), srv |-> c.mme, up |-> None, down |-> m]
      BY <1>1, <2>1, <2>10, <2>11
  <2>13. DOMAIN r = Fd /\ \A h \in Fd : h # c.out => r[h] = s11[h]
      BY <2>1, <2>10
  <2>14. At(r, c.mme) = {c.out}
      BY <1>1, <2>1, <2>3, <2>12, <2>13 DEF At
  <2>15. [r[c.out] EXCEPT !.state = "shut", !.srv = 0]
         = [state |-> "shut", srv |-> 0, up |-> None, down |-> m]
    <3>1. PICK k : k = r[c.out]
        OBVIOUS
    <3>2. [k EXCEPT !.state = "shut"] = [state |-> "shut", srv |-> c.mme, up |-> None, down |-> m]
        BY <2>12, <3>1
    <3>3. PICK l : l = [state |-> "shut", srv |-> c.mme, up |-> None, down |-> m]
        OBVIOUS
    <3>4. [l EXCEPT !.srv = 0] = [state |-> "shut", srv |-> 0, up |-> None, down |-> m]
        BY <3>3
    <3>5. [k EXCEPT !.state = "shut", !.srv = 0] = [l EXCEPT !.srv = 0]
        BY <3>2, <3>3
    <3> QED
        BY <3>1, <3>4, <3>5
  <2>16. Shut(r, c.mme) = [h \in Fd |-> IF h = c.out THEN S11Link(u, d, 0) ELSE s11[h]]
      BY <2>8, <2>13, <2>14, <2>15 DEF Shut
  <2> QED
      BY <1>4, <1>7, <2>9, <2>16 DEF S11Map
<1>11. s5' = S5Map(u, c, d)
  <2>1. s5' = [s5 EXCEPT ![c.pgw] = NoLink] /\ d.pgw = 0 /\ c.pgw \in Fd
      BY <1>1, <1>4, <1>7
  <2> QED
      BY <2>1, S5Same
<1>12. sgw_fdmap' = SgwMap(u, c, d)
  <2>1. sgw_fdmap \in [Fd -> SgwData \cup {None}]
      BY DEF TypeOK, KbySgwTypeOK
  <2>2. PICK e : e = Erase(sgw_fdmap, f)
      OBVIOUS
  <2>3. e = [sgw_fdmap EXCEPT ![c.pgw] = None]
      BY <1>1, <2>1, <2>2 DEF Erase
  <2>4. sgw_fdmap' = [e EXCEPT ![c.mme] = None]
      BY <1>1, <1>7, <2>1, <2>2, <2>3 DEF Erase
  <2>5. c.pgw \in Fd /\ d.mme = 0 /\ d.pgw = 0
      BY <1>1, <1>4
  <2>6. \A h \in Fd : sgw_fdmap'[h] = IF h \in {c.mme, c.pgw} THEN None ELSE sgw_fdmap[h]
      BY <1>1, <2>1, <2>3, <2>4, <2>5
  <2>7. sgw_fdmap' = [h \in Fd |-> sgw_fdmap'[h]]
      BY <2>1, <2>3, <2>4
  <2>8. 0 \notin Fd
      BY Names
  <2>9. SgwMap(u, c, d) = [h \in Fd |-> IF h \in {c.mme, c.pgw} THEN None ELSE sgw_fdmap[h]]
      BY <2>5, <2>8 DEF SgwMap
  <2> QED
      BY <2>6, <2>7, <2>9
<1>13. sgw_armed' = {h \in Fd : sgw_fdmap'[h] # None}
    BY <1>1, <1>7 DEF Calls, Armed, Erase, TypeOK, KbySgwTypeOK
<1>14. SgwKey(u, d) = 0
    BY <1>4 DEF SgwKey
<1>15. /\ s11_id' = [s11_id EXCEPT ![u] = SgwKey(u, d)]
       /\ s1_id' = [s1_id EXCEPT ![u] = SgwKey(u, d)]
       /\ s5_id' = [s5_id EXCEPT ![u] = SgwKey(u, d)]
    BY <1>7, <1>14 DEF SgwForget
<1>16. PICK ctx : ctx = None
    OBVIOUS
<1>17. /\ ctx \in SgwContext \cup {None}
       /\ ctx # None <=> d.at \in 12 .. 25
       /\ d.at \in 12 .. 25 => ctx.teid = u
       /\ d.at \in 15 .. 25 => ctx.s5_ul = u
       /\ d.at \in 19 .. 25 => ctx.s1_uteid_dl = u
    BY <1>4, <1>16
<1>18. sgw_ctx' = [sgw_ctx EXCEPT ![u] = ctx] /\ sgw_dl' \in Teid /\ 0 \in Teid
    BY <1>5, <1>7, <1>16, Names DEF SgwForget, TypeOK, KbySgwTypeOK
<1>19. /\ c.mme # 0 /\ d.mme \in {c.mme, 0}
       /\ d.mme # 0 <=> d.at # 26
       /\ d.pgw # 0 <=> d.at # 26
    BY <1>1, <1>4
<1> QED
    BY <1>4, <1>8, <1>9, <1>10, <1>11, <1>12, <1>13, <1>15, <1>17, <1>18, <1>19, SgwTables

-----------------------------------------------------------------------------
(* The accept loop of the SGW.                                             *)

\* The calls that wait for it.
SgwWaiting(call) == {v \in UE : call[v].at \in 10 .. 11 /\ call[v].mme = 0}

\* A call after the accepts: those that were waiting have descriptors h.
SgwAccepted(call, h) ==
    [v \in UE |-> IF v \in SgwWaiting(call) THEN [call[v] EXCEPT !.mme = h[v]] ELSE call[v]]

\* Their connections are those that are pending.
LEMMA SgwPending ==
    ASSUME TypeOK, NEW call \in [UE -> Call], Calls(call)
    PROVE  /\ Pending(s11) = {call[v].out : v \in SgwWaiting(call)}
           /\ \A v \in SgwWaiting(call) : call[v].out \in Fd /\ call[v].out # 0
<1>1. DOMAIN s11 = Fd
    BY DEF TypeOK, KbyBaseTypeOK
<1>2. ASSUME NEW f \in Fd, s11[f].state = "syn" PROVE \E v \in SgwWaiting(call) : f = call[v].out
  <2>1. s11[f] # NoLink
      BY <1>2 DEF NoLink
  <2>2. PICK v \in UE : f = call[v].out
      BY <2>1 DEF Calls, NoStrays
  <2>3. PICK c \in Call : c = call[v] /\ CallOK(v, c) /\ f = c.out /\ c.out # 0
      BY <2>2, Names DEF Calls
  <2>4. PICK dl \in Teid : s11[f] = S11Link(v, c, dl)
      BY <2>3, S11Is
  <2>5. S11State(c) = "syn"
      BY <1>2, <2>4 DEF S11Link
  <2>6. c.mme = 0 => c.at \notin 12 .. 25
      BY <2>3, SgwAt
  <2>7. c.at \in 10 .. 11 /\ c.mme = 0
      BY <2>5, <2>6, CallNumbers DEF S11State
  <2> QED
      BY <2>3, <2>7 DEF SgwWaiting
<1>3. ASSUME NEW v \in SgwWaiting(call)
      PROVE  call[v].out \in Fd /\ call[v].out # 0 /\ s11[call[v].out].state = "syn"
  <2>1. PICK c \in Call : c = call[v] /\ CallOK(v, c) /\ v \in UE /\ c.at \in 10 .. 11 /\ c.mme = 0
      BY DEF Calls, SgwWaiting
  <2>2. c.out # 0 /\ c.out \in Fd
      BY <2>1, MmeAt DEF Call
  <2>3. PICK dl \in Teid : s11[c.out] = S11Link(v, c, dl)
      BY <2>1, <2>2, S11Is
  <2>4. S11State(c) = "syn"
      BY <2>1 DEF S11State
  <2> QED
      BY <2>1, <2>2, <2>3, <2>4 DEF S11Link
<1> QED
    BY <1>1, <1>2, <1>3 DEF Pending

\* All calls that wait for the SGW get a descriptor there.
LEMMA SgwAcceptMoves ==
    ASSUME TypeOK, NEW call \in [UE -> Call], Calls(call), SgwAccept, UNCHANGED pgwVars
    PROVE  TypeOK' /\ \E next \in [UE -> Call] : Calls(next)'
<1>1. PICK g \in Accepts(s11, SgwUsed) :
          /\ s11' = AcceptAll(s11, g)
          /\ sgw_armed' = sgw_armed \cup Range(g)
          /\ sgw_fdmap' = InsertAll(sgw_fdmap, Range(g), FromMme(0))
    BY DEF SgwAccept
<1>2. UNCHANGED <<ranVars, mmeVars, s1, s6a, s5, s11_id, s1_id, s5_id, sgw_ctx, sgw_dl, exited, pgwVars>>
    BY DEF SgwAccept, sgwTables
<1>3. PICK W : W = SgwWaiting(call)
    OBVIOUS
<1>4. W \subseteq UE /\ \A v \in UE : v \in W <=> call[v].at \in 10 .. 11 /\ call[v].mme = 0
    BY <1>3 DEF SgwWaiting
<1>5. /\ Pending(s11) = {call[v].out : v \in W}
      /\ \A v \in W : call[v].out \in Fd /\ call[v].out # 0
    BY <1>3, SgwPending
<1>6. PICK h : h = [v \in W |-> g[call[v].out]]
    OBVIOUS
<1>7. /\ h \in [W -> Fd \ SgwUsed]
      /\ \A v, w \in W : h[v] = h[w] => v = w
      /\ Range(g) = {h[v] : v \in W}
  <2>1. /\ g \in [Pending(s11) -> Fd \ SgwUsed]
        /\ \A i, k \in Pending(s11) : g[i] = g[k] => i = k
        /\ Range(g) = {g[i] : i \in Pending(s11)}
      BY DEF Accepts, Injection, Range, IsInjective
  <2>2. \A v, w \in W : call[v].out = call[w].out => v = w
      BY <1>4, <1>5 DEF Calls, Apart
  <2>3. \A v \in W : h[v] = g[call[v].out] /\ call[v].out \in Pending(s11)
      BY <1>5, <1>6
  <2>4. h \in [W -> Fd \ SgwUsed]
      BY <1>6, <2>1, <2>3
  <2>5. \A v, w \in W : h[v] = h[w] => v = w
      BY <2>1, <2>2, <2>3
  <2>6. Range(g) = {h[v] : v \in W}
      BY <1>5, <2>1, <2>3
  <2> QED
      BY <2>4, <2>5, <2>6
<1>8. ASSUME NEW v \in W
      PROVE  h[v] \in Fd /\ h[v] # 0 /\ \A w \in UE : h[v] \notin {call[w].mme, call[w].pgw}
  <2>1. h[v] \in Fd /\ h[v] \notin SgwUsed
      BY <1>7
  <2>2. h[v] # 0
      BY <2>1, Names
  <2> QED
      BY <2>1, <2>2, SgwUsedIs
<1>9. PICK next : next = SgwAccepted(call, h)
    OBVIOUS
<1>10. ASSUME NEW v \in UE PROVE call[v] \in Call /\ CallOK(v, call[v])
    BY DEF Calls
<1>11. ASSUME NEW v \in W
       PROVE  /\ next[v].mme = h[v] /\ next[v].at = call[v].at /\ next[v].ran = call[v].ran
              /\ next[v].out = call[v].out /\ next[v].pgw = call[v].pgw
              /\ next[v].sgw = call[v].sgw /\ next[v].id = call[v].id /\ next[v] \in Call
  <2>1. v \in UE /\ call[v] \in Call
      BY <1>4, <1>10
  <2>2. next[v] = [call[v] EXCEPT !.mme = h[v]]
      BY <1>3, <1>9, <2>1 DEF SgwAccepted
  <2> QED
      BY <1>8, <2>1, <2>2 DEF Call
<1>12. \A v \in UE \ W : next[v] = call[v]
    BY <1>3, <1>9 DEF SgwAccepted
<1>13. next \in [UE -> Call]
    BY <1>9, <1>11, <1>12 DEF SgwAccepted
<1>14. ASSUME NEW v \in W
       PROVE  call[v].at \in 10 .. 11 /\ call[v].mme = 0 /\ call[v].pgw = 0 /\ call[v].sgw = 0
  <2>1. v \in UE /\ call[v].at \in 10 .. 11 /\ call[v].mme = 0
      BY <1>4
  <2>2. FdsOK(call[v])
      BY <1>10, <2>1 DEF CallOK
  <2> QED
      BY <2>1, <2>2 DEF FdsOK
<1>15. \A f \in Fd : sgw_fdmap'[f] = IF f \in Range(g) THEN FromMme(0) ELSE sgw_fdmap[f]
  <2>1. \A f \in Range(g) : sgw_fdmap[f] = None
      BY <1>7, <1>8 DEF Calls, NoStrays
  <2> QED
      BY <1>1, <2>1 DEF InsertAll
<1>16. FromMme(0) # None /\ FromMme(0) \in SgwData
  <2>1. FromMme(0) \in SgwData
      BY Names DEF FromMme, SgwData
  <2> QED
      BY <2>1, KbySgwNoneAssumption
<1>17. \A f \in Fd : (\A v \in W : f # call[v].out) => s11'[f] = s11[f]
    BY <1>1, <1>5 DEF AcceptAll, TypeOK, KbyBaseTypeOK
<1>18. ASSUME NEW v \in W PROVE s11'[call[v].out] = S11Link(v, next[v], 0)
  <2>1. PICK c \in Call : c = call[v] /\ CallOK(v, c) /\ v \in UE /\ c.out \in Fd /\ c.out # 0
                          /\ c.at \in 10 .. 11
      BY <1>4, <1>5, <1>10
  <2>2. PICK d \in Call : d = next[v] /\ d.at = c.at /\ d.mme = h[v] /\ d.mme # 0
      BY <1>8, <1>11, <2>1
  <2>3. PICK dl \in Teid : s11[c.out] = S11Link(v, c, dl)
      BY <2>1, S11Is
  <2>4. PICK m : m = S11Up(v, c)
      OBVIOUS
  <2>5. S11Up(v, d) = m
      BY <2>1, <2>2, <2>4 DEF S11Up
  <2>6. S11Down(v, c, dl) = None
      BY <2>1 DEF S11Down
  <2>7. S11Down(v, d, 0) = None
      BY <2>1, <2>2 DEF S11Down
  <2>8. S11State(d) = "open"
      BY <2>1, <2>2 DEF S11State
  <2>9. PICK k : k = s11[c.out]
      OBVIOUS
  <2>10. k = [state |-> S11State(c), srv |-> c.mme, up |-> m, down |-> None]
      BY <2>3, <2>4, <2>6, <2>9 DEF S11Link
  <2>11. s11'[c.out] = [k EXCEPT !.state = "open", !.srv = h[v]]
    <3>1. DOMAIN s11 = Fd /\ c.out \in Pending(s11) /\ h[v] = g[c.out]
        BY <1>5, <1>6, <2>1 DEF TypeOK, KbyBaseTypeOK
    <3> QED
        BY <1>1, <2>1, <2>9, <3>1 DEF AcceptAll
  <2>12. PICK l : l = [state |-> "open", srv |-> c.mme, up |-> m, down |-> None]
      OBVIOUS
  <2>13. [k EXCEPT !.state = "open"] = l
      BY <2>10, <2>12
  <2>14. [l EXCEPT !.srv = h[v]] = [state |-> "open", srv |-> h[v], up |-> m, down |-> None]
      BY <2>12
  <2>15. [k EXCEPT !.state = "open", !.srv = h[v]] = [l EXCEPT !.srv = h[v]]
      BY <2>13
  <2> QED
      BY <2>1, <2>2, <2>5, <2>7, <2>8, <2>11, <2>14, <2>15 DEF S11Link
<1>19. TypeOK'
  <2>1. \A v \in W : s11'[call[v].out] \in Link
    <3> SUFFICES ASSUME NEW v \in W PROVE s11'[call[v].out] \in Link
        OBVIOUS
    <3>1. v \in UE /\ next[v] \in Call /\ 0 \in Teid
        BY <1>4, <1>11, Names
    <3>2. S11Link(v, next[v], 0) \in Link
        BY <3>1, CallLinks
    <3> QED
        BY <1>18, <3>2
  <2>2. s11' \in [Fd -> Link]
    <3>1. DOMAIN s11 = Fd /\ s11 \in [Fd -> Link]
        BY DEF TypeOK, KbyBaseTypeOK
    <3>2. s11' = [f \in Fd |-> s11'[f]]
        BY <1>1, <3>1 DEF AcceptAll
    <3>3. \A f \in Fd : s11'[f] \in Link
        BY <1>17, <2>1, <3>1
    <3> QED
        BY <3>2, <3>3
  <2>3. sgw_fdmap' = [f \in Fd |-> sgw_fdmap'[f]]
      BY <1>1 DEF InsertAll
  <2>4. sgw_fdmap' \in [Fd -> SgwData \cup {None}]
      BY <1>15, <1>16, <2>3 DEF TypeOK, KbySgwTypeOK
  <2>5. sgw_armed' \subseteq Fd
      BY <1>1, <1>7, <1>8 DEF TypeOK, KbySgwTypeOK
  <2>6. KbySgwTypeOK'
      BY <1>2, <2>4, <2>5 DEF TypeOK, KbySgwTypeOK
  <2>7. s5' \in [Fd -> Link]
      BY <1>2 DEF TypeOK, KbyBaseTypeOK
  <2>8. KbyPgwTypeOK'
      BY <1>2 DEF TypeOK, KbyPgwTypeOK, pgwVars
  <2>9. UNCHANGED <<ranVars, mmeVars, s1, s6a, exited>>
      BY <1>2
  <2> QED
      BY <2>2, <2>6, <2>7, <2>8, <2>9, GatewayTypes
<1>20. ue_count \in Nat /\ ue_count' = ue_count
    BY <1>2, Names DEF TypeOK, KbyMmeTypeOK, mmeVars
<1>21. ASSUME NEW v \in UE \ W PROVE CallOK(v, next[v])'
  <2>1. PICK e \in Call : e = call[v] /\ CallOK(v, e)
      BY <1>10
  <2>2. /\ e.mme # 0 => sgw_fdmap'[e.mme] = sgw_fdmap[e.mme]
        /\ e.pgw # 0 => sgw_fdmap'[e.pgw] = sgw_fdmap[e.pgw]
    <3>1. e.mme \notin Range(g) /\ e.pgw \notin Range(g)
        BY <1>7, <1>8, <2>1
    <3>2. e.mme \in {0} \cup Fd /\ e.pgw \in {0} \cup Fd
        BY DEF Call
    <3> QED
        BY <1>15, <3>1, <3>2
  <2>3. e.out # 0 => s11'[e.out] = s11[e.out]
    <3>1. ASSUME e.out # 0, NEW w \in W PROVE e.out # call[w].out
        BY <1>4, <2>1, <3>1 DEF Calls, Apart
    <3>2. e.out \in {0} \cup Fd
        BY DEF Call
    <3> QED
        BY <1>17, <3>1, <3>2
  <2>4. UNCHANGED <<ran_pc, ran_ctx, rounds, s1, s6a, s5, mme_fdmap, s1mme_id, mme_ctx>>
      BY <1>2 DEF ranVars, mmeVars
  <2>5. UNCHANGED <<s11_id, s1_id, s5_id, sgw_ctx, pgw_fdmap, pgw_s5_id, sgi_id, pgw_ctx>>
      BY <1>2 DEF pgwVars
  <2>6. ue_count' >= ue_count /\ ue_count' \in Nat
      BY <1>20
  <2>7. CallOK(v, e)'
      BY <1>20, <2>1, <2>2, <2>3, <2>4, <2>5, <2>6, CallStays
  <2> QED
      BY <1>12, <2>1, <2>7
<1>22. ASSUME NEW v \in W PROVE CallOK(v, next[v])'
  <2>1. PICK c \in Call : c = call[v] /\ CallOK(v, c) /\ v \in UE /\ c.out \in Fd
      BY <1>4, <1>5, <1>10
  <2>2. PICK d \in Call : d = next[v]
      BY <1>11
  <2>3. /\ d.mme = h[v] /\ d.mme \in Fd /\ d.mme # 0 /\ d.at = c.at /\ d.ran = c.ran /\ d.out = c.out
        /\ d.pgw = 0 /\ d.sgw = 0 /\ d.id = c.id
        /\ c.at \in 10 .. 11 /\ c.mme = 0 /\ c.pgw = 0 /\ c.sgw = 0
      BY <1>8, <1>11, <1>14, <2>1, <2>2
  <2>4. FdsOK(d)
      BY <2>1, <2>3 DEF CallOK, FdsOK
  <2>5. RanOK(v, d)'
    <3>1. S1Up(v, d) = S1Up(v, c)
        BY <2>3 DEF S1Up
    <3>2. S1Down(v, d) = S1Down(v, c)
        BY <2>3 DEF S1Down
    <3>3. UNCHANGED <<ran_pc, ran_ctx, rounds, s1>>
        BY <1>2 DEF ranVars
    <3> QED
        BY <2>1, <2>3, <3>1, <3>2, <3>3 DEF CallOK, RanOK
  <2>6. MmeOK(v, d)'
    <3>1. RanEntry(d) = RanEntry(c)
        BY <2>3 DEF RanEntry
    <3>2. OutEntry(v, d) = OutEntry(v, c)
        BY <2>3 DEF OutEntry, Waiting
    <3>3. HssLink(v, d) = HssLink(v, c)
        BY <2>3 DEF HssLink
    <3>4. S11OK(v, d)'
      <4>1. s11'[d.out] = S11Link(v, d, 0)
          BY <1>18, <2>1, <2>2, <2>3
      <4>2. 0 \in Teid
          BY Names
      <4> QED
          BY <4>1, <4>2 DEF S11OK, S11Link
    <3>5. UNCHANGED <<mme_fdmap, s6a, mme_ctx, ue_count, s1mme_id>>
        BY <1>2 DEF mmeVars
    <3>6. MmeFdsOK(v, c) /\ MmeCtxOK(v, c) /\ c.id <= ue_count /\ (\A i \in UeId : s1mme_id[i] = v <=> i = c.id)
        BY <2>1 DEF CallOK, MmeOK
    <3>7. MmeFdsOK(v, d)'
        BY <2>3, <3>1, <3>2, <3>3, <3>4, <3>5, <3>6 DEF MmeFdsOK
    <3>8. MmeCtxOK(v, d)'
        BY <2>3, <3>5, <3>6 DEF MmeCtxOK
    <3> QED
        BY <2>3, <3>5, <3>6, <3>7, <3>8 DEF MmeOK
  <2>7. SgwOK(v, d)'
    <3>1. sgw_fdmap'[d.mme] = FromMme(0)
        BY <1>7, <1>15, <2>3
    <3>2. MmeEntry(d) = FromMme(0)
        BY <2>3 DEF MmeEntry
    <3>3. UNCHANGED <<s11_id, s1_id, s5_id, sgw_ctx>>
        BY <1>2
    <3> QED
        BY <2>1, <2>3, <3>1, <3>2, <3>3 DEF CallOK, SgwOK
  <2>8. PgwOK(v, d)'
      BY <1>2, <2>1, <2>3 DEF CallOK, PgwOK, pgwVars
  <2> QED
      BY <2>2, <2>4, <2>5, <2>6, <2>7, <2>8 DEF CallOK
<1>23. \A v \in UE : /\ next[v].ran = call[v].ran /\ next[v].out = call[v].out
                     /\ next[v].pgw = call[v].pgw /\ next[v].sgw = call[v].sgw
                     /\ next[v].at = call[v].at
                     /\ next[v].mme = IF v \in W THEN h[v] ELSE call[v].mme
    BY <1>11, <1>12
<1>24. Apart(next)
  <2>1. Apart(call)
      BY DEF Calls
  <2>2. \A v, w \in UE : next[v].mme # 0 => next[v].mme # next[w].pgw
      BY <1>8, <1>23, <2>1 DEF Apart
  <2>3. \A v, w \in UE : v # w /\ next[v].mme # 0 => next[v].mme # next[w].mme
      BY <1>7, <1>8, <1>23, <2>1 DEF Apart
  <2> QED
      BY <1>23, <2>1, <2>2, <2>3 DEF Apart
<1>25. NoStrays(next)'
  <2>1. NoStrays(call)
      BY DEF Calls
  <2>2. ASSUME NEW f \in Fd, sgw_fdmap'[f] # None
        PROVE  \E v \in UE : f \in {next[v].mme, next[v].pgw}
    <3>1. CASE f \in Range(g)
      <4>1. PICK v \in W : f = h[v]
          BY <1>7, <3>1
      <4> QED
          BY <1>4, <1>11, <4>1
    <3>2. CASE f \notin Range(g)
      <4>1. sgw_fdmap[f] # None /\ f # 0
          BY <1>15, <2>2, <3>2, Names
      <4>2. PICK v \in UE : f \in {call[v].mme, call[v].pgw}
          BY <2>1, <4>1 DEF NoStrays
      <4>3. v \notin W
          BY <1>14, <4>1, <4>2
      <4> QED
          BY <1>23, <4>2, <4>3
    <3> QED
        BY <3>1, <3>2
  <2>3. ASSUME NEW f \in Fd, s11'[f] # NoLink PROVE \E v \in UE : f = next[v].out
    <3>1. CASE \E v \in W : f = call[v].out
        BY <1>4, <1>23, <3>1
    <3>2. CASE \A v \in W : f # call[v].out
      <4>1. s11[f] # NoLink
          BY <1>17, <2>3, <3>2
      <4> QED
          BY <1>23, <2>1, <4>1 DEF NoStrays
    <3> QED
        BY <3>1, <3>2
  <2>4. UNCHANGED <<s6a, s5, mme_fdmap, pgw_fdmap>>
      BY <1>2 DEF mmeVars, pgwVars
  <2> QED
      BY <1>23, <2>1, <2>2, <2>3, <2>4 DEF NoStrays
<1>26. Armed'
  <2>1. sgw_armed' = {f \in Fd : sgw_fdmap'[f] # None}
    <3>1. sgw_armed = {f \in Fd : sgw_fdmap[f] # None}
        BY DEF Calls, Armed
    <3>2. Range(g) \subseteq Fd
        BY <1>7, <1>8
    <3> QED
        BY <1>1, <1>15, <1>16, <3>1, <3>2
  <2> QED
      BY <1>2, <2>1 DEF Calls, Armed, mmeVars, pgwVars
<1>27. ue_count' = Cardinality(Numbered(next)')
  <2>1. \A a \in Attaches : a[1] \in UE
      BY DEF Attaches
  <2>2. Numbered(next)' = Numbered(call)
      BY <1>2, <1>23, <2>1 DEF Numbered, ranVars
  <2> QED
      BY <1>20, <2>2 DEF Calls
<1>28. exited' = {}
    BY <1>2 DEF Calls
<1>29. \A v \in UE : CallOK(v, next[v])'
    BY <1>21, <1>22
<1>30. Calls(next)'
    BY <1>24, <1>25, <1>26, <1>27, <1>28, <1>29 DEF Calls
<1> QED
    BY <1>13, <1>19, <1>30

-----------------------------------------------------------------------------
(* Descriptors of the PGW.                                                 *)

\* The server's end of a connection to the PGW.
LEMMA S5Servers ==
    ASSUME TypeOK, NEW call \in [UE -> Call], Calls(call), NEW f \in Fd
    PROVE  /\ s5[f].srv # 0 => \E u \in UE : f = call[u].pgw /\ s5[f].srv = call[u].sgw
           /\ \A u \in UE : call[u].sgw # 0 =>
                 call[u].pgw \in Fd /\ s5[call[u].pgw].srv = call[u].sgw
<1>1. \A u \in UE : call[u] \in Call /\ CallOK(u, call[u])
    BY DEF Calls
<1>2. ASSUME NEW u \in UE, call[u].pgw # 0
      PROVE  call[u].pgw \in Fd /\ s5[call[u].pgw].srv = call[u].sgw
  <2>1. PICK c \in Call : c = call[u] /\ CallOK(u, c) /\ c.pgw # 0
      BY <1>1, <1>2
  <2>2. c.pgw \in Fd
      BY <2>1 DEF Call
  <2>3. s5[c.pgw] = S5Link(u, c)
      BY <2>1, SgwAt
  <2> QED
      BY <2>1, <2>2, <2>3 DEF S5Link
<1>3. ASSUME NEW u \in UE, call[u].sgw # 0 PROVE call[u].pgw # 0
  <2>1. PICK c \in Call : c = call[u] /\ CallOK(u, c) /\ c.sgw # 0
      BY <1>1, <1>3
  <2>2. c.at \in 12 .. 24
      BY <2>1, PgwAt
  <2> QED
      BY <2>1, <2>2, SgwAt
<1>4. ASSUME s5[f].srv # 0 PROVE \E u \in UE : f = call[u].pgw /\ s5[f].srv = call[u].sgw
  <2>1. s5[f] # NoLink
      BY <1>4 DEF NoLink
  <2>2. PICK u \in UE : f = call[u].pgw
      BY <2>1 DEF Calls, NoStrays
  <2>3. call[u].pgw # 0
      BY <2>2, Names
  <2> QED
      BY <1>2, <2>2, <2>3
<1> QED
    BY <1>2, <1>3, <1>4

\* The PGW's open descriptors are those of the calls.
LEMMA PgwUsedIs ==
    ASSUME TypeOK, NEW call \in [UE -> Call], Calls(call)
    PROVE  PgwUsed = {call[u].sgw : u \in UE} \ {0}
<1>1. DOMAIN s5 = Fd
    BY DEF TypeOK, KbyBaseTypeOK
<1>2. \A f \in Fd : s5[f].srv # 0 => \E u \in UE : s5[f].srv = call[u].sgw
    BY S5Servers
<1>3. \A u \in UE : call[u].sgw # 0 => \E f \in Fd : s5[f].srv = call[u].sgw
  <2>1. 1 \in Fd
      BY FdFacts DEF Fd
  <2> QED
      BY <2>1, S5Servers
<1> QED
    BY <1>1, <1>2, <1>3 DEF PgwUsed, Servers

\* A descriptor of the SGW's is one call's.
LEMMA SgwOne ==
    ASSUME TypeOK, NEW call \in [UE -> Call], Calls(call), NEW u \in UE, call[u].sgw # 0
    PROVE  At(s5, call[u].sgw) = {call[u].pgw}
<1>1. PICK f, k : f = call[u].pgw /\ k = call[u].sgw
    OBVIOUS
<1>2. f \in Fd /\ s5[f].srv = k
  <2>1. 1 \in Fd
      BY FdFacts DEF Fd
  <2> QED
      BY <1>1, <2>1, S5Servers
<1>3. ASSUME NEW h \in Fd, s5[h].srv = k PROVE h = f
  <2>1. PICK v \in UE : h = call[v].pgw /\ s5[h].srv = call[v].sgw
      BY <1>1, <1>3, S5Servers
  <2>2. v = u
      BY <1>1, <1>3, <2>1 DEF Calls, Apart
  <2> QED
      BY <1>1, <2>1, <2>2
<1> QED
    BY <1>1, <1>2, <1>3 DEF At, TypeOK, KbyBaseTypeOK

\* A request of the SGW is that of a call.
LEMMA PgwRequestOf ==
    ASSUME TypeOK, NEW call \in [UE -> Call], Calls(call), NEW f \in Fd, NEW type,
           PgwRequest(f, type)
    PROVE  \E u \in UE, c \in Call :
              /\ c = call[u] /\ CallOK(u, c) /\ f = c.pgw /\ c.pgw \in Fd /\ c.pgw # 0
              /\ c.sgw \in Fd /\ c.sgw # 0 /\ c.mme # 0
              /\ s5[f] = S5Link(u, c) /\ s5[f].srv = c.sgw /\ s5[f].up = S5Up(u, c)
              /\ <<type, c.at>> \in {<<1, 13>>, <<4, 24>>}
<1>1. s5[f].up # None /\ s5[f].up.type = type /\ s5[f].srv \in pgw_fdmap
    BY DEF PgwRequest
<1>2. s5[f].srv # 0
    BY <1>1, Names DEF TypeOK, KbyPgwTypeOK
<1>3. PICK u \in UE : f = call[u].pgw /\ s5[f].srv = call[u].sgw
    BY <1>2, S5Servers
<1>4. PICK c \in Call : c = call[u] /\ CallOK(u, c) /\ f = c.pgw /\ f # 0 /\ s5[f].srv = c.sgw
    BY <1>3, Names DEF Calls
<1>5. s5[f] = S5Link(u, c)
    BY <1>4, SgwAt
<1>6. s5[f].up = S5Up(u, c)
    BY <1>5 DEF S5Link
<1>7. c.at \in {13, 24}
    BY <1>1, <1>6 DEF S5Up
<1>8. <<type, c.at>> \in {<<1, 13>>, <<4, 24>>}
  <2>1. c.at = 13 => s5[f].up = Fields(1, 0, u, u, 0, 0)
      BY <1>6, S5Messages
  <2>2. c.at = 24 => s5[f].up = Fields(4, 0, 0, u, 0, 0)
      BY <1>6, S5Messages
  <2> QED
      BY <1>1, <1>7, <2>1, <2>2 DEF Fields
<1>9. c.sgw # 0 /\ c.sgw \in Fd
    BY <1>2, <1>4 DEF Call
<1>10. c.mme # 0
    BY <1>4, <1>7, SgwAt
<1> QED
    BY <1>4, <1>5, <1>6, <1>8, <1>9, <1>10

-----------------------------------------------------------------------------
(* The tables of the PGW.                                                  *)

\* What stands under u in a table of the PGW.
PgwKey(u, d) == IF d.at \in 14 .. 24 THEN u ELSE 0

\* An event of the PGW in terms of these tables.
LEMMA PgwTables ==
    ASSUME TypeOK, NEW call \in [UE -> Call], Calls(call), NEW u \in UE, NEW c, c = call[u],
           NEW d \in Call, <<c.at, d.at>> \in PgwSteps,
           d.ran = c.ran, d.out = c.out, d.id = c.id, d.mme = c.mme, d.pgw = c.pgw, c.sgw # 0,
           d.sgw = IF d.at = 25 THEN 0 ELSE c.sgw,
           UNCHANGED <<ranVars, mmeVars, sgwVars, s1, s6a, s11, exited>>,
           s5' = S5Map(u, c, d),
           pgw_fdmap' = IF d.at = 25 THEN pgw_fdmap \ {c.sgw} ELSE pgw_fdmap,
           pgw_armed' = pgw_fdmap',
           pgw_s5_id' = [pgw_s5_id EXCEPT ![u] = PgwKey(u, d)],
           sgi_id' = [sgi_id EXCEPT ![u] = PgwKey(u, d)],
           pgw_ctx' = [pgw_ctx EXCEPT
               ![u] = IF d.at \in 14 .. 24 THEN [teid |-> u, ip_addr |-> u] ELSE None]
    PROVE  TypeOK' /\ \E next \in [UE -> Call] : Calls(next)'
<1>1. c \in Call /\ CallOK(u, c)
    BY DEF Calls
<1>2. <<c.at, d.at>> \in {<<13, 14>>, <<24, 25>>}
    BY DEF PgwSteps
<1>3. /\ c.sgw \in Fd /\ c.mme \in Fd /\ c.mme # 0 /\ c.pgw \in Fd /\ c.pgw # 0 /\ 0 \notin Fd
      /\ c.sgw \in pgw_fdmap
  <2>1. c.mme # 0 /\ c.pgw # 0
      BY <1>1, <1>2, SgwAt
  <2>2. c.sgw \in pgw_fdmap
      BY <1>1, PgwAt
  <2> QED
      BY <1>1, <2>1, <2>2, Names DEF Call
<1>4. TypeOK'
  <2>1. S5Link(u, d) \in Link
    <3>1. 0 \in Teid
        BY Names
    <3> QED
        BY <3>1, CallLinks
  <2>2. s5' \in [Fd -> Link]
      BY <2>1, Names DEF S5Map, TypeOK, KbyBaseTypeOK
  <2>3. PgwKey(u, d) \in Teid /\ [teid |-> u, ip_addr |-> u] \in PgwContext
      BY Names DEF PgwKey, PgwContext
  <2>4. KbyPgwTypeOK'
      BY <2>3 DEF TypeOK, KbyPgwTypeOK
  <2>5. KbySgwTypeOK'
      BY DEF TypeOK, KbySgwTypeOK, sgwVars
  <2>6. s11' \in [Fd -> Link]
      BY DEF TypeOK, KbyBaseTypeOK
  <2> QED
      BY <2>2, <2>4, <2>5, <2>6, GatewayTypes
<1>5. FdsOK(d)
    BY <1>1, <1>2 DEF CallOK, FdsOK
<1>6. SgwOK(u, d)'
  <2>1. MmeEntry(d) = MmeEntry(c)
      BY <1>2 DEF MmeEntry
  <2>2. PgwEntry(u, d) = PgwEntry(u, c)
      BY <1>2 DEF PgwEntry
  <2>3. s5'[d.pgw] = S5Link(u, d)
      BY <1>3 DEF S5Map
  <2>4. UNCHANGED <<sgw_fdmap, s11_id, s1_id, s5_id, sgw_ctx>>
      BY DEF sgwVars
  <2> QED
      BY <1>1, <1>2, <2>1, <2>2, <2>3, <2>4 DEF CallOK, SgwOK, S5Link
<1>7. PgwOK(u, d)'
  <2>1. d.sgw # 0 => d.sgw \in pgw_fdmap'
      BY <1>3
  <2>2. /\ \A table \in {pgw_s5_id', sgi_id'} : table[u] = IF d.at \in 14 .. 24 THEN u ELSE 0
        /\ pgw_ctx'[u] = IF d.at \in 14 .. 24 THEN [teid |-> u, ip_addr |-> u] ELSE None
      BY Names DEF PgwKey, TypeOK, KbyPgwTypeOK
  <2>3. sgi_id'[0] = 0
      BY <1>1, Names DEF CallOK, PgwOK, TypeOK, KbyPgwTypeOK
  <2> QED
      BY <2>1, <2>2, <2>3 DEF PgwOK
<1>8. SgwFrame(u, c, d)
  <2>1. \A f \in Fd \ {c.pgw, d.pgw} : s5'[f] = s5[f]
      BY DEF S5Map
  <2> QED
      BY <2>1 DEF SgwFrame, sgwVars
<1>9. PgwFrame(u, c, d)
  <2>1. \A v \in UE \ {u} : /\ pgw_s5_id'[v] = pgw_s5_id[v] /\ sgi_id'[v] = sgi_id[v]
                            /\ pgw_ctx'[v] = pgw_ctx[v]
      BY DEF TypeOK, KbyPgwTypeOK
  <2>2. \A f \in Fd \ {c.sgw} : f \in pgw_fdmap' <=> f \in pgw_fdmap
      OBVIOUS
  <2>3. c.sgw \notin {d.sgw, 0} => c.sgw \notin pgw_fdmap'
      OBVIOUS
  <2>4. sgi_id'[0] = sgi_id[0]
      BY Names DEF TypeOK, KbyPgwTypeOK
  <2> QED
      BY <2>1, <2>2, <2>3, <2>4 DEF PgwFrame
<1>10. Armed'
    BY DEF Calls, Armed, mmeVars, sgwVars
<1>11. <<c.at, d.at>> \in SgwSteps \cup PgwSteps
    OBVIOUS
<1>12. FdsMove(call, u, d)
    BY DEF FdsMove
<1>13. s11' = S11Map(u, c, d, 0) /\ 0 \in Teid
  <2>1. <<c.at, d.at>> \in {<<12, 13>>, <<13, 14>>, <<24, 25>>}
      BY <1>2
  <2>2. s11 = S11Map(u, c, d, 0)
      BY <2>1, S11Stays
  <2> QED
      BY <2>2, Names
<1>14. UNCHANGED <<ranVars, mmeVars, s1, s6a, exited>>
    OBVIOUS
<1>15. \E next \in [UE -> Call] : Calls(next)'
    BY <1>5, <1>6, <1>7, <1>8, <1>9, <1>10, <1>11, <1>12, <1>13, <1>14, GatewayAdvance
<1> QED
    BY <1>4, <1>15

-----------------------------------------------------------------------------
(* The events of the PGW.                                                  *)

\* The create: the session is entered and answered.
LEMMA PgwCreateMoves ==
    ASSUME Addressable, TypeOK, NEW call \in [UE -> Call], Calls(call), NEW f \in Fd, PgwCreate(f)
    PROVE  TypeOK' /\ \E next \in [UE -> Call] : Calls(next)'
<1>1. PICK u \in UE, c \in Call :
          /\ c = call[u] /\ CallOK(u, c) /\ f = c.pgw /\ c.pgw \in Fd /\ c.pgw # 0
          /\ c.sgw \in Fd /\ c.sgw # 0 /\ c.mme # 0
          /\ s5[f] = S5Link(u, c) /\ s5[f].srv = c.sgw /\ s5[f].up = S5Up(u, c)
          /\ <<1, c.at>> \in {<<1, 13>>, <<4, 24>>}
    BY PgwRequestOf DEF PgwCreate
<1>2. c.at = 13
    BY <1>1
<1>3. PICK d : d = [c EXCEPT !.at = 14]
    OBVIOUS
<1>4. /\ d \in Call /\ d.at = 14 /\ d.ran = c.ran /\ d.out = c.out /\ d.id = c.id
      /\ d.mme = c.mme /\ d.pgw = c.pgw /\ d.sgw = c.sgw
    BY <1>3 DEF Call
<1>5. s5[f].up.teid = u /\ s5[f].up.imsi = u
    BY <1>1, <1>2, S5Messages DEF Fields
<1>6. PICK m : m = [Msg(1) EXCEPT !.teid = u, !.ip = u]
    OBVIOUS
<1>7. /\ pgw_s5_id' = [pgw_s5_id EXCEPT ![u] = u]
      /\ sgi_id' = [sgi_id EXCEPT ![u] = u]
      /\ pgw_ctx' = [pgw_ctx EXCEPT ![u] = [teid |-> u, ip_addr |-> u]]
      /\ s5' = Answer(s5, f, m)
      /\ UNCHANGED <<pgw_fdmap, pgw_armed, exited>>
  <2>1. IpAddr(u) = u
      BY DEF Addressable, IpAddr
  <2> QED
      BY <1>5, <1>6, <2>1 DEF PgwCreate
<1>8. UNCHANGED <<ranVars, mmeVars, sgwVars, s1, s6a, s11, exited>> /\ c = call[u]
    BY <1>1, <1>7 DEF PgwCreate, PgwRequest
<1>9. <<c.at, d.at>> \in PgwSteps /\ d.sgw = IF d.at = 25 THEN 0 ELSE c.sgw
    BY <1>2, <1>4 DEF PgwSteps
<1>10. s5' = S5Map(u, c, d)
  <2>1. s5 \in [Fd -> Link]
      BY DEF TypeOK, KbyBaseTypeOK
  <2>2. Answer(s5, f, m) = [s5 EXCEPT ![f] =
            [state |-> s5[f].state, srv |-> s5[f].srv, up |-> None, down |-> m]]
      BY <2>1, AnswerForm
  <2>3. S5Up(u, d) = None
      BY <1>4 DEF S5Up
  <2>4. S5Down(u, d) = m
      BY <1>4, <1>6 DEF S5Down
  <2>5. S5State(d) = S5State(c)
      BY <1>2, <1>4 DEF S5State
  <2>6. s5[f].state = S5State(c) /\ s5[f].srv = c.sgw
      BY <1>1 DEF S5Link
  <2>7. s5' = [s5 EXCEPT ![f] = S5Link(u, d)]
      BY <1>4, <1>7, <2>2, <2>3, <2>4, <2>5, <2>6 DEF S5Link
  <2> QED
      BY <1>1, <1>4, <2>1, <2>7 DEF S5Map
<1>11. /\ pgw_fdmap' = IF d.at = 25 THEN pgw_fdmap \ {c.sgw} ELSE pgw_fdmap
       /\ pgw_armed' = pgw_fdmap'
  <2>1. pgw_armed = pgw_fdmap
      BY DEF Calls, Armed
  <2> QED
      BY <1>4, <1>7, <2>1
<1>12. PgwKey(u, d) = u
    BY <1>4 DEF PgwKey
<1>13. /\ pgw_s5_id' = [pgw_s5_id EXCEPT ![u] = PgwKey(u, d)]
       /\ sgi_id' = [sgi_id EXCEPT ![u] = PgwKey(u, d)]
    BY <1>7, <1>12
<1>14. pgw_ctx' = [pgw_ctx EXCEPT
               ![u] = IF d.at \in 14 .. 24 THEN [teid |-> u, ip_addr |-> u] ELSE None]
    BY <1>4, <1>7
<1>15. c.sgw # 0
    BY <1>1
<1>16. /\ d \in Call /\ d.ran = c.ran /\ d.out = c.out /\ d.id = c.id
       /\ d.mme = c.mme /\ d.pgw = c.pgw
    BY <1>4
<1> QED
    BY <1>8, <1>9, <1>10, <1>11, <1>13, <1>14, <1>15, <1>16, PgwTables

\* The detach: the session and the connection end, once the answer is written.
LEMMA PgwDetachMoves ==
    ASSUME TypeOK, NEW call \in [UE -> Call], Calls(call), NEW f \in Fd, PgwDetach(f)
    PROVE  TypeOK' /\ \E next \in [UE -> Call] : Calls(next)'
<1>1. PICK u \in UE, c \in Call :
          /\ c = call[u] /\ CallOK(u, c) /\ f = c.pgw /\ c.pgw \in Fd /\ c.pgw # 0
          /\ c.sgw \in Fd /\ c.sgw # 0 /\ c.mme # 0
          /\ s5[f] = S5Link(u, c) /\ s5[f].srv = c.sgw /\ s5[f].up = S5Up(u, c)
          /\ <<4, c.at>> \in {<<1, 13>>, <<4, 24>>}
    BY PgwRequestOf, ZenonT(40) DEF PgwDetach
<1>2. c.at = 24
    BY <1>1
<1>3. PICK d : d = [at |-> 25, ran |-> c.ran, out |-> c.out, mme |-> c.mme, pgw |-> c.pgw,
                    sgw |-> 0, id |-> c.id]
    OBVIOUS
<1>4. /\ d \in Call /\ d.at = 25 /\ d.ran = c.ran /\ d.out = c.out /\ d.id = c.id
      /\ d.mme = c.mme /\ d.pgw = c.pgw /\ d.sgw = 0
    BY <1>3 DEF Call
<1>5. s5[f].up.teid = u /\ u # 0
    BY <1>1, <1>2, S5Messages, Names DEF Fields
<1>6. pgw_s5_id[u] = u /\ pgw_ctx[u] = [teid |-> u, ip_addr |-> u]
    BY <1>1, <1>2, PgwAt
<1>7. PICK m : m = [Msg(4) EXCEPT !.teid = u]
    OBVIOUS
<1>8. /\ pgw_s5_id' = [pgw_s5_id EXCEPT ![u] = 0]
      /\ sgi_id' = [sgi_id EXCEPT ![u] = 0]
      /\ pgw_ctx' = [pgw_ctx EXCEPT ![u] = None]
      /\ s5' = Shut(Answer(s5, f, m), c.sgw)
      /\ pgw_fdmap' = pgw_fdmap \ {c.sgw}
      /\ pgw_armed' = pgw_armed \ {c.sgw}
      /\ UNCHANGED exited
  <2>1. pgw_ctx[u].teid = u /\ pgw_ctx[u].ip_addr = u
      BY <1>6
  <2> QED
      BY <1>1, <1>5, <1>6, <1>7, <2>1 DEF PgwDetach
<1>9. UNCHANGED <<ranVars, mmeVars, sgwVars, s1, s6a, s11, exited>> /\ c = call[u]
    BY <1>1, <1>8 DEF PgwDetach, PgwRequest
<1>10. <<c.at, d.at>> \in PgwSteps /\ d.sgw = IF d.at = 25 THEN 0 ELSE c.sgw
    BY <1>2, <1>4 DEF PgwSteps
<1>11. s5' = S5Map(u, c, d)
  <2>1. s5 \in [Fd -> Link]
      BY DEF TypeOK, KbyBaseTypeOK
  <2>2. PICK r : r = Answer(s5, f, m)
      OBVIOUS
  <2>3. r = [s5 EXCEPT ![f] =
            [state |-> s5[f].state, srv |-> s5[f].srv, up |-> None, down |-> m]]
      BY <2>1, <2>2, AnswerForm
  <2>4. PICK k : k = [state |-> s5[f].state, srv |-> c.sgw, up |-> None, down |-> m]
      OBVIOUS
  <2>5. r = [s5 EXCEPT ![f] = k]
      BY <1>1, <2>3, <2>4
  <2>6. DOMAIN r = Fd /\ r[f] = k /\ k.srv = c.sgw /\ \A h \in Fd : h # f => r[h] = s5[h]
      BY <2>1, <2>4, <2>5
  <2>7. At(s5, c.sgw) = {f}
      BY <1>1, SgwOne
  <2>8. At(r, c.sgw) = {f}
      BY <1>1, <2>1, <2>6, <2>7 DEF At
  <2>9. [k EXCEPT !.state = "shut", !.srv = 0]
        = [state |-> "shut", srv |-> 0, up |-> None, down |-> m]
    <3>1. PICK l : l = [state |-> "shut", srv |-> c.sgw, up |-> None, down |-> m]
        OBVIOUS
    <3>2. [k EXCEPT !.state = "shut"] = l
        BY <2>4, <3>1
    <3>3. [l EXCEPT !.srv = 0] = [state |-> "shut", srv |-> 0, up |-> None, down |-> m]
        BY <3>1
    <3>4. [k EXCEPT !.state = "shut", !.srv = 0] = [l EXCEPT !.srv = 0]
        BY <3>2
    <3> QED
        BY <3>3, <3>4
  <2>10. S5Up(u, d) = None
      BY <1>4 DEF S5Up
  <2>11. S5Down(u, d) = m
      BY <1>4, <1>7 DEF S5Down
  <2>12. S5State(d) = "shut"
      BY <1>4 DEF S5State
  <2>13. S5Link(u, d) = [state |-> "shut", srv |-> 0, up |-> None, down |-> m]
      BY <1>4, <2>10, <2>11, <2>12 DEF S5Link
  <2>14. Shut(r, c.sgw) = [h \in Fd |-> IF h = f THEN S5Link(u, d) ELSE s5[h]]
      BY <2>6, <2>8, <2>9, <2>13 DEF Shut
  <2> QED
      BY <1>1, <1>4, <1>8, <2>2, <2>14 DEF S5Map
<1>12. /\ pgw_fdmap' = IF d.at = 25 THEN pgw_fdmap \ {c.sgw} ELSE pgw_fdmap
       /\ pgw_armed' = pgw_fdmap'
    BY <1>4, <1>8 DEF Calls, Armed
<1>13. PgwKey(u, d) = 0
    BY <1>4 DEF PgwKey
<1>14. /\ pgw_s5_id' = [pgw_s5_id EXCEPT ![u] = PgwKey(u, d)]
       /\ sgi_id' = [sgi_id EXCEPT ![u] = PgwKey(u, d)]
    BY <1>8, <1>13
<1>15. pgw_ctx' = [pgw_ctx EXCEPT
               ![u] = IF d.at \in 14 .. 24 THEN [teid |-> u, ip_addr |-> u] ELSE None]
    BY <1>4, <1>8
<1>16. c.sgw # 0
    BY <1>1
<1> QED
    BY <1>4, <1>9, <1>10, <1>11, <1>12, <1>14, <1>15, <1>16, PgwTables

-----------------------------------------------------------------------------
(* The accept loop of the PGW.                                             *)

\* The calls that wait for it.
PgwWaiting(call) == {v \in UE : call[v].at \in 12 .. 13 /\ call[v].sgw = 0}

\* A call after the accepts: those that were waiting have descriptors h.
PgwAccepted(call, h) ==
    [v \in UE |-> IF v \in PgwWaiting(call) THEN [call[v] EXCEPT !.sgw = h[v]] ELSE call[v]]

\* Their connections are those that are pending.
LEMMA PgwPending ==
    ASSUME TypeOK, NEW call \in [UE -> Call], Calls(call)
    PROVE  /\ Pending(s5) = {call[v].pgw : v \in PgwWaiting(call)}
           /\ \A v \in PgwWaiting(call) : call[v].pgw \in Fd /\ call[v].pgw # 0
<1>1. DOMAIN s5 = Fd
    BY DEF TypeOK, KbyBaseTypeOK
<1>2. ASSUME NEW f \in Fd, s5[f].state = "syn" PROVE \E v \in PgwWaiting(call) : f = call[v].pgw
  <2>1. s5[f] # NoLink
      BY <1>2 DEF NoLink
  <2>2. PICK v \in UE : f = call[v].pgw
      BY <2>1 DEF Calls, NoStrays
  <2>3. PICK c \in Call : c = call[v] /\ CallOK(v, c) /\ f = c.pgw /\ c.pgw # 0
      BY <2>2, Names DEF Calls
  <2>4. s5[f] = S5Link(v, c) /\ c.at \in 12 .. 25
      BY <2>3, SgwAt
  <2>5. S5State(c) = "syn"
      BY <1>2, <2>4 DEF S5Link
  <2>6. c.sgw = 0 => c.at \notin 14 .. 24
      BY <2>3, PgwAt
  <2>7. c.at \in 12 .. 13 /\ c.sgw = 0
      BY <2>4, <2>5, <2>6 DEF S5State
  <2> QED
      BY <2>3, <2>7 DEF PgwWaiting
<1>3. ASSUME NEW v \in PgwWaiting(call)
      PROVE  call[v].pgw \in Fd /\ call[v].pgw # 0 /\ s5[call[v].pgw].state = "syn"
  <2>1. PICK c \in Call : c = call[v] /\ CallOK(v, c) /\ v \in UE /\ c.at \in 12 .. 13 /\ c.sgw = 0
      BY DEF Calls, PgwWaiting
  <2>2. c.pgw # 0 /\ c.pgw \in Fd
      BY <2>1, SgwAt DEF Call
  <2>3. s5[c.pgw] = S5Link(v, c)
      BY <2>1, <2>2, SgwAt
  <2>4. S5State(c) = "syn"
      BY <2>1 DEF S5State
  <2> QED
      BY <2>1, <2>2, <2>3, <2>4 DEF S5Link
<1> QED
    BY <1>1, <1>2, <1>3 DEF Pending

\* All calls that wait for the PGW get a descriptor there.
LEMMA PgwAcceptMoves ==
    ASSUME TypeOK, NEW call \in [UE -> Call], Calls(call), PgwAccept
    PROVE  TypeOK' /\ \E next \in [UE -> Call] : Calls(next)'
<1>1. PICK g \in Accepts(s5, PgwUsed) :
          /\ s5' = AcceptAll(s5, g)
          /\ pgw_armed' = pgw_armed \cup Range(g)
          /\ pgw_fdmap' = pgw_fdmap \cup Range(g)
    BY DEF PgwAccept
<1>2. UNCHANGED <<ranVars, mmeVars, sgwVars, s1, s6a, s11, pgw_s5_id, sgi_id, pgw_ctx, exited>>
    BY DEF PgwAccept
<1>3. PICK W : W = PgwWaiting(call)
    OBVIOUS
<1>4. W \subseteq UE /\ \A v \in UE : v \in W <=> call[v].at \in 12 .. 13 /\ call[v].sgw = 0
    BY <1>3 DEF PgwWaiting
<1>5. /\ Pending(s5) = {call[v].pgw : v \in W}
      /\ \A v \in W : call[v].pgw \in Fd /\ call[v].pgw # 0
    BY <1>3, PgwPending
<1>6. PICK h : h = [v \in W |-> g[call[v].pgw]]
    OBVIOUS
<1>7. /\ h \in [W -> Fd \ PgwUsed]
      /\ \A v, w \in W : h[v] = h[w] => v = w
      /\ Range(g) = {h[v] : v \in W}
  <2>1. /\ g \in [Pending(s5) -> Fd \ PgwUsed]
        /\ \A i, k \in Pending(s5) : g[i] = g[k] => i = k
        /\ Range(g) = {g[i] : i \in Pending(s5)}
      BY DEF Accepts, Injection, Range, IsInjective
  <2>2. \A v, w \in W : call[v].pgw = call[w].pgw => v = w
      BY <1>4, <1>5 DEF Calls, Apart
  <2>3. \A v \in W : h[v] = g[call[v].pgw] /\ call[v].pgw \in Pending(s5)
      BY <1>5, <1>6
  <2>4. h \in [W -> Fd \ PgwUsed]
      BY <1>6, <2>1, <2>3
  <2>5. \A v, w \in W : h[v] = h[w] => v = w
      BY <2>1, <2>2, <2>3
  <2>6. Range(g) = {h[v] : v \in W}
      BY <1>5, <2>1, <2>3
  <2> QED
      BY <2>4, <2>5, <2>6
<1>8. ASSUME NEW v \in W
      PROVE  h[v] \in Fd /\ h[v] # 0 /\ \A w \in UE : h[v] # call[w].sgw
  <2>1. h[v] \in Fd /\ h[v] \notin PgwUsed
      BY <1>7
  <2>2. h[v] # 0
      BY <2>1, Names
  <2> QED
      BY <2>1, <2>2, PgwUsedIs
<1>9. PICK next : next = PgwAccepted(call, h)
    OBVIOUS
<1>10. ASSUME NEW v \in UE PROVE call[v] \in Call /\ CallOK(v, call[v])
    BY DEF Calls
<1>11. ASSUME NEW v \in W
       PROVE  /\ next[v].sgw = h[v] /\ next[v].at = call[v].at /\ next[v].ran = call[v].ran
              /\ next[v].out = call[v].out /\ next[v].mme = call[v].mme
              /\ next[v].pgw = call[v].pgw /\ next[v].id = call[v].id /\ next[v] \in Call
  <2>1. v \in UE /\ call[v] \in Call
      BY <1>4, <1>10
  <2>2. next[v] = [call[v] EXCEPT !.sgw = h[v]]
      BY <1>3, <1>9, <2>1 DEF PgwAccepted
  <2> QED
      BY <1>8, <2>1, <2>2 DEF Call
<1>12. \A v \in UE \ W : next[v] = call[v]
    BY <1>3, <1>9 DEF PgwAccepted
<1>13. next \in [UE -> Call]
    BY <1>9, <1>11, <1>12 DEF PgwAccepted
<1>14. pgw_fdmap \subseteq Fd /\ pgw_armed = pgw_fdmap /\ Range(g) \subseteq Fd
    BY <1>7, <1>8 DEF TypeOK, KbyPgwTypeOK, Calls, Armed
<1>15. \A f \in Fd : (\A v \in W : f # call[v].pgw) => s5'[f] = s5[f]
    BY <1>1, <1>5 DEF AcceptAll, TypeOK, KbyBaseTypeOK
<1>16. ASSUME NEW v \in W PROVE s5'[call[v].pgw] = S5Link(v, next[v])
  <2>1. PICK c \in Call : c = call[v] /\ CallOK(v, c) /\ v \in UE /\ c.pgw \in Fd /\ c.pgw # 0
                          /\ c.at \in 12 .. 13
      BY <1>4, <1>5, <1>10
  <2>2. PICK d \in Call : d = next[v] /\ d.at = c.at /\ d.sgw = h[v] /\ d.sgw # 0
      BY <1>8, <1>11, <2>1
  <2>3. s5[c.pgw] = S5Link(v, c)
      BY <2>1, SgwAt
  <2>4. PICK m : m = S5Up(v, c)
      OBVIOUS
  <2>5. S5Up(v, d) = m
      BY <2>1, <2>2, <2>4 DEF S5Up
  <2>6. S5Down(v, c) = None
      BY <2>1 DEF S5Down
  <2>7. S5Down(v, d) = None
      BY <2>1, <2>2 DEF S5Down
  <2>8. S5State(d) = "open"
      BY <2>1, <2>2 DEF S5State
  <2>9. PICK k : k = s5[c.pgw]
      OBVIOUS
  <2>10. k = [state |-> S5State(c), srv |-> c.sgw, up |-> m, down |-> None]
      BY <2>3, <2>4, <2>6, <2>9 DEF S5Link
  <2>11. s5'[c.pgw] = [k EXCEPT !.state = "open", !.srv = h[v]]
    <3>1. DOMAIN s5 = Fd /\ c.pgw \in Pending(s5) /\ h[v] = g[c.pgw]
        BY <1>5, <1>6, <2>1 DEF TypeOK, KbyBaseTypeOK
    <3> QED
        BY <1>1, <2>1, <2>9, <3>1 DEF AcceptAll
  <2>12. PICK l : l = [state |-> "open", srv |-> c.sgw, up |-> m, down |-> None]
      OBVIOUS
  <2>13. [k EXCEPT !.state = "open"] = l
      BY <2>10, <2>12
  <2>14. [l EXCEPT !.srv = h[v]] = [state |-> "open", srv |-> h[v], up |-> m, down |-> None]
      BY <2>12
  <2>15. [k EXCEPT !.state = "open", !.srv = h[v]] = [l EXCEPT !.srv = h[v]]
      BY <2>13
  <2> QED
      BY <2>1, <2>2, <2>5, <2>7, <2>8, <2>11, <2>14, <2>15 DEF S5Link
<1>17. TypeOK'
  <2>1. \A v \in W : s5'[call[v].pgw] \in Link
    <3> SUFFICES ASSUME NEW v \in W PROVE s5'[call[v].pgw] \in Link
        OBVIOUS
    <3>1. v \in UE /\ next[v] \in Call /\ 0 \in Teid
        BY <1>4, <1>11, Names
    <3>2. S5Link(v, next[v]) \in Link
        BY <3>1, CallLinks
    <3> QED
        BY <1>16, <3>2
  <2>2. s5' \in [Fd -> Link]
    <3>1. DOMAIN s5 = Fd /\ s5 \in [Fd -> Link]
        BY DEF TypeOK, KbyBaseTypeOK
    <3>2. s5' = [f \in Fd |-> s5'[f]]
        BY <1>1, <3>1 DEF AcceptAll
    <3>3. \A f \in Fd : s5'[f] \in Link
        BY <1>15, <2>1, <3>1
    <3> QED
        BY <3>2, <3>3
  <2>3. KbyPgwTypeOK'
      BY <1>1, <1>2, <1>14 DEF TypeOK, KbyPgwTypeOK
  <2>4. KbySgwTypeOK'
      BY <1>2 DEF TypeOK, KbySgwTypeOK, sgwVars
  <2>5. s11' \in [Fd -> Link]
      BY <1>2 DEF TypeOK, KbyBaseTypeOK
  <2>6. UNCHANGED <<ranVars, mmeVars, s1, s6a, exited>>
      BY <1>2
  <2> QED
      BY <2>2, <2>3, <2>4, <2>5, <2>6, GatewayTypes
<1>18. ue_count \in Nat /\ ue_count' = ue_count
    BY <1>2, Names DEF TypeOK, KbyMmeTypeOK, mmeVars
<1>19. ASSUME NEW v \in UE \ W PROVE CallOK(v, next[v])'
  <2>1. PICK e \in Call : e = call[v] /\ CallOK(v, e)
      BY <1>10
  <2>2. e.sgw # 0 => (e.sgw \in pgw_fdmap' <=> e.sgw \in pgw_fdmap)
    <3>1. e.sgw \notin Range(g)
        BY <1>7, <1>8, <2>1
    <3> QED
        BY <1>1, <3>1
  <2>3. e.pgw # 0 => s5'[e.pgw] = s5[e.pgw]
    <3>1. ASSUME e.pgw # 0, NEW w \in W PROVE e.pgw # call[w].pgw
        BY <1>4, <2>1, <3>1 DEF Calls, Apart
    <3>2. e.pgw \in {0} \cup Fd
        BY DEF Call
    <3> QED
        BY <1>15, <3>1, <3>2
  <2>4. UNCHANGED <<ran_pc, ran_ctx, rounds, s1, s6a, s11, mme_fdmap, s1mme_id, mme_ctx>>
      BY <1>2 DEF ranVars, mmeVars
  <2>5. UNCHANGED <<sgw_fdmap, s11_id, s1_id, s5_id, sgw_ctx, pgw_s5_id, sgi_id, pgw_ctx>>
      BY <1>2 DEF sgwVars
  <2>6. ue_count' >= ue_count /\ ue_count' \in Nat
      BY <1>18
  <2>7. CallOK(v, e)'
      BY <1>18, <2>1, <2>2, <2>3, <2>4, <2>5, <2>6, CallStays
  <2> QED
      BY <1>12, <2>1, <2>7
<1>20. ASSUME NEW v \in W PROVE CallOK(v, next[v])'
  <2>1. PICK c \in Call : c = call[v] /\ CallOK(v, c) /\ v \in UE /\ c.pgw \in Fd
      BY <1>4, <1>5, <1>10
  <2>2. PICK d \in Call : d = next[v]
      BY <1>11
  <2>3. /\ d.sgw = h[v] /\ d.sgw \in Fd /\ d.sgw # 0 /\ d.at = c.at /\ d.ran = c.ran /\ d.out = c.out
        /\ d.mme = c.mme /\ d.pgw = c.pgw /\ d.id = c.id
        /\ c.at \in 12 .. 13 /\ c.sgw = 0
      BY <1>4, <1>8, <1>11, <2>1, <2>2
  <2>4. FdsOK(d)
      BY <2>1, <2>3 DEF CallOK, FdsOK
  <2>5. RanOK(v, d)'
    <3>1. S1Up(v, d) = S1Up(v, c)
        BY <2>3 DEF S1Up
    <3>2. S1Down(v, d) = S1Down(v, c)
        BY <2>3 DEF S1Down
    <3>3. UNCHANGED <<ran_pc, ran_ctx, rounds, s1>>
        BY <1>2 DEF ranVars
    <3> QED
        BY <2>1, <2>3, <3>1, <3>2, <3>3 DEF CallOK, RanOK
  <2>6. MmeOK(v, d)'
    <3>1. RanEntry(d) = RanEntry(c)
        BY <2>3 DEF RanEntry
    <3>2. OutEntry(v, d) = OutEntry(v, c)
        BY <2>3 DEF OutEntry, Waiting
    <3>3. HssLink(v, d) = HssLink(v, c)
        BY <2>3 DEF HssLink
    <3>4. S11State(d) = S11State(c)
        BY <2>3 DEF S11State
    <3>5. S11Up(v, d) = S11Up(v, c)
        BY <2>3 DEF S11Up
    <3>6. \A dl : S11Down(v, d, dl) = S11Down(v, c, dl)
        BY <2>3 DEF S11Down
    <3>7. UNCHANGED <<mme_fdmap, s6a, s11, mme_ctx, ue_count, s1mme_id>>
        BY <1>2 DEF mmeVars
    <3>8. MmeFdsOK(v, c) /\ MmeCtxOK(v, c) /\ c.id <= ue_count /\ (\A i \in UeId : s1mme_id[i] = v <=> i = c.id)
        BY <2>1 DEF CallOK, MmeOK
    <3>9. c.out # 0 => S11OK(v, d)'
        BY <2>3, <3>4, <3>5, <3>6, <3>7, <3>8 DEF MmeFdsOK, S11OK
    <3>10. MmeFdsOK(v, d)'
        BY <2>3, <3>1, <3>2, <3>3, <3>7, <3>8, <3>9 DEF MmeFdsOK
    <3>11. MmeCtxOK(v, d)'
        BY <2>3, <3>7, <3>8 DEF MmeCtxOK
    <3> QED
        BY <2>3, <3>7, <3>8, <3>10, <3>11 DEF MmeOK
  <2>7. SgwOK(v, d)'
    <3>1. s5'[d.pgw] = S5Link(v, d)
        BY <1>16, <2>1, <2>2, <2>3
    <3>2. MmeEntry(d) = MmeEntry(c)
        BY <2>3 DEF MmeEntry
    <3>3. PgwEntry(v, d) = PgwEntry(v, c)
        BY <2>3 DEF PgwEntry
    <3>4. UNCHANGED <<sgw_fdmap, s11_id, s1_id, s5_id, sgw_ctx>>
        BY <1>2 DEF sgwVars
    <3> QED
        BY <2>1, <2>3, <3>1, <3>2, <3>3, <3>4 DEF CallOK, SgwOK, S5Link
  <2>8. PgwOK(v, d)'
    <3>1. d.sgw \in pgw_fdmap'
        BY <1>1, <1>7, <2>3
    <3> QED
        BY <1>2, <2>1, <2>3, <3>1 DEF CallOK, PgwOK
  <2> QED
      BY <2>2, <2>4, <2>5, <2>6, <2>7, <2>8 DEF CallOK
<1>21. \A v \in UE : /\ next[v].ran = call[v].ran /\ next[v].out = call[v].out
                     /\ next[v].mme = call[v].mme /\ next[v].pgw = call[v].pgw
                     /\ next[v].at = call[v].at
                     /\ next[v].sgw = IF v \in W THEN h[v] ELSE call[v].sgw
    BY <1>11, <1>12
<1>22. Apart(next)
  <2>1. Apart(call)
      BY DEF Calls
  <2>2. \A v, w \in UE : v # w /\ next[v].sgw # 0 => next[v].sgw # next[w].sgw
      BY <1>7, <1>8, <1>21, <2>1 DEF Apart
  <2> QED
      BY <1>21, <2>1, <2>2 DEF Apart
<1>23. NoStrays(next)'
  <2>1. NoStrays(call)
      BY DEF Calls
  <2>2. ASSUME NEW f \in Fd, f \in pgw_fdmap' PROVE \E v \in UE : f = next[v].sgw
    <3>1. CASE f \in Range(g)
      <4>1. PICK v \in W : f = h[v]
          BY <1>7, <3>1
      <4> QED
          BY <1>4, <1>11, <4>1
    <3>2. CASE f \notin Range(g)
      <4>1. f \in pgw_fdmap /\ f # 0
          BY <1>1, <2>2, <3>2, Names
      <4>2. PICK v \in UE : f = call[v].sgw
          BY <2>1, <4>1 DEF NoStrays
      <4>3. v \notin W
          BY <1>4, <4>1, <4>2
      <4> QED
          BY <1>21, <4>2, <4>3
    <3> QED
        BY <3>1, <3>2
  <2>3. ASSUME NEW f \in Fd, s5'[f] # NoLink PROVE \E v \in UE : f = next[v].pgw
    <3>1. CASE \E v \in W : f = call[v].pgw
        BY <1>4, <1>21, <3>1
    <3>2. CASE \A v \in W : f # call[v].pgw
      <4>1. s5[f] # NoLink
          BY <1>15, <2>3, <3>2
      <4> QED
          BY <1>21, <2>1, <4>1 DEF NoStrays
    <3> QED
        BY <3>1, <3>2
  <2>4. UNCHANGED <<s6a, s11, mme_fdmap, sgw_fdmap>>
      BY <1>2 DEF mmeVars, sgwVars
  <2> QED
      BY <1>21, <2>1, <2>2, <2>3, <2>4 DEF NoStrays
<1>24. Armed'
    BY <1>1, <1>2, <1>14 DEF Calls, Armed, mmeVars, sgwVars
<1>25. ue_count' = Cardinality(Numbered(next)')
  <2>1. \A a \in Attaches : a[1] \in UE
      BY DEF Attaches
  <2>2. Numbered(next)' = Numbered(call)
      BY <1>2, <1>21, <2>1 DEF Numbered, ranVars
  <2> QED
      BY <1>18, <2>2 DEF Calls
<1>26. exited' = {}
    BY <1>2 DEF Calls
<1>27. \A v \in UE : CallOK(v, next[v])'
    BY <1>19, <1>20
<1>28. Calls(next)'
    BY <1>22, <1>23, <1>24, <1>25, <1>26, <1>27 DEF Calls
<1> QED
    BY <1>13, <1>17, <1>28

-----------------------------------------------------------------------------
(* The invariant.                                                          *)

\* At start there are no calls.
LEMMA CallInit == Init => CallInv
<1> SUFFICES ASSUME Init PROVE CallInv
    OBVIOUS
<1> DEFINE call == [u \in UE |-> NoCall]
<1>1. KbyBaseInit /\ KbyRanInit /\ KbyMmeInit /\ KbySgwInit /\ KbyPgwInit
    BY DEF Init
<1>2. TypeOK
  <2>1. KbyBaseTypeOK
      BY <1>1, Names DEF KbyBaseInit, KbyBaseTypeOK
  <2>2. KbyRanTypeOK
      BY <1>1, Names DEF KbyRanInit, KbyRanTypeOK, NewRanContext, RanContext
  <2>3. KbyMmeTypeOK
      BY <1>1, Names DEF KbyMmeInit, KbyMmeTypeOK
  <2>4. KbySgwTypeOK
      BY <1>1, Names DEF KbySgwInit, KbySgwTypeOK
  <2>5. KbyPgwTypeOK
      BY <1>1, Names DEF KbyPgwInit, KbyPgwTypeOK
  <2> QED
      BY <2>1, <2>2, <2>3, <2>4, <2>5 DEF TypeOK
<1>3. NoCall \in Call /\ NoCall.at = 0 /\ NoCall.ran = 0 /\ NoCall.out = 0 /\ NoCall.mme = 0
      /\ NoCall.pgw = 0 /\ NoCall.sgw = 0 /\ NoCall.id = 0
    BY DEF NoCall, Call
<1>4. PICK n \in Call : n = NoCall
    BY <1>3
<1>5. call \in [UE -> Call] /\ \A u \in UE : call[u] = n
    BY <1>4
<1> HIDE DEF call
<1>6. ASSUME NEW u \in UE PROVE CallOK(u, n)
  <2>1. FdsOK(n)
      BY <1>3, <1>4 DEF FdsOK
  <2>2. RanOK(u, n)
    <3>1. Pc(n.at) = "idle"
        BY <1>3, <1>4 DEF Pc
    <3>2. S1State(n.at) = "closed"
        BY <1>3, <1>4 DEF S1State
    <3>3. S1Up(u, n) = None
        BY <1>3, <1>4 DEF S1Up
    <3>4. S1Down(u, n) = None
        BY <1>3, <1>4 DEF S1Down
    <3>5. ran_pc[u] = "idle" /\ rounds[u] = 0 /\ s1[u] = NoLink
        BY <1>1 DEF KbyRanInit, KbyBaseInit
    <3>6. 0 <= Rounds[u]
        BY KbyRoundAssumption
    <3> QED
        BY <1>3, <1>4, <3>1, <3>2, <3>3, <3>4, <3>5, <3>6 DEF RanOK, NoLink
  <2>3. MmeOK(u, n)
    <3>1. \A i \in UeId : s1mme_id[i] = 0 /\ i # 0
        BY <1>1, Names DEF KbyMmeInit
    <3>2. u # 0 /\ ue_count = 0 /\ mme_ctx[u] = None
        BY <1>1, Names DEF KbyMmeInit
    <3> QED
        BY <1>3, <1>4, <3>1, <3>2 DEF MmeOK, MmeFdsOK, MmeCtxOK
  <2>4. SgwOK(u, n)
      BY <1>1, <1>3, <1>4 DEF SgwOK, KbySgwInit
  <2>5. PgwOK(u, n)
      BY <1>1, Names, <1>3, <1>4 DEF PgwOK, KbyPgwInit
  <2> QED
      BY <2>1, <2>2, <2>3, <2>4, <2>5 DEF CallOK
<1>7. Apart(call)
    BY <1>3, <1>4, <1>5 DEF Apart
<1>8. NoStrays(call)
    BY <1>1 DEF NoStrays, KbyBaseInit, KbyMmeInit, KbySgwInit, KbyPgwInit
<1>9. Armed
    BY <1>1 DEF Armed, KbyMmeInit, KbySgwInit, KbyPgwInit
<1>10. ue_count = Cardinality(Numbered(call))
  <2>1. \A a \in Attaches : a[1] \in UE /\ a[2] \in Nat /\ a[2] # 0
      BY KbyRoundAssumption DEF Attaches
  <2>2. \A u \in UE : rounds[u] = 0
      BY <1>1 DEF KbyRanInit
  <2>3. Numbered(call) = {}
      BY <2>1, <2>2 DEF Numbered
  <2> QED
      BY <1>1, <2>3, FS_EmptySet DEF KbyMmeInit
<1>11. Calls(call)
    BY <1>1, <1>5, <1>6, <1>7, <1>8, <1>9, <1>10 DEF Calls, KbyBaseInit
<1> QED
    BY <1>2, <1>5, <1>11 DEF CallInv

\* Nothing changes when nothing happens.
LEMMA CallStutter ==
    ASSUME TypeOK, NEW call \in [UE -> Call], Calls(call), UNCHANGED vars
    PROVE  TypeOK' /\ \E next \in [UE -> Call] : Calls(next)'
<1>1. UNCHANGED <<ranVars, mmeVars, sgwVars, pgwVars, s1, s6a, s11, s5, exited>>
    BY DEF vars, linkVars
<1>2. UNCHANGED <<ran_pc, ran_ctx, rounds, mme_fdmap, mme_armed, ue_count, s1mme_id, mme_ctx,
                  sgw_fdmap, sgw_armed, s11_id, s1_id, s5_id, sgw_ctx, sgw_dl,
                  pgw_fdmap, pgw_armed, pgw_s5_id, sgi_id, pgw_ctx>>
    BY <1>1 DEF ranVars, mmeVars, sgwVars, pgwVars
<1>3. TypeOK'
  <2>1. KbySgwTypeOK'
      BY <1>2 DEF TypeOK, KbySgwTypeOK
  <2>2. KbyPgwTypeOK'
      BY <1>2 DEF TypeOK, KbyPgwTypeOK
  <2>3. s11' \in [Fd -> Link] /\ s5' \in [Fd -> Link]
      BY <1>1 DEF TypeOK, KbyBaseTypeOK
  <2> QED
      BY <1>1, <2>1, <2>2, <2>3, GatewayTypes
<1>4. ASSUME NEW u \in UE PROVE CallOK(u, call[u])'
  <2>1. PICK c \in Call : c = call[u] /\ CallOK(u, c)
      BY DEF Calls
  <2>2. ue_count \in Nat /\ ue_count' \in Nat /\ ue_count' >= ue_count
      BY <1>2, Names DEF TypeOK, KbyMmeTypeOK
  <2>3. CallOK(u, c)'
      BY <1>1, <1>2, <2>1, <2>2, CallStays
  <2> QED
      BY <2>1, <2>3
<1>5. Apart(call)
    BY DEF Calls
<1>6. NoStrays(call)'
    BY <1>1, <1>2 DEF Calls, NoStrays
<1>7. Armed'
    BY <1>2 DEF Calls, Armed
<1>8. (ue_count = Cardinality(Numbered(call)))'
    BY <1>2 DEF Calls, Numbered
<1>9. Calls(call)'
    BY <1>1, <1>4, <1>5, <1>6, <1>7, <1>8 DEF Calls
<1> QED
    BY <1>3, <1>9

\* The step with which the MME exits.
ExitStep == MmeStep /\ exited' # {} /\ \E f \in Fd : MmeDetachAnswer(f)

\* Every step moves a call on, or all that wait for one accept loop, or none, or it is
\* that one.
LEMMA CallStep ==
    ASSUME Addressable, CallInv, [Next]_vars
    PROVE  CallInv' \/ (TypeOK' /\ ExitStep)
<1>1. TypeOK
    BY DEF CallInv
<1>2. PICK call \in [UE -> Call] : Calls(call)
    BY DEF CallInv
<1>3. (TypeOK' /\ \E next \in [UE -> Call] : Calls(next)') \/ (TypeOK' /\ ExitStep)
  <2>1. CASE UNCHANGED vars
      BY <1>1, <1>2, <2>1, CallStutter
  <2>2. CASE \E u \in UE : RanStep(u)
    <3>1. PICK u \in UE : RanNext(u) /\ Rest
        BY <2>2 DEF RanStep
    <3>2. CASE Attach(u)
        BY <1>1, <1>2, <3>1, <3>2, AttachMoves
    <3>3. CASE Authenticate(u)
        BY <1>1, <1>2, <3>1, <3>3, AuthenticateMoves
    <3>4. CASE SetSecurity(u)
        BY <1>1, <1>2, <3>1, <3>4, SetSecurityMoves
    <3>5. CASE SetEpsSession(u)
        BY <1>1, <1>2, <3>1, <3>5, SetEpsSessionMoves
    <3>6. CASE AttachComplete(u)
        BY <1>1, <1>2, <3>1, <3>6, AttachCompleteMoves
    <3>7. CASE Detach(u)
        BY <1>1, <1>2, <3>1, <3>7, DetachMoves
    <3>8. CASE Detached(u)
        BY <1>1, <1>2, <3>1, <3>8, DetachedMoves
    <3> QED
        BY <3>1, <3>2, <3>3, <3>4, <3>5, <3>6, <3>7, <3>8 DEF RanNext
  <2>3. CASE HssStep
      BY <1>1, <1>2, <2>3, HssAnswerMoves DEF HssStep
  <2>4. CASE MmeStep
    <3>1. UNCHANGED <<sgwVars, pgwVars>>
        BY <2>4 DEF MmeStep
    <3>2. CASE MmeAccept
        BY <1>1, <1>2, <3>1, <3>2, MmeAcceptMoves
    <3>3. CASE \E u \in UE : MmeServeRan(u)
      <4>1. PICK u \in UE : MmeServeRan(u)
          BY <3>3
      <4>2. CASE MmeAttachOne(u)
          BY <1>1, <1>2, <3>1, <4>2, MmeAttachOneMoves
      <4>3. CASE MmeAttachTwo(u)
          BY <1>1, <1>2, <3>1, <4>3, MmeAttachTwoMoves
      <4>4. CASE MmeAttachThree(u)
          BY <1>1, <1>2, <3>1, <4>4, MmeAttachThreeMoves
      <4>5. CASE MmeAttachFour(u)
          BY <1>1, <1>2, <3>1, <4>5, MmeAttachFourMoves
      <4>6. CASE MmeDetach(u)
          BY <1>1, <1>2, <3>1, <4>6, MmeDetachMoves
      <4> QED
          BY <4>1, <4>2, <4>3, <4>4, <4>5, <4>6 DEF MmeServeRan
    <3>4. CASE \E f \in Fd : MmeServe(f)
      <4>1. PICK f \in Fd : MmeServe(f)
          BY <3>4
      <4>2. CASE MmeHssConnected(f)
          BY <1>1, <1>2, <3>1, <4>2, MmeHssConnectedMoves
      <4>3. CASE MmeHssAnswer(f)
          BY <1>1, <1>2, <3>1, <4>3, MmeHssAnswerMoves
      <4>4. CASE MmeSgwConnected(f)
          BY <1>1, <1>2, <3>1, <4>4, MmeSgwConnectedMoves
      <4>5. CASE MmeCreateAnswer(f)
          BY <1>1, <1>2, <3>1, <4>5, MmeCreateAnswerMoves
      <4>6. CASE MmeModifyAnswer(f)
          BY <1>1, <1>2, <3>1, <4>6, MmeModifyAnswerMoves
      <4>7. CASE MmeDetachAnswer(f)
        <5>1. CASE exited' = {}
            BY <1>1, <1>2, <3>1, <4>7, <5>1, MmeDetachAnswerMoves
        <5>2. CASE exited' # {}
            BY <1>1, <1>2, <2>4, <3>1, <4>7, <5>2, MmeDetachAnswerExits DEF ExitStep
        <5> QED
            BY <5>1, <5>2
      <4> QED
          BY <4>1, <4>2, <4>3, <4>4, <4>5, <4>6, <4>7 DEF MmeServe
    <3> QED
        BY <2>4, <3>2, <3>3, <3>4 DEF MmeStep
  <2>5. CASE SgwStep
    <3>1. UNCHANGED pgwVars
        BY <2>5 DEF SgwStep
    <3>2. CASE SgwAccept
        BY <1>1, <1>2, <3>1, <3>2, SgwAcceptMoves
    <3>3. CASE \E f \in Fd : SgwServeMme(f) \/ SgwServe(f)
      <4>1. PICK f \in Fd : SgwServeMme(f) \/ SgwServe(f)
          BY <3>3
      <4>2. CASE SgwCreate(f)
          BY <1>1, <1>2, <3>1, <4>2, SgwCreateMoves
      <4>3. CASE SgwModify(f)
          BY <1>1, <1>2, <3>1, <4>3, SgwModifyMoves
      <4>4. CASE SgwDetach(f)
          BY <1>1, <1>2, <3>1, <4>4, SgwDetachMoves
      <4>5. CASE SgwPgwConnected(f)
          BY <1>1, <1>2, <3>1, <4>5, SgwPgwConnectedMoves
      <4>6. CASE SgwCreateAnswer(f)
          BY <1>1, <1>2, <3>1, <4>6, SgwCreateAnswerMoves
      <4>7. CASE SgwDetachAnswer(f)
          BY <1>1, <1>2, <3>1, <4>7, SgwDetachAnswerMoves
      <4> QED
          BY <4>1, <4>2, <4>3, <4>4, <4>5, <4>6, <4>7 DEF SgwServeMme, SgwServe
    <3> QED
        BY <2>5, <3>2, <3>3 DEF SgwStep
  <2>6. CASE PgwStep
    <3>1. CASE PgwAccept
        BY <1>1, <1>2, <3>1, PgwAcceptMoves
    <3>2. CASE \E f \in Fd : PgwServe(f)
      <4>1. PICK f \in Fd : PgwServe(f)
          BY <3>2
      <4>2. CASE PgwCreate(f)
          BY <1>1, <1>2, <4>2, PgwCreateMoves
      <4>3. CASE PgwDetach(f)
          BY <1>1, <1>2, <4>3, PgwDetachMoves
      <4> QED
          BY <4>1, <4>2, <4>3 DEF PgwServe
    <3> QED
        BY <2>6, <3>1, <3>2 DEF PgwStep
  <2> QED
      BY <2>1, <2>2, <2>3, <2>4, <2>5, <2>6 DEF Next, Serving
<1> QED
    BY <1>3 DEF CallInv

\* After the exit nothing happens any more.
LEMMA Ended == ASSUME TypeOK, ~AllUp, [Next]_vars PROVE TypeOK' /\ UNCHANGED vars
<1>1. UNCHANGED vars
    BY DEF Next, AllUp
<1>2. UNCHANGED <<ran_pc, ran_ctx, rounds, mme_fdmap, mme_armed, ue_count, s1mme_id, mme_ctx,
                  sgw_fdmap, sgw_armed, s11_id, s1_id, s5_id, sgw_ctx, sgw_dl,
                  pgw_fdmap, pgw_armed, pgw_s5_id, sgi_id, pgw_ctx, s1, s6a, s11, s5, exited>>
    BY <1>1 DEF vars, ranVars, mmeVars, sgwVars, pgwVars, linkVars
<1>3. KbyBaseTypeOK' /\ KbyRanTypeOK'
    BY <1>2 DEF TypeOK, KbyBaseTypeOK, KbyRanTypeOK
<1>4. KbyMmeTypeOK' /\ KbySgwTypeOK' /\ KbyPgwTypeOK'
    BY <1>2 DEF TypeOK, KbyMmeTypeOK, KbySgwTypeOK, KbyPgwTypeOK
<1> QED
    BY <1>1, <1>3, <1>4 DEF TypeOK

\* What a step does to a state of KbyInv.
LEMMA InvStep ==
    ASSUME Addressable, KbyInv, [Next]_vars
    PROVE  /\ KbyInv'
           /\ \/ CallInv /\ CallInv'
              \/ CallInv /\ ExitStep
              \/ UNCHANGED vars
<1>1. CASE ~AllUp
  <2>1. TypeOK' /\ UNCHANGED vars
      BY <1>1, Ended DEF KbyInv
  <2>2. exited' = exited
      BY <2>1 DEF vars
  <2> QED
      BY <1>1, <2>1, <2>2 DEF KbyInv, AllUp
<1>2. CASE AllUp
  <2>1. CallInv
      BY <1>2 DEF KbyInv
  <2>2. CASE CallInv'
      BY <2>1, <2>2 DEF KbyInv, CallInv
  <2>3. CASE TypeOK' /\ ExitStep
    <3>1. ~AllUp'
        BY <2>3 DEF ExitStep, AllUp
    <3> QED
        BY <2>1, <2>3, <3>1 DEF KbyInv
  <2> QED
      BY <2>1, <2>2, <2>3, CallStep
<1> QED
    BY <1>1, <1>2

\* KbyInv: at any time the state of the v3.0 control plane is that of a set of calls
\* that share no descriptor and leave nothing behind, unless act 7 has ended the MME.
THEOREM CallInvariance == ASSUME Addressable PROVE Spec => []KbyInv
<1>1. Init => KbyInv
    BY CallInit DEF KbyInv, CallInv
<1>2. KbyInv /\ [Next]_vars => KbyInv'
    BY InvStep
<1> QED
    BY <1>1, <1>2, PTL DEF Spec

-----------------------------------------------------------------------------
(* The properties.                                                         *)

\* TypeOK: every descriptor, key and message field stays in its type.
THEOREM TypeCorrect == ASSUME Addressable PROVE Spec => []TypeOK
<1>1. KbyInv => TypeOK
    BY DEF KbyInv
<1> QED
    BY <1>1, CallInvariance, PTL

\* OnlyDelExits: no order of events makes a lookup or a cross check end a node; only
\* act 7 may end the MME.
THEOREM NoNodeExits == ASSUME Addressable PROVE Spec => OnlyDelExits
<1>1. ASSUME KbyInv, [Next]_vars
      PROVE  [exited' # exited => \E f \in Fd : MmeDetachAnswer(f)]_vars
  <2>1. CASE CallInv /\ CallInv'
    <3>1. exited = {} /\ exited' = {}
        BY <2>1 DEF CallInv, Calls
    <3> QED
        BY <3>1
  <2>2. CASE CallInv /\ ExitStep
      BY <2>2 DEF ExitStep
  <2> QED
      BY <1>1, <2>1, <2>2, InvStep
<1> QED
    BY <1>1, CallInvariance, PTL DEF Spec, OnlyDelExits

-----------------------------------------------------------------------------
(* Descriptors.                                                            *)

\* A node's descriptors are accounted for when each call has at most two of them, and
\* the entry of the one it waits on names the other.
LEMMA PairsAccounted ==
    ASSUME NEW map, NEW armed, NEW used, NEW a, NEW b,
           armed = {f \in Fd : map[f] # None},
           used = ({a[u] : u \in UE} \cup {b[u] : u \in UE}) \ {0},
           \A u \in UE : a[u] \in {0} \cup Fd /\ b[u] \in {0} \cup Fd,
           \A f \in Fd : map[f] # None => \E u \in UE : f \in {a[u], b[u]},
           \A u, v \in UE : a[u] # 0 => a[u] # b[v],
           \A u, v \in UE : u # v /\ a[u] # 0 => a[u] # a[v],
           \A u, v \in UE : u # v /\ b[u] # 0 => b[u] # b[v],
           \A u \in UE : a[u] # 0 /\ map[a[u]] # None =>
              map[a[u]].initial_fd = b[u] /\ (b[u] # 0 => map[b[u]] = None),
           \A u \in UE : b[u] # 0 /\ map[b[u]] # None => map[b[u]].initial_fd = a[u] /\ a[u] # 0,
           \A u \in UE : a[u] # 0 /\ map[a[u]] = None => b[u] # 0 /\ map[b[u]] # None,
           \A u \in UE : b[u] # 0 /\ map[b[u]] = None => a[u] # 0 /\ map[a[u]] # None
    PROVE  Accounted(map, armed, used)
<1> DEFINE first == {g \in armed : map[g].initial_fd # 0}
           second == [f \in first |-> map[f].initial_fd]
<1>1. 0 \notin Fd
    BY Names
<1>2. armed \subseteq used
    BY <1>1
<1>3. ASSUME NEW f \in first
      PROVE  \E u \in UE : /\ map[f].initial_fd \in used \ armed
                           /\ \/ f = a[u] /\ map[f].initial_fd = b[u]
                              \/ f = b[u] /\ map[f].initial_fd = a[u]
  <2>1. f \in Fd /\ map[f] # None /\ map[f].initial_fd # 0 /\ f # 0
      BY <1>1
  <2>2. PICK u \in UE : f \in {a[u], b[u]}
      BY <2>1
  <2>3. CASE f = a[u]
    <3>1. map[f].initial_fd = b[u] /\ b[u] # 0 /\ map[b[u]] = None
        BY <2>1, <2>3
    <3> QED
        BY <2>3, <3>1
  <2>4. CASE f = b[u]
    <3>1. map[f].initial_fd = a[u] /\ a[u] # 0
        BY <2>1, <2>4
    <3>2. map[a[u]] = None
        BY <2>1, <2>4, <3>1
    <3> QED
        BY <2>4, <3>1, <3>2
  <2> QED
      BY <2>2, <2>3, <2>4
<1>4. ASSUME NEW h \in used \ armed PROVE \E f \in first : map[f].initial_fd = h
  <2>1. PICK u \in UE : h \in {a[u], b[u]} /\ h # 0 /\ h \in Fd /\ map[h] = None
      OBVIOUS
  <2>2. CASE h = a[u]
    <3>1. b[u] # 0 /\ map[b[u]] # None /\ map[b[u]].initial_fd = h /\ b[u] \in Fd
        BY <2>1, <2>2
    <3> QED
        BY <2>1, <3>1
  <2>3. CASE h = b[u]
    <3>1. a[u] # 0 /\ map[a[u]] # None /\ map[a[u]].initial_fd = h /\ a[u] \in Fd
        BY <2>1, <2>3
    <3> QED
        BY <2>1, <3>1
  <2> QED
      BY <2>1, <2>2, <2>3
<1>5. ASSUME NEW f \in first, NEW g \in first, map[f].initial_fd = map[g].initial_fd
      PROVE  f = g
  <2>1. PICK h : h = map[f].initial_fd
      OBVIOUS
  <2>2. PICK u \in UE : (f = a[u] /\ h = b[u]) \/ (f = b[u] /\ h = a[u])
    <3> HIDE DEF first, second
    <3> QED
        BY <1>3, <2>1
  <2>3. PICK v \in UE : (g = a[v] /\ h = b[v]) \/ (g = b[v] /\ h = a[v])
    <3>1. h = map[g].initial_fd
        BY <1>5, <2>1
    <3> HIDE DEF first, second
    <3> QED
        BY <1>3, <3>1
  <2>4. f # 0 /\ g # 0 /\ h # 0
      BY <1>1, <2>1
  <2> HIDE DEF first, second
  <2>5. u = v
    <3>1. a[u] # 0 /\ b[u] # 0 /\ a[v] # 0 /\ b[v] # 0
        BY <2>2, <2>3, <2>4
    <3>2. a[u] # b[v] /\ a[v] # b[u]
        BY <3>1
    <3> QED
        BY <2>2, <2>3, <3>1, <3>2
  <2> QED
      BY <2>2, <2>3, <2>5
<1>6. Range(second) = {map[f].initial_fd : f \in first}
  <2> HIDE DEF first
  <2>1. DOMAIN second = first /\ \A f \in first : second[f] = map[f].initial_fd
      OBVIOUS
  <2> HIDE DEF second
  <2> QED
      BY <2>1 DEF Range
<1>7. used \ armed = Range(second)
  <2>1. \A f \in first : map[f].initial_fd \in used \ armed
      BY <1>3
  <2> HIDE DEF first, second
  <2> QED
      BY <1>4, <1>6, <2>1
<1>8. IsInjective(second)
  <2> HIDE DEF first
  <2> QED
      BY <1>5 DEF IsInjective
<1> QED
    BY <1>2, <1>7, <1>8 DEF Accounted

\* While a call waits for HSS or SGW, fdmap has an entry under that descriptor.
LEMMA OutIsEntry ==
    ASSUME NEW u \in UE, NEW c \in Call,
           c.at \in (3 .. 5) \cup (10 .. 15) \cup (18 .. 19) \cup (23 .. 26)
    PROVE  OutEntry(u, c) # None
<1>a. 0 \in Teid /\ 1 \in 1 .. 5
    BY Names
<1>b. [Msg(1) EXCEPT !.imsi = u] \in Message /\ [Msg(1) EXCEPT !.teid = u, !.imsi = u] \in Message
    BY <1>a, CallMessages
<1>1. PICK m \in Message : m = [Msg(1) EXCEPT !.imsi = u]
    BY <1>b
<1>2. PICK n \in Message : n = [Msg(1) EXCEPT !.teid = u, !.imsi = u]
    BY <1>b
<1>3. \/ c.at = 3 /\ OutEntry(u, c) = Waiting(2, c, m)
      \/ c.at \in 4 .. 5 /\ OutEntry(u, c) = Waiting(3, c, None)
      \/ c.at = 10 /\ OutEntry(u, c) = Waiting(4, c, n)
      \/ c.at \in 11 .. 15 /\ OutEntry(u, c) = Waiting(5, c, None)
      \/ c.at \in 18 .. 19 /\ OutEntry(u, c) = Waiting(6, c, None)
      \/ c.at \in 23 .. 26 /\ OutEntry(u, c) = Waiting(7, c, None)
    BY <1>1, <1>2 DEF OutEntry
<1>4. /\ \A k \in 1 .. 7 : Waiting(k, c, None) # None
      /\ \A k \in 1 .. 7 : \A b \in Message : Waiting(k, c, b) # None
    BY MmeEntries
<1> QED
    BY <1>3, <1>4

\* FdsAccounted: no descriptor is leaked, left behind or shared.
LEMMA CallFds == CallInv => FdsAccounted
<1> SUFFICES ASSUME CallInv PROVE FdsAccounted
    OBVIOUS
<1>1. TypeOK
    BY DEF CallInv
<1>2. PICK call \in [UE -> Call] : Calls(call)
    BY DEF CallInv
<1>3. Apart(call) /\ NoStrays(call) /\ Armed
    BY <1>2 DEF Calls
<1>4. ASSUME NEW u \in UE PROVE call[u] \in Call /\ CallOK(u, call[u])
    BY <1>2 DEF Calls
<1>5. Accounted(mme_fdmap, mme_armed, MmeUsed)
  <2>1. PICK a, b : a = [u \in UE |-> call[u].ran] /\ b = [u \in UE |-> call[u].out]
      OBVIOUS
  <2>2. \A u \in UE : a[u] = call[u].ran /\ b[u] = call[u].out
      BY <2>1
  <2>3. MmeUsed = ({a[u] : u \in UE} \cup {b[u] : u \in UE}) \ {0}
    <3>1. MmeUsed = ({call[u].ran : u \in UE} \cup {call[u].out : u \in UE}) \ {0}
        BY <1>1, <1>2, MmeUsedIs
    <3> QED
        BY <2>2, <3>1
  <2>4. mme_armed = {f \in Fd : mme_fdmap[f] # None}
      BY <1>3 DEF Armed
  <2>5. \A u \in UE : a[u] \in {0} \cup Fd /\ b[u] \in {0} \cup Fd
      BY <1>4, <2>2 DEF Call
  <2>6. \A f \in Fd : mme_fdmap[f] # None => \E u \in UE : f \in {a[u], b[u]}
      BY <1>3, <2>2 DEF NoStrays
  <2>7. /\ \A u, v \in UE : a[u] # 0 => a[u] # b[v]
        /\ \A u, v \in UE : u # v /\ a[u] # 0 => a[u] # a[v]
        /\ \A u, v \in UE : u # v /\ b[u] # 0 => b[u] # b[v]
      BY <1>3, <2>2 DEF Apart
  <2>8. ASSUME NEW u \in UE
        PROVE  /\ a[u] # 0 /\ mme_fdmap[a[u]] # None =>
                     mme_fdmap[a[u]].initial_fd = b[u] /\ (b[u] # 0 => mme_fdmap[b[u]] = None)
               /\ b[u] # 0 /\ mme_fdmap[b[u]] # None =>
                     mme_fdmap[b[u]].initial_fd = a[u] /\ a[u] # 0
               /\ a[u] # 0 /\ mme_fdmap[a[u]] = None => b[u] # 0 /\ mme_fdmap[b[u]] # None
               /\ b[u] # 0 /\ mme_fdmap[b[u]] = None => a[u] # 0 /\ mme_fdmap[a[u]] # None
    <3>1. PICK c \in Call : c = call[u] /\ CallOK(u, c) /\ a[u] = c.ran /\ b[u] = c.out
        BY <1>4, <2>2
    <3>2. /\ c.ran # 0 <=> c.at \in 2 .. 26
          /\ c.out # 0 <=> c.at \in (3 .. 5) \cup (10 .. 26)
          /\ c.ran # 0 => mme_fdmap[c.ran] = RanEntry(c)
          /\ c.out # 0 => mme_fdmap[c.out] = OutEntry(u, c)
        BY <3>1, MmeAt
    <3>3. \/ c.at \in (0 .. 1) \cup {27}
          \/ c.at = 2 \/ c.at \in 6 .. 9
          \/ c.at \in (3 .. 5) \cup (10 .. 15) \cup (18 .. 19) \cup (23 .. 26)
          \/ c.at \in (16 .. 17) \cup (20 .. 22)
        BY CallNumbers
    <3>4. MmeData \cap {None} = {} /\ RanEntry(c) \in MmeData \cup {None}
          /\ OutEntry(u, c) \in MmeData \cup {None}
        BY KbyMmeNoneAssumption, MmeEntries
    <3>5. ASSUME c.at \in (3 .. 5) \cup (10 .. 15) \cup (18 .. 19) \cup (23 .. 26)
          PROVE  /\ RanEntry(c) = None /\ OutEntry(u, c) # None /\ OutEntry(u, c).initial_fd = c.ran
                 /\ c.ran # 0 /\ c.out # 0
      <4>1. RanEntry(c) = None
          BY <3>5 DEF RanEntry
      <4>2. OutEntry(u, c) # None
          BY <3>5, OutIsEntry
      <4>3. OutEntry(u, c).initial_fd = c.ran
          BY <3>5 DEF OutEntry, Waiting
      <4> QED
          BY <3>2, <3>5, <4>1, <4>2, <4>3
    <3>6. ASSUME c.at \in (16 .. 17) \cup (20 .. 22)
          PROVE  /\ OutEntry(u, c) = None /\ RanEntry(c) # None /\ RanEntry(c).initial_fd = c.out
                 /\ c.ran # 0 /\ c.out # 0
      <4>1. OutEntry(u, c) = None
          BY <3>6 DEF OutEntry
      <4>2. RanEntry(c) # None
          BY <3>6, MmeEntries DEF RanEntry
      <4>3. RanEntry(c).initial_fd = c.out
          BY <3>6 DEF RanEntry, FromRan
      <4> QED
          BY <3>2, <3>6, <4>1, <4>2, <4>3
    <3>7. ASSUME c.at = 2 \/ c.at \in 6 .. 9
          PROVE  c.out = 0 /\ c.ran # 0 /\ RanEntry(c) # None /\ RanEntry(c).initial_fd = 0
      <4>1. RanEntry(c) # None
          BY <3>7, MmeEntries DEF RanEntry
      <4>2. RanEntry(c).initial_fd = 0
          BY <3>7 DEF RanEntry, FromRan
      <4> QED
          BY <3>2, <3>7, <4>1, <4>2
    <3>8. ASSUME c.at \in (0 .. 1) \cup {27} PROVE c.ran = 0 /\ c.out = 0
        BY <3>2, <3>8
    <3> QED
        BY <3>1, <3>2, <3>3, <3>5, <3>6, <3>7, <3>8
  <2> QED
      BY <2>3, <2>4, <2>5, <2>6, <2>7, <2>8, PairsAccounted
<1>6. Accounted(sgw_fdmap, sgw_armed, SgwUsed)
  <2>1. PICK a, b : a = [u \in UE |-> call[u].mme] /\ b = [u \in UE |-> call[u].pgw]
      OBVIOUS
  <2>2. \A u \in UE : a[u] = call[u].mme /\ b[u] = call[u].pgw
      BY <2>1
  <2>3. SgwUsed = ({a[u] : u \in UE} \cup {b[u] : u \in UE}) \ {0}
    <3>1. SgwUsed = ({call[u].mme : u \in UE} \cup {call[u].pgw : u \in UE}) \ {0}
        BY <1>1, <1>2, SgwUsedIs
    <3> QED
        BY <2>2, <3>1
  <2>4. sgw_armed = {f \in Fd : sgw_fdmap[f] # None}
      BY <1>3 DEF Armed
  <2>5. \A u \in UE : a[u] \in {0} \cup Fd /\ b[u] \in {0} \cup Fd
      BY <1>4, <2>2 DEF Call
  <2>6. \A f \in Fd : sgw_fdmap[f] # None => \E u \in UE : f \in {a[u], b[u]}
      BY <1>3, <2>2 DEF NoStrays
  <2>7. /\ \A u, v \in UE : a[u] # 0 => a[u] # b[v]
        /\ \A u, v \in UE : u # v /\ a[u] # 0 => a[u] # a[v]
        /\ \A u, v \in UE : u # v /\ b[u] # 0 => b[u] # b[v]
      BY <1>3, <2>2 DEF Apart
  <2>8. ASSUME NEW u \in UE
        PROVE  /\ a[u] # 0 /\ sgw_fdmap[a[u]] # None =>
                     sgw_fdmap[a[u]].initial_fd = b[u] /\ (b[u] # 0 => sgw_fdmap[b[u]] = None)
               /\ b[u] # 0 /\ sgw_fdmap[b[u]] # None =>
                     sgw_fdmap[b[u]].initial_fd = a[u] /\ a[u] # 0
               /\ a[u] # 0 /\ sgw_fdmap[a[u]] = None => b[u] # 0 /\ sgw_fdmap[b[u]] # None
               /\ b[u] # 0 /\ sgw_fdmap[b[u]] = None => a[u] # 0 /\ sgw_fdmap[a[u]] # None
    <3>1. PICK c \in Call : c = call[u] /\ CallOK(u, c) /\ a[u] = c.mme /\ b[u] = c.pgw
        BY <1>4, <2>2
    <3>2. /\ c.mme # 0 => c.at \in 10 .. 25 /\ sgw_fdmap[c.mme] = MmeEntry(c)
          /\ c.mme = 0 => c.at \notin 12 .. 25
          /\ c.pgw # 0 <=> c.at \in 12 .. 25
          /\ c.pgw # 0 => sgw_fdmap[c.pgw] = PgwEntry(u, c)
        BY <3>1, SgwAt
    <3>3. \/ c.mme = 0 /\ c.pgw = 0
          \/ c.mme # 0 /\ c.at \in 10 .. 11
          \/ c.mme # 0 /\ c.at \in (12 .. 14) \cup (24 .. 25)
          \/ c.mme # 0 /\ c.at \in 15 .. 23
        BY <3>2
    <3>4. ASSUME c.mme # 0, c.at \in (12 .. 14) \cup (24 .. 25)
          PROVE  MmeEntry(c) = None /\ PgwEntry(u, c) # None /\ PgwEntry(u, c).initial_fd = c.mme
      <4>1. MmeEntry(c) = None
          BY <3>4 DEF MmeEntry
      <4>2. PgwEntry(u, c) # None
          BY <3>4, SgwEntries
      <4>3. PgwEntry(u, c).initial_fd = c.mme
          BY <3>4 DEF PgwEntry
      <4> QED
          BY <4>1, <4>2, <4>3
    <3>5. ASSUME c.mme # 0, c.at \in 15 .. 23
          PROVE  PgwEntry(u, c) = None /\ MmeEntry(c) # None /\ MmeEntry(c).initial_fd = c.pgw
      <4>1. PgwEntry(u, c) = None
          BY <3>5 DEF PgwEntry
      <4>2. MmeEntry(c) # None
          BY <3>5, SgwEntries
      <4>3. MmeEntry(c).initial_fd = c.pgw
          BY <3>5 DEF MmeEntry, FromMme
      <4> QED
          BY <4>1, <4>2, <4>3
    <3>6. ASSUME c.mme # 0, c.at \in 10 .. 11
          PROVE  c.pgw = 0 /\ MmeEntry(c) # None /\ MmeEntry(c).initial_fd = 0
      <4>1. MmeEntry(c) # None
          BY <3>6, SgwEntries
      <4>2. MmeEntry(c).initial_fd = 0
          BY <3>6 DEF MmeEntry, FromMme
      <4> QED
          BY <3>2, <3>6, <4>1, <4>2
    <3> QED
        BY <3>1, <3>2, <3>3, <3>4, <3>5, <3>6
  <2> QED
      BY <2>3, <2>4, <2>5, <2>6, <2>7, <2>8, PairsAccounted
<1>7. pgw_armed = pgw_fdmap /\ pgw_armed = PgwUsed
  <2>1. PgwUsed = {call[u].sgw : u \in UE} \ {0}
      BY <1>1, <1>2, PgwUsedIs
  <2>2. \A u \in UE : call[u].sgw # 0 => call[u].sgw \in pgw_fdmap
      BY <1>4, PgwAt
  <2>3. \A f \in pgw_fdmap : f # 0 /\ \E u \in UE : f = call[u].sgw
      BY <1>1, <1>3, Names DEF NoStrays, TypeOK, KbyPgwTypeOK
  <2> QED
      BY <1>3, <2>1, <2>2, <2>3 DEF Armed
<1>8. /\ \A f \in mme_armed : mme_fdmap[f] # None
      /\ \A f \in sgw_armed : sgw_fdmap[f] # None
    BY <1>3 DEF Armed
<1> QED
    BY <1>5, <1>6, <1>7, <1>8 DEF FdsAccounted

\* FdsAccounted: no descriptor is leaked, left behind or shared, whatever the order of
\* the events.
THEOREM DescriptorsAccounted == ASSUME Addressable PROVE Spec => []FdsAccounted
<1>1. KbyInv => FdsAccounted
    BY CallFds DEF KbyInv, FdsAccounted
<1> QED
    BY <1>1, CallInvariance, PTL

\* What the invariant says of one subscriber.
LEMMA CallOf ==
    ASSUME NEW call \in [UE -> Call], Calls(call), NEW u \in UE
    PROVE  \E c \in Call : c = call[u] /\ CallOK(u, c)
BY DEF Calls

\* The PGW has a session from its answer to a create until it takes the detach.
LEMMA PgwServes ==
    ASSUME NEW u \in UE, NEW c \in Call, CallOK(u, c)
    PROVE  /\ c.at \in 14 .. 24 => /\ pgw_s5_id[u] = u /\ sgi_id[u] = u
                                  /\ pgw_ctx[u] = [teid |-> u, ip_addr |-> u]
                                  /\ pgw_ctx[u].teid = u /\ pgw_ctx[u].ip_addr = u
           /\ c.at \notin 14 .. 24 => pgw_s5_id[u] = 0 /\ sgi_id[u] = 0 /\ pgw_ctx[u] = None
<1>1. /\ \A table \in {pgw_s5_id, sgi_id} : table[u] = IF c.at \in 14 .. 24 THEN u ELSE 0
      /\ pgw_ctx[u] = IF c.at \in 14 .. 24 THEN [teid |-> u, ip_addr |-> u] ELSE None
    BY DEF CallOK, PgwOK
<1>2. CASE c.at \in 14 .. 24
    BY <1>1, <1>2
<1>3. CASE c.at \notin 14 .. 24
    BY <1>1, <1>3
<1> QED
    BY <1>2, <1>3

-----------------------------------------------------------------------------
(* Answers.                                                                *)

\* The answers of the MME, field by field.
LEMMA S1Answers ==
    ASSUME NEW u, NEW c
    PROVE  /\ c.at = 6  => S1Down(u, c) = Fields(1, c.id, u, 0, 0, 0)
           /\ c.at = 8  => S1Down(u, c) = Fields(2, c.id, 0, 0, 0, 0)
           /\ c.at = 16 => S1Down(u, c) = Fields(3, 0, u, u, 0, u)
           /\ c.at = 20 => S1Down(u, c) = Fields(4, 0, u, 0, 0, 0)
           /\ c.at = 27 => S1Down(u, c) = Fields(5, 0, u, 0, 0, 0)
           /\ S1Down(u, c) # None => c.at \in {6, 8, 16, 20, 27}
<1>1. ASSUME c.at = 6 PROVE S1Down(u, c) = [Msg(1) EXCEPT !.id = c.id, !.imsi = u]
    BY <1>1 DEF S1Down
<1>2. ASSUME c.at = 8 PROVE S1Down(u, c) = [Msg(2) EXCEPT !.id = c.id]
    BY <1>2 DEF S1Down
<1>3. ASSUME c.at = 16 PROVE S1Down(u, c) = [Msg(3) EXCEPT !.imsi = u, !.teid = u, !.ip = u]
    BY <1>3 DEF S1Down
<1>4. ASSUME c.at = 20 PROVE S1Down(u, c) = [Msg(4) EXCEPT !.imsi = u]
    BY <1>4 DEF S1Down
<1>5. ASSUME c.at = 27 PROVE S1Down(u, c) = [Msg(5) EXCEPT !.imsi = u]
    BY <1>5 DEF S1Down
<1>6. /\ [Msg(4) EXCEPT !.imsi = u] = Fields(4, 0, u, 0, 0, 0)
      /\ [Msg(5) EXCEPT !.imsi = u] = Fields(5, 0, u, 0, 0, 0)
      /\ [Msg(2) EXCEPT !.id = c.id] = Fields(2, c.id, 0, 0, 0, 0)
    BY MsgImsi, MsgId
<1>7. [Msg(1) EXCEPT !.id = c.id, !.imsi = u] = Fields(1, c.id, u, 0, 0, 0)
    BY MsgIdImsi
<1>8. [Msg(3) EXCEPT !.imsi = u, !.teid = u, !.ip = u] = Fields(3, 0, u, u, 0, u)
  <2>1. [Msg(3) EXCEPT !.imsi = u] = Fields(3, 0, u, 0, 0, 0)
      BY MsgImsi
  <2>2. [Fields(3, 0, u, 0, 0, 0) EXCEPT !.teid = u] = Fields(3, 0, u, u, 0, 0)
      BY DEF Fields
  <2>3. [Fields(3, 0, u, u, 0, 0) EXCEPT !.ip = u] = Fields(3, 0, u, u, 0, u)
      BY DEF Fields
  <2> QED
      BY <2>1, <2>2, <2>3
<1>9. S1Down(u, c) # None => c.at \in {6, 8, 16, 20, 27}
    BY DEF S1Down
<1> QED
    BY <1>1, <1>2, <1>3, <1>4, <1>5, <1>6, <1>7, <1>8, <1>9, Zenon

\* What a terminal waits for in a step of its call.
LEMMA PcExpects ==
    /\ Pc(6) = "authenticate" /\ Pc(8) = "set_security" /\ Pc(16) = "set_eps_session"
    /\ Pc(20) = "attach_complete" /\ Pc(27) = "detach"
<1>1. Pc(6) = "authenticate"
    BY DEF Pc
<1>2. Pc(8) = "set_security"
    BY DEF Pc
<1>3. Pc(16) = "set_eps_session"
    BY DEF Pc
<1>4. Pc(20) = "attach_complete"
    BY DEF Pc
<1>5. Pc(27) = "detach"
    BY DEF Pc
<1> QED
    BY <1>1, <1>2, <1>3, <1>4, <1>5

\* AnswersMatch follows from the invariant.
LEMMA CallAnswers == CallInv => AnswersMatch
<1> SUFFICES ASSUME CallInv, NEW u \in UE, s1[u].down # None
             PROVE  /\ ran_pc[u] \in DOMAIN Expected
                    /\ s1[u].down.type = Expected[ran_pc[u]]
                    /\ s1[u].down.imsi \in {0, u}
                    /\ s1[u].down.id # 0 => s1mme_id[s1[u].down.id] = u
    BY DEF AnswersMatch
<1>1. PICK call \in [UE -> Call] : Calls(call)
    BY DEF CallInv
<1>2. PICK c \in Call : c = call[u] /\ CallOK(u, c)
    BY <1>1, CallOf
<1>3. ran_pc[u] = Pc(c.at) /\ s1[u].down = S1Down(u, c)
    BY <1>2, RanAt
<1>4. c.at \in {6, 8, 16, 20, 27}
    BY <1>3, S1Answers
<1>5. ran_pc[u] \in DOMAIN Expected /\ s1[u].down.type = Expected[ran_pc[u]]
      /\ s1[u].down.imsi \in {0, u} /\ s1[u].down.id \in {0, c.id}
  <2>1. CASE c.at = 6
    <3>1. ran_pc[u] = "authenticate" /\ s1[u].down = Fields(1, c.id, u, 0, 0, 0)
        BY <1>3, <2>1, S1Answers, PcExpects
    <3> QED
        BY <3>1 DEF Fields, Expected
  <2>2. CASE c.at = 8
    <3>1. ran_pc[u] = "set_security" /\ s1[u].down = Fields(2, c.id, 0, 0, 0, 0)
        BY <1>3, <2>2, S1Answers, PcExpects
    <3> QED
        BY <3>1 DEF Fields, Expected
  <2>3. CASE c.at = 16
    <3>1. ran_pc[u] = "set_eps_session" /\ s1[u].down = Fields(3, 0, u, u, 0, u)
        BY <1>3, <2>3, S1Answers, PcExpects
    <3> QED
        BY <3>1 DEF Fields, Expected
  <2>4. CASE c.at = 20
    <3>1. ran_pc[u] = "attach_complete" /\ s1[u].down = Fields(4, 0, u, 0, 0, 0)
        BY <1>3, <2>4, S1Answers, PcExpects
    <3> QED
        BY <3>1 DEF Fields, Expected
  <2>5. CASE c.at = 27
    <3>1. ran_pc[u] = "detach" /\ s1[u].down = Fields(5, 0, u, 0, 0, 0)
        BY <1>3, <2>5, S1Answers, PcExpects
    <3> QED
        BY <3>1 DEF Fields, Expected
  <2> QED
      BY <1>4, <2>1, <2>2, <2>3, <2>4, <2>5
<1>6. c.id # 0 => s1mme_id[c.id] = u
  <2>1. c.id \in {0} \cup UeId
      BY DEF Call
  <2>2. \A i \in UeId : s1mme_id[i] = u <=> i = c.id
      BY <1>2, MmeAt
  <2> QED
      BY <2>1, <2>2
<1> QED
    BY <1>5, <1>6

\* AnswersMatch: the next answer on a terminal's connection is of the type it waits
\* for, and for it.
THEOREM AnswersFit == ASSUME Addressable PROVE Spec => []AnswersMatch
<1>1. KbyInv => AnswersMatch
    BY CallAnswers DEF KbyInv, AnswersMatch
<1> QED
    BY <1>1, CallInvariance, PTL

-----------------------------------------------------------------------------
(* Entries.                                                                *)

\* An entry of the MME that waits for HSS or SGW is that of the terminal it names.
LEMMA MmeEntryOf ==
    ASSUME CallInv, NEW f \in mme_armed, NEW u \in UE, mme_fdmap[f].act # 1,
           mme_fdmap[f].initial_fd = s1[u].srv
    PROVE  /\ s1mme_id[mme_fdmap[f].msui] = u
           /\ mme_fdmap[f].buf # None => mme_fdmap[f].buf.imsi = u
<1>1. PICK call \in [UE -> Call] : Calls(call)
    BY DEF CallInv
<1>2. f \in Fd /\ mme_fdmap[f] # None /\ mme_fdmap[f].act # 1
    BY <1>1 DEF Calls, Armed
<1>3. PICK v \in UE : f = call[v].out
    BY <1>1, <1>2, MmeWaits
<1>4. PICK c \in Call : c = call[v] /\ CallOK(v, c)
    BY <1>1, CallOf
<1>5. PICK d \in Call : d = call[u] /\ CallOK(u, d)
    BY <1>1, CallOf
<1>6. f = c.out /\ c.out # 0 /\ mme_fdmap[c.out] # None
    BY <1>2, <1>3, <1>4, Names
<1>7. mme_fdmap[f] = OutEntry(v, c) /\ mme_fdmap[f].initial_fd = c.ran /\ mme_fdmap[f].msui = c.id
    BY <1>4, <1>6, MmeStage, MmeAt
<1>8. c.ran # 0 /\ c.id # 0
    BY <1>4, <1>6, MmeAt
<1>9. u = v
  <2>1. d.ran = c.ran
      BY <1>5, <1>7, RanAt
  <2> QED
      BY <1>1, <1>4, <1>5, <1>8, <2>1 DEF Calls, Apart
<1>10. s1mme_id[c.id] = u
  <2>1. c.id \in UeId
      BY <1>8 DEF Call
  <2> QED
      BY <1>4, <1>9, <2>1, MmeAt
<1>11. mme_fdmap[f].buf # None => mme_fdmap[f].buf.imsi = u
  <2>1. [Msg(1) EXCEPT !.imsi = v].imsi = v /\ [Msg(1) EXCEPT !.teid = v, !.imsi = v].imsi = v
      BY DEF Msg
  <2>2. /\ OutEntry(v, c) # None
        /\ OutEntry(v, c).buf # None =>
              OutEntry(v, c).buf \in {[Msg(1) EXCEPT !.imsi = v], [Msg(1) EXCEPT !.teid = v, !.imsi = v]}
      BY <1>2, <1>7 DEF OutEntry, Waiting
  <2> QED
      BY <1>7, <1>9, <2>1, <2>2
<1> QED
    BY <1>7, <1>10, <1>11

\* An entry of the SGW that waits for the PGW leads to the MME's entry of the same
\* terminal.
LEMMA SgwEntryOf ==
    ASSUME CallInv, NEW g \in sgw_armed, NEW f \in Fd, sgw_fdmap[g].act # 1,
           sgw_fdmap[g].initial_fd = s11[f].srv
    PROVE  /\ mme_fdmap[f] # None
           /\ sgw_fdmap[g].guti \in UE
           /\ s1[sgw_fdmap[g].guti].srv = mme_fdmap[f].initial_fd
           /\ sgw_fdmap[g].tid = sgw_fdmap[g].guti
<1>1. TypeOK /\ \E call \in [UE -> Call] : Calls(call)
    BY DEF CallInv
<1>2. PICK call \in [UE -> Call] : Calls(call)
    BY <1>1
<1>3. g \in Fd /\ sgw_fdmap[g] # None
    BY <1>2 DEF Calls, Armed
<1>4. PICK w \in UE : g \in {call[w].mme, call[w].pgw}
    BY <1>2, <1>3 DEF Calls, NoStrays
<1>5. PICK c \in Call : c = call[w] /\ CallOK(w, c) /\ g \in {c.mme, c.pgw} /\ g # 0
    BY <1>2, <1>3, <1>4, CallOf, Names
<1>6. g = c.pgw
  <2>1. ASSUME g = c.mme PROVE FALSE
    <3>1. sgw_fdmap[g] = MmeEntry(c)
        BY <1>5, <2>1, SgwAt
    <3>2. MmeEntry(c).act = 1
        BY <1>3, <3>1 DEF MmeEntry, FromMme
    <3> QED
        BY <3>1, <3>2
  <2> QED
      BY <1>5, <2>1
<1>7. c.mme # 0 /\ c.at \in 12 .. 25 /\ sgw_fdmap[g] = PgwEntry(w, c)
    BY <1>5, <1>6, SgwAt
<1>8. /\ c.at \in (12 .. 14) \cup (24 .. 25)
      /\ sgw_fdmap[g].initial_fd = c.mme /\ sgw_fdmap[g].tid = w /\ sgw_fdmap[g].guti = w
    BY <1>3, <1>7 DEF PgwEntry
<1>9. f = c.out
  <2>1. s11[f].srv = c.mme
      BY <1>8
  <2>2. PICK v \in UE : f = call[v].out /\ s11[f].srv = call[v].mme
      BY <1>1, <1>2, <1>7, <2>1, S11Servers
  <2>3. v = w
      BY <1>2, <1>5, <1>7, <2>1, <2>2 DEF Calls, Apart
  <2> QED
      BY <1>5, <2>2, <2>3
<1>10. mme_fdmap[f] = OutEntry(w, c) /\ mme_fdmap[f] # None
  <2>1. c.out # 0 /\ mme_fdmap[c.out] = OutEntry(w, c)
      BY <1>5, <1>8, MmeAt
  <2>2. OutEntry(w, c) # None
      BY <1>8, OutIsEntry
  <2> QED
      BY <1>9, <2>1, <2>2
<1>11. mme_fdmap[f].initial_fd = c.ran /\ s1[w].srv = c.ran
    BY <1>5, <1>9, <1>10, MmeStage, MmeAt, RanAt, Names
<1> QED
    BY <1>8, <1>10, <1>11

\* CallsKeptApart: along the descriptors of a call every entry names the subscriber at
\* its end, however the loops interleave the calls.
THEOREM CallsApart == ASSUME Addressable PROVE Spec => []CallsKeptApart
<1>1. KbyInv => CallsKeptApart
    BY MmeEntryOf, SgwEntryOf DEF KbyInv, CallsKeptApart
<1> QED
    BY <1>1, CallInvariance, PTL

-----------------------------------------------------------------------------
(* The path of an attached terminal.                                       *)

\* BearerConnected follows from the invariant.
LEMMA CallPath == CallInv => BearerConnected
<1> SUFFICES ASSUME CallInv, NEW u \in UE, ran_pc[u] = "attached",
                    NEW f, f = mme_fdmap[s1[u].srv].initial_fd,
                    NEW g, g = sgw_fdmap[s11[f].srv].initial_fd
             PROVE  /\ s5[g].srv \in pgw_armed
                    /\ s1mme_id[ran_ctx[u].id] = ran_ctx[u].guti
                    /\ mme_ctx[u].ecm_state = 1
                    /\ mme_ctx[u].s11_cteid_sgw = sgw_ctx[u].teid
                    /\ mme_ctx[u].s1_uteid_dl = sgw_ctx[u].s1_uteid_dl
                    /\ ran_ctx[u].s1_uteid_ul = sgw_ctx[u].teid
                    /\ \A table \in {s11_id, s1_id, s5_id} : table[sgw_ctx[u].teid] = u
                    /\ sgw_ctx[u].s5_ul = pgw_ctx[u].teid
                    /\ pgw_s5_id[pgw_ctx[u].teid] = u
                    /\ ran_ctx[u].ip = pgw_ctx[u].ip_addr /\ sgi_id[ran_ctx[u].ip] = u
    BY DEF BearerConnected
<1>1. TypeOK /\ \E call \in [UE -> Call] : Calls(call)
    BY DEF CallInv
<1>2. PICK call \in [UE -> Call] : Calls(call)
    BY <1>1
<1>3. PICK c \in Call : c = call[u] /\ CallOK(u, c)
    BY <1>2, CallOf
<1>4. c.at = 21
    BY <1>3, RanStage
<1>5. /\ c.ran # 0 /\ c.out # 0 /\ c.id # 0 /\ c.mme # 0 /\ c.pgw # 0 /\ c.sgw # 0
      /\ c.out \in Fd /\ c.pgw \in Fd /\ c.id \in UeId
  <2>1. c.ran # 0 /\ c.out # 0 /\ c.id # 0
      BY <1>3, <1>4, MmeAt
  <2>2. c.mme # 0 /\ c.pgw # 0
      BY <1>3, <1>4, SgwAt
  <2>3. c.sgw # 0
    <3>1. c.sgw = 0 => c.at \notin 14 .. 24
        BY <1>3 DEF CallOK, FdsOK
    <3> QED
        BY <1>4, <3>1
  <2> QED
      BY <2>1, <2>2, <2>3 DEF Call
<1>6. f = c.out
  <2>1. s1[u].srv = c.ran /\ mme_fdmap[c.ran] = RanEntry(c)
      BY <1>3, <1>5, RanAt, MmeAt
  <2>2. RanEntry(c).initial_fd = c.out
      BY <1>4 DEF RanEntry, FromRan
  <2> QED
      BY <2>1, <2>2
<1>7. g = c.pgw
  <2>1. s11[c.out].srv = c.mme
      BY <1>1, <1>2, <1>3, <1>5, S11Servers
  <2>2. sgw_fdmap[c.mme] = MmeEntry(c)
      BY <1>3, <1>5, SgwAt
  <2>3. MmeEntry(c).initial_fd = c.pgw
      BY <1>4 DEF MmeEntry, FromMme
  <2> QED
      BY <1>6, <2>1, <2>2, <2>3
<1>8. s5[g].srv \in pgw_armed
  <2>1. s5[c.pgw].srv = c.sgw
      BY <1>1, <1>2, <1>3, <1>5, S5Servers
  <2>2. c.sgw \in pgw_fdmap /\ pgw_armed = pgw_fdmap
      BY <1>2, <1>3, <1>5, PgwAt DEF Calls, Armed
  <2> QED
      BY <1>7, <2>1, <2>2
<1>9. /\ ran_ctx[u].id = c.id /\ ran_ctx[u].guti = u /\ ran_ctx[u].s1_uteid_ul = u
      /\ ran_ctx[u].ip = u
    BY <1>3, <1>4 DEF CallOK, RanOK
<1>10. /\ s1mme_id[c.id] = u /\ mme_ctx[u].ecm_state = 1
       /\ mme_ctx[u].s11_cteid_sgw = u /\ mme_ctx[u].s1_uteid_dl = u
    BY <1>3, <1>4, <1>5, MmeAt DEF MmeCtxOK
<1>11. /\ s11_id[u] = u /\ s1_id[u] = u /\ s5_id[u] = u
       /\ sgw_ctx[u].teid = u /\ sgw_ctx[u].s5_ul = u /\ sgw_ctx[u].s1_uteid_dl = u
    BY <1>3, <1>4, SgwAt
<1>12. pgw_s5_id[u] = u /\ sgi_id[u] = u /\ pgw_ctx[u].teid = u /\ pgw_ctx[u].ip_addr = u
  <2>1. c.at \in 14 .. 24
      BY <1>4
  <2> QED
      BY <1>3, <2>1, PgwServes, Zenon
<1> QED
    BY <1>8, <1>9, <1>10, <1>11, <1>12

\* BearerConnected: the connections of an attached terminal lead from one node to the
\* next, and the tables of all nodes agree with each other and with the terminal.
THEOREM PathConnected == ASSUME Addressable PROVE Spec => []BearerConnected
<1>1. KbyInv => BearerConnected
    BY CallPath DEF KbyInv, BearerConnected
<1> QED
    BY <1>1, CallInvariance, PTL

-----------------------------------------------------------------------------
(* The end of a round.                                                     *)

\* A terminal that is idle has no call, and nothing stands under it.
LEMMA IdleCall ==
    ASSUME NEW call \in [UE -> Call], Calls(call), NEW u \in UE, ran_pc[u] = "idle"
    PROVE  /\ call[u].ran = 0 /\ call[u].out = 0
           /\ call[u].mme = 0 /\ call[u].pgw = 0 /\ call[u].sgw = 0
           /\ \A i \in UeId : s1mme_id[i] # u
           /\ s11_id[u] = 0 /\ s1_id[u] = 0 /\ s5_id[u] = 0 /\ pgw_s5_id[u] = 0 /\ sgi_id[u] = 0
           /\ mme_ctx[u] = None /\ sgw_ctx[u] = None /\ pgw_ctx[u] = None
<1>1. PICK c \in Call : c = call[u] /\ CallOK(u, c)
    BY CallOf
<1>2. c.at = 0
    BY <1>1, RanStage
<1>3. c.ran = 0 /\ c.out = 0 /\ c.id = 0 /\ mme_ctx[u] = None
    BY <1>1, <1>2, MmeAt
<1>4. \A i \in UeId : s1mme_id[i] # u
    BY <1>1, <1>3, MmeAt, Names
<1>5. /\ c.mme = 0 /\ c.pgw = 0 /\ sgw_ctx[u] = None
      /\ s11_id[u] = 0 /\ s1_id[u] = 0 /\ s5_id[u] = 0
    BY <1>1, <1>2, SgwAt
<1>6. c.sgw = 0 /\ pgw_s5_id[u] = 0 /\ sgi_id[u] = 0 /\ pgw_ctx[u] = None
  <2>1. c.sgw = 0
      BY <1>1, <1>2 DEF CallOK, FdsOK
  <2>2. c.at \notin 14 .. 24
      BY <1>2
  <2>3. pgw_s5_id[u] = 0 /\ sgi_id[u] = 0 /\ pgw_ctx[u] = None
      BY <1>1, <2>2, PgwServes, Zenon
  <2> QED
      BY <1>1, <2>1, <2>3
<1> QED
    BY <1>1, <1>3, <1>4, <1>5, <1>6

\* A table by TEID or address has a subscriber's entry under its own number only.
LEMMA OwnKey ==
    ASSUME NEW call \in [UE -> Call], Calls(call), TypeOK, NEW u \in UE,
           NEW table \in {s11_id, s1_id, s5_id, pgw_s5_id, sgi_id}
    PROVE  u \in Range(table) <=> table[u] = u
<1>1. DOMAIN table \in {UE, Teid} /\ UE \subseteq Teid
    BY Names DEF TypeOK, KbySgwTypeOK, KbyPgwTypeOK
<1>2. ASSUME NEW x \in UE PROVE table[x] \in {0, x}
  <2>1. PICK c \in Call : c = call[x] /\ CallOK(x, c)
      BY CallOf
  <2>2. s11_id[x] \in {0, x} /\ s1_id[x] \in {0, x} /\ s5_id[x] \in {0, x}
      BY <2>1, SgwAt
  <2>3. pgw_s5_id[x] \in {0, x} /\ sgi_id[x] \in {0, x}
      BY <2>1, PgwAt
  <2> QED
      BY <2>2, <2>3
<1>3. u # 0
    BY Names
<1>4. 0 \in DOMAIN table => table[0] = 0
  <2>1. sgi_id[0] = 0
      BY CallOf DEF CallOK, PgwOK
  <2>2. table # sgi_id => DOMAIN table = UE
      BY DEF TypeOK, KbySgwTypeOK, KbyPgwTypeOK
  <2> QED
      BY <2>1, <2>2, Names
<1>5. \A x \in DOMAIN table : table[x] = u => x = u
    BY <1>1, <1>2, <1>3, <1>4 DEF Teid
<1> QED
    BY <1>1, <1>5 DEF Range

\* NoResidue follows from the invariant.
LEMMA CallResidue == CallInv => NoResidue
<1> SUFFICES ASSUME CallInv PROVE NoResidue
    OBVIOUS
<1>1. TypeOK /\ \E call \in [UE -> Call] : Calls(call)
    BY DEF CallInv
<1>2. PICK call \in [UE -> Call] : Calls(call)
    BY <1>1
<1>3. ASSUME NEW u \in UE, ran_pc[u] = "idle"
      PROVE  /\ u \notin Range(s1mme_id) \cup Range(s11_id) \cup Range(s1_id) \cup Range(s5_id)
                         \cup Range(pgw_s5_id) \cup Range(sgi_id)
             /\ mme_ctx[u] = None /\ sgw_ctx[u] = None /\ pgw_ctx[u] = None
  <2>1. u \notin Range(s1mme_id)
    <3>1. DOMAIN s1mme_id = UeId
        BY <1>1 DEF TypeOK, KbyMmeTypeOK
    <3>2. \A i \in UeId : s1mme_id[i] # u
        BY <1>2, <1>3, IdleCall
    <3> QED
        BY <3>1, <3>2 DEF Range
  <2>2. \A table \in {s11_id, s1_id, s5_id, pgw_s5_id, sgi_id} : table[u] # u
      BY <1>2, <1>3, IdleCall, Names
  <2>3. \A table \in {s11_id, s1_id, s5_id, pgw_s5_id, sgi_id} : u \notin Range(table)
      BY <1>1, <1>2, <2>2, OwnKey
  <2>4. mme_ctx[u] = None /\ sgw_ctx[u] = None /\ pgw_ctx[u] = None
      BY <1>2, <1>3, IdleCall
  <2> QED
      BY <2>1, <2>3, <2>4
<1>4. ASSUME \A u \in UE : ran_pc[u] = "idle" PROVE MmeUsed \cup SgwUsed \cup PgwUsed = {}
  <2>1. \A u \in UE : /\ call[u].ran = 0 /\ call[u].out = 0
                      /\ call[u].mme = 0 /\ call[u].pgw = 0 /\ call[u].sgw = 0
      BY <1>2, <1>4, IdleCall
  <2>2. /\ MmeUsed = ({call[u].ran : u \in UE} \cup {call[u].out : u \in UE}) \ {0}
        /\ SgwUsed = ({call[u].mme : u \in UE} \cup {call[u].pgw : u \in UE}) \ {0}
        /\ PgwUsed = {call[u].sgw : u \in UE} \ {0}
      BY <1>1, <1>2, MmeUsedIs, SgwUsedIs, PgwUsedIs
  <2>3. MmeUsed = {}
      BY <2>1, <2>2
  <2>4. SgwUsed = {}
      BY <2>1, <2>2
  <2>5. PgwUsed = {}
      BY <2>1, <2>2
  <2> QED
      BY <2>3, <2>4, <2>5
<1> QED
    BY <1>3, <1>4 DEF NoResidue

\* NoResidue: a terminal that has read the answer to its detach left no trace at any
\* node, and once all have, every connection is closed.
THEOREM NothingRemains == ASSUME Addressable PROVE Spec => []NoResidue
<1>1. KbyInv => NoResidue
    BY CallResidue DEF KbyInv, NoResidue
<1> QED
    BY <1>1, CallInvariance, PTL

\* A step is one of the service's, or none of its concern.
Promised == Bearer!BearerNext \/ UNCHANGED Bearer!bearerVars

-----------------------------------------------------------------------------
(* The nodes that serve a subscriber.                                      *)

\* A node serves a subscriber when it has one of its entries, for then it has all;
\* the SGW serves none that the MME does not, and the PGW none that the SGW does not.
ServedBy(u) ==
    /\ ServingNodes(u) \subseteq Bearer!Node
    /\ "mme" \in ServingNodes(u) <=> mme_ctx[u] # None
    /\ "mme" \in ServingNodes(u) <=> u \in Range(s1mme_id)
    /\ "sgw" \in ServingNodes(u) <=> s11_id[u] = u
    /\ "pgw" \in ServingNodes(u) <=> pgw_s5_id[u] = u
    /\ "sgw" \in ServingNodes(u) => "mme" \in ServingNodes(u)
    /\ "pgw" \in ServingNodes(u) => "sgw" \in ServingNodes(u)
    /\ ran_pc[u] = "attached" => ServingNodes(u) = Bearer!Node

\* All this follows from the invariant.
LEMMA ServingIs == CallInv => \A u \in UE : ServedBy(u)
<1> SUFFICES ASSUME CallInv, NEW u \in UE PROVE ServedBy(u)
    OBVIOUS
<1>1. TypeOK /\ \E call \in [UE -> Call] : Calls(call)
    BY DEF CallInv
<1>2. PICK call \in [UE -> Call] : Calls(call)
    BY <1>1
<1>3. PICK c \in Call : c = call[u] /\ CallOK(u, c)
    BY <1>2, CallOf
<1>4. mme_ctx[u] # None <=> c.at \in 3 .. 26
    BY <1>3, MmeAt
<1>5. u \in Range(s1mme_id) <=> c.at \in 3 .. 26
  <2>1. DOMAIN s1mme_id = UeId
      BY <1>1 DEF TypeOK, KbyMmeTypeOK
  <2>2. \A i \in UeId : s1mme_id[i] = u <=> i = c.id
      BY <1>3, MmeAt
  <2>3. c.id \in {0} \cup UeId /\ 0 \notin UeId
      BY Names DEF Call
  <2>4. c.id # 0 <=> c.at \in 3 .. 26
      BY <1>3, MmeAt
  <2> HIDE DEF UeId
  <2>5. u \in Range(s1mme_id) <=> c.id \in UeId
      BY <2>1, <2>2 DEF Range
  <2> QED
      BY <2>3, <2>4, <2>5
<1>6. /\ s11_id[u] = u /\ s1_id[u] = u /\ s5_id[u] = u <=> c.at \in 12 .. 25
      /\ s11_id[u] = u <=> c.at \in 12 .. 25
      /\ sgw_ctx[u] # None <=> c.at \in 12 .. 25
    BY <1>3, SgwAt, Names
<1>7. /\ pgw_s5_id[u] = u /\ sgi_id[u] = u /\ pgw_ctx[u] # None <=> c.at \in 14 .. 24
      /\ pgw_s5_id[u] = u <=> c.at \in 14 .. 24
  <2>1. None # [teid |-> u, ip_addr |-> u]
    <3>1. [teid |-> u, ip_addr |-> u] \in PgwContext
        BY Names DEF PgwContext
    <3> QED
        BY <3>1, KbyPgwNoneAssumption
  <2>2. c.at \in 14 .. 24 =>
           pgw_s5_id[u] = u /\ sgi_id[u] = u /\ pgw_ctx[u] = [teid |-> u, ip_addr |-> u]
      BY <1>3, PgwServes, Zenon
  <2>3. c.at \notin 14 .. 24 => pgw_s5_id[u] = 0
      BY <1>3, PgwServes, Zenon
  <2>4. u # 0
      BY Names
  <2> QED
      BY <2>1, <2>2, <2>3, <2>4, Zenon
<1>8. /\ "mme" \in ServingNodes(u) <=> c.at \in 3 .. 26
      /\ "sgw" \in ServingNodes(u) <=> c.at \in 12 .. 25
      /\ "pgw" \in ServingNodes(u) <=> c.at \in 14 .. 24
      /\ ServingNodes(u) \subseteq {"mme", "sgw", "pgw"}
    BY <1>4, <1>5, <1>6, <1>7 DEF ServingNodes
<1>9. ran_pc[u] = "attached" => c.at = 21
    BY <1>3, RanStage
<1>10. c.at = 21 => ServingNodes(u) = {"mme", "sgw", "pgw"}
    BY <1>8
<1>11. c.at \in 14 .. 24 => c.at \in 12 .. 25
    OBVIOUS
<1>12. c.at \in 12 .. 25 => c.at \in 3 .. 26
    OBVIOUS
<1> QED
    BY <1>4, <1>5, <1>6, <1>7, <1>8, <1>9, <1>10, <1>11, <1>12 DEF ServedBy, Bearer!Node

\* ... after a step, too.
LEMMA ServingIsNext == CallInv' => (\A u \in UE : ServedBy(u))'
BY ServingIs, PTL

\* What the phase of a subscriber says of its call.
LEMMA PhaseOf ==
    ASSUME NEW u \in UE, NEW c \in Call, CallOK(u, c)
    PROVE  c.at \in 1 .. 20 => Phase(u) = "attaching"
<1>1. ran_pc[u] = Pc(c.at)
    BY RanAt
<1>2. c.at \in 1 .. 20 =>
        Pc(c.at) \in {"authenticate", "set_security", "set_eps_session", "attach_complete"}
    BY DEF Pc
<1> QED
    BY <1>1, <1>2 DEF Phase

-----------------------------------------------------------------------------
(* Steps of the service.                                                   *)

\* How the phase of a subscriber may change.
PhaseMove(u) ==
    \/ Phase(u)' = Phase(u)
    \/ Phase(u) = "idle" /\ Phase(u)' = "attaching"
    \/ Phase(u) = "attaching" /\ Phase(u)' = "attached" /\ ServingNodes(u) = Bearer!Node
    \/ Phase(u) = "attached" /\ Phase(u)' = "releasing"
    \/ Phase(u) = "releasing" /\ Phase(u)' = "idle"

\* A step that moves one subscriber and no node.
LEMMA PhaseStep ==
    ASSUME NEW u \in UE, \A x \in UE : ServingNodes(x)' = ServingNodes(x),
           \A x \in UE \ {u} : Phase(x)' = Phase(x), PhaseMove(u)
    PROVE  Promised
<1> DEFINE ph == [x \in UE |-> Phase(x)]
           nd == [x \in UE |-> ServingNodes(x)]
<1>1. nd' = nd
    OBVIOUS
<1>2. ph' = [ph EXCEPT ![u] = Phase(u)']
    OBVIOUS
<1>3. ph[u] = Phase(u) /\ nd[u] = ServingNodes(u)
    OBVIOUS
<1>4. Phase(u)' = Phase(u) => ph' = ph
    OBVIOUS
<1> QED
    BY <1>1, <1>2, <1>3, <1>4 DEF PhaseMove, Promised, Bearer!BearerNext, Bearer!bearerVars,
       Bearer!Request, Bearer!Accept, Bearer!Release, Bearer!Released, Bearer!Step

\* A step of one node for one subscriber: it may begin to serve it in its turn,
\* and it never stops while the subscriber is attached.
LEMMA NodeStep ==
    ASSUME CallInv, CallInv', ran_pc' = ran_pc, NEW u \in UE, NEW n \in Bearer!Node,
           \A x \in UE, k \in Bearer!Node :
              x # u \/ k # n => (k \in ServingNodes(x)' <=> k \in ServingNodes(x)),
           n \in ServingNodes(u)' /\ n \notin ServingNodes(u) => Phase(u) = "attaching"
    PROVE  Promised
<1> DEFINE ph == [x \in UE |-> Phase(x)]
           nd == [x \in UE |-> ServingNodes(x)]
<1>1. \A x \in UE : Phase(x)' = Phase(x)
    BY DEF Phase
<1>2. ph' = ph
    BY <1>1
<1>3. \A x \in UE : /\ ServingNodes(x) \subseteq Bearer!Node
                    /\ ServingNodes(x)' \subseteq Bearer!Node
    BY ServingIs, ServingIsNext DEF ServedBy
<1>4. \A x \in UE \ {u} : ServingNodes(x)' = ServingNodes(x)
    BY <1>3
<1>5. nd' = [nd EXCEPT ![u] = ServingNodes(u)']
    BY <1>4
<1>6. ph[u] = Phase(u) /\ nd[u] = ServingNodes(u)
    OBVIOUS
<1>7. CASE n \in ServingNodes(u)' /\ n \notin ServingNodes(u)
  <2>1. ServingNodes(u)' = ServingNodes(u) \cup {n}
    BY <1>3, <1>7
  <2>2. Bearer!Before[n] \subseteq ServingNodes(u)
    <3>1. /\ "sgw" \in ServingNodes(u)' => "mme" \in ServingNodes(u)'
          /\ "pgw" \in ServingNodes(u)' => "sgw" \in ServingNodes(u)'
        BY ServingIsNext DEF ServedBy
    <3>2. n = "sgw" => "mme" \in ServingNodes(u)
        BY <1>7, <2>1, <3>1
    <3>3. n = "pgw" => {"mme", "sgw"} \subseteq ServingNodes(u)
        BY <1>7, <2>1, <3>1
    <3> QED
        BY <3>2, <3>3 DEF Bearer!Before, Bearer!Node
  <2>3. Bearer!Serve(u, n)
    BY <1>2, <1>5, <1>6, <1>7, <2>1, <2>2 DEF Bearer!Serve
  <2> QED
    BY <2>3 DEF Promised, Bearer!BearerNext
<1>8. CASE n \notin ServingNodes(u)' /\ n \in ServingNodes(u)
  <2>1. ServingNodes(u)' = ServingNodes(u) \ {n}
    BY <1>3, <1>8
  <2>2. Phase(u) # "attached"
    <3>1. ran_pc[u] # "attached"
      BY <1>8, ServingIsNext DEF ServedBy
    <3> QED
      BY <3>1 DEF Phase
  <2>3. Bearer!Forget(u, n)
    BY <1>2, <1>5, <1>6, <1>8, <2>1, <2>2 DEF Bearer!Forget
  <2> QED
    BY <2>3 DEF Promised, Bearer!BearerNext
<1>9. CASE n \in ServingNodes(u)' <=> n \in ServingNodes(u)
  <2>1. ServingNodes(u)' = ServingNodes(u)
    BY <1>3, <1>9
  <2>2. nd' = nd
    BY <1>5, <2>1
  <2> QED
    BY <1>2, <2>2 DEF Promised, Bearer!bearerVars
<1> QED
    BY <1>7, <1>8, <1>9

\* A step that leaves the terminals and the keys alone is none of its concern.
LEMMA StillPromised ==
    ASSUME CallInv, CallInv', UNCHANGED <<ran_pc, s1mme_id, s11_id, pgw_s5_id>>
    PROVE  Promised
<1>1. \A x \in UE : Phase(x)' = Phase(x)
    BY DEF Phase
<1>2. \A x \in UE : ServedBy(x) /\ ServedBy(x)'
    BY ServingIs, ServingIsNext
<1>3. \A x \in UE : ServingNodes(x)' = ServingNodes(x)
    BY <1>2 DEF ServedBy, Bearer!Node
<1> QED
    BY <1>1, <1>3 DEF Promised, Bearer!bearerVars

\* A step of the MME, of the SGW or of the PGW for one subscriber.
LEMMA MmeStepOf ==
    ASSUME CallInv, CallInv', ran_pc' = ran_pc, s11_id' = s11_id, pgw_s5_id' = pgw_s5_id,
           NEW u \in UE, \A x \in UE \ {u} : mme_ctx'[x] = mme_ctx[x],
           mme_ctx'[u] # None => Phase(u) = "attaching"
    PROVE  Promised
<1>1. \A x \in UE : ServedBy(x) /\ ServedBy(x)'
    BY ServingIs, ServingIsNext
<1>2. \A x \in UE, k \in Bearer!Node :
         x # u \/ k # "mme" => (k \in ServingNodes(x)' <=> k \in ServingNodes(x))
    BY <1>1 DEF ServedBy, Bearer!Node
<1>3. "mme" \in ServingNodes(u)' => Phase(u) = "attaching"
    BY <1>1 DEF ServedBy
<1> QED
    BY <1>2, <1>3, NodeStep DEF Bearer!Node

\* The same of the SGW.
LEMMA SgwStepOf ==
    ASSUME CallInv, CallInv', ran_pc' = ran_pc, s1mme_id' = s1mme_id, pgw_s5_id' = pgw_s5_id,
           NEW u \in UE, \A x \in UE \ {u} : s11_id'[x] = s11_id[x],
           s11_id'[u] = u => Phase(u) = "attaching"
    PROVE  Promised
<1>1. \A x \in UE : ServedBy(x) /\ ServedBy(x)'
    BY ServingIs, ServingIsNext
<1>2. \A x \in UE, k \in Bearer!Node :
         x # u \/ k # "sgw" => (k \in ServingNodes(x)' <=> k \in ServingNodes(x))
    BY <1>1 DEF ServedBy, Bearer!Node
<1>3. "sgw" \in ServingNodes(u)' => Phase(u) = "attaching"
    BY <1>1 DEF ServedBy
<1> QED
    BY <1>2, <1>3, NodeStep DEF Bearer!Node

\* The same of the PGW.
LEMMA PgwStepOf ==
    ASSUME CallInv, CallInv', ran_pc' = ran_pc, s1mme_id' = s1mme_id, s11_id' = s11_id,
           NEW u \in UE, \A x \in UE \ {u} : pgw_s5_id'[x] = pgw_s5_id[x],
           pgw_s5_id'[u] = u => Phase(u) = "attaching"
    PROVE  Promised
<1>1. \A x \in UE : ServedBy(x) /\ ServedBy(x)'
    BY ServingIs, ServingIsNext
<1>2. \A x \in UE, k \in Bearer!Node :
         x # u \/ k # "pgw" => (k \in ServingNodes(x)' <=> k \in ServingNodes(x))
    BY <1>1 DEF ServedBy, Bearer!Node
<1>3. "pgw" \in ServingNodes(u)' => Phase(u) = "attaching"
    BY <1>1 DEF ServedBy
<1> QED
    BY <1>2, <1>3, NodeStep DEF Bearer!Node

-----------------------------------------------------------------------------
(* The refinement.                                                         *)

\* A terminal goes from phase to phase as the service allows.
LEMMA RanPromised == ASSUME CallInv, CallInv', NEW u \in UE, RanStep(u) PROVE Promised
<1>1. \A x \in UE : ServingNodes(x)' = ServingNodes(x)
    BY DEF RanStep, Rest, mmeVars, sgwVars, pgwVars, ServingNodes
<1>2. ran_pc \in [UE -> {"idle", "authenticate", "set_security", "set_eps_session",
                         "attach_complete", "attached", "detach"}]
    BY DEF CallInv, TypeOK, KbyRanTypeOK
<1>3. PICK from, to :
         /\ Goto(u, from, to)
         /\ <<from, to>> \in {<<"idle", "authenticate">>, <<"authenticate", "set_security">>,
                              <<"set_security", "set_eps_session">>,
                              <<"set_eps_session", "attach_complete">>,
                              <<"attach_complete", "attached">>,
                              <<"attached", "detach">>, <<"detach", "idle">>}
    BY DEF RanStep, RanNext, Attach, Authenticate, SetSecurity, SetEpsSession, AttachComplete,
           Detach, Detached, Step
<1>4. ran_pc[u] = from /\ ran_pc' = [ran_pc EXCEPT ![u] = to]
    BY <1>3 DEF Goto
<1>5. ran_pc'[u] = to /\ \A x \in UE \ {u} : ran_pc'[x] = ran_pc[x]
    BY <1>2, <1>4
<1>6. \A x \in UE \ {u} : Phase(x)' = Phase(x)
    BY <1>5 DEF Phase
<1>7. to = "attached" => ServingNodes(u) = Bearer!Node
    BY <1>1, <1>5, ServingIsNext DEF ServedBy
<1>8. PhaseMove(u)
    BY <1>3, <1>4, <1>5, <1>7 DEF PhaseMove, Phase
<1> QED
    BY <1>1, <1>6, <1>8, PhaseStep

\* The MME begins to serve a subscriber when it attaches, and stops when it detaches.
LEMMA MmePromised == ASSUME CallInv, CallInv', MmeStep PROVE Promised
<1>1. PICK call \in [UE -> Call] : TypeOK /\ Calls(call)
    BY DEF CallInv
<1>2. /\ UNCHANGED <<ran_pc, s11_id, pgw_s5_id>> /\ mme_ctx \in [UE -> MmeContext \cup {None}]
    BY <1>1 DEF MmeStep, MmeAccept, MmeServeRan, MmeServe, MmeEvent, MmeRequest, MmeAttachOne, MmeAttachTwo,
       MmeAttachThree, MmeAttachFour, MmeDetach, MmeHssConnected, MmeHssAnswer, MmeSgwConnected,
       MmeCreateAnswer, MmeModifyAnswer, MmeDetachAnswer, ranVars, sgwVars, pgwVars, TypeOK, KbyMmeTypeOK
<1>3. ASSUME NEW u \in UE, MmeAttachOne(u) PROVE Promised
  <2>1. MmeRequest(u, 1) /\ SetContext(s1[u].up.imsi, Context(s1[u].up.imsi))
      BY <1>3 DEF MmeAttachOne
  <2>2. PICK c \in Call : c = call[u] /\ CallOK(u, c) /\ s1[u].up = S1Up(u, c) /\ c.at = 2
    <3>1. 1 \in 1 .. 5
        OBVIOUS
    <3> QED
        BY <1>1, <2>1, <3>1, RequestOf
  <2>3. s1[u].up.imsi = u
    <3>1. s1[u].up = Fields(1, 0, u, 0, 0, 0)
        BY <2>2, S1Messages
    <3> QED
        BY <3>1 DEF Fields
  <2>4. \A x \in UE \ {u} : mme_ctx'[x] = mme_ctx[x]
      BY <1>2, <2>1, <2>3 DEF SetContext
  <2>5. Phase(u) = "attaching"
      BY <2>2, PhaseOf
  <2> QED
      BY <1>2, <2>4, <2>5, MmeStepOf
<1>4. ASSUME NEW f \in Fd, MmeDetachAnswer(f) PROVE Promised
  <2>1. PICK guti : mme_ctx' = [mme_ctx EXCEPT ![guti] = None]
      BY <1>4 DEF MmeDetachAnswer
  <2>2. CASE guti \in UE
    <3>1. mme_ctx'[guti] = None /\ \A x \in UE \ {guti} : mme_ctx'[x] = mme_ctx[x]
        BY <1>2, <2>1, <2>2
    <3> QED
        BY <1>2, <2>2, <3>1, MmeStepOf
  <2>3. CASE guti \notin UE
    <3>1. \A x \in UE : mme_ctx'[x] = mme_ctx[x]
        BY <1>2, <2>1, <2>3
    <3>2. \A x \in UE : ServedBy(x) /\ ServedBy(x)'
        BY ServingIs, ServingIsNext
    <3>3. \A x \in UE : ServingNodes(x)' = ServingNodes(x) /\ Phase(x)' = Phase(x)
        BY <1>2, <3>1, <3>2 DEF ServedBy, Bearer!Node, Phase
    <3> QED
        BY <3>3 DEF Promised, Bearer!bearerVars
  <2> QED
      BY <2>2, <2>3
<1>5. CASE s1mme_id' = s1mme_id
    BY <1>2, <1>5, StillPromised
<1>6. CASE MmeAccept
    BY <1>5, <1>6 DEF MmeAccept
<1>7. ASSUME NEW u \in UE, MmeServeRan(u), ~MmeAttachOne(u) PROVE s1mme_id' = s1mme_id
    BY <1>7 DEF MmeServeRan, MmeAttachTwo, MmeAttachThree, MmeAttachFour, MmeDetach, Forward,
                MmeExit, mmeVars
<1>8. ASSUME NEW f \in Fd, MmeServe(f), ~MmeDetachAnswer(f) PROVE s1mme_id' = s1mme_id
    BY <1>8 DEF MmeServe, MmeHssConnected, MmeHssAnswer, MmeSgwConnected, MmeCreateAnswer,
                MmeModifyAnswer, Resume, MmeExit, mmeVars
<1> QED
    BY <1>3, <1>4, <1>5, <1>6, <1>7, <1>8 DEF MmeStep

\* The SGW begins to when it takes a create, and stops when the PGW has answered the
\* detach.
LEMMA SgwPromised == ASSUME CallInv, CallInv', SgwStep PROVE Promised
<1>1. PICK call \in [UE -> Call] : TypeOK /\ Calls(call)
    BY DEF CallInv
<1>2. /\ UNCHANGED <<ran_pc, s1mme_id, pgw_s5_id>> /\ s11_id \in [UE -> Teid]
    BY <1>1 DEF SgwStep, SgwAccept, SgwServeMme, SgwServe, SgwEvent, SgwRequest, SgwCreate, SgwModify,
       SgwDetach, SgwPgwConnected, SgwCreateAnswer, SgwDetachAnswer, ranVars, mmeVars, pgwVars,
       TypeOK, KbySgwTypeOK
<1>3. ASSUME NEW f \in Fd, SgwCreate(f) PROVE Promised
  <2>1. SgwRequest(f, 1) /\ s11_id' = [s11_id EXCEPT ![s11[f].up.teid] = s11[f].up.imsi]
      BY <1>3 DEF SgwCreate
  <2>2. PICK u \in UE, c \in Call :
           c = call[u] /\ CallOK(u, c) /\ s11[f].up = S11Up(u, c) /\ c.at = 11
      BY <1>1, <2>1, SgwRequestOf
  <2>3. s11[f].up.teid = u
    <3>1. s11[f].up = Fields(1, 0, u, u, 0, 0)
        BY <2>2, S11Messages
    <3> QED
        BY <3>1 DEF Fields
  <2>4. \A x \in UE \ {u} : s11_id'[x] = s11_id[x]
      BY <1>2, <2>1, <2>3
  <2>5. Phase(u) = "attaching"
      BY <2>2, PhaseOf
  <2> QED
      BY <1>2, <2>4, <2>5, SgwStepOf
<1>4. ASSUME NEW f \in Fd, SgwDetachAnswer(f) PROVE Promised
  <2>1. CASE s11_id' = s11_id
      BY <1>2, <2>1, StillPromised
  <2>2. PICK t : s11_id' = s11_id \/ (t # 0 /\ s11_id' = [s11_id EXCEPT ![t] = 0])
      BY <1>4 DEF SgwDetachAnswer, SgwExit, sgwVars, SgwForget, Imsi
  <2>3. CASE t \notin UE
      BY <1>2, <2>1, <2>2, <2>3
  <2>4. CASE t \in UE /\ s11_id' = [s11_id EXCEPT ![t] = 0]
    <3>1. s11_id'[t] # t /\ \A x \in UE \ {t} : s11_id'[x] = s11_id[x]
        BY <1>2, <2>4, Names
    <3> QED
        BY <1>2, <2>4, <3>1, SgwStepOf
  <2> QED
      BY <2>1, <2>2, <2>3, <2>4
<1>5. CASE s11_id' = s11_id
    BY <1>2, <1>5, StillPromised
<1>6. CASE SgwAccept
    BY <1>5, <1>6 DEF SgwAccept, sgwTables
<1>7. ASSUME NEW f \in Fd, SgwServeMme(f), ~SgwCreate(f) PROVE s11_id' = s11_id
    BY <1>7 DEF SgwServeMme, SgwModify, SgwDetach, SgwExit, sgwVars, sgwTables
<1>8. ASSUME NEW f \in Fd, SgwServe(f), ~SgwDetachAnswer(f) PROVE s11_id' = s11_id
    BY <1>8 DEF SgwServe, SgwPgwConnected, SgwCreateAnswer, SgwExit, sgwVars, sgwTables
<1> QED
    BY <1>3, <1>4, <1>5, <1>6, <1>7, <1>8 DEF SgwStep

\* The PGW begins to when it takes a create, and stops when it takes the detach.
LEMMA PgwPromised == ASSUME CallInv, CallInv', PgwStep PROVE Promised
<1>1. PICK call \in [UE -> Call] : TypeOK /\ Calls(call)
    BY DEF CallInv
<1>2. /\ UNCHANGED <<ran_pc, s1mme_id, s11_id>> /\ pgw_s5_id \in [UE -> Teid]
    BY <1>1 DEF PgwStep, PgwAccept, PgwServe, PgwRequest, PgwCreate, PgwDetach, ranVars, mmeVars, sgwVars,
       TypeOK, KbyPgwTypeOK
<1>3. ASSUME NEW f \in Fd, PgwCreate(f) PROVE Promised
  <2>1. PgwRequest(f, 1) /\ pgw_s5_id' = [pgw_s5_id EXCEPT ![s5[f].up.teid] = s5[f].up.imsi]
      BY <1>3 DEF PgwCreate
  <2>2. PICK u \in UE, c \in Call :
           c = call[u] /\ CallOK(u, c) /\ s5[f].up = S5Up(u, c) /\ c.at = 13
      BY <1>1, <2>1, PgwRequestOf
  <2>3. s5[f].up.teid = u
    <3>1. s5[f].up = Fields(1, 0, u, u, 0, 0)
        BY <2>2, S5Messages
    <3> QED
        BY <3>1 DEF Fields
  <2>4. \A x \in UE \ {u} : pgw_s5_id'[x] = pgw_s5_id[x]
      BY <1>2, <2>1, <2>3
  <2>5. Phase(u) = "attaching"
      BY <2>2, PhaseOf
  <2> QED
      BY <1>2, <2>4, <2>5, PgwStepOf
<1>4. ASSUME NEW f \in Fd, PgwDetach(f) PROVE Promised
  <2>1. CASE pgw_s5_id' = pgw_s5_id
      BY <1>2, <2>1, StillPromised
  <2>2. PICK t : pgw_s5_id' = pgw_s5_id \/ pgw_s5_id' = [pgw_s5_id EXCEPT ![t] = 0]
      BY <1>4 DEF PgwDetach, pgwVars
  <2>3. CASE t \notin UE
      BY <1>2, <2>1, <2>2, <2>3
  <2>4. CASE t \in UE /\ pgw_s5_id' = [pgw_s5_id EXCEPT ![t] = 0]
    <3>1. pgw_s5_id'[t] # t /\ \A x \in UE \ {t} : pgw_s5_id'[x] = pgw_s5_id[x]
        BY <1>2, <2>4, Names
    <3> QED
        BY <1>2, <2>4, <3>1, PgwStepOf
  <2> QED
      BY <2>1, <2>2, <2>3, <2>4
<1>5. CASE PgwAccept
  <2>1. pgw_s5_id' = pgw_s5_id
      BY <1>5 DEF PgwAccept
  <2> QED
      BY <1>2, <2>1, StillPromised
<1> QED
    BY <1>3, <1>4, <1>5 DEF PgwStep, PgwServe

\* At start every subscriber is idle and nobody serves it.
LEMMA InitPromised == Init => Bearer!BearerInit
<1> SUFFICES ASSUME Init PROVE Bearer!BearerInit
    OBVIOUS
<1>1. \A u \in UE : Phase(u) = "idle"
    BY DEF Init, KbyRanInit, Phase
<1>2. \A u \in UE : ServingNodes(u) = {}
    BY Names DEF Init, KbyMmeInit, KbySgwInit, KbyPgwInit, ServingNodes
<1> QED
    BY <1>1, <1>2 DEF Bearer!BearerInit

\* When the MME exits, it has forgotten the subscriber.
LEMMA ExitPromised == ASSUME CallInv, ExitStep PROVE Promised
<1>1. PICK call \in [UE -> Call] : TypeOK /\ Calls(call)
    BY DEF CallInv
<1>2. PICK f \in Fd : MmeDetachAnswer(f)
    BY DEF ExitStep
<1>3. PICK u \in UE, c \in Call, m \in Message :
          /\ c = call[u] /\ CallOK(u, c) /\ f = c.out /\ c.out # 0 /\ c.at = 26
          /\ c.ran # 0 /\ c.ran \in Fd /\ c.id \in UeId /\ s1mme_id[c.id] = u /\ c.ran # c.out
          /\ m = [Msg(5) EXCEPT !.imsi = u]
          /\ s11' = [s11 EXCEPT ![f] = NoLink]
          /\ s1mme_id' = [s1mme_id EXCEPT ![c.id] = 0]
          /\ mme_ctx' = [mme_ctx EXCEPT ![u] = None]
          /\ mme_fdmap' = Erase(Erase(mme_fdmap, f), c.ran)
          /\ mme_armed' = mme_armed \ {f, c.ran}
          /\ \/ s1' = Shut(Reply(s1, c.ran, m), c.ran) /\ exited' = exited
             \/ s1' = Reply(s1, c.ran, m) /\ exited' = exited \cup {"mme"}
          /\ UNCHANGED <<ranVars, s5, s6a, ue_count>>
    BY <1>1, <1>2, MmeDetachAnswerOf
<1>4. UNCHANGED <<ran_pc, s11_id, s1_id, s5_id, sgw_ctx, pgw_ctx, pgw_s5_id, sgi_id>>
    BY <1>3 DEF ExitStep, MmeStep, ranVars, sgwVars, pgwVars
<1>5. mme_ctx'[u] = None /\ \A x \in UE \ {u} : mme_ctx'[x] = mme_ctx[x]
    BY <1>1, <1>3 DEF TypeOK, KbyMmeTypeOK
<1>6. ASSUME NEW x \in UE \ {u} PROVE x \in Range(s1mme_id') <=> x \in Range(s1mme_id)
  <2>1. s1mme_id \in [UeId -> Teid] /\ x # 0
      BY <1>1, Names DEF TypeOK, KbyMmeTypeOK
  <2>2. \A i \in UeId : s1mme_id'[i] = x <=> s1mme_id[i] = x
      BY <1>3, <2>1
  <2>3. DOMAIN s1mme_id = UeId /\ DOMAIN s1mme_id' = UeId
      BY <1>3, <2>1
  <2> HIDE DEF UeId
  <2> QED
      BY <2>2, <2>3 DEF Range
<1>7. \A x \in UE \ {u} : ServingNodes(x)' = ServingNodes(x)
    BY <1>4, <1>5, <1>6 DEF ServingNodes
<1>8. "mme" \notin ServingNodes(u)' /\ ServingNodes(u)' = ServingNodes(u) \ {"mme"}
    BY <1>4, <1>5 DEF ServingNodes
<1>9. "mme" \in ServingNodes(u) /\ Phase(u) = "releasing"
  <2>1. mme_ctx[u] # None
      BY <1>3, MmeAt
  <2>2. ran_pc[u] = "detach"
    <3>1. Pc(26) = "detach"
        BY DEF Pc
    <3> QED
        BY <1>3, <3>1, RanAt
  <2> QED
      BY <2>1, <2>2, ServingIs DEF ServedBy, Phase
<1> DEFINE ph == [x \in UE |-> Phase(x)]
           nd == [x \in UE |-> ServingNodes(x)]
<1>10. ph' = ph
    BY <1>4 DEF Phase
<1>11. nd' = [nd EXCEPT ![u] = @ \ {"mme"}]
    BY <1>7, <1>8
<1>12. ph[u] = "releasing" /\ "mme" \in nd[u]
    BY <1>9
<1>13. Bearer!Forget(u, "mme")
    BY <1>10, <1>11, <1>12 DEF Bearer!Forget
<1> QED
    BY <1>13 DEF Promised, Bearer!BearerNext, Bearer!Node

\* Every step of the control plane is one of the service's.
LEMMA NextPromised == ASSUME CallInv, CallInv', [Next]_vars PROVE Promised
<1>1. CASE UNCHANGED vars
    BY <1>1, StillPromised DEF vars, ranVars, mmeVars, sgwVars, pgwVars
<1>2. CASE HssStep
    BY <1>2, StillPromised DEF HssStep, HssAnswer, Rest, ranVars, mmeVars, sgwVars, pgwVars
<1> QED
    BY <1>1, <1>2, RanPromised, MmePromised, SgwPromised, PgwPromised DEF Next, Serving

\* A step that changes nothing is none of its concern.
LEMMA StutterPromised == ASSUME UNCHANGED vars PROVE Promised
<1>1. UNCHANGED <<ran_pc, s1mme_id, mme_ctx, s11_id, s1_id, s5_id, sgw_ctx, pgw_ctx,
                  pgw_s5_id, sgi_id>>
    BY DEF vars, ranVars, mmeVars, sgwVars, pgwVars
<1>2. \A x \in UE : Phase(x)' = Phase(x) /\ ServingNodes(x)' = ServingNodes(x)
    BY <1>1 DEF Phase, ServingNodes
<1> QED
    BY <1>2 DEF Promised, Bearer!bearerVars

\* ImplementsBearer: the event loops implement the service of EpsBearer, which the
\* threads of v1.0 implement, too.  A terminal is attached only while all three nodes
\* serve it, and they begin to from the MME to the PGW.
THEOREM EventLoopsImplementBearer == ASSUME Addressable PROVE Spec => ImplementsBearer
<1>1. Init => Bearer!BearerInit
    BY InitPromised
<1>2. KbyInv /\ [Next]_vars => [Bearer!BearerNext]_(Bearer!bearerVars)
  <2> SUFFICES ASSUME KbyInv, [Next]_vars PROVE Promised
      BY DEF Promised
  <2>1. CASE CallInv /\ CallInv'
      BY <2>1, NextPromised
  <2>2. CASE CallInv /\ ExitStep
      BY <2>2, ExitPromised
  <2>3. CASE UNCHANGED vars
      BY <2>3, StutterPromised
  <2> QED
      BY <2>1, <2>2, <2>3, InvStep
<1> QED
    BY <1>1, <1>2, CallInvariance, PTL DEF Spec, ImplementsBearer, Bearer!BearerSpec
=============================================================================
