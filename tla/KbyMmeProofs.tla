----------------------------- MODULE KbyMmeProofs ------------------------------
(***************************************************************************)
(* The events of the terminals, of the HSS and of the MME keep CallInv, the *)
(* invariant of the v3.0 control plane, for any number of terminals and    *)
(* rounds.  A step moves one call on, except that an accept loop takes in  *)
(* all the calls that are waiting; the proof of a step says which call it  *)
(* moves and that the others keep what is theirs.                          *)
(***************************************************************************)
EXTENDS KbyInvariants, FiniteSetTheorems, WellFoundedInduction, TLAPS

-----------------------------------------------------------------------------
(* Numbers.                                                                *)

\* Pairs of numbers in order: well founded, so that every set has a least number.
Less == {ss \in Nat \X Nat : ss[1] < ss[2]}

\* A set of numbers that is not empty has a least one.
LEMMA Least == ASSUME NEW S \in SUBSET Nat, S # {} PROVE \E n \in S : \A m \in S : n <= m
<1>1. IsWellFoundedOn(Less, Nat)
    BY NatLessThanWellFounded DEF OpToRel, Less
<1>2. PICK x \in S : \A y \in S : ~ (<<y, x>> \in Less)
    BY <1>1, WFMin, Zenon
<1>3. \A y \in S : y < x => <<y, x>> \in Less
    BY DEF Less
<1>4. \A y \in S : ~ (y < x)
    BY <1>2, <1>3, Zenon
<1> QED
    BY <1>4

\* There are as many descriptors as Fd says.
LEMMA FdFacts ==
    /\ Cardinality(UE) \in Nat
    /\ IsFiniteSet(Fd) /\ Fd \subseteq Nat \ {0}
    /\ Cardinality(Fd) = 2 * Cardinality(UE) + 1
<1>1. Cardinality(UE) \in Nat
    BY KbyUEAssumption, FS_CardinalityType
<1>2. IsFiniteSet(1 .. 2 * Cardinality(UE) + 1)
      /\ Cardinality(1 .. 2 * Cardinality(UE) + 1) = 2 * Cardinality(UE) + 1
    BY <1>1, FS_Interval
<1> QED
    BY <1>1, <1>2 DEF Fd

\* The rounds can be counted.
LEMMA AttachFacts == IsFiniteSet(Attaches) /\ Cardinality(Attaches) \in Nat
<1> DEFINE R(u) == {u} \X (1 .. Rounds[u])
<1>1. \A u \in UE : IsFiniteSet(R(u))
  <2> TAKE u \in UE
  <2>1. IsFiniteSet({u})
      BY FS_Singleton
  <2>2. 1 \in Int /\ Rounds[u] \in Int
      BY KbyRoundAssumption
  <2>3. IsFiniteSet(1 .. Rounds[u])
      BY <2>2, FS_Interval
  <2> QED
      BY <2>1, <2>3, FS_Product
<1>2. IsFiniteSet({R(u) : u \in UE})
  <2> DEFINE f == [u \in UE |-> R(u)]
  <2>1. f \in Surjection(UE, {R(u) : u \in UE})
      BY DEF Surjection
  <2> QED
      BY <2>1, KbyUEAssumption, FS_Surjection
<1>3. IsFiniteSet(UNION {R(u) : u \in UE})
    BY <1>1, <1>2, FS_UNION
<1> QED
    BY <1>3, FS_CardinalityType DEF Attaches

\* The values of a function on the subscribers are no more than those.
LEMMA ImageFacts ==
    ASSUME NEW f, f = [u \in UE |-> f[u]]
    PROVE  LET T == {f[u] : u \in UE} IN IsFiniteSet(T) /\ Cardinality(T) <= Cardinality(UE)
<1>1. f \in Surjection(UE, {f[u] : u \in UE})
    BY DEF Surjection
<1> QED
    BY <1>1, KbyUEAssumption, FS_Surjection

\* A node with two descriptors a call at most has one to spare, and FreeFd finds it.
LEMMA FreeFdFacts ==
    ASSUME NEW call \in [UE -> Call], NEW used,
           NEW f, f = [u \in UE |-> f[u]], NEW g, g = [u \in UE |-> g[u]],
           used \subseteq {f[u] : u \in UE} \cup {g[u] : u \in UE}
    PROVE  FreeFd(used) \in Fd \ used
<1> DEFINE S == {f[u] : u \in UE}
           T == {g[u] : u \in UE}
<1>1. IsFiniteSet(S) /\ IsFiniteSet(T) /\ Cardinality(S) <= Cardinality(UE)
      /\ Cardinality(T) <= Cardinality(UE)
    BY ImageFacts
<1> HIDE DEF S, T
<1>2. /\ IsFiniteSet(S \cup T) /\ Cardinality(S \cup T) <= 2 * Cardinality(UE)
      /\ Cardinality(S \cup T) \in Nat
  <2>1. IsFiniteSet(S \cup T)
        /\ Cardinality(S \cup T) = Cardinality(S) + Cardinality(T) - Cardinality(S \cap T)
      BY <1>1, FS_Union
  <2>2. IsFiniteSet(S \cap T)
      BY <1>1, FS_Intersection
  <2>3. /\ Cardinality(S) \in Nat /\ Cardinality(T) \in Nat /\ Cardinality(S \cap T) \in Nat
        /\ Cardinality(S \cup T) \in Nat
      BY <1>1, <2>1, <2>2, FS_CardinalityType
  <2> QED
      BY <1>1, <2>1, <2>3, FdFacts
<1>3. Fd \ used # {}
  <2> SUFFICES ASSUME Fd \subseteq S \cup T PROVE FALSE
      BY DEF S, T
  <2>1. Cardinality(Fd) <= Cardinality(S \cup T)
      BY <1>2, FS_Subset
  <2> QED
      BY <1>2, <2>1, FdFacts
<1>4. Fd \ used \in SUBSET Nat
    BY FdFacts
<1>5. \E n \in Fd \ used : \A m \in Fd \ used : n <= m
    BY <1>3, <1>4, Least
<1> QED
    BY <1>5 DEF FreeFd

-----------------------------------------------------------------------------
(* Types.                                                                  *)

\* Numbers and messages.
LEMMA Names ==
    /\ 0 \notin Fd /\ 0 \notin UE /\ 0 \notin UeId
    /\ 0 \in Teid /\ UE \subseteq Teid
    /\ Fd \subseteq Nat /\ UeId \subseteq Nat /\ UE \subseteq Nat
    /\ None \notin Message /\ NoLink \in Link
    /\ \A k \in 1 .. 5 :
          Msg(k) = [type |-> k, id |-> 0, imsi |-> 0, teid |-> 0, s5 |-> 0, ip |-> 0]
          /\ Msg(k) \in Message
BY FdFacts, KbyUEAssumption, KbyNoMessageAssumption DEF Teid, UeId, Message, NoLink, Link, Msg

-----------------------------------------------------------------------------
(* One call moves on.                                                      *)

\* What a step leaves alone when it takes the call of subscriber u from c to d:
\* the terminals, ...
RanFrame(u) ==
    \A v \in UE \ {u} :
        /\ ran_pc'[v] = ran_pc[v] /\ ran_ctx'[v] = ran_ctx[v]
        /\ rounds'[v] = rounds[v] /\ s1'[v] = s1[v]

\* ... the MME with its connections, ...
MmeFrame(u, c, d) ==
    /\ \A f \in Fd \ {c.ran, c.out, d.out} : mme_fdmap'[f] = mme_fdmap[f]
    /\ \A f \in Fd \ {c.out, d.out} : s6a'[f] = s6a[f] /\ s11'[f] = s11[f]
    /\ c.ran \notin {d.ran, 0} => mme_fdmap'[c.ran] = None
    /\ c.out \notin {d.out, 0} =>
          mme_fdmap'[c.out] = None /\ s6a'[c.out] = NoLink /\ s11'[c.out] = NoLink
    /\ \A v \in UE \ {u} : mme_ctx'[v] = mme_ctx[v]
    /\ \A v \in UE \ {u}, i \in UeId : s1mme_id'[i] = v <=> s1mme_id[i] = v
    /\ ue_count' >= ue_count

\* ... the SGW with its connections, ...
SgwFrame(u, c, d) ==
    /\ \A f \in Fd \ {c.mme, c.pgw, d.pgw} : sgw_fdmap'[f] = sgw_fdmap[f]
    /\ \A f \in Fd \ {c.pgw, d.pgw} : s5'[f] = s5[f]
    /\ c.mme \notin {d.mme, 0} => sgw_fdmap'[c.mme] = None
    /\ c.pgw \notin {d.pgw, 0} => sgw_fdmap'[c.pgw] = None /\ s5'[c.pgw] = NoLink
    /\ \A v \in UE \ {u} : /\ s11_id'[v] = s11_id[v] /\ s1_id'[v] = s1_id[v]
                           /\ s5_id'[v] = s5_id[v] /\ sgw_ctx'[v] = sgw_ctx[v]

\* ... and the PGW.
PgwFrame(u, c, d) ==
    /\ \A f \in Fd \ {c.sgw} : f \in pgw_fdmap' <=> f \in pgw_fdmap
    /\ c.sgw \notin {d.sgw, 0} => c.sgw \notin pgw_fdmap'
    /\ \A v \in UE \ {u} : /\ pgw_s5_id'[v] = pgw_s5_id[v] /\ sgi_id'[v] = sgi_id[v]
                           /\ pgw_ctx'[v] = pgw_ctx[v]
    /\ sgi_id'[0] = sgi_id[0]

\* A call gives up descriptors or takes one that no call of the node has.
FdsMove(call, u, d) ==
    LET c == call[u]
    IN  /\ d.ran \in {c.ran, 0} /\ d.mme \in {c.mme, 0} /\ d.sgw \in {c.sgw, 0}
        /\ \/ d.out \in {c.out, 0}
           \/ \A v \in UE : d.out \notin {call[v].ran, call[v].out}
        /\ \/ d.pgw \in {c.pgw, 0}
           \/ \A v \in UE : d.pgw \notin {call[v].mme, call[v].pgw}

\* The numbers in a call.
LEMMA CallNumbers == ASSUME NEW c \in Call PROVE c.id \in Nat /\ c.at \in 0 .. 27
<1>1. \A i \in {0} \cup UeId : i \in Nat
    BY DEF UeId
<1>2. c.id \in {0} \cup UeId /\ c.at \in 0 .. 27
    BY DEF Call
<1> QED
    BY <1>1, <1>2, Zenon

\* A call stays in order when nothing of it changes.
LEMMA CallStays ==
    ASSUME NEW v \in UE, NEW c \in Call, CallOK(v, c),
           ran_pc'[v] = ran_pc[v], ran_ctx'[v] = ran_ctx[v], rounds'[v] = rounds[v],
           s1'[v] = s1[v],
           c.ran # 0 => mme_fdmap'[c.ran] = mme_fdmap[c.ran],
           c.out # 0 => /\ mme_fdmap'[c.out] = mme_fdmap[c.out]
                        /\ s6a'[c.out] = s6a[c.out] /\ s11'[c.out] = s11[c.out],
           mme_ctx'[v] = mme_ctx[v], \A i \in UeId : s1mme_id'[i] = v <=> s1mme_id[i] = v,
           ue_count' >= ue_count, ue_count \in Nat, ue_count' \in Nat,
           c.mme # 0 => sgw_fdmap'[c.mme] = sgw_fdmap[c.mme],
           c.pgw # 0 => sgw_fdmap'[c.pgw] = sgw_fdmap[c.pgw] /\ s5'[c.pgw] = s5[c.pgw],
           s11_id'[v] = s11_id[v], s1_id'[v] = s1_id[v], s5_id'[v] = s5_id[v],
           sgw_ctx'[v] = sgw_ctx[v],
           c.sgw # 0 => (c.sgw \in pgw_fdmap' <=> c.sgw \in pgw_fdmap),
           pgw_s5_id'[v] = pgw_s5_id[v], sgi_id'[v] = sgi_id[v], pgw_ctx'[v] = pgw_ctx[v],
           sgi_id'[0] = sgi_id[0]
    PROVE  CallOK(v, c)'
<1>1. RanOK(v, c)'
    BY DEF CallOK, RanOK
<1>2. c.out # 0 => S11OK(v, c)'
    BY DEF CallOK, MmeOK, MmeFdsOK, S11OK
<1>3. MmeOK(v, c)'
  <2>2. c.id \in Nat
      BY CallNumbers
  <2>3. c.id <= ue_count
      BY DEF CallOK, MmeOK
  <2>4. c.id <= ue_count'
      BY <2>2, <2>3
  <2> QED
      BY <1>2, <2>4 DEF CallOK, MmeOK, MmeFdsOK, MmeCtxOK
<1>4. SgwOK(v, c)'
    BY DEF CallOK, SgwOK
<1>5. PgwOK(v, c)'
    BY DEF CallOK, PgwOK
<1> QED
    BY <1>1, <1>3, <1>4, <1>5 DEF CallOK

\* One call moves from c to d, and all calls stay in order.
LEMMA Move ==
    ASSUME TypeOK, NEW call \in [UE -> Call], Calls(call), NEW u \in UE, NEW d \in Call,
           CallOK(u, d)', RanFrame(u), MmeFrame(u, call[u], d), SgwFrame(u, call[u], d),
           PgwFrame(u, call[u], d), FdsMove(call, u, d), Armed', exited' = {},
           ue_count' = Cardinality(Numbered([call EXCEPT ![u] = d])'), ue_count' \in Nat
    PROVE  \E next \in [UE -> Call] : Calls(next)'
<1> DEFINE c == call[u]
           next == [call EXCEPT ![u] = d]
<1>1. c \in Call /\ next \in [UE -> Call] /\ next[u] = d
    OBVIOUS
<1>2. \A v \in UE \ {u} : next[v] = call[v] /\ call[v] \in Call
    OBVIOUS
<1>3. ue_count \in Nat
    BY Names DEF TypeOK, KbyMmeTypeOK
<1>4. \A v \in UE : CallOK(v, next[v])'
  <2>1. ASSUME NEW v \in UE \ {u} PROVE CallOK(v, call[v])'
    <3> DEFINE e == call[v]
    <3>1. e \in Call /\ CallOK(v, e)
        BY <1>2 DEF Calls
    <3>2. /\ e.ran # 0 => e.ran \in Fd \ {c.ran, c.out, d.out}
          /\ e.out # 0 => e.out \in Fd \ {c.ran, c.out, d.out}
          /\ e.mme # 0 => e.mme \in Fd \ {c.mme, c.pgw, d.pgw}
          /\ e.pgw # 0 => e.pgw \in Fd \ {c.mme, c.pgw, d.pgw}
          /\ e.sgw # 0 => e.sgw \in Fd \ {c.sgw}
        BY <1>1, <3>1 DEF Calls, Apart, FdsMove, Call
    <3> HIDE DEF e
    <3>3. /\ ran_pc'[v] = ran_pc[v] /\ ran_ctx'[v] = ran_ctx[v] /\ rounds'[v] = rounds[v]
          /\ s1'[v] = s1[v]
        BY DEF RanFrame
    <3>4. /\ e.ran # 0 => mme_fdmap'[e.ran] = mme_fdmap[e.ran]
          /\ e.out # 0 => /\ mme_fdmap'[e.out] = mme_fdmap[e.out]
                          /\ s6a'[e.out] = s6a[e.out] /\ s11'[e.out] = s11[e.out]
          /\ mme_ctx'[v] = mme_ctx[v] /\ \A i \in UeId : s1mme_id'[i] = v <=> s1mme_id[i] = v
          /\ ue_count' >= ue_count
        BY <3>2 DEF MmeFrame
    <3>5. /\ e.mme # 0 => sgw_fdmap'[e.mme] = sgw_fdmap[e.mme]
          /\ e.pgw # 0 => sgw_fdmap'[e.pgw] = sgw_fdmap[e.pgw] /\ s5'[e.pgw] = s5[e.pgw]
          /\ s11_id'[v] = s11_id[v] /\ s1_id'[v] = s1_id[v] /\ s5_id'[v] = s5_id[v]
          /\ sgw_ctx'[v] = sgw_ctx[v]
        BY <3>2 DEF SgwFrame
    <3>6. /\ e.sgw # 0 => (e.sgw \in pgw_fdmap' <=> e.sgw \in pgw_fdmap)
          /\ pgw_s5_id'[v] = pgw_s5_id[v] /\ sgi_id'[v] = sgi_id[v] /\ pgw_ctx'[v] = pgw_ctx[v]
          /\ sgi_id'[0] = sgi_id[0]
        BY <3>2 DEF PgwFrame
    <3>7. CallOK(v, e)'
        BY <1>3, <3>1, <3>3, <3>4, <3>5, <3>6, CallStays
    <3> QED
        BY <3>7 DEF e
  <2> QED
      BY <1>1, <1>2, <2>1
<1>5. Apart(next)
  <2>1. Apart(call)
      BY DEF Calls
  <2> QED
      BY <1>1, <1>2, <2>1 DEF Apart, FdsMove
<1>6. NoStrays(next)'
  <2> SUFFICES ASSUME NEW f \in Fd PROVE
        /\ mme_fdmap'[f] # None => \E v \in UE : f \in {next[v].ran, next[v].out}
        /\ s6a'[f] # NoLink \/ s11'[f] # NoLink => \E v \in UE : f = next[v].out
        /\ sgw_fdmap'[f] # None => \E v \in UE : f \in {next[v].mme, next[v].pgw}
        /\ s5'[f] # NoLink => \E v \in UE : f = next[v].pgw
        /\ f \in pgw_fdmap' => \E v \in UE : f = next[v].sgw
      BY DEF NoStrays
  <2> f # 0
      BY Names
  <2> NoStrays(call)
      BY DEF Calls
  <2>1. mme_fdmap'[f] # None => \E v \in UE : f \in {next[v].ran, next[v].out}
    <3> SUFFICES ASSUME mme_fdmap'[f] # None PROVE \E v \in UE : f \in {next[v].ran, next[v].out}
        OBVIOUS
    <3>1. CASE f \in {c.ran, c.out, d.out}
      <4>1. f \in {d.ran, d.out}
          BY <3>1 DEF MmeFrame, FdsMove
      <4> QED
          BY <1>1, <4>1
    <3>2. CASE f \notin {c.ran, c.out, d.out}
      <4>1. mme_fdmap[f] # None
          BY <3>2 DEF MmeFrame
      <4>2. PICK v \in UE : f \in {call[v].ran, call[v].out}
          BY <4>1 DEF NoStrays
      <4>3. v # u
          BY <3>2, <4>2
      <4> QED
          BY <1>2, <4>2, <4>3
    <3> QED
        BY <3>1, <3>2
  <2>2. s6a'[f] # NoLink \/ s11'[f] # NoLink => \E v \in UE : f = next[v].out
      BY <1>1, <1>2 DEF NoStrays, MmeFrame, FdsMove, Call
  <2>3. sgw_fdmap'[f] # None => \E v \in UE : f \in {next[v].mme, next[v].pgw}
    <3> SUFFICES ASSUME sgw_fdmap'[f] # None PROVE \E v \in UE : f \in {next[v].mme, next[v].pgw}
        OBVIOUS
    <3>1. CASE f \in {c.mme, c.pgw, d.pgw}
      <4>1. f \in {d.mme, d.pgw}
          BY <3>1 DEF SgwFrame, FdsMove
      <4> QED
          BY <1>1, <4>1
    <3>2. CASE f \notin {c.mme, c.pgw, d.pgw}
      <4>1. sgw_fdmap[f] # None
          BY <3>2 DEF SgwFrame
      <4>2. PICK v \in UE : f \in {call[v].mme, call[v].pgw}
          BY <4>1 DEF NoStrays
      <4>3. v # u
          BY <3>2, <4>2
      <4> QED
          BY <1>2, <4>2, <4>3
    <3> QED
        BY <3>1, <3>2
  <2>4. s5'[f] # NoLink => \E v \in UE : f = next[v].pgw
      BY <1>1, <1>2 DEF NoStrays, SgwFrame, FdsMove, Call
  <2>5. f \in pgw_fdmap' => \E v \in UE : f = next[v].sgw
      BY <1>1, <1>2 DEF NoStrays, PgwFrame, FdsMove
  <2> QED
      BY <2>1, <2>2, <2>3, <2>4, <2>5
<1> HIDE DEF next
<1>7. Calls(next)'
    BY <1>4, <1>5, <1>6 DEF Calls, next
<1> QED
    BY <1>1, <1>7

\* A step that begins no round and numbers none leaves the numbering alone.
LEMMA SameNumbered ==
    ASSUME TypeOK, NEW call \in [UE -> Call], Calls(call), NEW u \in UE, NEW d \in Call,
           UNCHANGED <<rounds, ue_count>>, d.at \in 1 .. 2 <=> call[u].at \in 1 .. 2
    PROVE  /\ ue_count' = Cardinality(Numbered([call EXCEPT ![u] = d])')
           /\ ue_count' \in Nat
<1>1. ue_count \in Nat
    BY Names DEF TypeOK, KbyMmeTypeOK
<1>2. \A a \in Attaches : a[1] \in UE
    BY DEF Attaches
<1>3. Numbered([call EXCEPT ![u] = d])' = Numbered(call)
    BY <1>2 DEF Numbered
<1> QED
    BY <1>1, <1>3 DEF Calls

-----------------------------------------------------------------------------
(* Steps of the terminals.                                                 *)

\* The steps of a call that its terminal takes.
RanSteps == {<<0, 1>>, <<6, 7>>, <<8, 9>>, <<16, 17>>, <<20, 21>>, <<21, 22>>, <<27, 0>>}

\* A terminal's step changes nothing that a node holds of its call.
LEMMA RanAdvance ==
    ASSUME TypeOK, NEW call \in [UE -> Call], Calls(call), NEW u \in UE, NEW k \in 0 .. 27,
           <<call[u].at, k>> \in RanSteps, NEW d, d = [call[u] EXCEPT !.at = k],
           RanOK(u, d)', RanFrame(u), UNCHANGED <<mmeVars, sgwVars, pgwVars, s6a, s11, s5, exited>>,
           ue_count' = Cardinality(Numbered([call EXCEPT ![u] = d])')
    PROVE  \E next \in [UE -> Call] : Calls(next)'
<1> DEFINE c == call[u]
<1>1. c \in Call /\ CallOK(u, c)
    BY DEF Calls
<1>2. d \in Call
    BY DEF Call
<1>3. /\ d.ran = c.ran /\ d.out = c.out /\ d.mme = c.mme /\ d.pgw = c.pgw /\ d.sgw = c.sgw
      /\ d.id = c.id /\ d.at = k
    BY DEF Call
<1>4. <<c.at, d.at>> \in RanSteps
    BY <1>3
<1> HIDE DEF c
<1>5. FdsOK(d)
    BY <1>1, <1>3, <1>4 DEF CallOK, FdsOK, RanSteps
<1>6. MmeOK(u, d)'
  <2>1. RanEntry(d) = RanEntry(c)
      BY <1>3, <1>4 DEF RanEntry, RanSteps
  <2>2. OutEntry(u, d) = OutEntry(u, c)
      BY <1>3, <1>4 DEF OutEntry, RanSteps
  <2>3. HssLink(u, d) = HssLink(u, c)
      BY <1>3, <1>4 DEF HssLink, RanSteps
  <2>4. /\ S11State(d) = S11State(c) /\ S11Up(u, d) = S11Up(u, c)
        /\ \A dl : S11Down(u, d, dl) = S11Down(u, c, dl)
    <3>1. S11State(d) = S11State(c)
        BY <1>3, <1>4 DEF S11State, RanSteps
    <3>2. S11Up(u, d) = S11Up(u, c)
        BY <1>3, <1>4 DEF S11Up, RanSteps
    <3>3. \A dl : S11Down(u, d, dl) = S11Down(u, c, dl)
        BY <1>3, <1>4 DEF S11Down, RanSteps
    <3> QED
        BY <3>1, <3>2, <3>3
  <2>5. c.out # 0 => S11OK(u, d)'
      BY <1>1, <1>3, <2>4 DEF CallOK, MmeOK, MmeFdsOK, S11OK
  <2> QED
      BY <1>1, <1>3, <1>4, <2>1, <2>2, <2>3, <2>5 DEF CallOK, MmeOK, MmeFdsOK, MmeCtxOK, mmeVars, RanSteps
<1>7. SgwOK(u, d)'
  <2>1. MmeEntry(d) = MmeEntry(c)
      BY <1>3, <1>4 DEF MmeEntry, RanSteps
  <2>2. PgwEntry(u, d) = PgwEntry(u, c)
      BY <1>3, <1>4 DEF PgwEntry, RanSteps
  <2>3. S5State(d) = S5State(c) /\ S5Up(u, d) = S5Up(u, c) /\ S5Down(u, d) = S5Down(u, c)
      BY <1>3, <1>4 DEF S5State, S5Up, S5Down, RanSteps
  <2> QED
      BY <1>1, <1>3, <1>4, <2>1, <2>2, <2>3 DEF CallOK, SgwOK, sgwVars, RanSteps
<1>8. PgwOK(u, d)'
    BY <1>1, <1>3, <1>4 DEF CallOK, PgwOK, pgwVars, RanSteps
<1>9. CallOK(u, d)'
    BY <1>5, <1>6, <1>7, <1>8 DEF CallOK
<1>10. ue_count' \in Nat
    BY Names DEF TypeOK, KbyMmeTypeOK, mmeVars
<1>11. MmeFrame(u, c, d) /\ SgwFrame(u, c, d) /\ PgwFrame(u, c, d) /\ FdsMove(call, u, d)
    BY <1>3, <1>10 DEF MmeFrame, SgwFrame, PgwFrame, FdsMove, mmeVars, sgwVars, pgwVars, c
<1>12. Armed' /\ exited' = {}
    BY DEF Calls, Armed, mmeVars, sgwVars, pgwVars
<1> QED
    BY <1>2, <1>9, <1>10, <1>11, <1>12, Move DEF c

\* A terminal's step keeps the types of what nodes hold.
LEMMA RanTypes ==
    ASSUME TypeOK, UNCHANGED <<mmeVars, sgwVars, pgwVars, s6a, s11, s5, exited>>,
           s1' \in [UE -> Link], KbyRanTypeOK'
    PROVE  TypeOK'
BY DEF TypeOK, KbyBaseTypeOK, KbyMmeTypeOK, KbySgwTypeOK, KbyPgwTypeOK, mmeVars, sgwVars, pgwVars

\* What a call says of its terminal.
LEMMA RanAt ==
    ASSUME NEW u \in UE, NEW c \in Call, CallOK(u, c)
    PROVE  /\ ran_pc[u] = Pc(c.at) /\ c.at \in 0 .. 27
           /\ s1[u].state = S1State(c.at) /\ s1[u].srv = c.ran
           /\ s1[u].up = S1Up(u, c) /\ s1[u].down = S1Down(u, c)
           /\ c.id # 0 <=> c.at \in 3 .. 26
           /\ c.ran # 0 <=> c.at \in 2 .. 26
<1>1. c.at \in 0 .. 27
    BY CallNumbers
<1> QED
    BY <1>1 DEF CallOK, FdsOK, RanOK

\* What the step of a terminal says of its call.
LEMMA RanStage ==
    ASSUME NEW u \in UE, NEW c \in Call, CallOK(u, c)
    PROVE  /\ ran_pc[u] = "idle" => c.at = 0
           /\ ran_pc[u] = "authenticate" /\ s1[u].down # None => c.at = 6
           /\ ran_pc[u] = "set_security" /\ s1[u].down # None => c.at = 8
           /\ ran_pc[u] = "set_eps_session" /\ s1[u].down # None => c.at = 16
           /\ ran_pc[u] = "attach_complete" /\ s1[u].down # None => c.at = 20
           /\ ran_pc[u] = "attached" => c.at = 21
           /\ ran_pc[u] = "detach" /\ s1[u].down # None => c.at = 27
<1>1. c.at \in 0 .. 27 /\ ran_pc[u] = Pc(c.at) /\ s1[u].down = S1Down(u, c)
    BY RanAt
<1>2. s1[u].down # None => c.at \in {6, 8, 16, 20, 27}
    BY <1>1 DEF S1Down
<1>3. /\ ran_pc[u] = "idle" => c.at = 0
      /\ ran_pc[u] = "authenticate" => c.at \in 1 .. 6
      /\ ran_pc[u] = "set_security" => c.at \in 7 .. 8
      /\ ran_pc[u] = "set_eps_session" => c.at \in 9 .. 16
      /\ ran_pc[u] = "attach_complete" => c.at \in 17 .. 20
      /\ ran_pc[u] = "attached" => c.at = 21
      /\ ran_pc[u] = "detach" => c.at \in 22 .. 27
    BY <1>1 DEF Pc
<1> QED
    BY <1>2, <1>3

\* The answers that a terminal reads.
LEMMA Answers ==
    ASSUME NEW u \in UE, NEW c \in Call, CallOK(u, c)
    PROVE  /\ c.at = 6  => s1[u].down.id = c.id /\ s1[u].down.imsi = u
           /\ c.at = 16 => s1[u].down.imsi = u /\ s1[u].down.teid = u /\ s1[u].down.ip = u
<1>1. s1[u].down = S1Down(u, c)
    BY RanAt
<1>2. CASE c.at = 6
  <2>1. s1[u].down = [Msg(1) EXCEPT !.id = c.id, !.imsi = u]
      BY <1>1, <1>2 DEF S1Down
  <2> QED
      BY <1>2, <2>1 DEF Msg
<1>3. CASE c.at = 16
  <2>1. s1[u].down = [Msg(3) EXCEPT !.imsi = u, !.teid = u, !.ip = u]
      BY <1>1, <1>3 DEF S1Down
  <2> QED
      BY <1>3, <2>1 DEF Msg
<1> QED
    BY <1>2, <1>3

\* A message and its fields.
Fields(k, i, a, b, s, e) == [type |-> k, id |-> i, imsi |-> a, teid |-> b, s5 |-> s, ip |-> e]

\* The messages of the program, written out.
LEMMA MsgId == ASSUME NEW k, NEW i PROVE [Msg(k) EXCEPT !.id = i] = Fields(k, i, 0, 0, 0, 0)
BY DEF Msg, Fields

\* ... with an IMSI, ...
LEMMA MsgImsi == ASSUME NEW k, NEW a PROVE [Msg(k) EXCEPT !.imsi = a] = Fields(k, 0, a, 0, 0, 0)
BY DEF Msg, Fields

\* ... with a TEID, ...
LEMMA MsgTeid == ASSUME NEW k, NEW a PROVE [Msg(k) EXCEPT !.teid = a] = Fields(k, 0, 0, a, 0, 0)
BY DEF Msg, Fields

\* ... with an identifier and an IMSI, ...
LEMMA MsgIdImsi ==
    ASSUME NEW k, NEW i, NEW a
    PROVE  [Msg(k) EXCEPT !.id = i, !.imsi = a] = Fields(k, i, a, 0, 0, 0)
<1>1. [Fields(k, i, 0, 0, 0, 0) EXCEPT !.imsi = a] = Fields(k, i, a, 0, 0, 0)
    BY DEF Fields
<1> QED
    BY <1>1, MsgId

\* ... with an identifier and a TEID, ...
LEMMA MsgIdTeid ==
    ASSUME NEW k, NEW i, NEW a
    PROVE  [Msg(k) EXCEPT !.id = i, !.teid = a] = Fields(k, i, 0, a, 0, 0)
<1>1. [Fields(k, i, 0, 0, 0, 0) EXCEPT !.teid = a] = Fields(k, i, 0, a, 0, 0)
    BY DEF Fields
<1> QED
    BY <1>1, MsgId

\* ... with a TEID and an IMSI, ...
LEMMA MsgTeidImsi ==
    ASSUME NEW k, NEW a, NEW b
    PROVE  [Msg(k) EXCEPT !.teid = a, !.imsi = b] = Fields(k, 0, b, a, 0, 0)
<1>1. [Fields(k, 0, 0, a, 0, 0) EXCEPT !.imsi = b] = Fields(k, 0, b, a, 0, 0)
    BY DEF Fields
<1> QED
    BY <1>1, MsgTeid

\* ... and with a TEID and an address.
LEMMA MsgTeidIp ==
    ASSUME NEW k, NEW a, NEW b
    PROVE  [Msg(k) EXCEPT !.teid = a, !.ip = b] = Fields(k, 0, 0, a, 0, b)
<1>1. [Fields(k, 0, 0, a, 0, 0) EXCEPT !.ip = b] = Fields(k, 0, 0, a, 0, b)
    BY DEF Fields
<1> QED
    BY <1>1, MsgTeid

\* ... and their types.
LEMMA FieldTypes ==
    ASSUME NEW k \in 1 .. 5, NEW i \in {0} \cup UeId, NEW a \in Teid, NEW b \in Teid,
           NEW s \in Teid, NEW e \in Teid
    PROVE  Fields(k, i, a, b, s, e) \in Message
BY DEF Fields, Message

\* The beginning of a round.
LEMMA AttachMoves ==
    ASSUME TypeOK, NEW call \in [UE -> Call], Calls(call), NEW u \in UE, Attach(u), Rest
    PROVE  TypeOK' /\ \E next \in [UE -> Call] : Calls(next)'
<1>1. PICK c \in Call : c = call[u] /\ CallOK(u, c)
    BY DEF Calls
<1>2. PICK d : d = [c EXCEPT !.at = 1]
    OBVIOUS
<1>3. c.at = 0 /\ c.ran = 0
  <2>1. ran_pc[u] = Pc(c.at) /\ c.at \in 0 .. 27 /\ (c.ran # 0 <=> c.at \in 2 .. 26)
      BY <1>1, RanAt
  <2> QED
      BY <2>1 DEF Attach, Goto, Pc
<1>4. [Msg(1) EXCEPT !.imsi = u] \in Message
    BY Names DEF Message
<1>5. s1' = [s1 EXCEPT ![u] = [NoLink EXCEPT !.state = "syn", !.up = [Msg(1) EXCEPT !.imsi = u]]]
    BY DEF Attach, SendUp, Connect, TypeOK, KbyBaseTypeOK
<1>6. s1' \in [UE -> Link] /\ KbyRanTypeOK'
  <2>1. [NoLink EXCEPT !.state = "syn", !.up = [Msg(1) EXCEPT !.imsi = u]] \in Link
      BY <1>4, Names DEF Link, NoLink
  <2>2. s1' \in [UE -> Link]
      BY <1>5, <2>1 DEF TypeOK, KbyBaseTypeOK
  <2>3. NewRanContext \in RanContext
      BY Names DEF RanContext, NewRanContext
  <2>4. KbyRanTypeOK'
      BY <2>3 DEF Attach, Goto, TypeOK, KbyRanTypeOK
  <2> QED
      BY <2>2, <2>4
<1>7. RanOK(u, d)'
  <2>1. s1'[u] = [state |-> "syn", srv |-> 0, up |-> [Msg(1) EXCEPT !.imsi = u], down |-> None]
      BY <1>5 DEF TypeOK, KbyBaseTypeOK, NoLink
  <2>2. ran_pc'[u] = "authenticate" /\ rounds'[u] = rounds[u] + 1 /\ rounds[u] < Rounds[u]
      BY DEF Attach, Goto, TypeOK, KbyRanTypeOK
  <2>3. rounds[u] \in Nat /\ Rounds[u] \in Nat
      BY KbyRoundAssumption DEF TypeOK, KbyRanTypeOK
  <2>4. d.at = 1 /\ d.ran = 0
      BY <1>2, <1>3 DEF Call
  <2> QED
      BY <2>1, <2>2, <2>3, <2>4 DEF RanOK, Pc, S1State, S1Up, S1Down
<1>8. RanFrame(u)
    BY <1>5 DEF RanFrame, Attach, Goto, TypeOK, KbyBaseTypeOK, KbyRanTypeOK
<1>9. Numbered([call EXCEPT ![u] = d])' = Numbered(call)
  <2>1. \A a \in Attaches : a[1] \in UE /\ a[2] \in Nat
      BY DEF Attaches
  <2>2. \A v \in UE : rounds[v] \in Nat /\ rounds'[v] = IF v = u THEN rounds[u] + 1 ELSE rounds[v]
      BY DEF Attach, TypeOK, KbyRanTypeOK
  <2>3. \A v \in UE : [call EXCEPT ![u] = d][v] = IF v = u THEN d ELSE call[v]
      OBVIOUS
  <2>4. d.at = 1
      BY <1>2 DEF Call
  <2>5. \A a \in Attaches : a[1] # u =>
            rounds'[a[1]] = rounds[a[1]] /\ [call EXCEPT ![u] = d][a[1]].at = call[a[1]].at
      BY <2>1, <2>2, <2>3
  <2>6. \A a \in Attaches : a[1] = u =>
            /\ rounds'[a[1]] = rounds[a[1]] + 1 /\ rounds[a[1]] \in Nat /\ a[2] \in Nat
            /\ [call EXCEPT ![u] = d][a[1]].at = 1 /\ call[a[1]].at = 0
      BY <1>1, <1>3, <2>1, <2>2, <2>3, <2>4
  <2> QED
      BY <2>1, <2>5, <2>6 DEF Numbered
<1>10. UNCHANGED <<mmeVars, sgwVars, pgwVars, s6a, s11, s5, exited>>
    BY DEF Attach, Goto, Rest
<1>11. ue_count' = Cardinality(Numbered([call EXCEPT ![u] = d])')
    BY <1>9, <1>10 DEF Calls, mmeVars
<1>12. <<call[u].at, 1>> \in RanSteps /\ d = [call[u] EXCEPT !.at = 1] /\ 1 \in 0 .. 27
    BY <1>1, <1>2, <1>3 DEF RanSteps
<1>13. \E next \in [UE -> Call] : Calls(next)'
    BY <1>7, <1>8, <1>10, <1>11, <1>12, RanAdvance
<1> QED
    BY <1>6, <1>10, <1>13, RanTypes

\* A step of a terminal in the middle of a round.
LEMMA RoundMoves ==
    ASSUME TypeOK, NEW call \in [UE -> Call], Calls(call), NEW u \in UE, NEW ctx \in RanContext,
           NEW k \in {0, 7, 9, 17, 21, 22}, <<call[u].at, k>> \in RanSteps,
           NEW d, d = [call[u] EXCEPT !.at = k], S1Up(u, d) \in Message \cup {None},
           Goto(u, ran_pc[u], Pc(k)), ran_ctx' = [ran_ctx EXCEPT ![u] = ctx],
           UNCHANGED rounds, Rest,
           s1' = [s1 EXCEPT ![u] =
                     [state |-> S1State(k), srv |-> d.ran, up |-> S1Up(u, d), down |-> None]],
           k # 0 => ctx.id = call[u].id,
           k \in {17, 21, 22} => ctx.guti = u /\ ctx.s1_uteid_ul = u /\ ctx.ip = u
    PROVE  TypeOK' /\ \E next \in [UE -> Call] : Calls(next)'
<1>1. PICK c \in Call : c = call[u] /\ CallOK(u, c)
    BY DEF Calls
<1>2. d.at = k /\ d.ran = c.ran /\ d.id = c.id /\ d \in Call
    BY <1>1 DEF Call
<1>3. c.at \in {6, 8, 16, 20, 21, 27}
    BY <1>1 DEF RanSteps
<1>4. /\ Pc(k) \in {"idle", "set_security", "set_eps_session", "attach_complete", "attached",
                    "detach"}
      /\ S1State(k) \in {"closed", "open"}
  <2>1. Pc(k) \in {"idle", "set_security", "set_eps_session", "attach_complete", "attached",
                   "detach"}
      BY DEF Pc
  <2>2. S1State(k) \in {"closed", "open"}
      BY DEF S1State
  <2> QED
      BY <2>1, <2>2
<1>5. s1' \in [UE -> Link] /\ KbyRanTypeOK'
  <2>1. s1' \in [UE -> Link]
    <3>1. d.ran \in {0} \cup Fd
        BY <1>2 DEF Call
    <3> QED
        BY <1>4, <3>1 DEF TypeOK, KbyBaseTypeOK, Link
  <2>2. KbyRanTypeOK'
      BY <1>4 DEF Goto, TypeOK, KbyRanTypeOK
  <2> QED
      BY <2>1, <2>2
<1>6. RanOK(u, d)'
  <2>1. s1'[u] = [state |-> S1State(k), srv |-> d.ran, up |-> S1Up(u, d), down |-> None]
      BY DEF TypeOK, KbyBaseTypeOK
  <2>2. ran_pc'[u] = Pc(k) /\ rounds'[u] = rounds[u] /\ ran_ctx'[u] = ctx
      BY DEF Goto, TypeOK, KbyRanTypeOK
  <2>3. rounds[u] <= Rounds[u] /\ rounds[u] # 0
      BY <1>1, <1>3 DEF CallOK, RanOK
  <2>4. S1Down(u, d) = None
      BY <1>2 DEF S1Down
  <2> QED
      BY <1>1, <1>2, <2>1, <2>2, <2>3, <2>4 DEF RanOK
<1>7. RanFrame(u)
    BY DEF RanFrame, Goto, TypeOK, KbyBaseTypeOK, KbyRanTypeOK
<1>8. UNCHANGED <<mmeVars, sgwVars, pgwVars, s6a, s11, s5, exited>> /\ UNCHANGED <<rounds, ue_count>>
    BY DEF Goto, Rest, mmeVars
<1>9. d.at \in 1 .. 2 <=> call[u].at \in 1 .. 2
    BY <1>1, <1>2, <1>3
<1>10. ue_count' = Cardinality(Numbered([call EXCEPT ![u] = d])')
    BY <1>2, <1>8, <1>9, SameNumbered
<1>11. k \in 0 .. 27
    OBVIOUS
<1>12. \E next \in [UE -> Call] : Calls(next)'
    BY <1>6, <1>7, <1>8, <1>10, <1>11, RanAdvance
<1> QED
    BY <1>5, <1>8, <1>12, RanTypes

\* A step of a terminal that reads an answer and may send a request.
LEMMA StepMoves ==
    ASSUME TypeOK, NEW call \in [UE -> Call], Calls(call), NEW u \in UE, NEW ctx \in RanContext,
           NEW k \in {7, 9, 17, 21}, <<call[u].at, k>> \in RanSteps,
           NEW d, d = [call[u] EXCEPT !.at = k], S1Up(u, d) \in Message \cup {None},
           Step(u, ran_pc[u], Pc(k), ctx, S1Up(u, d)), Rest,
           ctx.id = call[u].id,
           k \in {17, 21} => ctx.guti = u /\ ctx.s1_uteid_ul = u /\ ctx.ip = u
    PROVE  TypeOK' /\ \E next \in [UE -> Call] : Calls(next)'
<1>1. PICK c \in Call : c = call[u] /\ CallOK(u, c)
    BY DEF Calls
<1>2. d.ran = c.ran
    BY <1>1 DEF Call
<1>3. c.at \in {6, 8, 16, 20}
    BY <1>1 DEF RanSteps
<1>4. S1State(k) = "open"
    BY DEF S1State
<1>5. s1' = [s1 EXCEPT ![u] =
                [state |-> S1State(k), srv |-> d.ran, up |-> S1Up(u, d), down |-> None]]
  <2>1. s1[u].state = "open" /\ s1[u].srv = d.ran
    <3>1. s1[u].state = S1State(c.at) /\ s1[u].srv = c.ran
        BY <1>1, RanAt
    <3> QED
        BY <1>2, <1>3, <3>1 DEF S1State
  <2>2. s1 \in [UE -> Link]
      BY DEF TypeOK, KbyBaseTypeOK
  <2>3. s1[u] = [state |-> "open", srv |-> d.ran, up |-> s1[u].up, down |-> s1[u].down]
      BY <2>1, <2>2 DEF Link
  <2>4. s1' = [s1 EXCEPT ![u].down = None, ![u].up = S1Up(u, d)]
      BY DEF Step
  <2>5. [s1[u] EXCEPT !.down = None]
        = [state |-> "open", srv |-> d.ran, up |-> s1[u].up, down |-> None]
      BY <2>3
  <2>6. [[state |-> "open", srv |-> d.ran, up |-> s1[u].up, down |-> None] EXCEPT !.up = S1Up(u, d)]
        = [state |-> "open", srv |-> d.ran, up |-> S1Up(u, d), down |-> None]
      OBVIOUS
  <2> QED
      BY <1>4, <2>2, <2>4, <2>5, <2>6
<1>6. /\ Goto(u, ran_pc[u], Pc(k)) /\ ran_ctx' = [ran_ctx EXCEPT ![u] = ctx] /\ UNCHANGED rounds
      /\ k \in {0, 7, 9, 17, 21, 22}
    BY DEF Step
<1>7. /\ k # 0 => ctx.id = call[u].id
      /\ k \in {17, 21, 22} => ctx.guti = u /\ ctx.s1_uteid_ul = u /\ ctx.ip = u
    OBVIOUS
<1> QED
    BY <1>5, <1>6, <1>7, RoundMoves

\* The challenge: the vector is one for this subscriber.
LEMMA AuthenticateMoves ==
    ASSUME TypeOK, NEW call \in [UE -> Call], Calls(call), NEW u \in UE, Authenticate(u), Rest
    PROVE  TypeOK' /\ \E next \in [UE -> Call] : Calls(next)'
<1>1. PICK c \in Call : c = call[u] /\ CallOK(u, c)
    BY DEF Calls
<1>2. ran_pc[u] = "authenticate" /\ s1[u].down # None
    BY DEF Authenticate, Step, Goto
<1>3. c.at = 6
    BY <1>1, <1>2, RanStage
<1>4. s1[u].down.id = c.id /\ s1[u].down.imsi = u
    BY <1>1, <1>3, Answers
<1>5. c.id \in {0} \cup UeId
    BY DEF Call
<1>6. PICK d : d = [call[u] EXCEPT !.at = 7]
    OBVIOUS
<1>7. d.at = 7 /\ d.id = c.id
    BY <1>1, <1>6 DEF Call
<1>8. PICK ctx : ctx = [ran_ctx[u] EXCEPT !.id = c.id]
    OBVIOUS
<1>9. ctx \in RanContext /\ ctx.id = c.id
    BY <1>5, <1>8 DEF TypeOK, KbyRanTypeOK, RanContext
<1>10. PICK request : request = [Msg(2) EXCEPT !.id = c.id, !.imsi = u]
    OBVIOUS
<1>11. request \in Message \cup {None}
  <2>1. request = Fields(2, c.id, u, 0, 0, 0)
      BY <1>10, MsgIdImsi
  <2>2. u \in Teid /\ 0 \in Teid /\ 2 \in 1 .. 5
      BY Names
  <2>3. Fields(2, c.id, u, 0, 0, 0) \in Message
      BY <1>5, <2>2, FieldTypes
  <2> QED
      BY <2>1, <2>3
<1>12. S1Up(u, d) = request
    BY <1>7, <1>10 DEF S1Up
<1>13. Pc(7) = "set_security"
    BY DEF Pc
<1>14. Step(u, ran_pc[u], Pc(7), ctx, S1Up(u, d))
    BY <1>2, <1>4, <1>8, <1>10, <1>12, <1>13 DEF Authenticate
<1>15. <<call[u].at, 7>> \in RanSteps
    BY <1>1, <1>3 DEF RanSteps
<1>16. ctx.id = call[u].id /\ 7 \in {7, 9, 17, 21} /\ 7 \notin {17, 21}
    BY <1>1, <1>9
<1> QED
    BY <1>6, <1>9, <1>11, <1>12, <1>14, <1>15, <1>16, StepMoves

\* The command: the third attach has no payload.
LEMMA SetSecurityMoves ==
    ASSUME TypeOK, NEW call \in [UE -> Call], Calls(call), NEW u \in UE, SetSecurity(u), Rest
    PROVE  TypeOK' /\ \E next \in [UE -> Call] : Calls(next)'
<1>1. PICK c \in Call : c = call[u] /\ CallOK(u, c)
    BY DEF Calls
<1>2. c.at = 8
    BY <1>1, RanStage DEF SetSecurity, Step, Goto
<1>3. ran_ctx[u].id = c.id /\ c.id \in {0} \cup UeId
    BY <1>1, <1>2 DEF CallOK, RanOK, Call
<1>4. PICK d : d = [call[u] EXCEPT !.at = 9]
    OBVIOUS
<1>5. d.at = 9 /\ d.id = c.id
    BY <1>1, <1>4 DEF Call
<1>6. PICK request : request = [Msg(3) EXCEPT !.id = c.id]
    OBVIOUS
<1>7. request \in Message \cup {None}
  <2>1. Fields(3, c.id, 0, 0, 0, 0) \in Message
      BY <1>3, Names, FieldTypes
  <2> QED
      BY <1>6, <2>1, MsgId
<1>8. S1Up(u, d) = request
    BY <1>5, <1>6 DEF S1Up
<1>9. Pc(9) = "set_eps_session"
    BY DEF Pc
<1>10. PICK ctx \in RanContext : ctx = ran_ctx[u]
    BY DEF TypeOK, KbyRanTypeOK
<1>11. Step(u, ran_pc[u], Pc(9), ctx, S1Up(u, d))
    BY <1>3, <1>6, <1>8, <1>9, <1>10 DEF SetSecurity, Step, Goto
<1>12. <<call[u].at, 9>> \in RanSteps
    BY <1>1, <1>2 DEF RanSteps
<1>13. ctx.id = call[u].id /\ 9 \in {7, 9, 17, 21} /\ 9 \notin {17, 21}
    BY <1>1, <1>3, <1>10
<1> QED
    BY <1>4, <1>7, <1>8, <1>11, <1>12, <1>13, StepMoves

\* The accept: the terminal learns its identifiers.
LEMMA SetEpsSessionMoves ==
    ASSUME TypeOK, NEW call \in [UE -> Call], Calls(call), NEW u \in UE, SetEpsSession(u), Rest
    PROVE  TypeOK' /\ \E next \in [UE -> Call] : Calls(next)'
<1>1. PICK c \in Call : c = call[u] /\ CallOK(u, c)
    BY DEF Calls
<1>2. c.at = 16
    BY <1>1, RanStage DEF SetEpsSession, Step, Goto
<1>3. ran_ctx[u].id = c.id /\ c.id \in {0} \cup UeId
    BY <1>1, <1>2 DEF CallOK, RanOK, Call
<1>4. s1[u].down.imsi = u /\ s1[u].down.teid = u /\ s1[u].down.ip = u
    BY <1>1, <1>2, Answers
<1>5. PICK d : d = [call[u] EXCEPT !.at = 17]
    OBVIOUS
<1>6. d.at = 17 /\ d.id = c.id
    BY <1>1, <1>5 DEF Call
<1>7. PICK ctx : ctx = [ran_ctx[u] EXCEPT !.guti = u, !.s1_uteid_ul = u, !.ip = u]
    OBVIOUS
<1>8. /\ ctx \in RanContext /\ ctx.id = c.id
      /\ ctx.guti = u /\ ctx.s1_uteid_ul = u /\ ctx.ip = u
  <2>1. ran_ctx[u] \in RanContext
      BY DEF TypeOK, KbyRanTypeOK
  <2> QED
      BY <1>3, <1>7, <2>1, Names DEF RanContext
<1>9. PICK request : request = [Msg(4) EXCEPT !.id = c.id, !.teid = u]
    OBVIOUS
<1>10. request \in Message \cup {None}
  <2>1. Fields(4, c.id, 0, u, 0, 0) \in Message
    <3>1. u \in Teid /\ 0 \in Teid /\ 4 \in 1 .. 5
        BY Names
    <3> QED
        BY <1>3, <3>1, FieldTypes
  <2> QED
      BY <1>9, <2>1, MsgIdTeid
<1>11. S1Up(u, d) = request
    BY <1>6, <1>9 DEF S1Up
<1>12. Pc(17) = "attach_complete"
    BY DEF Pc
<1>13. Step(u, ran_pc[u], Pc(17), ctx, S1Up(u, d))
    BY <1>3, <1>4, <1>7, <1>9, <1>11, <1>12 DEF SetEpsSession, Step, Goto
<1>14. <<call[u].at, 17>> \in RanSteps
    BY <1>1, <1>2 DEF RanSteps
<1>15. ctx.id = call[u].id /\ 17 \in {7, 9, 17, 21}
    BY <1>1, <1>8
<1> QED
    BY <1>5, <1>8, <1>10, <1>11, <1>13, <1>14, <1>15, StepMoves

\* The answer to the attach complete.
LEMMA AttachCompleteMoves ==
    ASSUME TypeOK, NEW call \in [UE -> Call], Calls(call), NEW u \in UE, AttachComplete(u), Rest
    PROVE  TypeOK' /\ \E next \in [UE -> Call] : Calls(next)'
<1>1. PICK c \in Call : c = call[u] /\ CallOK(u, c)
    BY DEF Calls
<1>2. c.at = 20
    BY <1>1, RanStage DEF AttachComplete, Step, Goto
<1>3. PICK d : d = [call[u] EXCEPT !.at = 21]
    OBVIOUS
<1>4. d.at = 21
    BY <1>1, <1>3 DEF Call
<1>5. PICK ctx \in RanContext : ctx = ran_ctx[u]
    BY DEF TypeOK, KbyRanTypeOK
<1>6. ctx.id = c.id /\ ctx.guti = u /\ ctx.s1_uteid_ul = u /\ ctx.ip = u
    BY <1>1, <1>2, <1>5 DEF CallOK, RanOK
<1>7. S1Up(u, d) = None
    BY <1>4 DEF S1Up
<1>8. Pc(21) = "attached"
    BY DEF Pc
<1>9. Step(u, ran_pc[u], Pc(21), ctx, S1Up(u, d))
    BY <1>5, <1>7, <1>8 DEF AttachComplete, Step, Goto
<1>10. <<call[u].at, 21>> \in RanSteps
    BY <1>1, <1>2 DEF RanSteps
<1>11. ctx.id = call[u].id /\ 21 \in {7, 9, 17, 21} /\ S1Up(u, d) \in Message \cup {None}
    BY <1>1, <1>6, <1>7
<1> QED
    BY <1>3, <1>6, <1>9, <1>10, <1>11, StepMoves

\* The detach request.
LEMMA DetachMoves ==
    ASSUME TypeOK, NEW call \in [UE -> Call], Calls(call), NEW u \in UE, Detach(u), Rest
    PROVE  TypeOK' /\ \E next \in [UE -> Call] : Calls(next)'
<1>1. PICK c \in Call : c = call[u] /\ CallOK(u, c)
    BY DEF Calls
<1>2. c.at = 21
    BY <1>1, RanStage DEF Detach, Goto
<1>3. PICK d : d = [call[u] EXCEPT !.at = 22]
    OBVIOUS
<1>4. d.at = 22 /\ d.ran = c.ran /\ d.id = c.id /\ c.id \in {0} \cup UeId
    BY <1>1, <1>3 DEF Call
<1>5. PICK ctx \in RanContext : ctx = ran_ctx[u]
    BY DEF TypeOK, KbyRanTypeOK
<1>6. ctx.id = c.id /\ ctx.guti = u /\ ctx.s1_uteid_ul = u /\ ctx.ip = u
    BY <1>1, <1>2, <1>5 DEF CallOK, RanOK
<1>7. PICK request : request = [Msg(5) EXCEPT !.id = c.id, !.imsi = u]
    OBVIOUS
<1>8. request \in Message \cup {None}
  <2>1. Fields(5, c.id, u, 0, 0, 0) \in Message
    <3>1. u \in Teid /\ 0 \in Teid /\ 5 \in 1 .. 5
        BY Names
    <3> QED
        BY <1>4, <3>1, FieldTypes
  <2> QED
      BY <1>7, <2>1, MsgIdImsi
<1>9. S1Up(u, d) = request /\ S1State(22) = "open" /\ Pc(22) = "detach"
  <2>1. S1Up(u, d) = request
      BY <1>4, <1>7 DEF S1Up
  <2>2. S1State(22) = "open"
      BY DEF S1State
  <2>3. Pc(22) = "detach"
      BY DEF Pc
  <2> QED
      BY <2>1, <2>2, <2>3
<1>10. s1' = [s1 EXCEPT ![u] = [state |-> "open", srv |-> d.ran, up |-> request, down |-> None]]
  <2>1. s1[u].state = "open" /\ s1[u].srv = d.ran /\ s1[u].down = None
    <3>1. /\ s1[u].state = S1State(c.at) /\ s1[u].srv = c.ran
          /\ s1[u].down = S1Down(u, c)
        BY <1>1, RanAt
    <3>2. S1State(c.at) = "open"
        BY <1>2 DEF S1State
    <3>3. S1Down(u, c) = None
        BY <1>2 DEF S1Down
    <3> QED
        BY <1>4, <3>1, <3>2, <3>3
  <2>2. s1 \in [UE -> Link]
      BY DEF TypeOK, KbyBaseTypeOK
  <2>3. s1[u] = [state |-> "open", srv |-> d.ran, up |-> s1[u].up, down |-> None]
      BY <2>1, <2>2 DEF Link
  <2>4. s1' = [s1 EXCEPT ![u].up = request]
      BY <1>5, <1>6, <1>7 DEF Detach, SendUp
  <2>5. [s1[u] EXCEPT !.up = request]
        = [state |-> "open", srv |-> d.ran, up |-> request, down |-> None]
      BY <2>3
  <2> QED
      BY <2>2, <2>4, <2>5
<1>11. <<call[u].at, 22>> \in RanSteps
    BY <1>1, <1>2 DEF RanSteps
<1>12. ran_ctx' = [ran_ctx EXCEPT ![u] = ctx]
    BY <1>5 DEF Detach, TypeOK, KbyRanTypeOK
<1>13. Goto(u, ran_pc[u], Pc(22)) /\ UNCHANGED rounds
    BY <1>9 DEF Detach, Goto
<1>14. ctx.id = call[u].id /\ 22 \in {0, 7, 9, 17, 21, 22}
    BY <1>1, <1>6
<1>15. S1Up(u, d) \in Message \cup {None}
    BY <1>8, <1>9
<1>16. s1' = [s1 EXCEPT ![u] =
                 [state |-> S1State(22), srv |-> d.ran, up |-> S1Up(u, d), down |-> None]]
    BY <1>9, <1>10
<1> QED
    BY <1>3, <1>6, <1>11, <1>12, <1>13, <1>14, <1>15, <1>16, RoundMoves

\* The end of a round.
LEMMA DetachedMoves ==
    ASSUME TypeOK, NEW call \in [UE -> Call], Calls(call), NEW u \in UE, Detached(u), Rest
    PROVE  TypeOK' /\ \E next \in [UE -> Call] : Calls(next)'
<1>1. PICK c \in Call : c = call[u] /\ CallOK(u, c)
    BY DEF Calls
<1>2. c.at = 27
    BY <1>1, RanStage DEF Detached, Goto
<1>3. PICK d : d = [call[u] EXCEPT !.at = 0]
    OBVIOUS
<1>4. d.at = 0 /\ d.ran = c.ran
    BY <1>1, <1>3 DEF Call
<1>5. PICK ctx \in RanContext : ctx = ran_ctx[u]
    BY DEF TypeOK, KbyRanTypeOK
<1>6. S1Up(u, d) = None /\ S1State(0) = "closed" /\ Pc(0) = "idle"
  <2>1. S1Up(u, d) = None
      BY <1>4 DEF S1Up
  <2>2. S1State(0) = "closed"
      BY DEF S1State
  <2>3. Pc(0) = "idle"
      BY DEF Pc
  <2> QED
      BY <2>1, <2>2, <2>3
<1>7. s1' = [s1 EXCEPT ![u] =
                [state |-> S1State(0), srv |-> d.ran, up |-> S1Up(u, d), down |-> None]]
  <2>1. d.ran = 0
      BY <1>1, <1>2, <1>4, RanAt
  <2> QED
      BY <1>6, <2>1 DEF Detached, NoLink
<1>8. <<call[u].at, 0>> \in RanSteps
    BY <1>1, <1>2 DEF RanSteps
<1>9. ran_ctx' = [ran_ctx EXCEPT ![u] = ctx]
    BY <1>5 DEF Detached, TypeOK, KbyRanTypeOK
<1>10. Goto(u, ran_pc[u], Pc(0)) /\ UNCHANGED rounds
    BY <1>6 DEF Detached, Goto
<1>11. 0 \in {0, 7, 9, 17, 21, 22} /\ 0 \notin {17, 21, 22} /\ S1Up(u, d) \in Message \cup {None}
    BY <1>6
<1> QED
    BY <1>3, <1>7, <1>8, <1>9, <1>10, <1>11, RoundMoves

-----------------------------------------------------------------------------
(* Steps of the MME and the HSS.                                           *)

\* The steps of a call that these take.
MmeSteps == {<<2, 3>>, <<3, 4>>, <<4, 5>>, <<5, 6>>, <<7, 8>>, <<9, 10>>, <<10, 11>>, <<15, 16>>,
             <<17, 18>>, <<19, 20>>, <<22, 23>>, <<26, 27>>}

\* They change nothing that the terminal and the gateways hold of the call.
LEMMA MmeAdvance ==
    ASSUME TypeOK, NEW call \in [UE -> Call], Calls(call), NEW u \in UE, NEW d \in Call,
           <<call[u].at, d.at>> \in MmeSteps,
           d.mme = call[u].mme, d.pgw = call[u].pgw, d.sgw = call[u].sgw,
           d.id = call[u].id \/ d.at \in {3, 27},
           UNCHANGED <<ranVars, s5, sgwVars, pgwVars, exited>>,
           s1' = [s1 EXCEPT ![u] = [state |-> S1State(d.at), srv |-> d.ran, up |-> S1Up(u, d),
                                    down |-> S1Down(u, d)]],
           FdsOK(d), MmeOK(u, d)', MmeFrame(u, call[u], d), FdsMove(call, u, d), Armed',
           ue_count' = Cardinality(Numbered([call EXCEPT ![u] = d])'), ue_count' \in Nat
    PROVE  \E next \in [UE -> Call] : Calls(next)'
<1>1. PICK c \in Call : c = call[u] /\ CallOK(u, c)
    BY DEF Calls
<1>2. RanOK(u, d)'
  <2>1. s1'[u] = [state |-> S1State(d.at), srv |-> d.ran, up |-> S1Up(u, d), down |-> S1Down(u, d)]
      BY DEF TypeOK, KbyBaseTypeOK
  <2>2. Pc(d.at) = Pc(c.at)
      BY <1>1 DEF Pc, MmeSteps
  <2> QED
      BY <1>1, <2>1, <2>2 DEF CallOK, RanOK, ranVars, MmeSteps
<1>3. SgwOK(u, d)'
  <2>1. d.mme # 0 => MmeEntry(d) = MmeEntry(c)
    <3>1. <<c.at, d.at>> \notin {<<9, 10>>, <<26, 27>>} \/ d.mme = 0
        BY <1>1 DEF CallOK, FdsOK
    <3> QED
        BY <1>1, <3>1 DEF MmeEntry, MmeSteps
  <2>2. d.pgw # 0 => PgwEntry(u, d) = PgwEntry(u, c)
      BY <1>1 DEF PgwEntry, MmeSteps, FdsOK
  <2>3. d.pgw # 0 => S5State(d) = S5State(c) /\ S5Up(u, d) = S5Up(u, c) /\ S5Down(u, d) = S5Down(u, c)
      BY <1>1 DEF S5State, S5Up, S5Down, MmeSteps, FdsOK
  <2> QED
      BY <1>1, <2>1, <2>2, <2>3 DEF CallOK, SgwOK, sgwVars, MmeSteps
<1>4. PgwOK(u, d)'
    BY <1>1 DEF CallOK, PgwOK, pgwVars, MmeSteps
<1>5. CallOK(u, d)'
    BY <1>2, <1>3, <1>4 DEF CallOK
<1>6. RanFrame(u)
    BY DEF RanFrame, ranVars, TypeOK, KbyBaseTypeOK
<1>7. SgwFrame(u, call[u], d) /\ PgwFrame(u, call[u], d)
    BY DEF SgwFrame, PgwFrame, sgwVars, pgwVars
<1>8. exited' = {}
    BY DEF Calls
<1> QED
    BY <1>5, <1>6, <1>7, <1>8, Move

\* They keep the types of what the others hold.
LEMMA MmeTypes ==
    ASSUME TypeOK, UNCHANGED <<ranVars, s5, sgwVars, pgwVars, exited>>,
           s1' \in [UE -> Link], s6a' \in [Fd -> Link], s11' \in [Fd -> Link], KbyMmeTypeOK'
    PROVE  TypeOK'
BY DEF TypeOK, KbyBaseTypeOK, KbyRanTypeOK, KbySgwTypeOK, KbyPgwTypeOK, ranVars, sgwVars, pgwVars

\* What a call says of the MME's side of it.
LEMMA MmeAt ==
    ASSUME NEW u \in UE, NEW c \in Call, CallOK(u, c)
    PROVE  /\ c.ran # 0 <=> c.at \in 2 .. 26
           /\ c.out # 0 <=> c.at \in (3 .. 5) \cup (10 .. 26)
           /\ c.id # 0 <=> c.at \in 3 .. 26
           /\ c.ran # 0 => mme_fdmap[c.ran] = RanEntry(c)
           /\ c.out # 0 => mme_fdmap[c.out] = OutEntry(u, c) /\ s6a[c.out] = HssLink(u, c)
                          /\ S11OK(u, c)
           /\ \A i \in UeId : s1mme_id[i] = u <=> i = c.id
           /\ mme_ctx[u] # None <=> c.at \in 3 .. 26
           /\ c.id <= ue_count /\ MmeCtxOK(u, c)
BY DEF CallOK, FdsOK, MmeOK, MmeFdsOK, MmeCtxOK

\* An entry of the terminal's descriptor has act 1, one of HSS and SGW has not.
LEMMA RanEntryAct == ASSUME NEW c, RanEntry(c) # None PROVE RanEntry(c).act = 1
BY DEF RanEntry, FromRan

\* Whatever the MME waits for, some call waits for it.
LEMMA MmeWaits ==
    ASSUME NEW call \in [UE -> Call], Calls(call), NEW f \in Fd, mme_fdmap[f] # None,
           mme_fdmap[f].act # 1
    PROVE  \E u \in UE : f = call[u].out
<1>1. PICK u \in UE : f \in {call[u].ran, call[u].out}
    BY DEF Calls, NoStrays
<1>2. call[u] \in Call /\ CallOK(u, call[u]) /\ f # 0
    BY Names DEF Calls
<1>3. CASE f = call[u].ran
  <2>1. mme_fdmap[f] = RanEntry(call[u])
      BY <1>2, <1>3, MmeAt
  <2> QED
      BY <2>1, RanEntryAct
<1> QED
    BY <1>1, <1>3

\* What the event says of the call.
LEMMA MmeStage ==
    ASSUME NEW u \in UE, NEW c \in Call, CallOK(u, c), c.out # 0, mme_fdmap[c.out] # None
    PROVE  /\ mme_fdmap[c.out].initial_fd = c.ran /\ mme_fdmap[c.out].msui = c.id
           /\ mme_fdmap[c.out].act = 2 => c.at = 3
           /\ mme_fdmap[c.out].act = 3 /\ s6a[c.out].down # None => c.at = 5
           /\ mme_fdmap[c.out].act = 4 => c.at = 10
           /\ mme_fdmap[c.out].act = 5 /\ s11[c.out].down # None => c.at = 15
           /\ mme_fdmap[c.out].act = 6 /\ s11[c.out].down # None => c.at = 19
           /\ mme_fdmap[c.out].act = 7 /\ s11[c.out].down # None => c.at = 26
<1> DEFINE d == mme_fdmap[c.out]
<1>1. c.at \in 0 .. 27
    BY CallNumbers
<1>2. d = OutEntry(u, c) /\ s6a[c.out] = HssLink(u, c) /\ S11OK(u, c)
    BY MmeAt
<1>3. /\ d.initial_fd = c.ran /\ d.msui = c.id
      /\ d.act = 2 => c.at = 3
      /\ d.act = 3 => c.at \in 4 .. 5
      /\ d.act = 4 => c.at = 10
      /\ d.act = 5 => c.at \in 11 .. 15
      /\ d.act = 6 => c.at \in 18 .. 19
      /\ d.act = 7 => c.at \in 23 .. 26
    BY <1>1, <1>2 DEF OutEntry, Waiting
<1>4. c.at = 4 => s6a[c.out].down = None
    BY <1>2 DEF HssLink
<1>5. s11[c.out].down # None => c.at \in {15, 19, 26}
    BY <1>1, <1>2 DEF S11OK, S11Down
<1> QED
    BY <1>3, <1>4, <1>5

\* Connections written out: one that is opened, a request, an answer, and what is
\* left of it when the client has read it.
LEMMA ConnectForm ==
    ASSUME NEW S, NEW links \in [S -> Link], NEW c \in S
    PROVE  Connect(links, c) = [links EXCEPT ![c] =
              [state |-> "syn", srv |-> 0, up |-> None, down |-> None]]
<1>1. [NoLink EXCEPT !.state = "syn"] = [state |-> "syn", srv |-> 0, up |-> None, down |-> None]
    BY DEF NoLink
<1> QED
    BY <1>1 DEF Connect

\* What Answer leaves on the connection it is about.
LEMMA AnswerForm ==
    ASSUME NEW S, NEW links \in [S -> Link], NEW c \in S, NEW m
    PROVE  Answer(links, c, m) = [links EXCEPT ![c] =
              [state |-> links[c].state, srv |-> links[c].srv, up |-> None, down |-> m]]
<1>1. [links[c] EXCEPT !.up = None]
      = [state |-> links[c].state, srv |-> links[c].srv, up |-> None, down |-> links[c].down]
    BY DEF Link
<1>2. [[state |-> links[c].state, srv |-> links[c].srv, up |-> None, down |-> links[c].down]
          EXCEPT !.down = m]
      = [state |-> links[c].state, srv |-> links[c].srv, up |-> None, down |-> m]
    OBVIOUS
<1>3. Answer(links, c, m) = [links EXCEPT ![c] = [[links[c] EXCEPT !.up = None] EXCEPT !.down = m]]
    BY DEF Answer
<1> QED
    BY <1>1, <1>2, <1>3

\* The HSS answers.
LEMMA HssAnswerMoves ==
    ASSUME TypeOK, NEW call \in [UE -> Call], Calls(call), NEW f \in Fd, HssAnswer(f), Rest
    PROVE  TypeOK' /\ \E next \in [UE -> Call] : Calls(next)'
<1>1. PICK u \in UE : f = call[u].out
  <2>1. s6a[f] # NoLink
      BY DEF HssAnswer, NoLink
  <2> QED
      BY <2>1 DEF Calls, NoStrays
<1>2. PICK c \in Call : c = call[u] /\ CallOK(u, c)
    BY DEF Calls
<1>3. c.out = f /\ f # 0 /\ s6a[f] = HssLink(u, c)
    BY <1>1, <1>2, MmeAt, Names
<1>4. c.at = 4
    BY <1>3 DEF HssAnswer, HssLink
<1>5. PICK d : d = [c EXCEPT !.at = 5]
    OBVIOUS
<1>6. /\ d \in Call /\ d.at = 5 /\ d.ran = c.ran /\ d.out = c.out /\ d.id = c.id
      /\ d.mme = c.mme /\ d.pgw = c.pgw /\ d.sgw = c.sgw
    BY <1>5 DEF Call
<1>7. PICK m : m = [Msg(1) EXCEPT !.imsi = u]
    OBVIOUS
<1>8. m \in Message /\ [m EXCEPT !.id = 0] = m
  <2>1. m = Fields(1, 0, u, 0, 0, 0)
      BY <1>7, MsgImsi
  <2>2. u \in Teid /\ 0 \in Teid /\ 1 \in 1 .. 5
      BY Names
  <2> QED
      BY <2>1, <2>2, FieldTypes DEF Fields
<1>9. s6a' = [s6a EXCEPT ![f] = HssLink(u, d)]
  <2>1. s6a[f] = [state |-> "open", srv |-> 0, up |-> m, down |-> None]
      BY <1>3, <1>4, <1>7 DEF HssLink
  <2>2. HssLink(u, d) = [state |-> "open", srv |-> 0, up |-> None, down |-> m]
      BY <1>6, <1>7 DEF HssLink
  <2>3. s6a' = Answer(s6a, f, m)
      BY <1>8, <2>1 DEF HssAnswer
  <2>4. s6a \in [Fd -> Link]
      BY DEF TypeOK, KbyBaseTypeOK
  <2> QED
      BY <2>1, <2>2, <2>3, <2>4, AnswerForm
<1>10. HssLink(u, d) \in Link
    BY <1>6, <1>7, <1>8 DEF HssLink, Link
<1>11. UNCHANGED <<ranVars, s1, s11, s5, exited, mmeVars, sgwVars, pgwVars>>
    BY DEF HssAnswer, Rest
<1>12. TypeOK'
  <2>1. s6a' \in [Fd -> Link]
      BY <1>9, <1>10 DEF TypeOK, KbyBaseTypeOK
  <2>2. KbyMmeTypeOK' /\ s1' \in [UE -> Link] /\ s11' \in [Fd -> Link]
      BY <1>11 DEF TypeOK, KbyBaseTypeOK, KbyMmeTypeOK, mmeVars
  <2> QED
      BY <1>11, <2>1, <2>2, MmeTypes
<1>13. MmeOK(u, d)'
  <2>1. RanEntry(d) = RanEntry(c)
      BY <1>4, <1>6 DEF RanEntry
  <2>2. OutEntry(u, d) = OutEntry(u, c)
      BY <1>4, <1>6 DEF OutEntry, Waiting
  <2>3. s6a'[d.out] = HssLink(u, d)
      BY <1>3, <1>6, <1>9 DEF TypeOK, KbyBaseTypeOK
  <2>4. S11OK(u, d)'
    <3>1. S11OK(u, c)
        BY <1>2, <1>3, MmeAt
    <3>2. S11State(d) = S11State(c) /\ S11Up(u, d) = S11Up(u, c)
        BY <1>4, <1>6 DEF S11State, S11Up
    <3>3. \A dl : S11Down(u, d, dl) = S11Down(u, c, dl)
        BY <1>4, <1>6 DEF S11Down
    <3> QED
        BY <1>6, <1>11, <3>1, <3>2, <3>3 DEF S11OK
  <2> QED
      BY <1>2, <1>4, <1>6, <1>11, <2>1, <2>2, <2>3, <2>4
         DEF CallOK, MmeOK, MmeFdsOK, MmeCtxOK, mmeVars
<1>14. FdsOK(d) /\ <<c.at, d.at>> \in MmeSteps
    BY <1>2, <1>4, <1>6 DEF CallOK, FdsOK, MmeSteps
<1>15. s1' = [s1 EXCEPT ![u] = [state |-> S1State(d.at), srv |-> d.ran, up |-> S1Up(u, d),
                                down |-> S1Down(u, d)]]
  <2>1. s1[u] = [state |-> S1State(c.at), srv |-> c.ran, up |-> S1Up(u, c), down |-> S1Down(u, c)]
      BY <1>2 DEF CallOK, RanOK
  <2>2. S1State(d.at) = S1State(c.at)
      BY <1>4, <1>6 DEF S1State
  <2>3. S1Up(u, d) = S1Up(u, c)
      BY <1>4, <1>6 DEF S1Up
  <2>4. S1Down(u, d) = S1Down(u, c)
      BY <1>4, <1>6 DEF S1Down
  <2>5. s1' = s1 /\ s1 \in [UE -> Link]
      BY <1>11 DEF TypeOK, KbyBaseTypeOK
  <2> QED
      BY <1>6, <2>1, <2>2, <2>3, <2>4, <2>5
<1>16. MmeFrame(u, c, d) /\ FdsMove(call, u, d) /\ Armed'
  <2>1. ue_count \in Nat
      BY Names DEF TypeOK, KbyMmeTypeOK
  <2>2. \A g \in Fd \ {f} : s6a'[g] = s6a[g]
      BY <1>9 DEF TypeOK, KbyBaseTypeOK
  <2>3. MmeFrame(u, c, d)
      BY <1>3, <1>6, <1>11, <2>1, <2>2 DEF MmeFrame, mmeVars
  <2>4. FdsMove(call, u, d)
      BY <1>2, <1>6 DEF FdsMove
  <2>5. Armed'
      BY <1>11 DEF Calls, Armed, mmeVars, sgwVars, pgwVars
  <2> QED
      BY <2>3, <2>4, <2>5
<1>17. ue_count' = Cardinality(Numbered([call EXCEPT ![u] = d])') /\ ue_count' \in Nat
  <2>1. UNCHANGED <<rounds, ue_count>> /\ (d.at \in 1 .. 2 <=> call[u].at \in 1 .. 2)
      BY <1>2, <1>4, <1>6, <1>11 DEF ranVars, mmeVars
  <2> QED
      BY <1>6, <2>1, SameNumbered
<1>18. \E next \in [UE -> Call] : Calls(next)'
    BY <1>2, <1>6, <1>11, <1>13, <1>14, <1>15, <1>16, <1>17, MmeAdvance DEF mmeVars
<1> QED
    BY <1>12, <1>18

-----------------------------------------------------------------------------
(* What the tables of a call's stages hold is well formed.                 *)

\* Connections of a call.
S1Link(u, c) == [state |-> S1State(c.at), srv |-> c.ran, up |-> S1Up(u, c), down |-> S1Down(u, c)]

\* ... that from the MME to the SGW, ...
S11Link(u, c, dl) == [state |-> S11State(c), srv |-> c.mme, up |-> S11Up(u, c),
                      down |-> S11Down(u, c, dl)]

\* ... and that from the SGW to the PGW.
S5Link(u, c) == [state |-> S5State(c), srv |-> c.sgw, up |-> S5Up(u, c), down |-> S5Down(u, c)]

\* The messages of a call are messages.
LEMMA CallMessages ==
    ASSUME NEW u \in UE, NEW c \in Call, NEW dl \in Teid
    PROVE  /\ {S1Up(u, c), S1Down(u, c), S11Up(u, c), S11Down(u, c, dl), S5Up(u, c), S5Down(u, c)}
                 \subseteq Message \cup {None}
           /\ \A k \in 1 .. 5 :
                 [Msg(k) EXCEPT !.imsi = u] \in Message
                 /\ [Msg(k) EXCEPT !.teid = u, !.imsi = u] \in Message
<1> USE FieldTypes
<1>1. c.id \in {0} \cup UeId /\ u \in Teid /\ 0 \in Teid
    BY Names DEF Call
<1>2. \A k \in 1 .. 5 :
          /\ Fields(k, c.id, 0, 0, 0, 0) \in Message /\ Fields(k, c.id, u, 0, 0, 0) \in Message
          /\ Fields(k, c.id, 0, u, 0, 0) \in Message
    BY <1>1
<1>3. \A k \in 1 .. 5 :
          /\ Fields(k, 0, u, 0, 0, 0) \in Message /\ Fields(k, 0, 0, u, 0, 0) \in Message
          /\ Fields(k, 0, u, u, 0, 0) \in Message /\ Fields(k, 0, 0, u, 0, u) \in Message
          /\ Fields(k, 0, u, u, 0, u) \in Message /\ Fields(k, 0, 0, u, dl, u) \in Message
    BY <1>1
<1> HIDE FieldTypes
<1>4. ASSUME NEW k \in 1 .. 5
      PROVE  /\ [Msg(k) EXCEPT !.id = c.id] \in Message
             /\ [Msg(k) EXCEPT !.id = c.id, !.imsi = u] \in Message
             /\ [Msg(k) EXCEPT !.id = c.id, !.teid = u] \in Message
  <2>1. [Msg(k) EXCEPT !.id = c.id] \in Message
      BY <1>2, MsgId
  <2>2. [Msg(k) EXCEPT !.id = c.id, !.imsi = u] \in Message
      BY <1>2, MsgIdImsi
  <2>3. [Msg(k) EXCEPT !.id = c.id, !.teid = u] \in Message
    <3>1. [Msg(k) EXCEPT !.id = c.id, !.teid = u] = Fields(k, c.id, 0, u, 0, 0)
        BY MsgIdTeid
    <3>2. Fields(k, c.id, 0, u, 0, 0) \in Message
        BY <1>2
    <3> QED
        BY <3>1, <3>2, Zenon
  <2> QED
      BY <2>1, <2>2, <2>3
<1>5. ASSUME NEW k \in 1 .. 5
      PROVE  /\ [Msg(k) EXCEPT !.imsi = u] \in Message
             /\ [Msg(k) EXCEPT !.teid = u] \in Message
             /\ [Msg(k) EXCEPT !.teid = u, !.imsi = u] \in Message
             /\ [Msg(k) EXCEPT !.teid = u, !.ip = u] \in Message
  <2>1. [Msg(k) EXCEPT !.imsi = u] \in Message
      BY <1>3, MsgImsi
  <2>2. [Msg(k) EXCEPT !.teid = u] \in Message
      BY <1>3, MsgTeid
  <2>3. [Msg(k) EXCEPT !.teid = u, !.imsi = u] \in Message
    <3>1. [Msg(k) EXCEPT !.teid = u, !.imsi = u] = Fields(k, 0, u, u, 0, 0)
        BY MsgTeidImsi
    <3>2. Fields(k, 0, u, u, 0, 0) \in Message
        BY <1>3
    <3> QED
        BY <3>1, <3>2, Zenon
  <2>4. [Msg(k) EXCEPT !.teid = u, !.ip = u] \in Message
    <3>1. [Msg(k) EXCEPT !.teid = u, !.ip = u] = Fields(k, 0, 0, u, 0, u)
        BY MsgTeidIp
    <3>2. Fields(k, 0, 0, u, 0, u) \in Message
        BY <1>3
    <3> QED
        BY <3>1, <3>2, Zenon
  <2> QED
      BY <2>1, <2>2, <2>3, <2>4
<1>6. ASSUME NEW k \in 1 .. 5
      PROVE  /\ [Msg(k) EXCEPT !.imsi = u, !.teid = u, !.ip = u] \in Message
             /\ [Msg(k) EXCEPT !.teid = u, !.s5 = dl, !.ip = u] \in Message
  <2>1. [Msg(k) EXCEPT !.imsi = u, !.teid = u, !.ip = u] \in Message
    <3>1. [Msg(k) EXCEPT !.imsi = u, !.teid = u, !.ip = u] = Fields(k, 0, u, u, 0, u)
      <4>1. [Fields(k, 0, u, 0, 0, 0) EXCEPT !.teid = u] = Fields(k, 0, u, u, 0, 0)
          BY DEF Fields
      <4>2. [Fields(k, 0, u, u, 0, 0) EXCEPT !.ip = u] = Fields(k, 0, u, u, 0, u)
          BY DEF Fields
      <4>3. [Msg(k) EXCEPT !.imsi = u] = Fields(k, 0, u, 0, 0, 0)
          BY MsgImsi
      <4> QED
          BY <4>1, <4>2, <4>3
    <3>2. Fields(k, 0, u, u, 0, u) \in Message
        BY <1>3
    <3> QED
        BY <3>1, <3>2, Zenon
  <2>2. [Msg(k) EXCEPT !.teid = u, !.s5 = dl, !.ip = u] \in Message
    <3>1. [Msg(k) EXCEPT !.teid = u, !.s5 = dl, !.ip = u] = Fields(k, 0, 0, u, dl, u)
      <4>1. [Fields(k, 0, 0, u, 0, 0) EXCEPT !.s5 = dl] = Fields(k, 0, 0, u, dl, 0)
          BY DEF Fields
      <4>2. [Fields(k, 0, 0, u, dl, 0) EXCEPT !.ip = u] = Fields(k, 0, 0, u, dl, u)
          BY DEF Fields
      <4>3. [Msg(k) EXCEPT !.teid = u] = Fields(k, 0, 0, u, 0, 0)
          BY MsgTeid
      <4> QED
          BY <4>1, <4>2, <4>3
    <3>2. Fields(k, 0, 0, u, dl, u) \in Message
        BY <1>3
    <3> QED
        BY <3>1, <3>2, Zenon
  <2> QED
      BY <2>1, <2>2
<1>7. S1Up(u, c) \in Message \cup {None}
    BY <1>4, <1>5 DEF S1Up
<1>8. S1Down(u, c) \in Message \cup {None}
    BY <1>4, <1>5, <1>6 DEF S1Down
<1>9. S11Up(u, c) \in Message \cup {None}
    BY <1>5 DEF S11Up
<1>10. S11Down(u, c, dl) \in Message \cup {None}
    BY <1>5, <1>6 DEF S11Down
<1>11. S5Up(u, c) \in Message \cup {None}
    BY <1>5 DEF S5Up
<1>12. S5Down(u, c) \in Message \cup {None}
    BY <1>5 DEF S5Down
<1> QED
    BY <1>5, <1>7, <1>8, <1>9, <1>10, <1>11, <1>12

\* Its connections are connections.
LEMMA CallLinks ==
    ASSUME NEW u \in UE, NEW c \in Call, NEW dl \in Teid
    PROVE  /\ S1Link(u, c) \in Link /\ HssLink(u, c) \in Link /\ S11Link(u, c, dl) \in Link
           /\ S5Link(u, c) \in Link
<1>1. /\ c.ran \in {0} \cup Fd /\ c.mme \in {0} \cup Fd /\ c.sgw \in {0} \cup Fd /\ c.at \in 0 .. 27
    BY DEF Call
<1>2. S1State(c.at) \in {"closed", "syn", "open", "shut"}
    BY <1>1 DEF S1State
<1>3. S11State(c) \in {"closed", "syn", "open", "shut"}
    BY <1>1 DEF S11State
<1>4. S5State(c) \in {"closed", "syn", "open", "shut"}
    BY <1>1 DEF S5State
<1>5. S1Link(u, c) \in Link
    BY <1>1, <1>2, CallMessages DEF S1Link, Link
<1>6. S11Link(u, c, dl) \in Link
    BY <1>1, <1>3, CallMessages DEF S11Link, Link
<1>7. S5Link(u, c) \in Link
    BY <1>1, <1>4, CallMessages DEF S5Link, Link
<1>8. HssLink(u, c) \in Link
  <2>1. 1 \in 1 .. 5
      OBVIOUS
  <2>2. [Msg(1) EXCEPT !.imsi = u] \in Message
      BY <2>1, CallMessages, Zenon
  <2> QED
      BY <1>1, <2>2 DEF HssLink, Link
<1> QED
    BY <1>5, <1>6, <1>7, <1>8

\* Its entries are entries.
LEMMA MmeEntries ==
    ASSUME NEW u \in UE, NEW c \in Call
    PROVE  /\ RanEntry(c) \in MmeData \cup {None} /\ OutEntry(u, c) \in MmeData \cup {None}
           /\ FromRan(0) # None /\ FromRan(c.out) # None
           /\ \A a \in 1 .. 7 : Waiting(a, c, None) # None
           /\ \A a \in 1 .. 7, b \in Message : Waiting(a, c, b) # None
<1>1. c.ran \in {0} \cup Fd /\ c.out \in {0} \cup Fd /\ c.id \in {0} \cup UeId
    BY DEF Call
<1>2. [Msg(1) EXCEPT !.imsi = u] \in Message /\ [Msg(1) EXCEPT !.teid = u, !.imsi = u] \in Message
  <2>1. 0 \in Teid /\ 1 \in 1 .. 5
      BY Names
  <2> QED
      BY <2>1, CallMessages
<1>3. \A a \in 1 .. 7, b \in Message \cup {None} : Waiting(a, c, b) \in MmeData
    BY <1>1 DEF Waiting, MmeData
<1>4. OutEntry(u, c) \in MmeData \cup {None}
    BY <1>2, <1>3 DEF OutEntry
<1>5. \A f \in {0} \cup Fd : FromRan(f) \in MmeData
    BY DEF FromRan, MmeData
<1>6. RanEntry(c) \in MmeData \cup {None}
    BY <1>1, <1>5 DEF RanEntry
<1>7. None \notin MmeData
    BY KbyMmeNoneAssumption
<1> QED
    BY <1>1, <1>3, <1>4, <1>5, <1>6, <1>7

-----------------------------------------------------------------------------
(* The events of the MME.                                                  *)

\* An event in the middle of a call.
LEMMA MmeMoves ==
    ASSUME TypeOK, NEW call \in [UE -> Call], Calls(call), NEW u \in UE, NEW d \in Call,
           <<call[u].at, d.at>> \in MmeSteps \ {<<2, 3>>, <<26, 27>>},
           d.ran = call[u].ran, d.id = call[u].id,
           d.mme = call[u].mme, d.pgw = call[u].pgw, d.sgw = call[u].sgw,
           UNCHANGED <<ranVars, s5, sgwVars, pgwVars, exited, ue_count, s1mme_id>>,
           s1' = [s1 EXCEPT ![u] = S1Link(u, d)], s6a' \in [Fd -> Link], s11' \in [Fd -> Link],
           KbyMmeTypeOK', mme_armed' = {f \in Fd : mme_fdmap'[f] # None},
           FdsOK(d), MmeFdsOK(u, d)', MmeCtxOK(u, d)', MmeFrame(u, call[u], d), FdsMove(call, u, d)
    PROVE  TypeOK' /\ \E next \in [UE -> Call] : Calls(next)'
<1>1. PICK c \in Call : c = call[u] /\ CallOK(u, c)
    BY DEF Calls
<1>2. S1Link(u, d) \in Link
    BY Names, CallLinks
<1>3. TypeOK'
  <2>1. s1' \in [UE -> Link]
      BY <1>2 DEF TypeOK, KbyBaseTypeOK
  <2> QED
      BY <2>1, MmeTypes
<1>4. MmeOK(u, d)'
    BY <1>1 DEF CallOK, MmeOK
<1>5. Armed'
    BY DEF Calls, Armed, sgwVars, pgwVars
<1>6. ue_count' = Cardinality(Numbered([call EXCEPT ![u] = d])') /\ ue_count' \in Nat
  <2>1. UNCHANGED <<rounds, ue_count>>
      BY DEF ranVars
  <2>2. d.at \in 1 .. 2 <=> call[u].at \in 1 .. 2
      BY DEF MmeSteps
  <2> QED
      BY <2>1, <2>2, SameNumbered
<1>7. <<call[u].at, d.at>> \in MmeSteps
    OBVIOUS
<1>8. UNCHANGED <<ranVars, s5, sgwVars, pgwVars, exited>>
    OBVIOUS
<1>9. \E next \in [UE -> Call] : Calls(next)'
    BY <1>4, <1>5, <1>6, <1>7, <1>8, MmeAdvance DEF S1Link
<1> QED
    BY <1>3, <1>9

\* What an event makes of the MME's tables when it takes a call from c to d.
MmeMap(u, c, d) ==
    [f \in Fd |-> IF f = d.out THEN OutEntry(u, d) ELSE IF f = c.ran THEN RanEntry(d)
                  ELSE IF f = c.out THEN None ELSE mme_fdmap[f]]

\* The connections to the HSS and the SGW once call c of u has become d.
HssMap(u, c, d) ==
    [f \in Fd |-> IF f = d.out THEN HssLink(u, d) ELSE IF f = c.out THEN NoLink ELSE s6a[f]]

\* ... those to the SGW.
S11Map(u, c, d, dl) ==
    [f \in Fd |-> IF f = d.out THEN S11Link(u, d, dl) ELSE IF f = c.out THEN NoLink ELSE s11[f]]

\* Events in the middle of a call.
MmeMiddle == MmeSteps \ {<<2, 3>>, <<26, 27>>}

\* One of them in terms of these tables.
LEMMA MmeTables ==
    ASSUME TypeOK, NEW call \in [UE -> Call], Calls(call), NEW u \in UE,
           NEW c, c = call[u], NEW d \in Call, <<c.at, d.at>> \in MmeMiddle,
           d.ran = c.ran, d.id = c.id, d.mme = c.mme, d.pgw = c.pgw, d.sgw = c.sgw,
           d.out # 0 <=> d.at \in (3 .. 5) \cup (10 .. 26), FdsMove(call, u, d),
           UNCHANGED <<ranVars, s5, sgwVars, pgwVars, exited, ue_count, s1mme_id>>,
           s1' = [s1 EXCEPT ![u] = S1Link(u, d)], s6a' = HssMap(u, c, d),
           NEW dl \in Teid, s11' = S11Map(u, c, d, dl),
           mme_fdmap' = MmeMap(u, c, d), mme_armed' = {f \in Fd : mme_fdmap'[f] # None},
           mme_ctx' \in [UE -> MmeContext \cup {None}],
           \A v \in UE \ {u} : mme_ctx'[v] = mme_ctx[v], MmeCtxOK(u, d)'
    PROVE  TypeOK' /\ \E next \in [UE -> Call] : Calls(next)'
<1>1. c \in Call /\ CallOK(u, c)
    BY DEF Calls
<1>2. /\ c.ran \in Fd /\ c.ran # 0 /\ c.out \in {0} \cup Fd /\ d.out \in {0} \cup Fd
      /\ 0 \notin Fd
  <2>1. c.ran # 0
      BY <1>1, MmeAt DEF MmeMiddle, MmeSteps
  <2> QED
      BY <1>1, <2>1, Names DEF Call
<1>3. c.ran # c.out /\ c.ran # d.out
  <2>1. c.ran # c.out
      BY <1>2 DEF Calls, Apart
  <2> QED
      BY <1>2, <2>1 DEF FdsMove
<1>4. KbyMmeTypeOK' /\ s6a' \in [Fd -> Link] /\ s11' \in [Fd -> Link]
  <2>1. /\ HssLink(u, d) \in Link /\ S11Link(u, d, dl) \in Link
        /\ OutEntry(u, d) \in MmeData \cup {None} /\ RanEntry(d) \in MmeData \cup {None}
      BY CallLinks, MmeEntries
  <2>2. mme_fdmap' \in [Fd -> MmeData \cup {None}]
      BY <2>1 DEF MmeMap, TypeOK, KbyMmeTypeOK
  <2>3. s6a' \in [Fd -> Link] /\ s11' \in [Fd -> Link]
      BY <2>1, Names DEF HssMap, S11Map, TypeOK, KbyBaseTypeOK
  <2> QED
      BY <2>2, <2>3 DEF TypeOK, KbyMmeTypeOK
<1>5. FdsOK(d)
    BY <1>1 DEF CallOK, FdsOK, MmeMiddle, MmeSteps
<1>6. MmeFdsOK(u, d)'
  <2>1. mme_fdmap'[d.ran] = RanEntry(d)
      BY <1>2, <1>3 DEF MmeMap
  <2>2. d.out # 0 => /\ mme_fdmap'[d.out] = OutEntry(u, d) /\ s6a'[d.out] = HssLink(u, d)
                     /\ s11'[d.out] = S11Link(u, d, dl)
      BY <1>2 DEF MmeMap, HssMap, S11Map
  <2>3. d.out # 0 => S11OK(u, d)'
      BY <2>2 DEF S11OK, S11Link
  <2> QED
      BY <2>1, <2>2, <2>3 DEF MmeFdsOK
<1>7. MmeFrame(u, c, d)
  <2>1. ue_count' >= ue_count
      BY Names DEF TypeOK, KbyMmeTypeOK
  <2>2. /\ \A f \in Fd \ {c.ran, c.out, d.out} : mme_fdmap'[f] = mme_fdmap[f]
        /\ \A f \in Fd \ {c.out, d.out} : s6a'[f] = s6a[f] /\ s11'[f] = s11[f]
      BY DEF MmeMap, HssMap, S11Map
  <2>3. c.out \notin {d.out, 0} =>
            mme_fdmap'[c.out] = None /\ s6a'[c.out] = NoLink /\ s11'[c.out] = NoLink
      BY <1>2, <1>3 DEF MmeMap, HssMap, S11Map
  <2> QED
      BY <2>1, <2>2, <2>3 DEF MmeFrame
<1> QED
    BY <1>4, <1>5, <1>6, <1>7, MmeMoves DEF MmeMiddle

\* A table that an event leaves alone.
LEMMA HssSame ==
    ASSUME TypeOK, NEW call \in [UE -> Call], Calls(call), NEW u \in UE,
           NEW c, c = call[u], NEW d \in Call, <<c.at, d.at>> \in MmeMiddle, FdsMove(call, u, d),
           d.out \in {c.out, 0} => d.out = c.out, c.at \notin 3 .. 5
    PROVE  s6a = HssMap(u, c, d)
<1>1. c \in Call /\ CallOK(u, c) /\ s6a \in [Fd -> Link]
    BY DEF Calls, TypeOK, KbyBaseTypeOK
<1>2. HssLink(u, d) = NoLink /\ HssLink(u, c) = NoLink
    BY <1>1 DEF HssLink, NoLink, MmeMiddle, MmeSteps
<1>3. \A f \in Fd : f = d.out \/ f = c.out => s6a[f] = NoLink
  <2>1. c.out # 0 => s6a[c.out] = NoLink
      BY <1>1, <1>2, MmeAt
  <2>2. d.out # c.out => \A f \in Fd : f = d.out => s6a[f] = NoLink
      BY DEF Calls, NoStrays, FdsMove
  <2> QED
      BY <2>1, <2>2, Names
<1> QED
    BY <1>1, <1>2, <1>3 DEF HssMap

\* The same of the connections to the SGW, ...
LEMMA S11Same ==
    ASSUME TypeOK, NEW call \in [UE -> Call], Calls(call), NEW u \in UE,
           NEW c, c = call[u], NEW d \in Call, <<c.at, d.at>> \in MmeMiddle,
           d.out \in {c.out, 0}, d.mme = c.mme, c.at \in 3 .. 8
    PROVE  s11 = S11Map(u, c, d, 0)
<1>1. c \in Call /\ CallOK(u, c) /\ s11 \in [Fd -> Link]
    BY DEF Calls, TypeOK, KbyBaseTypeOK
<1>2. c.mme = 0
    BY <1>1 DEF CallOK, FdsOK
<1>3. S11Link(u, d, 0) = NoLink /\ \A dl : S11Link(u, c, dl) = NoLink
  <2>1. d.at \in 4 .. 8
      BY DEF MmeMiddle, MmeSteps
  <2>2. S11State(d) = "closed" /\ S11State(c) = "closed"
      BY <2>1 DEF S11State
  <2>3. S11Up(u, d) = None /\ S11Up(u, c) = None
      BY <2>1 DEF S11Up
  <2>4. \A dl : S11Down(u, d, dl) = None /\ S11Down(u, c, dl) = None
      BY <2>1 DEF S11Down
  <2> QED
      BY <1>2, <2>2, <2>3, <2>4 DEF S11Link, NoLink
<1>4. c.out # 0 => s11[c.out] = NoLink
  <2>1. c.out # 0 => S11OK(u, c)
      BY <1>1, MmeAt
  <2> QED
      BY <1>3, <2>1 DEF S11OK, S11Link
<1> QED
    BY <1>1, <1>3, <1>4, Names DEF S11Map

\* ... and of that of the terminal.
LEMMA S1Same ==
    ASSUME TypeOK, NEW call \in [UE -> Call], Calls(call), NEW u \in UE,
           NEW c, c = call[u], NEW d \in Call, d.ran = c.ran,
           <<c.at, d.at>> \in {<<3, 4>>, <<4, 5>>, <<10, 11>>}
    PROVE  s1 = [s1 EXCEPT ![u] = S1Link(u, d)]
<1>1. c \in Call /\ CallOK(u, c) /\ s1 \in [UE -> Link]
    BY DEF Calls, TypeOK, KbyBaseTypeOK
<1>2. s1[u] = S1Link(u, c)
    BY <1>1 DEF CallOK, RanOK, S1Link
<1>3. S1State(d.at) = S1State(c.at)
    BY DEF S1State
<1>4. S1Up(u, d) = S1Up(u, c)
    BY DEF S1Up
<1>5. S1Down(u, d) = S1Down(u, c)
    BY DEF S1Down
<1> QED
    BY <1>1, <1>2, <1>3, <1>4, <1>5 DEF S1Link

\* The entry of an event.
LEMMA MmeEventOf ==
    ASSUME TypeOK, NEW call \in [UE -> Call], Calls(call), NEW f \in Fd, NEW act, act # 1,
           MmeEvent(f, act)
    PROVE  \E u \in UE, c \in Call :
              /\ c = call[u] /\ CallOK(u, c) /\ f = c.out /\ c.out # 0
              /\ mme_fdmap[c.out] # None /\ mme_fdmap[c.out].act = act
              /\ mme_fdmap[c.out].initial_fd = c.ran /\ mme_fdmap[c.out].msui = c.id
<1>1. mme_fdmap[f] # None /\ mme_fdmap[f].act = act
    BY DEF MmeEvent
<1>2. PICK u \in UE : f = call[u].out
    BY <1>1, MmeWaits
<1>3. PICK c \in Call : c = call[u] /\ CallOK(u, c) /\ f = c.out /\ f # 0
    BY <1>2, Names DEF Calls
<1>4. mme_fdmap[c.out].initial_fd = c.ran /\ mme_fdmap[c.out].msui = c.id
    BY <1>1, <1>3, MmeStage
<1> QED
    BY <1>1, <1>3, <1>4

\* The connection to the HSS is open: the request is sent.
LEMMA MmeHssConnectedMoves ==
    ASSUME TypeOK, NEW call \in [UE -> Call], Calls(call), NEW f \in Fd, MmeHssConnected(f),
           UNCHANGED <<sgwVars, pgwVars>>
    PROVE  TypeOK' /\ \E next \in [UE -> Call] : Calls(next)'
<1>1. PICK u \in UE, c \in Call :
          /\ c = call[u] /\ CallOK(u, c) /\ f = c.out /\ c.out # 0
          /\ mme_fdmap[c.out] # None /\ mme_fdmap[c.out].act = 2
          /\ mme_fdmap[c.out].initial_fd = c.ran /\ mme_fdmap[c.out].msui = c.id
    BY MmeEventOf DEF MmeHssConnected
<1>2. c.at = 3
    BY <1>1, MmeStage
<1>3. PICK d : d = [c EXCEPT !.at = 4]
    OBVIOUS
<1>4. /\ d \in Call /\ d.at = 4 /\ d.ran = c.ran /\ d.out = c.out /\ d.id = c.id
      /\ d.mme = c.mme /\ d.pgw = c.pgw /\ d.sgw = c.sgw
    BY <1>3 DEF Call
<1>5. /\ mme_fdmap[f] = OutEntry(u, c) /\ s6a[f] = HssLink(u, c) /\ S11OK(u, c)
      /\ mme_fdmap[c.ran] = RanEntry(c) /\ c.ran # 0
    BY <1>1, <1>2, MmeAt
<1>6. /\ UNCHANGED <<ranVars, s5, sgwVars, pgwVars, exited, ue_count, s1mme_id>>
      /\ UNCHANGED <<s1, s11, mme_armed, mme_ctx>>
    BY DEF MmeHssConnected, MmeEvent
<1>7. PICK m : m = [Msg(1) EXCEPT !.imsi = u] /\ mme_fdmap[f] = Waiting(2, c, m)
    BY <1>2, <1>5 DEF OutEntry
<1>8. s6a' = [s6a EXCEPT ![f] = HssLink(u, d)]
  <2>1. s6a[f] = [state |-> "syn", srv |-> 0, up |-> None, down |-> None]
      BY <1>2, <1>5 DEF HssLink
  <2>2. HssLink(u, d) = [state |-> "open", srv |-> 0, up |-> m, down |-> None]
      BY <1>4, <1>7 DEF HssLink
  <2>3. [s6a[f] EXCEPT !.state = "open"] = [state |-> "open", srv |-> 0, up |-> None, down |-> None]
      BY <2>1
  <2>4. [[state |-> "open", srv |-> 0, up |-> None, down |-> None] EXCEPT !.up = m]
        = [state |-> "open", srv |-> 0, up |-> m, down |-> None]
      OBVIOUS
  <2>5. mme_fdmap[f].buf = m
      BY <1>7 DEF Waiting
  <2>6. s6a' = SendUp([s6a EXCEPT ![f].state = "open"], f, m)
      BY <2>5 DEF MmeHssConnected
  <2> QED
      BY <2>2, <2>3, <2>4, <2>6 DEF SendUp, TypeOK, KbyBaseTypeOK
<1>9. mme_fdmap' = [mme_fdmap EXCEPT ![f] = OutEntry(u, d)]
  <2>1. OutEntry(u, d) = [act |-> 3, initial_fd |-> c.ran, msui |-> c.id, buf |-> None]
      BY <1>4 DEF OutEntry, Waiting
  <2>2. mme_fdmap[f] = [act |-> 2, initial_fd |-> c.ran, msui |-> c.id, buf |-> m]
      BY <1>7 DEF Waiting
  <2>3. [mme_fdmap[f] EXCEPT !.act = 3]
        = [act |-> 3, initial_fd |-> c.ran, msui |-> c.id, buf |-> m]
      BY <2>2
  <2>4. [[act |-> 3, initial_fd |-> c.ran, msui |-> c.id, buf |-> m] EXCEPT !.buf = None]
        = [act |-> 3, initial_fd |-> c.ran, msui |-> c.id, buf |-> None]
      OBVIOUS
  <2> QED
      BY <2>1, <2>3, <2>4 DEF MmeHssConnected, TypeOK, KbyMmeTypeOK
<1>10. OutEntry(u, d) # None
  <2>1. OutEntry(u, d) = Waiting(3, d, None)
      BY <1>4 DEF OutEntry
  <2> QED
      BY <1>4, <2>1, MmeEntries
<1>11. s6a' \in [Fd -> Link] /\ s11' \in [Fd -> Link] /\ KbyMmeTypeOK'
  <2>1. HssLink(u, d) \in Link /\ OutEntry(u, d) \in MmeData \cup {None}
      BY <1>4, Names, CallLinks, MmeEntries
  <2> QED
      BY <1>6, <1>8, <1>9, <2>1 DEF TypeOK, KbyBaseTypeOK, KbyMmeTypeOK
<1>12. mme_armed' = {h \in Fd : mme_fdmap'[h] # None}
    BY <1>1, <1>6, <1>9, <1>10 DEF Calls, Armed, TypeOK, KbyMmeTypeOK
<1>13. S1Link(u, d) = s1[u] /\ s1' = [s1 EXCEPT ![u] = S1Link(u, d)]
  <2>1. s1[u] = S1Link(u, c)
      BY <1>1 DEF CallOK, RanOK, S1Link
  <2>2. S1State(d.at) = S1State(c.at)
      BY <1>2, <1>4 DEF S1State
  <2>3. S1Up(u, d) = S1Up(u, c)
      BY <1>2, <1>4 DEF S1Up
  <2>4. S1Down(u, d) = S1Down(u, c)
      BY <1>2, <1>4 DEF S1Down
  <2>5. S1Link(u, d) = s1[u]
      BY <1>4, <2>1, <2>2, <2>3, <2>4 DEF S1Link
  <2> QED
      BY <1>6, <2>5 DEF TypeOK, KbyBaseTypeOK
<1>14. MmeFdsOK(u, d)'
  <2>1. c.ran # c.out
      BY <1>1, <1>5 DEF Calls, Apart
  <2>2. RanEntry(d) = RanEntry(c)
      BY <1>2, <1>4 DEF RanEntry
  <2>3. c.ran \in Fd
      BY <1>5 DEF Call
  <2>4. mme_fdmap'[d.ran] = RanEntry(d) /\ mme_fdmap'[d.out] = OutEntry(u, d)
      BY <1>1, <1>4, <1>5, <1>9, <2>1, <2>2, <2>3 DEF TypeOK, KbyMmeTypeOK
  <2>5. s6a'[d.out] = HssLink(u, d)
      BY <1>1, <1>4, <1>8 DEF TypeOK, KbyBaseTypeOK
  <2>6. S11OK(u, d)'
      BY <1>2, <1>4, <1>5, <1>6 DEF S11OK, S11State, S11Up, S11Down
  <2> QED
      BY <2>4, <2>5, <2>6 DEF MmeFdsOK
<1>15. MmeCtxOK(u, d)'
    BY <1>1, <1>2, <1>4, <1>6 DEF CallOK, MmeOK, MmeCtxOK
<1>16. FdsOK(d) /\ <<c.at, d.at>> \in MmeSteps \ {<<2, 3>>, <<26, 27>>}
    BY <1>1, <1>2, <1>4 DEF CallOK, FdsOK, MmeSteps
<1>17. MmeFrame(u, c, d) /\ FdsMove(call, u, d)
  <2>1. ue_count \in Nat
      BY Names DEF TypeOK, KbyMmeTypeOK
  <2>2. \A h \in Fd \ {f} : s6a'[h] = s6a[h] /\ mme_fdmap'[h] = mme_fdmap[h]
      BY <1>8, <1>9 DEF TypeOK, KbyBaseTypeOK, KbyMmeTypeOK
  <2>3. MmeFrame(u, c, d)
      BY <1>1, <1>4, <1>6, <2>1, <2>2 DEF MmeFrame
  <2> QED
      BY <1>1, <1>4, <2>3 DEF FdsMove
<1> QED
    BY <1>1, <1>4, <1>6, <1>11, <1>12, <1>13, <1>14, <1>15, <1>16, <1>17, MmeMoves

-----------------------------------------------------------------------------
(* Descriptors of the MME.                                                 *)

\* The MME's open descriptors are those of the calls.
LEMMA MmeUsedIs ==
    ASSUME TypeOK, NEW call \in [UE -> Call], Calls(call)
    PROVE  MmeUsed = ({call[u].ran : u \in UE} \cup {call[u].out : u \in UE}) \ {0}
<1>1. \A u \in UE : call[u] \in Call /\ CallOK(u, call[u])
    BY DEF Calls
<1>2. Servers(s1) = {call[u].ran : u \in UE} \ {0}
  <2>1. DOMAIN s1 = UE
      BY DEF TypeOK, KbyBaseTypeOK
  <2>2. \A u \in UE : s1[u].srv = call[u].ran
      BY <1>1, RanAt
  <2> QED
      BY <2>1, <2>2 DEF Servers
<1>3. DOMAIN s6a = Fd /\ DOMAIN s11 = Fd
    BY DEF TypeOK, KbyBaseTypeOK
<1>4. \A f \in Clients(s6a) \cup Clients(s11) : \E u \in UE : f = call[u].out /\ f # 0
  <2> SUFFICES ASSUME NEW f \in Clients(s6a) \cup Clients(s11) PROVE \E u \in UE : f = call[u].out /\ f # 0
      OBVIOUS
  <2>1. f \in Fd /\ (s6a[f] # NoLink \/ s11[f] # NoLink)
      BY <1>3 DEF Clients, NoLink
  <2> QED
      BY <2>1, Names DEF Calls, NoStrays
<1>5. ASSUME NEW u \in UE, call[u].out # 0 PROVE call[u].out \in Clients(s6a) \cup Clients(s11)
  <2>1. PICK c \in Call : c = call[u] /\ CallOK(u, c)
      BY <1>1
  <2>2. c.out \in Fd /\ c.at \in (3 .. 5) \cup (10 .. 26) /\ s6a[c.out] = HssLink(u, c) /\ S11OK(u, c)
      BY <1>5, <2>1, MmeAt DEF Call
  <2>3. CASE c.at \in 3 .. 5
    <3>1. s6a[c.out].state # "closed"
        BY <2>2, <2>3 DEF HssLink
    <3> QED
        BY <1>3, <2>1, <2>2, <3>1 DEF Clients
  <2>4. CASE c.at \in 10 .. 26
    <3>1. S11State(c) # "closed"
        BY <2>4 DEF S11State
    <3>2. s11[c.out].state # "closed"
        BY <2>2, <3>1 DEF S11OK
    <3> QED
        BY <1>3, <2>1, <2>2, <3>2 DEF Clients
  <2> QED
      BY <2>2, <2>3, <2>4
<1>6. Clients(s6a) \cup Clients(s11) = {call[u].out : u \in UE} \ {0}
    BY <1>4, <1>5, Zenon
<1> QED
    BY <1>2, <1>6, Zenon DEF MmeUsed

\* A new descriptor of the MME is nobody's, and nothing stands under it.
LEMMA FreshOut ==
    ASSUME TypeOK, NEW call \in [UE -> Call], Calls(call), NEW g, g = FreeFd(MmeUsed)
    PROVE  /\ g \in Fd /\ g # 0 /\ \A v \in UE : g \notin {call[v].ran, call[v].out}
           /\ mme_fdmap[g] = None /\ s6a[g] = NoLink /\ s11[g] = NoLink
<1> DEFINE ran == [u \in UE |-> call[u].ran]
           out == [u \in UE |-> call[u].out]
<1>1. MmeUsed \subseteq {ran[u] : u \in UE} \cup {out[u] : u \in UE}
    BY MmeUsedIs
<1>2. ran = [u \in UE |-> ran[u]] /\ out = [u \in UE |-> out[u]]
    OBVIOUS
<1> HIDE DEF ran, out
<1>3. g \in Fd \ MmeUsed
    BY <1>1, <1>2, FreeFdFacts
<1>4. g # 0
    BY <1>3, Names
<1>5. \A v \in UE : g \notin {call[v].ran, call[v].out}
    BY <1>3, <1>4, MmeUsedIs
<1> QED
    BY <1>3, <1>4, <1>5 DEF Calls, NoStrays

-----------------------------------------------------------------------------
(* The connection to the terminal.                                         *)

\* An answer is written.
LEMMA RanReply ==
    ASSUME TypeOK, NEW call \in [UE -> Call], Calls(call), NEW u \in UE,
           NEW c, c = call[u], NEW d \in Call, d.ran = c.ran,
           <<c.at, d.at>> \in {<<5, 6>>, <<15, 16>>, <<19, 20>>}
    PROVE  Reply(s1, c.ran, S1Down(u, d)) = [s1 EXCEPT ![u] = S1Link(u, d)]
<1>1. c \in Call /\ CallOK(u, c) /\ s1 \in [UE -> Link]
    BY DEF Calls, TypeOK, KbyBaseTypeOK
<1>2. c.ran # 0 /\ s1[u].state = S1State(c.at) /\ s1[u].srv = c.ran /\ s1[u].up = S1Up(u, c)
    BY <1>1, RanAt
<1>3. S1State(c.at) = "open" /\ S1State(d.at) = "open"
  <2>1. c.at \in {5, 15, 19} /\ d.at \in {6, 16, 20}
      OBVIOUS
  <2> QED
      BY <2>1 DEF S1State
<1>4. S1Up(u, c) = None
  <2>1. c.at \in {5, 15, 19}
      OBVIOUS
  <2> QED
      BY <2>1 DEF S1Up
<1>5. S1Up(u, d) = None
  <2>1. d.at \in {6, 16, 20}
      OBVIOUS
  <2> QED
      BY <2>1 DEF S1Up
<1>6. Reply(s1, c.ran, S1Down(u, d)) = [s1 EXCEPT ![u].down = S1Down(u, d)]
  <2>1. \A v \in UE : s1[v].srv = call[v].ran
      BY RanAt DEF Calls
  <2>2. \A v \in UE : s1[v].srv = c.ran => v = u
      BY <1>2, <2>1 DEF Calls, Apart
  <2> QED
      BY <1>1, <1>2, <2>2 DEF Reply, At
<1>7. [s1 EXCEPT ![u].down = S1Down(u, d)] = [s1 EXCEPT ![u] =
          [state |-> s1[u].state, srv |-> s1[u].srv, up |-> s1[u].up, down |-> S1Down(u, d)]]
  <2>1. [s1[u] EXCEPT !.down = S1Down(u, d)]
        = [state |-> s1[u].state, srv |-> s1[u].srv, up |-> s1[u].up, down |-> S1Down(u, d)]
      BY <1>1 DEF Link
  <2> QED
      BY <2>1
<1>8. S1Link(u, d) = [state |-> s1[u].state, srv |-> s1[u].srv, up |-> s1[u].up, down |-> S1Down(u, d)]
    BY <1>2, <1>3, <1>4, <1>5 DEF S1Link
<1> QED
    BY <1>6, <1>7, <1>8

\* A request is read.
LEMMA RanRead ==
    ASSUME TypeOK, NEW call \in [UE -> Call], Calls(call), NEW u \in UE,
           NEW c, c = call[u], NEW d \in Call, d.ran = c.ran,
           <<c.at, d.at>> \in {<<2, 3>>, <<9, 10>>, <<17, 18>>, <<22, 23>>}, RequestRead(u)
    PROVE  s1' = [s1 EXCEPT ![u] = S1Link(u, d)]
<1>1. c \in Call /\ CallOK(u, c) /\ s1 \in [UE -> Link]
    BY DEF Calls, TypeOK, KbyBaseTypeOK
<1>2. s1[u].state = S1State(c.at) /\ s1[u].srv = c.ran /\ s1[u].down = S1Down(u, c)
    BY <1>1, RanAt
<1>3. S1State(c.at) = "open" /\ S1State(d.at) = "open"
    BY DEF S1State
<1>4. S1Down(u, c) = None
    BY DEF S1Down
<1>5. S1Down(u, d) = None
    BY DEF S1Down
<1>6. S1Up(u, d) = None
    BY DEF S1Up
<1>7. [s1 EXCEPT ![u].up = None] = [s1 EXCEPT ![u] =
          [state |-> s1[u].state, srv |-> s1[u].srv, up |-> None, down |-> s1[u].down]]
  <2>1. [s1[u] EXCEPT !.up = None]
        = [state |-> s1[u].state, srv |-> s1[u].srv, up |-> None, down |-> s1[u].down]
      BY <1>1 DEF Link
  <2> QED
      BY <2>1
<1>8. S1Link(u, d) = [state |-> s1[u].state, srv |-> s1[u].srv, up |-> None, down |-> s1[u].down]
    BY <1>2, <1>3, <1>4, <1>5, <1>6 DEF S1Link
<1> QED
    BY <1>7, <1>8 DEF RequestRead

-----------------------------------------------------------------------------
(* Entries that go from one descriptor of a call to the other.             *)

\* The call goes on to wait for HSS or SGW.
LEMMA RanToOut ==
    ASSUME TypeOK, NEW call \in [UE -> Call], Calls(call), NEW u \in UE,
           NEW c, c = call[u], NEW d \in Call, d.ran = c.ran, d.out \in Fd, c.out \in {0, d.out},
           <<c.at, d.at>> \in {<<2, 3>>, <<9, 10>>, <<17, 18>>, <<22, 23>>}, d.ran # d.out,
           mme_fdmap[d.out] = None, mme_armed' = (mme_armed \ {c.ran}) \cup {d.out},
           mme_fdmap' = Insert(Erase(mme_fdmap, c.ran), d.out, OutEntry(u, d))
    PROVE  mme_fdmap' = MmeMap(u, c, d) /\ mme_armed' = {f \in Fd : mme_fdmap'[f] # None}
<1>1. c \in Call /\ CallOK(u, c) /\ mme_fdmap \in [Fd -> MmeData \cup {None}]
    BY DEF Calls, TypeOK, KbyMmeTypeOK
<1>2. c.ran \in Fd /\ 0 \notin Fd
    BY <1>1, MmeAt, Names DEF Call
<1>3. RanEntry(d) = None
    BY DEF RanEntry
<1>4. OutEntry(u, d) # None
  <2>1. d.ran \in {0} \cup Fd /\ d.id \in {0} \cup UeId
      BY DEF Call
  <2>2. [Msg(1) EXCEPT !.imsi = u] \in Message /\ [Msg(1) EXCEPT !.teid = u, !.imsi = u] \in Message
    <3>1. 0 \in Teid /\ 1 \in 1 .. 5
        BY Names
    <3> QED
        BY <3>1, CallMessages
  <2>3. OutEntry(u, d) \in {Waiting(2, d, [Msg(1) EXCEPT !.imsi = u]),
                            Waiting(4, d, [Msg(1) EXCEPT !.teid = u, !.imsi = u]),
                            Waiting(6, d, None), Waiting(7, d, None)}
      BY DEF OutEntry
  <2> QED
      BY <2>2, <2>3, MmeEntries
<1>5. mme_armed = {h \in Fd : mme_fdmap[h] # None}
    BY DEF Calls, Armed
<1>6. mme_fdmap' = [[mme_fdmap EXCEPT ![c.ran] = None] EXCEPT ![d.out] = OutEntry(u, d)]
    BY <1>1, <1>2 DEF Insert, Erase
<1>7. mme_fdmap' = MmeMap(u, c, d)
  <2>1. \A h \in Fd : mme_fdmap'[h] = IF h = d.out THEN OutEntry(u, d)
                                     ELSE IF h = c.ran THEN None ELSE mme_fdmap[h]
      BY <1>1, <1>2, <1>6
  <2>2. mme_fdmap' = [h \in Fd |-> mme_fdmap'[h]]
      BY <1>1, <1>6
  <2> QED
      BY <1>2, <1>3, <2>1, <2>2 DEF MmeMap
<1>8. \A h \in Fd : mme_fdmap'[h] # None <=> h = d.out \/ (h # c.ran /\ mme_fdmap[h] # None)
    BY <1>1, <1>2, <1>4, <1>6
<1> QED
    BY <1>5, <1>7, <1>8

\* HSS or SGW has answered: the terminal's descriptor is waited on again.
LEMMA OutToRan ==
    ASSUME TypeOK, NEW call \in [UE -> Call], Calls(call), NEW u \in UE,
           NEW c, c = call[u], NEW d \in Call, d.ran = c.ran, c.out # 0,
           <<c.at, d.at, d.out>> \in {<<5, 6, 0>>, <<15, 16, c.out>>, <<19, 20, c.out>>},
           mme_armed' = (mme_armed \ {c.out}) \cup {c.ran},
           mme_fdmap' = Insert(Erase(mme_fdmap, c.out), c.ran, RanEntry(d))
    PROVE  mme_fdmap' = MmeMap(u, c, d) /\ mme_armed' = {f \in Fd : mme_fdmap'[f] # None}
<1>1. c \in Call /\ CallOK(u, c) /\ mme_fdmap \in [Fd -> MmeData \cup {None}]
    BY DEF Calls, TypeOK, KbyMmeTypeOK
<1>2. c.ran \in Fd /\ c.out \in Fd /\ c.ran # 0 /\ 0 \notin Fd
    BY <1>1, MmeAt, Names DEF Call
<1>3. c.ran # c.out
    BY <1>2 DEF Calls, Apart
<1>4. mme_fdmap[c.ran] = None
  <2>1. RanEntry(c) = None
      BY DEF RanEntry
  <2> QED
      BY <1>1, <1>2, <2>1, MmeAt
<1>5. RanEntry(d) # None
  <2>1. RanEntry(d) \in {FromRan(0), FromRan(d.out)}
      BY DEF RanEntry
  <2> QED
      BY <2>1, MmeEntries
<1>6. OutEntry(u, d) = None
    BY DEF OutEntry
<1>7. mme_armed = {h \in Fd : mme_fdmap[h] # None}
    BY DEF Calls, Armed
<1>8. mme_fdmap' = [[mme_fdmap EXCEPT ![c.out] = None] EXCEPT ![c.ran] = RanEntry(d)]
    BY <1>1, <1>2, <1>3, <1>4 DEF Insert, Erase
<1>9. d.out \in {0, c.out}
    OBVIOUS
<1>10. mme_fdmap' = MmeMap(u, c, d)
  <2>1. \A h \in Fd : mme_fdmap'[h] = IF h = c.ran THEN RanEntry(d)
                                     ELSE IF h = c.out THEN None ELSE mme_fdmap[h]
      BY <1>1, <1>2, <1>8
  <2>2. mme_fdmap' = [h \in Fd |-> mme_fdmap'[h]]
      BY <1>1, <1>8
  <2> QED
      BY <1>2, <1>3, <1>6, <1>9, <2>1, <2>2 DEF MmeMap
<1>11. \A h \in Fd : mme_fdmap'[h] # None <=> h = c.ran \/ (h # c.out /\ mme_fdmap[h] # None)
    BY <1>1, <1>2, <1>3, <1>5, <1>8
<1> QED
    BY <1>2, <1>7, <1>10, <1>11

-----------------------------------------------------------------------------
(* The messages of a call, field by field.                                 *)

\* Between the terminal and the MME.
LEMMA S1Messages ==
    ASSUME NEW u, NEW c
    PROVE  /\ c.at = 2  => S1Up(u, c) = Fields(1, 0, u, 0, 0, 0)
           /\ c.at = 7  => S1Up(u, c) = Fields(2, c.id, u, 0, 0, 0)
           /\ c.at = 9  => S1Up(u, c) = Fields(3, c.id, 0, 0, 0, 0)
           /\ c.at = 17 => S1Up(u, c) = Fields(4, c.id, 0, u, 0, 0)
           /\ c.at = 22 => S1Up(u, c) = Fields(5, c.id, u, 0, 0, 0)
<1>1. ASSUME c.at = 2 PROVE S1Up(u, c) = [Msg(1) EXCEPT !.imsi = u]
    BY <1>1 DEF S1Up
<1>2. ASSUME c.at = 7 PROVE S1Up(u, c) = [Msg(2) EXCEPT !.id = c.id, !.imsi = u]
    BY <1>2 DEF S1Up
<1>3. ASSUME c.at = 9 PROVE S1Up(u, c) = [Msg(3) EXCEPT !.id = c.id]
    BY <1>3 DEF S1Up
<1>4. ASSUME c.at = 17 PROVE S1Up(u, c) = [Msg(4) EXCEPT !.id = c.id, !.teid = u]
    BY <1>4 DEF S1Up
<1>5. ASSUME c.at = 22 PROVE S1Up(u, c) = [Msg(5) EXCEPT !.id = c.id, !.imsi = u]
    BY <1>5 DEF S1Up
<1>6. /\ [Msg(1) EXCEPT !.imsi = u] = Fields(1, 0, u, 0, 0, 0)
      /\ [Msg(3) EXCEPT !.id = c.id] = Fields(3, c.id, 0, 0, 0, 0)
    BY MsgImsi, MsgId
<1>7. /\ [Msg(2) EXCEPT !.id = c.id, !.imsi = u] = Fields(2, c.id, u, 0, 0, 0)
      /\ [Msg(5) EXCEPT !.id = c.id, !.imsi = u] = Fields(5, c.id, u, 0, 0, 0)
    BY MsgIdImsi
<1>8. [Msg(4) EXCEPT !.id = c.id, !.teid = u] = Fields(4, c.id, 0, u, 0, 0)
    BY MsgIdTeid
<1> QED
    BY <1>1, <1>2, <1>3, <1>4, <1>5, <1>6, <1>7, <1>8, Zenon

\* Between MME and SGW.
LEMMA S11Messages ==
    ASSUME NEW u, NEW c, NEW dl
    PROVE  /\ c.at = 11 => S11Up(u, c) = Fields(1, 0, u, u, 0, 0)
           /\ c.at = 18 => S11Up(u, c) = Fields(2, 0, u, u, 0, 0)
           /\ c.at = 23 => S11Up(u, c) = Fields(3, 0, 0, u, 0, 0)
           /\ c.at = 15 => S11Down(u, c, dl) = Fields(1, 0, 0, u, dl, u)
           /\ c.at = 19 => S11Down(u, c, dl) = Fields(2, 0, 0, u, 0, 0)
           /\ c.at = 26 => S11Down(u, c, dl) = Fields(3, 0, 0, u, 0, 0)
<1>1. ASSUME c.at = 11 PROVE S11Up(u, c) = [Msg(1) EXCEPT !.teid = u, !.imsi = u]
    BY <1>1 DEF S11Up
<1>2. ASSUME c.at = 18 PROVE S11Up(u, c) = [Msg(2) EXCEPT !.teid = u, !.imsi = u]
    BY <1>2 DEF S11Up
<1>3. ASSUME c.at = 23 PROVE S11Up(u, c) = [Msg(3) EXCEPT !.teid = u]
    BY <1>3 DEF S11Up
<1>4. ASSUME c.at = 15 PROVE S11Down(u, c, dl) = [Msg(1) EXCEPT !.teid = u, !.s5 = dl, !.ip = u]
    BY <1>4 DEF S11Down
<1>5. ASSUME c.at = 19 PROVE S11Down(u, c, dl) = [Msg(2) EXCEPT !.teid = u]
    BY <1>5 DEF S11Down
<1>6. ASSUME c.at = 26 PROVE S11Down(u, c, dl) = [Msg(3) EXCEPT !.teid = u]
    BY <1>6 DEF S11Down
<1>7. /\ [Msg(1) EXCEPT !.teid = u, !.imsi = u] = Fields(1, 0, u, u, 0, 0)
      /\ [Msg(2) EXCEPT !.teid = u, !.imsi = u] = Fields(2, 0, u, u, 0, 0)
    BY MsgTeidImsi
<1>8. /\ [Msg(2) EXCEPT !.teid = u] = Fields(2, 0, 0, u, 0, 0)
      /\ [Msg(3) EXCEPT !.teid = u] = Fields(3, 0, 0, u, 0, 0)
    BY MsgTeid
<1>9. [Msg(1) EXCEPT !.teid = u, !.s5 = dl, !.ip = u] = Fields(1, 0, 0, u, dl, u)
  <2>1. [Fields(1, 0, 0, u, 0, 0) EXCEPT !.s5 = dl] = Fields(1, 0, 0, u, dl, 0)
      BY DEF Fields
  <2>2. [Fields(1, 0, 0, u, dl, 0) EXCEPT !.ip = u] = Fields(1, 0, 0, u, dl, u)
      BY DEF Fields
  <2>3. [Msg(1) EXCEPT !.teid = u] = Fields(1, 0, 0, u, 0, 0)
      BY MsgTeid
  <2> QED
      BY <2>1, <2>2, <2>3
<1> QED
    BY <1>1, <1>2, <1>3, <1>4, <1>5, <1>6, <1>7, <1>8, <1>9, Zenon

\* Between SGW and PGW.
LEMMA S5Messages ==
    ASSUME NEW u, NEW c
    PROVE  /\ c.at = 13 => S5Up(u, c) = Fields(1, 0, u, u, 0, 0)
           /\ c.at = 24 => S5Up(u, c) = Fields(4, 0, 0, u, 0, 0)
           /\ c.at = 14 => S5Down(u, c) = Fields(1, 0, 0, u, 0, u)
           /\ c.at = 25 => S5Down(u, c) = Fields(4, 0, 0, u, 0, 0)
<1>1. ASSUME c.at = 13 PROVE S5Up(u, c) = [Msg(1) EXCEPT !.teid = u, !.imsi = u]
    BY <1>1 DEF S5Up
<1>2. ASSUME c.at = 24 PROVE S5Up(u, c) = [Msg(4) EXCEPT !.teid = u]
    BY <1>2 DEF S5Up
<1>3. ASSUME c.at = 14 PROVE S5Down(u, c) = [Msg(1) EXCEPT !.teid = u, !.ip = u]
    BY <1>3 DEF S5Down
<1>4. ASSUME c.at = 25 PROVE S5Down(u, c) = [Msg(4) EXCEPT !.teid = u]
    BY <1>4 DEF S5Down
<1>5. [Msg(1) EXCEPT !.teid = u, !.imsi = u] = Fields(1, 0, u, u, 0, 0)
    BY MsgTeidImsi
<1>6. [Msg(4) EXCEPT !.teid = u] = Fields(4, 0, 0, u, 0, 0)
    BY MsgTeid
<1>7. [Msg(1) EXCEPT !.teid = u, !.ip = u] = Fields(1, 0, 0, u, 0, u)
    BY MsgTeidIp
<1> QED
    BY <1>1, <1>2, <1>3, <1>4, <1>5, <1>6, <1>7, Zenon

-----------------------------------------------------------------------------
(* Requests of the terminal.                                               *)

\* What the request says of the call.
LEMMA RequestOf ==
    ASSUME TypeOK, NEW call \in [UE -> Call], Calls(call), NEW u \in UE, NEW type \in 1 .. 5,
           MmeRequest(u, type)
    PROVE  \E c \in Call :
              /\ c = call[u] /\ CallOK(u, c) /\ c.ran # 0 /\ s1[u].srv = c.ran
              /\ s1[u].up = S1Up(u, c) /\ mme_fdmap[c.ran] = RanEntry(c)
              /\ <<type, c.at>> \in {<<1, 2>>, <<2, 7>>, <<3, 9>>, <<4, 17>>, <<5, 22>>}
<1>1. PICK c \in Call : c = call[u] /\ CallOK(u, c)
    BY DEF Calls
<1>2. /\ s1[u].up = S1Up(u, c) /\ s1[u].srv = c.ran /\ c.at \in 0 .. 27
      /\ c.ran # 0 <=> c.at \in 2 .. 26
      /\ c.id # 0 <=> c.at \in 3 .. 26
    BY <1>1, RanAt
<1>3. s1[u].up # None /\ s1[u].srv # 0
    BY DEF MmeRequest
<1>4. c.at \in {2, 7, 9, 17, 22}
    BY <1>2, <1>3 DEF S1Up
<1>5. mme_fdmap[c.ran] = RanEntry(c)
    BY <1>1, <1>2, <1>3, MmeAt
<1>6. CASE c.at = 2
  <2>1. s1[u].up.id = 0
      BY <1>2, <1>6, S1Messages DEF Fields
  <2> QED
      BY <1>1, <1>2, <1>3, <1>5, <1>6, <2>1 DEF MmeRequest
<1>7. CASE c.at # 2
  <2>1. s1[u].up.id = c.id /\ c.id # 0
      BY <1>2, <1>4, <1>7, S1Messages DEF Fields
  <2>2. <<s1[u].up.type, c.at>> \in {<<2, 7>>, <<3, 9>>, <<4, 17>>, <<5, 22>>}
      BY <1>2, <1>4, <1>7, S1Messages DEF Fields
  <2>3. s1[u].up.type = type
      BY <2>1 DEF MmeRequest
  <2> QED
      BY <1>1, <1>2, <1>3, <1>5, <2>2, <2>3
<1> QED
    BY <1>6, <1>7

-----------------------------------------------------------------------------
(* The connection to the SGW.                                              *)

\* It is opened.
LEMMA S11Opened ==
    ASSUME TypeOK, NEW call \in [UE -> Call], Calls(call), NEW u \in UE,
           NEW c, c = call[u], NEW d \in Call, c.at = 9, d.at = 10, d.out \in Fd, d.mme = c.mme
    PROVE  Connect(s11, d.out) = S11Map(u, c, d, 0)
<1>1. c \in Call /\ CallOK(u, c) /\ s11 \in [Fd -> Link]
    BY DEF Calls, TypeOK, KbyBaseTypeOK
<1>2. c.mme = 0 /\ c.out = 0 /\ 0 \notin Fd
    BY <1>1, Names DEF CallOK, FdsOK
<1>3. S11Link(u, d, 0) = [state |-> "syn", srv |-> 0, up |-> None, down |-> None]
  <2>1. S11State(d) = "syn"
      BY <1>2 DEF S11State
  <2>2. S11Up(u, d) = None
      BY DEF S11Up
  <2>3. S11Down(u, d, 0) = None
      BY DEF S11Down
  <2> QED
      BY <1>2, <2>1, <2>2, <2>3 DEF S11Link
<1>4. [NoLink EXCEPT !.state = "syn"] = S11Link(u, d, 0)
    BY <1>3 DEF NoLink
<1> QED
    BY <1>1, <1>2, <1>4 DEF Connect, S11Map

\* A request is written.
LEMMA S11Sent ==
    ASSUME TypeOK, NEW call \in [UE -> Call], Calls(call), NEW u \in UE,
           NEW c, c = call[u], NEW d \in Call, d.out = c.out, d.mme = c.mme,
           <<c.at, d.at>> \in {<<10, 11>>, <<17, 18>>, <<22, 23>>}
    PROVE  SendUp(s11, c.out, S11Up(u, d)) = S11Map(u, c, d, 0)
<1>1. c \in Call /\ CallOK(u, c) /\ s11 \in [Fd -> Link]
    BY DEF Calls, TypeOK, KbyBaseTypeOK
<1>2. c.out \in Fd /\ S11OK(u, c)
    BY <1>1, MmeAt DEF Call
<1>3. S11State(d) = S11State(c)
    BY <1>1 DEF S11State, CallOK, FdsOK
<1>4. \A dl : S11Down(u, c, dl) = None /\ S11Down(u, d, dl) = None
    BY DEF S11Down
<1>5. s11[c.out] = [state |-> S11State(c), srv |-> c.mme, up |-> S11Up(u, c), down |-> None]
    BY <1>2, <1>4 DEF S11OK
<1>6. [s11[c.out] EXCEPT !.up = S11Up(u, d)] = S11Link(u, d, 0)
    BY <1>3, <1>4, <1>5 DEF S11Link
<1> QED
    BY <1>1, <1>2, <1>6 DEF SendUp, S11Map

\* An answer is read.
LEMMA S11Read ==
    ASSUME TypeOK, NEW call \in [UE -> Call], Calls(call), NEW u \in UE,
           NEW c, c = call[u], NEW d \in Call, d.out = c.out, d.mme = c.mme,
           <<c.at, d.at>> \in {<<15, 16>>, <<19, 20>>}
    PROVE  [s11 EXCEPT ![c.out].down = None] = S11Map(u, c, d, 0)
<1>1. c \in Call /\ CallOK(u, c) /\ s11 \in [Fd -> Link]
    BY DEF Calls, TypeOK, KbyBaseTypeOK
<1>2. c.out \in Fd /\ S11OK(u, c)
    BY <1>1, MmeAt DEF Call
<1>3. S11State(d) = S11State(c)
    BY <1>1 DEF S11State
<1>4. S11Down(u, d, 0) = None
    BY DEF S11Down
<1>5. S11Up(u, c) = None
    BY DEF S11Up
<1>6. S11Up(u, d) = None
    BY DEF S11Up
<1>7. PICK m : s11[c.out] = [state |-> S11State(c), srv |-> c.mme, up |-> None, down |-> m]
    BY <1>2, <1>5 DEF S11OK
<1>8. [s11[c.out] EXCEPT !.down = None] = S11Link(u, d, 0)
    BY <1>3, <1>4, <1>6, <1>7 DEF S11Link
<1> QED
    BY <1>1, <1>2, <1>8 DEF S11Map

-----------------------------------------------------------------------------
(* Events in the middle of a call.                                         *)

\* The HSS has answered: the terminal gets the challenge of its own vector.
LEMMA MmeHssAnswerMoves ==
    ASSUME TypeOK, NEW call \in [UE -> Call], Calls(call), NEW f \in Fd, MmeHssAnswer(f),
           UNCHANGED <<sgwVars, pgwVars>>
    PROVE  TypeOK' /\ \E next \in [UE -> Call] : Calls(next)'
<1>1. PICK u \in UE, c \in Call :
          /\ c = call[u] /\ CallOK(u, c) /\ f = c.out /\ c.out # 0
          /\ mme_fdmap[c.out] # None /\ mme_fdmap[c.out].act = 3
          /\ mme_fdmap[c.out].initial_fd = c.ran /\ mme_fdmap[c.out].msui = c.id
    BY MmeEventOf DEF MmeHssAnswer
<1>2. c.at = 5
    BY <1>1, MmeStage DEF MmeHssAnswer
<1>3. PICK d : d = [at |-> 6, ran |-> c.ran, out |-> 0, mme |-> c.mme, pgw |-> c.pgw,
                    sgw |-> c.sgw, id |-> c.id]
    OBVIOUS
<1>4. /\ d \in Call /\ d.at = 6 /\ d.ran = c.ran /\ d.out = 0 /\ d.id = c.id
      /\ d.mme = c.mme /\ d.pgw = c.pgw /\ d.sgw = c.sgw
    BY <1>3 DEF Call
<1>5. /\ s6a[f] = HssLink(u, c) /\ c.ran # 0 /\ c.ran \in Fd /\ c.id \in UeId
      /\ s1mme_id[c.id] = u /\ mme_fdmap[c.ran] = None /\ mme_ctx[u] # None
  <2>1. c.ran # 0 /\ c.id # 0 /\ c.ran \in Fd /\ c.id \in UeId
      BY <1>1, <1>2, MmeAt DEF Call
  <2>2. RanEntry(c) = None
      BY <1>2 DEF RanEntry
  <2> QED
      BY <1>1, <1>2, <2>1, <2>2, MmeAt
<1>6. s6a[f].down.imsi = u
  <2>1. s6a[f].down = [Msg(1) EXCEPT !.imsi = u]
      BY <1>2, <1>5 DEF HssLink
  <2> QED
      BY <2>1, MsgImsi DEF Fields
<1>7. GutiOf(c.id) = {u}
    BY <1>5, Names DEF GutiOf, Unknown
<1>8. /\ mme_ctx' = [mme_ctx EXCEPT ![u] = [mme_ctx[u] EXCEPT !.xres = u]]
      /\ s6a' = [s6a EXCEPT ![f] = NoLink]
      /\ s1' = Reply(s1, c.ran, [Msg(1) EXCEPT !.id = c.id, !.imsi = u])
      /\ mme_fdmap' = Insert(Erase(Erase(mme_fdmap, f), c.ran), c.ran, FromRan(0))
      /\ mme_armed' = (mme_armed \ {f}) \cup {c.ran}
  <2>1. /\ SetContext(u, [Context(u) EXCEPT !.xres = u])
        /\ s6a' = [s6a EXCEPT ![f] = NoLink]
        /\ s1' = Reply(s1, c.ran, [Msg(1) EXCEPT !.id = c.id, !.imsi = u])
        /\ mme_fdmap' = Insert(Erase(Erase(mme_fdmap, f), c.ran), c.ran, FromRan(0))
        /\ Rearm(f, c.ran)
      BY <1>1, <1>6, <1>7 DEF MmeHssAnswer
  <2> QED
      BY <1>5, <2>1 DEF SetContext, Context, Rearm
<1>9. UNCHANGED <<ranVars, s5, sgwVars, pgwVars, exited, ue_count, s1mme_id>> /\ UNCHANGED s11
    BY DEF MmeHssAnswer, MmeEvent
<1>10. <<c.at, d.at>> \in MmeMiddle /\ FdsMove(call, u, d)
    BY <1>1, <1>2, <1>4 DEF MmeMiddle, MmeSteps, FdsMove
<1>11. s1' = [s1 EXCEPT ![u] = S1Link(u, d)]
  <2>1. S1Down(u, d) = [Msg(1) EXCEPT !.id = c.id, !.imsi = u]
      BY <1>4 DEF S1Down
  <2> QED
      BY <1>1, <1>2, <1>4, <1>8, <2>1, RanReply
<1>12. s6a' = HssMap(u, c, d)
    BY <1>1, <1>4, <1>8, Names DEF HssMap, TypeOK, KbyBaseTypeOK
<1>13. s11' = S11Map(u, c, d, 0)
    BY <1>1, <1>2, <1>4, <1>9, <1>10, S11Same
<1>14. mme_fdmap' = MmeMap(u, c, d) /\ mme_armed' = {h \in Fd : mme_fdmap'[h] # None}
  <2>1. RanEntry(d) = FromRan(0)
      BY <1>4 DEF RanEntry
  <2>2. c.ran # c.out
      BY <1>1, <1>5 DEF Calls, Apart
  <2>3. Erase(Erase(mme_fdmap, f), c.ran) = Erase(mme_fdmap, c.out)
      BY <1>1, <1>5, <2>2 DEF Erase, TypeOK, KbyMmeTypeOK
  <2> QED
      BY <1>1, <1>2, <1>4, <1>8, <2>1, <2>3, OutToRan
<1>15. /\ mme_ctx' \in [UE -> MmeContext \cup {None}]
       /\ \A v \in UE \ {u} : mme_ctx'[v] = mme_ctx[v]
       /\ mme_ctx'[u].xres = u /\ mme_ctx'[u] # None
  <2>1. mme_ctx[u] \in MmeContext
      BY <1>5 DEF TypeOK, KbyMmeTypeOK
  <2>2. [mme_ctx[u] EXCEPT !.xres = u] \in MmeContext
      BY <2>1, Names DEF MmeContext
  <2> QED
      BY <1>8, <2>1, <2>2, KbyMmeNoneAssumption DEF TypeOK, KbyMmeTypeOK, MmeContext
<1>16. MmeCtxOK(u, d)'
    BY <1>4, <1>15 DEF MmeCtxOK
<1>17. 0 \in Teid /\ (d.out # 0 <=> d.at \in (3 .. 5) \cup (10 .. 26))
    BY <1>4, Names
<1> QED
    BY <1>1, <1>4, <1>9, <1>10, <1>11, <1>12, <1>13, <1>14, <1>15, <1>16, <1>17, MmeTables

\* The response is right, and the terminal gets the command.
LEMMA MmeAttachTwoMoves ==
    ASSUME TypeOK, NEW call \in [UE -> Call], Calls(call), NEW u \in UE, MmeAttachTwo(u),
           UNCHANGED <<sgwVars, pgwVars>>
    PROVE  TypeOK' /\ \E next \in [UE -> Call] : Calls(next)'
<1>1. PICK c \in Call :
          /\ c = call[u] /\ CallOK(u, c) /\ c.ran # 0 /\ s1[u].srv = c.ran
          /\ s1[u].up = S1Up(u, c) /\ mme_fdmap[c.ran] = RanEntry(c)
          /\ <<2, c.at>> \in {<<1, 2>>, <<2, 7>>, <<3, 9>>, <<4, 17>>, <<5, 22>>}
    BY RequestOf DEF MmeAttachTwo
<1>2. c.at = 7
    BY <1>1
<1>3. PICK d : d = [c EXCEPT !.at = 8]
    OBVIOUS
<1>4. /\ d \in Call /\ d.at = 8 /\ d.ran = c.ran /\ d.out = c.out /\ d.id = c.id
      /\ d.mme = c.mme /\ d.pgw = c.pgw /\ d.sgw = c.sgw
    BY <1>3 DEF Call
<1>5. /\ c.out = 0 /\ c.id \in UeId /\ s1mme_id[c.id] = u /\ c.ran \in Fd
      /\ mme_ctx[u] # None /\ mme_ctx[u].xres = u
  <2>1. c.id # 0 /\ c.id \in UeId /\ c.ran \in Fd
      BY <1>1, <1>2, MmeAt DEF Call
  <2>2. MmeCtxOK(u, c)
      BY <1>1, MmeAt
  <2> QED
      BY <1>1, <1>2, <2>1, <2>2, MmeAt DEF MmeCtxOK
<1>6. s1[u].up.id = c.id /\ s1[u].up.imsi = u
    BY <1>1, <1>2, S1Messages DEF Fields
<1>7. /\ s1' = Answer(s1, u, [Msg(2) EXCEPT !.id = c.id])
      /\ UNCHANGED <<s6a, s11, mme_fdmap, mme_armed, ue_count, s1mme_id, mme_ctx, exited>>
    BY <1>5, <1>6, Names DEF MmeAttachTwo, Context
<1>8. UNCHANGED <<ranVars, s5, sgwVars, pgwVars, exited, ue_count, s1mme_id>>
    BY <1>7 DEF MmeAttachTwo, MmeRequest, MmeEvent
<1>9. <<c.at, d.at>> \in MmeMiddle /\ FdsMove(call, u, d)
    BY <1>1, <1>2, <1>4 DEF MmeMiddle, MmeSteps, FdsMove
<1>10. s1' = [s1 EXCEPT ![u] = S1Link(u, d)]
  <2>1. s1 \in [UE -> Link] /\ s1[u].state = S1State(c.at) /\ s1[u].srv = c.ran
      BY <1>1, RanAt DEF TypeOK, KbyBaseTypeOK
  <2>2. S1State(c.at) = "open" /\ S1State(d.at) = "open"
      BY <1>2, <1>4 DEF S1State
  <2>3. S1Down(u, d) = [Msg(2) EXCEPT !.id = c.id]
      BY <1>4 DEF S1Down
  <2>4. S1Up(u, d) = None
      BY <1>4 DEF S1Up
  <2>5. S1Link(u, d) = [state |-> s1[u].state, srv |-> s1[u].srv, up |-> None,
                        down |-> [Msg(2) EXCEPT !.id = c.id]]
      BY <1>4, <2>1, <2>2, <2>3, <2>4 DEF S1Link
  <2>6. PICK m : m = [Msg(2) EXCEPT !.id = c.id]
      OBVIOUS
  <2>7. Answer(s1, u, m) = [s1 EXCEPT ![u] =
            [state |-> s1[u].state, srv |-> s1[u].srv, up |-> None, down |-> m]]
      BY <2>1, AnswerForm
  <2> QED
      BY <1>7, <2>5, <2>6, <2>7
<1>11. s6a' = HssMap(u, c, d)
  <2>1. s6a = HssMap(u, c, d)
      BY <1>1, <1>2, <1>4, <1>9, HssSame
  <2> QED
      BY <1>7, <2>1
<1>12. s11' = S11Map(u, c, d, 0)
  <2>1. s11 = S11Map(u, c, d, 0)
      BY <1>1, <1>2, <1>4, <1>9, S11Same
  <2> QED
      BY <1>7, <2>1
<1>13. mme_fdmap' = MmeMap(u, c, d) /\ mme_armed' = {h \in Fd : mme_fdmap'[h] # None}
  <2>1. RanEntry(d) = RanEntry(c)
      BY <1>2, <1>4 DEF RanEntry
  <2>2. mme_fdmap = MmeMap(u, c, d)
      BY <1>1, <1>4, <1>5, <2>1, Names DEF MmeMap, TypeOK, KbyMmeTypeOK
  <2> QED
      BY <1>7, <2>2 DEF Calls, Armed
<1>14. /\ mme_ctx' \in [UE -> MmeContext \cup {None}]
       /\ \A v \in UE \ {u} : mme_ctx'[v] = mme_ctx[v]
    BY <1>7 DEF TypeOK, KbyMmeTypeOK
<1>15. MmeCtxOK(u, d)'
    BY <1>4, <1>5, <1>7 DEF MmeCtxOK
<1>16. 0 \in Teid /\ (d.out # 0 <=> d.at \in (3 .. 5) \cup (10 .. 26))
    BY <1>4, <1>5, Names
<1> QED
    BY <1>1, <1>4, <1>8, <1>9, <1>10, <1>11, <1>12, <1>13, <1>14, <1>15, <1>16, MmeTables

\* The third attach: a connection to the SGW is opened.
LEMMA MmeAttachThreeMoves ==
    ASSUME TypeOK, NEW call \in [UE -> Call], Calls(call), NEW u \in UE, MmeAttachThree(u),
           UNCHANGED <<sgwVars, pgwVars>>
    PROVE  TypeOK' /\ \E next \in [UE -> Call] : Calls(next)'
<1>1. PICK c \in Call :
          /\ c = call[u] /\ CallOK(u, c) /\ c.ran # 0 /\ s1[u].srv = c.ran
          /\ s1[u].up = S1Up(u, c) /\ mme_fdmap[c.ran] = RanEntry(c)
          /\ <<3, c.at>> \in {<<1, 2>>, <<2, 7>>, <<3, 9>>, <<4, 17>>, <<5, 22>>}
    BY RequestOf DEF MmeAttachThree
<1>2. c.at = 9
    BY <1>1
<1>3. PICK g : g = FreeFd(MmeUsed)
    OBVIOUS
<1>4. /\ g \in Fd /\ g # 0 /\ \A v \in UE : g \notin {call[v].ran, call[v].out}
      /\ mme_fdmap[g] = None /\ s6a[g] = NoLink /\ s11[g] = NoLink
    BY <1>3, FreshOut
<1>5. PICK d : d = [at |-> 10, ran |-> c.ran, out |-> g, mme |-> c.mme, pgw |-> c.pgw,
                    sgw |-> c.sgw, id |-> c.id]
    OBVIOUS
<1>6. /\ d \in Call /\ d.at = 10 /\ d.ran = c.ran /\ d.out = g /\ d.id = c.id
      /\ d.mme = c.mme /\ d.pgw = c.pgw /\ d.sgw = c.sgw
    BY <1>4, <1>5 DEF Call
<1>7. /\ c.out = 0 /\ c.id \in UeId /\ s1mme_id[c.id] = u /\ c.ran \in Fd
      /\ mme_ctx[u] # None /\ mme_ctx[u].xres = u
  <2>1. c.id # 0 /\ c.id \in UeId /\ c.ran \in Fd
      BY <1>1, <1>2, MmeAt DEF Call
  <2>2. MmeCtxOK(u, c)
      BY <1>1, MmeAt
  <2> QED
      BY <1>1, <1>2, <2>1, <2>2, MmeAt DEF MmeCtxOK
<1>8. s1[u].up.id = c.id
    BY <1>1, <1>2, S1Messages DEF Fields
<1>9. PICK e : e = [act |-> 4, initial_fd |-> c.ran, msui |-> c.id,
                    buf |-> [Msg(1) EXCEPT !.teid = u, !.imsi = u]]
    OBVIOUS
<1>10. e = OutEntry(u, d)
    BY <1>6, <1>9 DEF OutEntry, Waiting
<1>11. /\ s11' = Connect(s11, g)
       /\ RequestRead(u)
       /\ mme_fdmap' = Insert(Erase(mme_fdmap, c.ran), g, e)
       /\ mme_armed' = (mme_armed \ {c.ran}) \cup {g}
       /\ UNCHANGED <<s6a, ue_count, s1mme_id, mme_ctx, exited>>
  <2>1. /\ s11' = Connect(s11, g)
        /\ Park(c.ran, g, 4, c.id, [Msg(1) EXCEPT !.teid = u, !.imsi = u])
        /\ RequestRead(u)
        /\ UNCHANGED <<s6a, ue_count, s1mme_id, mme_ctx, exited>>
    <3>1. s1[u].srv = c.ran /\ s1[u].up.id = c.id /\ s1mme_id[c.id] = u /\ u # 0
        BY <1>1, <1>7, <1>8, Names
    <3> QED
        BY <1>3, <3>1 DEF MmeAttachThree, Unknown
  <2> QED
      BY <1>9, <2>1 DEF Park, Rearm
<1>12. UNCHANGED <<ranVars, s5, sgwVars, pgwVars, exited, ue_count, s1mme_id>>
    BY <1>11 DEF MmeAttachThree, MmeRequest, MmeEvent
<1>13. <<c.at, d.at>> \in MmeMiddle /\ FdsMove(call, u, d)
    BY <1>1, <1>2, <1>4, <1>6 DEF MmeMiddle, MmeSteps, FdsMove
<1>14. s1' = [s1 EXCEPT ![u] = S1Link(u, d)]
    BY <1>1, <1>2, <1>6, <1>11, RanRead
<1>15. s6a' = HssMap(u, c, d)
  <2>1. d.out # c.out
      BY <1>4, <1>6, <1>7
  <2>2. s6a = HssMap(u, c, d)
      BY <1>1, <1>2, <1>4, <1>6, <1>13, <2>1, HssSame
  <2> QED
      BY <1>11, <2>2
<1>16. s11' = S11Map(u, c, d, 0)
    BY <1>1, <1>2, <1>4, <1>6, <1>11, S11Opened
<1>17. mme_fdmap' = MmeMap(u, c, d) /\ mme_armed' = {h \in Fd : mme_fdmap'[h] # None}
  <2>1. d.ran # d.out /\ c.out \in {0, d.out} /\ mme_fdmap[d.out] = None /\ d.out \in Fd
      BY <1>1, <1>4, <1>6, <1>7
  <2> QED
      BY <1>1, <1>2, <1>6, <1>10, <1>11, <2>1, RanToOut
<1>18. /\ mme_ctx' \in [UE -> MmeContext \cup {None}]
       /\ \A v \in UE \ {u} : mme_ctx'[v] = mme_ctx[v]
    BY <1>11 DEF TypeOK, KbyMmeTypeOK
<1>19. MmeCtxOK(u, d)'
    BY <1>6, <1>7, <1>11 DEF MmeCtxOK
<1>20. 0 \in Teid /\ (d.out # 0 <=> d.at \in (3 .. 5) \cup (10 .. 26))
    BY <1>4, <1>6, Names
<1> QED
    BY <1>1, <1>6, <1>12, <1>13, <1>14, <1>15, <1>16, <1>17, <1>18, <1>19, <1>20, MmeTables

\* The connection to the SGW is open: the request is sent.
LEMMA MmeSgwConnectedMoves ==
    ASSUME TypeOK, NEW call \in [UE -> Call], Calls(call), NEW f \in Fd, MmeSgwConnected(f),
           UNCHANGED <<sgwVars, pgwVars>>
    PROVE  TypeOK' /\ \E next \in [UE -> Call] : Calls(next)'
<1>1. PICK u \in UE, c \in Call :
          /\ c = call[u] /\ CallOK(u, c) /\ f = c.out /\ c.out # 0
          /\ mme_fdmap[c.out] # None /\ mme_fdmap[c.out].act = 4
          /\ mme_fdmap[c.out].initial_fd = c.ran /\ mme_fdmap[c.out].msui = c.id
    BY MmeEventOf DEF MmeSgwConnected
<1>2. c.at = 10
    BY <1>1, MmeStage
<1>3. PICK d : d = [c EXCEPT !.at = 11]
    OBVIOUS
<1>4. /\ d \in Call /\ d.at = 11 /\ d.ran = c.ran /\ d.out = c.out /\ d.id = c.id
      /\ d.mme = c.mme /\ d.pgw = c.pgw /\ d.sgw = c.sgw
    BY <1>3 DEF Call
<1>5. /\ mme_fdmap[f] = OutEntry(u, c) /\ mme_fdmap[c.ran] = RanEntry(c)
      /\ c.ran # 0 /\ c.ran \in Fd /\ MmeCtxOK(u, c)
    BY <1>1, <1>2, MmeAt DEF Call
<1>6. PICK m : m = [Msg(1) EXCEPT !.teid = u, !.imsi = u]
    OBVIOUS
<1>7. mme_fdmap[f] = [act |-> 4, initial_fd |-> c.ran, msui |-> c.id, buf |-> m]
    BY <1>2, <1>5, <1>6 DEF OutEntry, Waiting
<1>8. UNCHANGED <<ranVars, s5, sgwVars, pgwVars, exited, ue_count, s1mme_id>>
      /\ UNCHANGED <<s1, s6a, mme_armed, mme_ctx>>
    BY DEF MmeSgwConnected, MmeEvent
<1>9. <<c.at, d.at>> \in MmeMiddle /\ FdsMove(call, u, d)
    BY <1>1, <1>2, <1>4 DEF MmeMiddle, MmeSteps, FdsMove
<1>10. s1' = [s1 EXCEPT ![u] = S1Link(u, d)]
  <2>1. s1 = [s1 EXCEPT ![u] = S1Link(u, d)]
      BY <1>1, <1>2, <1>4, S1Same
  <2> QED
      BY <1>8, <2>1
<1>11. s6a' = HssMap(u, c, d)
  <2>1. s6a = HssMap(u, c, d)
      BY <1>1, <1>2, <1>4, <1>9, HssSame
  <2> QED
      BY <1>8, <2>1
<1>12. s11' = S11Map(u, c, d, 0)
  <2>1. S11Up(u, d) = m
      BY <1>4, <1>6 DEF S11Up
  <2>2. s11' = SendUp(s11, c.out, m)
      BY <1>1, <1>7 DEF MmeSgwConnected
  <2> QED
      BY <1>1, <1>2, <1>4, <2>1, <2>2, S11Sent
<1>13. OutEntry(u, d) = [act |-> 5, initial_fd |-> c.ran, msui |-> c.id, buf |-> None]
    BY <1>4 DEF OutEntry, Waiting
<1>14. mme_fdmap' = [mme_fdmap EXCEPT ![f] = OutEntry(u, d)]
  <2>1. [mme_fdmap[f] EXCEPT !.act = 5]
        = [act |-> 5, initial_fd |-> c.ran, msui |-> c.id, buf |-> m]
      BY <1>7
  <2>2. [[act |-> 5, initial_fd |-> c.ran, msui |-> c.id, buf |-> m] EXCEPT !.buf = None]
        = [act |-> 5, initial_fd |-> c.ran, msui |-> c.id, buf |-> None]
      OBVIOUS
  <2> QED
      BY <1>13, <2>1, <2>2 DEF MmeSgwConnected, TypeOK, KbyMmeTypeOK
<1>15. mme_fdmap' = MmeMap(u, c, d)
  <2>1. RanEntry(d) = RanEntry(c)
      BY <1>2, <1>4 DEF RanEntry
  <2> QED
      BY <1>1, <1>4, <1>5, <1>14, <2>1 DEF MmeMap, TypeOK, KbyMmeTypeOK
<1>16. mme_armed' = {h \in Fd : mme_fdmap'[h] # None}
  <2>1. OutEntry(u, d) # None
      BY <1>13, <1>4, MmeEntries DEF Waiting
  <2> QED
      BY <1>1, <1>8, <1>14, <2>1 DEF Calls, Armed, TypeOK, KbyMmeTypeOK
<1>17. /\ mme_ctx' \in [UE -> MmeContext \cup {None}]
       /\ \A v \in UE \ {u} : mme_ctx'[v] = mme_ctx[v]
    BY <1>8 DEF TypeOK, KbyMmeTypeOK
<1>18. MmeCtxOK(u, d)'
    BY <1>2, <1>4, <1>5, <1>8 DEF MmeCtxOK
<1>19. 0 \in Teid /\ (d.out # 0 <=> d.at \in (3 .. 5) \cup (10 .. 26))
    BY <1>1, <1>4, Names
<1> QED
    BY <1>1, <1>4, <1>8, <1>9, <1>10, <1>11, <1>12, <1>15, <1>16, <1>17, <1>18, <1>19, MmeTables

\* The SGW has answered the create: the context is complete, and the terminal gets
\* the accept.
LEMMA MmeCreateAnswerMoves ==
    ASSUME TypeOK, NEW call \in [UE -> Call], Calls(call), NEW f \in Fd, MmeCreateAnswer(f),
           UNCHANGED <<sgwVars, pgwVars>>
    PROVE  TypeOK' /\ \E next \in [UE -> Call] : Calls(next)'
<1>1. PICK u \in UE, c \in Call :
          /\ c = call[u] /\ CallOK(u, c) /\ f = c.out /\ c.out # 0
          /\ mme_fdmap[c.out] # None /\ mme_fdmap[c.out].act = 5
          /\ mme_fdmap[c.out].initial_fd = c.ran /\ mme_fdmap[c.out].msui = c.id
    BY MmeEventOf DEF MmeCreateAnswer
<1>2. c.at = 15
    BY <1>1, MmeStage DEF MmeCreateAnswer
<1>3. PICK d : d = [c EXCEPT !.at = 16]
    OBVIOUS
<1>4. /\ d \in Call /\ d.at = 16 /\ d.ran = c.ran /\ d.out = c.out /\ d.id = c.id
      /\ d.mme = c.mme /\ d.pgw = c.pgw /\ d.sgw = c.sgw
    BY <1>3 DEF Call
<1>5. c.id \in UeId /\ s1mme_id[c.id] = u /\ mme_ctx[u] # None /\ MmeCtxOK(u, c)
  <2>1. c.id # 0 /\ c.id \in UeId
      BY <1>1, <1>2, MmeAt DEF Call
  <2> QED
      BY <1>1, <1>2, <2>1, MmeAt
<1>6. PICK dl \in Teid : s11[f].down = Fields(1, 0, 0, u, dl, u)
  <2>1. PICK dl \in Teid : s11[f] = [state |-> S11State(c), srv |-> c.mme, up |-> S11Up(u, c),
                                     down |-> S11Down(u, c, dl)]
      BY <1>1, MmeAt DEF S11OK
  <2>2. S11Down(u, c, dl) = Fields(1, 0, 0, u, dl, u)
      BY <1>2, S11Messages
  <2> QED
      BY <2>1, <2>2
<1>7. s11[f].down.teid = u /\ s11[f].down.s5 = dl /\ s11[f].down.ip = u
    BY <1>6 DEF Fields
<1>8. PICK ctx : ctx = [mme_ctx[u] EXCEPT !.s11_cteid_sgw = u, !.s5_uteid_dl = dl]
    OBVIOUS
<1>9. /\ mme_ctx' = [mme_ctx EXCEPT ![u] = ctx]
      /\ s11' = [s11 EXCEPT ![f].down = None]
      /\ s1' = Reply(s1, c.ran, [Msg(3) EXCEPT !.imsi = u, !.teid = u, !.ip = u])
      /\ mme_fdmap' = Insert(Erase(mme_fdmap, f), c.ran, FromRan(f))
      /\ mme_armed' = (mme_armed \ {f}) \cup {c.ran}
      /\ UNCHANGED <<s6a, ue_count, s1mme_id, exited>>
  <2>1. /\ SetContext(u, [Context(u) EXCEPT !.s11_cteid_sgw = u, !.s5_uteid_dl = dl])
        /\ Resume(f, [Msg(3) EXCEPT !.imsi = u, !.teid = u, !.ip = u])
      BY <1>1, <1>5, <1>7, Names DEF MmeCreateAnswer, Unknown
  <2> QED
      BY <1>1, <1>5, <1>8, <2>1 DEF SetContext, Context, Resume, Rearm
<1>10. UNCHANGED <<ranVars, s5, sgwVars, pgwVars, exited, ue_count, s1mme_id>>
    BY <1>9 DEF MmeCreateAnswer, MmeEvent
<1>11. <<c.at, d.at>> \in MmeMiddle /\ FdsMove(call, u, d)
    BY <1>1, <1>2, <1>4 DEF MmeMiddle, MmeSteps, FdsMove
<1>12. s1' = [s1 EXCEPT ![u] = S1Link(u, d)]
  <2>1. S1Down(u, d) = [Msg(3) EXCEPT !.imsi = u, !.teid = u, !.ip = u]
      BY <1>4 DEF S1Down
  <2> QED
      BY <1>1, <1>2, <1>4, <1>9, <2>1, RanReply
<1>13. s6a' = HssMap(u, c, d)
  <2>1. s6a = HssMap(u, c, d)
      BY <1>1, <1>2, <1>4, <1>11, HssSame
  <2> QED
      BY <1>9, <2>1
<1>14. s11' = S11Map(u, c, d, 0)
    BY <1>1, <1>2, <1>4, <1>9, S11Read
<1>15. mme_fdmap' = MmeMap(u, c, d) /\ mme_armed' = {h \in Fd : mme_fdmap'[h] # None}
  <2>1. RanEntry(d) = FromRan(f)
      BY <1>1, <1>4 DEF RanEntry
  <2> QED
      BY <1>1, <1>2, <1>4, <1>9, <2>1, OutToRan
<1>16. /\ mme_ctx' \in [UE -> MmeContext \cup {None}]
       /\ \A v \in UE \ {u} : mme_ctx'[v] = mme_ctx[v]
       /\ mme_ctx'[u].s11_cteid_sgw = u /\ mme_ctx'[u].xres = mme_ctx[u].xres /\ mme_ctx'[u] # None
  <2>1. mme_ctx[u] \in MmeContext
      BY <1>5 DEF TypeOK, KbyMmeTypeOK
  <2>2. ctx \in MmeContext /\ ctx.s11_cteid_sgw = u /\ ctx.xres = mme_ctx[u].xres
      BY <1>8, <2>1, Names DEF MmeContext
  <2> QED
      BY <1>9, <2>2, KbyMmeNoneAssumption DEF TypeOK, KbyMmeTypeOK
<1>17. MmeCtxOK(u, d)'
    BY <1>2, <1>4, <1>5, <1>16 DEF MmeCtxOK
<1>18. 0 \in Teid /\ (d.out # 0 <=> d.at \in (3 .. 5) \cup (10 .. 26))
    BY <1>1, <1>4, Names
<1> QED
    BY <1>1, <1>4, <1>10, <1>11, <1>12, <1>13, <1>14, <1>15, <1>16, <1>17, <1>18, MmeTables

\* The attach complete: the context gets the downlink TEID, and the SGW the modify.
LEMMA MmeAttachFourMoves ==
    ASSUME TypeOK, NEW call \in [UE -> Call], Calls(call), NEW u \in UE, MmeAttachFour(u),
           UNCHANGED <<sgwVars, pgwVars>>
    PROVE  TypeOK' /\ \E next \in [UE -> Call] : Calls(next)'
<1>1. PICK c \in Call :
          /\ c = call[u] /\ CallOK(u, c) /\ c.ran # 0 /\ s1[u].srv = c.ran
          /\ s1[u].up = S1Up(u, c) /\ mme_fdmap[c.ran] = RanEntry(c)
          /\ <<4, c.at>> \in {<<1, 2>>, <<2, 7>>, <<3, 9>>, <<4, 17>>, <<5, 22>>}
    BY RequestOf DEF MmeAttachFour
<1>2. c.at = 17
    BY <1>1
<1>3. PICK d : d = [c EXCEPT !.at = 18]
    OBVIOUS
<1>4. /\ d \in Call /\ d.at = 18 /\ d.ran = c.ran /\ d.out = c.out /\ d.id = c.id
      /\ d.mme = c.mme /\ d.pgw = c.pgw /\ d.sgw = c.sgw
    BY <1>3 DEF Call
<1>5. /\ c.out \in Fd /\ c.out # 0 /\ c.id \in UeId /\ s1mme_id[c.id] = u /\ c.ran \in Fd
      /\ mme_ctx[u] # None /\ mme_ctx[u].xres = u /\ mme_ctx[u].s11_cteid_sgw = u
      /\ mme_fdmap[c.out] = OutEntry(u, c)
  <2>1. c.id # 0 /\ c.id \in UeId /\ c.ran \in Fd /\ c.out # 0 /\ c.out \in Fd
      BY <1>1, <1>2, MmeAt DEF Call
  <2>2. MmeCtxOK(u, c)
      BY <1>1, MmeAt
  <2> QED
      BY <1>1, <1>2, <2>1, <2>2, MmeAt DEF MmeCtxOK
<1>6. s1[u].up.id = c.id /\ s1[u].up.teid = u
    BY <1>1, <1>2, S1Messages DEF Fields
<1>7. mme_fdmap[c.ran].initial_fd = c.out /\ mme_fdmap[c.out] = None /\ c.ran # c.out
  <2>1. RanEntry(c) = FromRan(c.out)
      BY <1>2 DEF RanEntry
  <2>2. OutEntry(u, c) = None
      BY <1>2 DEF OutEntry
  <2>3. c.ran # c.out
      BY <1>1 DEF Calls, Apart
  <2> QED
      BY <1>1, <1>5, <2>1, <2>2, <2>3 DEF FromRan
<1>8. PICK m : m = [Msg(2) EXCEPT !.teid = u, !.imsi = u]
    OBVIOUS
<1>9. PICK e : e = [act |-> 6, initial_fd |-> c.ran, msui |-> c.id, buf |-> None]
    OBVIOUS
<1>10. e = OutEntry(u, d) /\ S11Up(u, d) = m
  <2>1. e = OutEntry(u, d)
      BY <1>4, <1>9 DEF OutEntry, Waiting
  <2>2. S11Up(u, d) = m
      BY <1>4, <1>8 DEF S11Up
  <2> QED
      BY <2>1, <2>2
<1>11. PICK ctx : ctx = [mme_ctx[u] EXCEPT !.s1_uteid_dl = u]
    OBVIOUS
<1>12. /\ mme_ctx' = [mme_ctx EXCEPT ![u] = ctx]
       /\ s11' = SendUp(s11, c.out, m)
       /\ RequestRead(u)
       /\ mme_fdmap' = Insert(Erase(mme_fdmap, c.ran), c.out, e)
       /\ mme_armed' = (mme_armed \ {c.ran}) \cup {c.out}
       /\ UNCHANGED <<s6a, ue_count, s1mme_id, exited>>
  <2>1. Context(u) = mme_ctx[u]
      BY <1>5 DEF Context
  <2>2. /\ SetContext(u, [mme_ctx[u] EXCEPT !.s1_uteid_dl = u])
        /\ Forward(c.ran, 6, c.id, m)
        /\ RequestRead(u)
      BY <1>1, <1>5, <1>6, <1>8, <2>1, Names DEF MmeAttachFour, Unknown
  <2> QED
      BY <1>7, <1>9, <1>11, <2>2 DEF SetContext, Forward, Rearm
<1>13. UNCHANGED <<ranVars, s5, sgwVars, pgwVars, exited, ue_count, s1mme_id>>
    BY <1>12 DEF MmeAttachFour, MmeRequest, MmeEvent
<1>14. <<c.at, d.at>> \in MmeMiddle /\ FdsMove(call, u, d)
    BY <1>1, <1>2, <1>4 DEF MmeMiddle, MmeSteps, FdsMove
<1>15. s1' = [s1 EXCEPT ![u] = S1Link(u, d)]
    BY <1>1, <1>2, <1>4, <1>12, RanRead
<1>16. s6a' = HssMap(u, c, d)
  <2>1. s6a = HssMap(u, c, d)
      BY <1>1, <1>2, <1>4, <1>14, HssSame
  <2> QED
      BY <1>12, <2>1
<1>17. s11' = S11Map(u, c, d, 0)
    BY <1>1, <1>2, <1>4, <1>10, <1>12, S11Sent
<1>18. mme_fdmap' = MmeMap(u, c, d) /\ mme_armed' = {h \in Fd : mme_fdmap'[h] # None}
  <2>1. d.ran # d.out /\ c.out \in {0, d.out} /\ mme_fdmap[d.out] = None /\ d.out \in Fd
      BY <1>4, <1>5, <1>7
  <2> QED
      BY <1>1, <1>2, <1>4, <1>10, <1>12, <2>1, RanToOut
<1>19. /\ mme_ctx' \in [UE -> MmeContext \cup {None}]
       /\ \A v \in UE \ {u} : mme_ctx'[v] = mme_ctx[v]
       /\ mme_ctx'[u].s11_cteid_sgw = u /\ mme_ctx'[u].xres = u /\ mme_ctx'[u].s1_uteid_dl = u
       /\ mme_ctx'[u] # None
  <2>1. mme_ctx[u] \in MmeContext
      BY <1>5 DEF TypeOK, KbyMmeTypeOK
  <2>2. ctx \in MmeContext /\ ctx.s11_cteid_sgw = u /\ ctx.xres = u /\ ctx.s1_uteid_dl = u
      BY <1>5, <1>11, <2>1, Names DEF MmeContext
  <2> QED
      BY <1>12, <2>2, KbyMmeNoneAssumption DEF TypeOK, KbyMmeTypeOK
<1>20. MmeCtxOK(u, d)'
    BY <1>4, <1>19 DEF MmeCtxOK
<1>21. 0 \in Teid /\ (d.out # 0 <=> d.at \in (3 .. 5) \cup (10 .. 26))
    BY <1>4, <1>5, Names
<1> QED
    BY <1>1, <1>4, <1>13, <1>14, <1>15, <1>16, <1>17, <1>18, <1>19, <1>20, <1>21, MmeTables

\* The SGW has answered the modify: the terminal is connected and gets the answer.
LEMMA MmeModifyAnswerMoves ==
    ASSUME TypeOK, NEW call \in [UE -> Call], Calls(call), NEW f \in Fd, MmeModifyAnswer(f),
           UNCHANGED <<sgwVars, pgwVars>>
    PROVE  TypeOK' /\ \E next \in [UE -> Call] : Calls(next)'
<1>1. PICK u \in UE, c \in Call :
          /\ c = call[u] /\ CallOK(u, c) /\ f = c.out /\ c.out # 0
          /\ mme_fdmap[c.out] # None /\ mme_fdmap[c.out].act = 6
          /\ mme_fdmap[c.out].initial_fd = c.ran /\ mme_fdmap[c.out].msui = c.id
    BY MmeEventOf DEF MmeModifyAnswer
<1>2. c.at = 19
    BY <1>1, MmeStage DEF MmeModifyAnswer
<1>3. PICK d : d = [c EXCEPT !.at = 20]
    OBVIOUS
<1>4. /\ d \in Call /\ d.at = 20 /\ d.ran = c.ran /\ d.out = c.out /\ d.id = c.id
      /\ d.mme = c.mme /\ d.pgw = c.pgw /\ d.sgw = c.sgw
    BY <1>3 DEF Call
<1>5. c.id \in UeId /\ s1mme_id[c.id] = u /\ mme_ctx[u] # None /\ MmeCtxOK(u, c)
  <2>1. c.id # 0 /\ c.id \in UeId
      BY <1>1, <1>2, MmeAt DEF Call
  <2> QED
      BY <1>1, <1>2, <2>1, MmeAt
<1>6. GutiOf(c.id) = {u}
    BY <1>5, Names DEF GutiOf, Unknown
<1>7. PICK ctx : ctx = [mme_ctx[u] EXCEPT !.ecm_state = 1]
    OBVIOUS
<1>8. /\ mme_ctx' = [mme_ctx EXCEPT ![u] = ctx]
      /\ s11' = [s11 EXCEPT ![f].down = None]
      /\ s1' = Reply(s1, c.ran, [Msg(4) EXCEPT !.imsi = u])
      /\ mme_fdmap' = Insert(Erase(mme_fdmap, f), c.ran, FromRan(f))
      /\ mme_armed' = (mme_armed \ {f}) \cup {c.ran}
      /\ UNCHANGED <<s6a, ue_count, s1mme_id, exited>>
  <2>1. /\ SetContext(u, [Context(u) EXCEPT !.ecm_state = 1])
        /\ Resume(f, [Msg(4) EXCEPT !.imsi = u])
      BY <1>1, <1>6 DEF MmeModifyAnswer
  <2> QED
      BY <1>1, <1>5, <1>7, <2>1 DEF SetContext, Context, Resume, Rearm
<1>9. UNCHANGED <<ranVars, s5, sgwVars, pgwVars, exited, ue_count, s1mme_id>>
    BY <1>8 DEF MmeModifyAnswer, MmeEvent
<1>10. <<c.at, d.at>> \in MmeMiddle /\ FdsMove(call, u, d)
    BY <1>1, <1>2, <1>4 DEF MmeMiddle, MmeSteps, FdsMove
<1>11. s1' = [s1 EXCEPT ![u] = S1Link(u, d)]
  <2>1. S1Down(u, d) = [Msg(4) EXCEPT !.imsi = u]
      BY <1>4 DEF S1Down
  <2> QED
      BY <1>1, <1>2, <1>4, <1>8, <2>1, RanReply
<1>12. s6a' = HssMap(u, c, d)
  <2>1. s6a = HssMap(u, c, d)
      BY <1>1, <1>2, <1>4, <1>10, HssSame
  <2> QED
      BY <1>8, <2>1
<1>13. s11' = S11Map(u, c, d, 0)
    BY <1>1, <1>2, <1>4, <1>8, S11Read
<1>14. mme_fdmap' = MmeMap(u, c, d) /\ mme_armed' = {h \in Fd : mme_fdmap'[h] # None}
  <2>1. RanEntry(d) = FromRan(f)
      BY <1>1, <1>4 DEF RanEntry
  <2> QED
      BY <1>1, <1>2, <1>4, <1>8, <2>1, OutToRan
<1>15. /\ mme_ctx' \in [UE -> MmeContext \cup {None}]
       /\ \A v \in UE \ {u} : mme_ctx'[v] = mme_ctx[v]
       /\ mme_ctx'[u].ecm_state = 1 /\ mme_ctx'[u].xres = u /\ mme_ctx'[u].s11_cteid_sgw = u
       /\ mme_ctx'[u].s1_uteid_dl = u /\ mme_ctx'[u] # None
  <2>1. mme_ctx[u] \in MmeContext
      BY <1>5 DEF TypeOK, KbyMmeTypeOK
  <2>2. mme_ctx[u].xres = u /\ mme_ctx[u].s11_cteid_sgw = u /\ mme_ctx[u].s1_uteid_dl = u
      BY <1>2, <1>5 DEF MmeCtxOK
  <2>3. ctx \in MmeContext /\ ctx.ecm_state = 1 /\ ctx.xres = u /\ ctx.s11_cteid_sgw = u
        /\ ctx.s1_uteid_dl = u
      BY <1>7, <2>1, <2>2 DEF MmeContext
  <2> QED
      BY <1>8, <2>3, KbyMmeNoneAssumption DEF TypeOK, KbyMmeTypeOK
<1>16. MmeCtxOK(u, d)'
    BY <1>4, <1>15 DEF MmeCtxOK
<1>17. 0 \in Teid /\ (d.out # 0 <=> d.at \in (3 .. 5) \cup (10 .. 26))
    BY <1>1, <1>4, Names
<1> QED
    BY <1>1, <1>4, <1>9, <1>10, <1>11, <1>12, <1>13, <1>14, <1>15, <1>16, <1>17, MmeTables

\* The detach goes on to the SGW.
LEMMA MmeDetachMoves ==
    ASSUME TypeOK, NEW call \in [UE -> Call], Calls(call), NEW u \in UE, MmeDetach(u),
           UNCHANGED <<sgwVars, pgwVars>>
    PROVE  TypeOK' /\ \E next \in [UE -> Call] : Calls(next)'
<1>1. PICK c \in Call :
          /\ c = call[u] /\ CallOK(u, c) /\ c.ran # 0 /\ s1[u].srv = c.ran
          /\ s1[u].up = S1Up(u, c) /\ mme_fdmap[c.ran] = RanEntry(c)
          /\ <<5, c.at>> \in {<<1, 2>>, <<2, 7>>, <<3, 9>>, <<4, 17>>, <<5, 22>>}
    BY RequestOf DEF MmeDetach
<1>2. c.at = 22
    BY <1>1
<1>3. PICK d : d = [c EXCEPT !.at = 23]
    OBVIOUS
<1>4. /\ d \in Call /\ d.at = 23 /\ d.ran = c.ran /\ d.out = c.out /\ d.id = c.id
      /\ d.mme = c.mme /\ d.pgw = c.pgw /\ d.sgw = c.sgw
    BY <1>3 DEF Call
<1>5. /\ c.out \in Fd /\ c.out # 0 /\ c.id \in UeId /\ s1mme_id[c.id] = u /\ c.ran \in Fd
      /\ mme_ctx[u] # None /\ mme_ctx[u].s11_cteid_sgw = u /\ MmeCtxOK(u, c)
      /\ mme_fdmap[c.out] = OutEntry(u, c)
  <2>1. c.id # 0 /\ c.id \in UeId /\ c.ran \in Fd /\ c.out # 0 /\ c.out \in Fd
      BY <1>1, <1>2, MmeAt DEF Call
  <2>2. MmeCtxOK(u, c)
      BY <1>1, MmeAt
  <2> QED
      BY <1>1, <1>2, <2>1, <2>2, MmeAt DEF MmeCtxOK
<1>6. s1[u].up.id = c.id
    BY <1>1, <1>2, S1Messages DEF Fields
<1>7. mme_fdmap[c.ran].initial_fd = c.out /\ mme_fdmap[c.out] = None /\ c.ran # c.out
  <2>1. RanEntry(c) = FromRan(c.out)
      BY <1>2 DEF RanEntry
  <2>2. OutEntry(u, c) = None
      BY <1>2 DEF OutEntry
  <2>3. c.ran # c.out
      BY <1>1 DEF Calls, Apart
  <2> QED
      BY <1>1, <1>5, <2>1, <2>2, <2>3 DEF FromRan
<1>8. PICK m : m = [Msg(3) EXCEPT !.teid = u]
    OBVIOUS
<1>9. PICK e : e = [act |-> 7, initial_fd |-> c.ran, msui |-> c.id, buf |-> None]
    OBVIOUS
<1>10. e = OutEntry(u, d) /\ S11Up(u, d) = m
  <2>1. e = OutEntry(u, d)
      BY <1>4, <1>9 DEF OutEntry, Waiting
  <2>2. S11Up(u, d) = m
      BY <1>4, <1>8 DEF S11Up
  <2> QED
      BY <2>1, <2>2
<1>11. /\ s11' = SendUp(s11, c.out, m)
       /\ RequestRead(u)
       /\ mme_fdmap' = Insert(Erase(mme_fdmap, c.ran), c.out, e)
       /\ mme_armed' = (mme_armed \ {c.ran}) \cup {c.out}
       /\ UNCHANGED <<s6a, ue_count, s1mme_id, mme_ctx, exited>>
  <2>1. Context(u) = mme_ctx[u]
      BY <1>5 DEF Context
  <2>2. /\ Forward(c.ran, 7, c.id, m)
        /\ RequestRead(u)
        /\ UNCHANGED mme_ctx
      BY <1>1, <1>5, <1>6, <1>8, <2>1, Names DEF MmeDetach, Unknown
  <2> QED
      BY <1>7, <1>9, <2>2 DEF Forward, Rearm
<1>12. UNCHANGED <<ranVars, s5, sgwVars, pgwVars, exited, ue_count, s1mme_id>>
    BY <1>11 DEF MmeDetach, MmeRequest, MmeEvent
<1>13. <<c.at, d.at>> \in MmeMiddle /\ FdsMove(call, u, d)
    BY <1>1, <1>2, <1>4 DEF MmeMiddle, MmeSteps, FdsMove
<1>14. s1' = [s1 EXCEPT ![u] = S1Link(u, d)]
    BY <1>1, <1>2, <1>4, <1>11, RanRead
<1>15. s6a' = HssMap(u, c, d)
  <2>1. s6a = HssMap(u, c, d)
      BY <1>1, <1>2, <1>4, <1>13, HssSame
  <2> QED
      BY <1>11, <2>1
<1>16. s11' = S11Map(u, c, d, 0)
    BY <1>1, <1>2, <1>4, <1>10, <1>11, S11Sent
<1>17. mme_fdmap' = MmeMap(u, c, d) /\ mme_armed' = {h \in Fd : mme_fdmap'[h] # None}
  <2>1. d.ran # d.out /\ c.out \in {0, d.out} /\ mme_fdmap[d.out] = None /\ d.out \in Fd
      BY <1>4, <1>5, <1>7
  <2> QED
      BY <1>1, <1>2, <1>4, <1>10, <1>11, <2>1, RanToOut
<1>18. /\ mme_ctx' \in [UE -> MmeContext \cup {None}]
       /\ \A v \in UE \ {u} : mme_ctx'[v] = mme_ctx[v]
    BY <1>11 DEF TypeOK, KbyMmeTypeOK
<1>19. MmeCtxOK(u, d)'
    BY <1>2, <1>4, <1>5, <1>11 DEF MmeCtxOK
<1>20. 0 \in Teid /\ (d.out # 0 <=> d.at \in (3 .. 5) \cup (10 .. 26))
    BY <1>4, <1>5, Names
<1> QED
    BY <1>1, <1>4, <1>12, <1>13, <1>14, <1>15, <1>16, <1>17, <1>18, <1>19, <1>20, MmeTables

-----------------------------------------------------------------------------
(* The first and the last event of a call at the MME.                      *)

\* One more round is numbered.
LEMMA OneNumbered ==
    ASSUME TypeOK, NEW call \in [UE -> Call], Calls(call), NEW u \in UE, call[u].at = 2,
           NEW d \in Call, d.at = 3, UNCHANGED rounds, ue_count' = ue_count + 1
    PROVE  /\ ue_count' = Cardinality(Numbered([call EXCEPT ![u] = d])')
           /\ ue_count' \in UeId /\ ue_count \in Nat
<1>1. PICK a : a = <<u, rounds[u]>>
    OBVIOUS
<1>2. rounds[u] \in Nat \ {0} /\ rounds[u] <= Rounds[u] /\ Rounds[u] \in Nat
  <2>1. rounds[u] \in Nat /\ Rounds[u] \in Nat
      BY KbyRoundAssumption DEF TypeOK, KbyRanTypeOK
  <2>2. RanOK(u, call[u])
      BY DEF Calls, CallOK
  <2>3. rounds[u] <= Rounds[u] /\ rounds[u] # 0
      BY <2>2 DEF RanOK
  <2> QED
      BY <2>1, <2>3
<1>3. a \in Attaches /\ a[1] = u /\ a[2] = rounds[u]
  <2>1. a \in {u} \X (1 .. Rounds[u])
      BY <1>1, <1>2
  <2> QED
      BY <1>1, <2>1 DEF Attaches
<1>4. a \notin Numbered(call)
    BY <1>2, <1>3 DEF Numbered
<1>5. \A b \in Attaches : b[1] \in UE /\ b[2] \in Nat /\ (b[1] = u /\ b[2] = rounds[u] => b = a)
  <2> SUFFICES ASSUME NEW b \in Attaches
               PROVE b[1] \in UE /\ b[2] \in Nat /\ (b[1] = u /\ b[2] = rounds[u] => b = a)
      OBVIOUS
  <2>1. PICK v \in UE : b \in {v} \X (1 .. Rounds[v])
      BY DEF Attaches
  <2> QED
      BY <1>1, <2>1
<1>6. Numbered([call EXCEPT ![u] = d])' = Numbered(call) \cup {a}
  <2>1. \A v \in UE : rounds'[v] = rounds[v]
      OBVIOUS
  <2>2. \A v \in UE : [call EXCEPT ![u] = d][v] = IF v = u THEN d ELSE call[v]
      OBVIOUS
  <2>3. \A b \in Attaches : b[1] # u => [call EXCEPT ![u] = d][b[1]].at = call[b[1]].at /\ b # a
      BY <1>3, <1>5, <2>2
  <2>4. \A b \in Attaches : b[1] = u => [call EXCEPT ![u] = d][b[1]].at = 3 /\ call[b[1]].at = 2
      BY <2>2
  <2> QED
      BY <1>2, <1>3, <1>5, <2>1, <2>3, <2>4 DEF Numbered
<1>7. IsFiniteSet(Numbered(call)) /\ Numbered(call) \cup {a} \subseteq Attaches
  <2>1. Numbered(call) \subseteq Attaches
      BY DEF Numbered
  <2>2. IsFiniteSet(Numbered(call))
      BY <2>1, AttachFacts, FS_Subset
  <2> QED
      BY <1>3, <2>1, <2>2
<1>8. Cardinality(Numbered(call)) \in Nat
    BY <1>7, FS_CardinalityType
<1>9. Cardinality(Numbered(call) \cup {a}) = Cardinality(Numbered(call)) + 1
    BY <1>4, <1>7, FS_AddElement
<1>10. Cardinality(Numbered(call) \cup {a}) <= Cardinality(Attaches)
    BY <1>7, AttachFacts, FS_Subset
<1>11. ue_count = Cardinality(Numbered(call))
    BY DEF Calls
<1>12. ue_count' = Cardinality(Numbered([call EXCEPT ![u] = d])')
    BY <1>6, <1>9, <1>11
<1>13. ue_count \in Nat /\ ue_count + 1 <= Cardinality(Attaches) /\ Cardinality(Attaches) \in Nat
    BY <1>8, <1>9, <1>10, <1>11, AttachFacts
<1>14. ue_count' \in UeId
    BY <1>13 DEF UeId
<1> QED
    BY <1>12, <1>13, <1>14

\* A first attach: the call gets a number and a connection to the HSS.
LEMMA MmeAttachOneMoves ==
    ASSUME TypeOK, NEW call \in [UE -> Call], Calls(call), NEW u \in UE, MmeAttachOne(u),
           UNCHANGED <<sgwVars, pgwVars>>
    PROVE  TypeOK' /\ \E next \in [UE -> Call] : Calls(next)'
<1>1. PICK c \in Call :
          /\ c = call[u] /\ CallOK(u, c) /\ c.ran # 0 /\ s1[u].srv = c.ran
          /\ s1[u].up = S1Up(u, c) /\ mme_fdmap[c.ran] = RanEntry(c)
          /\ <<1, c.at>> \in {<<1, 2>>, <<2, 7>>, <<3, 9>>, <<4, 17>>, <<5, 22>>}
    BY RequestOf DEF MmeAttachOne
<1>2. c.at = 2
    BY <1>1
<1>3. PICK g : g = FreeFd(MmeUsed)
    OBVIOUS
<1>4. /\ g \in Fd /\ g # 0 /\ \A v \in UE : g \notin {call[v].ran, call[v].out}
      /\ mme_fdmap[g] = None /\ s6a[g] = NoLink /\ s11[g] = NoLink
    BY <1>3, FreshOut
<1>5. PICK n : n = ue_count + 1
    OBVIOUS
<1>6. s1[u].up.imsi = u
    BY <1>1, <1>2, S1Messages DEF Fields
<1>7. PICK m : m = [Msg(1) EXCEPT !.imsi = u]
    OBVIOUS
<1>8. /\ ue_count' = n /\ s1mme_id' = [s1mme_id EXCEPT ![n] = u]
      /\ SetContext(u, Context(u))
      /\ s6a' = Connect(s6a, g)
      /\ Park(c.ran, g, 2, n, m)
      /\ RequestRead(u)
      /\ UNCHANGED <<s11, exited>>
    BY <1>1, <1>3, <1>5, <1>6, <1>7 DEF MmeAttachOne, NextUeId
<1>9. UNCHANGED <<ranVars, s5, sgwVars, pgwVars, exited>> /\ UNCHANGED rounds
    BY <1>8 DEF MmeAttachOne, MmeRequest, MmeEvent, ranVars
<1>10. PICK d : d = [at |-> 3, ran |-> c.ran, out |-> g, mme |-> c.mme, pgw |-> c.pgw,
                     sgw |-> c.sgw, id |-> n]
    OBVIOUS
<1>11. n \in UeId /\ ue_count \in Nat /\ n \in Nat /\ n # 0
  <2>1. 3 \in 0 .. 27
      OBVIOUS
  <2>2. PICK e : e = [c EXCEPT !.at = 3]
      OBVIOUS
  <2>3. e \in Call /\ e.at = 3
      BY <2>1, <2>2 DEF Call
  <2>4. call[u].at = 2 /\ ue_count' = ue_count + 1
      BY <1>1, <1>2, <1>5, <1>8
  <2>5. ue_count' \in UeId /\ ue_count \in Nat
      BY <1>9, <2>3, <2>4, OneNumbered
  <2> QED
      BY <1>8, <2>5, Names
<1>12. /\ d \in Call /\ d.at = 3 /\ d.ran = c.ran /\ d.out = g /\ d.id = n
       /\ d.mme = c.mme /\ d.pgw = c.pgw /\ d.sgw = c.sgw
    BY <1>4, <1>10, <1>11 DEF Call
<1>13. ue_count' = Cardinality(Numbered([call EXCEPT ![u] = d])') /\ ue_count' \in Nat
  <2>1. call[u].at = 2 /\ ue_count' = ue_count + 1
      BY <1>1, <1>2, <1>5, <1>8
  <2>2. ue_count' = Cardinality(Numbered([call EXCEPT ![u] = d])')
      BY <1>9, <1>12, <2>1, OneNumbered
  <2> QED
      BY <1>8, <1>11, <2>2
<1>14. /\ c.out = 0 /\ c.mme = 0 /\ c.id = 0 /\ c.ran \in Fd /\ 0 \notin Fd
       /\ mme_ctx[u] = None
  <2>1. c.out = 0 /\ c.id = 0 /\ c.ran \in Fd /\ mme_ctx[u] = None
      BY <1>1, <1>2, MmeAt DEF Call
  <2>2. c.mme = 0
      BY <1>1, <1>2 DEF CallOK, FdsOK
  <2> QED
      BY <2>1, <2>2, Names
<1>15. s1' = [s1 EXCEPT ![u] = S1Link(u, d)]
    BY <1>1, <1>2, <1>8, <1>12, RanRead
<1>16. mme_fdmap' = MmeMap(u, c, d) /\ mme_armed' = {h \in Fd : mme_fdmap'[h] # None}
  <2>1. d.ran # d.out /\ c.out \in {0, d.out} /\ mme_fdmap[d.out] = None /\ d.out \in Fd
      BY <1>1, <1>4, <1>12, <1>14
  <2>2. OutEntry(u, d) = [act |-> 2, initial_fd |-> c.ran, msui |-> n, buf |-> m]
      BY <1>7, <1>12 DEF OutEntry, Waiting
  <2>3. /\ mme_fdmap' = Insert(Erase(mme_fdmap, c.ran), d.out, OutEntry(u, d))
        /\ mme_armed' = (mme_armed \ {c.ran}) \cup {d.out}
      BY <1>8, <1>12, <2>2 DEF Park, Rearm
  <2> QED
      BY <1>1, <1>2, <1>12, <2>1, <2>3, RanToOut
<1>17. s6a' = [s6a EXCEPT ![g] = HssLink(u, d)]
  <2>1. HssLink(u, d) = [state |-> "syn", srv |-> 0, up |-> None, down |-> None]
      BY <1>12 DEF HssLink
  <2>2. s6a \in [Fd -> Link]
      BY DEF TypeOK, KbyBaseTypeOK
  <2> QED
      BY <1>4, <1>8, <2>1, <2>2, ConnectForm
<1>18. TypeOK' /\ KbyMmeTypeOK'
  <2>1. /\ S1Link(u, d) \in Link /\ HssLink(u, d) \in Link
        /\ OutEntry(u, d) \in MmeData \cup {None} /\ RanEntry(d) \in MmeData \cup {None}
      BY <1>12, Names, CallLinks, MmeEntries
  <2>2. s1' \in [UE -> Link] /\ s6a' \in [Fd -> Link] /\ s11' \in [Fd -> Link]
      BY <1>8, <1>15, <1>17, <2>1 DEF TypeOK, KbyBaseTypeOK
  <2>3. mme_fdmap' \in [Fd -> MmeData \cup {None}] /\ mme_armed' \subseteq Fd
      BY <1>16, <2>1 DEF MmeMap, TypeOK, KbyMmeTypeOK
  <2>4. NewMmeContext \in MmeContext
      BY Names DEF NewMmeContext, MmeContext
  <2>5. mme_ctx' \in [UE -> MmeContext \cup {None}]
      BY <1>8, <2>4 DEF SetContext, Context, TypeOK, KbyMmeTypeOK
  <2>6. s1mme_id' \in [UeId -> Teid]
      BY <1>8, Names DEF TypeOK, KbyMmeTypeOK
  <2>7. KbyMmeTypeOK'
      BY <1>8, <1>11, <2>3, <2>5, <2>6 DEF KbyMmeTypeOK
  <2> QED
      BY <1>9, <2>2, <2>7, MmeTypes
<1>19. \A v \in UE, i \in UeId : s1mme_id[i] = v <=> i = call[v].id
  <2>1. \A v \in UE : call[v] \in Call /\ CallOK(v, call[v])
      BY DEF Calls
  <2> QED
      BY <2>1, MmeAt
<1>20. \A v \in UE : call[v].id # n
  <2>1. \A v \in UE : call[v] \in Call /\ CallOK(v, call[v])
      BY DEF Calls
  <2>2. \A v \in UE : call[v].id \in Nat /\ call[v].id <= ue_count
      BY <2>1, MmeAt, CallNumbers
  <2> QED
      BY <1>5, <1>11, <2>2
<1>21. \A i \in UeId : s1mme_id'[i] = IF i = n THEN u ELSE s1mme_id[i]
    BY <1>8 DEF TypeOK, KbyMmeTypeOK
<1>22. MmeOK(u, d)'
  <2>1. mme_fdmap'[d.ran] = RanEntry(d) /\ mme_fdmap'[d.out] = OutEntry(u, d)
      BY <1>1, <1>4, <1>12, <1>14, <1>16 DEF MmeMap
  <2>2. s6a'[d.out] = HssLink(u, d)
      BY <1>4, <1>12, <1>17 DEF TypeOK, KbyBaseTypeOK
  <2>3. S11OK(u, d)'
    <3>1. S11State(d) = "closed" /\ d.mme = 0
        BY <1>12, <1>14 DEF S11State
    <3>2. S11Up(u, d) = None
        BY <1>12 DEF S11Up
    <3>3. S11Down(u, d, 0) = None
        BY <1>12 DEF S11Down
    <3>4. s11'[d.out] = NoLink
        BY <1>4, <1>8, <1>12
    <3> QED
        BY <3>1, <3>2, <3>3, <3>4, Names DEF S11OK, NoLink
  <2>4. MmeFdsOK(u, d)'
      BY <2>1, <2>2, <2>3 DEF MmeFdsOK
  <2>5. mme_ctx'[u] = NewMmeContext /\ NewMmeContext # None
    <3>1. NewMmeContext \in MmeContext
        BY Names DEF NewMmeContext, MmeContext
    <3>2. mme_ctx'[u] = NewMmeContext
        BY <1>8, <1>14 DEF SetContext, Context, TypeOK, KbyMmeTypeOK
    <3> QED
        BY <3>1, <3>2, KbyMmeNoneAssumption
  <2>6. MmeCtxOK(u, d)'
      BY <1>12, <2>5 DEF MmeCtxOK
  <2>7. \A i \in UeId : s1mme_id'[i] = u <=> i = d.id
      BY <1>1, <1>12, <1>14, <1>19, <1>21, Names
  <2>8. d.id <= ue_count'
      BY <1>8, <1>11, <1>12
  <2> QED
      BY <2>4, <2>6, <2>7, <2>8 DEF MmeOK
<1>23. MmeFrame(u, c, d) /\ FdsMove(call, u, d)
  <2>1. ue_count' >= ue_count
      BY <1>5, <1>8, <1>11
  <2>2. \A f \in Fd \ {c.ran, c.out, d.out} : mme_fdmap'[f] = mme_fdmap[f]
      BY <1>16 DEF MmeMap
  <2>3. \A f \in Fd \ {c.out, d.out} : s6a'[f] = s6a[f] /\ s11'[f] = s11[f]
      BY <1>8, <1>12, <1>17 DEF TypeOK, KbyBaseTypeOK
  <2>4. \A v \in UE \ {u} : mme_ctx'[v] = mme_ctx[v]
      BY <1>8 DEF SetContext, TypeOK, KbyMmeTypeOK
  <2>5. \A v \in UE \ {u}, i \in UeId : s1mme_id'[i] = v <=> s1mme_id[i] = v
      BY <1>19, <1>20, <1>21
  <2>6. MmeFrame(u, c, d)
      BY <1>12, <1>14, <2>1, <2>2, <2>3, <2>4, <2>5 DEF MmeFrame
  <2>7. FdsMove(call, u, d)
      BY <1>1, <1>4, <1>12 DEF FdsMove
  <2> QED
      BY <2>6, <2>7
<1>24. FdsOK(d) /\ <<c.at, d.at>> \in MmeSteps /\ Armed'
  <2>1. FdsOK(d)
      BY <1>1, <1>2, <1>4, <1>11, <1>12, <1>14 DEF CallOK, FdsOK
  <2>2. Armed'
      BY <1>9, <1>16 DEF Calls, Armed, sgwVars, pgwVars
  <2> QED
      BY <1>2, <1>12, <2>1, <2>2 DEF MmeSteps
<1>25. s1' = [s1 EXCEPT ![u] = [state |-> S1State(d.at), srv |-> d.ran, up |-> S1Up(u, d),
                                down |-> S1Down(u, d)]]
    BY <1>15 DEF S1Link
<1>26. \E next \in [UE -> Call] : Calls(next)'
    BY <1>1, <1>9, <1>12, <1>13, <1>22, <1>23, <1>24, <1>25, MmeAdvance
<1> QED
    BY <1>18, <1>26

\* The last answer ends a call at the MME, which runs on or exits before it has closed
\* the terminal's connection.
LEMMA MmeDetachAnswerOf ==
    ASSUME TypeOK, NEW call \in [UE -> Call], Calls(call), NEW f \in Fd, MmeDetachAnswer(f)
    PROVE  \E u \in UE, c \in Call, m \in Message :
              /\ c = call[u] /\ CallOK(u, c) /\ f = c.out /\ c.out # 0 /\ c.at = 26
              /\ c.ran # 0 /\ c.ran \in Fd /\ c.id \in UeId /\ s1mme_id[c.id] = u /\ c.ran # c.out
              /\ m = [Msg(5) EXCEPT !.imsi = u]
              /\ s11' = [s11 EXCEPT ![f] = NoLink]
              /\ s1mme_id' = [s1mme_id EXCEPT ![c.id] = 0]
              /\ mme_ctx' = [mme_ctx EXCEPT ![u] = None]
              /\ mme_fdmap' = Erase(Erase(mme_fdmap, f), c.ran)
              /\ mme_armed' = mme_armed \ {f, c.ran}
              /\ \/ s1' = Shut(Reply(s1, c.ran, m), c.ran) /\ exited' = exited
                 \/ s1' = Reply(s1, c.ran, m) /\ exited' = exited \cup {"mme"}
              /\ UNCHANGED <<ranVars, s5, s6a, ue_count>>
<1>1. PICK u \in UE, c \in Call :
          /\ c = call[u] /\ CallOK(u, c) /\ f = c.out /\ c.out # 0
          /\ mme_fdmap[c.out] # None /\ mme_fdmap[c.out].act = 7
          /\ mme_fdmap[c.out].initial_fd = c.ran /\ mme_fdmap[c.out].msui = c.id
    BY MmeEventOf DEF MmeDetachAnswer
<1>2. c.at = 26
    BY <1>1, MmeStage DEF MmeDetachAnswer
<1>3. c.ran # 0 /\ c.ran \in Fd /\ c.id \in UeId /\ s1mme_id[c.id] = u /\ c.ran # c.out
  <2>1. c.ran # 0 /\ c.id # 0 /\ c.ran \in Fd /\ c.id \in UeId
      BY <1>1, <1>2, MmeAt DEF Call
  <2>2. c.ran # c.out
      BY <1>1, <2>1 DEF Calls, Apart
  <2>3. s1mme_id[c.id] = u
      BY <1>1, <2>1, MmeAt
  <2> QED
      BY <2>1, <2>2, <2>3
<1>4. GutiOf(c.id) = {u}
    BY <1>3, Names DEF GutiOf, Unknown
<1>5. PICK m \in Message : m = [Msg(5) EXCEPT !.imsi = u]
  <2>1. Msg(5) \in Message /\ u \in Teid
      BY Names
  <2> QED
      BY <2>1 DEF Message
<1>6. /\ s11' = [s11 EXCEPT ![f] = NoLink]
      /\ s1mme_id' = [s1mme_id EXCEPT ![c.id] = 0]
      /\ mme_ctx' = [mme_ctx EXCEPT ![u] = None]
      /\ mme_fdmap' = Erase(Erase(mme_fdmap, f), c.ran)
      /\ mme_armed' = mme_armed \ {f, c.ran}
      /\ \/ s1' = Shut(Reply(s1, c.ran, m), c.ran) /\ exited' = exited
         \/ s1' = Reply(s1, c.ran, m) /\ exited' = exited \cup {"mme"}
      /\ UNCHANGED <<s6a, ue_count>>
    BY <1>1, <1>4, <1>5 DEF MmeDetachAnswer, MmeShut, Exit
<1>7. UNCHANGED <<ranVars, s5>>
    BY DEF MmeDetachAnswer, MmeEvent, ranVars
<1> QED
    BY <1>1, <1>2, <1>3, <1>5, <1>6, <1>7

\* When it exits, nothing is said of the call but that the types are kept.
LEMMA MmeDetachAnswerExits ==
    ASSUME TypeOK, NEW call \in [UE -> Call], Calls(call), NEW f \in Fd, MmeDetachAnswer(f),
           exited' # {}, UNCHANGED <<sgwVars, pgwVars>>
    PROVE  TypeOK'
<1>1. PICK u \in UE, c \in Call, m \in Message :
          /\ f = c.out /\ c.ran \in Fd
          /\ s11' = [s11 EXCEPT ![f] = NoLink]
          /\ s1mme_id' = [s1mme_id EXCEPT ![c.id] = 0]
          /\ mme_ctx' = [mme_ctx EXCEPT ![u] = None]
          /\ mme_fdmap' = Erase(Erase(mme_fdmap, f), c.ran)
          /\ mme_armed' = mme_armed \ {f, c.ran}
          /\ \/ s1' = Shut(Reply(s1, c.ran, m), c.ran) /\ exited' = exited
             \/ s1' = Reply(s1, c.ran, m) /\ exited' = exited \cup {"mme"}
          /\ UNCHANGED <<ranVars, s5, s6a, ue_count>>
    BY MmeDetachAnswerOf
<1>2. exited' = exited \cup {"mme"} /\ s1' = Reply(s1, c.ran, m)
  <2>1. exited = {}
      BY DEF Calls
  <2> QED
      BY <1>1, <2>1
<1>3. s1' \in [UE -> Link]
  <2>1. s1 \in [UE -> Link]
      BY DEF TypeOK, KbyBaseTypeOK
  <2>2. \A v \in UE : [s1[v] EXCEPT !.down = m] \in Link
      BY <2>1 DEF Link
  <2> QED
      BY <1>2, <2>1, <2>2 DEF Reply
<1>4. s11' \in [Fd -> Link] /\ s6a' \in [Fd -> Link] /\ s5' \in [Fd -> Link]
    BY <1>1, Names DEF TypeOK, KbyBaseTypeOK
<1>5. KbyMmeTypeOK'
  <2>1. mme_fdmap' \in [Fd -> MmeData \cup {None}] /\ mme_armed' \subseteq Fd
      BY <1>1 DEF Erase, TypeOK, KbyMmeTypeOK
  <2>2. mme_ctx' \in [UE -> MmeContext \cup {None}] /\ s1mme_id' \in [UeId -> Teid]
      BY <1>1, Names DEF TypeOK, KbyMmeTypeOK
  <2> QED
      BY <1>1, <2>1, <2>2 DEF TypeOK, KbyMmeTypeOK
<1>6. KbyBaseTypeOK'
    BY <1>2, <1>3, <1>4 DEF TypeOK, KbyBaseTypeOK
<1>7. KbyRanTypeOK'
    BY <1>1 DEF TypeOK, KbyRanTypeOK, ranVars
<1>8. KbySgwTypeOK' /\ KbyPgwTypeOK'
    BY DEF TypeOK, KbySgwTypeOK, KbyPgwTypeOK, sgwVars, pgwVars
<1> QED
    BY <1>5, <1>6, <1>7, <1>8 DEF TypeOK

\* When it runs on, it has forgotten the subscriber and closed both connections.
LEMMA MmeDetachAnswerMoves ==
    ASSUME TypeOK, NEW call \in [UE -> Call], Calls(call), NEW f \in Fd, MmeDetachAnswer(f),
           exited' = {}, UNCHANGED <<sgwVars, pgwVars>>
    PROVE  TypeOK' /\ \E next \in [UE -> Call] : Calls(next)'
<1>1. PICK u \in UE, c \in Call, m \in Message :
          /\ c = call[u] /\ CallOK(u, c) /\ f = c.out /\ c.out # 0 /\ c.at = 26
          /\ c.ran # 0 /\ c.ran \in Fd /\ c.id \in UeId /\ s1mme_id[c.id] = u /\ c.ran # c.out
          /\ m = [Msg(5) EXCEPT !.imsi = u]
          /\ s11' = [s11 EXCEPT ![f] = NoLink]
          /\ s1mme_id' = [s1mme_id EXCEPT ![c.id] = 0]
          /\ mme_ctx' = [mme_ctx EXCEPT ![u] = None]
          /\ mme_fdmap' = Erase(Erase(mme_fdmap, f), c.ran)
          /\ mme_armed' = mme_armed \ {f, c.ran}
          /\ \/ s1' = Shut(Reply(s1, c.ran, m), c.ran) /\ exited' = exited
             \/ s1' = Reply(s1, c.ran, m) /\ exited' = exited \cup {"mme"}
          /\ UNCHANGED <<ranVars, s5, s6a, ue_count>>
    BY MmeDetachAnswerOf
<1>2. c.at = 26
    BY <1>1
<1>3. PICK d : d = [at |-> 27, ran |-> 0, out |-> 0, mme |-> c.mme, pgw |-> c.pgw,
                    sgw |-> c.sgw, id |-> 0]
    OBVIOUS
<1>4. /\ d \in Call /\ d.at = 27 /\ d.ran = 0 /\ d.out = 0 /\ d.id = 0
      /\ d.mme = c.mme /\ d.pgw = c.pgw /\ d.sgw = c.sgw
    BY <1>3 DEF Call
<1>5. /\ c.ran # 0 /\ c.ran \in Fd /\ c.id \in UeId /\ s1mme_id[c.id] = u /\ c.ran # c.out
      /\ 0 \notin Fd /\ 0 \notin UeId
    BY <1>1, Names
<1>7. m = [Msg(5) EXCEPT !.imsi = u]
    BY <1>1
<1>8. /\ s1' = Shut(Reply(s1, c.ran, m), c.ran)
      /\ s11' = [s11 EXCEPT ![f] = NoLink]
      /\ s1mme_id' = [s1mme_id EXCEPT ![c.id] = 0]
      /\ mme_ctx' = [mme_ctx EXCEPT ![u] = None]
      /\ mme_fdmap' = Erase(Erase(mme_fdmap, f), c.ran)
      /\ mme_armed' = mme_armed \ {f, c.ran}
      /\ UNCHANGED <<s6a, ue_count, exited>>
    BY <1>1
<1>9. UNCHANGED <<ranVars, s5, sgwVars, pgwVars, exited>> /\ UNCHANGED <<rounds, ue_count>>
    BY <1>1, <1>8 DEF ranVars
<1>10. s1' = [s1 EXCEPT ![u] = [state |-> S1State(d.at), srv |-> d.ran, up |-> S1Up(u, d),
                                down |-> S1Down(u, d)]]
  <2>1. s1 \in [UE -> Link] /\ s1[u].srv = c.ran /\ s1[u].up = S1Up(u, c)
      BY <1>1, RanAt DEF TypeOK, KbyBaseTypeOK
  <2>2. PICK l : l = [s1 EXCEPT ![u] = [state |-> s1[u].state, srv |-> c.ran, up |-> s1[u].up,
                                        down |-> m]]
      OBVIOUS
  <2>3. \A v \in UE : s1[v].srv = c.ran <=> v = u
    <3>1. \A v \in UE : s1[v].srv = call[v].ran
        BY RanAt DEF Calls
    <3>2. \A v \in UE \ {u} : s1[v].srv # c.ran
        BY <1>1, <1>5, <3>1 DEF Calls, Apart
    <3> QED
        BY <2>1, <3>2
  <2>4. Reply(s1, c.ran, m) = l
    <3>1. Reply(s1, c.ran, m) = [s1 EXCEPT ![u].down = m]
        BY <2>1, <2>3 DEF Reply, At
    <3>2. [s1[u] EXCEPT !.down = m]
          = [state |-> s1[u].state, srv |-> c.ran, up |-> s1[u].up, down |-> m]
        BY <2>1 DEF Link
    <3> QED
        BY <2>2, <3>1, <3>2
  <2>5. DOMAIN l = UE /\ At(l, c.ran) = {u}
    <3>1. \A v \in UE : l[v].srv = c.ran <=> v = u
        BY <2>1, <2>2, <2>3
    <3> QED
        BY <2>1, <2>2, <3>1 DEF At
  <2>6. PICK e : e = [state |-> "shut", srv |-> 0, up |-> s1[u].up, down |-> m]
      OBVIOUS
  <2>7. [l[u] EXCEPT !.state = "shut", !.srv = 0] = e
    <3>1. l[u] = [state |-> s1[u].state, srv |-> c.ran, up |-> s1[u].up, down |-> m]
        BY <2>1, <2>2
    <3>2. [l[u] EXCEPT !.state = "shut"]
          = [state |-> "shut", srv |-> c.ran, up |-> s1[u].up, down |-> m]
        BY <3>1
    <3>3. [[state |-> "shut", srv |-> c.ran, up |-> s1[u].up, down |-> m] EXCEPT !.srv = 0] = e
        BY <2>6
    <3> QED
        BY <3>2, <3>3
  <2>8. Shut(l, c.ran) = [v \in UE |-> IF v = u THEN e ELSE l[v]]
      BY <2>5, <2>7 DEF Shut
  <2>9. Shut(l, c.ran) = [s1 EXCEPT ![u] = e]
      BY <2>1, <2>2, <2>8
  <2>10. S1State(d.at) = "shut"
      BY <1>4 DEF S1State
  <2>11. S1Up(u, d) = None
      BY <1>4 DEF S1Up
  <2>12. S1Up(u, c) = None
      BY <1>2 DEF S1Up
  <2>13. S1Down(u, d) = m
      BY <1>4, <1>7 DEF S1Down
  <2> QED
      BY <1>4, <1>8, <2>1, <2>4, <2>6, <2>9, <2>10, <2>11, <2>12, <2>13
<1>11. \A h \in Fd : mme_fdmap'[h] = IF h \in {f, c.ran} THEN None ELSE mme_fdmap[h]
    BY <1>1, <1>5, <1>8 DEF Erase, TypeOK, KbyMmeTypeOK
<1>12. TypeOK'
  <2>1. S1Link(u, d) \in Link
      BY <1>4, Names, CallLinks
  <2>2. s1' \in [UE -> Link] /\ s6a' \in [Fd -> Link] /\ s11' \in [Fd -> Link]
      BY <1>8, <1>10, <2>1, Names DEF S1Link, TypeOK, KbyBaseTypeOK
  <2>3. mme_fdmap' \in [Fd -> MmeData \cup {None}] /\ mme_armed' \subseteq Fd
      BY <1>5, <1>8 DEF Erase, TypeOK, KbyMmeTypeOK
  <2>4. mme_ctx' \in [UE -> MmeContext \cup {None}] /\ s1mme_id' \in [UeId -> Teid]
      BY <1>8, Names DEF TypeOK, KbyMmeTypeOK
  <2>5. KbyMmeTypeOK'
      BY <1>8, <2>3, <2>4 DEF TypeOK, KbyMmeTypeOK
  <2> QED
      BY <1>9, <2>2, <2>5, MmeTypes
<1>13. \A i \in UeId : s1mme_id'[i] = IF i = c.id THEN 0 ELSE s1mme_id[i]
    BY <1>8 DEF TypeOK, KbyMmeTypeOK
<1>14. \A v \in UE, i \in UeId : s1mme_id[i] = v <=> i = call[v].id
  <2>1. \A v \in UE : call[v] \in Call /\ CallOK(v, call[v])
      BY DEF Calls
  <2> QED
      BY <2>1, MmeAt
<1>15. ue_count \in Nat
    BY Names DEF TypeOK, KbyMmeTypeOK
<1>16. MmeOK(u, d)'
  <2>1. MmeFdsOK(u, d)'
      BY <1>4 DEF MmeFdsOK
  <2>2. mme_ctx'[u] = None
      BY <1>8 DEF TypeOK, KbyMmeTypeOK
  <2>3. MmeCtxOK(u, d)'
      BY <1>4, <2>2 DEF MmeCtxOK
  <2>4. \A i \in UeId : s1mme_id'[i] = u <=> i = d.id
      BY <1>1, <1>4, <1>5, <1>13, <1>14, Names
  <2>5. d.id <= ue_count'
      BY <1>4, <1>8, <1>15
  <2> QED
      BY <2>1, <2>3, <2>4, <2>5 DEF MmeOK
<1>17. MmeFrame(u, c, d) /\ FdsMove(call, u, d)
  <2>1. ue_count' >= ue_count
      BY <1>8, <1>15
  <2>2. \A h \in Fd \ {c.ran, c.out, d.out} : mme_fdmap'[h] = mme_fdmap[h]
      BY <1>1, <1>11
  <2>3. \A h \in Fd \ {c.out, d.out} : s6a'[h] = s6a[h] /\ s11'[h] = s11[h]
      BY <1>1, <1>8 DEF TypeOK, KbyBaseTypeOK
  <2>4. mme_fdmap'[c.out] = None /\ mme_fdmap'[c.ran] = None /\ s11'[c.out] = NoLink
      BY <1>1, <1>5, <1>8, <1>11 DEF TypeOK, KbyBaseTypeOK
  <2>5. s6a'[c.out] = NoLink
    <3>1. s6a[c.out] = HssLink(u, c)
        BY <1>1, MmeAt
    <3> QED
        BY <1>2, <1>8, <3>1 DEF HssLink, NoLink
  <2>6. \A v \in UE \ {u} : mme_ctx'[v] = mme_ctx[v]
      BY <1>8 DEF TypeOK, KbyMmeTypeOK
  <2>7. \A v \in UE \ {u}, i \in UeId : s1mme_id'[i] = v <=> s1mme_id[i] = v
    <3>1. 0 \notin UE
        BY Names
    <3> QED
        BY <1>5, <1>13, <3>1
  <2>8. MmeFrame(u, c, d)
      BY <1>4, <2>1, <2>2, <2>3, <2>4, <2>5, <2>6, <2>7 DEF MmeFrame
  <2>9. FdsMove(call, u, d)
      BY <1>1, <1>4 DEF FdsMove
  <2> QED
      BY <2>8, <2>9
<1>18. FdsOK(d) /\ <<c.at, d.at>> \in MmeSteps /\ Armed'
  <2>1. FdsOK(d)
      BY <1>1, <1>2, <1>4 DEF CallOK, FdsOK
  <2>2. mme_armed' = {h \in Fd : mme_fdmap'[h] # None}
      BY <1>8, <1>11 DEF Calls, Armed
  <2>3. Armed'
      BY <1>9, <2>2 DEF Calls, Armed, sgwVars, pgwVars
  <2> QED
      BY <1>2, <1>4, <2>1, <2>3 DEF MmeSteps
<1>19. ue_count' = Cardinality(Numbered([call EXCEPT ![u] = d])') /\ ue_count' \in Nat
  <2>1. d.at \in 1 .. 2 <=> call[u].at \in 1 .. 2
      BY <1>1, <1>2, <1>4
  <2> QED
      BY <1>4, <1>9, <2>1, SameNumbered
<1>20. \E next \in [UE -> Call] : Calls(next)'
    BY <1>1, <1>4, <1>9, <1>10, <1>16, <1>17, <1>18, <1>19, MmeAdvance
<1> QED
    BY <1>12, <1>20

-----------------------------------------------------------------------------
(* The accept loop of the MME: all calls that wait for it go on.           *)

\* A call after the accepts: those that were waiting have descriptors g.
RanAccepted(call, g) ==
    [v \in UE |-> IF call[v].at = 1 THEN [call[v] EXCEPT !.at = 2, !.ran = g[v]] ELSE call[v]]

\* Who waits to be accepted.
LEMMA RanPending ==
    ASSUME TypeOK, NEW call \in [UE -> Call], Calls(call)
    PROVE  Pending(s1) = {v \in UE : call[v].at = 1}
<1>1. DOMAIN s1 = UE
    BY DEF TypeOK, KbyBaseTypeOK
<1>2. ASSUME NEW v \in UE PROVE s1[v].state = "syn" <=> call[v].at = 1
  <2>1. call[v] \in Call /\ CallOK(v, call[v])
      BY DEF Calls
  <2>2. s1[v].state = S1State(call[v].at) /\ call[v].at \in 0 .. 27
      BY <2>1, RanAt
  <2> QED
      BY <2>2 DEF S1State
<1> QED
    BY <1>1, <1>2 DEF Pending

\* handle_ran_accept: the calls that wait for it get their descriptors.
LEMMA MmeAcceptMoves ==
    ASSUME TypeOK, NEW call \in [UE -> Call], Calls(call), MmeAccept, UNCHANGED <<sgwVars, pgwVars>>
    PROVE  TypeOK' /\ \E next \in [UE -> Call] : Calls(next)'
<1>1. PICK g \in Accepts(s1, MmeUsed) :
          /\ s1' = AcceptAll(s1, g)
          /\ mme_armed' = mme_armed \cup Range(g)
          /\ mme_fdmap' = InsertAll(mme_fdmap, Range(g), FromRan(0))
    BY DEF MmeAccept
<1>2. UNCHANGED <<ranVars, s6a, s11, s5, ue_count, s1mme_id, mme_ctx, exited, sgwVars, pgwVars>>
    BY DEF MmeAccept
<1> DEFINE W == {v \in UE : call[v].at = 1}
<1>3. Pending(s1) = W
    BY RanPending
<1>4. /\ g \in [W -> Fd \ MmeUsed]
      /\ \A v, w \in W : g[v] = g[w] => v = w
      /\ Range(g) = {g[v] : v \in W}
    BY <1>3 DEF Accepts, Injection, Range, IsInjective
<1>5. ASSUME NEW v \in W
      PROVE  g[v] \in Fd /\ g[v] # 0 /\ \A w \in UE : g[v] \notin {call[w].ran, call[w].out}
  <2>1. g[v] \in Fd /\ g[v] \notin MmeUsed
      BY <1>4
  <2>2. g[v] # 0
      BY <2>1, Names
  <2> QED
      BY <2>1, <2>2, MmeUsedIs
<1>6. PICK next : next = RanAccepted(call, g)
    OBVIOUS
<1>7. ASSUME NEW v \in UE PROVE call[v] \in Call /\ CallOK(v, call[v])
    BY DEF Calls
<1>8. ASSUME NEW v \in W
      PROVE  /\ next[v].at = 2 /\ next[v].ran = g[v] /\ next[v].out = call[v].out
             /\ next[v].mme = call[v].mme /\ next[v].pgw = call[v].pgw
             /\ next[v].sgw = call[v].sgw /\ next[v].id = call[v].id /\ next[v] \in Call
  <2>1. next[v] = [call[v] EXCEPT !.at = 2, !.ran = g[v]] /\ call[v] \in Call
      BY <1>6, <1>7 DEF RanAccepted
  <2>2. PICK e : e = [call[v] EXCEPT !.at = 2]
      OBVIOUS
  <2>3. /\ e \in Call /\ e.at = 2 /\ e.out = call[v].out
        /\ e.mme = call[v].mme /\ e.pgw = call[v].pgw /\ e.sgw = call[v].sgw /\ e.id = call[v].id
      BY <2>1, <2>2 DEF Call
  <2>4. next[v] = [e EXCEPT !.ran = g[v]]
      BY <2>1, <2>2
  <2> QED
      BY <1>5, <2>3, <2>4 DEF Call
<1>9. \A v \in UE \ W : next[v] = call[v]
    BY <1>6 DEF RanAccepted
<1>10. next \in [UE -> Call]
    BY <1>6, <1>8, <1>9 DEF RanAccepted
<1>11. ASSUME NEW v \in W
       PROVE  /\ call[v].at = 1 /\ call[v].ran = 0 /\ call[v].out = 0 /\ call[v].mme = 0
              /\ call[v].pgw = 0 /\ call[v].sgw = 0 /\ call[v].id = 0
  <2>1. FdsOK(call[v]) /\ call[v].at = 1
      BY <1>7 DEF CallOK
  <2> QED
      BY <2>1 DEF FdsOK
<1> HIDE DEF W
<1>12. W \subseteq UE /\ \A v \in UE : v \in W <=> call[v].at = 1
    BY DEF W
<1>13. \A f \in Fd : mme_fdmap'[f] = IF f \in Range(g) THEN FromRan(0) ELSE mme_fdmap[f]
  <2>1. \A f \in Range(g) : mme_fdmap[f] = None
      BY <1>4, <1>5 DEF Calls, NoStrays
  <2> QED
      BY <1>1, <2>1 DEF InsertAll
<1>14. FromRan(0) # None /\ FromRan(0) \in MmeData
  <2>1. FromRan(0) \in MmeData
      BY DEF FromRan, MmeData
  <2> QED
      BY <2>1, KbyMmeNoneAssumption
<1>15. \A v \in UE \ W : s1'[v] = s1[v]
    BY <1>1, <1>3 DEF AcceptAll, TypeOK, KbyBaseTypeOK
<1>16. ASSUME NEW v \in W
       PROVE  s1'[v] = [state |-> "open", srv |-> g[v], up |-> S1Up(v, next[v]), down |-> None]
  <2>1. s1[v].up = S1Up(v, call[v]) /\ s1[v].down = S1Down(v, call[v])
      BY <1>7, <1>12, RanAt
  <2>2. S1Down(v, call[v]) = None
      BY <1>11 DEF S1Down
  <2>3. S1Up(v, next[v]) = S1Up(v, call[v])
      BY <1>8, <1>11 DEF S1Up
  <2>4. s1[v] \in Link
      BY <1>12 DEF TypeOK, KbyBaseTypeOK
  <2>5. s1[v] = [state |-> s1[v].state, srv |-> s1[v].srv, up |-> s1[v].up, down |-> None]
      BY <2>1, <2>2, <2>4 DEF Link
  <2>6. s1'[v] = [s1[v] EXCEPT !.state = "open", !.srv = g[v]]
      BY <1>1, <1>3, <1>12 DEF AcceptAll, TypeOK, KbyBaseTypeOK
  <2>7. PICK m : m = s1[v].up
      OBVIOUS
  <2>8. [s1[v] EXCEPT !.state = "open"] = [state |-> "open", srv |-> s1[v].srv, up |-> m, down |-> None]
      BY <2>5, <2>7
  <2>9. [[state |-> "open", srv |-> s1[v].srv, up |-> m, down |-> None] EXCEPT !.srv = g[v]]
        = [state |-> "open", srv |-> g[v], up |-> m, down |-> None]
      OBVIOUS
  <2> QED
      BY <2>1, <2>3, <2>6, <2>7, <2>8, <2>9
<1>17. TypeOK'
  <2>1. ASSUME NEW v \in W PROVE s1'[v] \in Link
    <3>1. S1Up(v, next[v]) \in Message \cup {None}
        BY <1>8, <1>12, Names, CallMessages
    <3>2. PICK m \in Message \cup {None} : m = S1Up(v, next[v])
        BY <3>1
    <3>3. s1'[v] = [state |-> "open", srv |-> g[v], up |-> m, down |-> None]
        BY <1>16, <3>2
    <3>4. g[v] \in Fd
        BY <1>5
    <3> QED
        BY <3>3, <3>4 DEF Link
  <2>2. s1' \in [UE -> Link]
    <3>1. DOMAIN s1 = UE /\ s1 \in [UE -> Link]
        BY DEF TypeOK, KbyBaseTypeOK
    <3>2. s1' = [v \in UE |-> s1'[v]]
        BY <1>1, <3>1 DEF AcceptAll
    <3> QED
        BY <1>12, <1>15, <2>1, <3>1, <3>2
  <2>3. mme_fdmap' = [f \in Fd |-> mme_fdmap'[f]]
      BY <1>1 DEF InsertAll
  <2>4. mme_fdmap' \in [Fd -> MmeData \cup {None}]
      BY <1>13, <1>14, <2>3 DEF TypeOK, KbyMmeTypeOK
  <2>5. mme_armed' \subseteq Fd
      BY <1>1, <1>4, <1>5 DEF TypeOK, KbyMmeTypeOK
  <2>6. KbyMmeTypeOK'
      BY <1>2, <2>4, <2>5 DEF TypeOK, KbyMmeTypeOK
  <2>7. s6a' \in [Fd -> Link] /\ s11' \in [Fd -> Link]
      BY <1>2 DEF TypeOK, KbyBaseTypeOK
  <2> QED
      BY <1>2, <2>2, <2>6, <2>7, MmeTypes
<1>18. ue_count \in Nat
    BY Names DEF TypeOK, KbyMmeTypeOK
<1>19. ASSUME NEW v \in UE \ W PROVE CallOK(v, next[v])'
  <2>1. PICK e \in Call : e = call[v] /\ CallOK(v, e)
      BY <1>7
  <2>2. /\ e.ran # 0 => mme_fdmap'[e.ran] = mme_fdmap[e.ran]
        /\ e.out # 0 => mme_fdmap'[e.out] = mme_fdmap[e.out]
    <3>1. e.ran \notin Range(g) /\ e.out \notin Range(g)
        BY <1>4, <1>5, <2>1
    <3>2. e.ran \in {0} \cup Fd /\ e.out \in {0} \cup Fd
        BY DEF Call
    <3> QED
        BY <1>13, <3>1, <3>2
  <2>3. s1'[v] = s1[v]
      BY <1>15
  <2>4. UNCHANGED <<ran_pc, ran_ctx, rounds, s6a, s11, s5, ue_count, s1mme_id, mme_ctx>>
      BY <1>2 DEF ranVars
  <2>5. UNCHANGED <<sgw_fdmap, s11_id, s1_id, s5_id, sgw_ctx, pgw_fdmap, pgw_s5_id, sgi_id, pgw_ctx>>
      BY <1>2 DEF sgwVars, pgwVars
  <2>6. ue_count' >= ue_count /\ ue_count' \in Nat
      BY <1>18, <2>4
  <2>7. CallOK(v, e)'
      BY <1>18, <2>1, <2>2, <2>3, <2>4, <2>5, <2>6, CallStays
  <2> QED
      BY <1>9, <2>1, <2>7
<1>20. ASSUME NEW v \in W PROVE CallOK(v, next[v])'
  <2>1. PICK c \in Call : c = call[v] /\ CallOK(v, c) /\ v \in UE
      BY <1>7, <1>12
  <2>2. PICK d \in Call : d = next[v]
      BY <1>8
  <2>3. /\ d.at = 2 /\ d.ran = g[v] /\ d.out = 0 /\ d.mme = 0 /\ d.pgw = 0 /\ d.sgw = 0 /\ d.id = 0
        /\ c.at = 1 /\ c.ran = 0 /\ c.out = 0 /\ c.mme = 0 /\ c.pgw = 0 /\ c.sgw = 0 /\ c.id = 0
      BY <1>8, <1>11, <2>1, <2>2
  <2>4. FdsOK(d)
      BY <1>5, <2>3 DEF FdsOK
  <2>5. RanOK(v, d)'
    <3>1. s1'[v] = [state |-> "open", srv |-> d.ran, up |-> S1Up(v, d), down |-> None]
        BY <1>16, <2>2, <2>3
    <3>2. S1State(d.at) = "open" /\ Pc(d.at) = Pc(c.at)
      <4>1. S1State(d.at) = "open"
          BY <2>3 DEF S1State
      <4>2. Pc(d.at) = Pc(c.at)
          BY <2>3 DEF Pc
      <4> QED
          BY <4>1, <4>2
    <3>3. S1Down(v, d) = None
        BY <2>3 DEF S1Down
    <3>4. UNCHANGED <<ran_pc, ran_ctx, rounds>>
        BY <1>2 DEF ranVars
    <3> QED
        BY <2>1, <2>3, <3>1, <3>2, <3>3, <3>4 DEF CallOK, RanOK
  <2>6. MmeOK(v, d)'
    <3>1. mme_fdmap'[d.ran] = FromRan(0)
        BY <1>4, <1>5, <1>13, <2>3
    <3>2. RanEntry(d) = FromRan(0)
        BY <2>3 DEF RanEntry
    <3>3. MmeFdsOK(v, d)'
        BY <2>3, <3>1, <3>2 DEF MmeFdsOK
    <3>4. mme_ctx'[v] = mme_ctx[v] /\ ue_count' = ue_count /\ s1mme_id' = s1mme_id
        BY <1>2
    <3>5. MmeCtxOK(v, d)'
        BY <2>1, <2>3, <3>4 DEF CallOK, MmeOK, MmeCtxOK
    <3> QED
        BY <2>1, <2>3, <3>3, <3>4, <3>5 DEF CallOK, MmeOK
  <2>7. SgwOK(v, d)'
      BY <1>2, <2>1, <2>3 DEF CallOK, SgwOK, sgwVars
  <2>8. PgwOK(v, d)'
      BY <1>2, <2>1, <2>3 DEF CallOK, PgwOK, pgwVars
  <2> QED
      BY <2>2, <2>4, <2>5, <2>6, <2>7, <2>8 DEF CallOK
<1>21. Apart(next)
  <2>1. Apart(call)
      BY DEF Calls
  <2>2. \A v \in UE : /\ next[v].out = call[v].out /\ next[v].mme = call[v].mme
                      /\ next[v].pgw = call[v].pgw /\ next[v].sgw = call[v].sgw
      BY <1>8, <1>9
  <2>3. \A v \in UE : next[v].ran = IF v \in W THEN g[v] ELSE call[v].ran
      BY <1>8, <1>9
  <2>4. \A v, w \in UE : next[v].ran # 0 => next[v].ran # next[w].out
      BY <1>5, <2>1, <2>2, <2>3 DEF Apart
  <2>5. \A v, w \in UE : v # w /\ next[v].ran # 0 => next[v].ran # next[w].ran
      BY <1>4, <1>5, <2>1, <2>3 DEF Apart
  <2> QED
      BY <2>1, <2>2, <2>4, <2>5 DEF Apart
<1>22. NoStrays(next)'
  <2>1. NoStrays(call)
      BY DEF Calls
  <2>2. \A v \in UE : /\ next[v].out = call[v].out /\ next[v].mme = call[v].mme
                      /\ next[v].pgw = call[v].pgw /\ next[v].sgw = call[v].sgw
      BY <1>8, <1>9
  <2>3. ASSUME NEW f \in Fd, mme_fdmap'[f] # None
        PROVE  \E v \in UE : f \in {next[v].ran, next[v].out}
    <3>1. CASE f \in Range(g)
      <4>1. PICK v \in W : f = g[v]
          BY <1>4, <3>1
      <4> QED
          BY <1>8, <1>12, <4>1
    <3>2. CASE f \notin Range(g)
      <4>1. mme_fdmap[f] # None /\ f # 0
          BY <1>13, <2>3, <3>2, Names
      <4>2. PICK v \in UE : f \in {call[v].ran, call[v].out}
          BY <2>1, <4>1 DEF NoStrays
      <4>3. v \notin W
          BY <1>11, <4>1, <4>2
      <4> QED
          BY <1>9, <4>2, <4>3
    <3> QED
        BY <3>1, <3>2
  <2>4. UNCHANGED <<s6a, s11, s5, sgw_fdmap, pgw_fdmap>>
      BY <1>2 DEF sgwVars, pgwVars
  <2> QED
      BY <2>1, <2>2, <2>3, <2>4 DEF NoStrays
<1>23. Armed'
  <2>1. mme_armed' = {f \in Fd : mme_fdmap'[f] # None}
    <3>1. mme_armed = {f \in Fd : mme_fdmap[f] # None}
        BY DEF Calls, Armed
    <3>2. Range(g) \subseteq Fd
        BY <1>4, <1>5
    <3> QED
        BY <1>1, <1>13, <1>14, <3>1, <3>2
  <2> QED
      BY <1>2, <2>1 DEF Calls, Armed, sgwVars, pgwVars
<1>24. ue_count' = Cardinality(Numbered(next)')
  <2>1. \A v \in UE : next[v].at \in 1 .. 2 <=> call[v].at \in 1 .. 2
      BY <1>8, <1>9, <1>11
  <2>2. \A a \in Attaches : a[1] \in UE
      BY DEF Attaches
  <2>3. Numbered(next)' = Numbered(call)
      BY <1>2, <2>1, <2>2 DEF Numbered, ranVars
  <2> QED
      BY <1>2, <2>3 DEF Calls
<1>25. exited' = {}
    BY <1>2 DEF Calls
<1>26. \A v \in UE : CallOK(v, next[v])'
    BY <1>19, <1>20
<1>27. Calls(next)'
    BY <1>21, <1>22, <1>23, <1>24, <1>25, <1>26 DEF Calls
<1> QED
    BY <1>10, <1>17, <1>27
=============================================================================
