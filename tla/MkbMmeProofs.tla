----------------------------- MODULE MkbMmeProofs ------------------------------
(***************************************************************************)
(* Steps of the terminals, of the HSS and of the MME's cores keep CallInv, *)
(* for any terminals, rounds, cores and rounds that are cut off.           *)
(*                                                                         *)
(* First what each of the operations on a connection does, then what a     *)
(* step owes the calls and terminals that it does not concern, and then    *)
(* the events one by one: in which step the call is, in which it is after, *)
(* and what the tables hold.                                               *)
(***************************************************************************)
EXTENDS MkbInvariants, FiniteSetTheorems, TLAPS

-----------------------------------------------------------------------------
(* Constants.                                                              *)

\* Subscribers are positive numbers, and None is nothing else.
LEMMA Constants ==
    /\ UE \subseteq Nat /\ 0 \notin UE
    /\ None \notin Message /\ None \notin MmeCore /\ None \notin SgwCore /\ None \notin PgwCore
    /\ None \notin MmeData /\ None \notin MmeContext /\ None \notin Removal
    /\ None \notin SgwData /\ None \notin SgwContext /\ None \notin SgwJob
    /\ None \notin PgwContext /\ None \notin PgwJob
BY MkbUEAssumption, MkbCoreAssumption, MkbNoMessageAssumption, MkbMmeNoneAssumption,
   MkbSgwNoneAssumption, MkbPgwNoneAssumption

\* A call is a terminal and the number of one of its rounds,
LEMMA CallFacts ==
    ASSUME NEW c \in Call
    PROVE  c = <<c[1], c[2]>> /\ c[1] \in UE /\ c[2] \in 1 .. Rounds[c[1]]
BY DEF Call

LEMMA CallMade ==
    ASSUME NEW u \in UE, NEW n \in 1 .. Rounds[u]
    PROVE  <<u, n>> \in Call
BY DEF Call

\* and there are finitely many.
LEMMA CallFinite == IsFiniteSet(Call)
<1> DEFINE R(u) == {u} \X (1 .. Rounds[u])
<1>1. \A u \in UE : IsFiniteSet(R(u))
  <2> TAKE u \in UE
  <2>1. IsFiniteSet({u})
      BY FS_Singleton
  <2>2. 1 \in Int /\ Rounds[u] \in Int
      BY MkbRoundAssumption
  <2>3. IsFiniteSet(1 .. Rounds[u])
      BY <2>2, FS_Interval
  <2> QED
      BY <2>1, <2>3, FS_Product
<1>2. IsFiniteSet({R(u) : u \in UE})
  <2> DEFINE f == [u \in UE |-> R(u)]
  <2>1. f \in Surjection(UE, {R(u) : u \in UE})
      BY DEF Surjection
  <2> QED
      BY <2>1, MkbUEAssumption, FS_Surjection
<1> QED
    BY <1>1, <1>2, FS_UNION DEF Call

LEMMA IdFacts == UeId = 1 .. Cardinality(Call) /\ Cardinality(Call) \in Nat
BY CallFinite, FS_CardinalityType DEF UeId

\* Messages.
LEMMA Messages ==
    ASSUME NEW type \in 1 .. 5, NEW id \in {0} \cup UeId, NEW imsi \in Teid, NEW teid \in Teid,
           NEW ip \in Teid
    PROVE  [Msg(type) EXCEPT !.id = id, !.imsi = imsi, !.teid = teid, !.ip = ip] \in Message
BY DEF Msg, Message

LEMMA TeidFacts == 0 \in Teid /\ UE \subseteq Teid
BY DEF Teid

-----------------------------------------------------------------------------
(* Connections.                                                            *)

Links == [Interface -> [Call -> Link]]

\* Connections r are connections l but for that of c on i, which is q.
Put(l, r, i, c, q) ==
    /\ r \in Links
    /\ r[i][c] = q
    /\ \A j \in Interface, d \in Call : j # i \/ d # c => r[j][d] = l[j][d]

LEMMA PutFacts ==
    ASSUME NEW l \in Links, NEW i \in Interface, NEW c \in Call, NEW q \in Link
    PROVE  Put(l, [l EXCEPT ![i][c] = q], i, c, q)
BY DEF Put, Links

LEMMA SendUpPuts ==
    ASSUME NEW l \in Links, NEW i \in Interface, NEW c \in Call, NEW m \in Message \cup {None}
    PROVE  Put(l, SendUp(l, i, c, m), i, c, [l[i][c] EXCEPT !.up = m])
<1>1. l[i][c] \in Link
    BY DEF Links
<1>2. PICK q : q = [l[i][c] EXCEPT !.up = m]
    OBVIOUS
<1>3. q \in Link
    BY <1>1, <1>2 DEF Link
<1>4. SendUp(l, i, c, m) = [l EXCEPT ![i][c] = q]
    BY <1>2 DEF Links, SendUp
<1>5. Put(l, [l EXCEPT ![i][c] = q], i, c, q)
    BY <1>3, PutFacts
<1> QED
    BY <1>2, <1>4, <1>5

LEMMA ReadUpPuts ==
    ASSUME NEW l \in Links, NEW i \in Interface, NEW c \in Call
    PROVE  Put(l, ReadUp(l, i, c), i, c, [l[i][c] EXCEPT !.up = None])
BY SendUpPuts DEF SendUp, ReadUp

LEMMA SendDownPuts ==
    ASSUME NEW l \in Links, NEW i \in Interface, NEW c \in Call, NEW m \in Message \cup {None}
    PROVE  Put(l, SendDown(l, i, c, m), i, c, [l[i][c] EXCEPT !.down = m])
<1>1. l[i][c] \in Link
    BY DEF Links
<1>2. PICK q : q = [l[i][c] EXCEPT !.down = m]
    OBVIOUS
<1>3. q \in Link
    BY <1>1, <1>2 DEF Link
<1>4. SendDown(l, i, c, m) = [l EXCEPT ![i][c] = q]
    BY <1>2 DEF Links, SendDown
<1>5. Put(l, [l EXCEPT ![i][c] = q], i, c, q)
    BY <1>3, PutFacts
<1> QED
    BY <1>2, <1>4, <1>5

LEMMA ReadDownPuts ==
    ASSUME NEW l \in Links, NEW i \in Interface, NEW c \in Call
    PROVE  Put(l, ReadDown(l, i, c), i, c, [l[i][c] EXCEPT !.down = None])
BY SendDownPuts DEF SendDown, ReadDown

LEMMA NoLinkType == NoLink \in Link /\ [NoLink EXCEPT !.state = "syn"] \in Link
BY DEF NoLink, Link

LEMMA ConnectPuts ==
    ASSUME NEW l \in Links, NEW i \in Interface, NEW c \in Call
    PROVE  Put(l, Connect(l, i, c), i, c, [NoLink EXCEPT !.state = "syn"])
BY PutFacts, NoLinkType DEF Connect

Core == MmeCore \cup SgwCore \cup PgwCore \cup {None}

LEMMA AcceptPuts ==
    ASSUME NEW l \in Links, NEW i \in Interface, NEW c \in Call, NEW k \in Core
    PROVE  Put(l, Accept(l, i, c, k), i, c, [l[i][c] EXCEPT !.state = "open", !.core = k])
<1>1. l[i][c] \in Link
    BY DEF Links
<1>2. PICK q : q = [l[i][c] EXCEPT !.state = "open", !.core = k]
    OBVIOUS
<1>3. q \in Link
    BY <1>1, <1>2, NoLinkType DEF Link, Core
<1>4. Accept(l, i, c, k) = [l EXCEPT ![i][c] = q]
    BY <1>2 DEF Links, Accept
<1>5. Put(l, [l EXCEPT ![i][c] = q], i, c, q)
    BY <1>3, PutFacts
<1> QED
    BY <1>2, <1>4, <1>5

LEMMA ClientClosePuts ==
    ASSUME NEW l \in Links, NEW i \in Interface, NEW c \in Call
    PROVE  Put(l, ClientClose(l, i, c), i, c,
               IF l[i][c].state \in {"none", "shut"} THEN NoLink ELSE [l[i][c] EXCEPT !.gone = TRUE])
<1>1. l[i][c] \in Link
    BY DEF Links
<1>2. PICK q : q = IF l[i][c].state \in {"none", "shut"} THEN NoLink ELSE [l[i][c] EXCEPT !.gone = TRUE]
    OBVIOUS
<1>3. q \in Link
    BY <1>1, <1>2, NoLinkType DEF Link
<1>4. ClientClose(l, i, c) = [l EXCEPT ![i][c] = q]
    BY <1>2 DEF Links, ClientClose
<1>5. Put(l, [l EXCEPT ![i][c] = q], i, c, q)
    BY <1>3, PutFacts
<1> QED
    BY <1>2, <1>4, <1>5

LEMMA ServerClosePuts ==
    ASSUME NEW l \in Links, NEW i \in Interface, NEW c \in Call
    PROVE  Put(l, ServerClose(l, i, c), i, c,
               IF l[i][c].gone THEN NoLink ELSE [l[i][c] EXCEPT !.state = "shut", !.core = None])
<1>1. l[i][c] \in Link
    BY DEF Links
<1>2. PICK q : q = IF l[i][c].gone THEN NoLink ELSE [l[i][c] EXCEPT !.state = "shut", !.core = None]
    OBVIOUS
<1>3. q \in Link
    BY <1>1, <1>2, NoLinkType DEF Link
<1>4. ServerClose(l, i, c) = [l EXCEPT ![i][c] = q]
    BY <1>2 DEF Links, ServerClose
<1>5. Put(l, [l EXCEPT ![i][c] = q], i, c, q)
    BY <1>3, PutFacts
<1> QED
    BY <1>2, <1>4, <1>5

-----------------------------------------------------------------------------
(* Calls.                                                                  *)

\* The types of what the steps look at.
LEMMA Types ==
    ASSUME TypeOK
    PROVE  /\ link \in Links
           /\ \A u \in UE : rounds[u] \in 0 .. Rounds[u]
           /\ ue_count \in {0} \cup UeId
<1>1. link \in Links /\ ue_count \in {0} \cup UeId
    BY DEF TypeOK, MkbBaseTypeOK, MkbMmeTypeOK, Links
<1>2. \A u \in UE : rounds[u] \in Nat /\ rounds[u] <= Rounds[u] /\ Rounds[u] \in Nat
    BY MkbRoundAssumption DEF TypeOK, MkbRanTypeOK
<1> QED
    BY <1>1, <1>2

LEMMA StateFacts ==
    ASSUME NEW x \in CallState
    PROVE  x.at \in 0 .. 44 /\ x.id \in {0} \cup UeId /\ x.id \in Nat
<1>1. x.at \in 0 .. 44 /\ x.id \in {0} \cup UeId
    BY DEF CallState
<1> QED
    BY <1>1, IdFacts

\* A call under way is its terminal's last, and the tables are as it says.
LEMMA CallNow ==
    ASSUME TypeOK, NEW call \in [Call -> CallState], Calls(call), NEW c \in Call,
           call[c].at \in 1 .. 37
    PROVE  /\ rounds[c[1]] # 0 /\ c = Current(c[1]) /\ Last(call, c[1]) = call[c]
           /\ UserOK(c[1], call[c])
<1>1. PlaceOK(c, call[c])
    BY DEF Calls, CallOK
<1>2. c = <<c[1], c[2]>> /\ c[1] \in UE /\ c[2] \in 1 .. Rounds[c[1]]
    BY CallFacts
<1>3. rounds[c[1]] \in 0 .. Rounds[c[1]] /\ Rounds[c[1]] \in Nat
    BY <1>2, Types, MkbRoundAssumption
<1>4. c[2] = rounds[c[1]]
    BY <1>1, <1>2, <1>3 DEF PlaceOK
<1>5. rounds[c[1]] # 0 /\ c = Current(c[1])
    BY <1>2, <1>3, <1>4 DEF Current
<1>6. Last(call, c[1]) = call[c]
    BY <1>5 DEF Last
<1> QED
    BY <1>2, <1>5, <1>6 DEF Calls

\* A terminal that is not idle is in its last call.
LEMMA RanNow ==
    ASSUME TypeOK, NEW call \in [Call -> CallState], Calls(call), NEW u \in UE,
           ran_pc[u] # "idle"
    PROVE  /\ rounds[u] # 0 /\ Current(u) \in Call /\ Current(u)[1] = u
           /\ Last(call, u) = call[Current(u)] /\ call[Current(u)].at \in 1 .. 37
           /\ ran_pc[u] = Pc(call[Current(u)].at)
<1>1. UserOK(u, Last(call, u))
    BY DEF Calls
<1>2. ran_pc[u] = Pc(Last(call, u).at)
    BY <1>1 DEF UserOK, RanOK
<1>3. Last(call, u).at \in 1 .. 37
    BY <1>2 DEF Pc
<1>4. rounds[u] # 0
    BY <1>3 DEF Last, NoCall
<1>5. rounds[u] \in 1 .. Rounds[u]
    BY <1>4, Types
<1>6. Current(u) \in Call /\ Current(u)[1] = u
    BY <1>5, CallMade DEF Current
<1>7. Last(call, u) = call[Current(u)]
    BY <1>4 DEF Last
<1> QED
    BY <1>2, <1>3, <1>4, <1>6, <1>7

-----------------------------------------------------------------------------
(* What a step of call c leaves alone.                                     *)

OthersKept(c) ==
    \A d \in Call \ {c} :
        /\ \A i \in Interface : link'[i][d] = link[i][d]
        /\ mme_fd'[d] = mme_fd[d] /\ sgw_fd'[d] = sgw_fd[d]
        /\ d \in pgw_fd' <=> d \in pgw_fd
        /\ d \in hung' <=> d \in hung
        /\ d \in mme_srcaddr' <=> d \in mme_srcaddr

SgwKept(v) ==
    sgw_ctx'[v] = sgw_ctx[v] /\ \A t \in {"s11", "s1", "s5"} : sgw_id'[t][v] = sgw_id[t][v]

PgwKept(v) == pgw_s5_id'[v] = pgw_s5_id[v] /\ sgi_id'[v] = sgi_id[v] /\ pgw_ctx'[v] = pgw_ctx[v]

UserKept(v) ==
    /\ ran_pc'[v] = ran_pc[v] /\ ran_ctx'[v] = ran_ctx[v] /\ mme_ctx'[v] = mme_ctx[v]
    /\ SgwKept(v) /\ PgwKept(v)

Frame(c) == OthersKept(c) /\ \A v \in UE \ {c[1]} : UserKept(v)

LEMMA OtherCalls ==
    ASSUME NEW c \in Call, OthersKept(c),
           NEW d \in Call, d # c, NEW x \in CallState, CallOK(d, x), PlaceOK(d, x)',
           WorkOK(d, x)'
    PROVE  CallOK(d, x)'
<1>1. /\ link'["s1"][d] = link["s1"][d] /\ link'["s6a"][d] = link["s6a"][d]
      /\ link'["s11"][d] = link["s11"][d] /\ link'["s5"][d] = link["s5"][d]
      /\ mme_fd'[d] = mme_fd[d] /\ sgw_fd'[d] = sgw_fd[d]
    BY DEF OthersKept, Interface
<1>2. d \in pgw_fd' <=> d \in pgw_fd
    BY DEF OthersKept
<1>3. LinksOK(d, x)'
    BY <1>1 DEF CallOK, LinksOK
<1>4. FdsOK(d, x)'
    BY <1>1, <1>2 DEF CallOK, FdsOK
<1> QED
    BY <1>3, <1>4 DEF CallOK

LEMMA SgwStays ==
    ASSUME NEW u \in UE, NEW x \in CallState, SgwOK(u, x), SgwKept(u)
    PROVE  SgwOK(u, x)'
BY DEF SgwOK, SgwKept, SgwEntryOf

LEMMA PgwStays ==
    ASSUME NEW u \in UE, NEW x \in CallState, PgwOK(u, x), PgwKept(u), sgw_ctx'[u] = sgw_ctx[u]
    PROVE  PgwOK(u, x)'
BY DEF PgwOK, PgwKept, PgwEntryOf

LEMMA OtherUsers ==
    ASSUME NEW c \in Call, Frame(c), NEW v \in UE, rounds'[v] = rounds[v],
           v # c[1], NEW x \in CallState, UserOK(v, x), MmeOK(v, x)'
    PROVE  UserOK(v, x)'
<1>1. UserKept(v)
    BY DEF Frame
<1>2. rounds'[v] <= Rounds[v] /\ RanOK(v, x)'
    BY <1>1 DEF UserOK, RanOK, UserKept
<1>3. SgwOK(v, x)'
    BY <1>1, SgwStays DEF UserOK, UserKept
<1>4. PgwOK(v, x)'
    BY <1>1, PgwStays DEF UserOK, UserKept, SgwKept
<1> QED
    BY <1>2, <1>3, <1>4 DEF UserOK

\* The call c gets to y, and no other call moves.
Moved(call, next, c, y) ==
    /\ next \in [Call -> CallState]
    /\ next[c] = y
    /\ \A d \in Call \ {c} : next[d] = call[d]

LEMMA MovedFacts ==
    ASSUME NEW call \in [Call -> CallState], NEW c \in Call, NEW y \in CallState
    PROVE  \E next : Moved(call, next, c, y)
<1>1. Moved(call, [call EXCEPT ![c] = y], c, y)
    BY DEF Moved
<1> QED
    BY <1>1

\* What other calls have cores do stays when no core takes up or drops anything,
LEMMA JobsStay ==
    ASSUME TypeOK, NEW call \in [Call -> CallState], Calls(call), NEW next, NEW c \in Call,
           NEW y \in CallState, Moved(call, next, c, y), OthersKept(c),
           UNCHANGED <<sgw_job, pgw_job>>,
           call[c].at \notin SgwWorks \cup PgwWorks
    PROVE  JobsOK(next)' /\ \A d \in Call \ {c} : WorkOK(d, call[d])'
<1>1. ASSUME NEW k \in SgwCore, sgw_job[k] # None
      PROVE  LET d == sgw_job[k].call
             IN  next[d].at \in SgwWorks /\ link'["s11"][d].core = k
  <2> DEFINE d == sgw_job[k].call
  <2>1. sgw_job[k] \in SgwJob
    BY <1>1 DEF TypeOK, MkbSgwTypeOK
  <2>2. d \in Call
    BY <2>1 DEF SgwJob
  <2>3. call[d].at \in SgwWorks /\ link["s11"][d].core = k
    BY <1>1 DEF Calls, JobsOK
  <2>4. d # c
    BY <2>3
  <2> QED
    BY <2>2, <2>3, <2>4 DEF Moved, OthersKept, Interface
<1>2. ASSUME NEW k \in PgwCore, pgw_job[k] # None
      PROVE  LET d == pgw_job[k].call
             IN  next[d].at \in PgwWorks /\ link'["s5"][d].core = k
  <2> DEFINE d == pgw_job[k].call
  <2>1. pgw_job[k] \in PgwJob
    BY <1>2 DEF TypeOK, MkbPgwTypeOK
  <2>2. d \in Call
    BY <2>1 DEF PgwJob
  <2>3. call[d].at \in PgwWorks /\ link["s5"][d].core = k
    BY <1>2 DEF Calls, JobsOK
  <2>4. d # c
    BY <2>3
  <2> QED
    BY <2>2, <2>3, <2>4 DEF Moved, OthersKept, Interface
<1>3. JobsOK(next)'
    BY <1>1, <1>2 DEF JobsOK
<1>4. ASSUME NEW d \in Call \ {c} PROVE WorkOK(d, call[d])'
  <2>1. WorkOK(d, call[d])
    BY DEF Calls, CallOK
  <2>2. link'["s11"][d] = link["s11"][d] /\ link'["s5"][d] = link["s5"][d]
    BY DEF OthersKept, Interface
  <2> QED
    BY <2>1, <2>2 DEF WorkOK
<1> QED
    BY <1>3, <1>4

\* and when the core of the SGW that has the call does,
LEMMA SgwJobMoves ==
    ASSUME TypeOK, NEW call \in [Call -> CallState], Calls(call), NEW next, NEW c \in Call,
           NEW y \in CallState, Moved(call, next, c, y), OthersKept(c),
           NEW k \in SgwCore, NEW j, sgw_job' = [sgw_job EXCEPT ![k] = j], pgw_job' = pgw_job,
           link["s11"][c].core = k, sgw_job[k] = None \/ sgw_job[k].call = c,
           j = None \/ (j.call = c /\ y.at \in SgwWorks /\ link'["s11"][c].core = k),
           call[c].at \notin PgwWorks
    PROVE  JobsOK(next)' /\ \A d \in Call \ {c} : WorkOK(d, call[d])'
<1>0. sgw_job \in [SgwCore -> SgwJob \cup {None}]
    BY DEF TypeOK, MkbSgwTypeOK
<1>1. ASSUME NEW l \in SgwCore, sgw_job'[l] # None
      PROVE  LET d == sgw_job'[l].call
             IN  next[d].at \in SgwWorks /\ link'["s11"][d].core = l
  <2>1. CASE l = k
    <3>1. sgw_job'[l] = j
      BY <1>0, <2>1
    <3> QED
      BY <1>1, <2>1, <3>1 DEF Moved
  <2>2. CASE l # k
    <3> DEFINE d == sgw_job[l].call
    <3>1. sgw_job'[l] = sgw_job[l]
      BY <1>0, <2>2
    <3>2. d \in Call
      BY <1>0, <1>1, <3>1 DEF SgwJob
    <3>3. call[d].at \in SgwWorks /\ link["s11"][d].core = l
      BY <1>1, <3>1 DEF Calls, JobsOK
    <3>4. d # c
      BY <2>2, <3>3
    <3> QED
      BY <3>1, <3>2, <3>3, <3>4 DEF Moved, OthersKept, Interface
  <2> QED
    BY <2>1, <2>2
<1>2. ASSUME NEW l \in PgwCore, pgw_job[l] # None
      PROVE  LET d == pgw_job[l].call
             IN  next[d].at \in PgwWorks /\ link'["s5"][d].core = l
  <2> DEFINE d == pgw_job[l].call
  <2>1. pgw_job[l] \in PgwJob
    BY <1>2 DEF TypeOK, MkbPgwTypeOK
  <2>2. d \in Call
    BY <2>1 DEF PgwJob
  <2>3. call[d].at \in PgwWorks /\ link["s5"][d].core = l
    BY <1>2 DEF Calls, JobsOK
  <2>4. d # c
    BY <2>3
  <2> QED
    BY <2>2, <2>3, <2>4 DEF Moved, OthersKept, Interface
<1>3. JobsOK(next)'
    BY <1>1, <1>2 DEF JobsOK
<1>4. ASSUME NEW d \in Call \ {c} PROVE WorkOK(d, call[d])'
  <2>1. WorkOK(d, call[d])
    BY DEF Calls, CallOK
  <2>2. link'["s11"][d] = link["s11"][d] /\ link'["s5"][d] = link["s5"][d]
    BY DEF OthersKept, Interface
  <2>3. ASSUME call[d].at \in SgwWorks
        PROVE  sgw_job'[link["s11"][d].core] = SgwJobOf(d, call[d].at)
    <3>1. sgw_job[link["s11"][d].core] = SgwJobOf(d, call[d].at)
      BY <2>1, <2>3 DEF WorkOK
    <3>2. S11OK(d[1], link["s11"][d], call[d])
      BY DEF Calls, CallOK, LinksOK
    <3>3. link["s11"][d].state = "open"
      BY <2>3, <3>2 DEF S11OK, S11State, SgwWorks
    <3>4. link["s11"][d].core \in SgwCore
      BY <3>2, <3>3 DEF S11OK
    <3>5. SgwJobOf(d, call[d].at) # None /\ SgwJobOf(d, call[d].at).call = d
      <4>1. sgw_job[link["s11"][d].core] \in SgwJob \cup {None}
        BY <1>0, <3>4
      <4>2. SgwJobOf(d, call[d].at).call = d
        BY DEF SgwJobOf
      <4>3. SgwJobOf(d, call[d].at) # None
        <5>1. d[1] \in UE
          BY CallFacts
        <5>2. SgwJobOf(d, call[d].at) \in SgwJob
          BY <2>3, <5>1, TeidFacts DEF SgwJobOf, SgwJob, SgwWorks
        <5> QED
          BY <5>2, Constants
      <4> QED
        BY <4>2, <4>3
    <3>6. link["s11"][d].core # k
      BY <3>1, <3>5
    <3> QED
      BY <1>0, <3>1, <3>4, <3>6
  <2> QED
    BY <2>1, <2>2, <2>3 DEF WorkOK
<1> QED
    BY <1>3, <1>4

\* or that of the PGW.
LEMMA PgwJobMoves ==
    ASSUME TypeOK, NEW call \in [Call -> CallState], Calls(call), NEW next, NEW c \in Call,
           NEW y \in CallState, Moved(call, next, c, y), OthersKept(c),
           NEW k \in PgwCore, NEW j, pgw_job' = [pgw_job EXCEPT ![k] = j], sgw_job' = sgw_job,
           link["s5"][c].core = k, pgw_job[k] = None \/ pgw_job[k].call = c,
           j = None \/ (j.call = c /\ y.at \in PgwWorks /\ link'["s5"][c].core = k),
           call[c].at \notin SgwWorks
    PROVE  JobsOK(next)' /\ \A d \in Call \ {c} : WorkOK(d, call[d])'
<1>0. pgw_job \in [PgwCore -> PgwJob \cup {None}]
    BY DEF TypeOK, MkbPgwTypeOK
<1>1. ASSUME NEW l \in PgwCore, pgw_job'[l] # None
      PROVE  LET d == pgw_job'[l].call
             IN  next[d].at \in PgwWorks /\ link'["s5"][d].core = l
  <2>1. CASE l = k
    <3>1. pgw_job'[l] = j
      BY <1>0, <2>1
    <3> QED
      BY <1>1, <2>1, <3>1 DEF Moved
  <2>2. CASE l # k
    <3> DEFINE d == pgw_job[l].call
    <3>1. pgw_job'[l] = pgw_job[l]
      BY <1>0, <2>2
    <3>2. d \in Call
      BY <1>0, <1>1, <3>1 DEF PgwJob
    <3>3. call[d].at \in PgwWorks /\ link["s5"][d].core = l
      BY <1>1, <3>1 DEF Calls, JobsOK
    <3>4. d # c
      BY <2>2, <3>3
    <3> QED
      BY <3>1, <3>2, <3>3, <3>4 DEF Moved, OthersKept, Interface
  <2> QED
    BY <2>1, <2>2
<1>2. ASSUME NEW l \in SgwCore, sgw_job[l] # None
      PROVE  LET d == sgw_job[l].call
             IN  next[d].at \in SgwWorks /\ link'["s11"][d].core = l
  <2> DEFINE d == sgw_job[l].call
  <2>1. sgw_job[l] \in SgwJob
    BY <1>2 DEF TypeOK, MkbSgwTypeOK
  <2>2. d \in Call
    BY <2>1 DEF SgwJob
  <2>3. call[d].at \in SgwWorks /\ link["s11"][d].core = l
    BY <1>2 DEF Calls, JobsOK
  <2>4. d # c
    BY <2>3
  <2> QED
    BY <2>2, <2>3, <2>4 DEF Moved, OthersKept, Interface
<1>3. JobsOK(next)'
    BY <1>1, <1>2 DEF JobsOK
<1>4. ASSUME NEW d \in Call \ {c} PROVE WorkOK(d, call[d])'
  <2>1. WorkOK(d, call[d])
    BY DEF Calls, CallOK
  <2>2. link'["s5"][d] = link["s5"][d] /\ link'["s11"][d] = link["s11"][d]
    BY DEF OthersKept, Interface
  <2>3. ASSUME call[d].at \in PgwWorks
        PROVE  pgw_job'[link["s5"][d].core] = PgwJobOf(d, call[d].at)
    <3>1. pgw_job[link["s5"][d].core] = PgwJobOf(d, call[d].at)
      BY <2>1, <2>3 DEF WorkOK
    <3>2. S5OK(d[1], link["s5"][d], call[d])
      BY DEF Calls, CallOK, LinksOK
    <3>3. link["s5"][d].state = "open"
      BY <2>3, <3>2 DEF S5OK, S5State, PgwWorks
    <3>4. link["s5"][d].core \in PgwCore
      BY <3>2, <3>3 DEF S5OK
    <3>5. PgwJobOf(d, call[d].at) # None /\ PgwJobOf(d, call[d].at).call = d
      <4>1. pgw_job[link["s5"][d].core] \in PgwJob \cup {None}
        BY <1>0, <3>4
      <4>2. PgwJobOf(d, call[d].at).call = d
        BY DEF PgwJobOf
      <4>3. PgwJobOf(d, call[d].at) # None
        <5>1. d[1] \in UE
          BY CallFacts
        <5>2. PgwJobOf(d, call[d].at) \in PgwJob
          BY <2>3, <5>1, TeidFacts DEF PgwJobOf, PgwJob, PgwWorks
        <5> QED
          BY <5>2, Constants
      <4> QED
        BY <4>2, <4>3
    <3>6. link["s5"][d].core # k
      BY <3>1, <3>5
    <3> QED
      BY <1>0, <3>1, <3>4, <3>6
  <2> QED
    BY <2>1, <2>2, <2>3 DEF WorkOK
<1> QED
    BY <1>3, <1>4

-----------------------------------------------------------------------------
(* Steps of calls.                                                         *)

\* What terminals other than that of c know of the MME stays when its numbers and
\* removals do.
LEMMA MmeStays ==
    ASSUME NEW v \in UE, NEW x \in CallState, MmeOK(v, x), mme_ctx'[v] = mme_ctx[v],
           UNCHANGED <<mme_removal, s1mme_id>>
    PROVE  MmeOK(v, x)'
BY DEF MmeOK, Pause

\* The state of a terminal's last call, which stays when another terminal's call moves.
LEMMA LastFacts ==
    ASSUME TypeOK, NEW call \in [Call -> CallState], NEW v \in UE
    PROVE  Last(call, v) \in CallState
<1>1. CASE rounds[v] = 0
    BY <1>1 DEF Last, NoCall, CallState
<1>2. CASE rounds[v] # 0
  <2>1. rounds[v] \in 1 .. Rounds[v]
    BY <1>2, Types
  <2> QED
    BY <1>2, <2>1, CallMade DEF Last, Current
<1> QED
    BY <1>1, <1>2

LEMMA LastOther ==
    ASSUME TypeOK, NEW call \in [Call -> CallState], NEW next, NEW c \in Call,
           NEW y \in CallState, Moved(call, next, c, y), NEW v \in UE, v # c[1],
           rounds'[v] = rounds[v]
    PROVE  (Last(next, v))' = Last(call, v)
<1>1. CASE rounds[v] = 0
    BY <1>1 DEF Last
<1>2. CASE rounds[v] # 0
  <2>1. rounds[v] \in 1 .. Rounds[v]
    BY <1>2, Types
  <2>2. Current(v) \in Call /\ Current(v)[1] = v /\ Current(v)' = Current(v)
    BY <2>1, CallMade DEF Current
  <2>3. Current(v) # c
    BY <2>2
  <2> QED
    BY <1>2, <2>2, <2>3 DEF Last, Moved
<1> QED
    BY <1>1, <1>2

\* When call c gets to y, and the MME knows of other terminals what it did, they are
\* as they were,
LEMMA OthersGo ==
    ASSUME TypeOK, NEW call \in [Call -> CallState], Calls(call), NEW next, NEW c \in Call,
           NEW y \in CallState, Moved(call, next, c, y), Frame(c), rounds' = rounds,
           \A v \in UE \ {c[1]}, x \in CallState : x = Last(call, v) /\ MmeOK(v, x) => MmeOK(v, x)',
           \A d \in Call \ {c} : WorkOK(d, call[d])'
    PROVE  /\ \A d \in Call \ {c} : CallOK(d, next[d])'
           /\ \A v \in UE \ {c[1]} : UserOK(v, Last(next, v))'
<1>1. ASSUME NEW d \in Call, d # c PROVE CallOK(d, next[d])'
  <2>1. CallOK(d, call[d]) /\ WorkOK(d, call[d])' /\ OthersKept(c) /\ call[d] \in CallState
    BY <1>1 DEF Calls, Frame
  <2>2. PlaceOK(d, call[d])'
    BY <1>1, <2>1 DEF OthersKept, CallOK, PlaceOK
  <2>3. CallOK(d, call[d])'
    BY <1>1, <2>1, <2>2, OtherCalls
  <2> QED
    BY <1>1, <2>3 DEF Moved
<1>2. ASSUME NEW v \in UE, v # c[1] PROVE UserOK(v, Last(next, v))'
  <2>1. PICK x : x = Last(call, v)
    OBVIOUS
  <2>2. UserOK(v, x) /\ x \in CallState /\ (Last(next, v))' = x
    BY <1>2, <2>1, LastFacts, LastOther DEF Calls
  <2>3. MmeOK(v, x)'
    BY <1>2, <2>1, <2>2 DEF UserOK
  <2>4. UserOK(v, x)'
    BY <1>2, <2>2, <2>3, OtherUsers
  <2> QED
    BY <2>2, <2>4
<1> QED
    BY <1>1, <1>2

\* in particular when neither numbers nor removals change.
LEMMA OthersStay ==
    ASSUME TypeOK, NEW call \in [Call -> CallState], Calls(call), NEW next, NEW c \in Call,
           NEW y \in CallState, Moved(call, next, c, y), Frame(c),
           UNCHANGED <<rounds, mme_removal, s1mme_id>>,
           \A d \in Call \ {c} : WorkOK(d, call[d])'
    PROVE  /\ \A d \in Call \ {c} : CallOK(d, next[d])'
           /\ \A v \in UE \ {c[1]} : UserOK(v, Last(next, v))'
<1>1. \A v \in UE \ {c[1]}, x \in CallState : x = Last(call, v) /\ MmeOK(v, x) => MmeOK(v, x)'
    BY MmeStays DEF Frame, UserKept
<1> QED
    BY <1>1, OthersGo

\* Numbers and removals stay in order as long as the call keeps its number.
LEMMA NumbersStay ==
    ASSUME TypeOK, NEW call \in [Call -> CallState], Calls(call), NEW next, NEW c \in Call,
           NEW y \in CallState, Moved(call, next, c, y), y.id = call[c].id,
           UNCHANGED <<rounds, mme_removal, s1mme_id, ue_count>>,
           call[c].at \in (3 .. 36) \cup Cut => y.at \in (3 .. 36) \cup Cut,
           call[c].at \in 37 .. 38 => y.at \in 37 .. 38
    PROVE  RemovalsOK(next)' /\ IdsOK(next)' /\ ue_count' = Cardinality(Numbered(next))
<1>1. \A d \in Call : next[d].id = call[d].id
    BY DEF Moved
<1>2. \A d \in Call : call[d].at \in (3 .. 36) \cup Cut => next[d].at \in (3 .. 36) \cup Cut
    BY DEF Moved
<1>3. \A d \in Call : call[d].at \in 37 .. 38 => next[d].at \in 37 .. 38
    BY DEF Moved
<1>4. Numbered(next) = Numbered(call)
    BY <1>1 DEF Numbered
<1>5. ue_count' = Cardinality(Numbered(next))
    BY <1>4 DEF Calls
<1>6. IdsOK(call)
    BY DEF Calls
<1>7. \A i : Leaving(i)' <=> Leaving(i)
    BY DEF Leaving
<1>8. IdsOK(next)'
  <2>1. (\A d \in Call : next[d].id <= ue_count') /\ \A d, e \in Call : next[d].id = next[e].id /\ next[d].id # 0 => d = e
    BY <1>1, <1>6 DEF IdsOK
  <2>2. ASSUME NEW i \in UeId, s1mme_id'[i] # 0
        PROVE  \E d \in Call : /\ next[d].id = i /\ d[1] = s1mme_id'[i]
                               /\ next[d].at \in (3 .. 36) \cup Cut \/ Leaving(i)'
    <3>1. PICK d \in Call : /\ call[d].id = i /\ d[1] = s1mme_id[i]
                            /\ call[d].at \in (3 .. 36) \cup Cut \/ Leaving(i)
      BY <1>6, <2>2 DEF IdsOK
    <3> QED
      BY <1>1, <1>2, <1>7, <3>1
  <2> QED
    BY <2>1, <2>2 DEF IdsOK
<1>9. RemovalsOK(next)'
  <2>1. ASSUME NEW u \in UE, Last(call, u).at \in 37 .. 38
        PROVE  (Last(next, u))'.at \in 37 .. 38 /\ (Last(next, u))'.id = Last(call, u).id
    <3>1. CASE rounds[u] = 0
      BY <2>1, <3>1 DEF Last, NoCall
    <3>2. CASE rounds[u] # 0
      <4>1. rounds[u] \in 1 .. Rounds[u]
        BY <3>2, Types
      <4>2. Current(u) \in Call /\ Current(u)' = Current(u)
        BY <4>1, CallMade DEF Current
      <4>3. Last(call, u) = call[Current(u)] /\ (Last(next, u))' = next[Current(u)]
        BY <3>2, <4>2 DEF Last
      <4> QED
        BY <1>1, <1>3, <2>1, <4>2, <4>3
    <3> QED
      BY <3>1, <3>2
  <2>2. RemovalsOK(call)
    BY DEF Calls
  <2>3. ASSUME NEW k \in MmeCore, mme_removal[k] # None
        PROVE  LET r == mme_removal[k]
               IN  /\ r.tables \in {{"s1mme_id", "ue_ctx"}, {"ue_ctx"}}
                   /\ (Last(next, r.guti))'.at \in 37 .. 38
                   /\ (Last(next, r.guti))'.id = r.id
                   /\ \A l \in MmeCore :
                         mme_removal[l] # None /\ mme_removal[l].guti = r.guti => l = k
    <3>1. mme_removal[k] \in Removal
      BY <2>3 DEF TypeOK, MkbMmeTypeOK
    <3>2. mme_removal[k].guti \in UE
      BY <3>1 DEF Removal
    <3>3. /\ mme_removal[k].tables \in {{"s1mme_id", "ue_ctx"}, {"ue_ctx"}}
          /\ Last(call, mme_removal[k].guti).at \in 37 .. 38
          /\ Last(call, mme_removal[k].guti).id = mme_removal[k].id
          /\ \A l \in MmeCore :
                mme_removal[l] # None /\ mme_removal[l].guti = mme_removal[k].guti => l = k
      BY <2>2, <2>3 DEF RemovalsOK
    <3> QED
      BY <2>1, <3>2, <3>3
  <2> QED
    BY <2>3 DEF RemovalsOK
<1> QED
    BY <1>5, <1>8, <1>9

\* A call under way goes on.
LEMMA Goes ==
    ASSUME TypeOK, TypeOK', NEW call \in [Call -> CallState], Calls(call), NEW next, NEW c \in Call,
           NEW y \in CallState, Moved(call, next, c, y), Frame(c), y.id = call[c].id,
           UNCHANGED <<rounds, mme_removal, s1mme_id, ue_count, exited>>,
           JobsOK(next)', \A d \in Call \ {c} : WorkOK(d, call[d])',
           call[c].at \in 1 .. 37,
           call[c].at \in 3 .. 36 => y.at \in (3 .. 36) \cup Cut,
           call[c].at = 37 => y.at = 38,
           CallOK(c, y)', UserOK(c[1], y)'
    PROVE  CallInv'
<1>1. rounds[c[1]] # 0 /\ c = Current(c[1])
    BY CallNow
<1>2. (Last(next, c[1]))' = y
    BY <1>1 DEF Last, Current, Moved
<1>3. call[c].at \in (3 .. 36) \cup Cut => y.at \in (3 .. 36) \cup Cut
    BY DEF Cut
<1>4. call[c].at \in 37 .. 38 => y.at \in 37 .. 38
    OBVIOUS
<1>5. RemovalsOK(next)' /\ IdsOK(next)' /\ ue_count' = Cardinality(Numbered(next))
    BY <1>3, <1>4, NumbersStay
<1>6. /\ \A d \in Call \ {c} : CallOK(d, next[d])'
      /\ \A v \in UE \ {c[1]} : UserOK(v, Last(next, v))'
    BY OthersStay
<1>7. \A d \in Call : CallOK(d, next[d])'
    BY <1>6 DEF Moved
<1>8. \A v \in UE : UserOK(v, Last(next, v))'
    BY <1>2, <1>6
<1>9. Calls(next)'
    BY <1>5, <1>7, <1>8 DEF Calls
<1> QED
    BY <1>9 DEF CallInv, Moved

\* No core takes up or drops anything.
LEMMA GoesQuietly ==
    ASSUME TypeOK, TypeOK', NEW call \in [Call -> CallState], Calls(call), NEW c \in Call,
           NEW y \in CallState, Frame(c), y.id = call[c].id,
           UNCHANGED <<rounds, mme_removal, s1mme_id, ue_count, exited, sgw_job, pgw_job>>,
           call[c].at \in 1 .. 37, call[c].at \notin SgwWorks \cup PgwWorks,
           call[c].at \in 3 .. 36 => y.at \in (3 .. 36) \cup Cut,
           call[c].at = 37 => y.at = 38,
           CallOK(c, y)', UserOK(c[1], y)'
    PROVE  CallInv'
<1>1. PICK next : Moved(call, next, c, y)
    BY MovedFacts
<1>2. OthersKept(c)
    BY DEF Frame
<1>3. JobsOK(next)' /\ \A d \in Call \ {c} : WorkOK(d, call[d])'
    BY <1>1, <1>2, JobsStay
<1> QED
    BY <1>1, <1>3, Goes

\* A node takes notice that a call was cut off; the tables stay.
LEMMA Trails ==
    ASSUME TypeOK, TypeOK', NEW call \in [Call -> CallState], Calls(call), NEW c \in Call,
           NEW y \in CallState, OthersKept(c), y.id = call[c].id,
           UNCHANGED <<ran_pc, ran_ctx, rounds, mme_removal, s1mme_id, ue_count, mme_ctx,
                       sgw_job, sgw_id, sgw_ctx, pgw_job, pgw_s5_id, sgi_id, pgw_ctx, exited>>,
           <<call[c].at, y.at>> \in {<<39, 40>>, <<41, 42>>, <<42, 43>>, <<43, 44>>},
           CallOK(c, y)'
    PROVE  CallInv'
<1>1. PICK next : Moved(call, next, c, y)
    BY MovedFacts
<1>2. call[c].at \in 39 .. 43 /\ y.at \in 40 .. 44
    OBVIOUS
<1>3. JobsOK(next)' /\ \A d \in Call \ {c} : WorkOK(d, call[d])'
  <2>1. call[c].at \notin SgwWorks \cup PgwWorks
    BY <1>2 DEF SgwWorks, PgwWorks
  <2> QED
    BY <1>1, <2>1, JobsStay
<1>4. RemovalsOK(next)' /\ IdsOK(next)' /\ ue_count' = Cardinality(Numbered(next))
    BY <1>1, <1>2, NumbersStay DEF Cut
<1>5. Frame(c)
    BY DEF Frame, UserKept, SgwKept, PgwKept
<1>6. /\ \A d \in Call \ {c} : CallOK(d, next[d])'
      /\ \A v \in UE \ {c[1]} : UserOK(v, Last(next, v))'
    BY <1>1, <1>3, <1>5, OthersStay
<1>7. \A d \in Call : CallOK(d, next[d])'
    BY <1>1, <1>6 DEF Moved
<1>8. UserOK(c[1], Last(next, c[1]))'
  <2>1. c[1] \in UE
    BY CallFacts
  <2>2. UserOK(c[1], Last(call, c[1]))
    BY <2>1 DEF Calls
  <2>3. CASE rounds[c[1]] # 0 /\ c = Current(c[1])
    <3>1. (Last(next, c[1]))' = y /\ Last(call, c[1]) = call[c]
      BY <1>1, <2>3 DEF Last, Current, Moved
    <3>2. UserOK(c[1], call[c])
      BY <2>2, <3>1
    <3>3. RanOK(c[1], y)'
      BY <1>2, <3>2 DEF UserOK, RanOK, Pc
    <3>4. MmeOK(c[1], y)'
      BY <1>2 DEF MmeOK
    <3>5. SgwOK(c[1], y)'
      BY <1>2, <3>2 DEF UserOK, SgwOK, SgwEntryOf
    <3>6. PgwOK(c[1], y)'
      BY <1>2, <3>2 DEF UserOK, PgwOK, PgwEntryOf
    <3>7. (rounds[c[1]] <= Rounds[c[1]])'
      BY <3>2 DEF UserOK
    <3> QED
      BY <3>1, <3>3, <3>4, <3>5, <3>6, <3>7 DEF UserOK
  <2>4. CASE ~(rounds[c[1]] # 0 /\ c = Current(c[1]))
    <3>1. (Last(next, c[1]))' = Last(call, c[1])
      <4>1. CASE rounds[c[1]] = 0
        BY <4>1 DEF Last
      <4>2. CASE rounds[c[1]] # 0
        <5>1. rounds[c[1]] \in 1 .. Rounds[c[1]]
          BY <2>1, <4>2, Types
        <5>2. Current(c[1]) \in Call /\ Current(c[1])' = Current(c[1])
          BY <2>1, <5>1, CallMade DEF Current
        <5> QED
          BY <1>1, <2>4, <4>2, <5>2 DEF Last, Moved
      <4> QED
        BY <4>1, <4>2
    <3>2. PICK x : x = Last(call, c[1])
      OBVIOUS
    <3>3. UserOK(c[1], x)'
      BY <2>2, <3>2 DEF UserOK, RanOK, MmeOK, Pause, SgwOK, SgwEntryOf, PgwOK, PgwEntryOf
    <3> QED
      BY <3>1, <3>2, <3>3
  <2> QED
    BY <2>3, <2>4
<1>9. Calls(next)'
    BY <1>4, <1>3, <1>6, <1>7, <1>8 DEF Calls
<1> QED
    BY <1>1, <1>9 DEF CallInv, Moved

-----------------------------------------------------------------------------
(* Steps of the terminals.                                                 *)

\* What is known of a call.
LEMMA Held ==
    ASSUME NEW call \in [Call -> CallState], Calls(call), NEW c \in Call
    PROVE  /\ call[c] \in CallState /\ c[1] \in UE
           /\ PlaceOK(c, call[c]) /\ FdsOK(c, call[c]) /\ WorkOK(c, call[c])
           /\ S1OK(c[1], link["s1"][c], call[c]) /\ S6aOK(c[1], link["s6a"][c], call[c])
           /\ S11OK(c[1], link["s11"][c], call[c]) /\ S5OK(c[1], link["s5"][c], call[c])
BY CallFacts DEF Calls, CallOK, LinksOK

LEMMA StateMade ==
    ASSUME NEW at \in 0 .. 44, NEW id \in {0} \cup UeId
    PROVE  \E y \in CallState : y.at = at /\ y.id = id
<1>1. [at |-> at, id |-> id] \in CallState
    BY DEF CallState
<1> QED
    BY <1>1

\* The steps that a terminal takes in a call, some of which cut it off.
RanMoves == {<<6, 7>>, <<8, 9>>, <<21, 22>>, <<25, 26>>, <<26, 27>>, <<37, 38>>,
             <<6, 39>>, <<8, 39>>, <<21, 41>>, <<25, 41>>, <<26, 41>>}

\* They change its connection to the MME and what the terminal knows.
LEMMA RanGoes ==
    ASSUME TypeOK, NEW call \in [Call -> CallState], Calls(call), NEW c \in Call,
           NEW y \in CallState, <<call[c].at, y.at>> \in RanMoves, y.id = call[c].id,
           NEW q, Put(link, link', "s1", c, q), S1OK(c[1], q, y),
           ran_pc' = [ran_pc EXCEPT ![c[1]] = Pc(y.at)],
           NEW ctx, ran_ctx' = [ran_ctx EXCEPT ![c[1]] = ctx],
           MkbRanTypeOK', RanOK(c[1], y)',
           hung' = IF y.at \in Cut THEN hung \cup {c} ELSE hung,
           UNCHANGED <<rounds, exited, mmeVars, sgwVars, pgwVars>>
    PROVE  CallInv'
<1>1. call[c].at \in {6, 8, 21, 25, 26, 37} /\ y.at \in {7, 9, 22, 26, 27, 38, 39, 41}
    BY DEF RanMoves
<1>2. c[1] \in UE /\ UserOK(c[1], call[c])
    BY <1>1, CallNow, CallFacts
<1>3. CallOK(c, y)'
  <2>1. PlaceOK(c, call[c]) /\ FdsOK(c, call[c]) /\ S6aOK(c[1], link["s6a"][c], call[c])
        /\ S11OK(c[1], link["s11"][c], call[c]) /\ S5OK(c[1], link["s5"][c], call[c])
    BY Held
  <2>2. /\ link'["s1"][c] = q /\ link'["s6a"][c] = link["s6a"][c]
        /\ link'["s11"][c] = link["s11"][c] /\ link'["s5"][c] = link["s5"][c]
    BY DEF Put, Interface
  <2>3. PlaceOK(c, y)'
    <3>1. mme_srcaddr' = mme_srcaddr
      BY DEF mmeVars
    <3>2. c \in hung' <=> y.at \in Cut
      BY <1>1, <2>1 DEF PlaceOK, Cut
    <3>3. c \in mme_srcaddr <=> y.at \in (10 .. 36) \cup (41 .. 44)
      BY <2>1 DEF PlaceOK, RanMoves
    <3>4. c[2] = rounds[c[1]] /\ rounds[c[1]] \in Nat
      <4>1. c = Current(c[1]) /\ rounds[c[1]] \in Nat
        BY <1>1, <1>2, CallNow, Types, MkbRoundAssumption
      <4> QED
        BY <4>1 DEF Current
    <3>5. y.at # 0 /\ y.at \notin 0 .. 2 /\ y.id # 0
      BY <1>1, <2>1 DEF PlaceOK
    <3>6. ~(c[2] > rounds[c[1]]) /\ ~(c[2] < rounds[c[1]])
      BY <3>4
    <3> QED
      BY <3>1, <3>2, <3>3, <3>5, <3>6, Zenon DEF PlaceOK
  <2>4. S6aOK(c[1], link["s6a"][c], y)
    BY <1>1, <2>1 DEF S6aOK
  <2>5. S11OK(c[1], link["s11"][c], y)
    <3>1. S11State(y.at) = S11State(call[c].at)
      BY DEF RanMoves, S11State
    <3>2. S11Up(c[1], y.at) = S11Up(c[1], call[c].at)
      BY DEF RanMoves, S11Up
    <3>3. S11Down(c[1], y.at) = S11Down(c[1], call[c].at)
      BY DEF RanMoves, S11Down
    <3> QED
      BY <1>1, <2>1, <3>1, <3>2, <3>3 DEF S11OK
  <2>6. S5OK(c[1], link["s5"][c], y)
    <3>1. S5State(y.at) = S5State(call[c].at)
      BY DEF RanMoves, S5State
    <3>2. S5Up(c[1], y.at) = S5Up(c[1], call[c].at)
      BY DEF RanMoves, S5Up
    <3>3. S5Down(c[1], y.at) = S5Down(c[1], call[c].at)
      BY DEF RanMoves, S5Down
    <3> QED
      BY <1>1, <2>1, <3>1, <3>2, <3>3 DEF S5OK
  <2>7. FdsOK(c, y)'
    <3>1. MmeEntry(c[1], y) = MmeEntry(c[1], call[c])
      <4>1. CASE call[c].at \in {6, 8}
        <5>1. y.at \in {7, 9, 39}
          BY <4>1 DEF RanMoves
        <5>2. MmeEntry(c[1], y) = FromRan(FALSE)
          BY <5>1 DEF MmeEntry, FromRan
        <5>3. MmeEntry(c[1], call[c]) = FromRan(FALSE)
          BY <4>1 DEF MmeEntry, FromRan
        <5> QED
          BY <5>2, <5>3
      <4>2. CASE call[c].at \in {21, 25, 26}
        <5>1. y.at \in {22, 26, 27, 41}
          BY <4>2 DEF RanMoves
        <5>2. MmeEntry(c[1], y) = FromRan(TRUE)
          BY <5>1 DEF MmeEntry, FromRan
        <5>3. MmeEntry(c[1], call[c]) = FromRan(TRUE)
          BY <4>2 DEF MmeEntry, FromRan
        <5> QED
          BY <5>2, <5>3
      <4>3. CASE call[c].at = 37
        <5>1. y.at = 38
          BY <4>3 DEF RanMoves
        <5> QED
          BY <4>3, <5>1 DEF MmeEntry
      <4> QED
        BY <1>1, <4>1, <4>2, <4>3
    <3>2. ASSUME NEW s
          PROVE  SgwFdEntry(c[1], s, y.at) = SgwFdEntry(c[1], s, call[c].at)
      <4>1. CASE call[c].at \in {6, 8}
        <5>1. y.at \in {7, 9, 39}
          BY <4>1 DEF RanMoves
        <5>2. SgwFdEntry(c[1], s, y.at) = None
          BY <5>1 DEF SgwFdEntry, FromMme, SgwWait
        <5>3. SgwFdEntry(c[1], s, call[c].at) = None
          BY <4>1 DEF SgwFdEntry, FromMme, SgwWait
        <5> QED
          BY <5>2, <5>3
      <4>2. CASE call[c].at \in {21, 25, 26}
        <5>1. y.at \in {22, 26, 27, 41}
          BY <4>2 DEF RanMoves
        <5>2. SgwFdEntry(c[1], s, y.at) = FromMme(TRUE)
          BY <5>1 DEF SgwFdEntry, FromMme, SgwWait
        <5>3. SgwFdEntry(c[1], s, call[c].at) = FromMme(TRUE)
          BY <4>2 DEF SgwFdEntry, FromMme, SgwWait
        <5> QED
          BY <5>2, <5>3
      <4>3. CASE call[c].at = 37
        <5>1. y.at = 38
          BY <4>3 DEF RanMoves
        <5> QED
          BY <4>3, <5>1 DEF SgwFdEntry
      <4> QED
        BY <1>1, <4>1, <4>2, <4>3
    <3> QED
      BY <2>1, <2>2, <3>1, <3>2 DEF FdsOK, mmeVars, sgwVars, pgwVars
  <2>8. WorkOK(c, y)'
    BY <1>1 DEF WorkOK, SgwWorks, PgwWorks
  <2> QED
    BY <2>2, <2>3, <2>4, <2>5, <2>6, <2>7, <2>8 DEF CallOK, LinksOK
<1>4. UserOK(c[1], y)'
  <2>1. MmeOK(c[1], y)'
    BY <1>2 DEF UserOK, MmeOK, RanMoves, mmeVars, Pause
  <2>2. SgwOK(c[1], y)'
    <3>1. \A t \in {"s11", "s1", "s5"} : SgwEntryOf(c[1], t, y.at) = SgwEntryOf(c[1], t, call[c].at)
      BY <1>1 DEF SgwEntryOf
    <3>2. SgwOK(c[1], y)
      BY <1>2, <3>1 DEF UserOK, SgwOK, RanMoves
    <3> QED
      BY <1>2, <3>2, SgwStays DEF SgwKept, sgwVars
  <2>3. PgwOK(c[1], y)'
    <3>1. PgwOK(c[1], y)
      BY <1>2 DEF UserOK, PgwOK, RanMoves, PgwEntryOf
    <3> QED
      BY <1>2, <3>1, PgwStays DEF PgwKept, sgwVars, pgwVars
  <2> QED
    BY <1>2, <2>1, <2>2, <2>3 DEF UserOK
<1>5. Frame(c)
  <2>1. \A d \in Call \ {c}, i \in Interface : link'[i][d] = link[i][d]
    BY DEF Put
  <2>2. \A d \in Call \ {c} : d \in hung' <=> d \in hung
    OBVIOUS
  <2>3. \A v \in UE \ {c[1]} : ran_pc'[v] = ran_pc[v] /\ ran_ctx'[v] = ran_ctx[v]
    BY DEF TypeOK, MkbRanTypeOK
  <2> QED
    BY <2>1, <2>2, <2>3
    DEF Frame, OthersKept, UserKept, SgwKept, PgwKept, mmeVars, sgwVars, pgwVars
<1>6. TypeOK'
  <2>1. MkbBaseTypeOK'
    BY DEF TypeOK, MkbBaseTypeOK, Put, Links
  <2>2. MkbMmeTypeOK' /\ MkbSgwTypeOK' /\ MkbPgwTypeOK'
    BY DEF TypeOK, MkbMmeTypeOK, MkbSgwTypeOK, MkbPgwTypeOK, mmeVars, sgwVars, pgwVars
  <2> QED
    BY <2>1, <2>2 DEF TypeOK
<1>7. call[c].at \notin SgwWorks \cup PgwWorks
    BY <1>1 DEF SgwWorks, PgwWorks
<1>8. /\ call[c].at \in 3 .. 36 => y.at \in (3 .. 36) \cup Cut
      /\ call[c].at = 37 => y.at = 38
      /\ call[c].at \in 1 .. 37
    BY DEF RanMoves, Cut
<1> QED
    BY <1>3, <1>4, <1>5, <1>6, <1>7, <1>8, GoesQuietly DEF mmeVars, sgwVars, pgwVars

RanContext == [id : {0} \cup UeId, guti : Teid, s1_uteid_ul : Teid, ip : Teid]

LEMMA PutTwice ==
    ASSUME NEW l, NEW r, NEW s, NEW i, NEW c, NEW q, NEW p, Put(l, r, i, c, q), Put(r, s, i, c, p)
    PROVE  Put(l, s, i, c, p)
BY DEF Put

\* A terminal that is not idle and has an answer is in one of five steps.
LEMMA Answered ==
    ASSUME TypeOK, NEW call \in [Call -> CallState], Calls(call), NEW u \in UE,
           ran_pc[u] # "idle", link["s1"][Current(u)].down # None
    PROVE  /\ call[Current(u)].at \in {6, 8, 21, 25, 37}
           /\ link["s1"][Current(u)].down = S1Down(u, call[Current(u)])
<1> DEFINE c == Current(u)
<1>1. c \in Call /\ c[1] = u /\ call[c].at \in 1 .. 37
    BY RanNow
<1>2. link["s1"][c].down = S1Down(u, call[c])
    BY <1>1, Held DEF S1OK
<1>3. S1Down(u, call[c]) # None
    BY <1>2
<1>4. call[c].at \in {6, 8, 21, 25, 37}
    BY <1>1, <1>3 DEF S1Down
<1> QED
    BY <1>2, <1>4

\* A step that takes the answer and sends what the next one calls for.
Proceeds(call, u, at, ctx, request) ==
    /\ at \in {7, 9, 22, 26}
    /\ <<call[Current(u)].at, at>> \in {<<6, 7>>, <<8, 9>>, <<21, 22>>, <<25, 26>>}
    /\ ctx \in RanContext /\ ctx.id = call[Current(u)].id
    /\ at \in {22, 26} => ctx.guti = u /\ ctx.s1_uteid_ul = u /\ ctx.ip = u
    /\ request \in Message \cup {None}
    /\ request = S1Up(u, [at |-> at, id |-> call[Current(u)].id])
    /\ ran_pc[u] # "idle"
    /\ Step(u, ran_pc[u], Pc(at), ctx, request)

LEMMA StepGoes ==
    ASSUME TypeOK, NEW call \in [Call -> CallState], Calls(call), NEW u \in UE,
           NEW at, NEW ctx, NEW request, Proceeds(call, u, at, ctx, request),
           UNCHANGED <<mmeVars, sgwVars, pgwVars>>
    PROVE  CallInv'
<1>0. /\ at \in {7, 9, 22, 26}
      /\ <<call[Current(u)].at, at>> \in {<<6, 7>>, <<8, 9>>, <<21, 22>>, <<25, 26>>}
      /\ ctx \in RanContext /\ ctx.id = call[Current(u)].id
      /\ at \in {22, 26} => ctx.guti = u /\ ctx.s1_uteid_ul = u /\ ctx.ip = u
      /\ request \in Message \cup {None}
      /\ request = S1Up(u, [at |-> at, id |-> call[Current(u)].id])
      /\ ran_pc[u] # "idle"
    BY DEF Proceeds
<1>1. PICK c : c = Current(u)
    OBVIOUS
<1>2. /\ ran_pc' = [ran_pc EXCEPT ![u] = Pc(at)] /\ exited' = exited
      /\ link' = SendUp(ReadDown(link, "s1", c), "s1", c, request)
      /\ ran_ctx' = [ran_ctx EXCEPT ![u] = ctx]
      /\ rounds' = rounds /\ hung' = hung
    BY <1>1 DEF Proceeds, Step, Goto
<1>3. c \in Call /\ c[1] = u
    BY <1>0, <1>1, RanNow
<1>4. call[c] \in CallState /\ S1OK(u, link["s1"][c], call[c])
    BY <1>3, Held
<1>5. PICK y \in CallState : y = [at |-> at, id |-> call[c].id]
  <2>1. at \in 0 .. 44
    BY <1>0
  <2> QED
    BY <1>4, <2>1 DEF CallState
<1>6. y.at = at /\ y.id = call[c].id
    BY <1>5
<1>7. <<call[c].at, y.at>> \in RanMoves
    BY <1>0, <1>1, <1>6 DEF RanMoves
<1>8. PICK q : q = [[link["s1"][c] EXCEPT !.down = None] EXCEPT !.up = request]
    OBVIOUS
<1>9. Put(link, link', "s1", c, q)
  <2>1. "s1" \in Interface /\ link \in Links
    BY Types DEF Interface
  <2>2. PICK r : r = ReadDown(link, "s1", c)
    OBVIOUS
  <2>3. Put(link, r, "s1", c, [link["s1"][c] EXCEPT !.down = None])
    BY <1>3, <2>1, <2>2, ReadDownPuts
  <2>4. r \in Links /\ r["s1"][c] = [link["s1"][c] EXCEPT !.down = None]
    BY <2>3 DEF Put
  <2>5. Put(r, link', "s1", c, [r["s1"][c] EXCEPT !.up = request])
    BY <1>0, <1>2, <1>3, <2>1, <2>2, <2>4, SendUpPuts
  <2>6. Put(r, link', "s1", c, q)
    BY <1>8, <2>4, <2>5
  <2> QED
    BY <2>3, <2>6, PutTwice
<1>10. S1OK(u, q, y)
  <2>1. link["s1"][c] \in Link
    BY <1>3, Types DEF Links, Interface
  <2>2. /\ q.state = link["s1"][c].state /\ q.gone = link["s1"][c].gone
        /\ q.core = link["s1"][c].core /\ q.up = request /\ q.down = None
    BY <1>8, <2>1 DEF Link
  <2>3. call[c].at \in 2 .. 36 /\ y.at \in 2 .. 36 /\ S1State(call[c].at) = "open" /\ S1State(y.at) = "open"
    BY <1>0, <1>1, <1>6 DEF S1State
  <2>4. S1Up(u, y) = request
    BY <1>0, <1>1, <1>5
  <2>5. S1Down(u, y) = None
    BY <1>0, <1>6 DEF S1Down
  <2> QED
    BY <1>4, <2>2, <2>3, <2>4, <2>5 DEF S1OK
<1>11. RanOK(u, y)'
  <2>1. ran_pc'[u] = Pc(y.at) /\ ran_ctx'[u] = ctx
    BY <1>2, <1>6 DEF TypeOK, MkbRanTypeOK
  <2>2. ctx.id = y.id /\ (y.at \in 22 .. 37 => ctx.guti = u /\ ctx.s1_uteid_ul = u /\ ctx.ip = u)
    BY <1>0, <1>1, <1>6
  <2> QED
    BY <2>1, <2>2 DEF RanOK
<1>12. MkbRanTypeOK'
  <2>1. Pc(at) \in {"set_security", "set_eps_session", "attach_complete", "attached"}
    BY <1>0 DEF Pc
  <2> QED
    BY <1>0, <1>2, <2>1 DEF TypeOK, MkbRanTypeOK, RanContext
<1>13. hung' = IF y.at \in Cut THEN hung \cup {c} ELSE hung
    BY <1>0, <1>2, <1>6 DEF Cut
<1> QED
    BY <1>2, <1>3, <1>6, <1>7, <1>9, <1>10, <1>11, <1>12, <1>13, RanGoes

NodesKept == UNCHANGED <<mmeVars, sgwVars, pgwVars>>

\* The terminals' contexts.
LEMMA RanContexts ==
    ASSUME TypeOK, NEW call \in [Call -> CallState], Calls(call), NEW u \in UE, ran_pc[u] # "idle"
    PROVE  /\ ran_ctx[u] \in RanContext
           /\ call[Current(u)] \in CallState /\ RanOK(u, call[Current(u)])
<1>1. ran_ctx[u] \in RanContext
    BY DEF TypeOK, MkbRanTypeOK, RanContext
<1>2. Current(u) \in Call /\ Last(call, u) = call[Current(u)]
    BY RanNow
<1> QED
    BY <1>1, <1>2 DEF Calls, UserOK

LEMMA AuthenticateKeeps ==
    ASSUME TypeOK, NEW call \in [Call -> CallState], Calls(call), NEW u \in UE,
           Authenticate(u), NodesKept
    PROVE  CallInv'
<1>1. /\ ran_pc[u] = "authenticate" /\ link["s1"][Current(u)].down # None
      /\ Step(u, "authenticate", "set_security", [ran_ctx[u] EXCEPT !.id = Answer(u).id],
              [Msg(2) EXCEPT !.id = Answer(u).id, !.imsi = u])
    BY DEF Authenticate, Step, Goto
<1>2. PICK x : x = call[Current(u)]
    OBVIOUS
<1>3. x \in CallState /\ x.at \in {6, 8, 21, 25, 37} /\ Pc(x.at) = "authenticate"
      /\ link["s1"][Current(u)].down = S1Down(u, x)
    BY <1>1, <1>2, Answered, RanNow, RanContexts
<1>4. x.at = 6
    BY <1>3 DEF Pc
<1>5. Answer(u) = [Msg(1) EXCEPT !.id = x.id, !.imsi = u]
    BY <1>3, <1>4 DEF S1Down, Answer
<1>6. Answer(u).id = x.id
    BY <1>5 DEF Msg
<1>7. PICK ctx : ctx = [ran_ctx[u] EXCEPT !.id = x.id]
    OBVIOUS
<1>8. ctx \in RanContext /\ ctx.id = x.id
    BY <1>1, <1>3, <1>7, RanContexts, StateFacts DEF RanContext
<1>9. PICK m : m = [Msg(2) EXCEPT !.id = x.id, !.imsi = u]
    OBVIOUS
<1>10. m \in Message
  <2>1. m = [type |-> 2, id |-> x.id, imsi |-> u, teid |-> 0, ip |-> 0]
    BY <1>9 DEF Msg
  <2> QED
    BY <1>3, <2>1, StateFacts, TeidFacts DEF Message
<1>11. Step(u, "authenticate", "set_security", ctx, m)
    BY <1>1, <1>6, <1>7, <1>9
<1>12. m = S1Up(u, [at |-> 7, id |-> x.id])
    BY <1>9 DEF S1Up
<1>13. Pc(7) = "set_security"
    BY DEF Pc
<1>14. <<call[Current(u)].at, 7>> \in {<<6, 7>>, <<8, 9>>, <<21, 22>>, <<25, 26>>}
    BY <1>2, <1>4
<1>15. Proceeds(call, u, 7, ctx, m)
    BY <1>1, <1>2, <1>8, <1>10, <1>11, <1>12, <1>13, <1>14 DEF Proceeds
<1> QED
    BY <1>15, StepGoes DEF NodesKept

LEMMA SetSecurityKeeps ==
    ASSUME TypeOK, NEW call \in [Call -> CallState], Calls(call), NEW u \in UE,
           SetSecurity(u), NodesKept
    PROVE  CallInv'
<1>1. /\ ran_pc[u] = "set_security" /\ link["s1"][Current(u)].down # None
      /\ Step(u, "set_security", "set_eps_session", ran_ctx[u], [Msg(3) EXCEPT !.id = ran_ctx[u].id])
    BY DEF SetSecurity, Step, Goto
<1>2. PICK x : x = call[Current(u)]
    OBVIOUS
<1>3. x \in CallState /\ x.at \in {6, 8, 21, 25, 37} /\ Pc(x.at) = "set_security"
      /\ ran_ctx[u] \in RanContext /\ RanOK(u, x)
    BY <1>1, <1>2, Answered, RanNow, RanContexts
<1>4. x.at = 8
    BY <1>3 DEF Pc
<1>5. ran_ctx[u].id = x.id
    BY <1>3, <1>4 DEF RanOK
<1>6. PICK m : m = [Msg(3) EXCEPT !.id = x.id]
    OBVIOUS
<1>7. m \in Message
    BY <1>3, <1>6, StateFacts, TeidFacts DEF Msg, Message
<1>8. Step(u, "set_security", "set_eps_session", ran_ctx[u], m)
    BY <1>1, <1>5, <1>6
<1>9. m = S1Up(u, [at |-> 9, id |-> x.id])
    BY <1>6 DEF S1Up
<1>10. Pc(9) = "set_eps_session"
    BY DEF Pc
<1>11. <<call[Current(u)].at, 9>> \in {<<6, 7>>, <<8, 9>>, <<21, 22>>, <<25, 26>>}
    BY <1>2, <1>4
<1>12. Proceeds(call, u, 9, ran_ctx[u], m)
    BY <1>1, <1>2, <1>3, <1>5, <1>7, <1>8, <1>9, <1>10, <1>11 DEF Proceeds
<1> QED
    BY <1>12, StepGoes DEF NodesKept

LEMMA SetEpsSessionKeeps ==
    ASSUME TypeOK, NEW call \in [Call -> CallState], Calls(call), NEW u \in UE,
           SetEpsSession(u), NodesKept
    PROVE  CallInv'
<1>1. /\ ran_pc[u] = "set_eps_session" /\ link["s1"][Current(u)].down # None
      /\ Step(u, "set_eps_session", "attach_complete",
              [ran_ctx[u] EXCEPT !.guti = Answer(u).imsi, !.s1_uteid_ul = Answer(u).teid,
                                 !.ip = Answer(u).ip],
              [Msg(4) EXCEPT !.id = ran_ctx[u].id, !.teid = Answer(u).teid])
    BY DEF SetEpsSession, Step, Goto
<1>2. PICK x : x = call[Current(u)]
    OBVIOUS
<1>3. x \in CallState /\ x.at \in {6, 8, 21, 25, 37} /\ Pc(x.at) = "set_eps_session"
      /\ link["s1"][Current(u)].down = S1Down(u, x) /\ ran_ctx[u] \in RanContext /\ RanOK(u, x)
    BY <1>1, <1>2, Answered, RanNow, RanContexts
<1>4. x.at = 21
    BY <1>3 DEF Pc
<1>5. Answer(u) = [Msg(3) EXCEPT !.imsi = u, !.teid = u, !.ip = u]
    BY <1>3, <1>4 DEF S1Down, Answer
<1>6. Answer(u).imsi = u /\ Answer(u).teid = u /\ Answer(u).ip = u
    BY <1>5 DEF Msg
<1>7. ran_ctx[u].id = x.id
    BY <1>3, <1>4 DEF RanOK
<1>8. PICK ctx : ctx = [ran_ctx[u] EXCEPT !.guti = u, !.s1_uteid_ul = u, !.ip = u]
    OBVIOUS
<1>9. ctx \in RanContext /\ ctx.id = x.id /\ ctx.guti = u /\ ctx.s1_uteid_ul = u /\ ctx.ip = u
    BY <1>3, <1>7, <1>8, TeidFacts DEF RanContext
<1>10. PICK m : m = [Msg(4) EXCEPT !.id = x.id, !.teid = u]
    OBVIOUS
<1>11. m \in Message
  <2>1. m = [type |-> 4, id |-> x.id, imsi |-> 0, teid |-> u, ip |-> 0]
    BY <1>10 DEF Msg
  <2> QED
    BY <1>3, <2>1, StateFacts, TeidFacts DEF Message
<1>12. Step(u, "set_eps_session", "attach_complete", ctx, m)
    BY <1>1, <1>6, <1>7, <1>8, <1>10
<1>13. m = S1Up(u, [at |-> 22, id |-> x.id])
    BY <1>10 DEF S1Up
<1>14. Pc(22) = "attach_complete"
    BY DEF Pc
<1>15. <<call[Current(u)].at, 22>> \in {<<6, 7>>, <<8, 9>>, <<21, 22>>, <<25, 26>>}
    BY <1>2, <1>4
<1>16. Proceeds(call, u, 22, ctx, m)
    BY <1>1, <1>2, <1>9, <1>11, <1>12, <1>13, <1>14, <1>15 DEF Proceeds
<1> QED
    BY <1>16, StepGoes DEF NodesKept

LEMMA AttachCompleteKeeps ==
    ASSUME TypeOK, NEW call \in [Call -> CallState], Calls(call), NEW u \in UE,
           AttachComplete(u), NodesKept
    PROVE  CallInv'
<1>1. /\ ran_pc[u] = "attach_complete" /\ link["s1"][Current(u)].down # None
      /\ Step(u, "attach_complete", "attached", ran_ctx[u], None)
    BY DEF AttachComplete, Step, Goto
<1>2. PICK x : x = call[Current(u)]
    OBVIOUS
<1>3. x \in CallState /\ x.at \in {6, 8, 21, 25, 37} /\ Pc(x.at) = "attach_complete"
      /\ ran_ctx[u] \in RanContext /\ RanOK(u, x)
    BY <1>1, <1>2, Answered, RanNow, RanContexts
<1>4. x.at = 25
    BY <1>3 DEF Pc
<1>5. ran_ctx[u].id = x.id /\ ran_ctx[u].guti = u /\ ran_ctx[u].s1_uteid_ul = u /\ ran_ctx[u].ip = u
    BY <1>3, <1>4 DEF RanOK
<1>6. None = S1Up(u, [at |-> 26, id |-> x.id])
    BY DEF S1Up
<1>7. Pc(26) = "attached"
    BY DEF Pc
<1>8. <<call[Current(u)].at, 26>> \in {<<6, 7>>, <<8, 9>>, <<21, 22>>, <<25, 26>>}
    BY <1>2, <1>4
<1>9. Proceeds(call, u, 26, ran_ctx[u], None)
    BY <1>1, <1>2, <1>3, <1>5, <1>6, <1>7, <1>8 DEF Proceeds
<1> QED
    BY <1>9, StepGoes DEF NodesKept

LEMMA DetachKeeps ==
    ASSUME TypeOK, NEW call \in [Call -> CallState], Calls(call), NEW u \in UE,
           Detach(u), NodesKept
    PROVE  CallInv'
<1>1. PICK c : c = Current(u)
    OBVIOUS
<1>2. PICK x : x = call[c]
    OBVIOUS
<1>3. /\ ran_pc[u] = "attached" /\ ran_pc' = [ran_pc EXCEPT ![u] = "detach"] /\ exited' = exited
      /\ link' = SendUp(link, "s1", c, [Msg(5) EXCEPT !.id = ran_ctx[u].id, !.imsi = ran_ctx[u].guti])
      /\ UNCHANGED <<ran_ctx, rounds, hung>>
    BY <1>1 DEF Detach, Goto
<1>4. c \in Call /\ c[1] = u /\ x.at \in 1 .. 37 /\ Pc(x.at) = "attached"
      /\ ran_ctx[u] \in RanContext /\ x \in CallState /\ RanOK(u, x)
    BY <1>1, <1>2, <1>3, RanNow, RanContexts
<1>5. x.at = 26
    BY <1>4 DEF Pc
<1>6. ran_ctx[u].id = x.id /\ ran_ctx[u].guti = u /\ ran_ctx[u].s1_uteid_ul = u /\ ran_ctx[u].ip = u
    BY <1>4, <1>5 DEF RanOK
<1>7. PICK y \in CallState : y.at = 27 /\ y.id = x.id
  <2>1. 27 \in 0 .. 44 /\ x.id \in {0} \cup UeId
    BY <1>4, StateFacts
  <2> QED
    BY <2>1, StateMade
<1>8. PICK m : m = [Msg(5) EXCEPT !.id = x.id, !.imsi = u]
    OBVIOUS
<1>9. m \in Message
  <2>1. m = [type |-> 5, id |-> x.id, imsi |-> u, teid |-> 0, ip |-> 0]
    BY <1>8 DEF Msg
  <2> QED
    BY <1>4, <2>1, StateFacts, TeidFacts DEF Message
<1>10. PICK q : q = [link["s1"][c] EXCEPT !.up = m]
    OBVIOUS
<1>11. Put(link, link', "s1", c, q)
  <2>1. "s1" \in Interface /\ link \in Links
    BY Types DEF Interface
  <2>2. link' = SendUp(link, "s1", c, m)
    BY <1>3, <1>6, <1>8
  <2> QED
    BY <1>4, <1>9, <1>10, <2>1, <2>2, SendUpPuts
<1>12. S1OK(u, q, y)
  <2>1. link["s1"][c] \in Link /\ S1OK(u, link["s1"][c], x)
    BY <1>2, <1>4, Types, Held DEF Links, Interface
  <2>2. /\ q.state = link["s1"][c].state /\ q.gone = link["s1"][c].gone
        /\ q.core = link["s1"][c].core /\ q.up = m /\ q.down = link["s1"][c].down
    BY <1>10, <2>1 DEF Link
  <2>3. S1State(x.at) = "open" /\ S1State(y.at) = "open"
    BY <1>5, <1>7 DEF S1State
  <2>4. S1Up(u, y) = m
    BY <1>7, <1>8 DEF S1Up
  <2>5. S1Down(u, y) = S1Down(u, x)
    BY <1>5, <1>7 DEF S1Down
  <2> QED
    BY <1>5, <1>7, <2>1, <2>2, <2>3, <2>4, <2>5 DEF S1OK
<1>13. Pc(y.at) = "detach"
    BY <1>7 DEF Pc
<1>14. RanOK(u, y)'
  <2>1. ran_pc'[u] = Pc(y.at) /\ ran_ctx' = ran_ctx
    BY <1>3, <1>13 DEF TypeOK, MkbRanTypeOK
  <2> QED
    BY <1>6, <1>7, <2>1 DEF RanOK
<1>15. MkbRanTypeOK'
    BY <1>3 DEF TypeOK, MkbRanTypeOK
<1>16. hung' = IF y.at \in Cut THEN hung \cup {c} ELSE hung
    BY <1>3, <1>7 DEF Cut
<1>17. PICK ctx : ctx = ran_ctx[u] /\ ran_ctx' = [ran_ctx EXCEPT ![u] = ctx]
    BY <1>3 DEF TypeOK, MkbRanTypeOK
<1>18. <<call[c].at, y.at>> \in RanMoves /\ y.id = call[c].id
    BY <1>2, <1>5, <1>7 DEF RanMoves
<1>19. ran_pc' = [ran_pc EXCEPT ![c[1]] = Pc(y.at)] /\ ran_ctx' = [ran_ctx EXCEPT ![c[1]] = ctx]
       /\ RanOK(c[1], y)' /\ S1OK(c[1], q, y) /\ UNCHANGED <<rounds, exited>>
    BY <1>3, <1>4, <1>12, <1>13, <1>14, <1>17
<1> QED
    BY <1>4, <1>11, <1>15, <1>16, <1>18, <1>19, RanGoes DEF NodesKept

LEMMA DetachedKeeps ==
    ASSUME TypeOK, NEW call \in [Call -> CallState], Calls(call), NEW u \in UE,
           Detached(u), NodesKept
    PROVE  CallInv'
<1>1. PICK c : c = Current(u)
    OBVIOUS
<1>2. PICK x : x = call[c]
    OBVIOUS
<1>3. /\ ran_pc[u] = "detach" /\ ran_pc' = [ran_pc EXCEPT ![u] = "idle"] /\ exited' = exited
      /\ link["s1"][c].down # None
      /\ link' = ClientClose(ReadDown(link, "s1", c), "s1", c)
      /\ UNCHANGED <<ran_ctx, rounds, hung>>
    BY <1>1 DEF Detached, Goto
<1>4. c \in Call /\ c[1] = u /\ x.at \in {6, 8, 21, 25, 37} /\ Pc(x.at) = "detach"
      /\ x \in CallState
    BY <1>1, <1>2, <1>3, RanNow, RanContexts, Answered
<1>5. x.at = 37
    BY <1>4 DEF Pc
<1>6. PICK y \in CallState : y.at = 38 /\ y.id = x.id
  <2>1. 38 \in 0 .. 44 /\ x.id \in {0} \cup UeId
    BY <1>4, StateFacts
  <2> QED
    BY <2>1, StateMade
<1>7. Put(link, link', "s1", c, NoLink)
  <2>1. "s1" \in Interface /\ link \in Links
    BY Types DEF Interface
  <2>2. PICK r : r = ReadDown(link, "s1", c)
    OBVIOUS
  <2>3. Put(link, r, "s1", c, [link["s1"][c] EXCEPT !.down = None])
    BY <1>4, <2>1, <2>2, ReadDownPuts
  <2>4. r \in Links /\ r["s1"][c] = [link["s1"][c] EXCEPT !.down = None]
    BY <2>3 DEF Put
  <2>5. link["s1"][c] \in Link /\ S1OK(u, link["s1"][c], x)
    BY <1>2, <1>4, Types, Held DEF Links, Interface
  <2>6. r["s1"][c].state = "shut"
    BY <1>5, <2>4, <2>5 DEF S1OK, S1State, Link
  <2>7. Put(r, link', "s1", c, IF r["s1"][c].state \in {"none", "shut"} THEN NoLink
                               ELSE [r["s1"][c] EXCEPT !.gone = TRUE])
    BY <1>3, <1>4, <2>1, <2>2, <2>4, ClientClosePuts
  <2>8. Put(r, link', "s1", c, NoLink)
    BY <2>6, <2>7
  <2> QED
    BY <2>3, <2>8, PutTwice
<1>8. S1OK(u, NoLink, y)
    BY <1>6 DEF S1OK, NoLink, S1State, S1Up, S1Down
<1>9. Pc(y.at) = "idle"
    BY <1>6 DEF Pc
<1>10. RanOK(u, y)'
  <2>1. ran_pc'[u] = Pc(y.at)
    BY <1>3, <1>9 DEF TypeOK, MkbRanTypeOK
  <2> QED
    BY <1>6, <2>1 DEF RanOK
<1>11. MkbRanTypeOK'
    BY <1>3 DEF TypeOK, MkbRanTypeOK
<1>12. hung' = IF y.at \in Cut THEN hung \cup {c} ELSE hung
    BY <1>3, <1>6 DEF Cut
<1>13. PICK ctx : ctx = ran_ctx[u] /\ ran_ctx' = [ran_ctx EXCEPT ![u] = ctx]
    BY <1>3 DEF TypeOK, MkbRanTypeOK
<1>14. <<call[c].at, y.at>> \in RanMoves /\ y.id = call[c].id
    BY <1>2, <1>5, <1>6 DEF RanMoves
<1>15. ran_pc' = [ran_pc EXCEPT ![c[1]] = Pc(y.at)] /\ ran_ctx' = [ran_ctx EXCEPT ![c[1]] = ctx]
       /\ RanOK(c[1], y)' /\ S1OK(c[1], NoLink, y) /\ UNCHANGED <<rounds, exited>>
    BY <1>3, <1>4, <1>8, <1>9, <1>10, <1>13
<1> QED
    BY <1>4, <1>7, <1>11, <1>12, <1>14, <1>15, RanGoes DEF NodesKept

LEMMA HangUpKeeps ==
    ASSUME TypeOK, NEW call \in [Call -> CallState], Calls(call), NEW u \in UE,
           HangUp(u), NodesKept
    PROVE  CallInv'
<1>1. PICK c : c = Current(u)
    OBVIOUS
<1>2. PICK x : x = call[c]
    OBVIOUS
<1>3. /\ ran_pc' = [ran_pc EXCEPT ![u] = "idle"] /\ exited' = exited
      /\ ran_pc[u] = "attached" \/ (ran_pc[u] \notin {"idle", "attached", "detach"} /\ link["s1"][c].down # None)
      /\ link' = ClientClose(ReadDown(link, "s1", c), "s1", c)
      /\ hung' = hung \cup {c}
      /\ UNCHANGED <<ran_ctx, rounds>>
    BY <1>1 DEF HangUp, Goto, Answer
<1>4. c \in Call /\ c[1] = u /\ x.at \in 1 .. 37 /\ Pc(x.at) = ran_pc[u] /\ x \in CallState
    BY <1>1, <1>2, <1>3, RanNow, RanContexts
<1>5. x.at \in {6, 8, 21, 25, 26}
  <2>1. CASE ran_pc[u] = "attached"
    BY <1>4, <2>1 DEF Pc
  <2>2. CASE ran_pc[u] \notin {"idle", "attached", "detach"} /\ link["s1"][c].down # None
    <3>1. x.at \in {6, 8, 21, 25, 37}
      BY <1>1, <1>2, <2>2, Answered
    <3>2. x.at # 37
      BY <1>4, <2>2 DEF Pc
    <3> QED
      BY <3>1, <3>2
  <2> QED
    BY <1>3, <2>1, <2>2
<1>6. PICK at : at = IF x.at \in {6, 8} THEN 39 ELSE 41
    OBVIOUS
<1>7. PICK y \in CallState : y.at = at /\ y.id = x.id
  <2>1. at \in 0 .. 44 /\ x.id \in {0} \cup UeId
    BY <1>4, <1>6, StateFacts
  <2> QED
    BY <2>1, StateMade
<1>8. y.at \in {39, 41} /\ y.at \in Cut
    BY <1>6, <1>7 DEF Cut
<1>9. PICK q : q = [[link["s1"][c] EXCEPT !.down = None] EXCEPT !.gone = TRUE]
    OBVIOUS
<1>10. link["s1"][c] \in Link /\ S1OK(u, link["s1"][c], x) /\ link["s1"][c].state = "open"
  <2>1. link["s1"][c] \in Link /\ S1OK(u, link["s1"][c], x)
    BY <1>2, <1>4, Types, Held DEF Links, Interface
  <2> QED
    BY <1>5, <2>1 DEF S1OK, S1State
<1>11. Put(link, link', "s1", c, q)
  <2>1. "s1" \in Interface /\ link \in Links
    BY Types DEF Interface
  <2>2. PICK r : r = ReadDown(link, "s1", c)
    OBVIOUS
  <2>3. Put(link, r, "s1", c, [link["s1"][c] EXCEPT !.down = None])
    BY <1>4, <2>1, <2>2, ReadDownPuts
  <2>4. r \in Links /\ r["s1"][c] = [link["s1"][c] EXCEPT !.down = None]
    BY <2>3 DEF Put
  <2>5. r["s1"][c].state = "open"
    BY <1>10, <2>4 DEF Link
  <2>6. Put(r, link', "s1", c, IF r["s1"][c].state \in {"none", "shut"} THEN NoLink
                               ELSE [r["s1"][c] EXCEPT !.gone = TRUE])
    BY <1>3, <1>4, <2>1, <2>2, <2>4, ClientClosePuts
  <2>7. Put(r, link', "s1", c, q)
    BY <1>9, <2>4, <2>5, <2>6
  <2> QED
    BY <2>3, <2>7, PutTwice
<1>12. S1OK(u, q, y)
  <2>1. /\ q.state = "open" /\ q.gone = TRUE
        /\ q.core = link["s1"][c].core /\ q.up = link["s1"][c].up /\ q.down = None
    BY <1>9, <1>10 DEF Link
  <2>2. S1State(x.at) = "open" /\ S1State(y.at) = "open"
    BY <1>5, <1>8 DEF S1State
  <2>3. S1Up(u, y) = None /\ S1Up(u, x) = None
    BY <1>5, <1>8 DEF S1Up
  <2>4. S1Down(u, y) = None
    BY <1>8 DEF S1Down
  <2> QED
    BY <1>8, <1>10, <2>1, <2>2, <2>3, <2>4 DEF S1OK
<1>13. Pc(y.at) = "idle"
    BY <1>8 DEF Pc
<1>14. RanOK(u, y)'
  <2>1. ran_pc'[u] = Pc(y.at)
    BY <1>3, <1>13 DEF TypeOK, MkbRanTypeOK
  <2> QED
    BY <1>8, <2>1 DEF RanOK
<1>15. MkbRanTypeOK'
    BY <1>3, <1>4 DEF TypeOK, MkbRanTypeOK
<1>16. hung' = IF y.at \in Cut THEN hung \cup {c} ELSE hung
    BY <1>3, <1>8
<1>17. PICK ctx : ctx = ran_ctx[u] /\ ran_ctx' = [ran_ctx EXCEPT ![u] = ctx]
    BY <1>3 DEF TypeOK, MkbRanTypeOK
<1>18. <<call[c].at, y.at>> \in RanMoves /\ y.id = call[c].id
    BY <1>2, <1>5, <1>6, <1>7 DEF RanMoves
<1>19. ran_pc' = [ran_pc EXCEPT ![c[1]] = Pc(y.at)] /\ ran_ctx' = [ran_ctx EXCEPT ![c[1]] = ctx]
       /\ RanOK(c[1], y)' /\ S1OK(c[1], q, y) /\ UNCHANGED <<rounds, exited>>
    BY <1>3, <1>4, <1>12, <1>13, <1>14, <1>17
<1> QED
    BY <1>4, <1>11, <1>15, <1>16, <1>18, <1>19, RanGoes DEF NodesKept

-----------------------------------------------------------------------------
(* Events of HSS and MME.                                                  *)

\* The steps of a call in which they are all that happens: no table but ue_ctx of the
\* MME changes.
MmeMoves == {<<1, 2>>, <<3, 4>>, <<4, 5>>, <<5, 6>>, <<7, 8>>, <<9, 10>>, <<10, 11>>,
             <<20, 21>>, <<22, 23>>, <<24, 25>>, <<27, 28>>}

\* r are the connections after it.
LinksMove(c, y, r) ==
    /\ r \in Links
    /\ \A j \in Interface, d \in Call : d # c \/ j = "s5" => r[j][d] = link[j][d]
    /\ S1OK(c[1], r["s1"][c], y) /\ S6aOK(c[1], r["s6a"][c], y) /\ S11OK(c[1], r["s11"][c], y)
    /\ IF y.at = 10 THEN r["s11"][c].state = "syn" ELSE r["s11"][c].state = link["s11"][c].state

MmeStep(call, c, y) ==
    /\ <<call[c].at, y.at>> \in MmeMoves
    /\ y.id = call[c].id
    /\ mme_fd' = [mme_fd EXCEPT ![c] = MmeEntry(c[1], y)]
    /\ \A v \in UE \ {c[1]} : mme_ctx'[v] = mme_ctx[v]
    /\ mme_ctx' \in [UE -> MmeContext \cup {None}]
    /\ mme_srcaddr' = IF y.at = 10 THEN mme_srcaddr \cup {c} ELSE mme_srcaddr
    /\ UNCHANGED <<ranVars, mme_removal, ue_count, s1mme_id, exited, sgwVars, pgwVars>>

\* What the entry of a call in fdmap can be.
LEMMA MmeEntryType ==
    ASSUME NEW u \in UE, NEW y \in CallState
    PROVE  MmeEntry(u, y) \in MmeData \cup {None}
<1>1. y.id \in {0} \cup UeId /\ u \in Teid /\ 0 \in Teid /\ 0 \in {0} \cup UeId
    BY StateFacts, TeidFacts
<1>2. [Msg(1) EXCEPT !.imsi = u] \in Message /\ [Msg(1) EXCEPT !.teid = u, !.imsi = u] \in Message
  <2>1. [Msg(1) EXCEPT !.imsi = u] = [type |-> 1, id |-> 0, imsi |-> u, teid |-> 0, ip |-> 0]
    BY DEF Msg
  <2>2. [Msg(1) EXCEPT !.teid = u, !.imsi = u] = [type |-> 1, id |-> 0, imsi |-> u, teid |-> u, ip |-> 0]
    <3>1. PICK m : m = Msg(1)
      OBVIOUS
    <3>2. m = [type |-> 1, id |-> 0, imsi |-> 0, teid |-> 0, ip |-> 0]
      BY <3>1 DEF Msg
    <3>3. PICK n : n = [m EXCEPT !.teid = u]
      OBVIOUS
    <3>4. n = [type |-> 1, id |-> 0, imsi |-> 0, teid |-> u, ip |-> 0]
      BY <3>2, <3>3
    <3>5. [n EXCEPT !.imsi = u] = [type |-> 1, id |-> 0, imsi |-> u, teid |-> u, ip |-> 0]
      BY <3>4
    <3>6. [m EXCEPT !.teid = u, !.imsi = u] = [n EXCEPT !.imsi = u]
      BY <3>3
    <3> QED
      BY <3>1, <3>5, <3>6
  <2> QED
    BY <1>1, <2>1, <2>2 DEF Message
<1>3. FromRan(FALSE) \in MmeData /\ FromRan(TRUE) \in MmeData
    BY DEF FromRan, MmeData
<1>4. ASSUME NEW act \in 1 .. 7, NEW buf \in Message \cup {None}
      PROVE  MmeWait(act, y, buf) \in MmeData
    BY <1>1 DEF MmeWait, MmeData
<1>5. /\ MmeWait(2, y, [Msg(1) EXCEPT !.imsi = u]) \in MmeData
      /\ MmeWait(4, y, [Msg(1) EXCEPT !.teid = u, !.imsi = u]) \in MmeData
      /\ MmeWait(3, y, None) \in MmeData /\ MmeWait(5, y, None) \in MmeData
      /\ MmeWait(6, y, None) \in MmeData /\ MmeWait(7, y, None) \in MmeData
    BY <1>2, <1>4
<1> QED
    BY <1>3, <1>5, Zenon DEF MmeEntry

LEMMA MmeGoes ==
    ASSUME TypeOK, NEW call \in [Call -> CallState], Calls(call), NEW c \in Call,
           NEW y \in CallState, MmeStep(call, c, y), LinksMove(c, y, link'), MmeOK(c[1], y)'
    PROVE  CallInv'
<1>1. /\ <<call[c].at, y.at>> \in MmeMoves
      /\ y.id = call[c].id
      /\ mme_fd' = [mme_fd EXCEPT ![c] = MmeEntry(c[1], y)]
      /\ \A v \in UE \ {c[1]} : mme_ctx'[v] = mme_ctx[v]
      /\ mme_ctx' \in [UE -> MmeContext \cup {None}]
      /\ mme_srcaddr' = IF y.at = 10 THEN mme_srcaddr \cup {c} ELSE mme_srcaddr
      /\ UNCHANGED <<ranVars, mme_removal, ue_count, s1mme_id, exited, sgwVars, pgwVars>>
    BY DEF MmeStep
<1>2. call[c].at \in {1, 3, 4, 5, 7, 9, 10, 20, 22, 24, 27}
      /\ y.at \in {2, 4, 5, 6, 8, 10, 11, 21, 23, 25, 28}
    BY <1>1 DEF MmeMoves
<1>3. c[1] \in UE /\ UserOK(c[1], call[c]) /\ c = Current(c[1]) /\ rounds[c[1]] \in Nat
    BY <1>2, CallNow, CallFacts, Types, MkbRoundAssumption
<1>4. CallOK(c, y)'
  <2>1. PlaceOK(c, call[c]) /\ FdsOK(c, call[c]) /\ S5OK(c[1], link["s5"][c], call[c])
    BY Held
  <2>2. link'["s5"][c] = link["s5"][c]
    BY DEF LinksMove, Interface
  <2>3. PlaceOK(c, y)'
    <3>1. hung' = hung /\ rounds' = rounds
      BY <1>1 DEF ranVars
    <3>2. c \in hung <=> y.at \in Cut
      BY <1>2, <2>1 DEF PlaceOK, Cut
    <3>3. c \in mme_srcaddr' <=> y.at \in (10 .. 36) \cup (41 .. 44)
      BY <1>1, <2>1 DEF PlaceOK, MmeMoves
    <3>4. c[2] = rounds[c[1]]
      BY <1>3 DEF Current
    <3>5. y.at # 0 /\ (y.id = 0 <=> y.at \in 0 .. 2)
      BY <1>1, <2>1 DEF PlaceOK, MmeMoves
    <3>6. ~(c[2] > rounds[c[1]]) /\ ~(c[2] < rounds[c[1]])
      BY <1>3, <3>4
    <3> QED
      BY <3>1, <3>2, <3>3, <3>5, <3>6, Zenon DEF PlaceOK
  <2>4. S5OK(c[1], link["s5"][c], y)
    <3>1. S5State(y.at) = S5State(call[c].at)
      BY <1>1 DEF MmeMoves, S5State
    <3>2. S5Up(c[1], y.at) = S5Up(c[1], call[c].at)
      BY <1>1 DEF MmeMoves, S5Up
    <3>3. S5Down(c[1], y.at) = S5Down(c[1], call[c].at)
      BY <1>1 DEF MmeMoves, S5Down
    <3> QED
      BY <1>2, <2>1, <3>1, <3>2, <3>3 DEF S5OK
  <2>5. FdsOK(c, y)'
    <3>1. mme_fd'[c] = MmeEntry(c[1], y)
      BY <1>1 DEF TypeOK, MkbMmeTypeOK
    <3>2. SgwFdEntry(c[1], link'["s11"][c].state, y.at) = sgw_fd[c]
      <4>1. sgw_fd[c] = SgwFdEntry(c[1], link["s11"][c].state, call[c].at)
        BY <2>1 DEF FdsOK
      <4>2. PICK s : s = link["s11"][c].state
        OBVIOUS
      <4>3. CASE y.at = 10
        <5>1. call[c].at = 9 /\ link'["s11"][c].state = "syn"
          BY <1>1, <4>3 DEF MmeMoves, LinksMove
        <5> QED
          BY <4>1, <4>3, <5>1 DEF SgwFdEntry, FromMme, SgwWait
      <4>4. CASE y.at \in {2, 4, 5, 6, 8}
        <5>1. call[c].at \in {1, 3, 4, 5, 7} /\ link'["s11"][c].state = s
          BY <1>1, <4>2, <4>4 DEF MmeMoves, LinksMove
        <5>2. SgwFdEntry(c[1], s, y.at) = None /\ SgwFdEntry(c[1], s, call[c].at) = None
          BY <4>4, <5>1 DEF SgwFdEntry, FromMme, SgwWait
        <5> QED
          BY <4>1, <4>2, <5>1, <5>2
      <4>5. CASE y.at = 11
        <5>1. call[c].at = 10 /\ link'["s11"][c].state = s
          BY <1>1, <4>2, <4>5 DEF MmeMoves, LinksMove
        <5>2. SgwFdEntry(c[1], s, y.at) = SgwFdEntry(c[1], s, call[c].at)
          BY <4>5, <5>1 DEF SgwFdEntry, FromMme, SgwWait
        <5> QED
          BY <4>1, <4>2, <5>1, <5>2
      <4>6. CASE y.at \in {21, 23, 25, 28}
        <5>1. call[c].at \in {20, 22, 24, 27} /\ link'["s11"][c].state = s
          BY <1>1, <4>2, <4>6 DEF MmeMoves, LinksMove
        <5>2. SgwFdEntry(c[1], s, y.at) = FromMme(TRUE) /\ SgwFdEntry(c[1], s, call[c].at) = FromMme(TRUE)
          BY <4>6, <5>1 DEF SgwFdEntry, FromMme, SgwWait
        <5> QED
          BY <4>1, <4>2, <5>1, <5>2
      <4> QED
        BY <1>2, <4>3, <4>4, <4>5, <4>6
    <3>3. c \in pgw_fd <=> link["s5"][c].state = "open"
      BY <2>1 DEF FdsOK
    <3> QED
      BY <1>1, <2>2, <3>1, <3>2, <3>3 DEF FdsOK, sgwVars, pgwVars
  <2>6. WorkOK(c, y)'
    BY <1>2 DEF WorkOK, SgwWorks, PgwWorks
  <2> QED
    BY <2>2, <2>3, <2>4, <2>5, <2>6 DEF CallOK, LinksOK, LinksMove
<1>5. UserOK(c[1], y)'
  <2>1. RanOK(c[1], y)'
    <3>1. Pc(y.at) = Pc(call[c].at)
      BY <1>1 DEF MmeMoves, Pc
    <3> QED
      BY <1>1, <1>3, <3>1 DEF UserOK, RanOK, MmeMoves, ranVars
  <2>2. SgwOK(c[1], y)'
    <3>1. \A t \in {"s11", "s1", "s5"} : SgwEntryOf(c[1], t, y.at) = SgwEntryOf(c[1], t, call[c].at)
      BY <1>2 DEF SgwEntryOf
    <3>2. SgwOK(c[1], y)
      BY <1>1, <1>3, <3>1 DEF UserOK, SgwOK, MmeMoves
    <3> QED
      BY <1>1, <1>3, <3>2, SgwStays DEF SgwKept, sgwVars
  <2>3. PgwOK(c[1], y)'
    <3>1. PgwOK(c[1], y)
      BY <1>1, <1>3 DEF UserOK, PgwOK, MmeMoves, PgwEntryOf
    <3> QED
      BY <1>1, <1>3, <3>1, PgwStays DEF PgwKept, sgwVars, pgwVars
  <2> QED
    BY <1>1, <1>3, <2>1, <2>2, <2>3 DEF UserOK, ranVars
<1>6. Frame(c)
  <2>1. \A d \in Call \ {c}, i \in Interface : link'[i][d] = link[i][d]
    BY DEF LinksMove
  <2>2. \A d \in Call \ {c} : mme_fd'[d] = mme_fd[d]
    BY <1>1 DEF TypeOK, MkbMmeTypeOK
  <2>3. \A d \in Call \ {c} : d \in mme_srcaddr' <=> d \in mme_srcaddr
    BY <1>1
  <2> QED
    BY <1>1, <2>1, <2>2, <2>3
    DEF Frame, OthersKept, UserKept, SgwKept, PgwKept, ranVars, sgwVars, pgwVars
<1>7. TypeOK'
  <2>1. MkbBaseTypeOK'
    BY <1>1 DEF TypeOK, MkbBaseTypeOK, LinksMove, Links
  <2>2. MkbRanTypeOK' /\ MkbSgwTypeOK' /\ MkbPgwTypeOK'
    BY <1>1 DEF TypeOK, MkbRanTypeOK, MkbSgwTypeOK, MkbPgwTypeOK, ranVars, sgwVars, pgwVars
  <2>3. MkbMmeTypeOK'
    <3>1. mme_fd' \in [Call -> MmeData \cup {None}]
      BY <1>1, <1>3, MmeEntryType DEF TypeOK, MkbMmeTypeOK
    <3>2. mme_srcaddr' \subseteq Call
      BY <1>1 DEF TypeOK, MkbMmeTypeOK
    <3> QED
      BY <1>1, <3>1, <3>2 DEF TypeOK, MkbMmeTypeOK
  <2> QED
    BY <2>1, <2>2, <2>3 DEF TypeOK
<1>8. call[c].at \notin SgwWorks \cup PgwWorks
    BY <1>2 DEF SgwWorks, PgwWorks
<1>9. /\ call[c].at \in 3 .. 36 => y.at \in (3 .. 36) \cup Cut
      /\ call[c].at = 37 => y.at = 38
      /\ call[c].at \in 1 .. 37
    BY <1>1 DEF MmeMoves, Cut
<1> QED
    BY <1>1, <1>4, <1>5, <1>6, <1>7, <1>8, <1>9, GoesQuietly DEF ranVars, sgwVars, pgwVars

\* Which steps a call may be in by what its entry waits for.
MmeAct(at) == CASE at = 2 \/ at \in 6 .. 9 \/ at \in 21 .. 22 \/ at \in 25 .. 27 \/ at \in {39, 41} -> 1
                [] at = 3        -> 2
                [] at \in 4 .. 5   -> 3
                [] at = 10       -> 4
                [] at \in 11 .. 20 -> 5
                [] at \in 23 .. 24 -> 6
                [] at \in 28 .. 36 -> 7
                [] OTHER         -> 0

LEMMA MmeAt ==
    ASSUME NEW u \in UE, NEW x \in CallState, MmeEntry(u, x) # None
    PROVE  MmeEntry(u, x).act = MmeAct(x.at) /\ MmeAct(x.at) # 0
<1>1. x.at \in 0 .. 44
    BY StateFacts
<1>2. \/ x.at = 2 \/ x.at \in 6 .. 9 \/ x.at = 39
      \/ x.at = 3 \/ x.at \in 4 .. 5 \/ x.at = 10 \/ x.at \in 11 .. 20
      \/ x.at \in 21 .. 22 \/ x.at \in 25 .. 27 \/ x.at = 41
      \/ x.at \in 23 .. 24 \/ x.at \in 28 .. 36
    BY Zenon DEF MmeEntry
<1>3. CASE x.at = 2 \/ x.at \in 6 .. 9 \/ x.at = 39
  <2>1. MmeEntry(u, x) = FromRan(FALSE) /\ MmeAct(x.at) = 1
    BY <1>3 DEF MmeEntry, FromRan, MmeAct
  <2> QED
    BY <2>1 DEF FromRan
<1>4. CASE x.at = 3
  <2>1. MmeEntry(u, x) = MmeWait(2, x, [Msg(1) EXCEPT !.imsi = u])
    BY <1>4 DEF MmeEntry, FromRan, MmeWait
  <2> QED
    BY <1>4, <2>1 DEF MmeWait, MmeAct
<1>5. CASE x.at \in 4 .. 5
  <2>1. MmeEntry(u, x) = MmeWait(3, x, None)
    BY <1>5 DEF MmeEntry, FromRan, MmeWait
  <2> QED
    BY <1>5, <2>1 DEF MmeWait, MmeAct
<1>6. CASE x.at = 10
  <2>1. MmeEntry(u, x) = MmeWait(4, x, [Msg(1) EXCEPT !.teid = u, !.imsi = u])
    BY <1>6 DEF MmeEntry, FromRan, MmeWait
  <2> QED
    BY <1>6, <2>1 DEF MmeWait, MmeAct
<1>7. CASE x.at \in 11 .. 20
  <2>1. MmeEntry(u, x) = MmeWait(5, x, None)
    BY <1>7 DEF MmeEntry, FromRan, MmeWait
  <2> QED
    BY <1>7, <2>1 DEF MmeWait, MmeAct
<1>8. CASE x.at \in 21 .. 22 \/ x.at \in 25 .. 27 \/ x.at = 41
  <2>1. MmeEntry(u, x) = FromRan(TRUE) /\ MmeAct(x.at) = 1
    BY <1>8 DEF MmeEntry, FromRan, MmeAct
  <2> QED
    BY <2>1 DEF FromRan
<1>9. CASE x.at \in 23 .. 24
  <2>1. MmeEntry(u, x) = MmeWait(6, x, None)
    BY <1>9 DEF MmeEntry, FromRan, MmeWait
  <2> QED
    BY <1>9, <2>1 DEF MmeWait, MmeAct
<1>10. CASE x.at \in 28 .. 36
  <2>1. MmeEntry(u, x) = MmeWait(7, x, None)
    BY <1>10 DEF MmeEntry, FromRan, MmeWait
  <2> QED
    BY <1>10, <2>1 DEF MmeWait, MmeAct
<1> QED
    BY <1>2, <1>3, <1>4, <1>5, <1>6, <1>7, <1>8, <1>9, <1>10

\* So much is known at an event of call c.
LEMMA MmeEventFacts ==
    ASSUME TypeOK, NEW call \in [Call -> CallState], Calls(call), NEW k, NEW c \in Call,
           NEW act \in 1 .. 7, MmeEvent(k, c, act)
    PROVE  /\ call[c] \in CallState /\ c[1] \in UE /\ mme_fd[c] = MmeEntry(c[1], call[c])
           /\ mme_fd[c].act = act /\ MmeAct(call[c].at) = act
           /\ mme_removal[k] = None /\ link["s1"][c].core = k
<1>1. mme_removal[k] = None /\ link["s1"][c].core = k /\ mme_fd[c] # None /\ mme_fd[c].act = act
    BY DEF MmeEvent
<1>2. call[c] \in CallState /\ c[1] \in UE /\ mme_fd[c] = MmeEntry(c[1], call[c])
    BY Held DEF FdsOK
<1>3. MmeAct(call[c].at) = act
    BY <1>1, <1>2, MmeAt
<1> QED
    BY <1>1, <1>2, <1>3

\* The four connections of a call, and that only c's change.
LEMMA LinkFacts ==
    ASSUME TypeOK, NEW c \in Call
    PROVE  /\ link \in Links /\ "s1" \in Interface /\ "s6a" \in Interface
           /\ "s11" \in Interface /\ "s5" \in Interface
           /\ \A i \in Interface : link[i][c] \in Link
BY Types DEF Links, Interface

LEMMA HssAnswerKeeps ==
    ASSUME TypeOK, NEW call \in [Call -> CallState], Calls(call), NEW c \in Call,
           HssAnswer(c), NodesKept
    PROVE  CallInv'
<1>1. PICK x : x = call[c]
    OBVIOUS
<1>2. link["s6a"][c].up # None
      /\ link' = SendDown(ReadUp(link, "s6a", c), "s6a", c, [Msg(1) EXCEPT !.imsi = link["s6a"][c].up.imsi])
      /\ UNCHANGED <<ranVars, exited>>
    BY DEF HssAnswer
<1>3. /\ x \in CallState /\ c[1] \in UE /\ S1OK(c[1], link["s1"][c], x)
      /\ S6aOK(c[1], link["s6a"][c], x) /\ S11OK(c[1], link["s11"][c], x)
      /\ mme_fd[c] = MmeEntry(c[1], x)
    BY <1>1, Held DEF FdsOK
<1>4. x.at = 4 /\ link["s6a"][c].up = [Msg(1) EXCEPT !.imsi = c[1]]
    BY <1>2, <1>3 DEF S6aOK
<1>5. PICK y \in CallState : y.at = 5 /\ y.id = x.id
  <2>1. 5 \in 0 .. 44 /\ x.id \in {0} \cup UeId
    BY <1>3, StateFacts
  <2> QED
    BY <2>1, StateMade
<1>6. PICK m : m = [Msg(1) EXCEPT !.imsi = c[1]]
    OBVIOUS
<1>7. m = [type |-> 1, id |-> 0, imsi |-> c[1], teid |-> 0, ip |-> 0]
    BY <1>6 DEF Msg
<1>8. m \in Message /\ m.imsi = c[1]
    BY <1>3, <1>7, TeidFacts DEF Message
<1>9. PICK q : q = [[link["s6a"][c] EXCEPT !.up = None] EXCEPT !.down = m]
    OBVIOUS
<1>10. Put(link, link', "s6a", c, q)
  <2>1. "s6a" \in Interface /\ link \in Links
    BY Types DEF Interface
  <2>2. PICK r : r = ReadUp(link, "s6a", c)
    OBVIOUS
  <2>3. Put(link, r, "s6a", c, [link["s6a"][c] EXCEPT !.up = None])
    BY <2>1, <2>2, ReadUpPuts
  <2>4. r \in Links /\ r["s6a"][c] = [link["s6a"][c] EXCEPT !.up = None]
    BY <2>3 DEF Put
  <2>5. link' = SendDown(r, "s6a", c, m)
    BY <1>2, <1>4, <1>6, <1>8, <2>2
  <2>6. Put(r, link', "s6a", c, [r["s6a"][c] EXCEPT !.down = m])
    BY <1>8, <2>1, <2>4, <2>5, SendDownPuts
  <2>7. Put(r, link', "s6a", c, q)
    BY <1>9, <2>4, <2>6
  <2> QED
    BY <2>3, <2>7, PutTwice
<1>11. LinksMove(c, y, link')
  <2>1. link["s6a"][c] \in Link
    BY LinkFacts
  <2>2. S6aOK(c[1], q, y)
    BY <1>3, <1>4, <1>5, <1>6, <1>9, <2>1 DEF S6aOK, Link
  <2>3. S1OK(c[1], link["s1"][c], y)
    BY <1>3, <1>4, <1>5 DEF S1OK, S1State, S1Up, S1Down
  <2>4. S11OK(c[1], link["s11"][c], y)
    BY <1>3, <1>4, <1>5 DEF S11OK, S11State, S11Up, S11Down
  <2> QED
    BY <1>5, <1>10, <2>2, <2>3, <2>4 DEF LinksMove, Put, Interface
<1>12. MmeStep(call, c, y)
  <2>1. <<call[c].at, y.at>> \in MmeMoves /\ y.id = call[c].id /\ y.at # 10
    BY <1>1, <1>4, <1>5 DEF MmeMoves
  <2>2. MmeEntry(c[1], y) = MmeEntry(c[1], x)
    BY <1>4, <1>5 DEF MmeEntry, FromRan, MmeWait
  <2>3. mme_fd = [mme_fd EXCEPT ![c] = MmeEntry(c[1], y)]
    BY <1>3, <2>2 DEF TypeOK, MkbMmeTypeOK
  <2>4. mme_ctx \in [UE -> MmeContext \cup {None}]
    BY DEF TypeOK, MkbMmeTypeOK
  <2> QED
    BY <1>2, <2>1, <2>3, <2>4 DEF MmeStep, NodesKept, mmeVars
<1>13. MmeOK(c[1], y)'
  <2>1. UserOK(c[1], x)
    BY <1>1, <1>4, CallNow
  <2>2. MmeOK(c[1], y)
    BY <1>4, <1>5, <2>1 DEF UserOK, MmeOK
  <2> QED
    BY <1>3, <2>2, MmeStays DEF NodesKept, mmeVars
<1> QED
    BY <1>11, <1>12, <1>13, MmeGoes

\* Two connections of a call change.
PutBoth(l, r, i, j, c, q, p) ==
    /\ r \in Links
    /\ r[i][c] = q /\ r[j][c] = p
    /\ \A e \in Interface, d \in Call : (e # i /\ e # j) \/ d # c => r[e][d] = l[e][d]

LEMMA PutsBoth ==
    ASSUME NEW l, NEW r, NEW s, NEW i \in Interface, NEW j \in Interface, i # j, NEW c \in Call,
           NEW q, NEW p, Put(l, r, i, c, q), Put(r, s, j, c, p)
    PROVE  PutBoth(l, s, i, j, c, q, p)
BY DEF Put, PutBoth

\* A connection that keeps its state while what it carries changes with the call.
LEMMA S1Served ==
    ASSUME NEW u, NEW x \in CallState, NEW y \in CallState, NEW l, NEW q, S1OK(u, l, x),
           x.at \in 2 .. 36, y.at \in 2 .. 36,
           q.state = l.state, q.gone = l.gone, q.core = l.core,
           q.up = S1Up(u, y), q.down = S1Down(u, y)
    PROVE  S1OK(u, q, y)
<1>1. S1State(x.at) = "open" /\ S1State(y.at) = "open"
    BY DEF S1State
<1>2. x.at \notin {39, 41} /\ y.at \notin {39, 41}
    OBVIOUS
<1> QED
    BY <1>1, <1>2 DEF S1OK

LEMMA S11Served ==
    ASSUME NEW u, NEW x \in CallState, NEW y \in CallState, NEW l, NEW q, S11OK(u, l, x),
           S11State(x.at) = S11State(y.at), x.at # 42, y.at # 42,
           q.state = l.state, q.gone = l.gone, q.core = l.core,
           q.up = S11Up(u, y.at), q.down = S11Down(u, y.at)
    PROVE  S11OK(u, q, y)
BY DEF S11OK

LEMMA S5Served ==
    ASSUME NEW u, NEW x \in CallState, NEW y \in CallState, NEW l, NEW q, S5OK(u, l, x),
           S5State(x.at) = S5State(y.at), x.at # 43, y.at # 43,
           q.state = l.state, q.gone = l.gone, q.core = l.core,
           q.up = S5Up(u, y.at), q.down = S5Down(u, y.at)
    PROVE  S5OK(u, q, y)
BY DEF S5OK

LEMMA S6aIdle ==
    ASSUME NEW u, NEW x \in CallState, NEW y \in CallState, NEW l, S6aOK(u, l, x),
           x.at \notin 3 .. 5, y.at \notin 3 .. 5
    PROVE  S6aOK(u, l, y)
BY DEF S6aOK

\* A request of a terminal, and where its call is then.
LEMMA MmeRequestFacts ==
    ASSUME TypeOK, NEW call \in [Call -> CallState], Calls(call), NEW k, NEW c \in Call,
           NEW type \in 1 .. 5, MmeRequest(k, c, type)
    PROVE  /\ call[c] \in CallState /\ c[1] \in UE /\ link["s1"][c].core = k
           /\ <<type, call[c].at>> \in {<<1, 2>>, <<2, 7>>, <<3, 9>>, <<4, 22>>, <<5, 27>>}
           /\ link["s1"][c].up = S1Up(c[1], call[c])
           /\ type # 1 => call[c].id \in UeId
<1>1. PICK x : x = call[c]
    OBVIOUS
<1>2. PICK m : m = link["s1"][c].up
    OBVIOUS
<1>3. /\ MmeEvent(k, c, 1) /\ m # None
      /\ IF m.id = 0 THEN type = 1 ELSE type # 1 /\ m.type = type
    BY <1>2 DEF MmeRequest, Arrived
<1>4. /\ x \in CallState /\ c[1] \in UE /\ link["s1"][c].core = k /\ MmeAct(x.at) = 1
      /\ PlaceOK(c, x) /\ S1OK(c[1], link["s1"][c], x)
  <2>1. MmeEvent(k, c, 1)
    BY <1>3
  <2>2. link["s1"][c].core = k /\ MmeAct(x.at) = 1
    <3>1. link["s1"][c].core = k /\ MmeAct(call[c].at) = 1
      BY <2>1, MmeEventFacts
    <3> QED
      BY <1>1, <3>1
  <2> QED
    BY <1>1, <2>2, Held
<1>5. m = S1Up(c[1], x)
    BY <1>2, <1>4 DEF S1OK
<1>6. x.at \in {2, 7, 9, 22, 27}
  <2>1. x.at \in 1 .. 2 \/ x.at \in {7, 9, 22, 27}
    BY <1>3, <1>5, Zenon DEF S1Up
  <2>2. x.at # 1
    BY <1>4 DEF MmeAct
  <2> QED
    BY <2>1, <2>2, <1>4, StateFacts
<1>7. x.id \in {0} \cup UeId /\ (x.at # 2 => x.id # 0)
    BY <1>4, <1>6, StateFacts DEF PlaceOK
<1>8. <<type, x.at>> \in {<<1, 2>>, <<2, 7>>, <<3, 9>>, <<4, 22>>, <<5, 27>>}
  <2>1. CASE x.at = 2
    <3>1. m = [Msg(1) EXCEPT !.imsi = c[1]]
      BY <1>5, <2>1 DEF S1Up
    <3>2. m.id = 0
      BY <3>1 DEF Msg
    <3> QED
      BY <1>3, <2>1, <3>2
  <2>2. CASE x.at = 7
    <3>1. m = [Msg(2) EXCEPT !.id = x.id, !.imsi = c[1]]
      BY <1>5, <2>2 DEF S1Up
    <3>2. m.id = x.id /\ m.type = 2
      BY <3>1 DEF Msg
    <3> QED
      BY <1>3, <1>7, <2>2, <3>2
  <2>3. CASE x.at = 9
    <3>1. m = [Msg(3) EXCEPT !.id = x.id]
      BY <1>5, <2>3 DEF S1Up
    <3>2. m.id = x.id /\ m.type = 3
      BY <3>1 DEF Msg
    <3> QED
      BY <1>3, <1>7, <2>3, <3>2
  <2>4. CASE x.at = 22
    <3>1. m = [Msg(4) EXCEPT !.id = x.id, !.teid = c[1]]
      BY <1>5, <2>4 DEF S1Up
    <3>2. m.id = x.id /\ m.type = 4
      BY <3>1 DEF Msg
    <3> QED
      BY <1>3, <1>7, <2>4, <3>2
  <2>5. CASE x.at = 27
    <3>1. m = [Msg(5) EXCEPT !.id = x.id, !.imsi = c[1]]
      BY <1>5, <2>5 DEF S1Up
    <3>2. m.id = x.id /\ m.type = 5
      BY <3>1 DEF Msg
    <3> QED
      BY <1>3, <1>7, <2>5, <3>2
  <2> QED
    BY <1>6, <2>1, <2>2, <2>3, <2>4, <2>5
<1>9. type # 1 => x.id \in UeId
    BY <1>7, <1>8
<1> QED
    BY <1>1, <1>2, <1>4, <1>5, <1>8, <1>9

\* What an event of the MME leaves alone.
MmeAlone == UNCHANGED <<ranVars, sgwVars, pgwVars>>

LEMMA MmeAcceptKeeps ==
    ASSUME TypeOK, NEW call \in [Call -> CallState], Calls(call), NEW k \in MmeCore, NEW c \in Call,
           MmeAccept(k, c), MmeAlone
    PROVE  CallInv'
<1>1. PICK x : x = call[c]
    OBVIOUS
<1>2. /\ link["s1"][c].state = "syn" /\ link' = Accept(link, "s1", c, k)
      /\ mme_fd' = [mme_fd EXCEPT ![c] = FromRan(FALSE)]
      /\ UNCHANGED <<exited, mme_removal, mme_srcaddr, ue_count, s1mme_id, mme_ctx>>
    BY DEF MmeAccept
<1>3. /\ x \in CallState /\ c[1] \in UE /\ S1OK(c[1], link["s1"][c], x)
      /\ S6aOK(c[1], link["s6a"][c], x) /\ S11OK(c[1], link["s11"][c], x)
    BY <1>1, Held
<1>4. x.at = 1
  <2>1. S1State(x.at) = "syn"
    BY <1>2, <1>3 DEF S1OK
  <2> QED
    BY <2>1, Zenon DEF S1State
<1>5. PICK y \in CallState : y.at = 2 /\ y.id = x.id
  <2>1. 2 \in 0 .. 44 /\ x.id \in {0} \cup UeId
    BY <1>3, StateFacts
  <2> QED
    BY <2>1, StateMade
<1>6. PICK q : q = [link["s1"][c] EXCEPT !.state = "open", !.core = k]
    OBVIOUS
<1>7. Put(link, link', "s1", c, q)
  <2>1. link \in Links /\ "s1" \in Interface /\ k \in Core
    BY LinkFacts DEF Core
  <2> QED
    BY <1>2, <1>6, <2>1, AcceptPuts
<1>8. LinksMove(c, y, link')
  <2>1. link["s1"][c] \in Link
    BY LinkFacts
  <2>2. /\ q.state = "open" /\ q.core = k /\ q.gone = link["s1"][c].gone
        /\ q.up = link["s1"][c].up /\ q.down = link["s1"][c].down
    BY <1>6, <2>1 DEF Link
  <2>3. S1State(y.at) = "open" /\ S1Up(c[1], y) = S1Up(c[1], x) /\ S1Down(c[1], y) = S1Down(c[1], x)
    BY <1>4, <1>5 DEF S1State, S1Up, S1Down
  <2>4. S1OK(c[1], q, y)
    BY <1>3, <1>4, <1>5, <2>2, <2>3 DEF S1OK
  <2>5. S6aOK(c[1], link["s6a"][c], y)
    BY <1>3, <1>4, <1>5, S6aIdle
  <2>6. S11OK(c[1], link["s11"][c], y)
    BY <1>3, <1>4, <1>5 DEF S11OK, S11State, S11Up, S11Down
  <2> QED
    BY <1>5, <1>7, <2>4, <2>5, <2>6 DEF LinksMove, Put, Interface
<1>9. MmeStep(call, c, y)
  <2>1. <<call[c].at, y.at>> \in MmeMoves /\ y.id = call[c].id /\ y.at # 10
    BY <1>1, <1>4, <1>5 DEF MmeMoves
  <2>2. MmeEntry(c[1], y) = FromRan(FALSE)
    BY <1>5 DEF MmeEntry, FromRan
  <2>3. mme_ctx \in [UE -> MmeContext \cup {None}]
    BY DEF TypeOK, MkbMmeTypeOK
  <2> QED
    BY <1>2, <2>1, <2>2, <2>3 DEF MmeStep, MmeAlone
<1>10. MmeOK(c[1], y)'
    BY <1>5 DEF MmeOK
<1> QED
    BY <1>8, <1>9, <1>10, MmeGoes

\* act 2.
LEMMA MmeHssConnectedKeeps ==
    ASSUME TypeOK, NEW call \in [Call -> CallState], Calls(call), NEW k \in MmeCore, NEW c \in Call,
           MmeHssConnected(k, c), MmeAlone
    PROVE  CallInv'
<1>1. PICK x : x = call[c]
    OBVIOUS
<1>2. /\ MmeEvent(k, c, 2)
      /\ link' = SendUp(Accept(link, "s6a", c, None), "s6a", c, mme_fd[c].buf)
      /\ mme_fd' = [mme_fd EXCEPT ![c] = [act |-> 3, sgw |-> FALSE, msui |-> mme_fd[c].msui, buf |-> None]]
      /\ UNCHANGED <<exited, mme_removal, mme_srcaddr, ue_count, s1mme_id, mme_ctx>>
    BY DEF MmeHssConnected, Wait
<1>3. /\ x \in CallState /\ c[1] \in UE /\ S1OK(c[1], link["s1"][c], x)
      /\ S6aOK(c[1], link["s6a"][c], x) /\ S11OK(c[1], link["s11"][c], x)
    BY <1>1, Held
<1>4. x.at = 3 /\ mme_fd[c] = MmeEntry(c[1], x)
  <2>1. MmeEvent(k, c, 2)
    BY <1>2
  <2>2. MmeAct(x.at) = 2 /\ mme_fd[c] = MmeEntry(c[1], x)
    <3>1. MmeAct(call[c].at) = 2 /\ mme_fd[c] = MmeEntry(c[1], call[c])
      BY <2>1, MmeEventFacts
    <3> QED
      BY <1>1, <3>1
  <2>3. x.at \in 0 .. 44
    BY <1>3, StateFacts
  <2> QED
    BY <2>2, <2>3 DEF MmeAct
<1>5. PICK y \in CallState : y.at = 4 /\ y.id = x.id
  <2>1. 4 \in 0 .. 44 /\ x.id \in {0} \cup UeId
    BY <1>3, StateFacts
  <2> QED
    BY <2>1, StateMade
<1>6. PICK m : m = [Msg(1) EXCEPT !.imsi = c[1]]
    OBVIOUS
<1>7. m \in Message
  <2>1. m = [type |-> 1, id |-> 0, imsi |-> c[1], teid |-> 0, ip |-> 0]
    BY <1>6 DEF Msg
  <2> QED
    BY <1>3, <2>1, TeidFacts DEF Message
<1>8. mme_fd[c].buf = m /\ mme_fd[c].msui = x.id
  <2>1. mme_fd[c] = MmeWait(2, x, m)
    BY <1>4, <1>6 DEF MmeEntry, FromRan, MmeWait
  <2> QED
    BY <2>1 DEF MmeWait
<1>9. PICK q : q = [[link["s6a"][c] EXCEPT !.state = "open", !.core = None] EXCEPT !.up = m]
    OBVIOUS
<1>10. Put(link, link', "s6a", c, q)
  <2>1. "s6a" \in Interface /\ link \in Links /\ None \in Core
    BY LinkFacts DEF Core
  <2>2. PICK r : r = Accept(link, "s6a", c, None)
    OBVIOUS
  <2>3. Put(link, r, "s6a", c, [link["s6a"][c] EXCEPT !.state = "open", !.core = None])
    BY <2>1, <2>2, AcceptPuts
  <2>4. r \in Links /\ r["s6a"][c] = [link["s6a"][c] EXCEPT !.state = "open", !.core = None]
    BY <2>3 DEF Put
  <2>5. Put(r, link', "s6a", c, [r["s6a"][c] EXCEPT !.up = m])
    BY <1>2, <1>7, <1>8, <2>1, <2>2, <2>4, SendUpPuts
  <2>6. Put(r, link', "s6a", c, q)
    BY <1>9, <2>4, <2>5
  <2> QED
    BY <2>3, <2>6, PutTwice
<1>11. LinksMove(c, y, link')
  <2>1. link["s6a"][c] \in Link
    BY LinkFacts
  <2>2. /\ q.state = "open" /\ q.core = None /\ q.gone = link["s6a"][c].gone
        /\ q.up = m /\ q.down = link["s6a"][c].down
    BY <1>9, <2>1 DEF Link
  <2>3. S6aOK(c[1], q, y)
    BY <1>3, <1>4, <1>5, <1>6, <2>2 DEF S6aOK
  <2>4. S1OK(c[1], link["s1"][c], y)
    BY <1>3, <1>4, <1>5 DEF S1OK, S1State, S1Up, S1Down
  <2>5. S11OK(c[1], link["s11"][c], y)
    BY <1>3, <1>4, <1>5 DEF S11OK, S11State, S11Up, S11Down
  <2> QED
    BY <1>5, <1>10, <2>3, <2>4, <2>5 DEF LinksMove, Put, Interface
<1>12. MmeStep(call, c, y)
  <2>1. <<call[c].at, y.at>> \in MmeMoves /\ y.id = call[c].id /\ y.at # 10
    BY <1>1, <1>4, <1>5 DEF MmeMoves
  <2>2. MmeEntry(c[1], y) = MmeWait(3, y, None)
    BY <1>5 DEF MmeEntry, FromRan, MmeWait
  <2>3. mme_fd' = [mme_fd EXCEPT ![c] = MmeEntry(c[1], y)]
    BY <1>2, <1>5, <1>8, <2>2 DEF MmeWait
  <2>4. mme_ctx \in [UE -> MmeContext \cup {None}]
    BY DEF TypeOK, MkbMmeTypeOK
  <2> QED
    BY <1>2, <2>1, <2>3, <2>4 DEF MmeStep, MmeAlone
<1>13. MmeOK(c[1], y)'
  <2>1. UserOK(c[1], x)
    BY <1>1, <1>4, CallNow
  <2>2. MmeOK(c[1], y)
    BY <1>4, <1>5, <2>1 DEF UserOK, MmeOK
  <2> QED
    BY <1>2, <1>3, <2>2, MmeStays
<1> QED
    BY <1>11, <1>12, <1>13, MmeGoes

\* What the MME knows of a subscriber whose call it has numbered.
LEMMA MmeKnows ==
    ASSUME TypeOK, NEW call \in [Call -> CallState], Calls(call), NEW c \in Call,
           call[c].at \in 3 .. 36
    PROVE  /\ UserOK(c[1], call[c]) /\ MmeOK(c[1], call[c])
           /\ call[c].id \in UeId /\ Guti(call[c].id) = c[1] /\ c[1] # 0
           /\ Context(c[1]) = mme_ctx[c[1]] /\ mme_ctx[c[1]] \in MmeContext
           /\ mme_ctx[c[1]].imsi = c[1]
<1>1. call[c] \in CallState /\ c[1] \in UE /\ PlaceOK(c, call[c])
    BY Held
<1>2. UserOK(c[1], call[c]) /\ MmeOK(c[1], call[c])
    BY CallNow DEF UserOK
<1>3. call[c].id \in UeId
    BY <1>1, StateFacts DEF PlaceOK
<1>4. s1mme_id[call[c].id] = c[1] /\ mme_ctx[c[1]] # None /\ mme_ctx[c[1]].imsi = c[1]
    BY <1>2 DEF MmeOK
<1>5. mme_ctx[c[1]] \in MmeContext
    BY <1>1, <1>4 DEF TypeOK, MkbMmeTypeOK
<1> QED
    BY <1>1, <1>2, <1>3, <1>4, <1>5, Constants DEF Guti, Context

\* Its context changes, and holds what the call's step calls for.
LEMMA ContextSet ==
    ASSUME TypeOK, NEW u \in UE, NEW ctx \in MmeContext, SetContext(u, ctx)
    PROVE  /\ mme_ctx' \in [UE -> MmeContext \cup {None}] /\ mme_ctx'[u] = ctx
           /\ \A v \in UE \ {u} : mme_ctx'[v] = mme_ctx[v]
BY DEF TypeOK, MkbMmeTypeOK, SetContext

LEMMA MmeSetOK ==
    ASSUME NEW u \in UE, NEW x \in CallState, NEW y \in CallState, MmeOK(u, x), y.id = x.id,
           x.at \in 3 .. 36, y.at \in 3 .. 36, s1mme_id' = s1mme_id, None \notin MmeContext,
           mme_ctx'[u] \in MmeContext, mme_ctx'[u].imsi = u,
           y.at \in 6 .. 36 => mme_ctx'[u].xres = u,
           y.at \in 21 .. 36 => mme_ctx'[u].s11_cteid_sgw = u,
           y.at \in 25 .. 36 => mme_ctx'[u].ecm_state = 1
    PROVE  MmeOK(u, y)'
<1>1. ~(y.at \in 37 .. 38)
    OBVIOUS
<1>2. s1mme_id'[y.id] = u /\ mme_ctx'[u] # None
    BY DEF MmeOK
<1> QED
    BY <1>1, <1>2 DEF MmeOK

\* act 3.
LEMMA MmeHssAnswerKeeps ==
    ASSUME TypeOK, NEW call \in [Call -> CallState], Calls(call), NEW k \in MmeCore, NEW c \in Call,
           MmeHssAnswer(k, c), MmeAlone
    PROVE  CallInv'
<1>1. PICK x : x = call[c]
    OBVIOUS
<1>2. /\ MmeEvent(k, c, 3) /\ link["s6a"][c].down # None
      /\ \E guti \in GutiOf(mme_fd[c].msui) :
            SetContext(guti, [Context(guti) EXCEPT !.xres = link["s6a"][c].down.imsi,
                                                   !.imsi = IF @ = 0 THEN guti ELSE @])
      /\ link' = [SendDown(link, "s1", c, [Msg(1) EXCEPT !.id = mme_fd[c].msui,
                                                        !.imsi = link["s6a"][c].down.imsi])
                     EXCEPT !["s6a"][c] = NoLink]
      /\ mme_fd' = [mme_fd EXCEPT ![c] = FromRan(FALSE)]
      /\ UNCHANGED <<exited, mme_removal, mme_srcaddr, ue_count, s1mme_id>>
    BY DEF MmeHssAnswer
<1>3. /\ x \in CallState /\ c[1] \in UE /\ S1OK(c[1], link["s1"][c], x)
      /\ S6aOK(c[1], link["s6a"][c], x) /\ S11OK(c[1], link["s11"][c], x)
    BY <1>1, Held
<1>4. x.at = 5 /\ mme_fd[c] = MmeEntry(c[1], x)
  <2>1. MmeEvent(k, c, 3)
    BY <1>2
  <2>2. MmeAct(x.at) = 3 /\ mme_fd[c] = MmeEntry(c[1], x)
    BY <1>1, <2>1, MmeEventFacts
  <2>3. x.at \in 0 .. 44
    BY <1>3, StateFacts
  <2>4. x.at \in 4 .. 5
    BY <2>2, <2>3 DEF MmeAct
  <2> QED
    BY <1>2, <1>3, <2>2, <2>4 DEF S6aOK
<1>5. PICK y \in CallState : y.at = 6 /\ y.id = x.id
  <2>1. 6 \in 0 .. 44 /\ x.id \in {0} \cup UeId
    BY <1>3, StateFacts
  <2> QED
    BY <2>1, StateMade
<1>6. /\ MmeOK(c[1], x) /\ x.id \in UeId /\ Guti(x.id) = c[1] /\ c[1] # 0
      /\ Context(c[1]) = mme_ctx[c[1]] /\ mme_ctx[c[1]] \in MmeContext /\ mme_ctx[c[1]].imsi = c[1]
    BY <1>1, <1>4, MmeKnows
<1>7. mme_fd[c].msui = x.id
  <2>1. mme_fd[c] = MmeWait(3, x, None)
    BY <1>4 DEF MmeEntry, FromRan, MmeWait
  <2> QED
    BY <2>1 DEF MmeWait
<1>8. link["s6a"][c].down.imsi = c[1]
  <2>1. link["s6a"][c].down = [Msg(1) EXCEPT !.imsi = c[1]]
    BY <1>3, <1>4 DEF S6aOK
  <2> QED
    BY <2>1 DEF Msg
<1>9. PICK ctx : ctx = [mme_ctx[c[1]] EXCEPT !.xres = c[1], !.imsi = IF @ = 0 THEN c[1] ELSE @]
    OBVIOUS
<1>10. ctx \in MmeContext /\ ctx.imsi = c[1] /\ ctx.xres = c[1]
    BY <1>3, <1>6, <1>9, TeidFacts DEF MmeContext
<1>11. SetContext(c[1], ctx)
  <2>1. GutiOf(mme_fd[c].msui) = {c[1]}
    BY <1>6, <1>7 DEF GutiOf
  <2> QED
    BY <1>2, <1>6, <1>8, <1>9, <2>1
<1>12. PICK m : m = [Msg(1) EXCEPT !.id = x.id, !.imsi = c[1]]
    OBVIOUS
<1>13. m \in Message
  <2>1. m = [type |-> 1, id |-> x.id, imsi |-> c[1], teid |-> 0, ip |-> 0]
    BY <1>12 DEF Msg
  <2> QED
    BY <1>3, <1>6, <2>1, TeidFacts DEF Message
<1>14. PICK q : q = [link["s1"][c] EXCEPT !.down = m]
    OBVIOUS
<1>15. PutBoth(link, link', "s1", "s6a", c, q, NoLink)
  <2>1. "s1" \in Interface /\ "s6a" \in Interface /\ link \in Links
    BY LinkFacts
  <2>2. PICK r : r = SendDown(link, "s1", c, m)
    OBVIOUS
  <2>3. Put(link, r, "s1", c, q)
    BY <1>13, <1>14, <2>1, <2>2, SendDownPuts
  <2>4. r \in Links
    BY <2>3 DEF Put
  <2>5. link' = [r EXCEPT !["s6a"][c] = NoLink]
    BY <1>2, <1>7, <1>8, <1>12, <2>2
  <2>6. Put(r, link', "s6a", c, NoLink)
    BY <2>1, <2>4, <2>5, PutFacts, NoLinkType
  <2> QED
    BY <2>1, <2>3, <2>6, PutsBoth
<1>16. LinksMove(c, y, link')
  <2>1. link["s1"][c] \in Link
    BY LinkFacts
  <2>2. /\ q.state = link["s1"][c].state /\ q.gone = link["s1"][c].gone
        /\ q.core = link["s1"][c].core /\ q.up = link["s1"][c].up /\ q.down = m
    BY <1>14, <2>1 DEF Link
  <2>3. m = S1Down(c[1], y) /\ link["s1"][c].up = S1Up(c[1], y)
    BY <1>3, <1>4, <1>5, <1>12 DEF S1OK, S1Down, S1Up
  <2>4. S1OK(c[1], q, y)
    BY <1>3, <1>4, <1>5, <2>2, <2>3, S1Served
  <2>5. S6aOK(c[1], NoLink, y)
    BY <1>5 DEF S6aOK, NoLink
  <2>6. S11OK(c[1], link["s11"][c], y)
    BY <1>3, <1>4, <1>5 DEF S11OK, S11State, S11Up, S11Down
  <2> QED
    BY <1>5, <1>15, <2>4, <2>5, <2>6 DEF LinksMove, PutBoth, Interface
<1>17. mme_ctx' \in [UE -> MmeContext \cup {None}] /\ mme_ctx'[c[1]] = ctx
       /\ \A v \in UE \ {c[1]} : mme_ctx'[v] = mme_ctx[v]
    BY <1>3, <1>10, <1>11, ContextSet
<1>18. MmeStep(call, c, y)
  <2>1. <<call[c].at, y.at>> \in MmeMoves /\ y.id = call[c].id /\ y.at # 10
    BY <1>1, <1>4, <1>5 DEF MmeMoves
  <2>2. MmeEntry(c[1], y) = FromRan(FALSE)
    BY <1>5 DEF MmeEntry, FromRan
  <2> QED
    BY <1>2, <1>17, <2>1, <2>2 DEF MmeStep, MmeAlone
<1>19. MmeOK(c[1], y)'
  <2>1. s1mme_id' = s1mme_id /\ mme_ctx'[c[1]] \in MmeContext /\ mme_ctx'[c[1]].imsi = c[1]
        /\ mme_ctx'[c[1]].xres = c[1]
    BY <1>2, <1>10, <1>17
  <2>2. x.at \in 3 .. 36 /\ y.at \in 3 .. 36 /\ y.at \notin 21 .. 36 /\ y.at \notin 25 .. 36
        /\ None \notin MmeContext
    BY <1>4, <1>5, Constants
  <2> QED
    BY <1>3, <1>5, <1>6, <2>1, <2>2, MmeSetOK
<1> QED
    BY <1>16, <1>18, <1>19, MmeGoes

\* act 1, second attach.
LEMMA MmeAttachTwoKeeps ==
    ASSUME TypeOK, NEW call \in [Call -> CallState], Calls(call), NEW k \in MmeCore, NEW c \in Call,
           MmeAttachTwo(k, c), MmeAlone
    PROVE  CallInv'
<1>1. PICK x : x = call[c]
    OBVIOUS
<1>2. /\ MmeRequest(k, c, 2)
      /\ LET m == link["s1"][c].up
         IN  IF Guti(m.id) = 0 \/ Context(Guti(m.id)).xres # m.imsi THEN MmeExit
             ELSE /\ link' = SendDown(ReadUp(link, "s1", c), "s1", c, [Msg(2) EXCEPT !.id = m.id])
                  /\ mme_fd' = [mme_fd EXCEPT ![c] = FromRan(FALSE)]
                  /\ UNCHANGED <<exited, mme_removal, mme_srcaddr, ue_count, s1mme_id, mme_ctx>>
    BY DEF MmeAttachTwo
<1>3. /\ x \in CallState /\ c[1] \in UE /\ S1OK(c[1], link["s1"][c], x)
      /\ S6aOK(c[1], link["s6a"][c], x) /\ S11OK(c[1], link["s11"][c], x)
    BY <1>1, Held
<1>4. x.at = 7 /\ link["s1"][c].up = S1Up(c[1], x)
  <2>1. MmeRequest(k, c, 2)
    BY <1>2
  <2>2. <<2, call[c].at>> \in {<<1, 2>>, <<2, 7>>, <<3, 9>>, <<4, 22>>, <<5, 27>>}
        /\ link["s1"][c].up = S1Up(c[1], call[c])
    BY <2>1, MmeRequestFacts
  <2> QED
    BY <1>1, <2>2
<1>5. PICK y \in CallState : y.at = 8 /\ y.id = x.id
  <2>1. 8 \in 0 .. 44 /\ x.id \in {0} \cup UeId
    BY <1>3, StateFacts
  <2> QED
    BY <2>1, StateMade
<1>6. /\ MmeOK(c[1], x) /\ x.id \in UeId /\ Guti(x.id) = c[1] /\ c[1] # 0
      /\ Context(c[1]) = mme_ctx[c[1]] /\ mme_ctx[c[1]] \in MmeContext /\ mme_ctx[c[1]].imsi = c[1]
    BY <1>1, <1>4, MmeKnows
<1>7. link["s1"][c].up.id = x.id /\ link["s1"][c].up.imsi = c[1]
  <2>1. link["s1"][c].up = [Msg(2) EXCEPT !.id = x.id, !.imsi = c[1]]
    BY <1>4 DEF S1Up
  <2> QED
    BY <2>1 DEF Msg
<1>8. /\ link' = SendDown(ReadUp(link, "s1", c), "s1", c, [Msg(2) EXCEPT !.id = x.id])
      /\ mme_fd' = [mme_fd EXCEPT ![c] = FromRan(FALSE)]
      /\ UNCHANGED <<exited, mme_removal, mme_srcaddr, ue_count, s1mme_id, mme_ctx>>
  <2>1. mme_ctx[c[1]].xres = c[1]
    BY <1>4, <1>6 DEF MmeOK
  <2> QED
    BY <1>2, <1>6, <1>7, <2>1
<1>9. PICK m : m = [Msg(2) EXCEPT !.id = x.id]
    OBVIOUS
<1>10. m \in Message
  <2>1. m = [type |-> 2, id |-> x.id, imsi |-> 0, teid |-> 0, ip |-> 0]
    BY <1>9 DEF Msg
  <2> QED
    BY <1>6, <2>1, TeidFacts DEF Message
<1>11. PICK q : q = [[link["s1"][c] EXCEPT !.up = None] EXCEPT !.down = m]
    OBVIOUS
<1>12. Put(link, link', "s1", c, q)
  <2>1. "s1" \in Interface /\ link \in Links
    BY LinkFacts
  <2>2. PICK r : r = ReadUp(link, "s1", c)
    OBVIOUS
  <2>3. Put(link, r, "s1", c, [link["s1"][c] EXCEPT !.up = None])
    BY <2>1, <2>2, ReadUpPuts
  <2>4. r \in Links /\ r["s1"][c] = [link["s1"][c] EXCEPT !.up = None]
    BY <2>3 DEF Put
  <2>5. Put(r, link', "s1", c, [r["s1"][c] EXCEPT !.down = m])
    BY <1>8, <1>9, <1>10, <2>1, <2>2, <2>4, SendDownPuts
  <2>6. Put(r, link', "s1", c, q)
    BY <1>11, <2>4, <2>5
  <2> QED
    BY <2>3, <2>6, PutTwice
<1>13. LinksMove(c, y, link')
  <2>1. link["s1"][c] \in Link
    BY LinkFacts
  <2>2. /\ q.state = link["s1"][c].state /\ q.gone = link["s1"][c].gone
        /\ q.core = link["s1"][c].core /\ q.up = None /\ q.down = m
    BY <1>11, <2>1 DEF Link
  <2>3. m = S1Down(c[1], y) /\ None = S1Up(c[1], y)
    BY <1>5, <1>9 DEF S1Down, S1Up
  <2>4. S1OK(c[1], q, y)
    BY <1>3, <1>4, <1>5, <2>2, <2>3, S1Served
  <2>5. S6aOK(c[1], link["s6a"][c], y)
    BY <1>3, <1>4, <1>5, S6aIdle
  <2>6. S11OK(c[1], link["s11"][c], y)
    BY <1>3, <1>4, <1>5 DEF S11OK, S11State, S11Up, S11Down
  <2> QED
    BY <1>5, <1>12, <2>4, <2>5, <2>6 DEF LinksMove, Put, Interface
<1>14. MmeStep(call, c, y)
  <2>1. <<call[c].at, y.at>> \in MmeMoves /\ y.id = call[c].id /\ y.at # 10
    BY <1>1, <1>4, <1>5 DEF MmeMoves
  <2>2. MmeEntry(c[1], y) = FromRan(FALSE)
    BY <1>5 DEF MmeEntry, FromRan
  <2>3. mme_ctx \in [UE -> MmeContext \cup {None}]
    BY DEF TypeOK, MkbMmeTypeOK
  <2> QED
    BY <1>8, <2>1, <2>2, <2>3 DEF MmeStep, MmeAlone
<1>15. MmeOK(c[1], y)'
  <2>1. MmeOK(c[1], y)
    BY <1>4, <1>5, <1>6 DEF MmeOK
  <2> QED
    BY <1>3, <1>8, <2>1, MmeStays
<1> QED
    BY <1>13, <1>14, <1>15, MmeGoes

\* act 1, third attach.
LEMMA MmeAttachThreeKeeps ==
    ASSUME TypeOK, NEW call \in [Call -> CallState], Calls(call), NEW k \in MmeCore, NEW c \in Call,
           MmeAttachThree(k, c), MmeAlone
    PROVE  CallInv'
<1>1. PICK x : x = call[c]
    OBVIOUS
<1>2. /\ MmeRequest(k, c, 3)
      /\ LET id   == link["s1"][c].up.id
             guti == Guti(id)
         IN  IF guti = 0 THEN MmeExit
             ELSE /\ mme_srcaddr' = mme_srcaddr \cup {c}
                  /\ mme_fd' = [mme_fd EXCEPT ![c] = [act |-> 4, sgw |-> FALSE, msui |-> id,
                        buf |-> [Msg(1) EXCEPT !.teid = guti, !.imsi = Context(guti).imsi]]]
                  /\ link' = Connect(ReadUp(link, "s1", c), "s11", c)
                  /\ UNCHANGED <<exited, mme_removal, ue_count, s1mme_id, mme_ctx>>
    BY DEF MmeAttachThree, Wait
<1>3. /\ x \in CallState /\ c[1] \in UE /\ S1OK(c[1], link["s1"][c], x)
      /\ S6aOK(c[1], link["s6a"][c], x) /\ S11OK(c[1], link["s11"][c], x)
    BY <1>1, Held
<1>4. x.at = 9 /\ link["s1"][c].up = S1Up(c[1], x)
  <2>1. MmeRequest(k, c, 3)
    BY <1>2
  <2>2. <<3, call[c].at>> \in {<<1, 2>>, <<2, 7>>, <<3, 9>>, <<4, 22>>, <<5, 27>>}
        /\ link["s1"][c].up = S1Up(c[1], call[c])
    BY <2>1, MmeRequestFacts
  <2> QED
    BY <1>1, <2>2
<1>5. PICK y \in CallState : y.at = 10 /\ y.id = x.id
  <2>1. 10 \in 0 .. 44 /\ x.id \in {0} \cup UeId
    BY <1>3, StateFacts
  <2> QED
    BY <2>1, StateMade
<1>6. /\ MmeOK(c[1], x) /\ x.id \in UeId /\ Guti(x.id) = c[1] /\ c[1] # 0
      /\ Context(c[1]) = mme_ctx[c[1]] /\ mme_ctx[c[1]] \in MmeContext /\ mme_ctx[c[1]].imsi = c[1]
    BY <1>1, <1>4, MmeKnows
<1>7. link["s1"][c].up.id = x.id
  <2>1. link["s1"][c].up = [Msg(3) EXCEPT !.id = x.id]
    BY <1>4 DEF S1Up
  <2> QED
    BY <2>1 DEF Msg
<1>8. /\ mme_srcaddr' = mme_srcaddr \cup {c}
      /\ mme_fd' = [mme_fd EXCEPT ![c] = [act |-> 4, sgw |-> FALSE, msui |-> x.id,
                        buf |-> [Msg(1) EXCEPT !.teid = c[1], !.imsi = c[1]]]]
      /\ link' = Connect(ReadUp(link, "s1", c), "s11", c)
      /\ UNCHANGED <<exited, mme_removal, ue_count, s1mme_id, mme_ctx>>
    BY <1>2, <1>6, <1>7, ZenonT(40)
<1>9. PICK q : q = [link["s1"][c] EXCEPT !.up = None]
    OBVIOUS
<1>10. PICK p : p = [NoLink EXCEPT !.state = "syn"]
    OBVIOUS
<1>11. PutBoth(link, link', "s1", "s11", c, q, p)
  <2>1. "s1" \in Interface /\ "s11" \in Interface /\ link \in Links
    BY LinkFacts
  <2>2. PICK r : r = ReadUp(link, "s1", c)
    OBVIOUS
  <2>3. Put(link, r, "s1", c, q)
    BY <1>9, <2>1, <2>2, ReadUpPuts
  <2>4. r \in Links
    BY <2>3 DEF Put
  <2>5. link' = Connect(r, "s11", c)
    BY <1>8, <2>2
  <2>6. Put(r, link', "s11", c, p)
    BY <1>10, <2>1, <2>4, <2>5, ConnectPuts
  <2> QED
    BY <2>1, <2>3, <2>6, PutsBoth
<1>12. LinksMove(c, y, link')
  <2>1. link["s1"][c] \in Link
    BY LinkFacts
  <2>2. /\ q.state = link["s1"][c].state /\ q.gone = link["s1"][c].gone
        /\ q.core = link["s1"][c].core /\ q.up = None /\ q.down = link["s1"][c].down
    BY <1>9, <2>1 DEF Link
  <2>3. link["s1"][c].down = S1Down(c[1], y) /\ None = S1Up(c[1], y)
    BY <1>3, <1>4, <1>5 DEF S1OK, S1Down, S1Up
  <2>4. S1OK(c[1], q, y)
    BY <1>3, <1>4, <1>5, <2>2, <2>3, S1Served
  <2>5. S6aOK(c[1], link["s6a"][c], y)
    BY <1>3, <1>4, <1>5, S6aIdle
  <2>6. p.state = "syn" /\ ~p.gone /\ p.core = None /\ p.up = None /\ p.down = None
    BY <1>10 DEF NoLink
  <2>7. S11OK(c[1], p, y)
    BY <1>5, <2>6 DEF S11OK, S11State, S11Up, S11Down
  <2> QED
    BY <1>5, <1>11, <2>4, <2>5, <2>6, <2>7 DEF LinksMove, PutBoth, Interface
<1>13. MmeStep(call, c, y)
  <2>1. <<call[c].at, y.at>> \in MmeMoves /\ y.id = call[c].id
    BY <1>1, <1>4, <1>5 DEF MmeMoves
  <2>2. MmeEntry(c[1], y) = MmeWait(4, y, [Msg(1) EXCEPT !.teid = c[1], !.imsi = c[1]])
    BY <1>5 DEF MmeEntry, FromRan, MmeWait
  <2>3. mme_fd' = [mme_fd EXCEPT ![c] = MmeEntry(c[1], y)]
    BY <1>5, <1>8, <2>2 DEF MmeWait
  <2>4. mme_ctx \in [UE -> MmeContext \cup {None}]
    BY DEF TypeOK, MkbMmeTypeOK
  <2> QED
    BY <1>5, <1>8, <2>1, <2>3, <2>4 DEF MmeStep, MmeAlone
<1>14. MmeOK(c[1], y)'
  <2>1. MmeOK(c[1], y)
    BY <1>4, <1>5, <1>6 DEF MmeOK
  <2> QED
    BY <1>3, <1>8, <2>1, MmeStays
<1> QED
    BY <1>12, <1>13, <1>14, MmeGoes

\* act 4.
LEMMA MmeSgwConnectedKeeps ==
    ASSUME TypeOK, NEW call \in [Call -> CallState], Calls(call), NEW k \in MmeCore, NEW c \in Call,
           MmeSgwConnected(k, c), MmeAlone
    PROVE  CallInv'
<1>1. PICK x : x = call[c]
    OBVIOUS
<1>2. /\ MmeEvent(k, c, 4)
      /\ link' = SendUp(link, "s11", c, mme_fd[c].buf)
      /\ mme_fd' = [mme_fd EXCEPT ![c] = [act |-> 5, sgw |-> FALSE, msui |-> mme_fd[c].msui, buf |-> None]]
      /\ UNCHANGED <<exited, mme_removal, mme_srcaddr, ue_count, s1mme_id, mme_ctx>>
    BY DEF MmeSgwConnected, Wait
<1>3. /\ x \in CallState /\ c[1] \in UE /\ S1OK(c[1], link["s1"][c], x)
      /\ S6aOK(c[1], link["s6a"][c], x) /\ S11OK(c[1], link["s11"][c], x)
    BY <1>1, Held
<1>4. x.at = 10 /\ mme_fd[c] = MmeEntry(c[1], x)
  <2>1. MmeEvent(k, c, 4)
    BY <1>2
  <2>2. MmeAct(x.at) = 4 /\ mme_fd[c] = MmeEntry(c[1], x)
    BY <1>1, <2>1, MmeEventFacts
  <2>3. x.at \in 0 .. 44
    BY <1>3, StateFacts
  <2> QED
    BY <2>2, <2>3 DEF MmeAct
<1>5. PICK y \in CallState : y.at = 11 /\ y.id = x.id
  <2>1. 11 \in 0 .. 44 /\ x.id \in {0} \cup UeId
    BY <1>3, StateFacts
  <2> QED
    BY <2>1, StateMade
<1>6. PICK m : m = [Msg(1) EXCEPT !.teid = c[1], !.imsi = c[1]]
    OBVIOUS
<1>7. m \in Message
  <2>1. m = [type |-> 1, id |-> 0, imsi |-> c[1], teid |-> c[1], ip |-> 0]
    BY <1>6 DEF Msg
  <2> QED
    BY <1>3, <2>1, TeidFacts DEF Message
<1>8. mme_fd[c].buf = m /\ mme_fd[c].msui = x.id
  <2>1. mme_fd[c] = MmeWait(4, x, m)
    BY <1>4, <1>6 DEF MmeEntry, FromRan, MmeWait
  <2> QED
    BY <2>1 DEF MmeWait
<1>9. PICK q : q = [link["s11"][c] EXCEPT !.up = m]
    OBVIOUS
<1>10. Put(link, link', "s11", c, q)
  <2>1. "s11" \in Interface /\ link \in Links
    BY LinkFacts
  <2> QED
    BY <1>2, <1>7, <1>8, <1>9, <2>1, SendUpPuts
<1>11. LinksMove(c, y, link')
  <2>1. link["s11"][c] \in Link
    BY LinkFacts
  <2>2. /\ q.state = link["s11"][c].state /\ q.core = link["s11"][c].core
        /\ q.gone = link["s11"][c].gone /\ q.up = m /\ q.down = link["s11"][c].down
    BY <1>9, <2>1 DEF Link
  <2>3. S11State(x.at) = S11State(y.at) /\ m = S11Up(c[1], y.at) /\ q.down = S11Down(c[1], y.at)
    BY <1>3, <1>4, <1>5, <1>6, <2>2 DEF S11OK, S11State, S11Up, S11Down
  <2>4. S11OK(c[1], q, y)
    BY <1>3, <1>4, <1>5, <2>2, <2>3 DEF S11OK
  <2>5. S1OK(c[1], link["s1"][c], y)
    BY <1>3, <1>4, <1>5 DEF S1OK, S1State, S1Up, S1Down
  <2>6. S6aOK(c[1], link["s6a"][c], y)
    BY <1>3, <1>4, <1>5, S6aIdle
  <2> QED
    BY <1>5, <1>10, <2>2, <2>4, <2>5, <2>6 DEF LinksMove, Put, Interface
<1>12. MmeStep(call, c, y)
  <2>1. <<call[c].at, y.at>> \in MmeMoves /\ y.id = call[c].id /\ y.at # 10
    BY <1>1, <1>4, <1>5 DEF MmeMoves
  <2>2. MmeEntry(c[1], y) = MmeWait(5, y, None)
    BY <1>5 DEF MmeEntry, FromRan, MmeWait
  <2>3. mme_fd' = [mme_fd EXCEPT ![c] = MmeEntry(c[1], y)]
    BY <1>2, <1>5, <1>8, <2>2 DEF MmeWait
  <2>4. mme_ctx \in [UE -> MmeContext \cup {None}]
    BY DEF TypeOK, MkbMmeTypeOK
  <2> QED
    BY <1>2, <2>1, <2>3, <2>4 DEF MmeStep, MmeAlone
<1>13. MmeOK(c[1], y)'
  <2>1. UserOK(c[1], x)
    BY <1>1, <1>4, CallNow
  <2>2. MmeOK(c[1], y)
    BY <1>4, <1>5, <2>1 DEF UserOK, MmeOK
  <2> QED
    BY <1>2, <1>3, <2>2, MmeStays
<1> QED
    BY <1>11, <1>12, <1>13, MmeGoes

\* An answer of the SGW, and where the call is then.
LEMMA SgwAnswered ==
    ASSUME TypeOK, NEW call \in [Call -> CallState], Calls(call), NEW k, NEW c \in Call,
           NEW act \in 5 .. 7, MmeSgwAnswer(k, c, act)
    PROVE  /\ <<act, call[c].at>> \in {<<5, 20>>, <<6, 24>>, <<7, 36>>}
           /\ link["s11"][c].down = S11Down(c[1], call[c].at)
           /\ mme_fd[c].msui = call[c].id
           /\ mme_removal[k] = None /\ link["s1"][c].core = k
<1>1. PICK x : x = call[c]
    OBVIOUS
<1>2. act \in 1 .. 7 /\ MmeEvent(k, c, act) /\ link["s11"][c].down # None
    BY DEF MmeSgwAnswer
<1>3. /\ MmeAct(call[c].at) = act /\ mme_fd[c] = MmeEntry(c[1], call[c]) /\ call[c] \in CallState
      /\ mme_removal[k] = None /\ link["s1"][c].core = k
    BY <1>2, MmeEventFacts
<1>4. x.at \in 0 .. 44 /\ MmeAct(x.at) = act /\ link["s11"][c].down = S11Down(c[1], x.at)
  <2>1. S11OK(c[1], link["s11"][c], call[c])
    BY Held
  <2> QED
    BY <1>1, <1>3, <2>1, StateFacts DEF S11OK
<1>5. x.at \in {20, 24, 36}
    BY <1>2, <1>4, Zenon DEF S11Down
<1>6. <<act, x.at>> \in {<<5, 20>>, <<6, 24>>, <<7, 36>>}
    BY <1>4, <1>5 DEF MmeAct
<1>7. mme_fd[c].msui = x.id
  <2>1. CASE x.at = 20
    <3>1. mme_fd[c] = MmeWait(5, x, None)
      BY <1>1, <1>3, <2>1 DEF MmeEntry, FromRan, MmeWait
    <3> QED
      BY <3>1 DEF MmeWait
  <2>2. CASE x.at = 24
    <3>1. mme_fd[c] = MmeWait(6, x, None)
      BY <1>1, <1>3, <2>2 DEF MmeEntry, FromRan, MmeWait
    <3> QED
      BY <3>1 DEF MmeWait
  <2>3. CASE x.at = 36
    <3>1. mme_fd[c] = MmeWait(7, x, None)
      BY <1>1, <1>3, <2>3 DEF MmeEntry, FromRan, MmeWait
    <3> QED
      BY <3>1 DEF MmeWait
  <2> QED
    BY <1>5, <2>1, <2>2, <2>3
<1> QED
    BY <1>1, <1>3, <1>4, <1>6, <1>7

\* The terminal gets the answer m that it waits for.
LEMMA Resumed ==
    ASSUME TypeOK, NEW call \in [Call -> CallState], Calls(call), NEW c \in Call,
           NEW y \in CallState, <<call[c].at, y.at>> \in {<<20, 21>>, <<24, 25>>}, y.id = call[c].id,
           NEW m \in Message, m = S1Down(c[1], y), Resume(c, m), MmeAlone,
           mme_ctx' \in [UE -> MmeContext \cup {None}],
           \A v \in UE \ {c[1]} : mme_ctx'[v] = mme_ctx[v]
    PROVE  LinksMove(c, y, link') /\ MmeStep(call, c, y)
<1>1. PICK x : x = call[c]
    OBVIOUS
<1>2. /\ link' = SendDown(ReadDown(link, "s11", c), "s1", c, m)
      /\ mme_fd' = [mme_fd EXCEPT ![c] = FromRan(TRUE)]
      /\ UNCHANGED <<exited, mme_removal, mme_srcaddr, ue_count, s1mme_id>>
    BY DEF Resume
<1>3. /\ x \in CallState /\ c[1] \in UE /\ S1OK(c[1], link["s1"][c], x)
      /\ S6aOK(c[1], link["s6a"][c], x) /\ S11OK(c[1], link["s11"][c], x)
    BY <1>1, Held
<1>4. x.at \in {20, 24} /\ y.at \in {21, 25}
    BY <1>1
<1>5. PICK q : q = [link["s11"][c] EXCEPT !.down = None]
    OBVIOUS
<1>6. PICK p : p = [link["s1"][c] EXCEPT !.down = m]
    OBVIOUS
<1>7. PutBoth(link, link', "s11", "s1", c, q, p)
  <2>1. "s1" \in Interface /\ "s11" \in Interface /\ link \in Links
    BY LinkFacts
  <2>2. PICK r : r = ReadDown(link, "s11", c)
    OBVIOUS
  <2>3. Put(link, r, "s11", c, q)
    BY <1>5, <2>1, <2>2, ReadDownPuts
  <2>4. r \in Links /\ r["s1"][c] = link["s1"][c]
    BY <2>1, <2>3 DEF Put
  <2>5. link' = SendDown(r, "s1", c, m)
    BY <1>2, <2>2
  <2>6. Put(r, link', "s1", c, p)
    BY <1>6, <2>1, <2>4, <2>5, SendDownPuts
  <2> QED
    BY <2>1, <2>3, <2>6, PutsBoth
<1>8. LinksMove(c, y, link')
  <2>1. link["s1"][c] \in Link /\ link["s11"][c] \in Link
    BY LinkFacts
  <2>2. /\ p.state = link["s1"][c].state /\ p.gone = link["s1"][c].gone
        /\ p.core = link["s1"][c].core /\ p.up = link["s1"][c].up /\ p.down = m
    BY <1>6, <2>1 DEF Link
  <2>3. /\ q.state = link["s11"][c].state /\ q.gone = link["s11"][c].gone
        /\ q.core = link["s11"][c].core /\ q.up = link["s11"][c].up /\ q.down = None
    BY <1>5, <2>1 DEF Link
  <2>4. p.up = S1Up(c[1], y)
    BY <1>3, <1>4, <2>2 DEF S1OK, S1Up
  <2>5. q.up = S11Up(c[1], y.at) /\ None = S11Down(c[1], y.at) /\ S11State(x.at) = S11State(y.at)
    BY <1>3, <1>4, <2>3 DEF S11OK, S11Up, S11Down, S11State
  <2>6. x.at \in 2 .. 36 /\ y.at \in 2 .. 36 /\ x.at \notin 3 .. 5 /\ y.at \notin 3 .. 5
        /\ x.at # 42 /\ y.at # 42 /\ y.at # 10
    BY <1>4
  <2>7. S1OK(c[1], p, y)
    BY <1>3, <2>2, <2>4, <2>6, S1Served
  <2>8. S6aOK(c[1], link["s6a"][c], y)
    BY <1>3, <2>6, S6aIdle
  <2>9. S11OK(c[1], q, y)
    BY <1>3, <2>3, <2>5, <2>6, S11Served
  <2> QED
    BY <1>7, <2>3, <2>6, <2>7, <2>8, <2>9 DEF LinksMove, PutBoth, Interface
<1>9. MmeStep(call, c, y)
  <2>1. <<call[c].at, y.at>> \in MmeMoves /\ y.at # 10
    BY <1>4 DEF MmeMoves
  <2>2. MmeEntry(c[1], y) = FromRan(TRUE)
    BY <1>4 DEF MmeEntry, FromRan
  <2> QED
    BY <1>2, <2>1, <2>2 DEF MmeStep, MmeAlone
<1> QED
    BY <1>8, <1>9

\* The request m of the terminal goes on to the SGW, and act waits for the answer.
LEMMA Forwarded ==
    ASSUME TypeOK, NEW call \in [Call -> CallState], Calls(call), NEW c \in Call,
           NEW y \in CallState, <<call[c].at, y.at>> \in {<<22, 23>>, <<27, 28>>}, y.id = call[c].id,
           NEW m \in Message, m = S11Up(c[1], y.at),
           Forward(c, IF y.at = 23 THEN 6 ELSE 7, y.id, m), MmeAlone,
           mme_ctx' \in [UE -> MmeContext \cup {None}],
           \A v \in UE \ {c[1]} : mme_ctx'[v] = mme_ctx[v]
    PROVE  LinksMove(c, y, link') /\ MmeStep(call, c, y)
<1>1. PICK x : x = call[c]
    OBVIOUS
<1>2. /\ link' = SendUp(ReadUp(link, "s1", c), "s11", c, m)
      /\ mme_fd' = [mme_fd EXCEPT ![c] = MmeWait(IF y.at = 23 THEN 6 ELSE 7, y, None)]
      /\ UNCHANGED <<exited, mme_removal, mme_srcaddr, ue_count, s1mme_id>>
    BY DEF Forward, Wait, MmeWait
<1>3. /\ x \in CallState /\ c[1] \in UE /\ S1OK(c[1], link["s1"][c], x)
      /\ S6aOK(c[1], link["s6a"][c], x) /\ S11OK(c[1], link["s11"][c], x)
    BY <1>1, Held
<1>4. x.at \in {22, 27} /\ y.at \in {23, 28}
    BY <1>1
<1>5. PICK q : q = [link["s1"][c] EXCEPT !.up = None]
    OBVIOUS
<1>6. PICK p : p = [link["s11"][c] EXCEPT !.up = m]
    OBVIOUS
<1>7. PutBoth(link, link', "s1", "s11", c, q, p)
  <2>1. "s1" \in Interface /\ "s11" \in Interface /\ link \in Links
    BY LinkFacts
  <2>2. PICK r : r = ReadUp(link, "s1", c)
    OBVIOUS
  <2>3. Put(link, r, "s1", c, q)
    BY <1>5, <2>1, <2>2, ReadUpPuts
  <2>4. r \in Links /\ r["s11"][c] = link["s11"][c]
    BY <2>1, <2>3 DEF Put
  <2>5. link' = SendUp(r, "s11", c, m)
    BY <1>2, <2>2
  <2>6. Put(r, link', "s11", c, p)
    BY <1>6, <2>1, <2>4, <2>5, SendUpPuts
  <2> QED
    BY <2>1, <2>3, <2>6, PutsBoth
<1>8. LinksMove(c, y, link')
  <2>1. link["s1"][c] \in Link /\ link["s11"][c] \in Link
    BY LinkFacts
  <2>2. /\ q.state = link["s1"][c].state /\ q.gone = link["s1"][c].gone
        /\ q.core = link["s1"][c].core /\ q.down = link["s1"][c].down /\ q.up = None
    BY <1>5, <2>1 DEF Link
  <2>3. /\ p.state = link["s11"][c].state /\ p.gone = link["s11"][c].gone
        /\ p.core = link["s11"][c].core /\ p.down = link["s11"][c].down /\ p.up = m
    BY <1>6, <2>1 DEF Link
  <2>4. q.down = S1Down(c[1], y) /\ None = S1Up(c[1], y)
    BY <1>3, <1>4, <2>2 DEF S1OK, S1Down, S1Up
  <2>5. p.down = S11Down(c[1], y.at) /\ S11State(x.at) = S11State(y.at)
    BY <1>3, <1>4, <2>3 DEF S11OK, S11Down, S11State
  <2>6. x.at \in 2 .. 36 /\ y.at \in 2 .. 36 /\ x.at \notin 3 .. 5 /\ y.at \notin 3 .. 5
        /\ x.at # 42 /\ y.at # 42 /\ y.at # 10
    BY <1>4
  <2>7. S1OK(c[1], q, y)
    BY <1>3, <2>2, <2>4, <2>6, S1Served
  <2>8. S6aOK(c[1], link["s6a"][c], y)
    BY <1>3, <2>6, S6aIdle
  <2>9. S11OK(c[1], p, y)
    BY <1>3, <2>3, <2>5, <2>6, S11Served
  <2> QED
    BY <1>7, <2>3, <2>6, <2>7, <2>8, <2>9 DEF LinksMove, PutBoth, Interface
<1>9. MmeStep(call, c, y)
  <2>1. <<call[c].at, y.at>> \in MmeMoves /\ y.at # 10
    BY <1>4 DEF MmeMoves
  <2>2. MmeEntry(c[1], y) = MmeWait(IF y.at = 23 THEN 6 ELSE 7, y, None)
    <3>1. CASE y.at = 23
      <4>1. MmeEntry(c[1], y) = MmeWait(6, y, None)
        BY <3>1 DEF MmeEntry, FromRan, MmeWait
      <4> QED
        BY <3>1, <4>1
    <3>2. CASE y.at = 28
      <4>1. MmeEntry(c[1], y) = MmeWait(7, y, None)
        BY <3>2 DEF MmeEntry, FromRan, MmeWait
      <4> QED
        BY <3>2, <4>1
    <3> QED
      BY <1>4, <3>1, <3>2
  <2> QED
    BY <1>2, <2>1, <2>2 DEF MmeStep, MmeAlone
<1> QED
    BY <1>8, <1>9

\* act 5.
LEMMA MmeCreateAnswerKeeps ==
    ASSUME TypeOK, NEW call \in [Call -> CallState], Calls(call), NEW k \in MmeCore, NEW c \in Call,
           MmeCreateAnswer(k, c), MmeAlone
    PROVE  CallInv'
<1>1. PICK x : x = call[c]
    OBVIOUS
<1>2. /\ MmeSgwAnswer(k, c, 5)
      /\ LET m    == link["s11"][c].down
             guti == Guti(mme_fd[c].msui)
         IN  IF guti = 0 \/ guti # m.teid THEN MmeExit
             ELSE /\ SetContext(guti, [Context(guti) EXCEPT !.s11_cteid_sgw = m.teid])
                  /\ Resume(c, [Msg(3) EXCEPT !.imsi = guti, !.teid = m.teid, !.ip = m.ip])
    BY DEF MmeCreateAnswer
<1>3. x.at = 20 /\ link["s11"][c].down = S11Down(c[1], x.at) /\ mme_fd[c].msui = x.id
  <2>1. MmeSgwAnswer(k, c, 5)
    BY <1>2
  <2>2. <<5, call[c].at>> \in {<<5, 20>>, <<6, 24>>, <<7, 36>>}
        /\ link["s11"][c].down = S11Down(c[1], call[c].at) /\ mme_fd[c].msui = call[c].id
    BY <2>1, SgwAnswered
  <2> QED
    BY <1>1, <2>2
<1>4. x \in CallState /\ c[1] \in UE
    BY <1>1, Held
<1>5. PICK y \in CallState : y.at = 21 /\ y.id = x.id
  <2>1. 21 \in 0 .. 44 /\ x.id \in {0} \cup UeId
    BY <1>4, StateFacts
  <2> QED
    BY <2>1, StateMade
<1>6. /\ MmeOK(c[1], x) /\ x.id \in UeId /\ Guti(x.id) = c[1] /\ c[1] # 0
      /\ Context(c[1]) = mme_ctx[c[1]] /\ mme_ctx[c[1]] \in MmeContext /\ mme_ctx[c[1]].imsi = c[1]
    BY <1>1, <1>3, MmeKnows
<1>7. link["s11"][c].down.teid = c[1] /\ link["s11"][c].down.ip = c[1]
  <2>1. link["s11"][c].down = [Msg(1) EXCEPT !.teid = c[1], !.ip = c[1]]
    BY <1>3 DEF S11Down
  <2> QED
    BY <2>1 DEF Msg
<1>8. PICK ctx : ctx = [mme_ctx[c[1]] EXCEPT !.s11_cteid_sgw = c[1]]
    OBVIOUS
<1>9. ctx \in MmeContext /\ ctx.imsi = c[1] /\ ctx.s11_cteid_sgw = c[1] /\ ctx.xres = c[1]
  <2>1. mme_ctx[c[1]].xres = c[1]
    BY <1>3, <1>6 DEF MmeOK
  <2> QED
    BY <1>4, <1>6, <1>8, <2>1, TeidFacts DEF MmeContext
<1>10. PICK m : m = [Msg(3) EXCEPT !.imsi = c[1], !.teid = c[1], !.ip = c[1]]
    OBVIOUS
<1>11. SetContext(c[1], ctx) /\ Resume(c, m)
    BY <1>2, <1>3, <1>6, <1>7, <1>8, <1>10
<1>12. m \in Message
  <2>1. m = [type |-> 3, id |-> 0, imsi |-> c[1], teid |-> c[1], ip |-> c[1]]
    BY <1>10 DEF Msg
  <2> QED
    BY <1>4, <2>1, TeidFacts DEF Message
<1>13. mme_ctx' \in [UE -> MmeContext \cup {None}] /\ mme_ctx'[c[1]] = ctx
       /\ \A v \in UE \ {c[1]} : mme_ctx'[v] = mme_ctx[v]
    BY <1>4, <1>9, <1>11, ContextSet
<1>14. m = S1Down(c[1], y)
    BY <1>5, <1>10 DEF S1Down
<1>15. <<call[c].at, y.at>> \in {<<20, 21>>, <<24, 25>>} /\ y.id = call[c].id
    BY <1>1, <1>3, <1>5
<1>16. LinksMove(c, y, link') /\ MmeStep(call, c, y)
    BY <1>11, <1>12, <1>13, <1>14, <1>15, Resumed
<1>17. MmeOK(c[1], y)'
  <2>1. s1mme_id' = s1mme_id /\ mme_ctx'[c[1]] \in MmeContext /\ mme_ctx'[c[1]].imsi = c[1]
        /\ mme_ctx'[c[1]].xres = c[1] /\ mme_ctx'[c[1]].s11_cteid_sgw = c[1]
    BY <1>9, <1>11, <1>13 DEF Resume
  <2>2. x.at \in 3 .. 36 /\ y.at \in 3 .. 36 /\ y.at \notin 25 .. 36 /\ None \notin MmeContext
    BY <1>3, <1>5, Constants
  <2> QED
    BY <1>4, <1>5, <1>6, <2>1, <2>2, MmeSetOK
<1> QED
    BY <1>16, <1>17, MmeGoes

\* act 6.
LEMMA MmeModifyAnswerKeeps ==
    ASSUME TypeOK, NEW call \in [Call -> CallState], Calls(call), NEW k \in MmeCore, NEW c \in Call,
           MmeModifyAnswer(k, c), MmeAlone
    PROVE  CallInv'
<1>1. PICK x : x = call[c]
    OBVIOUS
<1>2. /\ MmeSgwAnswer(k, c, 6)
      /\ LET guti == Guti(mme_fd[c].msui)
         IN  IF guti = 0 THEN MmeExit
             ELSE /\ SetContext(guti, [Context(guti) EXCEPT !.ecm_state = 1])
                  /\ Resume(c, [Msg(4) EXCEPT !.imsi = guti])
    BY DEF MmeModifyAnswer
<1>3. x.at = 24 /\ mme_fd[c].msui = x.id
  <2>1. MmeSgwAnswer(k, c, 6)
    BY <1>2
  <2>2. <<6, call[c].at>> \in {<<5, 20>>, <<6, 24>>, <<7, 36>>} /\ mme_fd[c].msui = call[c].id
    BY <2>1, SgwAnswered
  <2> QED
    BY <1>1, <2>2
<1>4. x \in CallState /\ c[1] \in UE
    BY <1>1, Held
<1>5. PICK y \in CallState : y.at = 25 /\ y.id = x.id
  <2>1. 25 \in 0 .. 44 /\ x.id \in {0} \cup UeId
    BY <1>4, StateFacts
  <2> QED
    BY <2>1, StateMade
<1>6. /\ MmeOK(c[1], x) /\ x.id \in UeId /\ Guti(x.id) = c[1] /\ c[1] # 0
      /\ Context(c[1]) = mme_ctx[c[1]] /\ mme_ctx[c[1]] \in MmeContext /\ mme_ctx[c[1]].imsi = c[1]
    BY <1>1, <1>3, MmeKnows
<1>7. PICK ctx : ctx = [mme_ctx[c[1]] EXCEPT !.ecm_state = 1]
    OBVIOUS
<1>8. ctx \in MmeContext /\ ctx.imsi = c[1] /\ ctx.s11_cteid_sgw = c[1] /\ ctx.xres = c[1]
      /\ ctx.ecm_state = 1
  <2>1. mme_ctx[c[1]].xres = c[1] /\ mme_ctx[c[1]].s11_cteid_sgw = c[1]
    BY <1>3, <1>6 DEF MmeOK
  <2> QED
    BY <1>6, <1>7, <2>1 DEF MmeContext
<1>9. PICK m : m = [Msg(4) EXCEPT !.imsi = c[1]]
    OBVIOUS
<1>10. SetContext(c[1], ctx) /\ Resume(c, m)
    BY <1>2, <1>3, <1>6, <1>7, <1>9
<1>11. m \in Message
  <2>1. m = [type |-> 4, id |-> 0, imsi |-> c[1], teid |-> 0, ip |-> 0]
    BY <1>9 DEF Msg
  <2> QED
    BY <1>4, <2>1, TeidFacts DEF Message
<1>12. mme_ctx' \in [UE -> MmeContext \cup {None}] /\ mme_ctx'[c[1]] = ctx
       /\ \A v \in UE \ {c[1]} : mme_ctx'[v] = mme_ctx[v]
    BY <1>4, <1>8, <1>10, ContextSet
<1>13. m = S1Down(c[1], y)
    BY <1>5, <1>9 DEF S1Down
<1>14. <<call[c].at, y.at>> \in {<<20, 21>>, <<24, 25>>} /\ y.id = call[c].id
    BY <1>1, <1>3, <1>5
<1>15. LinksMove(c, y, link') /\ MmeStep(call, c, y)
    BY <1>10, <1>11, <1>12, <1>13, <1>14, Resumed
<1>16. MmeOK(c[1], y)'
  <2>1. s1mme_id' = s1mme_id /\ mme_ctx'[c[1]] \in MmeContext /\ mme_ctx'[c[1]].imsi = c[1]
        /\ mme_ctx'[c[1]].xres = c[1] /\ mme_ctx'[c[1]].s11_cteid_sgw = c[1]
        /\ mme_ctx'[c[1]].ecm_state = 1
    BY <1>8, <1>10, <1>12 DEF Resume
  <2>2. x.at \in 3 .. 36 /\ y.at \in 3 .. 36 /\ None \notin MmeContext
    BY <1>3, <1>5, Constants
  <2> QED
    BY <1>4, <1>5, <1>6, <2>1, <2>2, MmeSetOK
<1> QED
    BY <1>15, <1>16, MmeGoes

\* act 1, fourth attach.
LEMMA MmeAttachFourKeeps ==
    ASSUME TypeOK, NEW call \in [Call -> CallState], Calls(call), NEW k \in MmeCore, NEW c \in Call,
           MmeAttachFour(k, c), MmeAlone
    PROVE  CallInv'
<1>1. PICK x : x = call[c]
    OBVIOUS
<1>2. /\ MmeRequest(k, c, 4)
      /\ LET m    == link["s1"][c].up
             guti == Guti(m.id)
         IN  IF guti = 0 THEN MmeExit
             ELSE /\ SetContext(guti, Context(guti))
                  /\ Forward(c, 6, m.id, [Msg(2) EXCEPT !.teid = Context(guti).s11_cteid_sgw,
                                                        !.imsi = m.teid])
    BY DEF MmeAttachFour
<1>3. x.at = 22 /\ link["s1"][c].up = S1Up(c[1], x)
  <2>1. MmeRequest(k, c, 4)
    BY <1>2
  <2>2. <<4, call[c].at>> \in {<<1, 2>>, <<2, 7>>, <<3, 9>>, <<4, 22>>, <<5, 27>>}
        /\ link["s1"][c].up = S1Up(c[1], call[c])
    BY <2>1, MmeRequestFacts
  <2> QED
    BY <1>1, <2>2
<1>4. x \in CallState /\ c[1] \in UE
    BY <1>1, Held
<1>5. PICK y \in CallState : y.at = 23 /\ y.id = x.id
  <2>1. 23 \in 0 .. 44 /\ x.id \in {0} \cup UeId
    BY <1>4, StateFacts
  <2> QED
    BY <2>1, StateMade
<1>6. /\ MmeOK(c[1], x) /\ x.id \in UeId /\ Guti(x.id) = c[1] /\ c[1] # 0
      /\ Context(c[1]) = mme_ctx[c[1]] /\ mme_ctx[c[1]] \in MmeContext /\ mme_ctx[c[1]].imsi = c[1]
    BY <1>1, <1>3, MmeKnows
<1>7. link["s1"][c].up.id = x.id /\ link["s1"][c].up.teid = c[1]
  <2>1. link["s1"][c].up = [Msg(4) EXCEPT !.id = x.id, !.teid = c[1]]
    BY <1>3 DEF S1Up
  <2> QED
    BY <2>1 DEF Msg
<1>8. mme_ctx[c[1]].s11_cteid_sgw = c[1] /\ mme_ctx[c[1]].xres = c[1]
    BY <1>3, <1>6 DEF MmeOK
<1>9. PICK m : m = [Msg(2) EXCEPT !.teid = c[1], !.imsi = c[1]]
    OBVIOUS
<1>10. SetContext(c[1], mme_ctx[c[1]]) /\ Forward(c, 6, x.id, m)
    BY <1>2, <1>6, <1>7, <1>8, <1>9
<1>11. m \in Message
  <2>1. m = [type |-> 2, id |-> 0, imsi |-> c[1], teid |-> c[1], ip |-> 0]
    BY <1>9 DEF Msg
  <2> QED
    BY <1>4, <2>1, TeidFacts DEF Message
<1>12. mme_ctx' \in [UE -> MmeContext \cup {None}] /\ mme_ctx'[c[1]] = mme_ctx[c[1]]
       /\ \A v \in UE \ {c[1]} : mme_ctx'[v] = mme_ctx[v]
    BY <1>4, <1>6, <1>10, ContextSet
<1>13. m = S11Up(c[1], y.at)
    BY <1>5, <1>9 DEF S11Up
<1>14. <<call[c].at, y.at>> \in {<<22, 23>>, <<27, 28>>} /\ y.id = call[c].id
    BY <1>1, <1>3, <1>5
<1>15. Forward(c, IF y.at = 23 THEN 6 ELSE 7, y.id, m)
    BY <1>5, <1>10
<1>16. LinksMove(c, y, link') /\ MmeStep(call, c, y)
    BY <1>11, <1>12, <1>13, <1>14, <1>15, Forwarded
<1>17. MmeOK(c[1], y)'
  <2>1. s1mme_id' = s1mme_id /\ mme_ctx'[c[1]] \in MmeContext /\ mme_ctx'[c[1]].imsi = c[1]
        /\ mme_ctx'[c[1]].xres = c[1] /\ mme_ctx'[c[1]].s11_cteid_sgw = c[1]
    BY <1>6, <1>8, <1>10, <1>12 DEF Forward
  <2>2. x.at \in 3 .. 36 /\ y.at \in 3 .. 36 /\ y.at \notin 25 .. 36 /\ None \notin MmeContext
    BY <1>3, <1>5, Constants
  <2> QED
    BY <1>4, <1>5, <1>6, <2>1, <2>2, MmeSetOK
<1> QED
    BY <1>16, <1>17, MmeGoes

\* act 1, detach.
LEMMA MmeDetachKeeps ==
    ASSUME TypeOK, NEW call \in [Call -> CallState], Calls(call), NEW k \in MmeCore, NEW c \in Call,
           MmeDetach(k, c), MmeAlone
    PROVE  CallInv'
<1>1. PICK x : x = call[c]
    OBVIOUS
<1>2. /\ MmeRequest(k, c, 5)
      /\ LET m    == link["s1"][c].up
             guti == Guti(m.id)
         IN  IF guti = 0 THEN MmeExit
             ELSE /\ SetContext(guti, Context(guti))
                  /\ Forward(c, 7, m.id, [Msg(3) EXCEPT !.teid = Context(guti).s11_cteid_sgw])
    BY DEF MmeDetach
<1>3. x.at = 27 /\ link["s1"][c].up = S1Up(c[1], x)
  <2>1. MmeRequest(k, c, 5)
    BY <1>2
  <2>2. <<5, call[c].at>> \in {<<1, 2>>, <<2, 7>>, <<3, 9>>, <<4, 22>>, <<5, 27>>}
        /\ link["s1"][c].up = S1Up(c[1], call[c])
    BY <2>1, MmeRequestFacts
  <2> QED
    BY <1>1, <2>2
<1>4. x \in CallState /\ c[1] \in UE
    BY <1>1, Held
<1>5. PICK y \in CallState : y.at = 28 /\ y.id = x.id
  <2>1. 28 \in 0 .. 44 /\ x.id \in {0} \cup UeId
    BY <1>4, StateFacts
  <2> QED
    BY <2>1, StateMade
<1>6. /\ MmeOK(c[1], x) /\ x.id \in UeId /\ Guti(x.id) = c[1] /\ c[1] # 0
      /\ Context(c[1]) = mme_ctx[c[1]] /\ mme_ctx[c[1]] \in MmeContext /\ mme_ctx[c[1]].imsi = c[1]
    BY <1>1, <1>3, MmeKnows
<1>7. link["s1"][c].up.id = x.id
  <2>1. link["s1"][c].up = [Msg(5) EXCEPT !.id = x.id, !.imsi = c[1]]
    BY <1>3 DEF S1Up
  <2> QED
    BY <2>1 DEF Msg
<1>8. mme_ctx[c[1]].s11_cteid_sgw = c[1] /\ mme_ctx[c[1]].xres = c[1] /\ mme_ctx[c[1]].ecm_state = 1
    BY <1>3, <1>6 DEF MmeOK
<1>9. PICK m : m = [Msg(3) EXCEPT !.teid = c[1]]
    OBVIOUS
<1>10. SetContext(c[1], mme_ctx[c[1]]) /\ Forward(c, 7, x.id, m)
    BY <1>2, <1>6, <1>7, <1>8, <1>9
<1>11. m \in Message
  <2>1. m = [type |-> 3, id |-> 0, imsi |-> 0, teid |-> c[1], ip |-> 0]
    BY <1>9 DEF Msg
  <2> QED
    BY <1>4, <2>1, TeidFacts DEF Message
<1>12. mme_ctx' \in [UE -> MmeContext \cup {None}] /\ mme_ctx'[c[1]] = mme_ctx[c[1]]
       /\ \A v \in UE \ {c[1]} : mme_ctx'[v] = mme_ctx[v]
    BY <1>4, <1>6, <1>10, ContextSet
<1>13. m = S11Up(c[1], y.at)
    BY <1>5, <1>9 DEF S11Up
<1>14. <<call[c].at, y.at>> \in {<<22, 23>>, <<27, 28>>} /\ y.id = call[c].id
    BY <1>1, <1>3, <1>5
<1>15. Forward(c, IF y.at = 23 THEN 6 ELSE 7, y.id, m)
    BY <1>5, <1>10
<1>16. LinksMove(c, y, link') /\ MmeStep(call, c, y)
    BY <1>11, <1>12, <1>13, <1>14, <1>15, Forwarded
<1>17. MmeOK(c[1], y)'
  <2>1. s1mme_id' = s1mme_id /\ mme_ctx'[c[1]] \in MmeContext /\ mme_ctx'[c[1]].imsi = c[1]
        /\ mme_ctx'[c[1]].xres = c[1] /\ mme_ctx'[c[1]].s11_cteid_sgw = c[1]
        /\ mme_ctx'[c[1]].ecm_state = 1
    BY <1>6, <1>8, <1>10, <1>12 DEF Forward
  <2>2. x.at \in 3 .. 36 /\ y.at \in 3 .. 36 /\ None \notin MmeContext
    BY <1>3, <1>5, Constants
  <2> QED
    BY <1>4, <1>5, <1>6, <2>1, <2>2, MmeSetOK
<1> QED
    BY <1>16, <1>17, MmeGoes

\* A call that was cut off keeps its place.
LEMMA TrailPlace ==
    ASSUME NEW c \in Call, NEW x \in CallState, NEW y \in CallState, PlaceOK(c, x), y.id = x.id,
           <<x.at, y.at>> \in {<<39, 40>>, <<41, 42>>, <<42, 43>>, <<43, 44>>},
           UNCHANGED <<hung, mme_srcaddr, rounds>>
    PROVE  PlaceOK(c, y)'
<1>1. x.at # 0 /\ y.at # 0 /\ x.at \notin 0 .. 2 /\ y.at \notin 0 .. 2 /\ x.at \in Cut /\ y.at \in Cut
      /\ y.at \in 38 .. 44
    BY DEF Cut
<1>2. x.at \in (10 .. 36) \cup (41 .. 44) <=> y.at \in (10 .. 36) \cup (41 .. 44)
    OBVIOUS
<1> QED
    BY <1>1, <1>2, Zenon DEF PlaceOK

\* act 1, the end of the stream.
LEMMA MmeHungUpKeeps ==
    ASSUME TypeOK, NEW call \in [Call -> CallState], Calls(call), NEW k \in MmeCore, NEW c \in Call,
           MmeHungUp(k, c), MmeAlone
    PROVE  CallInv'
<1>1. PICK x : x = call[c]
    OBVIOUS
<1>2. /\ MmeEvent(k, c, 1) /\ link["s1"][c].gone
      /\ link' = ServerClose(IF mme_fd[c].sgw THEN ClientClose(link, "s11", c) ELSE link, "s1", c)
      /\ mme_fd' = [mme_fd EXCEPT ![c] = None]
      /\ UNCHANGED <<exited, mme_removal, mme_srcaddr, ue_count, s1mme_id, mme_ctx>>
    BY DEF MmeHungUp, Ended
<1>3. /\ x \in CallState /\ c[1] \in UE /\ S1OK(c[1], link["s1"][c], x) /\ PlaceOK(c, x)
      /\ S6aOK(c[1], link["s6a"][c], x) /\ S11OK(c[1], link["s11"][c], x)
      /\ S5OK(c[1], link["s5"][c], x) /\ FdsOK(c, x)
    BY <1>1, Held
<1>4. x.at \in {39, 41}
    BY <1>2, <1>3 DEF S1OK
<1>5. PICK y \in CallState : y.at = x.at + 1 /\ y.id = x.id
  <2>1. x.at + 1 \in 0 .. 44 /\ x.id \in {0} \cup UeId
    BY <1>3, <1>4, StateFacts
  <2> QED
    BY <2>1, StateMade
<1>6. <<x.at, y.at>> \in {<<39, 40>>, <<41, 42>>}
    BY <1>4, <1>5
<1>7. mme_fd[c].sgw <=> x.at = 41
  <2>1. CASE x.at = 39
    <3>1. mme_fd[c] = FromRan(FALSE)
      BY <1>3, <2>1 DEF FdsOK, MmeEntry, FromRan
    <3> QED
      BY <2>1, <3>1 DEF FromRan
  <2>2. CASE x.at = 41
    <3>1. mme_fd[c] = FromRan(TRUE)
      BY <1>3, <2>2 DEF FdsOK, MmeEntry, FromRan
    <3> QED
      BY <2>2, <3>1 DEF FromRan
  <2> QED
    BY <1>4, <2>1, <2>2
<1>8. link["s11"][c] \in Link /\ link["s1"][c] \in Link /\ link \in Links
      /\ "s1" \in Interface /\ "s11" \in Interface
    BY LinkFacts
<1>9. PICK q : q = IF x.at = 41 THEN [link["s11"][c] EXCEPT !.gone = TRUE] ELSE link["s11"][c]
    OBVIOUS
<1>10. PICK r : r = IF mme_fd[c].sgw THEN ClientClose(link, "s11", c) ELSE link
    OBVIOUS
<1>11. Put(link, r, "s11", c, q)
  <2>1. CASE x.at = 41
    <3>1. link["s11"][c].state = "open"
      BY <1>3, <2>1 DEF S11OK, S11State
    <3>2. r = ClientClose(link, "s11", c)
      BY <1>7, <1>10, <2>1
    <3>3. Put(link, r, "s11", c, IF link["s11"][c].state \in {"none", "shut"} THEN NoLink
                                 ELSE [link["s11"][c] EXCEPT !.gone = TRUE])
      BY <1>8, <3>2, ClientClosePuts
    <3> QED
      BY <1>9, <2>1, <3>1, <3>3
  <2>2. CASE x.at = 39
    <3>1. r = link /\ q = link["s11"][c]
      BY <1>7, <1>9, <1>10, <2>2
    <3> QED
      BY <1>8, <3>1 DEF Put
  <2> QED
    BY <1>4, <2>1, <2>2
<1>12. PutBoth(link, link', "s11", "s1", c, q, NoLink)
  <2>1. r \in Links /\ r["s1"][c] = link["s1"][c]
    BY <1>8, <1>11 DEF Put
  <2>2. Put(r, link', "s1", c, IF r["s1"][c].gone THEN NoLink
                               ELSE [r["s1"][c] EXCEPT !.state = "shut", !.core = None])
    BY <1>2, <1>8, <1>10, <2>1, ServerClosePuts
  <2>3. Put(r, link', "s1", c, NoLink)
    BY <1>2, <2>1, <2>2
  <2> QED
    BY <1>8, <1>11, <2>3, PutsBoth
<1>13. q.state = link["s11"][c].state
    BY <1>8, <1>9 DEF Link
<1>14. LinksOK(c, y)'
  <2>1. S1OK(c[1], NoLink, y)
    BY <1>4, <1>5 DEF S1OK, NoLink, S1State, S1Up, S1Down
  <2>2. S6aOK(c[1], link["s6a"][c], y)
    BY <1>3, <1>4, <1>5, S6aIdle
  <2>3. S11OK(c[1], q, y)
    <3>1. CASE x.at = 41
      <4>1. /\ q.state = link["s11"][c].state /\ q.gone /\ q.core = link["s11"][c].core
            /\ q.up = link["s11"][c].up /\ q.down = link["s11"][c].down
        BY <1>8, <1>9, <3>1 DEF Link
      <4> QED
        BY <1>3, <1>5, <3>1, <4>1 DEF S11OK, S11State, S11Up, S11Down
    <3>2. CASE x.at = 39
      BY <1>3, <1>5, <1>9, <3>2 DEF S11OK, S11State, S11Up, S11Down
    <3> QED
      BY <1>4, <3>1, <3>2
  <2>4. S5OK(c[1], link["s5"][c], y)
    BY <1>3, <1>4, <1>5 DEF S5OK, S5State, S5Up, S5Down
  <2>5. /\ link'["s1"][c] = NoLink /\ link'["s6a"][c] = link["s6a"][c]
        /\ link'["s11"][c] = q /\ link'["s5"][c] = link["s5"][c]
    BY <1>12 DEF PutBoth, Interface
  <2> QED
    BY <2>1, <2>2, <2>3, <2>4, <2>5 DEF LinksOK
<1>15. FdsOK(c, y)'
  <2>1. mme_fd'[c] = None /\ MmeEntry(c[1], y) = None
    BY <1>2, <1>4, <1>5 DEF MmeEntry, FromRan, MmeWait, TypeOK, MkbMmeTypeOK
  <2>2. PICK s : s = link["s11"][c].state
    OBVIOUS
  <2>3. SgwFdEntry(c[1], s, y.at) = SgwFdEntry(c[1], s, x.at)
    <3>1. CASE x.at = 41
      <4>1. SgwFdEntry(c[1], s, y.at) = FromMme(TRUE) /\ SgwFdEntry(c[1], s, x.at) = FromMme(TRUE)
        BY <1>5, <3>1 DEF SgwFdEntry, FromMme, SgwWait
      <4> QED
        BY <4>1
    <3>2. CASE x.at = 39
      <4>1. SgwFdEntry(c[1], s, y.at) = None /\ SgwFdEntry(c[1], s, x.at) = None
        BY <1>5, <3>2 DEF SgwFdEntry, FromMme, SgwWait
      <4> QED
        BY <4>1
    <3> QED
      BY <1>4, <3>1, <3>2
  <2>4. sgw_fd'[c] = sgw_fd[c] /\ pgw_fd' = pgw_fd
    BY DEF MmeAlone, sgwVars, pgwVars
  <2>5. link'["s11"][c].state = s /\ link'["s5"][c] = link["s5"][c]
    BY <1>12, <1>13, <2>2 DEF PutBoth, Interface
  <2> QED
    BY <1>3, <2>1, <2>2, <2>3, <2>4, <2>5 DEF FdsOK
<1>16. PlaceOK(c, y)'
    BY <1>2, <1>3, <1>5, <1>6, TrailPlace DEF MmeAlone, ranVars
<1>17. WorkOK(c, y)'
    BY <1>4, <1>5 DEF WorkOK, SgwWorks, PgwWorks
<1>18. OthersKept(c)
    BY <1>2, <1>12 DEF OthersKept, PutBoth, MmeAlone, ranVars, sgwVars, pgwVars, TypeOK, MkbMmeTypeOK
<1>19. TypeOK'
  <2>1. link' \in Links
    BY <1>12 DEF PutBoth
  <2>2. MkbBaseTypeOK'
    BY <1>2, <2>1 DEF TypeOK, MkbBaseTypeOK, Links
  <2>3. MkbRanTypeOK' /\ MkbSgwTypeOK' /\ MkbPgwTypeOK'
    BY DEF TypeOK, MkbRanTypeOK, MkbSgwTypeOK, MkbPgwTypeOK, MmeAlone, ranVars, sgwVars, pgwVars
  <2>4. MkbMmeTypeOK'
    BY <1>2 DEF TypeOK, MkbMmeTypeOK
  <2> QED
    BY <2>2, <2>3, <2>4 DEF TypeOK
<1>20. CallOK(c, y)'
    BY <1>14, <1>15, <1>16, <1>17 DEF CallOK
<1>21. <<call[c].at, y.at>> \in {<<39, 40>>, <<41, 42>>, <<42, 43>>, <<43, 44>>} /\ y.id = call[c].id
    BY <1>1, <1>5, <1>6
<1> QED
    BY <1>2, <1>18, <1>19, <1>20, <1>21, Trails DEF MmeAlone, ranVars, sgwVars, pgwVars

\* The calls that have a number are as many as the MME has given out, and there is
\* one left for a call that has none.
LEMMA NextNumber ==
    ASSUME TypeOK, NEW call \in [Call -> CallState], Calls(call), NEW c \in Call, call[c].id = 0
    PROVE  /\ ue_count + 1 \in UeId
           /\ IsFiniteSet(Numbered(call)) /\ Cardinality(Numbered(call)) = ue_count
<1>1. Numbered(call) \in SUBSET Call /\ c \notin Numbered(call)
    BY DEF Numbered
<1>2. IsFiniteSet(Call)
    BY CallFinite
<1>3. /\ IsFiniteSet(Numbered(call)) /\ Cardinality(Numbered(call)) <= Cardinality(Call)
      /\ Cardinality(Call) = Cardinality(Numbered(call)) => Call = Numbered(call)
    BY <1>1, <1>2, FS_Subset
<1>4. Cardinality(Numbered(call)) = ue_count
    BY DEF Calls
<1>5. Cardinality(Call) # Cardinality(Numbered(call))
    BY <1>1, <1>3
<1>6. ue_count \in Nat
  <2>1. ue_count \in {0} \cup UeId
    BY Types
  <2> QED
    BY <2>1, IdFacts
<1> QED
    BY <1>3, <1>4, <1>5, <1>6, IdFacts

\* act 1, first attach.
LEMMA MmeAttachOneKeeps ==
    ASSUME TypeOK, NEW call \in [Call -> CallState], Calls(call), NEW k \in MmeCore, NEW c \in Call,
           MmeAttachOne(k, c), MmeAlone
    PROVE  CallInv'
<1>1. PICK x : x = call[c]
    OBVIOUS
<1>2. PICK n : n = ue_count + 1
    OBVIOUS
<1>3. /\ MmeRequest(k, c, 1)
      /\ LET guti == link["s1"][c].up.imsi
         IN  /\ SetContext(guti, [Context(guti) EXCEPT !.imsi = guti])
             /\ s1mme_id' = [s1mme_id EXCEPT ![n] = guti]
             /\ mme_fd' = [mme_fd EXCEPT ![c] = [act |-> 2, sgw |-> FALSE, msui |-> n,
                                                 buf |-> [Msg(1) EXCEPT !.imsi = guti]]]
             /\ link' = Connect(ReadUp(link, "s1", c), "s6a", c)
      /\ ue_count' = n
      /\ UNCHANGED <<exited, mme_removal, mme_srcaddr>>
    BY <1>2 DEF MmeAttachOne, Wait, NextUeId
<1>4. /\ x \in CallState /\ c[1] \in UE /\ S1OK(c[1], link["s1"][c], x) /\ PlaceOK(c, x)
      /\ S6aOK(c[1], link["s6a"][c], x) /\ S11OK(c[1], link["s11"][c], x)
      /\ S5OK(c[1], link["s5"][c], x) /\ FdsOK(c, x)
    BY <1>1, Held
<1>5. x.at = 2 /\ link["s1"][c].up = S1Up(c[1], x)
  <2>1. MmeRequest(k, c, 1)
    BY <1>3
  <2>2. <<1, call[c].at>> \in {<<1, 2>>, <<2, 7>>, <<3, 9>>, <<4, 22>>, <<5, 27>>}
        /\ link["s1"][c].up = S1Up(c[1], call[c])
    BY <2>1, MmeRequestFacts
  <2> QED
    BY <1>1, <2>2
<1>6. x.id = 0 /\ call[c].id = 0
    BY <1>1, <1>4, <1>5 DEF PlaceOK
<1>7. /\ n \in UeId /\ n # 0 /\ n \in Nat
      /\ IsFiniteSet(Numbered(call)) /\ Cardinality(Numbered(call)) = ue_count
    BY <1>2, <1>6, NextNumber, IdFacts
<1>8. PICK y \in CallState : y.at = 3 /\ y.id = n
  <2>1. 3 \in 0 .. 44 /\ n \in {0} \cup UeId
    BY <1>7
  <2> QED
    BY <2>1, StateMade
<1>9. link["s1"][c].up.imsi = c[1]
  <2>1. link["s1"][c].up = [Msg(1) EXCEPT !.imsi = c[1]]
    BY <1>5 DEF S1Up
  <2> QED
    BY <2>1 DEF Msg
<1>10. /\ SetContext(c[1], [Context(c[1]) EXCEPT !.imsi = c[1]])
       /\ s1mme_id' = [s1mme_id EXCEPT ![n] = c[1]]
       /\ mme_fd' = [mme_fd EXCEPT ![c] = MmeWait(2, y, [Msg(1) EXCEPT !.imsi = c[1]])]
       /\ link' = Connect(ReadUp(link, "s1", c), "s6a", c)
    BY <1>3, <1>8, <1>9 DEF MmeWait
<1>11. PICK ctx : ctx = [Context(c[1]) EXCEPT !.imsi = c[1]]
    OBVIOUS
<1>12. ctx \in MmeContext /\ ctx.imsi = c[1]
  <2>1. Context(c[1]) \in MmeContext
    <3>1. CASE mme_ctx[c[1]] = None
      BY <3>1, TeidFacts DEF Context, NewMmeContext, MmeContext
    <3>2. CASE mme_ctx[c[1]] # None
      BY <1>4, <3>2 DEF Context, TypeOK, MkbMmeTypeOK
    <3> QED
      BY <3>1, <3>2
  <2> QED
    BY <1>4, <1>11, <2>1, TeidFacts DEF MmeContext
<1>13. mme_ctx' \in [UE -> MmeContext \cup {None}] /\ mme_ctx'[c[1]] = ctx
       /\ \A v \in UE \ {c[1]} : mme_ctx'[v] = mme_ctx[v]
    BY <1>4, <1>10, <1>11, <1>12, ContextSet
<1>14. PICK q : q = [link["s1"][c] EXCEPT !.up = None]
    OBVIOUS
<1>15. PICK p : p = [NoLink EXCEPT !.state = "syn"]
    OBVIOUS
<1>16. PutBoth(link, link', "s1", "s6a", c, q, p)
  <2>1. "s1" \in Interface /\ "s6a" \in Interface /\ link \in Links
    BY LinkFacts
  <2>2. PICK r : r = ReadUp(link, "s1", c)
    OBVIOUS
  <2>3. Put(link, r, "s1", c, q)
    BY <1>14, <2>1, <2>2, ReadUpPuts
  <2>4. r \in Links
    BY <2>3 DEF Put
  <2>5. link' = Connect(r, "s6a", c)
    BY <1>10, <2>2
  <2>6. Put(r, link', "s6a", c, p)
    BY <1>15, <2>1, <2>4, <2>5, ConnectPuts
  <2> QED
    BY <2>1, <2>3, <2>6, PutsBoth
<1>17. /\ link'["s1"][c] = q /\ link'["s6a"][c] = p
       /\ link'["s11"][c] = link["s11"][c] /\ link'["s5"][c] = link["s5"][c] /\ link' \in Links
    BY <1>16 DEF PutBoth, Interface
<1>18. LinksOK(c, y)'
  <2>1. link["s1"][c] \in Link
    BY LinkFacts
  <2>2. /\ q.state = link["s1"][c].state /\ q.gone = link["s1"][c].gone
        /\ q.core = link["s1"][c].core /\ q.up = None /\ q.down = link["s1"][c].down
    BY <1>14, <2>1 DEF Link
  <2>3. link["s1"][c].down = S1Down(c[1], y) /\ None = S1Up(c[1], y)
    BY <1>4, <1>5, <1>8 DEF S1OK, S1Down, S1Up
  <2>4. S1OK(c[1], q, y)
    BY <1>4, <1>5, <1>8, <2>2, <2>3, S1Served
  <2>5. p.state = "syn" /\ ~p.gone /\ p.core = None /\ p.up = None /\ p.down = None
    BY <1>15 DEF NoLink
  <2>6. S6aOK(c[1], p, y)
    BY <1>8, <2>5 DEF S6aOK
  <2>7. S11OK(c[1], link["s11"][c], y)
    BY <1>4, <1>5, <1>8 DEF S11OK, S11State, S11Up, S11Down
  <2>8. S5OK(c[1], link["s5"][c], y)
    BY <1>4, <1>5, <1>8 DEF S5OK, S5State, S5Up, S5Down
  <2> QED
    BY <1>17, <2>4, <2>6, <2>7, <2>8 DEF LinksOK
<1>19. FdsOK(c, y)'
  <2>1. mme_fd'[c] = MmeEntry(c[1], y)
    <3>1. MmeEntry(c[1], y) = MmeWait(2, y, [Msg(1) EXCEPT !.imsi = c[1]])
      BY <1>8 DEF MmeEntry, FromRan, MmeWait
    <3> QED
      BY <1>10, <3>1 DEF TypeOK, MkbMmeTypeOK
  <2>2. PICK s : s = link["s11"][c].state
    OBVIOUS
  <2>3. SgwFdEntry(c[1], s, y.at) = None /\ SgwFdEntry(c[1], s, x.at) = None
    BY <1>5, <1>8 DEF SgwFdEntry, FromMme, SgwWait
  <2>4. sgw_fd'[c] = sgw_fd[c] /\ pgw_fd' = pgw_fd
    BY DEF MmeAlone, sgwVars, pgwVars
  <2> QED
    BY <1>4, <1>17, <2>1, <2>2, <2>3, <2>4 DEF FdsOK
<1>20. PlaceOK(c, y)'
  <2>1. /\ x.at # 0 /\ y.at # 0 /\ x.at \notin 38 .. 44 /\ x.at \notin Cut /\ y.at \notin Cut
        /\ x.at \notin (10 .. 36) \cup (41 .. 44) /\ y.at \notin (10 .. 36) \cup (41 .. 44)
        /\ y.id # 0 /\ y.at \notin 0 .. 2
    BY <1>5, <1>7, <1>8 DEF Cut
  <2>2. rounds' = rounds /\ hung' = hung /\ mme_srcaddr' = mme_srcaddr
    BY <1>3 DEF MmeAlone, ranVars
  <2> QED
    BY <1>4, <2>1, <2>2, Zenon DEF PlaceOK
<1>21. WorkOK(c, y)'
    BY <1>8 DEF WorkOK, SgwWorks, PgwWorks
<1>22. CallOK(c, y)'
    BY <1>18, <1>19, <1>20, <1>21 DEF CallOK
<1>23. Frame(c)
  <2>1. \A d \in Call \ {c}, i \in Interface : link'[i][d] = link[i][d]
    BY <1>16 DEF PutBoth
  <2>2. \A d \in Call \ {c} : mme_fd'[d] = mme_fd[d]
    BY <1>10 DEF TypeOK, MkbMmeTypeOK
  <2> QED
    BY <1>3, <1>13, <2>1, <2>2
    DEF Frame, OthersKept, UserKept, SgwKept, PgwKept, MmeAlone, ranVars, sgwVars, pgwVars
<1>24. rounds' = rounds /\ sgw_job' = sgw_job /\ pgw_job' = pgw_job /\ mme_removal' = mme_removal
    BY <1>3 DEF MmeAlone, ranVars, sgwVars, pgwVars
<1>25. PICK next : Moved(call, next, c, y)
    BY MovedFacts
<1>26. JobsOK(next)' /\ \A d \in Call \ {c} : WorkOK(d, call[d])'
  <2>1. call[c].at \notin SgwWorks \cup PgwWorks
    BY <1>1, <1>5 DEF SgwWorks, PgwWorks
  <2> QED
    BY <1>23, <1>24, <1>25, <2>1, JobsStay DEF Frame
<1>27. IdsOK(call) /\ RemovalsOK(call) /\ ue_count \in Nat
  <2>1. IdsOK(call) /\ RemovalsOK(call)
    BY DEF Calls
  <2> QED
    BY <1>7, <2>1, Types, IdFacts
<1>28. ASSUME NEW z \in CallState, z.id <= ue_count, z.id # 0
       PROVE  z.id # n /\ s1mme_id'[z.id] = s1mme_id[z.id]
  <2>1. z.id \in UeId /\ z.id \in Nat
    BY <1>28, StateFacts
  <2>2. z.id # n
    BY <1>2, <1>27, <1>28, <2>1
  <2> QED
    BY <1>10, <2>1, <2>2 DEF TypeOK, MkbMmeTypeOK
<1>29. \A v \in UE \ {c[1]}, z \in CallState : z = Last(call, v) /\ MmeOK(v, z) => MmeOK(v, z)'
  <2>1. SUFFICES ASSUME NEW v \in UE, v # c[1], NEW z \in CallState, z = Last(call, v), MmeOK(v, z)
                 PROVE  MmeOK(v, z)'
    OBVIOUS
  <2>2. z.at \in 3 .. 36 => s1mme_id'[z.id] = s1mme_id[z.id]
    <3>1. SUFFICES ASSUME z.at \in 3 .. 36 PROVE s1mme_id'[z.id] = s1mme_id[z.id]
      OBVIOUS
    <3>2. rounds[v] # 0
      BY <2>1, <3>1 DEF Last, NoCall
    <3>3. rounds[v] \in 1 .. Rounds[v]
      BY <3>2, Types
    <3>4. Current(v) \in Call /\ z = call[Current(v)]
      BY <2>1, <3>2, <3>3, CallMade DEF Last, Current
    <3>5. z.id <= ue_count
      BY <1>27, <3>4 DEF IdsOK
    <3>6. z.id # 0
      <4>1. PlaceOK(Current(v), z)
        BY <3>4, Held
      <4> QED
        BY <3>1, <4>1 DEF PlaceOK
    <3> QED
      BY <1>28, <3>5, <3>6
  <2>3. mme_ctx'[v] = mme_ctx[v] /\ (Pause(v)' <=> Pause(v))
    BY <1>13, <1>24, <2>1 DEF Pause
  <2> QED
    BY <2>1, <2>2, <2>3 DEF MmeOK
<1>30. /\ \A d \in Call \ {c} : CallOK(d, next[d])'
       /\ \A v \in UE \ {c[1]} : UserOK(v, Last(next, v))'
    BY <1>23, <1>24, <1>25, <1>26, <1>29, OthersGo
<1>31. UserOK(c[1], y)'
  <2>1. UserOK(c[1], x)
    BY <1>1, <1>5, CallNow
  <2>2. RanOK(c[1], y)'
    <3>1. Pc(y.at) = Pc(x.at)
      BY <1>5, <1>8 DEF Pc
    <3> QED
      BY <1>8, <2>1, <3>1 DEF UserOK, RanOK, MmeAlone, ranVars
  <2>3. MmeOK(c[1], y)'
    <3>1. s1mme_id'[y.id] = c[1]
      BY <1>7, <1>8, <1>10 DEF TypeOK, MkbMmeTypeOK
    <3> QED
      BY <1>8, <1>12, <1>13, <3>1, Constants DEF MmeOK
  <2>4. SgwOK(c[1], y)'
    <3>1. \A t \in {"s11", "s1", "s5"} : SgwEntryOf(c[1], t, y.at) = SgwEntryOf(c[1], t, x.at)
      BY <1>5, <1>8 DEF SgwEntryOf
    <3>2. SgwOK(c[1], y)
      BY <1>5, <1>8, <2>1, <3>1 DEF UserOK, SgwOK
    <3> QED
      BY <1>4, <3>2, SgwStays DEF SgwKept, MmeAlone, sgwVars
  <2>5. PgwOK(c[1], y)'
    <3>1. PgwOK(c[1], y)
      BY <1>5, <1>8, <2>1 DEF UserOK, PgwOK, PgwEntryOf
    <3> QED
      BY <1>4, <3>1, PgwStays DEF PgwKept, MmeAlone, sgwVars, pgwVars
  <2> QED
    BY <1>24, <2>1, <2>2, <2>3, <2>4, <2>5 DEF UserOK
<1>32. (Last(next, c[1]))' = y
  <2>1. rounds[c[1]] # 0 /\ c = Current(c[1])
    BY <1>1, <1>5, CallNow
  <2> QED
    BY <1>24, <1>25, <2>1 DEF Last, Current, Moved
<1>33. next[c] = y /\ next \in [Call -> CallState] /\ \A d \in Call \ {c} : next[d] = call[d]
    BY <1>25 DEF Moved
<1>34. \A d \in Call : call[d].id <= ue_count /\ call[d].id \in Nat /\ call[d].id # n
  <2>1. SUFFICES ASSUME NEW d \in Call PROVE call[d].id <= ue_count /\ call[d].id \in Nat /\ call[d].id # n
    OBVIOUS
  <2>2. call[d].id <= ue_count /\ call[d].id \in Nat
    BY <1>27, StateFacts DEF IdsOK
  <2> QED
    BY <1>2, <1>27, <2>2
<1>35. IdsOK(next)'
  <2>1. \A d \in Call : next[d].id <= ue_count'
    <3>1. SUFFICES ASSUME NEW d \in Call PROVE next[d].id <= n
      BY <1>3
    <3>2. CASE d = c
      BY <1>7, <1>8, <1>33, <3>2
    <3>3. CASE d # c
      BY <1>2, <1>27, <1>33, <1>34, <3>3
    <3> QED
      BY <3>2, <3>3
  <2>2. \A d, e \in Call : next[d].id = next[e].id /\ next[d].id # 0 => d = e
    BY <1>8, <1>27, <1>33, <1>34 DEF IdsOK
  <2>3. ASSUME NEW i \in UeId, s1mme_id'[i] # 0
        PROVE  \E d \in Call : /\ next[d].id = i /\ d[1] = s1mme_id'[i]
                               /\ next[d].at \in (3 .. 36) \cup Cut \/ Leaving(i)'
    <3>1. CASE i = n
      <4>1. next[c].id = i /\ c[1] = s1mme_id'[i] /\ next[c].at \in (3 .. 36) \cup Cut
        BY <1>7, <1>8, <1>10, <1>33, <3>1 DEF TypeOK, MkbMmeTypeOK
      <4> QED
        BY <4>1
    <3>2. CASE i # n
      <4>1. s1mme_id'[i] = s1mme_id[i] /\ s1mme_id[i] # 0
        BY <1>10, <2>3, <3>2 DEF TypeOK, MkbMmeTypeOK
      <4>2. PICK d \in Call : /\ call[d].id = i /\ d[1] = s1mme_id[i]
                              /\ call[d].at \in (3 .. 36) \cup Cut \/ Leaving(i)
        BY <1>27, <4>1 DEF IdsOK
      <4>3. d # c
        BY <1>6, <4>2, IdFacts
      <4>4. Leaving(i)' <=> Leaving(i)
        BY <1>24 DEF Leaving
      <4> QED
        BY <1>33, <4>1, <4>2, <4>3, <4>4
    <3> QED
      BY <3>1, <3>2
  <2> QED
    BY <2>1, <2>2, <2>3 DEF IdsOK
<1>36. RemovalsOK(next)'
  <2>1. ASSUME NEW l \in MmeCore, mme_removal[l] # None
        PROVE  /\ mme_removal[l].guti \in UE
               /\ (Last(next, mme_removal[l].guti))' = Last(call, mme_removal[l].guti)
    <3>1. mme_removal[l] \in Removal
      BY <2>1 DEF TypeOK, MkbMmeTypeOK
    <3>2. mme_removal[l].guti \in UE
      BY <3>1 DEF Removal
    <3>3. Last(call, mme_removal[l].guti).at \in 37 .. 38
      BY <1>27, <2>1 DEF RemovalsOK
    <3>4. Last(call, c[1]).at = 2
      BY <1>1, <1>5, CallNow
    <3>5. mme_removal[l].guti # c[1]
      BY <3>3, <3>4
    <3> QED
      BY <1>24, <1>25, <3>2, <3>5, LastOther
  <2> QED
    BY <1>24, <1>27, <2>1 DEF RemovalsOK
<1>37. ue_count' = Cardinality(Numbered(next))
  <2>1. Numbered(next) = Numbered(call) \cup {c}
    BY <1>7, <1>8, <1>33 DEF Numbered
  <2>2. c \notin Numbered(call)
    BY <1>6 DEF Numbered
  <2> QED
    BY <1>2, <1>3, <1>7, <2>1, <2>2, FS_AddElement, ZenonT(40)
<1>38. Calls(next)'
  <2>1. \A d \in Call : CallOK(d, next[d])'
    BY <1>22, <1>30, <1>33
  <2>2. \A v \in UE : UserOK(v, Last(next, v))'
    BY <1>30, <1>31, <1>32
  <2> QED
    BY <1>3, <1>26, <1>35, <1>36, <1>37, <2>1, <2>2 DEF Calls
<1>39. TypeOK'
  <2>1. MkbBaseTypeOK'
    BY <1>3, <1>17 DEF TypeOK, MkbBaseTypeOK, Links
  <2>2. MkbRanTypeOK' /\ MkbSgwTypeOK' /\ MkbPgwTypeOK'
    BY DEF TypeOK, MkbRanTypeOK, MkbSgwTypeOK, MkbPgwTypeOK, MmeAlone, ranVars, sgwVars, pgwVars
  <2>3. MkbMmeTypeOK'
    <3>1. mme_fd' \in [Call -> MmeData \cup {None}]
      <4>1. MmeEntry(c[1], y) \in MmeData \cup {None}
        BY <1>4, MmeEntryType
      <4>2. MmeEntry(c[1], y) = MmeWait(2, y, [Msg(1) EXCEPT !.imsi = c[1]])
        BY <1>8 DEF MmeEntry, FromRan, MmeWait
      <4> QED
        BY <1>10, <4>1, <4>2 DEF TypeOK, MkbMmeTypeOK
    <3>2. s1mme_id' \in [UeId -> Teid]
      BY <1>4, <1>7, <1>10, TeidFacts DEF TypeOK, MkbMmeTypeOK
    <3> QED
      BY <1>3, <1>7, <1>13, <3>1, <3>2 DEF TypeOK, MkbMmeTypeOK
  <2> QED
    BY <2>1, <2>2, <2>3 DEF TypeOK
<1> QED
    BY <1>33, <1>38, <1>39 DEF CallInv

\* act 7: the answer to a detach, after which two removals are left.
LEMMA MmeDetachAnswerKeeps ==
    ASSUME TypeOK, NEW call \in [Call -> CallState], Calls(call), NEW k \in MmeCore, NEW c \in Call,
           MmeDetachAnswer(k, c), MmeAlone
    PROVE  CallInv'
<1>1. PICK x : x = call[c]
    OBVIOUS
<1>2. /\ MmeSgwAnswer(k, c, 7)
      /\ LET id   == mme_fd[c].msui
             guti == Guti(id)
         IN  IF guti = 0 \/ c \notin mme_srcaddr THEN MmeExit
             ELSE /\ link' = MmeRelease(SendDown(ReadDown(link, "s11", c), "s1", c, Msg(5)), c)
                  /\ mme_fd' = [mme_fd EXCEPT ![c] = None]
                  /\ mme_srcaddr' = mme_srcaddr \ {c}
                  /\ mme_removal' = [mme_removal EXCEPT
                        ![k] = [tables |-> {"s1mme_id", "ue_ctx"}, id |-> id, guti |-> guti]]
                  /\ UNCHANGED <<exited, ue_count, s1mme_id, mme_ctx>>
    BY DEF MmeDetachAnswer
<1>3. x.at = 36 /\ mme_fd[c].msui = x.id /\ mme_removal[k] = None
  <2>1. MmeSgwAnswer(k, c, 7)
    BY <1>2
  <2>2. <<7, call[c].at>> \in {<<5, 20>>, <<6, 24>>, <<7, 36>>} /\ mme_fd[c].msui = call[c].id
        /\ mme_removal[k] = None
    BY <2>1, SgwAnswered
  <2> QED
    BY <1>1, <2>2
<1>4. /\ x \in CallState /\ c[1] \in UE /\ S1OK(c[1], link["s1"][c], x) /\ PlaceOK(c, x)
      /\ S6aOK(c[1], link["s6a"][c], x) /\ S11OK(c[1], link["s11"][c], x)
      /\ S5OK(c[1], link["s5"][c], x) /\ FdsOK(c, x)
    BY <1>1, Held
<1>5. PICK y \in CallState : y.at = 37 /\ y.id = x.id
  <2>1. 37 \in 0 .. 44 /\ x.id \in {0} \cup UeId
    BY <1>4, StateFacts
  <2> QED
    BY <2>1, StateMade
<1>6. x.id \in UeId /\ Guti(x.id) = c[1] /\ c[1] # 0 /\ UserOK(c[1], x)
    BY <1>1, <1>3, MmeKnows
<1>7. PICK rem : rem = [tables |-> {"s1mme_id", "ue_ctx"}, id |-> x.id, guti |-> c[1]]
    OBVIOUS
<1>8. rem \in Removal /\ rem # None /\ rem.guti = c[1] /\ rem.id = x.id
      /\ rem.tables = {"s1mme_id", "ue_ctx"}
    BY <1>4, <1>6, <1>7, Constants DEF Removal
<1>9. /\ link' = MmeRelease(SendDown(ReadDown(link, "s11", c), "s1", c, Msg(5)), c)
      /\ mme_fd' = [mme_fd EXCEPT ![c] = None]
      /\ mme_srcaddr' = mme_srcaddr \ {c}
      /\ mme_removal' = [mme_removal EXCEPT ![k] = rem]
      /\ UNCHANGED <<exited, ue_count, s1mme_id, mme_ctx>>
  <2>1. c \in mme_srcaddr
    BY <1>3, <1>4 DEF PlaceOK
  <2> QED
    BY <1>2, <1>3, <1>6, <1>7, <2>1
<1>10. link["s11"][c] \in Link /\ link["s1"][c] \in Link /\ link \in Links
       /\ "s1" \in Interface /\ "s11" \in Interface /\ Msg(5) \in Message
    BY LinkFacts, TeidFacts DEF Msg, Message
<1>11. PICK q : q = [[link["s1"][c] EXCEPT !.down = Msg(5)] EXCEPT !.state = "shut", !.core = None]
    OBVIOUS
<1>12. PutBoth(link, link', "s1", "s11", c, q, NoLink)
  <2>1. PICK r1 : r1 = ReadDown(link, "s11", c)
    OBVIOUS
  <2>2. PICK r2 : r2 = SendDown(r1, "s1", c, Msg(5))
    OBVIOUS
  <2>3. PICK r3 : r3 = ServerClose(r2, "s1", c)
    OBVIOUS
  <2>4. link' = ClientClose(r3, "s11", c)
    BY <1>9, <2>1, <2>2, <2>3 DEF MmeRelease
  <2>5. PICK p1 : p1 = [link["s11"][c] EXCEPT !.down = None]
    OBVIOUS
  <2>6. Put(link, r1, "s11", c, p1)
    BY <1>10, <2>1, <2>5, ReadDownPuts
  <2>7. r1 \in Links /\ r1["s1"][c] = link["s1"][c]
    BY <1>10, <2>6 DEF Put
  <2>8. PICK q1 : q1 = [link["s1"][c] EXCEPT !.down = Msg(5)]
    OBVIOUS
  <2>9. Put(r1, r2, "s1", c, q1)
    BY <1>10, <2>2, <2>7, <2>8, SendDownPuts
  <2>10. PutBoth(link, r2, "s11", "s1", c, p1, q1)
    BY <1>10, <2>6, <2>9, PutsBoth
  <2>11. r2 \in Links /\ r2["s1"][c] = q1 /\ r2["s11"][c] = p1
    BY <2>10 DEF PutBoth
  <2>12. q1.gone = FALSE /\ p1.state = "shut"
    <3>1. link["s1"][c].gone = FALSE /\ link["s11"][c].state = "shut"
      BY <1>3, <1>4, <1>10 DEF S1OK, S11OK, S11State, Link
    <3> QED
      BY <1>10, <2>5, <2>8, <3>1 DEF Link
  <2>13. Put(r2, r3, "s1", c, IF r2["s1"][c].gone THEN NoLink
                              ELSE [r2["s1"][c] EXCEPT !.state = "shut", !.core = None])
    BY <1>10, <2>3, <2>11, ServerClosePuts
  <2>14. Put(r2, r3, "s1", c, q)
    BY <1>11, <2>8, <2>11, <2>12, <2>13
  <2>15. r3 \in Links /\ r3["s11"][c] = p1 /\ r3["s1"][c] = q
    BY <1>10, <2>11, <2>14 DEF Put
  <2>16. Put(r3, link', "s11", c, IF r3["s11"][c].state \in {"none", "shut"} THEN NoLink
                                  ELSE [r3["s11"][c] EXCEPT !.gone = TRUE])
    BY <1>10, <2>4, <2>15, ClientClosePuts
  <2>17. Put(r3, link', "s11", c, NoLink)
    BY <2>12, <2>15, <2>16
  <2> QED
    BY <1>10, <2>10, <2>14, <2>17 DEF PutBoth, Put
<1>13. /\ link'["s1"][c] = q /\ link'["s11"][c] = NoLink
       /\ link'["s6a"][c] = link["s6a"][c] /\ link'["s5"][c] = link["s5"][c] /\ link' \in Links
    BY <1>12 DEF PutBoth, Interface
<1>14. LinksOK(c, y)'
  <2>1. /\ q.state = "shut" /\ q.gone = link["s1"][c].gone /\ q.core = None
        /\ q.up = link["s1"][c].up /\ q.down = Msg(5)
    BY <1>10, <1>11 DEF Link
  <2>2. S1OK(c[1], q, y)
    BY <1>3, <1>4, <1>5, <2>1 DEF S1OK, S1State, S1Up, S1Down
  <2>3. S6aOK(c[1], link["s6a"][c], y)
    BY <1>3, <1>4, <1>5, S6aIdle
  <2>4. S11OK(c[1], NoLink, y)
    BY <1>5 DEF S11OK, NoLink, S11State, S11Up, S11Down
  <2>5. S5OK(c[1], link["s5"][c], y)
    BY <1>3, <1>4, <1>5 DEF S5OK, S5State, S5Up, S5Down
  <2> QED
    BY <1>13, <2>2, <2>3, <2>4, <2>5 DEF LinksOK
<1>15. FdsOK(c, y)'
  <2>1. mme_fd'[c] = None /\ MmeEntry(c[1], y) = None
    BY <1>5, <1>9 DEF MmeEntry, FromRan, MmeWait, TypeOK, MkbMmeTypeOK
  <2>2. PICK s : s = link["s11"][c].state
    OBVIOUS
  <2>3. SgwFdEntry(c[1], "none", y.at) = None /\ SgwFdEntry(c[1], s, x.at) = None
    BY <1>3, <1>5 DEF SgwFdEntry, FromMme, SgwWait
  <2>4. sgw_fd'[c] = sgw_fd[c] /\ pgw_fd' = pgw_fd
    BY DEF MmeAlone, sgwVars, pgwVars
  <2>5. NoLink.state = "none"
    BY DEF NoLink
  <2> QED
    BY <1>4, <1>13, <2>1, <2>2, <2>3, <2>4, <2>5 DEF FdsOK
<1>16. PlaceOK(c, y)'
  <2>1. /\ x.at # 0 /\ y.at # 0 /\ x.at \notin 38 .. 44 /\ x.at \notin Cut /\ y.at \notin Cut
        /\ y.at \notin (10 .. 36) \cup (41 .. 44) /\ x.at \notin 0 .. 2 /\ y.at \notin 0 .. 2
    BY <1>3, <1>5 DEF Cut
  <2>2. rounds' = rounds /\ hung' = hung /\ c \notin mme_srcaddr'
    BY <1>9 DEF MmeAlone, ranVars
  <2> QED
    BY <1>4, <1>5, <2>1, <2>2, Zenon DEF PlaceOK
<1>17. WorkOK(c, y)'
    BY <1>5 DEF WorkOK, SgwWorks, PgwWorks
<1>18. CallOK(c, y)'
    BY <1>14, <1>15, <1>16, <1>17 DEF CallOK
<1>19. Frame(c)
  <2>1. \A d \in Call \ {c}, i \in Interface : link'[i][d] = link[i][d]
    BY <1>12 DEF PutBoth
  <2>2. \A d \in Call \ {c} : mme_fd'[d] = mme_fd[d]
    BY <1>9 DEF TypeOK, MkbMmeTypeOK
  <2>3. \A d \in Call \ {c} : d \in mme_srcaddr' <=> d \in mme_srcaddr
    BY <1>9
  <2> QED
    BY <1>9, <2>1, <2>2, <2>3
    DEF Frame, OthersKept, UserKept, SgwKept, PgwKept, MmeAlone, ranVars, sgwVars, pgwVars
<1>20. rounds' = rounds /\ sgw_job' = sgw_job /\ pgw_job' = pgw_job
    BY DEF MmeAlone, ranVars, sgwVars, pgwVars
<1>21. PICK next : Moved(call, next, c, y)
    BY MovedFacts
<1>22. next[c] = y /\ next \in [Call -> CallState] /\ \A d \in Call \ {c} : next[d] = call[d]
    BY <1>21 DEF Moved
<1>23. JobsOK(next)' /\ \A d \in Call \ {c} : WorkOK(d, call[d])'
  <2>1. call[c].at \notin SgwWorks \cup PgwWorks
    BY <1>1, <1>3 DEF SgwWorks, PgwWorks
  <2> QED
    BY <1>19, <1>20, <1>21, <2>1, JobsStay DEF Frame
<1>24. mme_removal'[k] = rem /\ \A l \in MmeCore \ {k} : mme_removal'[l] = mme_removal[l]
    BY <1>9 DEF TypeOK, MkbMmeTypeOK
<1>25. IdsOK(call) /\ RemovalsOK(call)
    BY DEF Calls
<1>26. \A v \in UE \ {c[1]}, z \in CallState : z = Last(call, v) /\ MmeOK(v, z) => MmeOK(v, z)'
  <2>1. SUFFICES ASSUME NEW v \in UE, v # c[1], NEW z \in CallState, MmeOK(v, z)
                 PROVE  MmeOK(v, z)'
    OBVIOUS
  <2>2. Pause(v)' => Pause(v)
    BY <1>3, <1>24 DEF Pause
  <2> QED
    BY <1>9, <2>1, <2>2 DEF MmeOK
<1>27. /\ \A d \in Call \ {c} : CallOK(d, next[d])'
       /\ \A v \in UE \ {c[1]} : UserOK(v, Last(next, v))'
    BY <1>19, <1>20, <1>21, <1>23, <1>26, OthersGo
<1>28. UserOK(c[1], y)'
  <2>1. RanOK(c[1], y)'
    <3>1. Pc(y.at) = Pc(x.at)
      BY <1>3, <1>5 DEF Pc
    <3> QED
      BY <1>3, <1>5, <1>6, <3>1 DEF UserOK, RanOK, MmeAlone, ranVars
  <2>2. MmeOK(c[1], y)'
    <3>1. ~Pause(c[1])'
      BY <1>8, <1>24 DEF Pause
    <3> QED
      BY <1>5, <3>1 DEF MmeOK
  <2>3. SgwOK(c[1], y)'
    <3>1. \A t \in {"s11", "s1", "s5"} : SgwEntryOf(c[1], t, y.at) = SgwEntryOf(c[1], t, x.at)
      BY <1>3, <1>5 DEF SgwEntryOf
    <3>2. SgwOK(c[1], y)
      BY <1>3, <1>5, <1>6, <3>1 DEF UserOK, SgwOK
    <3> QED
      BY <1>4, <3>2, SgwStays DEF SgwKept, MmeAlone, sgwVars
  <2>4. PgwOK(c[1], y)'
    <3>1. PgwOK(c[1], y)
      BY <1>3, <1>5, <1>6 DEF UserOK, PgwOK, PgwEntryOf
    <3> QED
      BY <1>4, <3>1, PgwStays DEF PgwKept, MmeAlone, sgwVars, pgwVars
  <2> QED
    BY <1>6, <1>20, <2>1, <2>2, <2>3, <2>4 DEF UserOK
<1>29. (Last(next, c[1]))' = y
  <2>1. rounds[c[1]] # 0 /\ c = Current(c[1])
    BY <1>1, <1>3, CallNow
  <2> QED
    BY <1>20, <1>21, <2>1 DEF Last, Current, Moved
<1>30. \A d \in Call : next[d].id = call[d].id
    BY <1>1, <1>5, <1>22
<1>31. IdsOK(next)'
  <2>1. /\ \A d \in Call : next[d].id <= ue_count'
        /\ \A d, e \in Call : next[d].id = next[e].id /\ next[d].id # 0 => d = e
    BY <1>9, <1>25, <1>30 DEF IdsOK
  <2>2. ASSUME NEW i \in UeId, s1mme_id'[i] # 0
        PROVE  \E d \in Call : /\ next[d].id = i /\ d[1] = s1mme_id'[i]
                               /\ next[d].at \in (3 .. 36) \cup Cut \/ Leaving(i)'
    <3>1. PICK d \in Call : /\ call[d].id = i /\ d[1] = s1mme_id[i]
                            /\ call[d].at \in (3 .. 36) \cup Cut \/ Leaving(i)
      BY <1>9, <1>25, <2>2 DEF IdsOK
    <3>2. CASE d = c
      <4>1. Leaving(i)'
        <5>1. i = x.id
          BY <1>1, <3>1, <3>2
        <5>2. mme_removal'[k] # None /\ mme_removal'[k].id = i /\ "s1mme_id" \in mme_removal'[k].tables
          BY <1>8, <1>24, <5>1
        <5> QED
          BY <5>2 DEF Leaving
      <4> QED
        BY <1>9, <1>30, <3>1, <4>1
    <3>3. CASE d # c
      <4>1. Leaving(i) => Leaving(i)'
        <5>1. SUFFICES ASSUME NEW l \in MmeCore, mme_removal[l] # None, mme_removal[l].id = i,
                              "s1mme_id" \in mme_removal[l].tables
                       PROVE  Leaving(i)'
          BY DEF Leaving
        <5>2. mme_removal'[l] = mme_removal[l]
          BY <1>3, <1>24, <5>1
        <5> QED
          BY <5>1, <5>2 DEF Leaving
      <4> QED
        BY <1>9, <1>22, <3>1, <3>3, <4>1
    <3> QED
      BY <3>2, <3>3
  <2> QED
    BY <2>1, <2>2 DEF IdsOK
<1>32. RemovalsOK(next)'
  <2>1. ASSUME NEW l \in MmeCore, mme_removal[l] # None
        PROVE  mme_removal[l] \in Removal /\ mme_removal[l].guti \in UE \ {c[1]}
    <3>1. mme_removal[l] \in Removal
      BY <2>1 DEF TypeOK, MkbMmeTypeOK
    <3>2. mme_removal[l].guti \in UE
      BY <3>1 DEF Removal
    <3>3. Last(call, mme_removal[l].guti).at \in 37 .. 38
      BY <1>25, <2>1 DEF RemovalsOK
    <3>4. Last(call, c[1]).at = 36
      BY <1>1, <1>3, CallNow
    <3> QED
      BY <3>1, <3>2, <3>3, <3>4
  <2>2. \A v \in UE \ {c[1]} : (Last(next, v))' = Last(call, v)
    BY <1>20, <1>21, LastOther
  <2>3. ASSUME NEW l \in MmeCore, mme_removal'[l] # None, NEW g \in UE, g = mme_removal'[l].guti
        PROVE  /\ mme_removal'[l].tables \in {{"s1mme_id", "ue_ctx"}, {"ue_ctx"}}
               /\ (Last(next, g))'.at \in 37 .. 38
               /\ (Last(next, g))'.id = mme_removal'[l].id
               /\ \A m \in MmeCore : mme_removal'[m] # None /\ mme_removal'[m].guti = g => m = l
    <3>1. CASE l = k
      <4>1. mme_removal'[l] = rem /\ g = c[1]
        BY <1>8, <1>24, <2>3, <3>1
      <4>2. ASSUME NEW m \in MmeCore, mme_removal'[m] # None, mme_removal'[m].guti = c[1]
            PROVE  m = k
        BY <1>24, <2>1, <4>2
      <4>3. (Last(next, g))'.at \in 37 .. 38 /\ (Last(next, g))'.id = rem.id
        BY <1>5, <1>8, <1>29, <4>1
      <4>4. rem.tables \in {{"s1mme_id", "ue_ctx"}, {"ue_ctx"}}
        BY <1>8
      <4> QED
        BY <3>1, <4>1, <4>2, <4>3, <4>4
    <3>2. CASE l # k
      <4>1. mme_removal'[l] = mme_removal[l] /\ mme_removal[l] # None /\ g = mme_removal[l].guti
        BY <1>24, <2>3, <3>2
      <4>2. /\ mme_removal[l].tables \in {{"s1mme_id", "ue_ctx"}, {"ue_ctx"}}
            /\ Last(call, g).at \in 37 .. 38
            /\ Last(call, g).id = mme_removal[l].id
            /\ \A m \in MmeCore : mme_removal[m] # None /\ mme_removal[m].guti = g => m = l
        BY <1>25, <4>1 DEF RemovalsOK
      <4>3. ASSUME NEW m \in MmeCore, mme_removal'[m] # None, mme_removal'[m].guti = g
            PROVE  m = l
        <5>1. m # k
          BY <1>8, <1>24, <2>1, <4>1, <4>3
        <5> QED
          BY <1>24, <4>2, <4>3, <5>1
      <4>4. (Last(next, g))' = Last(call, g)
        BY <2>1, <2>2, <4>1
      <4> QED
        BY <4>1, <4>2, <4>3, <4>4
    <3> QED
      BY <3>1, <3>2
  <2>4. ASSUME NEW l \in MmeCore, mme_removal'[l] # None PROVE mme_removal'[l].guti \in UE
    <3>1. mme_removal'[l] \in Removal
      BY <1>8, <1>24, <2>1, <2>4
    <3> QED
      BY <3>1 DEF Removal
  <2> QED
    BY <2>3, <2>4 DEF RemovalsOK, Last, Current
<1>33. ue_count' = Cardinality(Numbered(next))
  <2>1. Numbered(next) = Numbered(call)
    BY <1>30 DEF Numbered
  <2> QED
    BY <1>9, <2>1 DEF Calls
<1>34. Calls(next)'
  <2>1. \A d \in Call : CallOK(d, next[d])'
    BY <1>18, <1>22, <1>27
  <2>2. \A v \in UE : UserOK(v, Last(next, v))'
    BY <1>27, <1>28, <1>29
  <2>3. exited' = {}
    BY <1>9 DEF Calls
  <2> QED
    BY <1>23, <1>31, <1>32, <1>33, <2>1, <2>2, <2>3 DEF Calls
<1>35. TypeOK'
  <2>1. MkbBaseTypeOK'
    BY <1>9, <1>13 DEF TypeOK, MkbBaseTypeOK, Links
  <2>2. MkbRanTypeOK' /\ MkbSgwTypeOK' /\ MkbPgwTypeOK'
    BY DEF TypeOK, MkbRanTypeOK, MkbSgwTypeOK, MkbPgwTypeOK, MmeAlone, ranVars, sgwVars, pgwVars
  <2>3. MkbMmeTypeOK'
    BY <1>8, <1>9 DEF TypeOK, MkbMmeTypeOK
  <2> QED
    BY <2>1, <2>2, <2>3 DEF TypeOK
<1> QED
    BY <1>22, <1>34, <1>35 DEF CallInv

\* What a removal is about: the last call of a terminal, which is through.
LEMMA RemovalFacts ==
    ASSUME TypeOK, NEW call \in [Call -> CallState], Calls(call), NEW k \in MmeCore,
           mme_removal[k] # None
    PROVE  LET r == mme_removal[k]
           IN  /\ r \in Removal /\ r.guti \in UE /\ r.id \in UeId /\ r.id # 0
               /\ Last(call, r.guti).at \in 37 .. 38
               /\ \A l \in MmeCore : mme_removal[l] # None /\ mme_removal[l].guti = r.guti => l = k
               /\ \E c \in Call : /\ c[1] = r.guti /\ c = Current(c[1])
                                  /\ call[c].id = r.id /\ call[c].at \in 37 .. 38
<1>1. PICK r : r = mme_removal[k]
    OBVIOUS
<1>2. r \in Removal
    BY <1>1 DEF TypeOK, MkbMmeTypeOK
<1>3. r.guti \in UE /\ r.id \in UeId /\ r.id # 0
    BY <1>2, IdFacts DEF Removal
<1>4. /\ Last(call, r.guti).at \in 37 .. 38 /\ Last(call, r.guti).id = r.id
      /\ \A l \in MmeCore : mme_removal[l] # None /\ mme_removal[l].guti = r.guti => l = k
    BY <1>1 DEF Calls, RemovalsOK
<1>5. rounds[r.guti] # 0
    BY <1>3, <1>4 DEF Last, NoCall
<1>6. rounds[r.guti] \in 1 .. Rounds[r.guti]
    BY <1>3, <1>5, Types
<1>7. PICK c \in Call : c = Current(r.guti) /\ c[1] = r.guti
    BY <1>3, <1>6, CallMade DEF Current
<1>8. call[c] = Last(call, r.guti)
    BY <1>5, <1>7 DEF Last
<1>9. c = Current(c[1]) /\ call[c].id = r.id /\ call[c].at \in 37 .. 38
    BY <1>4, <1>7, <1>8
<1> QED
    BY <1>1, <1>2, <1>3, <1>4, <1>7, <1>9

\* A call whose terminal's removal is still to come has no other number in the table.
LEMMA MmeRemoveKeeps ==
    ASSUME TypeOK, NEW call \in [Call -> CallState], Calls(call), NEW k \in MmeCore,
           MmeRemove(k), MmeAlone
    PROVE  CallInv'
<1>1. PICK r : r = mme_removal[k]
    OBVIOUS
<1>2. /\ r # None
      /\ IF "s1mme_id" \in r.tables
         THEN /\ s1mme_id' = [s1mme_id EXCEPT ![r.id] = 0]
              /\ mme_removal' = [mme_removal EXCEPT ![k].tables = {"ue_ctx"}]
              /\ UNCHANGED mme_ctx
         ELSE /\ mme_ctx' = [mme_ctx EXCEPT ![r.guti] = None]
              /\ mme_removal' = [mme_removal EXCEPT ![k] = None]
              /\ UNCHANGED s1mme_id
      /\ UNCHANGED <<linkVars, mme_fd, mme_srcaddr, ue_count>>
    BY <1>1 DEF MmeRemove
<1>3. PICK u : u = r.guti
    OBVIOUS
<1>4. /\ r \in Removal /\ u \in UE /\ r.id \in UeId /\ r.id # 0 /\ Last(call, u).at \in 37 .. 38
      /\ \A l \in MmeCore : mme_removal[l] # None /\ mme_removal[l].guti = u => l = k
      /\ \E c \in Call : /\ c[1] = u /\ c = Current(c[1])
                         /\ call[c].id = r.id /\ call[c].at \in 37 .. 38
    BY <1>1, <1>2, <1>3, RemovalFacts
<1>5. PICK c \in Call : c[1] = u /\ call[c].id = r.id /\ call[c].at \in 37 .. 38
    BY <1>4
<1>6. /\ \A d \in Call : CallOK(d, call[d]) /\ call[d] \in CallState
      /\ \A v \in UE : UserOK(v, Last(call, v)) /\ Last(call, v) \in CallState
      /\ JobsOK(call) /\ RemovalsOK(call) /\ IdsOK(call)
      /\ ue_count = Cardinality(Numbered(call)) /\ exited = {}
    BY LastFacts DEF Calls
<1>7. /\ link' = link /\ exited' = exited /\ mme_fd' = mme_fd /\ mme_srcaddr' = mme_srcaddr
      /\ ue_count' = ue_count /\ rounds' = rounds
      /\ UNCHANGED <<ran_pc, ran_ctx, hung, sgw_fd, sgw_job, sgw_id, sgw_ctx, pgw_fd, pgw_job,
                     pgw_s5_id, sgi_id, pgw_ctx>>
    BY <1>2 DEF linkVars, MmeAlone, ranVars, sgwVars, pgwVars
<1>8. \A d \in Call : CallOK(d, call[d])'
    BY <1>6, <1>7 DEF CallOK, PlaceOK, LinksOK, FdsOK, WorkOK
<1>9. JobsOK(call)'
    BY <1>6, <1>7 DEF JobsOK
<1>10. \A v \in UE : (Last(call, v))' = Last(call, v)
    BY <1>7 DEF Last, Current
<1>11. ASSUME NEW v \in UE, NEW x \in CallState, UserOK(v, x), MmeOK(v, x)'
       PROVE  UserOK(v, x)'
  <2>1. RanOK(v, x)' /\ SgwOK(v, x)' /\ PgwOK(v, x)'
    BY <1>7, <1>11 DEF UserOK, RanOK, SgwOK, SgwEntryOf, PgwOK, PgwEntryOf
  <2> QED
    BY <1>7, <1>11, <2>1 DEF UserOK
<1>12. ASSUME \A v \in UE, x \in CallState : x = Last(call, v) /\ MmeOK(v, x) => MmeOK(v, x)'
       PROVE  \A v \in UE : UserOK(v, Last(call, v))'
  <2>1. SUFFICES ASSUME NEW v \in UE PROVE UserOK(v, Last(call, v))'
    OBVIOUS
  <2>2. PICK x : x = Last(call, v)
    OBVIOUS
  <2>3. x \in CallState /\ UserOK(v, x) /\ (Last(call, v))' = x
    BY <1>6, <1>10, <2>2
  <2>4. MmeOK(v, x)'
    BY <1>12, <2>2, <2>3 DEF UserOK
  <2>5. UserOK(v, x)'
    BY <1>11, <2>3, <2>4
  <2> QED
    BY <2>3, <2>5
<1>13. TypeOK' /\ Calls(call)'
  <2>1. MkbBaseTypeOK' /\ MkbRanTypeOK' /\ MkbSgwTypeOK' /\ MkbPgwTypeOK'
    BY <1>7 DEF TypeOK, MkbBaseTypeOK, MkbRanTypeOK, MkbSgwTypeOK, MkbPgwTypeOK
  <2>2. CASE "s1mme_id" \in r.tables
    <3>1. /\ s1mme_id' = [s1mme_id EXCEPT ![r.id] = 0]
          /\ mme_removal' = [mme_removal EXCEPT ![k].tables = {"ue_ctx"}]
          /\ mme_ctx' = mme_ctx
      BY <1>2, <2>2
    <3>2. PICK s : s = [r EXCEPT !.tables = {"ue_ctx"}]
      OBVIOUS
    <3>3. s \in Removal /\ s # None /\ s.tables = {"ue_ctx"} /\ s.id = r.id /\ s.guti = u
      BY <1>3, <1>4, <3>2, Constants DEF Removal
    <3>4. mme_removal' = [mme_removal EXCEPT ![k] = s]
      BY <1>1, <3>1, <3>2
    <3>5. mme_removal'[k] = s /\ \A l \in MmeCore \ {k} : mme_removal'[l] = mme_removal[l]
      BY <3>4 DEF TypeOK, MkbMmeTypeOK
    <3>6. \A l \in MmeCore : /\ mme_removal'[l] # None <=> mme_removal[l] # None
                             /\ mme_removal[l] # None => /\ mme_removal'[l].guti = mme_removal[l].guti
                                                         /\ mme_removal'[l].id = mme_removal[l].id
      BY <1>1, <1>2, <1>3, <3>3, <3>5
    <3>7. \A i \in UeId : s1mme_id'[i] = IF i = r.id THEN 0 ELSE s1mme_id[i]
      BY <1>4, <3>1 DEF TypeOK, MkbMmeTypeOK
    <3>8. MkbMmeTypeOK'
      BY <1>4, <1>7, <3>1, <3>3, <3>4, TeidFacts DEF TypeOK, MkbMmeTypeOK
    <3>9. ASSUME NEW v \in UE, NEW x \in CallState, x = Last(call, v), MmeOK(v, x)
          PROVE  MmeOK(v, x)'
      <4>1. Pause(v)' <=> Pause(v)
        BY <3>6 DEF Pause
      <4>2. x.at \in 3 .. 36 => s1mme_id'[x.id] = s1mme_id[x.id]
        <5>1. SUFFICES ASSUME x.at \in 3 .. 36 PROVE s1mme_id'[x.id] = s1mme_id[x.id]
          OBVIOUS
        <5>2. rounds[v] # 0
          BY <3>9, <5>1 DEF Last, NoCall
        <5>3. rounds[v] \in 1 .. Rounds[v]
          BY <5>2, Types
        <5>4. Current(v) \in Call /\ x = call[Current(v)]
          BY <3>9, <5>2, <5>3, CallMade DEF Last, Current
        <5>5. x.id \in UeId
          BY <5>1, <5>4, MmeKnows
        <5>6. x.id # r.id
          <6>1. Current(v) # c
            BY <1>5, <5>1, <5>4
          <6> QED
            BY <1>4, <1>5, <1>6, <5>4, <6>1 DEF IdsOK
        <5> QED
          BY <3>7, <5>5, <5>6
      <4> QED
        BY <3>1, <3>9, <4>1, <4>2 DEF MmeOK
    <3>10. \A v \in UE : UserOK(v, Last(call, v))'
      BY <1>12, <3>9
    <3>11. IdsOK(call)'
      <4>1. /\ \A d \in Call : call[d].id <= ue_count'
            /\ \A d, e \in Call : call[d].id = call[e].id /\ call[d].id # 0 => d = e
        BY <1>6, <1>7 DEF IdsOK
      <4>2. ASSUME NEW i \in UeId, s1mme_id'[i] # 0
            PROVE  \E d \in Call : /\ call[d].id = i /\ d[1] = s1mme_id'[i]
                                   /\ call[d].at \in (3 .. 36) \cup Cut \/ Leaving(i)'
        <5>1. i # r.id /\ s1mme_id'[i] = s1mme_id[i]
          BY <3>7, <4>2
        <5>2. PICK d \in Call : /\ call[d].id = i /\ d[1] = s1mme_id[i]
                                /\ call[d].at \in (3 .. 36) \cup Cut \/ Leaving(i)
          BY <1>6, <4>2, <5>1 DEF IdsOK
        <5>3. Leaving(i) => Leaving(i)'
          <6>1. SUFFICES ASSUME NEW l \in MmeCore, mme_removal[l] # None, mme_removal[l].id = i,
                                "s1mme_id" \in mme_removal[l].tables
                         PROVE  Leaving(i)'
            BY DEF Leaving
          <6>2. l # k
            BY <1>1, <5>1, <6>1
          <6>3. mme_removal'[l] = mme_removal[l]
            BY <3>5, <6>2
          <6> QED
            BY <6>1, <6>3 DEF Leaving
        <5> QED
          BY <5>1, <5>2, <5>3
      <4> QED
        BY <4>1, <4>2 DEF IdsOK
    <3>12. RemovalsOK(call)'
      <4>1. ASSUME NEW l \in MmeCore, mme_removal'[l] # None, NEW g \in UE, g = mme_removal'[l].guti
            PROVE  /\ mme_removal'[l].tables \in {{"s1mme_id", "ue_ctx"}, {"ue_ctx"}}
                   /\ (Last(call, g))'.at \in 37 .. 38
                   /\ (Last(call, g))'.id = mme_removal'[l].id
                   /\ \A m \in MmeCore : mme_removal'[m] # None /\ mme_removal'[m].guti = g => m = l
        <5>1. mme_removal[l] # None /\ g = mme_removal[l].guti
              /\ mme_removal'[l].id = mme_removal[l].id
          BY <3>6, <4>1
        <5>2. /\ mme_removal[l].tables \in {{"s1mme_id", "ue_ctx"}, {"ue_ctx"}}
              /\ Last(call, g).at \in 37 .. 38
              /\ Last(call, g).id = mme_removal[l].id
              /\ \A m \in MmeCore : mme_removal[m] # None /\ mme_removal[m].guti = g => m = l
          BY <1>6, <5>1 DEF RemovalsOK
        <5>3. mme_removal'[l].tables \in {{"s1mme_id", "ue_ctx"}, {"ue_ctx"}}
          BY <3>3, <3>5, <5>2
        <5>4. \A m \in MmeCore : mme_removal'[m] # None /\ mme_removal'[m].guti = g => m = l
          BY <3>6, <5>2
        <5> QED
          BY <1>10, <5>1, <5>2, <5>3, <5>4
      <4>2. ASSUME NEW l \in MmeCore, mme_removal'[l] # None PROVE mme_removal'[l].guti \in UE
        <5>1. mme_removal'[l] \in Removal
          BY <3>8, <4>2 DEF MkbMmeTypeOK
        <5> QED
          BY <5>1 DEF Removal
      <4> QED
        BY <4>1, <4>2 DEF RemovalsOK, Last, Current
    <3> QED
      BY <1>6, <1>7, <1>8, <1>9, <2>1, <3>8, <3>10, <3>11, <3>12 DEF TypeOK, Calls
  <2>3. CASE "s1mme_id" \notin r.tables
    <3>1. /\ mme_ctx' = [mme_ctx EXCEPT ![u] = None]
          /\ mme_removal' = [mme_removal EXCEPT ![k] = None]
          /\ s1mme_id' = s1mme_id
      BY <1>2, <1>3, <2>3
    <3>2. mme_removal'[k] = None /\ \A l \in MmeCore \ {k} : mme_removal'[l] = mme_removal[l]
      BY <3>1 DEF TypeOK, MkbMmeTypeOK
    <3>3. MkbMmeTypeOK'
      BY <1>4, <1>7, <3>1 DEF TypeOK, MkbMmeTypeOK
    <3>4. mme_ctx'[u] = None /\ \A v \in UE \ {u} : mme_ctx'[v] = mme_ctx[v]
      BY <1>4, <3>1 DEF TypeOK, MkbMmeTypeOK
    <3>5. ASSUME NEW v \in UE, NEW x \in CallState, x = Last(call, v), MmeOK(v, x)
          PROVE  MmeOK(v, x)'
      <4>1. CASE v = u
        BY <1>4, <3>4, <3>5, <4>1 DEF MmeOK
      <4>2. CASE v # u
        <5>1. Pause(v)' => Pause(v)
          BY <1>1, <1>3, <3>2, <4>2 DEF Pause
        <5> QED
          BY <3>1, <3>4, <3>5, <4>2, <5>1 DEF MmeOK
      <4> QED
        BY <4>1, <4>2
    <3>6. \A v \in UE : UserOK(v, Last(call, v))'
      BY <1>12, <3>5
    <3>7. IdsOK(call)'
      <4>1. \A i \in UeId : Leaving(i) => Leaving(i)'
        BY <1>1, <2>3, <3>2 DEF Leaving
      <4> QED
        BY <1>6, <1>7, <3>1, <4>1 DEF IdsOK
    <3>8. RemovalsOK(call)'
      <4>1. ASSUME NEW l \in MmeCore, mme_removal'[l] # None, NEW g \in UE, g = mme_removal'[l].guti
            PROVE  /\ mme_removal'[l].tables \in {{"s1mme_id", "ue_ctx"}, {"ue_ctx"}}
                   /\ (Last(call, g))'.at \in 37 .. 38
                   /\ (Last(call, g))'.id = mme_removal'[l].id
                   /\ \A m \in MmeCore : mme_removal'[m] # None /\ mme_removal'[m].guti = g => m = l
        <5>1. mme_removal'[l] = mme_removal[l]
          BY <3>2, <4>1
        <5>2. /\ mme_removal[l].tables \in {{"s1mme_id", "ue_ctx"}, {"ue_ctx"}}
              /\ Last(call, g).at \in 37 .. 38
              /\ Last(call, g).id = mme_removal[l].id
              /\ \A m \in MmeCore : mme_removal[m] # None /\ mme_removal[m].guti = g => m = l
          BY <1>6, <4>1, <5>1 DEF RemovalsOK
        <5>3. \A m \in MmeCore : mme_removal'[m] # None => mme_removal'[m] = mme_removal[m]
          BY <3>2
        <5> QED
          BY <1>10, <5>1, <5>2, <5>3
      <4>2. ASSUME NEW l \in MmeCore, mme_removal'[l] # None PROVE mme_removal'[l].guti \in UE
        <5>1. mme_removal'[l] \in Removal
          BY <3>3, <4>2 DEF MkbMmeTypeOK
        <5> QED
          BY <5>1 DEF Removal
      <4> QED
        BY <4>1, <4>2 DEF RemovalsOK, Last, Current
    <3> QED
      BY <1>6, <1>7, <1>8, <1>9, <2>1, <3>3, <3>6, <3>7, <3>8 DEF TypeOK, Calls
  <2> QED
    BY <2>2, <2>3
<1> QED
  BY <1>13 DEF CallInv

-----------------------------------------------------------------------------
(* The beginning of a round, and of everything.                            *)

\* A terminal that is idle is through with its last call.
LEMMA IdleFacts ==
    ASSUME TypeOK, NEW call \in [Call -> CallState], Calls(call), NEW u \in UE, ran_pc[u] = "idle"
    PROVE  /\ Last(call, u) \in CallState /\ UserOK(u, Last(call, u))
           /\ Last(call, u).at \in 38 .. 44
           /\ rounds[u] # 0 => Current(u) \in Call /\ Last(call, u) = call[Current(u)]
<1>1. PICK x : x = Last(call, u)
    OBVIOUS
<1>2. x \in CallState /\ UserOK(u, x) /\ x.at \in 0 .. 44
    BY <1>1, LastFacts, StateFacts DEF Calls
<1>3. x.at = 0 \/ x.at \in 38 .. 44
    BY <1>2 DEF UserOK, RanOK, Pc
<1>4. rounds[u] # 0 => Current(u) \in Call /\ x = call[Current(u)]
    BY <1>1, Types, CallMade DEF Last, Current
<1>5. x.at # 0
  <2>1. CASE rounds[u] = 0
    BY <1>1, <2>1 DEF Last, NoCall
  <2>2. CASE rounds[u] # 0
    <3>1. PlaceOK(Current(u), x)
      BY <1>4, <2>2, Held
    <3>2. Current(u)[1] = u /\ Current(u)[2] = rounds[u] /\ rounds[u] \in Nat
      BY Types, MkbRoundAssumption DEF Current
    <3>3. ~(rounds[u] > rounds[u])
      BY <3>2
    <3> QED
      BY <3>1, <3>2, <3>3 DEF PlaceOK
  <2> QED
    BY <2>1, <2>2
<1> QED
    BY <1>1, <1>2, <1>3, <1>4, <1>5

LEMMA AttachKeeps ==
    ASSUME TypeOK, NEW call \in [Call -> CallState], Calls(call), NEW u \in UE,
           Attach(u), NodesKept
    PROVE  CallInv'
<1>1. PICK n : n = rounds[u] + 1
    OBVIOUS
<1>2. PICK c : c = <<u, n>>
    OBVIOUS
<1>3. PICK m : m = [Msg(1) EXCEPT !.imsi = u]
    OBVIOUS
<1>4. /\ ran_pc[u] = "idle" /\ ran_pc' = [ran_pc EXCEPT ![u] = "authenticate"] /\ exited' = exited
      /\ rounds[u] < Rounds[u] /\ rounds' = [rounds EXCEPT ![u] = n]
      /\ ran_ctx' = [ran_ctx EXCEPT ![u] = NewRanContext]
      /\ link' = SendUp(Connect(link, "s1", c), "s1", c, m)
      /\ hung' = hung /\ Pause(u)
    BY <1>1, <1>2, <1>3 DEF Attach, RanAttach, Goto
<1>5. rounds \in [UE -> Nat] /\ rounds[u] \in Nat /\ Rounds[u] \in Nat
    BY MkbRoundAssumption DEF TypeOK, MkbRanTypeOK
<1>6. n \in 1 .. Rounds[u] /\ n \in Nat
    BY <1>1, <1>4, <1>5
<1>7. c \in Call /\ c[1] = u /\ c[2] = n
    BY <1>2, <1>6, CallMade
<1>8. PICK x : x = call[c]
    OBVIOUS
<1>9. /\ x \in CallState /\ S1OK(u, link["s1"][c], x) /\ PlaceOK(c, x)
      /\ S6aOK(u, link["s6a"][c], x) /\ S11OK(u, link["s11"][c], x)
      /\ S5OK(u, link["s5"][c], x) /\ FdsOK(c, x)
    BY <1>7, <1>8, Held
<1>10. x.at = 0 /\ x.id = 0
  <2>1. c[2] > rounds[c[1]]
    BY <1>1, <1>5, <1>7
  <2>2. x.at = 0
    BY <1>9, <2>1 DEF PlaceOK
  <2> QED
    BY <1>9, <2>2 DEF PlaceOK
<1>11. PICK y \in CallState : y.at = 1 /\ y.id = 0
  <2>1. 1 \in 0 .. 44 /\ 0 \in {0} \cup UeId
    OBVIOUS
  <2> QED
    BY <2>1, StateMade
<1>12. m \in Message
  <2>1. m = [type |-> 1, id |-> 0, imsi |-> u, teid |-> 0, ip |-> 0]
    BY <1>3 DEF Msg
  <2> QED
    BY <2>1, TeidFacts DEF Message
<1>13. PICK p : p = [NoLink EXCEPT !.state = "syn"]
    OBVIOUS
<1>14. PICK q : q = [p EXCEPT !.up = m]
    OBVIOUS
<1>15. Put(link, link', "s1", c, q)
  <2>1. "s1" \in Interface /\ link \in Links
    BY <1>7, LinkFacts
  <2>2. PICK r : r = Connect(link, "s1", c)
    OBVIOUS
  <2>3. Put(link, r, "s1", c, p)
    BY <1>7, <1>13, <2>1, <2>2, ConnectPuts
  <2>4. r \in Links /\ r["s1"][c] = p
    BY <2>3 DEF Put
  <2>5. link' = SendUp(r, "s1", c, m)
    BY <1>4, <2>2
  <2>6. Put(r, link', "s1", c, [r["s1"][c] EXCEPT !.up = m])
    BY <1>7, <1>12, <2>1, <2>4, <2>5, SendUpPuts
  <2>7. Put(r, link', "s1", c, q)
    BY <1>14, <2>4, <2>6
  <2> QED
    BY <2>3, <2>7, PutTwice
<1>16. LinksOK(c, y)'
  <2>1. /\ link'["s1"][c] = q /\ link'["s6a"][c] = link["s6a"][c]
        /\ link'["s11"][c] = link["s11"][c] /\ link'["s5"][c] = link["s5"][c]
    BY <1>7, <1>15 DEF Put, Interface
  <2>2. q.state = "syn" /\ ~q.gone /\ q.core = None /\ q.up = m /\ q.down = None
    BY <1>13, <1>14 DEF NoLink
  <2>3. S1State(y.at) = "syn" /\ S1Up(u, y) = m /\ S1Down(u, y) = None
    BY <1>3, <1>11 DEF S1State, S1Up, S1Down
  <2>4. S1OK(u, q, y)
    BY <1>11, <2>2, <2>3 DEF S1OK
  <2>5. S6aOK(u, link["s6a"][c], y)
    BY <1>9, <1>10, <1>11 DEF S6aOK
  <2>6. S11OK(u, link["s11"][c], y)
    BY <1>9, <1>10, <1>11 DEF S11OK, S11State, S11Up, S11Down
  <2>7. S5OK(u, link["s5"][c], y)
    BY <1>9, <1>10, <1>11 DEF S5OK, S5State, S5Up, S5Down
  <2> QED
    BY <1>7, <2>1, <2>4, <2>5, <2>6, <2>7 DEF LinksOK
<1>17. FdsOK(c, y)'
  <2>1. MmeEntry(u, x) = None /\ MmeEntry(u, y) = None
    BY <1>10, <1>11 DEF MmeEntry, FromRan, MmeWait
  <2>2. PICK s : s = link["s11"][c].state
    OBVIOUS
  <2>3. SgwFdEntry(u, s, y.at) = None /\ SgwFdEntry(u, s, x.at) = None
    BY <1>10, <1>11 DEF SgwFdEntry, FromMme, SgwWait
  <2>4. mme_fd' = mme_fd /\ sgw_fd' = sgw_fd /\ pgw_fd' = pgw_fd
    BY DEF NodesKept, mmeVars, sgwVars, pgwVars
  <2>5. link'["s11"][c] = link["s11"][c] /\ link'["s5"][c] = link["s5"][c]
    BY <1>7, <1>15 DEF Put, Interface
  <2> QED
    BY <1>7, <1>9, <2>1, <2>2, <2>3, <2>4, <2>5 DEF FdsOK
<1>18. rounds'[u] = n /\ \A v \in UE \ {u} : rounds'[v] = rounds[v]
    BY <1>4, <1>5
<1>19. hung' = hung /\ mme_srcaddr' = mme_srcaddr
    BY <1>4 DEF NodesKept, mmeVars
<1>20. PlaceOK(c, y)'
  <2>1. ~(c[2] > rounds'[c[1]]) /\ ~(c[2] < rounds'[c[1]])
    BY <1>6, <1>7, <1>18
  <2>2. /\ y.at # 0 /\ y.at \in 0 .. 2 /\ x.at \notin Cut /\ y.at \notin Cut
        /\ x.at \notin (10 .. 36) \cup (41 .. 44) /\ y.at \notin (10 .. 36) \cup (41 .. 44)
    BY <1>10, <1>11 DEF Cut
  <2> QED
    BY <1>9, <1>11, <1>19, <2>1, <2>2, Zenon DEF PlaceOK
<1>21. WorkOK(c, y)'
    BY <1>11 DEF WorkOK, SgwWorks, PgwWorks
<1>22. CallOK(c, y)'
    BY <1>16, <1>17, <1>20, <1>21 DEF CallOK
<1>23. Frame(c)
  <2>1. \A d \in Call \ {c}, i \in Interface : link'[i][d] = link[i][d]
    BY <1>15 DEF Put
  <2>2. \A v \in UE \ {u} : ran_pc'[v] = ran_pc[v] /\ ran_ctx'[v] = ran_ctx[v]
    BY <1>4 DEF TypeOK, MkbRanTypeOK
  <2> QED
    BY <1>7, <1>19, <2>1, <2>2
    DEF Frame, OthersKept, UserKept, SgwKept, PgwKept, NodesKept, mmeVars, sgwVars, pgwVars
<1>24. UNCHANGED <<sgw_job, pgw_job, mme_removal, s1mme_id, ue_count>>
    BY DEF NodesKept, mmeVars, sgwVars, pgwVars
<1>25. PICK next : Moved(call, next, c, y)
    BY <1>7, MovedFacts
<1>26. next[c] = y /\ next \in [Call -> CallState] /\ \A d \in Call \ {c} : next[d] = call[d]
    BY <1>25 DEF Moved
<1>27. JobsOK(next)' /\ \A d \in Call \ {c} : WorkOK(d, call[d])'
  <2>1. call[c].at \notin SgwWorks \cup PgwWorks
    BY <1>8, <1>10 DEF SgwWorks, PgwWorks
  <2> QED
    BY <1>7, <1>23, <1>24, <1>25, <2>1, JobsStay DEF Frame
<1>28. PICK x0 : x0 = Last(call, u)
    OBVIOUS
<1>29. /\ x0 \in CallState /\ UserOK(u, x0) /\ x0.at \in 38 .. 44
       /\ rounds[u] # 0 => Current(u) \in Call /\ x0 = call[Current(u)]
    BY <1>4, <1>28, IdleFacts
<1>30. ASSUME NEW d \in Call, d # c PROVE CallOK(d, next[d])'
  <2>1. CallOK(d, call[d]) /\ WorkOK(d, call[d])' /\ call[d] \in CallState /\ PlaceOK(d, call[d])
    BY <1>27, <1>30, Held DEF Calls
  <2>2. d = <<d[1], d[2]>> /\ d[1] \in UE /\ d[2] \in 1 .. Rounds[d[1]] /\ Rounds[d[1]] \in Nat
        /\ rounds[d[1]] \in Nat
    BY CallFacts, Types, MkbRoundAssumption
  <2>3. (d[2] > rounds'[d[1]] <=> d[2] > rounds[d[1]])
        /\ (d[2] < rounds'[d[1]] => call[d].at \in 38 .. 44)
    <3>1. CASE d[1] = u
      <4>1. d[2] # n
        BY <1>2, <1>30, <2>2, <3>1
      <4>2. d[2] > n <=> d[2] > rounds[u]
        BY <1>1, <1>5, <2>2, <3>1, <4>1
      <4>3. CASE d[2] = rounds[u]
        <5>1. rounds[u] # 0 /\ d = Current(u)
          BY <2>2, <3>1, <4>3 DEF Current
        <5>2. call[d].at \in 38 .. 44
          BY <1>29, <5>1
        <5> QED
          BY <1>18, <3>1, <4>2, <5>2
      <4>4. CASE d[2] # rounds[u]
        <5>1. d[2] < n => d[2] < rounds[u]
          BY <1>1, <1>5, <2>2, <3>1, <4>4
        <5>2. d[2] < rounds[u] => call[d].at \in 38 .. 44
          BY <2>1, <3>1 DEF PlaceOK
        <5> QED
          BY <1>18, <3>1, <4>2, <5>1, <5>2
      <4> QED
        BY <4>3, <4>4
    <3>2. CASE d[1] # u
      BY <1>18, <2>1, <2>2, <3>2 DEF PlaceOK
    <3> QED
      BY <3>1, <3>2
  <2>4. PlaceOK(d, call[d])'
    BY <1>19, <2>1, <2>3, Zenon DEF PlaceOK
  <2>5. CallOK(d, call[d])'
    BY <1>7, <1>23, <1>30, <2>1, <2>4, OtherCalls DEF Frame
  <2> QED
    BY <1>26, <1>30, <2>5
<1>31. ASSUME NEW v \in UE, v # u PROVE UserOK(v, Last(next, v))'
  <2>1. PICK z : z = Last(call, v)
    OBVIOUS
  <2>2. rounds'[v] = rounds[v]
    BY <1>18, <1>31
  <2>3. UserOK(v, z) /\ z \in CallState /\ (Last(next, v))' = z
    BY <1>7, <1>25, <1>31, <2>1, <2>2, LastFacts, LastOther DEF Calls
  <2>4. MmeOK(v, z)'
    BY <1>7, <1>23, <1>24, <1>31, <2>3, MmeStays DEF Frame, UserKept, UserOK
  <2>5. UserOK(v, z)'
    BY <1>7, <1>23, <1>31, <2>2, <2>3, <2>4, OtherUsers
  <2> QED
    BY <2>3, <2>5
<1>32. (Last(next, u))' = y
  <2>1. rounds'[u] # 0 /\ Current(u)' = c
    BY <1>2, <1>6, <1>18 DEF Current
  <2> QED
    BY <1>26, <2>1 DEF Last
<1>33. UserOK(u, y)'
  <2>1. rounds'[u] <= Rounds[u]
    BY <1>6, <1>18, <1>5
  <2>2. RanOK(u, y)'
    <3>1. Pc(y.at) = "authenticate" /\ ran_pc'[u] = "authenticate"
      BY <1>4, <1>11 DEF Pc, TypeOK, MkbRanTypeOK
    <3> QED
      BY <1>11, <3>1 DEF RanOK
  <2>3. MmeOK(u, y)'
    BY <1>11 DEF MmeOK
  <2>4. SgwOK(u, y)'
    <3>1. \A t \in {"s11", "s1", "s5"} : SgwEntryOf(u, t, y.at) = SgwEntryOf(u, t, x0.at)
      BY <1>11, <1>29 DEF SgwEntryOf
    <3>2. SgwOK(u, y)
      BY <1>11, <1>29, <3>1 DEF UserOK, SgwOK
    <3> QED
      BY <3>2, SgwStays DEF SgwKept, NodesKept, sgwVars
  <2>5. PgwOK(u, y)'
    <3>1. PgwOK(u, y)
      BY <1>11, <1>29 DEF UserOK, PgwOK, PgwEntryOf
    <3> QED
      BY <3>1, PgwStays DEF PgwKept, NodesKept, sgwVars, pgwVars
  <2> QED
    BY <2>1, <2>2, <2>3, <2>4, <2>5 DEF UserOK
<1>34. IdsOK(call) /\ RemovalsOK(call) /\ exited = {} /\ ue_count = Cardinality(Numbered(call))
    BY DEF Calls
<1>35. \A d \in Call : next[d].id = call[d].id
    BY <1>8, <1>10, <1>11, <1>26
<1>36. IdsOK(next)'
  <2>1. (\A d \in Call : next[d].id <= ue_count')
        /\ \A d, e \in Call : next[d].id = next[e].id /\ next[d].id # 0 => d = e
    BY <1>24, <1>34, <1>35 DEF IdsOK
  <2>2. ASSUME NEW i \in UeId, s1mme_id'[i] # 0
        PROVE  \E d \in Call : /\ next[d].id = i /\ d[1] = s1mme_id'[i]
                               /\ next[d].at \in (3 .. 36) \cup Cut \/ Leaving(i)'
    <3>1. PICK d \in Call : /\ call[d].id = i /\ d[1] = s1mme_id[i]
                            /\ call[d].at \in (3 .. 36) \cup Cut \/ Leaving(i)
      BY <1>24, <1>34, <2>2 DEF IdsOK
    <3>2. d # c
      BY <1>8, <1>10, <3>1, IdFacts
    <3>3. Leaving(i)' <=> Leaving(i)
      BY <1>24 DEF Leaving
    <3> QED
      BY <1>24, <1>26, <3>1, <3>2, <3>3
  <2> QED
    BY <2>1, <2>2 DEF IdsOK
<1>37. RemovalsOK(next)'
  <2>1. ASSUME NEW l \in MmeCore, mme_removal[l] # None
        PROVE  (Last(next, mme_removal[l].guti))' = Last(call, mme_removal[l].guti)
    <3>1. mme_removal[l] \in Removal
      BY <2>1 DEF TypeOK, MkbMmeTypeOK
    <3>2. mme_removal[l].guti \in UE
      BY <3>1 DEF Removal
    <3>3. mme_removal[l].guti # u
      BY <1>4, <2>1 DEF Pause
    <3>4. PICK g : g = mme_removal[l].guti
      OBVIOUS
    <3>5. g \in UE /\ g # c[1] /\ rounds'[g] = rounds[g]
      BY <1>7, <1>18, <3>2, <3>3, <3>4
    <3>6. (Last(next, g))' = Last(call, g)
      BY <1>7, <1>25, <3>5, LastOther
    <3> QED
      BY <1>24, <3>4, <3>6 DEF Last, Current
  <2> QED
    BY <1>24, <1>34, <2>1 DEF RemovalsOK
<1>38. ue_count' = Cardinality(Numbered(next))
  <2>1. Numbered(next) = Numbered(call)
    BY <1>35 DEF Numbered
  <2> QED
    BY <1>24, <1>34, <2>1
<1>39. Calls(next)'
  <2>1. \A d \in Call : CallOK(d, next[d])'
    BY <1>22, <1>26, <1>30
  <2>2. \A v \in UE : UserOK(v, Last(next, v))'
    BY <1>31, <1>32, <1>33
  <2> QED
    BY <1>4, <1>27, <1>34, <1>36, <1>37, <1>38, <2>1, <2>2 DEF Calls
<1>40. TypeOK'
  <2>1. MkbBaseTypeOK'
    <3>1. link' \in Links
      BY <1>15 DEF Put
    <3> QED
      BY <1>4, <3>1 DEF TypeOK, MkbBaseTypeOK, Links
  <2>2. MkbRanTypeOK'
    <3>1. ran_pc' \in [UE -> {"idle", "authenticate", "set_security", "set_eps_session",
                              "attach_complete", "attached", "detach"}]
      BY <1>4 DEF TypeOK, MkbRanTypeOK
    <3>2. NewRanContext \in [id : {0} \cup UeId, guti : Teid, s1_uteid_ul : Teid, ip : Teid]
      BY TeidFacts DEF NewRanContext
    <3>3. ran_ctx' \in [UE -> [id : {0} \cup UeId, guti : Teid, s1_uteid_ul : Teid, ip : Teid]]
      BY <1>4, <3>2 DEF TypeOK, MkbRanTypeOK
    <3>4. rounds' \in [UE -> Nat]
      BY <1>4, <1>5, <1>6
    <3>5. \A v \in UE : rounds'[v] <= Rounds[v]
      <4>1. \A v \in UE : rounds[v] <= Rounds[v]
        BY DEF TypeOK, MkbRanTypeOK
      <4>2. n <= Rounds[u]
        BY <1>6
      <4> QED
        BY <1>18, <4>1, <4>2
    <3> QED
      BY <1>4, <3>1, <3>3, <3>4, <3>5 DEF TypeOK, MkbRanTypeOK
  <2>3. MkbMmeTypeOK' /\ MkbSgwTypeOK' /\ MkbPgwTypeOK'
    BY DEF TypeOK, MkbMmeTypeOK, MkbSgwTypeOK, MkbPgwTypeOK, NodesKept, mmeVars, sgwVars, pgwVars
  <2> QED
    BY <2>1, <2>2, <2>3 DEF TypeOK
<1> QED
    BY <1>26, <1>39, <1>40 DEF CallInv

LEMMA CallInit ==
    ASSUME Init
    PROVE  CallInv
<1>1. PICK x : x = [at |-> 0, id |-> 0]
    OBVIOUS
<1>2. x \in CallState /\ x.at = 0 /\ x.id = 0
    BY <1>1 DEF CallState
<1>3. PICK call : call = [c \in Call |-> x]
    OBVIOUS
<1>4. call \in [Call -> CallState] /\ \A c \in Call : call[c] = x
    BY <1>2, <1>3
<1>5. TypeOK
  <2>1. MkbBaseTypeOK
    BY NoLinkType DEF Init, MkbBaseInit, MkbBaseTypeOK
  <2>2. MkbRanTypeOK
    <3>1. \A u \in UE : Rounds[u] \in Nat
      BY MkbRoundAssumption
    <3>2. NewRanContext \in [id : {0} \cup UeId, guti : Teid, s1_uteid_ul : Teid, ip : Teid]
      BY TeidFacts DEF NewRanContext
    <3>3. /\ ran_pc = [u \in UE |-> "idle"] /\ ran_ctx = [u \in UE |-> NewRanContext]
          /\ rounds = [u \in UE |-> 0] /\ hung = {}
      BY DEF Init, MkbRanInit
    <3>4. \A u \in UE : rounds[u] <= Rounds[u]
      BY <3>1, <3>3
    <3> QED
      BY <3>2, <3>3, <3>4 DEF MkbRanTypeOK
  <2>3. MkbMmeTypeOK
    BY TeidFacts DEF Init, MkbMmeInit, MkbMmeTypeOK
  <2>4. MkbSgwTypeOK
    BY TeidFacts DEF Init, MkbSgwInit, MkbSgwTypeOK
  <2>5. MkbPgwTypeOK
    BY TeidFacts DEF Init, MkbPgwInit, MkbPgwTypeOK
  <2> QED
    BY <2>1, <2>2, <2>3, <2>4, <2>5 DEF TypeOK
<1>6. ASSUME NEW c \in Call PROVE CallOK(c, call[c])
  <2>1. c[1] \in UE /\ c[2] \in 1 .. Rounds[c[1]] /\ Rounds[c[1]] \in Nat
    BY CallFacts, MkbRoundAssumption
  <2>2. rounds[c[1]] = 0
    BY <2>1 DEF Init, MkbRanInit
  <2>3. PlaceOK(c, x)
    <3>1. c[2] > rounds[c[1]] /\ ~(c[2] < rounds[c[1]])
      BY <2>1, <2>2
    <3>2. x.at \in 0 .. 2 /\ x.at \notin Cut /\ x.at \notin (10 .. 36) \cup (41 .. 44)
      BY <1>2 DEF Cut
    <3>3. hung = {} /\ mme_srcaddr = {}
      BY DEF Init, MkbRanInit, MkbMmeInit
    <3> QED
      BY <1>2, <3>1, <3>2, <3>3, Zenon DEF PlaceOK
  <2>4. LinksOK(c, x)
    <3>1. /\ link["s1"][c] = NoLink /\ link["s6a"][c] = NoLink
          /\ link["s11"][c] = NoLink /\ link["s5"][c] = NoLink
      BY DEF Init, MkbBaseInit, Interface
    <3>2. S1OK(c[1], NoLink, x)
      BY <1>2 DEF S1OK, S1State, S1Up, S1Down, NoLink
    <3>3. S6aOK(c[1], NoLink, x)
      BY <1>2 DEF S6aOK, NoLink
    <3>4. S11OK(c[1], NoLink, x)
      BY <1>2 DEF S11OK, S11State, S11Up, S11Down, NoLink
    <3>5. S5OK(c[1], NoLink, x)
      BY <1>2 DEF S5OK, S5State, S5Up, S5Down, NoLink
    <3> QED
      BY <3>1, <3>2, <3>3, <3>4, <3>5 DEF LinksOK
  <2>5. FdsOK(c, x)
    <3>1. MmeEntry(c[1], x) = None
      BY <1>2 DEF MmeEntry, FromRan, MmeWait
    <3>2. PICK s : s = link["s11"][c].state
      OBVIOUS
    <3>3. SgwFdEntry(c[1], s, x.at) = None
      BY <1>2 DEF SgwFdEntry, FromMme, SgwWait
    <3>4. link["s5"][c].state # "open"
      BY DEF Init, MkbBaseInit, Interface, NoLink
    <3>5. mme_fd[c] = None /\ sgw_fd[c] = None /\ c \notin pgw_fd
      BY DEF Init, MkbMmeInit, MkbSgwInit, MkbPgwInit
    <3> QED
      BY <3>1, <3>2, <3>3, <3>4, <3>5 DEF FdsOK
  <2>6. WorkOK(c, x)
    BY <1>2 DEF WorkOK, SgwWorks, PgwWorks
  <2> QED
    BY <1>4, <2>3, <2>4, <2>5, <2>6 DEF CallOK
<1>7. ASSUME NEW u \in UE PROVE UserOK(u, Last(call, u))
  <2>1. rounds[u] = 0 /\ ran_pc[u] = "idle"
    BY DEF Init, MkbRanInit
  <2>2. PICK z : z = NoCall
    OBVIOUS
  <2>3. Last(call, u) = z /\ z.at = 38
    BY <2>1, <2>2 DEF Last, NoCall
  <2>4. rounds[u] <= Rounds[u]
    BY <2>1, MkbRoundAssumption
  <2>5. RanOK(u, z)
    <3>1. Pc(z.at) = "idle"
      BY <2>3 DEF Pc
    <3> QED
      BY <2>1, <2>3, <3>1 DEF RanOK
  <2>6. MmeOK(u, z)
    <3>1. mme_ctx[u] = None
      BY DEF Init, MkbMmeInit
    <3> QED
      BY <2>3, <3>1 DEF MmeOK
  <2>7. SgwOK(u, z)
    <3>1. sgw_ctx[u] = None /\ \A t \in {"s11", "s1", "s5"} : sgw_id[t][u] = 0
      BY DEF Init, MkbSgwInit
    <3>2. \A t \in {"s11", "s1", "s5"} : SgwEntryOf(u, t, z.at) = 0
      BY <2>3, <3>1 DEF SgwEntryOf
    <3> QED
      BY <2>3, <3>1, <3>2 DEF SgwOK
  <2>8. PgwOK(u, z)
    <3>1. pgw_ctx[u] = None /\ pgw_s5_id[u] = 0 /\ sgi_id[u] = 0
      BY TeidFacts DEF Init, MkbPgwInit
    <3> QED
      BY <2>3, <3>1 DEF PgwOK, PgwEntryOf
  <2> QED
    BY <2>3, <2>4, <2>5, <2>6, <2>7, <2>8 DEF UserOK
<1>8. JobsOK(call) /\ RemovalsOK(call)
    BY DEF JobsOK, RemovalsOK, Init, MkbMmeInit, MkbSgwInit, MkbPgwInit
<1>9. ue_count = 0 /\ \A i \in UeId : s1mme_id[i] = 0
    BY DEF Init, MkbMmeInit
<1>10. IdsOK(call)
    BY <1>2, <1>4, <1>9 DEF IdsOK
<1>11. ue_count = Cardinality(Numbered(call))
  <2>1. Numbered(call) = {}
    BY <1>2, <1>4 DEF Numbered
  <2> QED
    BY <1>9, <2>1, FS_EmptySet
<1>12. exited = {}
    BY DEF Init, MkbBaseInit
<1> QED
    BY <1>4, <1>5, <1>6, <1>7, <1>8, <1>10, <1>11, <1>12 DEF Calls, CallInv
=============================================================================
