---------------------------- MODULE MkbGatewayProofs ----------------------------
(***************************************************************************)
(* Steps of the cores of SGW and PGW keep CallInv, and what follows from   *)
(* the invariant: no node exits, an attached terminal has its connections  *)
(* and entries, the gateways' tables agree, and nothing remains.           *)
(***************************************************************************)
EXTENDS MkbMmeProofs

SgwAlone == UNCHANGED <<ranVars, mmeVars, pgwVars>>

PgwAlone == UNCHANGED <<ranVars, mmeVars, sgwVars>>

-----------------------------------------------------------------------------
(* What a core of the SGW is in the middle of.                             *)

LEMMA SgwJobMade ==
    ASSUME NEW c \in Call, NEW at \in SgwWorks
    PROVE  /\ SgwJobOf(c, at) \in SgwJob /\ SgwJobOf(c, at) # None
           /\ SgwJobOf(c, at).call = c /\ SgwJobOf(c, at).teid = c[1] /\ SgwJobOf(c, at).imsi = c[1]
           /\ at \in 12 .. 14 => SgwJobOf(c, at).do = "create"
           /\ at \in 33 .. 35 => SgwJobOf(c, at).do = "remove"
           /\ at \in {12, 33} => SgwJobOf(c, at).at = "s1"
           /\ at \in {13, 34} => SgwJobOf(c, at).at = "s5"
           /\ at \in {14, 35} => SgwJobOf(c, at).at = "ue_ctx"
<1>1. c[1] \in UE
    BY CallFacts
<1>2. SgwJobOf(c, at) \in SgwJob
    BY <1>1, TeidFacts DEF SgwJobOf, SgwJob, SgwWorks
<1>3. SgwJobOf(c, at) # None
    BY <1>2, Constants
<1>4. /\ SgwJobOf(c, at).call = c /\ SgwJobOf(c, at).teid = c[1] /\ SgwJobOf(c, at).imsi = c[1]
      /\ at \in 12 .. 14 => SgwJobOf(c, at).do = "create"
      /\ at \in 33 .. 35 => SgwJobOf(c, at).do = "remove"
    BY DEF SgwJobOf
<1>5. /\ at \in {12, 33} => SgwJobOf(c, at).at = "s1"
      /\ at \in {13, 34} => SgwJobOf(c, at).at = "s5"
      /\ at \in {14, 35} => SgwJobOf(c, at).at = "ue_ctx"
    BY DEF SgwJobOf
<1> QED
    BY <1>2, <1>3, <1>4, <1>5

\* A job is that of the call that the core serves, and a call that needs one has one.
LEMMA SgwJobHeld ==
    ASSUME TypeOK, NEW call \in [Call -> CallState], Calls(call), NEW k \in SgwCore,
           sgw_job[k] # None
    PROVE  \E c \in Call : /\ call[c].at \in SgwWorks /\ link["s11"][c].core = k
                           /\ sgw_job[k] = SgwJobOf(c, call[c].at)
<1>1. PICK c : c = sgw_job[k].call
    OBVIOUS
<1>2. sgw_job[k] \in SgwJob
    BY DEF TypeOK, MkbSgwTypeOK
<1>3. c \in Call
    BY <1>1, <1>2 DEF SgwJob
<1>4. call[c].at \in SgwWorks /\ link["s11"][c].core = k
    BY <1>1 DEF Calls, JobsOK
<1>5. sgw_job[k] = SgwJobOf(c, call[c].at)
    BY <1>3, <1>4, Held DEF WorkOK
<1> QED
    BY <1>3, <1>4, <1>5

LEMMA SgwFree ==
    ASSUME NEW call \in [Call -> CallState], Calls(call), NEW c \in Call,
           sgw_job[link["s11"][c].core] = None
    PROVE  call[c].at \notin SgwWorks
<1>1. SUFFICES ASSUME call[c].at \in SgwWorks PROVE FALSE
    OBVIOUS
<1>2. sgw_job[link["s11"][c].core] = SgwJobOf(c, call[c].at)
    BY <1>1, Held DEF WorkOK
<1> QED
    BY <1>1, <1>2, SgwJobMade

\* What the entry of a call in fdmap can be.
LEMMA SgwEntryType ==
    ASSUME NEW u \in UE, NEW s, NEW at
    PROVE  SgwFdEntry(u, s, at) \in SgwData \cup {None}
<1>1. u \in Teid /\ 0 \in Teid /\ 0 \in {0} \cup UeId
    BY TeidFacts
<1>2. [Msg(1) EXCEPT !.teid = u, !.imsi = u] \in Message
  <2>1. [Msg(1) EXCEPT !.teid = u, !.imsi = u] = [type |-> 1, id |-> 0, imsi |-> u, teid |-> u, ip |-> 0]
    <3>1. PICK m : m = Msg(1)
      OBVIOUS
    <3>2. m = [type |-> 1, id |-> 0, imsi |-> 0, teid |-> 0, ip |-> 0]
      BY <3>1 DEF Msg
    <3>3. PICK n : n = [m EXCEPT !.teid = u]
      OBVIOUS
    <3>4. n = [type |-> 1, id |-> 0, imsi |-> 0, teid |-> u, ip |-> 0]
      BY <3>2, <3>3
    <3>5. [n EXCEPT !.imsi = u] = [type |-> 1, id |-> 0, imsi |-> u, teid |-> u, ip |-> 0]
      BY <3>4
    <3>6. [m EXCEPT !.teid = u, !.imsi = u] = [n EXCEPT !.imsi = u]
      BY <3>3
    <3> QED
      BY <3>1, <3>5, <3>6
  <2>2. [type |-> 1, id |-> 0, imsi |-> u, teid |-> u, ip |-> 0] \in Message
    BY <1>1 DEF Message
  <2> QED
    BY <2>1, <2>2
<1>3. FromMme(FALSE) \in SgwData /\ FromMme(TRUE) \in SgwData
    BY <1>1 DEF FromMme, SgwData
<1>4. ASSUME NEW act \in 1 .. 4, NEW buf \in Message \cup {None}
      PROVE  SgwWait(u, act, buf) \in SgwData
    BY <1>1 DEF SgwWait, SgwData
<1>5. /\ SgwWait(u, 2, [Msg(1) EXCEPT !.teid = u, !.imsi = u]) \in SgwData
      /\ SgwWait(u, 3, None) \in SgwData /\ SgwWait(u, 4, None) \in SgwData
    BY <1>2, <1>4
<1> QED
    BY <1>3, <1>5, Zenon DEF SgwFdEntry

-----------------------------------------------------------------------------
(* Steps of the SGW.                                                       *)

SgwMoves == {<<10, 10>>, <<11, 11>>, <<11, 12>>, <<12, 13>>, <<13, 14>>, <<14, 15>>, <<15, 16>>,
             <<19, 20>>, <<23, 24>>, <<28, 29>>, <<32, 33>>, <<33, 34>>, <<34, 35>>, <<35, 36>>}

\* No core takes up or drops anything, or that of the call does what comes next.
SgwJobGoes(call, c, y) ==
    \/ UNCHANGED sgw_job /\ call[c].at \notin SgwWorks /\ y.at \notin SgwWorks
    \/ \E k \in SgwCore :
          /\ link["s11"][c].core = k /\ (y.at \in SgwWorks => link'["s11"][c].core = k)
          /\ sgw_job[k] = None \/ sgw_job[k].call = c
          /\ sgw_job' = [sgw_job EXCEPT ![k] = IF y.at \in SgwWorks THEN SgwJobOf(c, y.at) ELSE None]

SgwStep(call, c, y) ==
    /\ <<call[c].at, y.at>> \in SgwMoves /\ y.id = call[c].id
    /\ SgwJobGoes(call, c, y)
    /\ sgw_fd' = [sgw_fd EXCEPT ![c] = SgwFdEntry(c[1], link'["s11"][c].state, y.at)]
    /\ \A v \in UE \ {c[1]} : SgwKept(v)
    /\ sgw_id' \in [{"s11", "s1", "s5"} -> [UE -> Teid]]
    /\ sgw_ctx' \in [UE -> SgwContext \cup {None}]
    /\ sgw_ctx[c[1]] # None => sgw_ctx'[c[1]] # None \/ y.at = 36
    /\ SgwAlone /\ exited' = exited

\* They change the call's connections to MME and PGW.
SgwLinks(c, y, r) ==
    /\ r \in Links
    /\ \A j \in Interface, d \in Call : d # c \/ j \in {"s1", "s6a"} => r[j][d] = link[j][d]
    /\ S11OK(c[1], r["s11"][c], y) /\ S5OK(c[1], r["s5"][c], y)
    /\ r["s5"][c].state = "open" <=> link["s5"][c].state = "open"

LEMMA SgwGoes ==
    ASSUME TypeOK, NEW call \in [Call -> CallState], Calls(call), NEW c \in Call,
           NEW y \in CallState, SgwStep(call, c, y), SgwLinks(c, y, link'), SgwOK(c[1], y)'
    PROVE  CallInv'
<1>0. PICK x : x = call[c]
    OBVIOUS
<1>1. /\ <<x.at, y.at>> \in SgwMoves /\ y.id = x.id
      /\ SgwJobGoes(call, c, y)
      /\ sgw_fd' = [sgw_fd EXCEPT ![c] = SgwFdEntry(c[1], link'["s11"][c].state, y.at)]
      /\ \A v \in UE \ {c[1]} : SgwKept(v)
      /\ sgw_id' \in [{"s11", "s1", "s5"} -> [UE -> Teid]]
      /\ sgw_ctx' \in [UE -> SgwContext \cup {None}]
      /\ sgw_ctx[c[1]] # None => sgw_ctx'[c[1]] # None \/ y.at = 36
      /\ UNCHANGED <<ranVars, mmeVars, pgwVars>> /\ exited' = exited
    BY <1>0 DEF SgwStep, SgwAlone
<1>2. /\ link' \in Links
      /\ \A j \in Interface, d \in Call : d # c \/ j \in {"s1", "s6a"} => link'[j][d] = link[j][d]
      /\ S11OK(c[1], link'["s11"][c], y) /\ S5OK(c[1], link'["s5"][c], y)
      /\ link'["s5"][c].state = "open" <=> link["s5"][c].state = "open"
    BY DEF SgwLinks
<1>3. x.at \in (10 .. 15) \cup {19, 23, 28} \cup (32 .. 35) /\ y.at \in (10 .. 16) \cup {20, 24, 29} \cup (33 .. 36)
    BY <1>1 DEF SgwMoves
<1>4. /\ x \in CallState /\ c[1] \in UE /\ S1OK(c[1], link["s1"][c], x) /\ PlaceOK(c, x)
      /\ S6aOK(c[1], link["s6a"][c], x) /\ FdsOK(c, x)
    BY <1>0, Held
<1>5. UserOK(c[1], x) /\ c = Current(c[1]) /\ rounds[c[1]] \in Nat
  <2>1. call[c].at \in 1 .. 37
    BY <1>0, <1>3
  <2> QED
    BY <1>0, <1>4, <2>1, CallNow, Types, MkbRoundAssumption
<1>6. PlaceOK(c, y)'
  <2>1. rounds' = rounds /\ hung' = hung /\ mme_srcaddr' = mme_srcaddr
    BY <1>1 DEF ranVars, mmeVars
  <2>2. /\ x.at # 0 /\ y.at # 0 /\ x.at \notin 38 .. 44 /\ x.at \notin Cut /\ y.at \notin Cut
        /\ x.at \in (10 .. 36) \cup (41 .. 44) /\ y.at \in (10 .. 36) \cup (41 .. 44)
        /\ x.at \notin 0 .. 2 /\ y.at \notin 0 .. 2
    BY <1>3 DEF Cut
  <2> QED
    BY <1>1, <1>4, <2>1, <2>2, Zenon DEF PlaceOK
<1>7. LinksOK(c, y)'
  <2>1. link'["s1"][c] = link["s1"][c] /\ link'["s6a"][c] = link["s6a"][c]
    BY <1>2 DEF Interface
  <2>2. x.at \in 2 .. 36 /\ y.at \in 2 .. 36 /\ x.at \notin 3 .. 5 /\ y.at \notin 3 .. 5
    BY <1>3
  <2>3. S1Up(c[1], y) = S1Up(c[1], x) /\ S1Down(c[1], y) = S1Down(c[1], x)
    <3>1. S1Up(c[1], y) = None /\ S1Up(c[1], x) = None
      BY <1>3 DEF S1Up
    <3>2. S1Down(c[1], y) = None /\ S1Down(c[1], x) = None
      BY <1>3 DEF S1Down
    <3> QED
      BY <3>1, <3>2
  <2>4. S1OK(c[1], link["s1"][c], y)
    <3>1. link["s1"][c].up = S1Up(c[1], y) /\ link["s1"][c].down = S1Down(c[1], y)
      BY <1>4, <2>3 DEF S1OK
    <3> QED
      BY <1>4, <2>2, <3>1, S1Served
  <2>5. S6aOK(c[1], link["s6a"][c], y)
    BY <1>4, <2>2, S6aIdle
  <2> QED
    BY <1>2, <2>1, <2>4, <2>5 DEF LinksOK
<1>8. MmeEntry(c[1], y) = MmeEntry(c[1], x)
  <2>1. CASE x.at \in 11 .. 20
    <3>1. y.at \in 11 .. 20
      BY <1>1, <2>1 DEF SgwMoves
    <3>2. MmeEntry(c[1], y) = MmeWait(5, y, None) /\ MmeEntry(c[1], x) = MmeWait(5, x, None)
      BY <2>1, <3>1 DEF MmeEntry, FromRan, MmeWait
    <3> QED
      BY <1>1, <3>2 DEF MmeWait
  <2>2. CASE x.at = 10
    <3>1. y.at = 10
      BY <1>1, <2>2 DEF SgwMoves
    <3>2. /\ MmeEntry(c[1], y) = MmeWait(4, y, [Msg(1) EXCEPT !.teid = c[1], !.imsi = c[1]])
          /\ MmeEntry(c[1], x) = MmeWait(4, x, [Msg(1) EXCEPT !.teid = c[1], !.imsi = c[1]])
      BY <2>2, <3>1 DEF MmeEntry, FromRan, MmeWait
    <3> QED
      BY <1>1, <3>2 DEF MmeWait
  <2>3. CASE x.at = 23
    <3>1. y.at = 24
      BY <1>1, <2>3 DEF SgwMoves
    <3>2. MmeEntry(c[1], y) = MmeWait(6, y, None) /\ MmeEntry(c[1], x) = MmeWait(6, x, None)
      BY <2>3, <3>1 DEF MmeEntry, FromRan, MmeWait
    <3> QED
      BY <1>1, <3>2 DEF MmeWait
  <2>4. CASE x.at \in 28 .. 36
    <3>1. y.at \in 28 .. 36
      BY <1>1, <2>4 DEF SgwMoves
    <3>2. MmeEntry(c[1], y) = MmeWait(7, y, None) /\ MmeEntry(c[1], x) = MmeWait(7, x, None)
      BY <2>4, <3>1 DEF MmeEntry, FromRan, MmeWait
    <3> QED
      BY <1>1, <3>2 DEF MmeWait
  <2> QED
    BY <1>3, <2>1, <2>2, <2>3, <2>4
<1>9. sgw_fd'[c] = SgwFdEntry(c[1], link'["s11"][c].state, y.at)
    BY <1>1 DEF TypeOK, MkbSgwTypeOK
<1>10. FdsOK(c, y)'
  <2>1. mme_fd' = mme_fd /\ pgw_fd' = pgw_fd
    BY <1>1 DEF mmeVars, pgwVars
  <2> QED
    BY <1>2, <1>4, <1>8, <1>9, <2>1 DEF FdsOK
<1>11. OthersKept(c)
  <2>1. \A d \in Call \ {c} : sgw_fd'[d] = sgw_fd[d]
    BY <1>1 DEF TypeOK, MkbSgwTypeOK
  <2> QED
    BY <1>1, <1>2, <2>1 DEF OthersKept, ranVars, mmeVars, pgwVars
<1>12. Frame(c)
    BY <1>1, <1>11 DEF Frame, UserKept, PgwKept, ranVars, mmeVars, pgwVars
<1>13. PICK next : Moved(call, next, c, y)
    BY MovedFacts
<1>14. x.at \notin PgwWorks /\ y.at \notin PgwWorks
    BY <1>3 DEF PgwWorks
<1>15. /\ JobsOK(next)' /\ \A d \in Call \ {c} : WorkOK(d, call[d])'
       /\ y.at \in SgwWorks => sgw_job'[link'["s11"][c].core] = SgwJobOf(c, y.at)
       /\ sgw_job' \in [SgwCore -> SgwJob \cup {None}]
  <2>1. pgw_job' = pgw_job /\ sgw_job \in [SgwCore -> SgwJob \cup {None}]
    BY <1>1 DEF pgwVars, TypeOK, MkbSgwTypeOK
  <2>2. CASE UNCHANGED sgw_job /\ call[c].at \notin SgwWorks /\ y.at \notin SgwWorks
    <3>1. call[c].at \notin SgwWorks \cup PgwWorks
      BY <1>0, <1>14, <2>2
    <3>2. JobsOK(next)' /\ \A d \in Call \ {c} : WorkOK(d, call[d])'
      BY <1>11, <1>13, <2>1, <2>2, <3>1, JobsStay
    <3> QED
      BY <2>1, <2>2, <3>2
  <2>3. CASE \E k \in SgwCore :
          /\ link["s11"][c].core = k /\ (y.at \in SgwWorks => link'["s11"][c].core = k)
          /\ sgw_job[k] = None \/ sgw_job[k].call = c
          /\ sgw_job' = [sgw_job EXCEPT ![k] = IF y.at \in SgwWorks THEN SgwJobOf(c, y.at) ELSE None]
    <3>1. PICK k \in SgwCore :
          /\ link["s11"][c].core = k /\ (y.at \in SgwWorks => link'["s11"][c].core = k)
          /\ sgw_job[k] = None \/ sgw_job[k].call = c
          /\ sgw_job' = [sgw_job EXCEPT ![k] = IF y.at \in SgwWorks THEN SgwJobOf(c, y.at) ELSE None]
      BY <2>3
    <3>2. PICK j : j = IF y.at \in SgwWorks THEN SgwJobOf(c, y.at) ELSE None
      OBVIOUS
    <3>3. sgw_job' = [sgw_job EXCEPT ![k] = j]
      BY <3>1, <3>2
    <3>4. j = None \/ (j.call = c /\ y.at \in SgwWorks /\ link'["s11"][c].core = k)
      BY <3>1, <3>2, SgwJobMade
    <3>5. j \in SgwJob \cup {None}
      BY <3>2, SgwJobMade
    <3>6. call[c].at \notin PgwWorks
      BY <1>0, <1>14
    <3>7. JobsOK(next)' /\ \A d \in Call \ {c} : WorkOK(d, call[d])'
      <4>1. link["s11"][c].core = k /\ (sgw_job[k] = None \/ sgw_job[k].call = c)
        BY <3>1
      <4> QED
        BY <1>11, <1>13, <2>1, <3>3, <3>4, <3>6, <4>1, SgwJobMoves, ZenonT(40)
    <3>8. sgw_job'[k] = j /\ sgw_job' \in [SgwCore -> SgwJob \cup {None}]
      BY <2>1, <3>3, <3>5
    <3> QED
      BY <3>1, <3>2, <3>7, <3>8
  <2> QED
    BY <1>1, <2>2, <2>3 DEF SgwJobGoes
<1>16. CallOK(c, y)'
  <2>1. WorkOK(c, y)'
    BY <1>14, <1>15 DEF WorkOK
  <2> QED
    BY <1>6, <1>7, <1>10, <2>1 DEF CallOK
<1>17. UserOK(c[1], y)'
  <2>1. rounds' = rounds /\ RanOK(c[1], y)'
    <3>1. Pc(y.at) = Pc(x.at)
      BY <1>1 DEF SgwMoves, Pc
    <3> QED
      BY <1>1, <1>5, <3>1 DEF UserOK, RanOK, SgwMoves, ranVars
  <2>2. MmeOK(c[1], y)'
    <3>1. MmeOK(c[1], y)
      BY <1>1, <1>5 DEF UserOK, MmeOK, SgwMoves
    <3> QED
      BY <1>1, <1>4, <3>1, MmeStays DEF mmeVars
  <2>3. PgwOK(c[1], y)'
    <3>1. /\ pgw_ctx' = pgw_ctx /\ pgw_s5_id' = pgw_s5_id /\ sgi_id' = sgi_id
      BY <1>1 DEF pgwVars
    <3>2. PgwOK(c[1], x)
      BY <1>5 DEF UserOK
    <3>3. \A early \in {{17, 18, 30, 31}, {18, 30}} : PgwEntryOf(c[1], early, y.at) = PgwEntryOf(c[1], early, x.at)
      BY <1>3 DEF PgwEntryOf
    <3>4. /\ pgw_s5_id[c[1]] = PgwEntryOf(c[1], {17, 18, 30, 31}, y.at)
          /\ sgi_id[c[1]] = PgwEntryOf(c[1], {18, 30}, y.at)
      BY <3>2, <3>3 DEF PgwOK
    <3>5. /\ y.at \in (19 .. 29) \cup (41 .. 44) => pgw_ctx[c[1]] # None
          /\ y.at \in 30 .. 38 => pgw_ctx[c[1]] = None
      BY <1>1, <3>2 DEF PgwOK, SgwMoves
    <3>6. pgw_ctx[c[1]] # None => pgw_ctx[c[1]] = [teid |-> c[1], ip_addr |-> c[1]] /\ sgw_ctx'[c[1]] # None
      BY <1>1, <3>2, <3>5 DEF PgwOK
    <3> QED
      BY <3>1, <3>4, <3>5, <3>6 DEF PgwOK, PgwEntryOf
  <2> QED
    BY <1>5, <2>1, <2>2, <2>3 DEF UserOK
<1>18. TypeOK'
  <2>1. MkbBaseTypeOK'
    BY <1>1, <1>2 DEF TypeOK, MkbBaseTypeOK, Links
  <2>2. MkbRanTypeOK' /\ MkbMmeTypeOK' /\ MkbPgwTypeOK'
    BY <1>1 DEF TypeOK, MkbRanTypeOK, MkbMmeTypeOK, MkbPgwTypeOK, ranVars, mmeVars, pgwVars
  <2>3. sgw_fd' \in [Call -> SgwData \cup {None}]
    BY <1>1, <1>4, SgwEntryType DEF TypeOK, MkbSgwTypeOK
  <2> QED
    BY <1>1, <1>15, <2>1, <2>2, <2>3 DEF TypeOK, MkbSgwTypeOK
<1>19. /\ call[c].at \in 3 .. 36 => y.at \in (3 .. 36) \cup Cut
       /\ call[c].at = 37 => y.at = 38
       /\ call[c].at \in 1 .. 37
    BY <1>0, <1>3 DEF Cut
<1>20. UNCHANGED <<rounds, mme_removal, s1mme_id, ue_count, exited>> /\ y.id = call[c].id
    BY <1>0, <1>1 DEF ranVars, mmeVars
<1> QED
    BY <1>12, <1>13, <1>15, <1>16, <1>17, <1>18, <1>19, <1>20, Goes

\* A request of the MME, and where its call is then.
LEMMA SgwRequestFacts ==
    ASSUME TypeOK, NEW call \in [Call -> CallState], Calls(call), NEW k \in SgwCore, NEW c \in Call,
           NEW type \in 1 .. 3, SgwRequest(k, c, type)
    PROVE  /\ <<type, call[c].at>> \in {<<1, 11>>, <<2, 23>>, <<3, 28>>}
           /\ link["s11"][c].up = S11Up(c[1], call[c].at)
           /\ link["s11"][c].core = k /\ sgw_job[k] = None
<1>1. PICK x : x = call[c]
    OBVIOUS
<1>2. PICK m : m = link["s11"][c].up
    OBVIOUS
<1>3. m # None /\ m.type = type /\ link["s11"][c].core = k /\ sgw_job[k] = None
    BY <1>2 DEF SgwRequest, SgwEvent, Arrived
<1>4. x \in CallState /\ c[1] \in UE /\ m = S11Up(c[1], x.at) /\ x.at \in 0 .. 44
    BY <1>1, <1>2, Held, StateFacts DEF S11OK
<1>5. x.at \in {11, 23, 28}
    BY <1>3, <1>4, Zenon DEF S11Up
<1>6. <<type, x.at>> \in {<<1, 11>>, <<2, 23>>, <<3, 28>>}
  <2>1. CASE x.at = 11
    <3>1. m = [Msg(1) EXCEPT !.teid = c[1], !.imsi = c[1]]
      BY <1>4, <2>1 DEF S11Up
    <3>2. m.type = 1
      BY <3>1 DEF Msg
    <3> QED
      BY <1>3, <2>1, <3>2
  <2>2. CASE x.at = 23
    <3>1. m = [Msg(2) EXCEPT !.teid = c[1], !.imsi = c[1]]
      BY <1>4, <2>2 DEF S11Up
    <3>2. m.type = 2
      BY <3>1 DEF Msg
    <3> QED
      BY <1>3, <2>2, <3>2
  <2>3. CASE x.at = 28
    <3>1. m = [Msg(3) EXCEPT !.teid = c[1]]
      BY <1>4, <2>3 DEF S11Up
    <3>2. m.type = 3
      BY <3>1 DEF Msg
    <3> QED
      BY <1>3, <2>3, <3>2
  <2> QED
    BY <1>5, <2>1, <2>2, <2>3
<1> QED
    BY <1>1, <1>2, <1>3, <1>4, <1>6

\* What a call waits for at the PGW.
LEMMA SgwWaits ==
    ASSUME TypeOK, NEW call \in [Call -> CallState], Calls(call), NEW k \in SgwCore, NEW c \in Call,
           NEW act \in 2 .. 4, SgwEvent(k, c, act)
    PROVE  /\ link["s11"][c].core = k /\ sgw_job[k] = None
           /\ \/ act = 2 /\ call[c].at = 15
              \/ act = 3 /\ call[c].at \in 16 .. 19
              \/ act = 4 /\ call[c].at \in 29 .. 35
           /\ sgw_fd[c].tid = c[1] /\ sgw_fd[c].guti = c[1]
<1>1. PICK x : x = call[c]
    OBVIOUS
<1>2. PICK s : s = link["s11"][c].state
    OBVIOUS
<1>3. /\ sgw_job[k] = None /\ link["s11"][c].core = k /\ sgw_fd[c] # None /\ sgw_fd[c].act = act
      /\ act # 1
    BY DEF SgwEvent
<1>4. x \in CallState /\ c[1] \in UE /\ sgw_fd[c] = SgwFdEntry(c[1], s, x.at) /\ x.at \in 0 .. 44
    BY <1>1, <1>2, Held, StateFacts DEF FdsOK
<1>5. FromMme(FALSE).act = 1 /\ FromMme(TRUE).act = 1
    BY DEF FromMme
<1>6. sgw_fd[c] # FromMme(FALSE) /\ sgw_fd[c] # FromMme(TRUE)
    BY <1>3, <1>5, Zenon
<1>7. x.at = 15 \/ x.at \in 16 .. 19 \/ x.at \in 29 .. 35
    BY <1>3, <1>4, <1>6, Zenon DEF SgwFdEntry
<1>8. CASE x.at = 15
  <2>1. sgw_fd[c] = SgwWait(c[1], 2, [Msg(1) EXCEPT !.teid = c[1], !.imsi = c[1]])
    BY <1>4, <1>8 DEF SgwFdEntry, FromMme, SgwWait
  <2> QED
    BY <1>1, <1>3, <1>8, <2>1 DEF SgwWait
<1>9. CASE x.at \in 16 .. 19
  <2>1. sgw_fd[c] = SgwWait(c[1], 3, None)
    BY <1>4, <1>9 DEF SgwFdEntry, FromMme, SgwWait
  <2> QED
    BY <1>1, <1>3, <1>9, <2>1 DEF SgwWait
<1>10. CASE x.at \in 29 .. 35
  <2>1. sgw_fd[c] = SgwWait(c[1], 4, None)
    BY <1>4, <1>10 DEF SgwFdEntry, FromMme, SgwWait
  <2> QED
    BY <1>1, <1>3, <1>10, <2>1 DEF SgwWait
<1> QED
    BY <1>7, <1>8, <1>9, <1>10

\* What is known of the subscriber of a call at the SGW.
LEMMA SgwHeld ==
    ASSUME TypeOK, NEW call \in [Call -> CallState], Calls(call), NEW c \in Call,
           call[c].at \in 1 .. 37
    PROVE  /\ call[c] \in CallState /\ c[1] \in UE /\ c[1] # 0
           /\ S11OK(c[1], link["s11"][c], call[c]) /\ S5OK(c[1], link["s5"][c], call[c])
           /\ SgwOK(c[1], call[c])
           /\ sgw_ctx \in [UE -> SgwContext \cup {None}]
           /\ sgw_id \in [{"s11", "s1", "s5"} -> [UE -> Teid]]
           /\ sgw_fd \in [Call -> SgwData \cup {None}]
           /\ sgw_job \in [SgwCore -> SgwJob \cup {None}]
           /\ \A i \in {"s11", "s1", "s5"}, u \in UE : sgw_id[i][u] \in Teid
<1>1. UserOK(c[1], call[c])
    BY CallNow
<1>2. /\ sgw_ctx \in [UE -> SgwContext \cup {None}]
      /\ sgw_id \in [{"s11", "s1", "s5"} -> [UE -> Teid]]
      /\ sgw_fd \in [Call -> SgwData \cup {None}]
      /\ sgw_job \in [SgwCore -> SgwJob \cup {None}]
    BY DEF TypeOK, MkbSgwTypeOK
<1>3. c[1] # 0
    BY CallFacts, Constants
<1> QED
    BY <1>1, <1>2, <1>3, Held DEF UserOK

\* The tables stay.
LEMMA SgwTablesStay ==
    ASSUME TypeOK, NEW u \in UE, UNCHANGED <<sgw_id, sgw_ctx>>
    PROVE  /\ sgw_id' \in [{"s11", "s1", "s5"} -> [UE -> Teid]]
           /\ sgw_ctx' \in [UE -> SgwContext \cup {None}]
           /\ sgw_ctx[u] # None => sgw_ctx'[u] # None
           /\ \A v \in UE \ {u} : SgwKept(v)
BY DEF TypeOK, MkbSgwTypeOK, SgwKept

\* An entry is set.
LEMMA SgwIdSet ==
    ASSUME TypeOK, NEW t \in {"s11", "s1", "s5"}, NEW u \in UE, NEW n \in Teid,
           sgw_id' = [sgw_id EXCEPT ![t][u] = n]
    PROVE  /\ sgw_id' \in [{"s11", "s1", "s5"} -> [UE -> Teid]]
           /\ sgw_id'[t][u] = n
           /\ \A i \in {"s11", "s1", "s5"}, v \in UE : i # t \/ v # u => sgw_id'[i][v] = sgw_id[i][v]
BY DEF TypeOK, MkbSgwTypeOK

\* The accept loop of a core.
LEMMA SgwAcceptKeeps ==
    ASSUME TypeOK, NEW call \in [Call -> CallState], Calls(call), NEW k \in SgwCore, NEW c \in Call,
           SgwAccept(k, c), SgwAlone
    PROVE  CallInv'
<1>1. PICK x \in CallState : x = call[c]
    OBVIOUS
<1>2. /\ link["s11"][c].state = "syn" /\ link' = Accept(link, "s11", c, k)
      /\ sgw_fd' = [sgw_fd EXCEPT ![c] = FromMme(FALSE)]
      /\ UNCHANGED <<exited, sgw_job, sgw_id, sgw_ctx>>
    BY DEF SgwAccept
<1>3. S11OK(c[1], link["s11"][c], x) /\ x.at \in 0 .. 44
    BY <1>1, Held, StateFacts
<1>4. x.at \in 10 .. 11
  <2>1. "syn" \in S11State(x.at)
    BY <1>2, <1>3 DEF S11OK
  <2> QED
    BY <1>3, <2>1 DEF S11State
<1>5. /\ c[1] \in UE /\ SgwOK(c[1], x) /\ S5OK(c[1], link["s5"][c], x)
  <2>1. call[c].at \in 1 .. 37
    BY <1>1, <1>4
  <2> QED
    BY <1>1, <2>1, SgwHeld
<1>6. PICK q : q = [link["s11"][c] EXCEPT !.state = "open", !.core = k]
    OBVIOUS
<1>7. link["s11"][c] \in Link /\ "s11" \in Interface /\ link \in Links
    BY LinkFacts
<1>8. Put(link, link', "s11", c, q)
    BY <1>2, <1>6, <1>7, AcceptPuts DEF Core
<1>9. /\ q.state = "open" /\ q.core = k /\ q.gone = link["s11"][c].gone
      /\ q.up = link["s11"][c].up /\ q.down = link["s11"][c].down
    BY <1>6, <1>7 DEF Link
<1>10. S11OK(c[1], q, x)
  <2>1. "open" \in S11State(x.at)
    BY <1>4 DEF S11State
  <2> QED
    BY <1>3, <1>9, <2>1 DEF S11OK
<1>11. link'["s11"][c] = q /\ link'["s5"][c] = link["s5"][c]
    BY <1>7, <1>8 DEF Put, Interface
<1>12. SgwLinks(c, x, link')
  <2>1. link' \in Links
    BY <1>8 DEF Put
  <2>2. \A j \in Interface, d \in Call : d # c \/ j \in {"s1", "s6a"} => link'[j][d] = link[j][d]
    BY <1>8 DEF Put
  <2> QED
    BY <1>5, <1>10, <1>11, <2>1, <2>2 DEF SgwLinks
<1>13. SgwStep(call, c, x)
  <2>1. <<call[c].at, x.at>> \in SgwMoves
    BY <1>1, <1>4 DEF SgwMoves
  <2>2. x.at \notin SgwWorks
    BY <1>4 DEF SgwWorks
  <2>3. SgwJobGoes(call, c, x)
    BY <1>1, <1>2, <2>2 DEF SgwJobGoes
  <2>4. SgwFdEntry(c[1], "open", x.at) = FromMme(FALSE)
    BY <1>4 DEF SgwFdEntry, FromMme, SgwWait
  <2>5. sgw_fd' = [sgw_fd EXCEPT ![c] = SgwFdEntry(c[1], link'["s11"][c].state, x.at)]
    BY <1>2, <1>9, <1>11, <2>4
  <2> QED
    BY <1>1, <1>2, <1>5, <2>1, <2>3, <2>5, SgwTablesStay DEF SgwStep
<1>14. SgwOK(c[1], x)'
    BY <1>2, <1>5, SgwStays DEF SgwKept
<1> QED
    BY <1>12, <1>13, <1>14, SgwGoes

\* The end of the stream.
LEMMA SgwHungUpKeeps ==
    ASSUME TypeOK, NEW call \in [Call -> CallState], Calls(call), NEW k \in SgwCore, NEW c \in Call,
           SgwHungUp(k, c), SgwAlone
    PROVE  CallInv'
<1>1. PICK x \in CallState : x = call[c]
    OBVIOUS
<1>2. /\ link["s11"][c].gone
      /\ link' = ServerClose(IF sgw_fd[c].pgw THEN ClientClose(link, "s5", c) ELSE link, "s11", c)
      /\ sgw_fd' = [sgw_fd EXCEPT ![c] = None]
      /\ UNCHANGED <<exited, sgw_job, sgw_id, sgw_ctx>>
    BY DEF SgwHungUp, Ended
<1>3. /\ c[1] \in UE /\ S1OK(c[1], link["s1"][c], x) /\ PlaceOK(c, x)
      /\ S6aOK(c[1], link["s6a"][c], x) /\ S11OK(c[1], link["s11"][c], x)
      /\ S5OK(c[1], link["s5"][c], x) /\ FdsOK(c, x)
    BY <1>1, Held
<1>4. x.at = 42
    BY <1>2, <1>3 DEF S11OK
<1>5. PICK y \in CallState : y.at = 43 /\ y.id = x.id
  <2>1. 43 \in 0 .. 44 /\ x.id \in {0} \cup UeId
    BY StateFacts
  <2> QED
    BY <2>1, StateMade
<1>6. sgw_fd[c].pgw
  <2>1. sgw_fd[c] = FromMme(TRUE)
    BY <1>3, <1>4 DEF FdsOK, SgwFdEntry, FromMme, SgwWait
  <2> QED
    BY <2>1 DEF FromMme
<1>7. link["s11"][c] \in Link /\ link["s5"][c] \in Link /\ link \in Links
      /\ "s11" \in Interface /\ "s5" \in Interface
    BY LinkFacts
<1>8. PICK q : q = [link["s5"][c] EXCEPT !.gone = TRUE]
    OBVIOUS
<1>9. PICK r : r = ClientClose(link, "s5", c)
    OBVIOUS
<1>10. Put(link, r, "s5", c, q)
  <2>1. link["s5"][c].state = "open"
    BY <1>3, <1>4 DEF S5OK, S5State
  <2>2. Put(link, r, "s5", c, IF link["s5"][c].state \in {"none", "shut"} THEN NoLink
                              ELSE [link["s5"][c] EXCEPT !.gone = TRUE])
    BY <1>7, <1>9, ClientClosePuts
  <2> QED
    BY <1>8, <2>1, <2>2
<1>11. PutBoth(link, link', "s5", "s11", c, q, NoLink)
  <2>1. r \in Links /\ r["s11"][c] = link["s11"][c]
    BY <1>7, <1>10 DEF Put
  <2>2. link' = ServerClose(r, "s11", c)
    BY <1>2, <1>6, <1>9
  <2>3. Put(r, link', "s11", c, IF r["s11"][c].gone THEN NoLink
                                ELSE [r["s11"][c] EXCEPT !.state = "shut", !.core = None])
    BY <1>7, <2>1, <2>2, ServerClosePuts
  <2>4. Put(r, link', "s11", c, NoLink)
    BY <1>2, <2>1, <2>3
  <2> QED
    BY <1>7, <1>10, <2>4, PutsBoth
<1>12. /\ link'["s1"][c] = link["s1"][c] /\ link'["s6a"][c] = link["s6a"][c]
       /\ link'["s11"][c] = NoLink /\ link'["s5"][c] = q /\ link' \in Links
    BY <1>11 DEF PutBoth, Interface
<1>13. /\ q.state = link["s5"][c].state /\ q.core = link["s5"][c].core /\ q.gone
       /\ q.up = link["s5"][c].up /\ q.down = link["s5"][c].down
    BY <1>7, <1>8 DEF Link
<1>14. LinksOK(c, y)'
  <2>1. S1OK(c[1], link["s1"][c], y)
    BY <1>3, <1>4, <1>5 DEF S1OK, S1State, S1Up, S1Down
  <2>2. S6aOK(c[1], link["s6a"][c], y)
    BY <1>3, <1>4, <1>5, S6aIdle
  <2>3. S11OK(c[1], NoLink, y)
    BY <1>5 DEF S11OK, NoLink, S11State, S11Up, S11Down
  <2>4. S5OK(c[1], q, y)
    <3>1. S5State(y.at) = S5State(x.at)
      BY <1>4, <1>5 DEF S5State
    <3>2. S5Up(c[1], y.at) = None /\ S5Down(c[1], y.at) = None /\ S5Up(c[1], x.at) = None
          /\ S5Down(c[1], x.at) = None
      BY <1>4, <1>5 DEF S5Up, S5Down
    <3> QED
      BY <1>3, <1>5, <1>13, <3>1, <3>2 DEF S5OK
  <2> QED
    BY <1>12, <2>1, <2>2, <2>3, <2>4 DEF LinksOK
<1>15. FdsOK(c, y)'
  <2>1. MmeEntry(c[1], x) = None /\ MmeEntry(c[1], y) = None
    BY <1>4, <1>5 DEF MmeEntry, FromRan, MmeWait
  <2>2. SgwFdEntry(c[1], link'["s11"][c].state, y.at) = None
    <3>1. PICK s : s = link'["s11"][c].state
      OBVIOUS
    <3>2. SgwFdEntry(c[1], s, y.at) = None
      BY <1>5 DEF SgwFdEntry, FromMme, SgwWait
    <3> QED
      BY <3>1, <3>2
  <2>3. mme_fd' = mme_fd /\ pgw_fd' = pgw_fd /\ sgw_fd'[c] = None
    BY <1>2 DEF SgwAlone, mmeVars, pgwVars, TypeOK, MkbSgwTypeOK
  <2> QED
    BY <1>3, <1>12, <1>13, <2>1, <2>2, <2>3 DEF FdsOK
<1>16. PlaceOK(c, y)'
  <2>1. <<x.at, y.at>> \in {<<39, 40>>, <<41, 42>>, <<42, 43>>, <<43, 44>>}
    BY <1>4, <1>5
  <2>2. hung' = hung /\ mme_srcaddr' = mme_srcaddr /\ rounds' = rounds
    BY DEF SgwAlone, ranVars, mmeVars
  <2> QED
    BY <1>3, <1>5, <2>1, <2>2, TrailPlace
<1>17. WorkOK(c, y)'
    BY <1>5 DEF WorkOK, SgwWorks, PgwWorks
<1>18. OthersKept(c)
    BY <1>2, <1>11 DEF OthersKept, PutBoth, SgwAlone, ranVars, mmeVars, pgwVars, TypeOK, MkbSgwTypeOK
<1>19. TypeOK'
  <2>1. MkbBaseTypeOK'
    BY <1>2, <1>12 DEF TypeOK, MkbBaseTypeOK, Links
  <2>2. MkbRanTypeOK' /\ MkbMmeTypeOK' /\ MkbPgwTypeOK'
    BY DEF TypeOK, MkbRanTypeOK, MkbMmeTypeOK, MkbPgwTypeOK, SgwAlone, ranVars, mmeVars, pgwVars
  <2>3. MkbSgwTypeOK'
    BY <1>2 DEF TypeOK, MkbSgwTypeOK
  <2> QED
    BY <2>1, <2>2, <2>3 DEF TypeOK
<1>20. CallOK(c, y)'
    BY <1>14, <1>15, <1>16, <1>17 DEF CallOK
<1>21. <<call[c].at, y.at>> \in {<<39, 40>>, <<41, 42>>, <<42, 43>>, <<43, 44>>} /\ y.id = call[c].id
    BY <1>1, <1>4, <1>5
<1> QED
    BY <1>2, <1>18, <1>19, <1>20, <1>21, Trails DEF SgwAlone, ranVars, mmeVars, pgwVars

\* A create session request, up to s11_id.
LEMMA SgwCreateKeeps ==
    ASSUME TypeOK, NEW call \in [Call -> CallState], Calls(call), NEW k \in SgwCore, NEW c \in Call,
           SgwCreate(k, c), SgwAlone
    PROVE  CallInv'
<1>1. PICK x \in CallState : x = call[c]
    OBVIOUS
<1>2. /\ SgwRequest(k, c, 1)
      /\ LET m == link["s11"][c].up
         IN  /\ sgw_id' = [sgw_id EXCEPT !["s11"][m.teid] = m.imsi]
             /\ sgw_job' = [sgw_job EXCEPT
                   ![k] = [call |-> c, do |-> "create", at |-> "s1", teid |-> m.teid, imsi |-> m.imsi]]
      /\ link' = ReadUp(link, "s11", c)
      /\ UNCHANGED <<exited, sgw_fd, sgw_ctx>>
    BY DEF SgwCreate
<1>3. x.at = 11 /\ link["s11"][c].up = S11Up(c[1], x.at) /\ link["s11"][c].core = k /\ sgw_job[k] = None
  <2>1. SgwRequest(k, c, 1)
    BY <1>2
  <2>2. /\ <<1, call[c].at>> \in {<<1, 11>>, <<2, 23>>, <<3, 28>>}
        /\ link["s11"][c].up = S11Up(c[1], call[c].at)
        /\ link["s11"][c].core = k /\ sgw_job[k] = None
    BY <2>1, SgwRequestFacts
  <2> QED
    BY <1>1, <2>2
<1>4. /\ c[1] \in UE /\ S11OK(c[1], link["s11"][c], x) /\ S5OK(c[1], link["s5"][c], x)
      /\ SgwOK(c[1], x) /\ sgw_id \in [{"s11", "s1", "s5"} -> [UE -> Teid]]
      /\ sgw_fd \in [Call -> SgwData \cup {None}] /\ sgw_ctx \in [UE -> SgwContext \cup {None}]
  <2>1. call[c].at \in 1 .. 37
    BY <1>1, <1>3
  <2> QED
    BY <1>1, <2>1, SgwHeld
<1>5. PICK y \in CallState : y.at = 12 /\ y.id = x.id
  <2>1. 12 \in 0 .. 44 /\ x.id \in {0} \cup UeId
    BY StateFacts
  <2> QED
    BY <2>1, StateMade
<1>6. link["s11"][c].up.teid = c[1] /\ link["s11"][c].up.imsi = c[1]
  <2>1. link["s11"][c].up = [Msg(1) EXCEPT !.teid = c[1], !.imsi = c[1]]
    BY <1>3 DEF S11Up
  <2> QED
    BY <2>1 DEF Msg
<1>7. /\ sgw_id' = [sgw_id EXCEPT !["s11"][c[1]] = c[1]]
      /\ sgw_job' = [sgw_job EXCEPT ![k] = SgwJobOf(c, y.at)]
  <2>1. SgwJobOf(c, y.at) = [call |-> c, do |-> "create", at |-> "s1", teid |-> c[1], imsi |-> c[1]]
    BY <1>5 DEF SgwJobOf
  <2> QED
    BY <1>2, <1>6, <2>1
<1>8. link["s11"][c] \in Link /\ "s11" \in Interface /\ link \in Links
    BY LinkFacts
<1>9. PICK q : q = [link["s11"][c] EXCEPT !.up = None]
    OBVIOUS
<1>10. Put(link, link', "s11", c, q)
    BY <1>2, <1>8, <1>9, ReadUpPuts
<1>11. /\ q.state = link["s11"][c].state /\ q.core = k /\ q.gone = link["s11"][c].gone
       /\ q.up = None /\ q.down = link["s11"][c].down
    BY <1>3, <1>8, <1>9 DEF Link
<1>12. link["s11"][c].state = "open"
  <2>1. k # None
    BY Constants
  <2> QED
    BY <1>3, <1>4, <2>1 DEF S11OK
<1>13. link'["s11"][c] = q /\ link'["s5"][c] = link["s5"][c]
    BY <1>8, <1>10 DEF Put, Interface
<1>14. SgwLinks(c, y, link')
  <2>1. S11OK(c[1], q, y)
    <3>1. "open" \in S11State(y.at) /\ S11Up(c[1], y.at) = None
          /\ S11Down(c[1], y.at) = None /\ S11Down(c[1], x.at) = None
      BY <1>3, <1>5 DEF S11State, S11Up, S11Down
    <3> QED
      BY <1>3, <1>4, <1>5, <1>11, <1>12, <3>1 DEF S11OK
  <2>2. S5OK(c[1], link["s5"][c], y)
    <3>1. S5State(x.at) = S5State(y.at)
      BY <1>3, <1>5 DEF S5State
    <3>2. S5Up(c[1], y.at) = S5Up(c[1], x.at) /\ S5Down(c[1], y.at) = S5Down(c[1], x.at)
      BY <1>3, <1>5 DEF S5Up, S5Down
    <3> QED
      BY <1>3, <1>4, <1>5, <3>1, <3>2 DEF S5OK
  <2>3. link' \in Links
    BY <1>10 DEF Put
  <2>4. \A j \in Interface, d \in Call : d # c \/ j \in {"s1", "s6a"} => link'[j][d] = link[j][d]
    BY <1>10 DEF Put
  <2> QED
    BY <1>13, <2>1, <2>2, <2>3, <2>4 DEF SgwLinks
<1>15. /\ sgw_id' \in [{"s11", "s1", "s5"} -> [UE -> Teid]] /\ sgw_id'["s11"][c[1]] = c[1]
       /\ \A t \in {"s1", "s5"} : sgw_id'[t][c[1]] = sgw_id[t][c[1]]
       /\ \A v \in UE \ {c[1]} : SgwKept(v)
  <2>1. c[1] \in Teid
    BY <1>4, TeidFacts
  <2>2. /\ sgw_id' \in [{"s11", "s1", "s5"} -> [UE -> Teid]] /\ sgw_id'["s11"][c[1]] = c[1]
        /\ \A i \in {"s11", "s1", "s5"}, v \in UE : i # "s11" \/ v # c[1] => sgw_id'[i][v] = sgw_id[i][v]
    BY <1>4, <1>7, <2>1, SgwIdSet
  <2> QED
    BY <1>2, <1>4, <2>2 DEF SgwKept
<1>16. SgwStep(call, c, y)
  <2>1. <<call[c].at, y.at>> \in SgwMoves /\ y.id = call[c].id
    BY <1>1, <1>3, <1>5 DEF SgwMoves
  <2>2. y.at \in SgwWorks
    BY <1>5 DEF SgwWorks
  <2>3. SgwJobGoes(call, c, y)
    BY <1>3, <1>7, <1>11, <1>13, <2>2 DEF SgwJobGoes
  <2>4. sgw_fd[c] = FromMme(FALSE)
    <3>1. sgw_fd[c] = SgwFdEntry(c[1], "open", x.at)
      BY <1>1, <1>12, Held DEF FdsOK
    <3> QED
      BY <1>3, <3>1 DEF SgwFdEntry, FromMme, SgwWait
  <2>5. SgwFdEntry(c[1], "open", y.at) = FromMme(FALSE)
    BY <1>5 DEF SgwFdEntry, FromMme, SgwWait
  <2>6. sgw_fd' = [sgw_fd EXCEPT ![c] = SgwFdEntry(c[1], link'["s11"][c].state, y.at)]
    BY <1>2, <1>4, <1>11, <1>12, <1>13, <2>4, <2>5
  <2> QED
    BY <1>2, <1>4, <1>15, <2>1, <2>3, <2>6 DEF SgwStep
<1>17. SgwOK(c[1], y)'
  <2>1. \A t \in {"s1", "s5"} : SgwEntryOf(c[1], t, y.at) = SgwEntryOf(c[1], t, x.at)
    BY <1>3, <1>5 DEF SgwEntryOf, SgwDone
  <2>2. SgwEntryOf(c[1], "s11", y.at) = c[1]
    BY <1>5 DEF SgwEntryOf, SgwDone
  <2>3. \A t \in {"s11", "s1", "s5"} : sgw_id'[t][c[1]] = SgwEntryOf(c[1], t, y.at)
    BY <1>4, <1>15, <2>1, <2>2 DEF SgwOK
  <2> QED
    BY <1>2, <1>5, <2>3 DEF SgwOK, SgwEntryOf
<1> QED
    BY <1>14, <1>16, <1>17, SgwGoes

\* A core goes on with the job of a call: s1_id, then s5_id.
LEMMA SgwSectionKeeps ==
    ASSUME TypeOK, NEW call \in [Call -> CallState], Calls(call), NEW k \in SgwCore,
           SgwSection(k), SgwAlone
    PROVE  CallInv'
<1>1. /\ sgw_job[k] # None /\ sgw_job[k].at \in {"s1", "s5"}
      /\ LET j == sgw_job[k]
         IN  /\ sgw_id' = [sgw_id EXCEPT ![j.at][j.teid] = SgwEntry(j)]
             /\ sgw_job' = [sgw_job EXCEPT ![k].at = IF j.at = "s1" THEN "s5" ELSE "ue_ctx"]
      /\ link' = link /\ exited' = exited /\ UNCHANGED <<sgw_fd, sgw_ctx>>
    BY DEF SgwSection, linkVars
<1>2. PICK c \in Call : /\ call[c].at \in SgwWorks /\ link["s11"][c].core = k
                        /\ sgw_job[k] = SgwJobOf(c, call[c].at)
    BY <1>1, SgwJobHeld
<1>3. PICK x \in CallState : x = call[c]
    OBVIOUS
<1>4. x.at \in SgwWorks /\ sgw_job[k] = SgwJobOf(c, x.at)
    BY <1>2, <1>3
<1>5. /\ sgw_job[k].call = c /\ sgw_job[k].teid = c[1] /\ sgw_job[k].imsi = c[1]
      /\ x.at \in 12 .. 14 => sgw_job[k].do = "create"
      /\ x.at \in 33 .. 35 => sgw_job[k].do = "remove"
      /\ x.at \in {12, 33} => sgw_job[k].at = "s1"
      /\ x.at \in {13, 34} => sgw_job[k].at = "s5"
      /\ x.at \in {14, 35} => sgw_job[k].at = "ue_ctx"
  <2>1. PICK a \in SgwWorks : a = x.at
    BY <1>4
  <2>2. /\ SgwJobOf(c, a).call = c /\ SgwJobOf(c, a).teid = c[1] /\ SgwJobOf(c, a).imsi = c[1]
        /\ a \in 12 .. 14 => SgwJobOf(c, a).do = "create"
        /\ a \in 33 .. 35 => SgwJobOf(c, a).do = "remove"
        /\ a \in {12, 33} => SgwJobOf(c, a).at = "s1"
        /\ a \in {13, 34} => SgwJobOf(c, a).at = "s5"
        /\ a \in {14, 35} => SgwJobOf(c, a).at = "ue_ctx"
    BY SgwJobMade
  <2> QED
    BY <1>4, <2>1, <2>2, Zenon
<1>6. x.at \in {12, 13, 33, 34}
    BY <1>1, <1>4, <1>5 DEF SgwWorks
<1>7. PICK t : t = sgw_job[k].at
    OBVIOUS
<1>8. t = IF x.at \in {12, 33} THEN "s1" ELSE "s5"
    BY <1>5, <1>6, <1>7
<1>9. PICK n : n = IF x.at < 15 THEN c[1] ELSE 0
    OBVIOUS
<1>10. sgw_id' = [sgw_id EXCEPT ![t][c[1]] = n]
  <2>1. SgwEntry(sgw_job[k]) = n
    BY <1>5, <1>6, <1>9 DEF SgwEntry
  <2> QED
    BY <1>1, <1>5, <1>7, <2>1
<1>11. PICK y \in CallState : y.at = x.at + 1 /\ y.id = x.id
  <2>1. x.at + 1 \in 0 .. 44 /\ x.id \in {0} \cup UeId
    BY <1>6, StateFacts
  <2> QED
    BY <2>1, StateMade
<1>12. sgw_job' = [sgw_job EXCEPT ![k] = SgwJobOf(c, y.at)]
  <2>1. sgw_job' = [sgw_job EXCEPT ![k].at = IF t = "s1" THEN "s5" ELSE "ue_ctx"]
    BY <1>1, <1>7
  <2>2. PICK j : j = [sgw_job[k] EXCEPT !.at = IF t = "s1" THEN "s5" ELSE "ue_ctx"]
    OBVIOUS
  <2>3. sgw_job' = [sgw_job EXCEPT ![k] = j]
    BY <2>1, <2>2 DEF TypeOK, MkbSgwTypeOK
  <2>4. j = SgwJobOf(c, y.at)
    BY <1>4, <1>6, <1>8, <1>11, <2>2 DEF SgwJobOf
  <2> QED
    BY <2>3, <2>4
<1>13. /\ c[1] \in UE /\ S11OK(c[1], link["s11"][c], x) /\ S5OK(c[1], link["s5"][c], x)
       /\ SgwOK(c[1], x) /\ sgw_id \in [{"s11", "s1", "s5"} -> [UE -> Teid]]
       /\ sgw_fd \in [Call -> SgwData \cup {None}] /\ sgw_ctx \in [UE -> SgwContext \cup {None}]
       /\ FdsOK(c, x)
  <2>1. call[c].at \in 1 .. 37
    BY <1>3, <1>6
  <2> QED
    BY <1>3, <2>1, SgwHeld, Held
<1>14. SgwLinks(c, y, link')
  <2>1. S11OK(c[1], link["s11"][c], y)
    <3>1. S11State(x.at) = S11State(y.at) /\ x.at # 42 /\ y.at # 42
      BY <1>6, <1>11 DEF S11State
    <3>2. S11Up(c[1], y.at) = S11Up(c[1], x.at) /\ S11Down(c[1], y.at) = S11Down(c[1], x.at)
      BY <1>6, <1>11 DEF S11Up, S11Down
    <3> QED
      BY <1>13, <3>1, <3>2 DEF S11OK
  <2>2. S5OK(c[1], link["s5"][c], y)
    <3>1. S5State(x.at) = S5State(y.at) /\ x.at # 43 /\ y.at # 43
      BY <1>6, <1>11 DEF S5State
    <3>2. S5Up(c[1], y.at) = S5Up(c[1], x.at) /\ S5Down(c[1], y.at) = S5Down(c[1], x.at)
      BY <1>6, <1>11 DEF S5Up, S5Down
    <3> QED
      BY <1>13, <3>1, <3>2 DEF S5OK
  <2> QED
    BY <1>1, <2>1, <2>2, LinkFacts DEF SgwLinks
<1>15. /\ sgw_id' \in [{"s11", "s1", "s5"} -> [UE -> Teid]]
       /\ sgw_id'[t][c[1]] = n
       /\ \A i \in {"s11", "s1", "s5"}, v \in UE : i # t \/ v # c[1] => sgw_id'[i][v] = sgw_id[i][v]
  <2>1. n \in Teid /\ t \in {"s11", "s1", "s5"}
    BY <1>8, <1>9, <1>13, TeidFacts
  <2> QED
    BY <1>10, <1>13, <2>1, SgwIdSet
<1>16. SgwStep(call, c, y)
  <2>1. <<call[c].at, y.at>> \in SgwMoves /\ y.id = call[c].id
    BY <1>3, <1>6, <1>11 DEF SgwMoves
  <2>2. y.at \in SgwWorks
    BY <1>6, <1>11 DEF SgwWorks
  <2>3. SgwJobGoes(call, c, y)
    BY <1>1, <1>2, <1>5, <1>12, <2>2 DEF SgwJobGoes
  <2>4. PICK s : s = link["s11"][c].state
    OBVIOUS
  <2>5. SgwFdEntry(c[1], s, y.at) = SgwFdEntry(c[1], s, x.at)
    BY <1>6, <1>11 DEF SgwFdEntry, FromMme, SgwWait
  <2>6. sgw_fd[c] = SgwFdEntry(c[1], s, y.at)
    BY <1>13, <2>4, <2>5 DEF FdsOK
  <2>7. sgw_fd' = [sgw_fd EXCEPT ![c] = SgwFdEntry(c[1], link'["s11"][c].state, y.at)]
    BY <1>1, <1>13, <2>4, <2>6
  <2>8. \A v \in UE \ {c[1]} : SgwKept(v)
    BY <1>1, <1>15 DEF SgwKept
  <2> QED
    BY <1>1, <1>13, <1>15, <2>1, <2>3, <2>7, <2>8 DEF SgwStep
<1>17. SgwOK(c[1], y)'
  <2>1. \A i \in {"s11", "s1", "s5"} : i # t => SgwEntryOf(c[1], i, y.at) = SgwEntryOf(c[1], i, x.at)
    <3>1. CASE x.at \in {12, 33}
      BY <1>8, <1>11, <3>1 DEF SgwEntryOf, SgwDone
    <3>2. CASE x.at \in {13, 34}
      BY <1>8, <1>11, <3>2 DEF SgwEntryOf, SgwDone
    <3> QED
      BY <1>6, <3>1, <3>2
  <2>2. SgwEntryOf(c[1], t, y.at) = n
    BY <1>6, <1>8, <1>9, <1>11 DEF SgwEntryOf, SgwDone
  <2>3. \A i \in {"s11", "s1", "s5"} : sgw_id'[i][c[1]] = SgwEntryOf(c[1], i, y.at)
    BY <1>13, <1>15, <2>1, <2>2 DEF SgwOK
  <2>4. /\ y.at \in (15 .. 35) \cup (41 .. 44) => sgw_ctx[c[1]] # None
        /\ y.at \notin 36 .. 38
        /\ y.at \in 15 .. 35 => sgw_ctx[c[1]].teid = c[1]
        /\ y.at \in 20 .. 35 => sgw_ctx[c[1]].s5_ul = c[1]
        /\ y.at \in 24 .. 35 => sgw_ctx[c[1]].s1_uteid_dl = c[1]
    BY <1>6, <1>11, <1>13 DEF SgwOK
  <2> QED
    BY <1>1, <2>3, <2>4 DEF SgwOK, SgwEntryOf
<1> QED
    BY <1>14, <1>16, <1>17, SgwGoes

\* The end of a create: the context, and a connection to the PGW.
LEMMA SgwCreatedKeeps ==
    ASSUME TypeOK, NEW call \in [Call -> CallState], Calls(call), NEW k \in SgwCore,
           SgwCreated(k), SgwAlone
    PROVE  CallInv'
<1>1. /\ sgw_job[k] # None /\ sgw_job[k].at = "ue_ctx" /\ sgw_job[k].do = "create"
      /\ LET j == sgw_job[k]
         IN  /\ sgw_ctx' = [sgw_ctx EXCEPT
                   ![j.imsi] = [(IF @ = None THEN NewSgwContext ELSE @) EXCEPT !.teid = j.teid]]
             /\ sgw_fd' = [sgw_fd EXCEPT
                   ![j.call] = [act |-> 2, pgw |-> FALSE, tid |-> j.teid, guti |-> j.imsi,
                                buf |-> [Msg(1) EXCEPT !.teid = j.teid, !.imsi = j.imsi]]]
             /\ link' = Connect(link, "s5", j.call)
      /\ sgw_job' = [sgw_job EXCEPT ![k] = None]
      /\ UNCHANGED <<exited, sgw_id>>
    BY DEF SgwCreated, SgwLast
<1>2. PICK c \in Call : /\ call[c].at \in SgwWorks /\ link["s11"][c].core = k
                        /\ sgw_job[k] = SgwJobOf(c, call[c].at)
    BY <1>1, SgwJobHeld
<1>3. PICK x \in CallState : x = call[c]
    OBVIOUS
<1>4. x.at \in SgwWorks /\ sgw_job[k] = SgwJobOf(c, x.at)
    BY <1>2, <1>3
<1>5. /\ sgw_job[k].call = c /\ sgw_job[k].teid = c[1] /\ sgw_job[k].imsi = c[1] /\ x.at = 14
  <2>1. PICK a \in SgwWorks : a = x.at
    BY <1>4
  <2>2. /\ SgwJobOf(c, a).call = c /\ SgwJobOf(c, a).teid = c[1] /\ SgwJobOf(c, a).imsi = c[1]
        /\ a \in 12 .. 14 => SgwJobOf(c, a).do = "create"
        /\ a \in 33 .. 35 => SgwJobOf(c, a).do = "remove"
        /\ a \in {12, 33} => SgwJobOf(c, a).at = "s1"
        /\ a \in {13, 34} => SgwJobOf(c, a).at = "s5"
        /\ a \in {14, 35} => SgwJobOf(c, a).at = "ue_ctx"
    BY SgwJobMade
  <2>3. a = 14
    BY <1>1, <1>4, <2>1, <2>2 DEF SgwWorks
  <2> QED
    BY <1>4, <2>1, <2>2, <2>3, Zenon
<1>6. /\ c[1] \in UE /\ S11OK(c[1], link["s11"][c], x) /\ S5OK(c[1], link["s5"][c], x)
      /\ SgwOK(c[1], x) /\ sgw_id \in [{"s11", "s1", "s5"} -> [UE -> Teid]]
      /\ sgw_fd \in [Call -> SgwData \cup {None}] /\ sgw_ctx \in [UE -> SgwContext \cup {None}]
  <2>1. call[c].at \in 1 .. 37
    BY <1>3, <1>5
  <2> QED
    BY <1>3, <2>1, SgwHeld
<1>7. PICK y \in CallState : y.at = 15 /\ y.id = x.id
  <2>1. 15 \in 0 .. 44 /\ x.id \in {0} \cup UeId
    BY StateFacts
  <2> QED
    BY <2>1, StateMade
<1>8. PICK old : old = IF sgw_ctx[c[1]] = None THEN NewSgwContext ELSE sgw_ctx[c[1]]
    OBVIOUS
<1>9. PICK ctx : ctx = [old EXCEPT !.teid = c[1]]
    OBVIOUS
<1>10. sgw_ctx' = [sgw_ctx EXCEPT ![c[1]] = ctx]
    BY <1>1, <1>5, <1>6, <1>8, <1>9
<1>11. ctx \in SgwContext /\ ctx.teid = c[1]
  <2>1. old \in SgwContext
    <3>1. NewSgwContext \in SgwContext
      BY TeidFacts DEF NewSgwContext, SgwContext
    <3> QED
      BY <1>6, <1>8, <3>1
  <2> QED
    BY <1>6, <1>9, <2>1, TeidFacts DEF SgwContext
<1>12. /\ sgw_ctx' \in [UE -> SgwContext \cup {None}] /\ sgw_ctx'[c[1]] = ctx /\ ctx # None
       /\ \A v \in UE \ {c[1]} : SgwKept(v)
  <2>1. sgw_id' = sgw_id
    BY <1>1
  <2> QED
    BY <1>6, <1>10, <1>11, <2>1, Constants DEF SgwKept
<1>13. PICK q : q = [NoLink EXCEPT !.state = "syn"]
    OBVIOUS
<1>14. Put(link, link', "s5", c, q)
  <2>1. link' = Connect(link, "s5", c)
    BY <1>1, <1>5
  <2> QED
    BY <1>13, <2>1, LinkFacts, ConnectPuts
<1>15. q.state = "syn" /\ ~q.gone /\ q.core = None /\ q.up = None /\ q.down = None
    BY <1>13 DEF NoLink
<1>16. link'["s11"][c] = link["s11"][c] /\ link'["s5"][c] = q
    BY <1>14, LinkFacts DEF Put, Interface
<1>17. SgwLinks(c, y, link')
  <2>1. S11OK(c[1], link["s11"][c], y)
    <3>1. S11State(x.at) = S11State(y.at) /\ x.at # 42 /\ y.at # 42
      BY <1>5, <1>7 DEF S11State
    <3>2. S11Up(c[1], y.at) = S11Up(c[1], x.at) /\ S11Down(c[1], y.at) = S11Down(c[1], x.at)
      BY <1>5, <1>7 DEF S11Up, S11Down
    <3> QED
      BY <1>6, <3>1, <3>2 DEF S11OK
  <2>2. S5OK(c[1], q, y)
    BY <1>7, <1>15 DEF S5OK, S5State, S5Up, S5Down
  <2>3. link' \in Links
        /\ \A j \in Interface, d \in Call : d # c \/ j \in {"s1", "s6a"} => link'[j][d] = link[j][d]
    BY <1>14 DEF Put
  <2>4. link["s5"][c].state # "open"
    BY <1>5, <1>6 DEF S5OK, S5State
  <2> QED
    BY <1>15, <1>16, <2>1, <2>2, <2>3, <2>4 DEF SgwLinks
<1>18. SgwStep(call, c, y)
  <2>1. <<call[c].at, y.at>> \in SgwMoves /\ y.id = call[c].id
    BY <1>3, <1>5, <1>7 DEF SgwMoves
  <2>2. y.at \notin SgwWorks
    BY <1>7 DEF SgwWorks
  <2>3. SgwJobGoes(call, c, y)
    BY <1>1, <1>2, <1>5, <2>2 DEF SgwJobGoes
  <2>4. PICK s : s = link'["s11"][c].state
    OBVIOUS
  <2>5. SgwFdEntry(c[1], s, y.at) = SgwWait(c[1], 2, [Msg(1) EXCEPT !.teid = c[1], !.imsi = c[1]])
    BY <1>7 DEF SgwFdEntry, FromMme, SgwWait
  <2>6. sgw_fd' = [sgw_fd EXCEPT ![c] = SgwFdEntry(c[1], link'["s11"][c].state, y.at)]
    BY <1>1, <1>5, <2>4, <2>5 DEF SgwWait
  <2>7. sgw_id' \in [{"s11", "s1", "s5"} -> [UE -> Teid]]
    BY <1>1, <1>6
  <2> QED
    BY <1>1, <1>12, <2>1, <2>3, <2>6, <2>7 DEF SgwStep
<1>19. SgwOK(c[1], y)'
  <2>1. \A i \in {"s11", "s1", "s5"} : sgw_id[i][c[1]] = c[1]
    <3>1. \A i \in {"s11", "s1", "s5"} : SgwEntryOf(c[1], i, x.at) = c[1]
      BY <1>5 DEF SgwEntryOf, SgwDone
    <3> QED
      BY <1>6, <3>1 DEF SgwOK
  <2>2. \A i \in {"s11", "s1", "s5"} : (SgwEntryOf(c[1], i, y.at))' = c[1]
    BY <1>7, <1>12 DEF SgwEntryOf
  <2>3. sgw_id' = sgw_id /\ sgw_ctx'[c[1]] # None /\ sgw_ctx'[c[1]].teid = c[1]
    BY <1>1, <1>11, <1>12
  <2> QED
    BY <1>7, <2>1, <2>2, <2>3 DEF SgwOK, SgwEntryOf
<1> QED
    BY <1>17, <1>18, <1>19, SgwGoes

\* act 2.
LEMMA SgwPgwConnectedKeeps ==
    ASSUME TypeOK, NEW call \in [Call -> CallState], Calls(call), NEW k \in SgwCore, NEW c \in Call,
           SgwPgwConnected(k, c), SgwAlone
    PROVE  CallInv'
<1>1. PICK x \in CallState : x = call[c]
    OBVIOUS
<1>2. /\ SgwEvent(k, c, 2)
      /\ link' = SendUp(link, "s5", c, sgw_fd[c].buf)
      /\ sgw_fd' = [sgw_fd EXCEPT ![c].act = 3, ![c].buf = None]
      /\ UNCHANGED <<exited, sgw_job, sgw_id, sgw_ctx>>
    BY DEF SgwPgwConnected
<1>3. x.at = 15
  <2>1. SgwEvent(k, c, 2)
    BY <1>2
  <2>2. call[c].at = 15
    BY <2>1, SgwWaits
  <2> QED
    BY <1>1, <2>2
<1>4. /\ c[1] \in UE /\ S11OK(c[1], link["s11"][c], x) /\ S5OK(c[1], link["s5"][c], x)
      /\ SgwOK(c[1], x) /\ sgw_fd \in [Call -> SgwData \cup {None}] /\ FdsOK(c, x)
  <2>1. call[c].at \in 1 .. 37
    BY <1>1, <1>3
  <2> QED
    BY <1>1, <2>1, SgwHeld, Held
<1>5. PICK y \in CallState : y.at = 16 /\ y.id = x.id
  <2>1. 16 \in 0 .. 44 /\ x.id \in {0} \cup UeId
    BY StateFacts
  <2> QED
    BY <2>1, StateMade
<1>6. PICK m : m = [Msg(1) EXCEPT !.teid = c[1], !.imsi = c[1]]
    OBVIOUS
<1>7. sgw_fd[c] = [act |-> 2, pgw |-> FALSE, tid |-> c[1], guti |-> c[1], buf |-> m]
  <2>1. PICK s : s = link["s11"][c].state
    OBVIOUS
  <2>2. SgwFdEntry(c[1], s, x.at) = SgwWait(c[1], 2, m)
    BY <1>3, <1>6 DEF SgwFdEntry, FromMme, SgwWait
  <2> QED
    BY <1>4, <2>1, <2>2 DEF FdsOK, SgwWait
<1>8. m \in Message
  <2>1. sgw_fd[c] \in SgwData
    <3>1. sgw_fd[c] # None
      BY <1>2 DEF SgwEvent
    <3> QED
      BY <1>4, <3>1
  <2>2. m # None
    <3>1. m.type = 1
      BY <1>6 DEF Msg
    <3>2. m = [type |-> 1, id |-> 0, imsi |-> c[1], teid |-> c[1], ip |-> 0]
      BY <1>6 DEF Msg
    <3>3. m \in Message
      BY <1>4, <3>2, TeidFacts DEF Message
    <3> QED
      BY <3>3, Constants
  <2>3. sgw_fd[c].buf \in Message \cup {None}
    BY <2>1 DEF SgwData
  <2> QED
    BY <1>7, <2>2, <2>3
<1>9. PICK q : q = [link["s5"][c] EXCEPT !.up = m]
    OBVIOUS
<1>10. link["s5"][c] \in Link /\ "s5" \in Interface /\ link \in Links
    BY LinkFacts
<1>11. Put(link, link', "s5", c, q)
    BY <1>2, <1>7, <1>8, <1>9, <1>10, SendUpPuts
<1>12. /\ q.state = link["s5"][c].state /\ q.core = link["s5"][c].core /\ q.gone = link["s5"][c].gone
       /\ q.up = m /\ q.down = link["s5"][c].down
    BY <1>9, <1>10 DEF Link
<1>13. link'["s11"][c] = link["s11"][c] /\ link'["s5"][c] = q
    BY <1>10, <1>11 DEF Put, Interface
<1>14. SgwLinks(c, y, link')
  <2>1. S11OK(c[1], link["s11"][c], y)
    <3>1. S11State(x.at) = S11State(y.at) /\ x.at # 42 /\ y.at # 42
      BY <1>3, <1>5 DEF S11State
    <3>2. S11Up(c[1], y.at) = S11Up(c[1], x.at) /\ S11Down(c[1], y.at) = S11Down(c[1], x.at)
      BY <1>3, <1>5 DEF S11Up, S11Down
    <3> QED
      BY <1>4, <3>1, <3>2 DEF S11OK
  <2>2. S5OK(c[1], q, y)
    <3>1. S5State(x.at) = S5State(y.at) /\ x.at # 43 /\ y.at # 43
      BY <1>3, <1>5 DEF S5State
    <3>2. S5Up(c[1], y.at) = m
      BY <1>5, <1>6 DEF S5Up
    <3>3. S5Down(c[1], y.at) = S5Down(c[1], x.at)
      BY <1>3, <1>5 DEF S5Down
    <3>4. q.down = S5Down(c[1], y.at)
      BY <1>4, <1>12, <3>3 DEF S5OK
    <3> QED
      BY <1>4, <1>12, <3>1, <3>2, <3>4, S5Served
  <2>3. link' \in Links
        /\ \A j \in Interface, d \in Call : d # c \/ j \in {"s1", "s6a"} => link'[j][d] = link[j][d]
    BY <1>11 DEF Put
  <2> QED
    BY <1>12, <1>13, <2>1, <2>2, <2>3 DEF SgwLinks
<1>15. SgwStep(call, c, y)
  <2>1. <<call[c].at, y.at>> \in SgwMoves /\ y.id = call[c].id
    BY <1>1, <1>3, <1>5 DEF SgwMoves
  <2>2. y.at \notin SgwWorks /\ x.at \notin SgwWorks
    BY <1>3, <1>5 DEF SgwWorks
  <2>3. SgwJobGoes(call, c, y)
    BY <1>1, <1>2, <2>2 DEF SgwJobGoes
  <2>4. sgw_fd' = [sgw_fd EXCEPT ![c] = SgwWait(c[1], 3, None)]
    <3>1. PICK d : d = [sgw_fd[c] EXCEPT !.act = 3]
      OBVIOUS
    <3>2. PICK e : e = [d EXCEPT !.buf = None]
      OBVIOUS
    <3>3. sgw_fd' = [sgw_fd EXCEPT ![c] = e]
      BY <1>2, <1>4, <3>1, <3>2
    <3>4. d = [act |-> 3, pgw |-> FALSE, tid |-> c[1], guti |-> c[1], buf |-> m]
      <4>1. PICK e0 : e0 = [act |-> 2, pgw |-> FALSE, tid |-> c[1], guti |-> c[1], buf |-> m]
        OBVIOUS
      <4>2. d = [e0 EXCEPT !.act = 3]
        BY <1>7, <3>1, <4>1
      <4> QED
        BY <4>1, <4>2
    <3>5. e = SgwWait(c[1], 3, None)
      BY <3>2, <3>4 DEF SgwWait
    <3> QED
      BY <3>3, <3>5
  <2>5. PICK s : s = link'["s11"][c].state
    OBVIOUS
  <2>6. SgwFdEntry(c[1], s, y.at) = SgwWait(c[1], 3, None)
    BY <1>5 DEF SgwFdEntry, FromMme, SgwWait
  <2>7. sgw_fd' = [sgw_fd EXCEPT ![c] = SgwFdEntry(c[1], link'["s11"][c].state, y.at)]
    BY <2>4, <2>5, <2>6
  <2> QED
    BY <1>2, <1>4, <2>1, <2>3, <2>7, SgwTablesStay DEF SgwStep
<1>16. SgwOK(c[1], y)'
  <2>1. \A t \in {"s11", "s1", "s5"} : SgwEntryOf(c[1], t, y.at) = SgwEntryOf(c[1], t, x.at)
    BY <1>3, <1>5 DEF SgwEntryOf
  <2>2. SgwOK(c[1], y)
    BY <1>3, <1>4, <1>5, <2>1 DEF SgwOK
  <2> QED
    BY <1>2, <1>4, <2>2, SgwStays DEF SgwKept
<1> QED
    BY <1>14, <1>15, <1>16, SgwGoes

\* An answer of the PGW, and where its call is then.
LEMMA SgwAnswer ==
    ASSUME TypeOK, NEW call \in [Call -> CallState], Calls(call), NEW k \in SgwCore, NEW c \in Call,
           NEW act \in 3 .. 4, SgwEvent(k, c, act), link["s5"][c].down # None
    PROVE  /\ <<act, call[c].at>> \in {<<3, 19>>, <<4, 32>>}
           /\ link["s5"][c].down = S5Down(c[1], call[c].at)
           /\ link["s11"][c].core = k /\ sgw_job[k] = None
           /\ sgw_fd[c].tid = c[1] /\ sgw_fd[c].guti = c[1]
<1>1. PICK x : x = call[c]
    OBVIOUS
<1>2. act \in 2 .. 4
    OBVIOUS
<1>3. /\ link["s11"][c].core = k /\ sgw_job[k] = None
      /\ \/ act = 2 /\ call[c].at = 15
         \/ act = 3 /\ call[c].at \in 16 .. 19
         \/ act = 4 /\ call[c].at \in 29 .. 35
      /\ sgw_fd[c].tid = c[1] /\ sgw_fd[c].guti = c[1]
    BY <1>2, SgwWaits
<1>4. x \in CallState /\ link["s5"][c].down = S5Down(c[1], x.at) /\ x.at \in 0 .. 44
    BY <1>1, Held, StateFacts DEF S5OK
<1>5. x.at \in {19, 32}
    BY <1>4, Zenon DEF S5Down
<1>6. <<act, x.at>> \in {<<3, 19>>, <<4, 32>>}
    BY <1>1, <1>3, <1>5
<1> QED
    BY <1>1, <1>3, <1>4, <1>6

\* act 3.
LEMMA SgwCreateAnswerKeeps ==
    ASSUME TypeOK, NEW call \in [Call -> CallState], Calls(call), NEW k \in SgwCore, NEW c \in Call,
           SgwCreateAnswer(k, c), SgwAlone
    PROVE  CallInv'
<1>1. PICK x \in CallState : x = call[c]
    OBVIOUS
<1>2. /\ SgwEvent(k, c, 3) /\ link["s5"][c].down # None
      /\ LET m == link["s5"][c].down
         IN  /\ sgw_ctx' = [sgw_ctx EXCEPT ![sgw_fd[c].guti] =
                               [(IF @ = None THEN NewSgwContext ELSE @) EXCEPT !.s5_ul = m.teid]]
             /\ link' = SendDown(ReadDown(link, "s5", c), "s11", c,
                                 [Msg(1) EXCEPT !.teid = sgw_fd[c].tid, !.ip = m.ip])
      /\ sgw_fd' = [sgw_fd EXCEPT ![c] = FromMme(TRUE)]
      /\ UNCHANGED <<exited, sgw_job, sgw_id>>
    BY DEF SgwCreateAnswer
<1>3. /\ x.at = 19 /\ link["s5"][c].down = S5Down(c[1], x.at)
      /\ link["s11"][c].core = k /\ sgw_job[k] = None
      /\ sgw_fd[c].tid = c[1] /\ sgw_fd[c].guti = c[1]
  <2>1. SgwEvent(k, c, 3) /\ link["s5"][c].down # None
    BY <1>2
  <2>2. /\ <<3, call[c].at>> \in {<<3, 19>>, <<4, 32>>}
        /\ link["s5"][c].down = S5Down(c[1], call[c].at)
        /\ link["s11"][c].core = k /\ sgw_job[k] = None
        /\ sgw_fd[c].tid = c[1] /\ sgw_fd[c].guti = c[1]
    BY <2>1, SgwAnswer
  <2> QED
    BY <1>1, <2>2
<1>4. /\ c[1] \in UE /\ S11OK(c[1], link["s11"][c], x) /\ S5OK(c[1], link["s5"][c], x)
      /\ SgwOK(c[1], x) /\ sgw_id \in [{"s11", "s1", "s5"} -> [UE -> Teid]]
      /\ sgw_ctx \in [UE -> SgwContext \cup {None}]
  <2>1. call[c].at \in 1 .. 37
    BY <1>1, <1>3
  <2> QED
    BY <1>1, <2>1, SgwHeld
<1>5. PICK y \in CallState : y.at = 20 /\ y.id = x.id
  <2>1. 20 \in 0 .. 44 /\ x.id \in {0} \cup UeId
    BY StateFacts
  <2> QED
    BY <2>1, StateMade, ZenonT(40)
<1>6. link["s5"][c].down.teid = c[1] /\ link["s5"][c].down.ip = c[1]
  <2>1. link["s5"][c].down = [Msg(1) EXCEPT !.teid = c[1], !.ip = c[1]]
    BY <1>3 DEF S5Down
  <2> QED
    BY <2>1 DEF Msg
<1>7. PICK m : m = [Msg(1) EXCEPT !.teid = c[1], !.ip = c[1]]
    OBVIOUS
<1>8. m \in Message
  <2>1. m = [type |-> 1, id |-> 0, imsi |-> 0, teid |-> c[1], ip |-> c[1]]
    BY <1>7 DEF Msg
  <2> QED
    BY <1>4, <2>1, TeidFacts DEF Message
<1>9. PICK old : old = sgw_ctx[c[1]]
    OBVIOUS
<1>10. old \in SgwContext /\ old.teid = c[1]
    BY <1>3, <1>4, <1>9 DEF SgwOK
<1>11. PICK ctx : ctx = [old EXCEPT !.s5_ul = c[1]]
    OBVIOUS
<1>12. ctx \in SgwContext /\ ctx.teid = c[1] /\ ctx.s5_ul = c[1]
    BY <1>4, <1>10, <1>11, TeidFacts DEF SgwContext
<1>13. sgw_ctx' = [sgw_ctx EXCEPT ![c[1]] = ctx]
  <2>1. old # None
    BY <1>10, Constants
  <2>2. sgw_ctx' = [sgw_ctx EXCEPT ![c[1]] =
                        [(IF @ = None THEN NewSgwContext ELSE @) EXCEPT !.s5_ul = c[1]]]
    BY <1>2, <1>3, <1>6
  <2> QED
    BY <1>4, <1>9, <1>11, <2>1, <2>2
<1>14. link["s11"][c] \in Link /\ link["s5"][c] \in Link /\ link \in Links
      /\ "s11" \in Interface /\ "s5" \in Interface
    BY LinkFacts
<1>15. PICK q : q = [link["s5"][c] EXCEPT !.down = None]
    OBVIOUS
<1>16. PICK p : p = [link["s11"][c] EXCEPT !.down = m]
    OBVIOUS
<1>17. PutBoth(link, link', "s5", "s11", c, q, p)
  <2>1. PICK r : r = ReadDown(link, "s5", c)
    OBVIOUS
  <2>2. Put(link, r, "s5", c, q)
    BY <1>14, <1>15, <2>1, ReadDownPuts
  <2>3. r \in Links /\ r["s11"][c] = link["s11"][c]
    BY <1>14, <2>2 DEF Put
  <2>4. link' = SendDown(r, "s11", c, m)
    BY <1>2, <1>3, <1>6, <1>7, <2>1
  <2>5. Put(r, link', "s11", c, p)
    BY <1>8, <1>14, <1>16, <2>3, <2>4, SendDownPuts
  <2> QED
    BY <1>14, <2>2, <2>5, PutsBoth
<1>18. link'["s5"][c] = q /\ link'["s11"][c] = p
    BY <1>17 DEF PutBoth
<1>19. /\ q.state = link["s5"][c].state /\ q.core = link["s5"][c].core
       /\ q.gone = link["s5"][c].gone /\ q.up = link["s5"][c].up /\ q.down = None
    BY <1>14, <1>15 DEF Link
<1>20. /\ p.state = link["s11"][c].state /\ p.core = link["s11"][c].core
       /\ p.gone = link["s11"][c].gone /\ p.up = link["s11"][c].up /\ p.down = m
    BY <1>14, <1>16 DEF Link
<1>21. SgwLinks(c, y, link')
  <2>1. S11OK(c[1], p, y)
    <3>1. S11State(x.at) = S11State(y.at) /\ x.at # 42 /\ y.at # 42
      BY <1>3, <1>5 DEF S11State
    <3>2. S11Up(c[1], y.at) = S11Up(c[1], x.at) /\ S11Down(c[1], y.at) = m
      BY <1>3, <1>5, <1>7 DEF S11Up, S11Down
    <3>3. p.up = S11Up(c[1], y.at) /\ p.down = S11Down(c[1], y.at)
      BY <1>4, <1>20, <3>2 DEF S11OK
    <3> QED
      BY <1>4, <1>20, <3>1, <3>3, S11Served
  <2>2. S5OK(c[1], q, y)
    <3>1. S5State(x.at) = S5State(y.at) /\ x.at # 43 /\ y.at # 43
      BY <1>3, <1>5 DEF S5State
    <3>2. S5Up(c[1], y.at) = S5Up(c[1], x.at) /\ S5Down(c[1], y.at) = None
      BY <1>3, <1>5 DEF S5Up, S5Down
    <3>3. q.up = S5Up(c[1], y.at) /\ q.down = S5Down(c[1], y.at)
      BY <1>4, <1>19, <3>2 DEF S5OK
    <3> QED
      BY <1>4, <1>19, <3>1, <3>3, S5Served
  <2>3. link' \in Links
        /\ \A j \in Interface, d \in Call : d # c \/ j \in {"s1", "s6a"} => link'[j][d] = link[j][d]
    BY <1>17 DEF PutBoth
  <2> QED
    BY <1>18, <1>19, <2>1, <2>2, <2>3 DEF SgwLinks
<1>22. /\ sgw_ctx' \in [UE -> SgwContext \cup {None}] /\ sgw_ctx'[c[1]] = ctx /\ ctx # None
       /\ \A v \in UE \ {c[1]} : SgwKept(v)
  <2>1. sgw_id' = sgw_id
    BY <1>2
  <2> QED
    BY <1>4, <1>12, <1>13, <2>1, Constants DEF SgwKept
<1>23. SgwStep(call, c, y)
  <2>1. <<call[c].at, y.at>> \in SgwMoves /\ y.id = call[c].id
    BY <1>1, <1>3, <1>5 DEF SgwMoves
  <2>2. y.at \notin SgwWorks /\ x.at \notin SgwWorks
    BY <1>3, <1>5 DEF SgwWorks
  <2>3. SgwJobGoes(call, c, y)
    BY <1>1, <1>2, <2>2 DEF SgwJobGoes
  <2>4. PICK s : s = link'["s11"][c].state
    OBVIOUS
  <2>5. SgwFdEntry(c[1], s, y.at) = FromMme(TRUE)
    BY <1>5 DEF SgwFdEntry, FromMme, SgwWait
  <2>6. sgw_fd' = [sgw_fd EXCEPT ![c] = SgwFdEntry(c[1], link'["s11"][c].state, y.at)]
    BY <1>2, <2>4, <2>5
  <2>7. sgw_id' \in [{"s11", "s1", "s5"} -> [UE -> Teid]]
    BY <1>2, <1>4
  <2> QED
    BY <1>2, <1>22, <2>1, <2>3, <2>6, <2>7 DEF SgwStep
<1>24. SgwOK(c[1], y)'
  <2>1. \A i \in {"s11", "s1", "s5"} : sgw_id[i][c[1]] = c[1]
    <3>1. \A i \in {"s11", "s1", "s5"} : SgwEntryOf(c[1], i, x.at) = c[1]
      BY <1>3, <1>4 DEF SgwEntryOf, SgwOK
    <3> QED
      BY <1>4, <3>1 DEF SgwOK
  <2>2. \A i \in {"s11", "s1", "s5"} : (SgwEntryOf(c[1], i, y.at))' = c[1]
    BY <1>5, <1>22 DEF SgwEntryOf
  <2>3. sgw_id' = sgw_id /\ sgw_ctx'[c[1]] # None /\ sgw_ctx'[c[1]].teid = c[1]
        /\ sgw_ctx'[c[1]].s5_ul = c[1]
    BY <1>2, <1>12, <1>22
  <2> QED
    BY <1>5, <2>1, <2>2, <2>3 DEF SgwOK, SgwEntryOf
<1> QED
    BY <1>21, <1>23, <1>24, SgwGoes

\* The SGW finds the subscriber of a call that it has entered.
LEMMA SgwKnows ==
    ASSUME TypeOK, NEW call \in [Call -> CallState], Calls(call), NEW c \in Call,
           call[c].at \in 15 .. 32
    PROVE  /\ sgw_ctx[c[1]] # None /\ sgw_ctx[c[1]] \in SgwContext /\ sgw_ctx[c[1]].teid = c[1]
           /\ \A i \in {"s11", "s1", "s5"} : sgw_id[i][c[1]] = c[1]
           /\ Imsi(c[1]) = c[1]
<1>1. PICK x : x = call[c]
    OBVIOUS
<1>2. /\ c[1] \in UE /\ c[1] # 0 /\ SgwOK(c[1], x)
      /\ sgw_ctx \in [UE -> SgwContext \cup {None}]
  <2>1. call[c].at \in 1 .. 37
    OBVIOUS
  <2> QED
    BY <1>1, <2>1, SgwHeld
<1>3. sgw_ctx[c[1]] # None /\ sgw_ctx[c[1]].teid = c[1]
    BY <1>1, <1>2 DEF SgwOK
<1>4. \A i \in {"s11", "s1", "s5"} : SgwEntryOf(c[1], i, x.at) = c[1]
    BY <1>1, <1>3 DEF SgwEntryOf
<1>5. \A i \in {"s11", "s1", "s5"} : sgw_id[i][c[1]] = c[1]
    BY <1>2, <1>4 DEF SgwOK
<1> QED
    BY <1>2, <1>3, <1>5 DEF Imsi

\* act 1, modify bearer: the subscriber is found.
LEMMA SgwModifyKeeps ==
    ASSUME TypeOK, NEW call \in [Call -> CallState], Calls(call), NEW k \in SgwCore, NEW c \in Call,
           SgwModify(k, c), SgwAlone
    PROVE  CallInv'
<1>1. PICK x \in CallState : x = call[c]
    OBVIOUS
<1>2. x.at = 23 /\ link["s11"][c].up = S11Up(c[1], x.at) /\ link["s11"][c].core = k /\ sgw_job[k] = None
  <2>1. SgwRequest(k, c, 2)
    BY DEF SgwModify
  <2>2. /\ <<2, call[c].at>> \in {<<1, 11>>, <<2, 23>>, <<3, 28>>}
        /\ link["s11"][c].up = S11Up(c[1], call[c].at)
        /\ link["s11"][c].core = k /\ sgw_job[k] = None
    BY <2>1, SgwRequestFacts
  <2> QED
    BY <1>1, <2>2
<1>3. link["s11"][c].up.teid = c[1] /\ link["s11"][c].up.imsi = c[1]
  <2>1. link["s11"][c].up = [Msg(2) EXCEPT !.teid = c[1], !.imsi = c[1]]
    BY <1>2 DEF S11Up
  <2> QED
    BY <2>1 DEF Msg
<1>4. /\ c[1] \in UE /\ c[1] # 0 /\ S11OK(c[1], link["s11"][c], x) /\ S5OK(c[1], link["s5"][c], x)
      /\ SgwOK(c[1], x) /\ sgw_id \in [{"s11", "s1", "s5"} -> [UE -> Teid]]
      /\ sgw_ctx \in [UE -> SgwContext \cup {None}]
      /\ sgw_fd \in [Call -> SgwData \cup {None}] /\ FdsOK(c, x)
  <2>1. call[c].at \in 1 .. 37
    BY <1>1, <1>2
  <2> QED
    BY <1>1, <2>1, SgwHeld, Held
<1>5. /\ sgw_ctx[c[1]] # None /\ sgw_ctx[c[1]] \in SgwContext /\ sgw_ctx[c[1]].teid = c[1]
      /\ \A i \in {"s11", "s1", "s5"} : sgw_id[i][c[1]] = c[1]
      /\ Imsi(c[1]) = c[1]
  <2>1. call[c].at \in 15 .. 32
    BY <1>1, <1>2
  <2> QED
    BY <2>1, SgwKnows
<1>6. /\ sgw_ctx' = [sgw_ctx EXCEPT ![c[1]] =
                        [(IF @ = None THEN NewSgwContext ELSE @) EXCEPT !.s1_uteid_dl = c[1]]]
      /\ link' = SendDown(ReadUp(link, "s11", c), "s11", c, Msg(2))
      /\ UNCHANGED <<exited, sgw_fd, sgw_job, sgw_id>>
  <2>1. Imsi(link["s11"][c].up.teid) = c[1]
    BY <1>3, <1>5
  <2> QED
    BY <1>3, <1>4, <2>1 DEF SgwModify
<1>7. PICK y \in CallState : y.at = 24 /\ y.id = x.id
  <2>1. 24 \in 0 .. 44 /\ x.id \in {0} \cup UeId
    BY StateFacts
  <2> QED
    BY <2>1, StateMade, ZenonT(40)
<1>8. PICK old : old = sgw_ctx[c[1]]
    OBVIOUS
<1>9. old \in SgwContext /\ old.teid = c[1] /\ old.s5_ul = c[1]
    BY <1>2, <1>4, <1>5, <1>8 DEF SgwOK
<1>10. PICK ctx : ctx = [old EXCEPT !.s1_uteid_dl = c[1]]
    OBVIOUS
<1>11. ctx \in SgwContext /\ ctx.teid = c[1] /\ ctx.s5_ul = c[1] /\ ctx.s1_uteid_dl = c[1]
    BY <1>4, <1>9, <1>10, TeidFacts DEF SgwContext
<1>12. sgw_ctx' = [sgw_ctx EXCEPT ![c[1]] = ctx]
    BY <1>4, <1>5, <1>6, <1>8, <1>10
<1>13. link["s11"][c] \in Link /\ link \in Links /\ "s11" \in Interface
    BY LinkFacts
<1>14. Msg(2) \in Message
    BY TeidFacts DEF Msg, Message
<1>15. PICK q0 : q0 = [link["s11"][c] EXCEPT !.up = None]
    OBVIOUS
<1>16. PICK q : q = [q0 EXCEPT !.down = Msg(2)]
    OBVIOUS
<1>17. Put(link, link', "s11", c, q)
  <2>1. PICK r : r = ReadUp(link, "s11", c)
    OBVIOUS
  <2>2. Put(link, r, "s11", c, q0)
    BY <1>13, <1>15, <2>1, ReadUpPuts
  <2>3. r \in Links /\ r["s11"][c] = q0
    BY <2>2 DEF Put
  <2>4. link' = SendDown(r, "s11", c, Msg(2))
    BY <1>6, <2>1
  <2>5. Put(r, link', "s11", c, q)
    BY <1>13, <1>14, <1>16, <2>3, <2>4, SendDownPuts
  <2> QED
    BY <2>2, <2>5, PutTwice
<1>18. link'["s11"][c] = q /\ link'["s5"][c] = link["s5"][c]
    BY <1>13, <1>17 DEF Put, Interface
<1>19. /\ q.state = link["s11"][c].state /\ q.core = link["s11"][c].core
       /\ q.gone = link["s11"][c].gone /\ q.up = None /\ q.down = Msg(2)
  <2>1. q0 \in Link /\ q0.up = None /\ q0.state = link["s11"][c].state
        /\ q0.core = link["s11"][c].core /\ q0.gone = link["s11"][c].gone
    BY <1>13, <1>15 DEF Link
  <2> QED
    BY <1>16, <2>1 DEF Link
<1>20. SgwLinks(c, y, link')
  <2>1. S11OK(c[1], q, y)
    <3>1. S11State(x.at) = S11State(y.at) /\ x.at # 42 /\ y.at # 42
      BY <1>2, <1>7 DEF S11State
    <3>2. S11Up(c[1], y.at) = None /\ S11Down(c[1], y.at) = Msg(2)
      BY <1>7 DEF S11Up, S11Down
    <3> QED
      BY <1>4, <1>19, <3>1, <3>2, S11Served
  <2>2. S5OK(c[1], link["s5"][c], y)
    <3>1. S5State(x.at) = S5State(y.at) /\ x.at # 43 /\ y.at # 43
      BY <1>2, <1>7 DEF S5State
    <3>2. S5Up(c[1], y.at) = S5Up(c[1], x.at) /\ S5Down(c[1], y.at) = S5Down(c[1], x.at)
      BY <1>2, <1>7 DEF S5Up, S5Down
    <3> QED
      BY <1>4, <3>1, <3>2 DEF S5OK
  <2>3. link' \in Links
        /\ \A j \in Interface, d \in Call : d # c \/ j \in {"s1", "s6a"} => link'[j][d] = link[j][d]
    BY <1>17 DEF Put
  <2> QED
    BY <1>18, <2>1, <2>2, <2>3 DEF SgwLinks
<1>21. /\ sgw_ctx' \in [UE -> SgwContext \cup {None}] /\ sgw_ctx'[c[1]] = ctx /\ ctx # None
       /\ \A v \in UE \ {c[1]} : SgwKept(v)
  <2>1. sgw_id' = sgw_id
    BY <1>6
  <2> QED
    BY <1>4, <1>11, <1>12, <2>1, Constants DEF SgwKept
<1>22. SgwStep(call, c, y)
  <2>1. <<call[c].at, y.at>> \in SgwMoves /\ y.id = call[c].id
    BY <1>1, <1>2, <1>7 DEF SgwMoves
  <2>2. y.at \notin SgwWorks /\ x.at \notin SgwWorks
    BY <1>2, <1>7 DEF SgwWorks
  <2>3. SgwJobGoes(call, c, y)
    BY <1>1, <1>6, <2>2 DEF SgwJobGoes
  <2>4. PICK s : s = link["s11"][c].state
    OBVIOUS
  <2>5. SgwFdEntry(c[1], s, y.at) = SgwFdEntry(c[1], s, x.at)
    BY <1>2, <1>7 DEF SgwFdEntry, FromMme, SgwWait
  <2>6. sgw_fd[c] = SgwFdEntry(c[1], s, y.at)
    BY <1>4, <2>4, <2>5 DEF FdsOK
  <2>7. sgw_fd' = [sgw_fd EXCEPT ![c] = SgwFdEntry(c[1], link'["s11"][c].state, y.at)]
    BY <1>4, <1>6, <1>18, <1>19, <2>4, <2>6
  <2>8. sgw_id' \in [{"s11", "s1", "s5"} -> [UE -> Teid]]
    BY <1>4, <1>6
  <2> QED
    BY <1>6, <1>21, <2>1, <2>3, <2>7, <2>8 DEF SgwStep
<1>23. SgwOK(c[1], y)'
  <2>1. \A i \in {"s11", "s1", "s5"} : (SgwEntryOf(c[1], i, y.at))' = c[1]
    BY <1>7, <1>21 DEF SgwEntryOf
  <2>2. sgw_id' = sgw_id /\ sgw_ctx'[c[1]] # None /\ sgw_ctx'[c[1]].teid = c[1]
        /\ sgw_ctx'[c[1]].s5_ul = c[1] /\ sgw_ctx'[c[1]].s1_uteid_dl = c[1]
    BY <1>6, <1>11, <1>21
  <2> QED
    BY <1>5, <1>7, <2>1, <2>2 DEF SgwOK, SgwEntryOf
<1> QED
    BY <1>20, <1>22, <1>23, SgwGoes

\* act 1, detach: the subscriber is found, and the request goes on to the PGW.
LEMMA SgwDetachKeeps ==
    ASSUME TypeOK, NEW call \in [Call -> CallState], Calls(call), NEW k \in SgwCore, NEW c \in Call,
           SgwDetach(k, c), SgwAlone
    PROVE  CallInv'
<1>1. PICK x \in CallState : x = call[c]
    OBVIOUS
<1>2. x.at = 28 /\ link["s11"][c].up = S11Up(c[1], x.at) /\ link["s11"][c].core = k /\ sgw_job[k] = None
  <2>1. SgwRequest(k, c, 3)
    BY DEF SgwDetach
  <2>2. /\ <<3, call[c].at>> \in {<<1, 11>>, <<2, 23>>, <<3, 28>>}
        /\ link["s11"][c].up = S11Up(c[1], call[c].at)
        /\ link["s11"][c].core = k /\ sgw_job[k] = None
    BY <2>1, SgwRequestFacts
  <2> QED
    BY <1>1, <2>2
<1>3. link["s11"][c].up.teid = c[1]
  <2>1. link["s11"][c].up = [Msg(3) EXCEPT !.teid = c[1]]
    BY <1>2 DEF S11Up
  <2> QED
    BY <2>1 DEF Msg
<1>4. /\ c[1] \in UE /\ c[1] # 0 /\ S11OK(c[1], link["s11"][c], x) /\ S5OK(c[1], link["s5"][c], x)
      /\ SgwOK(c[1], x) /\ sgw_id \in [{"s11", "s1", "s5"} -> [UE -> Teid]]
      /\ sgw_ctx \in [UE -> SgwContext \cup {None}]
  <2>1. call[c].at \in 1 .. 37
    BY <1>1, <1>2
  <2> QED
    BY <1>1, <2>1, SgwHeld
<1>5. /\ sgw_ctx[c[1]] # None /\ sgw_ctx[c[1]].teid = c[1] /\ sgw_ctx[c[1]].s5_ul = c[1]
      /\ Imsi(c[1]) = c[1]
  <2>1. call[c].at \in 15 .. 32
    BY <1>1, <1>2
  <2>2. sgw_ctx[c[1]] # None /\ sgw_ctx[c[1]].teid = c[1] /\ Imsi(c[1]) = c[1]
    BY <2>1, SgwKnows
  <2> QED
    BY <1>2, <1>4, <2>2 DEF SgwOK
<1>6. /\ link' = SendUp(ReadUp(link, "s11", c), "s5", c, [Msg(4) EXCEPT !.teid = c[1]])
      /\ sgw_fd' = [sgw_fd EXCEPT ![c] = SgwWait(c[1], 4, None)]
      /\ UNCHANGED <<exited, sgw_job, sgw_id, sgw_ctx>>
    BY <1>3, <1>4, <1>5 DEF SgwDetach, SgwWait
<1>7. PICK y \in CallState : y.at = 29 /\ y.id = x.id
  <2>1. 29 \in 0 .. 44 /\ x.id \in {0} \cup UeId
    BY StateFacts
  <2> QED
    BY <2>1, StateMade, ZenonT(40)
<1>8. PICK m : m = [Msg(4) EXCEPT !.teid = c[1]]
    OBVIOUS
<1>9. m \in Message
  <2>1. m = [type |-> 4, id |-> 0, imsi |-> 0, teid |-> c[1], ip |-> 0]
    BY <1>8 DEF Msg
  <2> QED
    BY <1>4, <2>1, TeidFacts DEF Message
<1>10. link["s11"][c] \in Link /\ link["s5"][c] \in Link /\ link \in Links
       /\ "s11" \in Interface /\ "s5" \in Interface
    BY LinkFacts
<1>11. PICK q : q = [link["s11"][c] EXCEPT !.up = None]
    OBVIOUS
<1>12. PICK p : p = [link["s5"][c] EXCEPT !.up = m]
    OBVIOUS
<1>13. PutBoth(link, link', "s11", "s5", c, q, p)
  <2>1. PICK r : r = ReadUp(link, "s11", c)
    OBVIOUS
  <2>2. Put(link, r, "s11", c, q)
    BY <1>10, <1>11, <2>1, ReadUpPuts
  <2>3. r \in Links /\ r["s5"][c] = link["s5"][c]
    BY <1>10, <2>2 DEF Put
  <2>4. link' = SendUp(r, "s5", c, m)
    BY <1>6, <1>8, <2>1
  <2>5. Put(r, link', "s5", c, p)
    BY <1>9, <1>10, <1>12, <2>3, <2>4, SendUpPuts
  <2> QED
    BY <1>10, <2>2, <2>5, PutsBoth
<1>14. link'["s11"][c] = q /\ link'["s5"][c] = p
    BY <1>13 DEF PutBoth
<1>15. /\ q.state = link["s11"][c].state /\ q.core = link["s11"][c].core
       /\ q.gone = link["s11"][c].gone /\ q.up = None /\ q.down = link["s11"][c].down
    BY <1>10, <1>11 DEF Link
<1>16. /\ p.state = link["s5"][c].state /\ p.core = link["s5"][c].core
       /\ p.gone = link["s5"][c].gone /\ p.up = m /\ p.down = link["s5"][c].down
    BY <1>10, <1>12 DEF Link
<1>17. SgwLinks(c, y, link')
  <2>1. S11OK(c[1], q, y)
    <3>1. S11State(x.at) = S11State(y.at) /\ x.at # 42 /\ y.at # 42
      BY <1>2, <1>7 DEF S11State
    <3>2. S11Up(c[1], y.at) = None /\ S11Down(c[1], y.at) = S11Down(c[1], x.at)
      BY <1>2, <1>7 DEF S11Up, S11Down
    <3>3. q.up = S11Up(c[1], y.at) /\ q.down = S11Down(c[1], y.at)
      BY <1>4, <1>15, <3>2 DEF S11OK
    <3> QED
      BY <1>4, <1>15, <3>1, <3>3, S11Served
  <2>2. S5OK(c[1], p, y)
    <3>1. S5State(x.at) = S5State(y.at) /\ x.at # 43 /\ y.at # 43
      BY <1>2, <1>7 DEF S5State
    <3>2. S5Up(c[1], y.at) = m /\ S5Down(c[1], y.at) = S5Down(c[1], x.at)
      BY <1>2, <1>7, <1>8 DEF S5Up, S5Down
    <3>3. p.up = S5Up(c[1], y.at) /\ p.down = S5Down(c[1], y.at)
      BY <1>4, <1>16, <3>2 DEF S5OK
    <3> QED
      BY <1>4, <1>16, <3>1, <3>3, S5Served
  <2>3. link' \in Links
        /\ \A j \in Interface, d \in Call : d # c \/ j \in {"s1", "s6a"} => link'[j][d] = link[j][d]
    BY <1>13 DEF PutBoth
  <2> QED
    BY <1>14, <1>16, <2>1, <2>2, <2>3 DEF SgwLinks
<1>18. SgwStep(call, c, y)
  <2>1. <<call[c].at, y.at>> \in SgwMoves /\ y.id = call[c].id
    BY <1>1, <1>2, <1>7 DEF SgwMoves
  <2>2. y.at \notin SgwWorks /\ x.at \notin SgwWorks
    BY <1>2, <1>7 DEF SgwWorks
  <2>3. SgwJobGoes(call, c, y)
    BY <1>1, <1>6, <2>2 DEF SgwJobGoes
  <2>4. PICK s : s = link'["s11"][c].state
    OBVIOUS
  <2>5. SgwFdEntry(c[1], s, y.at) = SgwWait(c[1], 4, None)
    BY <1>7 DEF SgwFdEntry, FromMme, SgwWait
  <2>6. sgw_fd' = [sgw_fd EXCEPT ![c] = SgwFdEntry(c[1], link'["s11"][c].state, y.at)]
    BY <1>6, <2>4, <2>5
  <2> QED
    BY <1>4, <1>6, <2>1, <2>3, <2>6, SgwTablesStay DEF SgwStep
<1>19. SgwOK(c[1], y)'
  <2>1. \A t \in {"s11", "s1", "s5"} : SgwEntryOf(c[1], t, y.at) = SgwEntryOf(c[1], t, x.at)
    BY <1>2, <1>7 DEF SgwEntryOf
  <2>2. SgwOK(c[1], y)
    BY <1>2, <1>4, <1>7, <2>1 DEF SgwOK
  <2> QED
    BY <1>4, <1>6, <2>2, SgwStays DEF SgwKept
<1> QED
    BY <1>17, <1>18, <1>19, SgwGoes

\* act 4, up to s11_id: the subscriber is found.
LEMMA SgwDetachAnswerKeeps ==
    ASSUME TypeOK, NEW call \in [Call -> CallState], Calls(call), NEW k \in SgwCore, NEW c \in Call,
           SgwDetachAnswer(k, c), SgwAlone
    PROVE  CallInv'
<1>1. PICK x \in CallState : x = call[c]
    OBVIOUS
<1>2. /\ x.at = 32 /\ link["s5"][c].down = S5Down(c[1], x.at)
      /\ link["s11"][c].core = k /\ sgw_job[k] = None
      /\ sgw_fd[c].tid = c[1] /\ sgw_fd[c].guti = c[1]
  <2>1. SgwEvent(k, c, 4) /\ link["s5"][c].down # None
    BY DEF SgwDetachAnswer
  <2>2. /\ <<4, call[c].at>> \in {<<3, 19>>, <<4, 32>>}
        /\ link["s5"][c].down = S5Down(c[1], call[c].at)
        /\ link["s11"][c].core = k /\ sgw_job[k] = None
        /\ sgw_fd[c].tid = c[1] /\ sgw_fd[c].guti = c[1]
    BY <2>1, SgwAnswer
  <2> QED
    BY <1>1, <2>2
<1>3. /\ c[1] \in UE /\ c[1] # 0 /\ S11OK(c[1], link["s11"][c], x) /\ S5OK(c[1], link["s5"][c], x)
      /\ SgwOK(c[1], x) /\ sgw_id \in [{"s11", "s1", "s5"} -> [UE -> Teid]]
      /\ sgw_fd \in [Call -> SgwData \cup {None}] /\ FdsOK(c, x)
      /\ sgw_ctx \in [UE -> SgwContext \cup {None}]
  <2>1. call[c].at \in 1 .. 37
    BY <1>1, <1>2
  <2> QED
    BY <1>1, <2>1, SgwHeld, Held
<1>4. sgw_ctx[c[1]] # None /\ Imsi(c[1]) = c[1]
  <2>1. call[c].at \in 15 .. 32
    BY <1>1, <1>2
  <2> QED
    BY <2>1, SgwKnows
<1>5. /\ sgw_id' = [sgw_id EXCEPT !["s11"][c[1]] = 0]
      /\ sgw_job' = [sgw_job EXCEPT
            ![k] = [call |-> c, do |-> "remove", at |-> "s1", teid |-> c[1], imsi |-> c[1]]]
      /\ link' = ReadDown(link, "s5", c)
      /\ UNCHANGED <<exited, sgw_fd, sgw_ctx>>
    BY <1>2, <1>3, <1>4 DEF SgwDetachAnswer
<1>6. PICK y \in CallState : y.at = 33 /\ y.id = x.id
  <2>1. 33 \in 0 .. 44 /\ x.id \in {0} \cup UeId
    BY StateFacts
  <2> QED
    BY <2>1, StateMade
<1>7. sgw_job' = [sgw_job EXCEPT ![k] = SgwJobOf(c, y.at)]
  <2>1. SgwJobOf(c, y.at) = [call |-> c, do |-> "remove", at |-> "s1", teid |-> c[1], imsi |-> c[1]]
    BY <1>6 DEF SgwJobOf
  <2> QED
    BY <1>5, <2>1
<1>8. link["s5"][c] \in Link /\ "s5" \in Interface /\ link \in Links
    BY LinkFacts
<1>9. PICK q : q = [link["s5"][c] EXCEPT !.down = None]
    OBVIOUS
<1>10. Put(link, link', "s5", c, q)
    BY <1>5, <1>8, <1>9, ReadDownPuts
<1>11. /\ q.state = link["s5"][c].state /\ q.core = link["s5"][c].core
       /\ q.gone = link["s5"][c].gone /\ q.up = link["s5"][c].up /\ q.down = None
    BY <1>8, <1>9 DEF Link
<1>12. link'["s11"][c] = link["s11"][c] /\ link'["s5"][c] = q
    BY <1>8, <1>10 DEF Put, Interface
<1>13. SgwLinks(c, y, link')
  <2>1. S11OK(c[1], link["s11"][c], y)
    <3>1. S11State(x.at) = S11State(y.at) /\ x.at # 42 /\ y.at # 42
      BY <1>2, <1>6 DEF S11State
    <3>2. S11Up(c[1], y.at) = S11Up(c[1], x.at) /\ S11Down(c[1], y.at) = S11Down(c[1], x.at)
      BY <1>2, <1>6 DEF S11Up, S11Down
    <3> QED
      BY <1>3, <3>1, <3>2 DEF S11OK
  <2>2. S5OK(c[1], q, y)
    <3>1. S5State(x.at) = S5State(y.at) /\ x.at # 43 /\ y.at # 43
      BY <1>2, <1>6 DEF S5State
    <3>2. S5Up(c[1], y.at) = S5Up(c[1], x.at) /\ S5Down(c[1], y.at) = None
      BY <1>2, <1>6 DEF S5Up, S5Down
    <3>3. q.up = S5Up(c[1], y.at) /\ q.down = S5Down(c[1], y.at)
      BY <1>3, <1>11, <3>2 DEF S5OK
    <3> QED
      BY <1>3, <1>11, <3>1, <3>3, S5Served
  <2>3. link' \in Links
        /\ \A j \in Interface, d \in Call : d # c \/ j \in {"s1", "s6a"} => link'[j][d] = link[j][d]
    BY <1>10 DEF Put
  <2> QED
    BY <1>11, <1>12, <2>1, <2>2, <2>3 DEF SgwLinks
<1>14. /\ sgw_id' \in [{"s11", "s1", "s5"} -> [UE -> Teid]] /\ sgw_id'["s11"][c[1]] = 0
       /\ \A t \in {"s1", "s5"} : sgw_id'[t][c[1]] = sgw_id[t][c[1]]
       /\ \A v \in UE \ {c[1]} : SgwKept(v)
  <2>1. /\ sgw_id' \in [{"s11", "s1", "s5"} -> [UE -> Teid]] /\ sgw_id'["s11"][c[1]] = 0
        /\ \A i \in {"s11", "s1", "s5"}, v \in UE : i # "s11" \/ v # c[1] => sgw_id'[i][v] = sgw_id[i][v]
    BY <1>3, <1>5, TeidFacts, SgwIdSet
  <2> QED
    BY <1>3, <1>5, <2>1 DEF SgwKept
<1>15. SgwStep(call, c, y)
  <2>1. <<call[c].at, y.at>> \in SgwMoves /\ y.id = call[c].id
    BY <1>1, <1>2, <1>6 DEF SgwMoves
  <2>2. y.at \in SgwWorks
    BY <1>6 DEF SgwWorks
  <2>3. SgwJobGoes(call, c, y)
    BY <1>2, <1>7, <1>12, <2>2 DEF SgwJobGoes
  <2>4. PICK s : s = link["s11"][c].state
    OBVIOUS
  <2>5. SgwFdEntry(c[1], s, y.at) = SgwFdEntry(c[1], s, x.at)
    BY <1>2, <1>6 DEF SgwFdEntry, FromMme, SgwWait
  <2>6. sgw_fd[c] = SgwFdEntry(c[1], s, y.at)
    BY <1>3, <2>4, <2>5 DEF FdsOK
  <2>7. sgw_fd' = [sgw_fd EXCEPT ![c] = SgwFdEntry(c[1], link'["s11"][c].state, y.at)]
    BY <1>3, <1>5, <1>12, <2>4, <2>6
  <2> QED
    BY <1>3, <1>5, <1>14, <2>1, <2>3, <2>7 DEF SgwStep
<1>16. SgwOK(c[1], y)'
  <2>1. \A t \in {"s1", "s5"} : SgwEntryOf(c[1], t, y.at) = SgwEntryOf(c[1], t, x.at)
    BY <1>2, <1>6 DEF SgwEntryOf, SgwDone
  <2>2. SgwEntryOf(c[1], "s11", y.at) = 0
    BY <1>6 DEF SgwEntryOf, SgwDone
  <2>3. \A t \in {"s11", "s1", "s5"} : sgw_id'[t][c[1]] = SgwEntryOf(c[1], t, y.at)
    BY <1>3, <1>14, <2>1, <2>2 DEF SgwOK
  <2>4. /\ sgw_ctx[c[1]] # None /\ sgw_ctx[c[1]].teid = c[1] /\ sgw_ctx[c[1]].s5_ul = c[1]
        /\ sgw_ctx[c[1]].s1_uteid_dl = c[1]
    BY <1>2, <1>3 DEF SgwOK
  <2> QED
    BY <1>5, <1>6, <2>3, <2>4 DEF SgwOK, SgwEntryOf
<1> QED
    BY <1>13, <1>15, <1>16, SgwGoes

\* The end of a detach: the context, the answer, and both connections.
LEMMA SgwRemovedKeeps ==
    ASSUME TypeOK, NEW call \in [Call -> CallState], Calls(call), NEW k \in SgwCore,
           SgwRemoved(k), SgwAlone
    PROVE  CallInv'
<1>1. /\ sgw_job[k] # None /\ sgw_job[k].at = "ue_ctx" /\ sgw_job[k].do = "remove"
      /\ LET j == sgw_job[k]
         IN  /\ sgw_ctx' = [sgw_ctx EXCEPT ![j.imsi] = None]
             /\ sgw_fd' = [sgw_fd EXCEPT ![j.call] = None]
             /\ link' = ServerClose(ClientClose(SendDown(link, "s11", j.call, Msg(3)), "s5", j.call),
                                    "s11", j.call)
      /\ sgw_job' = [sgw_job EXCEPT ![k] = None]
      /\ UNCHANGED <<exited, sgw_id>>
    BY DEF SgwRemoved, SgwLast
<1>2. PICK c \in Call : /\ call[c].at \in SgwWorks /\ link["s11"][c].core = k
                        /\ sgw_job[k] = SgwJobOf(c, call[c].at)
    BY <1>1, SgwJobHeld
<1>3. PICK x \in CallState : x = call[c]
    OBVIOUS
<1>4. x.at \in SgwWorks /\ sgw_job[k] = SgwJobOf(c, x.at)
    BY <1>2, <1>3
<1>5. /\ sgw_job[k].call = c /\ sgw_job[k].teid = c[1] /\ sgw_job[k].imsi = c[1] /\ x.at = 35
  <2>1. PICK a \in SgwWorks : a = x.at
    BY <1>4
  <2>2. /\ SgwJobOf(c, a).call = c /\ SgwJobOf(c, a).teid = c[1] /\ SgwJobOf(c, a).imsi = c[1]
        /\ a \in 12 .. 14 => SgwJobOf(c, a).do = "create"
        /\ a \in 33 .. 35 => SgwJobOf(c, a).do = "remove"
        /\ a \in {12, 33} => SgwJobOf(c, a).at = "s1"
        /\ a \in {13, 34} => SgwJobOf(c, a).at = "s5"
        /\ a \in {14, 35} => SgwJobOf(c, a).at = "ue_ctx"
    BY SgwJobMade
  <2>3. a = 35
    BY <1>1, <1>4, <2>1, <2>2 DEF SgwWorks
  <2> QED
    BY <1>4, <2>1, <2>2, <2>3, Zenon
<1>6. /\ c[1] \in UE /\ S11OK(c[1], link["s11"][c], x) /\ S5OK(c[1], link["s5"][c], x)
      /\ SgwOK(c[1], x) /\ sgw_id \in [{"s11", "s1", "s5"} -> [UE -> Teid]]
      /\ sgw_ctx \in [UE -> SgwContext \cup {None}]
  <2>1. call[c].at \in 1 .. 37
    BY <1>3, <1>5
  <2> QED
    BY <1>3, <2>1, SgwHeld
<1>7. PICK y \in CallState : y.at = 36 /\ y.id = x.id
  <2>1. 36 \in 0 .. 44 /\ x.id \in {0} \cup UeId
    BY StateFacts
  <2> QED
    BY <2>1, StateMade, ZenonT(40)
<1>8. /\ sgw_ctx' = [sgw_ctx EXCEPT ![c[1]] = None]
      /\ sgw_fd' = [sgw_fd EXCEPT ![c] = None]
      /\ link' = ServerClose(ClientClose(SendDown(link, "s11", c, Msg(3)), "s5", c), "s11", c)
    BY <1>1, <1>5
<1>9. /\ link["s11"][c] \in Link /\ link \in Links /\ "s11" \in Interface /\ "s5" \in Interface
      /\ c \in Call /\ "s11" # "s5"
    BY LinkFacts
<1>10. Msg(3) \in Message
    BY TeidFacts DEF Msg, Message
<1>11. PICK q0 : q0 = [link["s11"][c] EXCEPT !.down = Msg(3)]
    OBVIOUS
<1>12. PICK q : q = [q0 EXCEPT !.state = "shut", !.core = None]
    OBVIOUS
<1>13. /\ q.state = "shut" /\ q.core = None /\ q.gone = link["s11"][c].gone
       /\ q.up = link["s11"][c].up /\ q.down = Msg(3)
       /\ q0.gone = link["s11"][c].gone
  <2>1. /\ q0.gone = link["s11"][c].gone /\ q0.up = link["s11"][c].up /\ q0.down = Msg(3)
        /\ q0 \in [state : {"none", "syn", "open", "shut"}, gone : BOOLEAN,
                   core : MmeCore \cup SgwCore \cup PgwCore \cup {None},
                   up : Message \cup {None}, down : Message \cup {None}]
    BY <1>9, <1>10, <1>11 DEF Link
  <2> QED
    BY <1>12, <2>1
<1>14. PICK r : r = SendDown(link, "s11", c, Msg(3))
    OBVIOUS
<1>15. Put(link, r, "s11", c, q0)
    BY <1>9, <1>10, <1>11, <1>14, SendDownPuts
<1>16. r \in Links /\ r["s11"][c] = q0 /\ r["s5"][c] = link["s5"][c]
    BY <1>9, <1>15 DEF Put
<1>17. PICK s : s = ClientClose(r, "s5", c)
    OBVIOUS
<1>18. Put(r, s, "s5", c, NoLink)
  <2>1. r["s5"][c].state = "shut"
    BY <1>5, <1>6, <1>16 DEF S5OK, S5State
  <2>2. Put(r, s, "s5", c, IF r["s5"][c].state \in {"none", "shut"} THEN NoLink
                           ELSE [r["s5"][c] EXCEPT !.gone = TRUE])
    BY <1>9, <1>16, <1>17, ClientClosePuts
  <2> QED
    BY <2>1, <2>2
<1>19. s \in Links /\ s["s11"][c] = q0
    BY <1>9, <1>16, <1>18 DEF Put
<1>20. Put(s, link', "s11", c, q)
  <2>1. ~s["s11"][c].gone
    BY <1>5, <1>6, <1>13, <1>19 DEF S11OK
  <2>2. link' = ServerClose(s, "s11", c)
    BY <1>8, <1>14, <1>17
  <2>3. Put(s, link', "s11", c, IF s["s11"][c].gone THEN NoLink
                                ELSE [s["s11"][c] EXCEPT !.state = "shut", !.core = None])
    BY <1>9, <1>19, <2>2, ServerClosePuts
  <2> QED
    BY <1>12, <1>19, <2>1, <2>3
<1>21. /\ link' \in Links /\ link'["s11"][c] = q /\ link'["s5"][c] = NoLink
       /\ \A j \in Interface, d \in Call : d # c \/ j \in {"s1", "s6a"} => link'[j][d] = link[j][d]
    BY <1>9, <1>15, <1>18, <1>20 DEF Put
<1>22. SgwLinks(c, y, link')
  <2>1. S11OK(c[1], q, y)
    <3>1. S11Up(c[1], y.at) = None /\ S11Up(c[1], x.at) = None /\ S11Down(c[1], y.at) = Msg(3)
      BY <1>5, <1>7 DEF S11Up, S11Down
    <3>2. S11State(y.at) = {"shut"}
      BY <1>7 DEF S11State
    <3> QED
      BY <1>5, <1>6, <1>7, <1>13, <3>1, <3>2 DEF S11OK
  <2>2. S5OK(c[1], NoLink, y)
    BY <1>7 DEF S5OK, NoLink, S5State, S5Up, S5Down
  <2>3. link["s5"][c].state # "open" /\ NoLink.state # "open"
    BY <1>5, <1>6 DEF S5OK, S5State, NoLink
  <2> QED
    BY <1>21, <2>1, <2>2, <2>3 DEF SgwLinks
<1>23. /\ sgw_ctx' \in [UE -> SgwContext \cup {None}] /\ sgw_ctx'[c[1]] = None
       /\ \A v \in UE \ {c[1]} : SgwKept(v)
  <2>1. sgw_id' = sgw_id
    BY <1>1
  <2> QED
    BY <1>6, <1>8, <2>1 DEF SgwKept
<1>24. SgwStep(call, c, y)
  <2>1. <<call[c].at, y.at>> \in SgwMoves /\ y.id = call[c].id
    BY <1>3, <1>5, <1>7 DEF SgwMoves
  <2>2. y.at \notin SgwWorks
    BY <1>7 DEF SgwWorks
  <2>3. SgwJobGoes(call, c, y)
    BY <1>1, <1>2, <1>5, <2>2 DEF SgwJobGoes
  <2>4. PICK t : t = link'["s11"][c].state
    OBVIOUS
  <2>5. SgwFdEntry(c[1], t, y.at) = None
    BY <1>7 DEF SgwFdEntry, FromMme, SgwWait
  <2>6. sgw_fd' = [sgw_fd EXCEPT ![c] = SgwFdEntry(c[1], link'["s11"][c].state, y.at)]
    BY <1>8, <2>4, <2>5
  <2>7. sgw_id' \in [{"s11", "s1", "s5"} -> [UE -> Teid]]
    BY <1>1, <1>6
  <2> QED
    BY <1>1, <1>7, <1>23, <2>1, <2>3, <2>6, <2>7 DEF SgwStep
<1>25. SgwOK(c[1], y)'
  <2>1. \A i \in {"s11", "s1", "s5"} : sgw_id[i][c[1]] = 0
    <3>1. \A i \in {"s11", "s1", "s5"} : SgwEntryOf(c[1], i, x.at) = 0
      BY <1>5 DEF SgwEntryOf, SgwDone
    <3> QED
      BY <1>6, <3>1 DEF SgwOK
  <2>2. \A i \in {"s11", "s1", "s5"} : (SgwEntryOf(c[1], i, y.at))' = 0
    BY <1>7, <1>23 DEF SgwEntryOf
  <2>3. sgw_id' = sgw_id
    BY <1>1
  <2> QED
    BY <1>7, <1>23, <2>1, <2>2, <2>3 DEF SgwOK, SgwEntryOf
<1> QED
    BY <1>22, <1>24, <1>25, SgwGoes

-----------------------------------------------------------------------------
(* What a core of the PGW is in the middle of.                             *)

LEMMA PgwJobMade ==
    ASSUME NEW c \in Call, NEW at \in PgwWorks
    PROVE  /\ PgwJobOf(c, at) \in PgwJob /\ PgwJobOf(c, at) # None
           /\ PgwJobOf(c, at).call = c /\ PgwJobOf(c, at).teid = c[1]
           /\ PgwJobOf(c, at).imsi = c[1] /\ PgwJobOf(c, at).ip = c[1]
           /\ at \in 17 .. 18 => PgwJobOf(c, at).do = "create"
           /\ at \in 30 .. 31 => PgwJobOf(c, at).do = "remove"
           /\ at \in {17, 30} => PgwJobOf(c, at).at = "sgi_id"
           /\ at = 18 => PgwJobOf(c, at).at = "ue_ctx"
           /\ at = 31 => PgwJobOf(c, at).at = "s5_id"
<1>1. c[1] \in UE
    BY CallFacts
<1>2. PgwJobOf(c, at) \in PgwJob
    BY <1>1, TeidFacts DEF PgwJobOf, PgwJob, PgwWorks
<1>3. PgwJobOf(c, at) # None
    BY <1>2, Constants
<1>4. /\ PgwJobOf(c, at).call = c /\ PgwJobOf(c, at).teid = c[1]
      /\ PgwJobOf(c, at).imsi = c[1] /\ PgwJobOf(c, at).ip = c[1]
      /\ at \in 17 .. 18 => PgwJobOf(c, at).do = "create"
      /\ at \in 30 .. 31 => PgwJobOf(c, at).do = "remove"
    BY DEF PgwJobOf
<1>5. /\ at \in {17, 30} => PgwJobOf(c, at).at = "sgi_id"
      /\ at = 18 => PgwJobOf(c, at).at = "ue_ctx"
      /\ at = 31 => PgwJobOf(c, at).at = "s5_id"
    BY DEF PgwJobOf
<1> QED
    BY <1>2, <1>3, <1>4, <1>5

\* A job is that of the call that the core serves.
LEMMA PgwJobHeld ==
    ASSUME TypeOK, NEW call \in [Call -> CallState], Calls(call), NEW k \in PgwCore,
           pgw_job[k] # None
    PROVE  \E c \in Call : /\ call[c].at \in PgwWorks /\ link["s5"][c].core = k
                           /\ pgw_job[k] = PgwJobOf(c, call[c].at)
<1>1. PICK c : c = pgw_job[k].call
    OBVIOUS
<1>2. pgw_job[k] \in PgwJob
    BY DEF TypeOK, MkbPgwTypeOK
<1>3. c \in Call
    BY <1>1, <1>2 DEF PgwJob
<1>4. call[c].at \in PgwWorks /\ link["s5"][c].core = k
    BY <1>1 DEF Calls, JobsOK
<1>5. pgw_job[k] = PgwJobOf(c, call[c].at)
    BY <1>3, <1>4, Held DEF WorkOK
<1> QED
    BY <1>3, <1>4, <1>5

-----------------------------------------------------------------------------
(* Steps of the PGW.                                                       *)

PgwMoves == {<<15, 15>>, <<16, 16>>, <<16, 17>>, <<17, 18>>, <<18, 19>>,
             <<29, 30>>, <<30, 31>>, <<31, 32>>}

\* No core takes up or drops anything, or that of the call does what comes next.
PgwJobGoes(call, c, y) ==
    \/ UNCHANGED pgw_job /\ call[c].at \notin PgwWorks /\ y.at \notin PgwWorks
    \/ \E k \in PgwCore :
          /\ link["s5"][c].core = k /\ (y.at \in PgwWorks => link'["s5"][c].core = k)
          /\ pgw_job[k] = None \/ pgw_job[k].call = c
          /\ pgw_job' = [pgw_job EXCEPT ![k] = IF y.at \in PgwWorks THEN PgwJobOf(c, y.at) ELSE None]

\* They change the call's connection to the SGW.
PgwLinks(c, y, r) ==
    /\ r \in Links
    /\ \A j \in Interface, d \in Call : d # c \/ j # "s5" => r[j][d] = link[j][d]
    /\ S5OK(c[1], r["s5"][c], y)

PgwStep(call, c, y) ==
    /\ <<call[c].at, y.at>> \in PgwMoves /\ y.id = call[c].id
    /\ PgwJobGoes(call, c, y)
    /\ pgw_fd' \subseteq Call /\ (c \in pgw_fd' <=> link'["s5"][c].state = "open")
    /\ \A d \in Call \ {c} : d \in pgw_fd' <=> d \in pgw_fd
    /\ \A v \in UE \ {c[1]} : PgwKept(v)
    /\ pgw_s5_id' \in [UE -> Teid] /\ sgi_id' \in [Teid -> Teid]
    /\ pgw_ctx' \in [UE -> PgwContext \cup {None}]
    /\ PgwAlone /\ exited' = exited

LEMMA PgwGoes ==
    ASSUME TypeOK, NEW call \in [Call -> CallState], Calls(call), NEW c \in Call,
           NEW y \in CallState, PgwStep(call, c, y), PgwLinks(c, y, link'), PgwOK(c[1], y)'
    PROVE  CallInv'
<1>0. PICK x : x = call[c]
    OBVIOUS
<1>1. /\ <<x.at, y.at>> \in PgwMoves /\ y.id = x.id
      /\ PgwJobGoes(call, c, y)
      /\ pgw_fd' \subseteq Call /\ (c \in pgw_fd' <=> link'["s5"][c].state = "open")
      /\ \A d \in Call \ {c} : d \in pgw_fd' <=> d \in pgw_fd
      /\ \A v \in UE \ {c[1]} : PgwKept(v)
      /\ pgw_s5_id' \in [UE -> Teid] /\ sgi_id' \in [Teid -> Teid]
      /\ pgw_ctx' \in [UE -> PgwContext \cup {None}]
      /\ UNCHANGED <<ranVars, mmeVars, sgwVars>> /\ exited' = exited
    BY <1>0 DEF PgwStep, PgwAlone
<1>2. /\ link' \in Links
      /\ \A j \in Interface, d \in Call : d # c \/ j # "s5" => link'[j][d] = link[j][d]
      /\ S5OK(c[1], link'["s5"][c], y)
    BY DEF PgwLinks
<1>3. /\ x.at \in (15 .. 18) \cup (29 .. 31) /\ y.at \in (15 .. 19) \cup (30 .. 32)
      /\ x.at \in 15 .. 18 <=> y.at \in 15 .. 19
      /\ x.at = 15 <=> y.at = 15
    BY <1>1 DEF PgwMoves
<1>4. /\ x \in CallState /\ c[1] \in UE /\ S1OK(c[1], link["s1"][c], x) /\ PlaceOK(c, x)
      /\ S6aOK(c[1], link["s6a"][c], x) /\ S11OK(c[1], link["s11"][c], x) /\ FdsOK(c, x)
    BY <1>0, Held
<1>5. UserOK(c[1], x) /\ c = Current(c[1]) /\ rounds[c[1]] \in Nat
  <2>1. call[c].at \in 1 .. 37
    BY <1>0, <1>3
  <2> QED
    BY <1>0, <1>4, <2>1, CallNow, Types, MkbRoundAssumption
<1>6. PlaceOK(c, y)'
  <2>1. rounds' = rounds /\ hung' = hung /\ mme_srcaddr' = mme_srcaddr
    BY <1>1 DEF ranVars, mmeVars
  <2>2. /\ x.at # 0 /\ y.at # 0 /\ x.at \notin 38 .. 44 /\ x.at \notin Cut /\ y.at \notin Cut
        /\ x.at \in (10 .. 36) \cup (41 .. 44) /\ y.at \in (10 .. 36) \cup (41 .. 44)
        /\ x.at \notin 0 .. 2 /\ y.at \notin 0 .. 2
    BY <1>3 DEF Cut
  <2> QED
    BY <1>1, <1>4, <2>1, <2>2, Zenon DEF PlaceOK
<1>7. LinksOK(c, y)'
  <2>1. /\ link'["s1"][c] = link["s1"][c] /\ link'["s6a"][c] = link["s6a"][c]
        /\ link'["s11"][c] = link["s11"][c]
    BY <1>2 DEF Interface
  <2>2. x.at \in 2 .. 36 /\ y.at \in 2 .. 36 /\ x.at \notin 3 .. 5 /\ y.at \notin 3 .. 5
    BY <1>3
  <2>3. S1OK(c[1], link["s1"][c], y)
    <3>1. S1Up(c[1], y) = None /\ S1Up(c[1], x) = None
      BY <1>3 DEF S1Up
    <3>2. S1Down(c[1], y) = None /\ S1Down(c[1], x) = None
      BY <1>3 DEF S1Down
    <3>3. link["s1"][c].up = S1Up(c[1], y) /\ link["s1"][c].down = S1Down(c[1], y)
      BY <1>4, <3>1, <3>2 DEF S1OK
    <3> QED
      BY <1>4, <2>2, <3>3, S1Served
  <2>4. S6aOK(c[1], link["s6a"][c], y)
    BY <1>4, <2>2, S6aIdle
  <2>5. S11OK(c[1], link["s11"][c], y)
    <3>1. S11State(x.at) = S11State(y.at) /\ x.at # 42 /\ y.at # 42
      BY <1>3 DEF S11State
    <3>2. S11Up(c[1], y.at) = S11Up(c[1], x.at) /\ S11Down(c[1], y.at) = S11Down(c[1], x.at)
      BY <1>3 DEF S11Up, S11Down
    <3> QED
      BY <1>4, <3>1, <3>2 DEF S11OK
  <2> QED
    BY <1>2, <2>1, <2>3, <2>4, <2>5 DEF LinksOK
<1>8. MmeEntry(c[1], y) = MmeEntry(c[1], x)
  <2>1. CASE x.at \in 15 .. 18
    <3>1. MmeEntry(c[1], y) = MmeWait(5, y, None) /\ MmeEntry(c[1], x) = MmeWait(5, x, None)
      BY <1>3, <2>1 DEF MmeEntry, FromRan, MmeWait
    <3> QED
      BY <1>1, <3>1 DEF MmeWait
  <2>2. CASE x.at \in 29 .. 31
    <3>1. MmeEntry(c[1], y) = MmeWait(7, y, None) /\ MmeEntry(c[1], x) = MmeWait(7, x, None)
      BY <1>3, <2>2 DEF MmeEntry, FromRan, MmeWait
    <3> QED
      BY <1>1, <3>1 DEF MmeWait
  <2> QED
    BY <1>3, <2>1, <2>2
<1>9. FdsOK(c, y)'
  <2>1. mme_fd' = mme_fd /\ sgw_fd' = sgw_fd
    BY <1>1 DEF mmeVars, sgwVars
  <2>2. PICK s : s = link["s11"][c].state
    OBVIOUS
  <2>3. SgwFdEntry(c[1], s, y.at) = SgwFdEntry(c[1], s, x.at)
    <3>1. CASE x.at = 15
      BY <1>3, <3>1
    <3>2. CASE x.at \in 16 .. 18
      <4>1. y.at \in 16 .. 19
        BY <1>3, <3>2
      <4> QED
        BY <3>2, <4>1 DEF SgwFdEntry, FromMme, SgwWait
    <3>3. CASE x.at \in 29 .. 31
      <4>1. y.at \in 30 .. 32
        BY <1>3, <3>3
      <4> QED
        BY <3>3, <4>1 DEF SgwFdEntry, FromMme, SgwWait
    <3> QED
      BY <1>3, <3>1, <3>2, <3>3
  <2>4. link'["s11"][c].state = s
    BY <1>2, <2>2 DEF Interface
  <2> QED
    BY <1>1, <1>4, <1>8, <2>1, <2>2, <2>3, <2>4 DEF FdsOK
<1>10. OthersKept(c)
    BY <1>1, <1>2 DEF OthersKept, ranVars, mmeVars, sgwVars
<1>11. Frame(c)
    BY <1>1, <1>10 DEF Frame, UserKept, SgwKept, ranVars, mmeVars, sgwVars
<1>12. PICK next : Moved(call, next, c, y)
    BY MovedFacts
<1>13. x.at \notin SgwWorks /\ y.at \notin SgwWorks
    BY <1>3 DEF SgwWorks
<1>14. /\ JobsOK(next)' /\ \A d \in Call \ {c} : WorkOK(d, call[d])'
       /\ y.at \in PgwWorks => pgw_job'[link'["s5"][c].core] = PgwJobOf(c, y.at)
       /\ pgw_job' \in [PgwCore -> PgwJob \cup {None}]
  <2>1. sgw_job' = sgw_job /\ pgw_job \in [PgwCore -> PgwJob \cup {None}]
    BY <1>1 DEF sgwVars, TypeOK, MkbPgwTypeOK
  <2>2. CASE UNCHANGED pgw_job /\ call[c].at \notin PgwWorks /\ y.at \notin PgwWorks
    <3>1. call[c].at \notin SgwWorks \cup PgwWorks
      BY <1>0, <1>13, <2>2
    <3>2. JobsOK(next)' /\ \A d \in Call \ {c} : WorkOK(d, call[d])'
      BY <1>10, <1>12, <2>1, <2>2, <3>1, JobsStay
    <3> QED
      BY <2>1, <2>2, <3>2
  <2>3. CASE \E k \in PgwCore :
          /\ link["s5"][c].core = k /\ (y.at \in PgwWorks => link'["s5"][c].core = k)
          /\ pgw_job[k] = None \/ pgw_job[k].call = c
          /\ pgw_job' = [pgw_job EXCEPT ![k] = IF y.at \in PgwWorks THEN PgwJobOf(c, y.at) ELSE None]
    <3>1. PICK k \in PgwCore :
          /\ link["s5"][c].core = k /\ (y.at \in PgwWorks => link'["s5"][c].core = k)
          /\ pgw_job[k] = None \/ pgw_job[k].call = c
          /\ pgw_job' = [pgw_job EXCEPT ![k] = IF y.at \in PgwWorks THEN PgwJobOf(c, y.at) ELSE None]
      BY <2>3
    <3>2. PICK j : j = IF y.at \in PgwWorks THEN PgwJobOf(c, y.at) ELSE None
      OBVIOUS
    <3>3. pgw_job' = [pgw_job EXCEPT ![k] = j]
      BY <3>1, <3>2
    <3>4. j = None \/ (j.call = c /\ y.at \in PgwWorks /\ link'["s5"][c].core = k)
      BY <3>1, <3>2, PgwJobMade
    <3>5. j \in PgwJob \cup {None}
      BY <3>2, PgwJobMade
    <3>6. call[c].at \notin SgwWorks
      BY <1>0, <1>13
    <3>7. JobsOK(next)' /\ \A d \in Call \ {c} : WorkOK(d, call[d])'
      <4>1. link["s5"][c].core = k /\ (pgw_job[k] = None \/ pgw_job[k].call = c)
        BY <3>1
      <4> QED
        BY <1>10, <1>12, <2>1, <3>3, <3>4, <3>6, <4>1, PgwJobMoves, ZenonT(40)
    <3>8. pgw_job'[k] = j /\ pgw_job' \in [PgwCore -> PgwJob \cup {None}]
      BY <2>1, <3>3, <3>5
    <3> QED
      BY <3>1, <3>2, <3>7, <3>8
  <2> QED
    BY <1>1, <2>2, <2>3 DEF PgwJobGoes
<1>15. CallOK(c, y)'
  <2>1. WorkOK(c, y)'
    BY <1>13, <1>14 DEF WorkOK
  <2> QED
    BY <1>6, <1>7, <1>9, <2>1 DEF CallOK
<1>16. UserOK(c[1], y)'
  <2>1. rounds' = rounds /\ RanOK(c[1], y)'
    <3>1. Pc(y.at) = Pc(x.at)
      BY <1>1 DEF PgwMoves, Pc
    <3> QED
      BY <1>1, <1>5, <3>1 DEF UserOK, RanOK, PgwMoves, ranVars
  <2>2. MmeOK(c[1], y)'
    <3>1. MmeOK(c[1], y)
      BY <1>1, <1>5 DEF UserOK, MmeOK, PgwMoves
    <3> QED
      BY <1>1, <1>4, <3>1, MmeStays DEF mmeVars
  <2>3. SgwOK(c[1], y)'
    <3>1. \A t \in {"s11", "s1", "s5"} : SgwEntryOf(c[1], t, y.at) = SgwEntryOf(c[1], t, x.at)
      BY <1>3 DEF SgwEntryOf
    <3>2. SgwOK(c[1], x)
      BY <1>5 DEF UserOK
    <3>3. SgwOK(c[1], y)
      BY <1>3, <3>1, <3>2 DEF SgwOK
    <3> QED
      BY <1>1, <1>4, <3>3, SgwStays DEF SgwKept, sgwVars
  <2> QED
    BY <1>5, <2>1, <2>2, <2>3 DEF UserOK
<1>17. TypeOK'
  <2>1. MkbBaseTypeOK'
    BY <1>1, <1>2 DEF TypeOK, MkbBaseTypeOK, Links
  <2>2. MkbRanTypeOK' /\ MkbMmeTypeOK' /\ MkbSgwTypeOK'
    BY <1>1 DEF TypeOK, MkbRanTypeOK, MkbMmeTypeOK, MkbSgwTypeOK, ranVars, mmeVars, sgwVars
  <2>3. MkbPgwTypeOK'
    BY <1>1, <1>14 DEF MkbPgwTypeOK
  <2> QED
    BY <2>1, <2>2, <2>3 DEF TypeOK
<1>18. /\ call[c].at \in 3 .. 36 => y.at \in (3 .. 36) \cup Cut
       /\ call[c].at = 37 => y.at = 38
       /\ call[c].at \in 1 .. 37
    BY <1>0, <1>3 DEF Cut
<1>19. UNCHANGED <<rounds, mme_removal, s1mme_id, ue_count, exited>> /\ y.id = call[c].id
    BY <1>0, <1>1 DEF ranVars, mmeVars
<1> QED
    BY <1>11, <1>12, <1>14, <1>15, <1>16, <1>17, <1>18, <1>19, Goes

\* What is known of the subscriber of a call at the PGW.
LEMMA PgwHeld ==
    ASSUME TypeOK, NEW call \in [Call -> CallState], Calls(call), NEW c \in Call,
           call[c].at \in 1 .. 37
    PROVE  /\ call[c] \in CallState /\ c[1] \in UE /\ c[1] # 0
           /\ S5OK(c[1], link["s5"][c], call[c])
           /\ SgwOK(c[1], call[c]) /\ PgwOK(c[1], call[c])
           /\ pgw_fd \subseteq Call /\ (c \in pgw_fd <=> link["s5"][c].state = "open")
           /\ pgw_job \in [PgwCore -> PgwJob \cup {None}]
           /\ pgw_s5_id \in [UE -> Teid] /\ sgi_id \in [Teid -> Teid]
           /\ pgw_ctx \in [UE -> PgwContext \cup {None}]
<1>1. UserOK(c[1], call[c])
    BY CallNow
<1>2. /\ pgw_fd \subseteq Call /\ pgw_job \in [PgwCore -> PgwJob \cup {None}]
      /\ pgw_s5_id \in [UE -> Teid] /\ sgi_id \in [Teid -> Teid]
      /\ pgw_ctx \in [UE -> PgwContext \cup {None}]
    BY DEF TypeOK, MkbPgwTypeOK
<1>3. c[1] # 0
    BY CallFacts, Constants
<1>4. c \in pgw_fd <=> link["s5"][c].state = "open"
    BY Held DEF FdsOK
<1> QED
    BY <1>1, <1>2, <1>3, <1>4, Held DEF UserOK

\* A request of the SGW, and where its call is then.
LEMMA PgwRequestFacts ==
    ASSUME TypeOK, NEW call \in [Call -> CallState], Calls(call), NEW k \in PgwCore, NEW c \in Call,
           NEW type \in {1, 4}, PgwRequest(k, c, type)
    PROVE  /\ <<type, call[c].at>> \in {<<1, 16>>, <<4, 29>>}
           /\ link["s5"][c].up = S5Up(c[1], call[c].at)
           /\ link["s5"][c].core = k /\ link["s5"][c].state = "open" /\ pgw_job[k] = None
<1>1. PICK x : x = call[c]
    OBVIOUS
<1>2. PICK m : m = link["s5"][c].up
    OBVIOUS
<1>3. m # None /\ m.type = type /\ link["s5"][c].core = k /\ pgw_job[k] = None /\ c \in pgw_fd
    BY <1>2 DEF PgwRequest, Arrived
<1>4. x \in CallState /\ c[1] \in UE /\ m = S5Up(c[1], x.at) /\ x.at \in 0 .. 44
      /\ link["s5"][c].state = "open"
    BY <1>1, <1>2, <1>3, Held, StateFacts DEF S5OK, FdsOK
<1>5. x.at \in {16, 29}
    BY <1>3, <1>4, Zenon DEF S5Up
<1>6. <<type, x.at>> \in {<<1, 16>>, <<4, 29>>}
  <2>1. CASE x.at = 16
    <3>1. m = [Msg(1) EXCEPT !.teid = c[1], !.imsi = c[1]]
      BY <1>4, <2>1 DEF S5Up
    <3>2. m.type = 1
      BY <3>1 DEF Msg
    <3> QED
      BY <1>3, <2>1, <3>2
  <2>2. CASE x.at = 29
    <3>1. m = [Msg(4) EXCEPT !.teid = c[1]]
      BY <1>4, <2>2 DEF S5Up
    <3>2. m.type = 4
      BY <3>1 DEF Msg
    <3> QED
      BY <1>3, <2>2, <3>2
  <2> QED
    BY <1>5, <2>1, <2>2
<1> QED
    BY <1>1, <1>2, <1>3, <1>4, <1>6

\* The tables stay.
LEMMA PgwTablesStay ==
    ASSUME TypeOK, NEW u \in UE, UNCHANGED <<pgw_s5_id, sgi_id, pgw_ctx>>
    PROVE  /\ pgw_s5_id' \in [UE -> Teid] /\ sgi_id' \in [Teid -> Teid]
           /\ pgw_ctx' \in [UE -> PgwContext \cup {None}]
           /\ \A v \in UE \ {u} : PgwKept(v)
BY DEF TypeOK, MkbPgwTypeOK, PgwKept

\* The accept loop of a core.
LEMMA PgwAcceptKeeps ==
    ASSUME TypeOK, NEW call \in [Call -> CallState], Calls(call), NEW k \in PgwCore, NEW c \in Call,
           PgwAccept(k, c), PgwAlone
    PROVE  CallInv'
<1>1. PICK x \in CallState : x = call[c]
    OBVIOUS
<1>2. /\ link["s5"][c].state = "syn" /\ link' = Accept(link, "s5", c, k)
      /\ pgw_fd' = pgw_fd \cup {c}
      /\ UNCHANGED <<exited, pgw_job, pgw_s5_id, sgi_id, pgw_ctx>>
    BY DEF PgwAccept
<1>3. S5OK(c[1], link["s5"][c], x) /\ x.at \in 0 .. 44
    BY <1>1, Held, StateFacts
<1>4. x.at \in 15 .. 16
  <2>1. "syn" \in S5State(x.at)
    BY <1>2, <1>3 DEF S5OK
  <2> QED
    BY <1>3, <2>1 DEF S5State
<1>5. /\ c[1] \in UE /\ PgwOK(c[1], x) /\ pgw_fd \subseteq Call
  <2>1. call[c].at \in 1 .. 37
    BY <1>1, <1>4
  <2> QED
    BY <1>1, <2>1, PgwHeld
<1>6. PICK q : q = [link["s5"][c] EXCEPT !.state = "open", !.core = k]
    OBVIOUS
<1>7. link["s5"][c] \in Link /\ "s5" \in Interface /\ link \in Links
    BY LinkFacts
<1>8. Put(link, link', "s5", c, q)
    BY <1>2, <1>6, <1>7, AcceptPuts DEF Core
<1>9. /\ q.state = "open" /\ q.core = k /\ q.gone = link["s5"][c].gone
      /\ q.up = link["s5"][c].up /\ q.down = link["s5"][c].down
    BY <1>6, <1>7 DEF Link
<1>10. S5OK(c[1], q, x)
  <2>1. "open" \in S5State(x.at)
    BY <1>4 DEF S5State
  <2> QED
    BY <1>3, <1>9, <2>1 DEF S5OK
<1>11. link'["s5"][c] = q
    BY <1>8 DEF Put
<1>12. PgwLinks(c, x, link')
    BY <1>8, <1>10, <1>11 DEF Put, PgwLinks
<1>13. PgwStep(call, c, x)
  <2>1. <<call[c].at, x.at>> \in PgwMoves
    BY <1>1, <1>4 DEF PgwMoves
  <2>2. x.at \notin PgwWorks
    BY <1>4 DEF PgwWorks
  <2>3. PgwJobGoes(call, c, x)
    BY <1>1, <1>2, <2>2 DEF PgwJobGoes
  <2>4. /\ pgw_fd' \subseteq Call /\ (c \in pgw_fd' <=> link'["s5"][c].state = "open")
        /\ \A d \in Call \ {c} : d \in pgw_fd' <=> d \in pgw_fd
    BY <1>2, <1>5, <1>9, <1>11
  <2> QED
    BY <1>1, <1>2, <1>5, <2>1, <2>3, <2>4, PgwTablesStay DEF PgwStep
<1>14. PgwOK(c[1], x)'
  <2>1. sgw_ctx' = sgw_ctx
    BY DEF PgwAlone, sgwVars
  <2> QED
    BY <1>2, <1>5, <2>1, PgwStays DEF PgwKept
<1> QED
    BY <1>12, <1>13, <1>14, PgwGoes

\* The end of the stream.
LEMMA PgwHungUpKeeps ==
    ASSUME TypeOK, NEW call \in [Call -> CallState], Calls(call), NEW k \in PgwCore, NEW c \in Call,
           PgwHungUp(k, c), PgwAlone
    PROVE  CallInv'
<1>1. PICK x \in CallState : x = call[c]
    OBVIOUS
<1>2. /\ link["s5"][c].gone
      /\ link' = ServerClose(link, "s5", c)
      /\ pgw_fd' = pgw_fd \ {c}
      /\ UNCHANGED <<exited, pgw_job, pgw_s5_id, sgi_id, pgw_ctx>>
    BY DEF PgwHungUp, Ended
<1>3. /\ c[1] \in UE /\ S1OK(c[1], link["s1"][c], x) /\ PlaceOK(c, x)
      /\ S6aOK(c[1], link["s6a"][c], x) /\ S11OK(c[1], link["s11"][c], x)
      /\ S5OK(c[1], link["s5"][c], x) /\ FdsOK(c, x)
    BY <1>1, Held
<1>4. x.at = 43
    BY <1>2, <1>3 DEF S5OK
<1>5. PICK y \in CallState : y.at = 44 /\ y.id = x.id
  <2>1. 44 \in 0 .. 44 /\ x.id \in {0} \cup UeId
    BY StateFacts
  <2> QED
    BY <2>1, StateMade
<1>6. link["s5"][c] \in Link /\ link \in Links /\ "s5" \in Interface
    BY LinkFacts
<1>7. Put(link, link', "s5", c, NoLink)
  <2>1. Put(link, link', "s5", c, IF link["s5"][c].gone THEN NoLink
                                  ELSE [link["s5"][c] EXCEPT !.state = "shut", !.core = None])
    BY <1>2, <1>6, ServerClosePuts
  <2> QED
    BY <1>2, <2>1
<1>8. /\ link'["s1"][c] = link["s1"][c] /\ link'["s6a"][c] = link["s6a"][c]
      /\ link'["s11"][c] = link["s11"][c] /\ link'["s5"][c] = NoLink /\ link' \in Links
    BY <1>7 DEF Put, Interface
<1>9. LinksOK(c, y)'
  <2>1. S1OK(c[1], link["s1"][c], y)
    BY <1>3, <1>4, <1>5 DEF S1OK, S1State, S1Up, S1Down
  <2>2. S6aOK(c[1], link["s6a"][c], y)
    BY <1>3, <1>4, <1>5, S6aIdle
  <2>3. S11OK(c[1], link["s11"][c], y)
    BY <1>3, <1>4, <1>5 DEF S11OK, S11State, S11Up, S11Down
  <2>4. S5OK(c[1], NoLink, y)
    BY <1>5 DEF S5OK, NoLink, S5State, S5Up, S5Down
  <2> QED
    BY <1>8, <2>1, <2>2, <2>3, <2>4 DEF LinksOK
<1>10. FdsOK(c, y)'
  <2>1. MmeEntry(c[1], x) = None /\ MmeEntry(c[1], y) = None
    BY <1>4, <1>5 DEF MmeEntry, FromRan, MmeWait
  <2>2. PICK s : s = link["s11"][c].state
    OBVIOUS
  <2>3. SgwFdEntry(c[1], s, x.at) = None /\ SgwFdEntry(c[1], s, y.at) = None
    BY <1>4, <1>5 DEF SgwFdEntry, FromMme, SgwWait
  <2>4. mme_fd' = mme_fd /\ sgw_fd' = sgw_fd /\ c \notin pgw_fd'
    BY <1>2 DEF PgwAlone, mmeVars, sgwVars
  <2>5. mme_fd[c] = None
    BY <1>3, <2>1 DEF FdsOK
  <2>6. sgw_fd[c] = None
    BY <1>3, <2>2, <2>3 DEF FdsOK
  <2>7. NoLink.state # "open"
    BY DEF NoLink
  <2>8. link'["s11"][c].state = s
    BY <1>8, <2>2
  <2> QED
    BY <1>8, <2>1, <2>3, <2>4, <2>5, <2>6, <2>7, <2>8 DEF FdsOK
<1>11. PlaceOK(c, y)'
  <2>1. <<x.at, y.at>> \in {<<39, 40>>, <<41, 42>>, <<42, 43>>, <<43, 44>>}
    BY <1>4, <1>5
  <2>2. hung' = hung /\ mme_srcaddr' = mme_srcaddr /\ rounds' = rounds
    BY DEF PgwAlone, ranVars, mmeVars
  <2> QED
    BY <1>3, <1>5, <2>1, <2>2, TrailPlace
<1>12. WorkOK(c, y)'
    BY <1>5 DEF WorkOK, SgwWorks, PgwWorks
<1>13. OthersKept(c)
    BY <1>2, <1>7 DEF OthersKept, Put, PgwAlone, ranVars, mmeVars, sgwVars
<1>14. TypeOK'
  <2>1. MkbBaseTypeOK'
    BY <1>2, <1>8 DEF TypeOK, MkbBaseTypeOK, Links
  <2>2. MkbRanTypeOK' /\ MkbMmeTypeOK' /\ MkbSgwTypeOK'
    BY DEF TypeOK, MkbRanTypeOK, MkbMmeTypeOK, MkbSgwTypeOK, PgwAlone, ranVars, mmeVars, sgwVars
  <2>3. MkbPgwTypeOK'
    BY <1>2 DEF TypeOK, MkbPgwTypeOK
  <2> QED
    BY <2>1, <2>2, <2>3 DEF TypeOK
<1>15. CallOK(c, y)'
    BY <1>9, <1>10, <1>11, <1>12 DEF CallOK
<1>16. <<call[c].at, y.at>> \in {<<39, 40>>, <<41, 42>>, <<42, 43>>, <<43, 44>>} /\ y.id = call[c].id
    BY <1>1, <1>4, <1>5
<1> QED
    BY <1>2, <1>13, <1>14, <1>15, <1>16, Trails DEF PgwAlone, ranVars, mmeVars, sgwVars

\* A create session request, up to s5_id.
LEMMA PgwCreateKeeps ==
    ASSUME Addressable, TypeOK, NEW call \in [Call -> CallState], Calls(call), NEW k \in PgwCore, NEW c \in Call,
           PgwCreate(k, c), PgwAlone
    PROVE  CallInv'
<1>1. PICK x \in CallState : x = call[c]
    OBVIOUS
<1>2. /\ x.at = 16 /\ link["s5"][c].up = S5Up(c[1], x.at) /\ link["s5"][c].core = k
      /\ link["s5"][c].state = "open" /\ pgw_job[k] = None
  <2>1. PgwRequest(k, c, 1)
    BY DEF PgwCreate
  <2>2. /\ <<1, call[c].at>> \in {<<1, 16>>, <<4, 29>>}
        /\ link["s5"][c].up = S5Up(c[1], call[c].at) /\ link["s5"][c].core = k
        /\ link["s5"][c].state = "open" /\ pgw_job[k] = None
    BY <2>1, PgwRequestFacts
  <2> QED
    BY <1>1, <2>2
<1>3. link["s5"][c].up.teid = c[1] /\ link["s5"][c].up.imsi = c[1]
  <2>1. link["s5"][c].up = [Msg(1) EXCEPT !.teid = c[1], !.imsi = c[1]]
    BY <1>2 DEF S5Up
  <2> QED
    BY <2>1 DEF Msg
<1>4. PICK y \in CallState : y.at = 17 /\ y.id = x.id
  <2>1. 17 \in 0 .. 44 /\ x.id \in {0} \cup UeId
    BY StateFacts
  <2> QED
    BY <2>1, StateMade
<1>5. /\ pgw_s5_id' = [pgw_s5_id EXCEPT ![c[1]] = c[1]]
      /\ pgw_job' = [pgw_job EXCEPT ![k] = PgwJobOf(c, y.at)]
      /\ link' = ReadUp(link, "s5", c)
      /\ UNCHANGED <<exited, pgw_fd, sgi_id, pgw_ctx>>
  <2>1. PgwJobOf(c, y.at) = [call |-> c, do |-> "create", at |-> "sgi_id", teid |-> c[1],
                             imsi |-> c[1], ip |-> c[1]]
    BY <1>4 DEF PgwJobOf
  <2>2. IpAddr(c[1]) = c[1]
    BY CallFacts DEF Addressable, IpAddr
  <2> QED
    BY <1>3, <2>1, <2>2 DEF PgwCreate
<1>6. /\ c[1] \in UE /\ S5OK(c[1], link["s5"][c], x) /\ PgwOK(c[1], x)
      /\ pgw_fd \subseteq Call /\ (c \in pgw_fd <=> link["s5"][c].state = "open")
      /\ pgw_s5_id \in [UE -> Teid] /\ sgi_id \in [Teid -> Teid]
      /\ pgw_ctx \in [UE -> PgwContext \cup {None}]
  <2>1. call[c].at \in 1 .. 37
    BY <1>1, <1>2
  <2> QED
    BY <1>1, <2>1, PgwHeld
<1>7. link["s5"][c] \in Link /\ "s5" \in Interface /\ link \in Links
    BY LinkFacts
<1>8. PICK q : q = [link["s5"][c] EXCEPT !.up = None]
    OBVIOUS
<1>9. Put(link, link', "s5", c, q)
    BY <1>5, <1>7, <1>8, ReadUpPuts
<1>10. /\ q.state = link["s5"][c].state /\ q.core = k /\ q.gone = link["s5"][c].gone
       /\ q.up = None /\ q.down = link["s5"][c].down
    BY <1>2, <1>7, <1>8 DEF Link
<1>11. link'["s5"][c] = q
    BY <1>9 DEF Put
<1>12. PgwLinks(c, y, link')
  <2>1. S5OK(c[1], q, y)
    <3>1. "open" \in S5State(y.at)
      BY <1>4 DEF S5State
    <3>2. S5Up(c[1], y.at) = None /\ S5Down(c[1], y.at) = None /\ S5Down(c[1], x.at) = None
      BY <1>2, <1>4 DEF S5Up, S5Down
    <3> QED
      BY <1>2, <1>4, <1>6, <1>10, <3>1, <3>2 DEF S5OK
  <2> QED
    BY <1>9, <1>11, <2>1 DEF Put, PgwLinks
<1>13. /\ pgw_s5_id' \in [UE -> Teid] /\ pgw_s5_id'[c[1]] = c[1]
       /\ \A v \in UE \ {c[1]} : PgwKept(v)
    BY <1>5, <1>6, TeidFacts DEF PgwKept
<1>14. PgwStep(call, c, y)
  <2>1. <<call[c].at, y.at>> \in PgwMoves /\ y.id = call[c].id
    BY <1>1, <1>2, <1>4 DEF PgwMoves
  <2>2. y.at \in PgwWorks
    BY <1>4 DEF PgwWorks
  <2>3. PgwJobGoes(call, c, y)
    BY <1>2, <1>5, <1>10, <1>11, <2>2 DEF PgwJobGoes
  <2>4. /\ pgw_fd' \subseteq Call /\ (c \in pgw_fd' <=> link'["s5"][c].state = "open")
        /\ \A d \in Call \ {c} : d \in pgw_fd' <=> d \in pgw_fd
    BY <1>5, <1>6, <1>10, <1>11
  <2> QED
    BY <1>5, <1>6, <1>13, <2>1, <2>3, <2>4 DEF PgwStep
<1>15. PgwOK(c[1], y)'
  <2>1. PgwEntryOf(c[1], {17, 18, 30, 31}, y.at) = c[1]
    BY <1>4 DEF PgwEntryOf
  <2>2. PgwEntryOf(c[1], {18, 30}, y.at) = PgwEntryOf(c[1], {18, 30}, x.at)
    BY <1>2, <1>4 DEF PgwEntryOf
  <2>3. sgw_ctx' = sgw_ctx /\ pgw_ctx' = pgw_ctx /\ sgi_id' = sgi_id
    BY <1>5 DEF PgwAlone, sgwVars
  <2>4. sgi_id[c[1]] = PgwEntryOf(c[1], {18, 30}, y.at)
        /\ (pgw_ctx[c[1]] # None => pgw_ctx[c[1]] = [teid |-> c[1], ip_addr |-> c[1]]
                                   /\ sgw_ctx[c[1]] # None)
    BY <1>6, <2>2 DEF PgwOK
  <2> QED
    BY <1>4, <1>13, <2>1, <2>3, <2>4 DEF PgwOK, PgwEntryOf
<1> QED
    BY <1>12, <1>14, <1>15, PgwGoes

\* A core goes on with the job of a call: sgi_id.
LEMMA PgwSectionKeeps ==
    ASSUME TypeOK, NEW call \in [Call -> CallState], Calls(call), NEW k \in PgwCore,
           PgwSection(k), PgwAlone
    PROVE  CallInv'
<1>1. /\ pgw_job[k] # None /\ pgw_job[k].at = "sgi_id"
      /\ LET j == pgw_job[k]
         IN  /\ sgi_id' = [sgi_id EXCEPT ![j.ip] = PgwEntry(j)]
             /\ pgw_job' = [pgw_job EXCEPT ![k].at = IF j.do = "create" THEN "ue_ctx" ELSE "s5_id"]
      /\ link' = link /\ exited' = exited /\ UNCHANGED <<pgw_fd, pgw_s5_id, pgw_ctx>>
    BY DEF PgwSection, linkVars
<1>2. PICK c \in Call : /\ call[c].at \in PgwWorks /\ link["s5"][c].core = k
                        /\ pgw_job[k] = PgwJobOf(c, call[c].at)
    BY <1>1, PgwJobHeld
<1>3. PICK x \in CallState : x = call[c]
    OBVIOUS
<1>4. x.at \in PgwWorks /\ pgw_job[k] = PgwJobOf(c, x.at)
    BY <1>2, <1>3
<1>5. /\ pgw_job[k].call = c /\ pgw_job[k].imsi = c[1] /\ pgw_job[k].ip = c[1]
      /\ x.at \in {17, 30}
      /\ x.at = 17 => pgw_job[k].do = "create"
      /\ x.at = 30 => pgw_job[k].do = "remove"
  <2>1. PICK a \in PgwWorks : a = x.at
    BY <1>4
  <2>2. /\ PgwJobOf(c, a).call = c /\ PgwJobOf(c, a).imsi = c[1] /\ PgwJobOf(c, a).ip = c[1]
        /\ a \in 17 .. 18 => PgwJobOf(c, a).do = "create"
        /\ a \in 30 .. 31 => PgwJobOf(c, a).do = "remove"
        /\ a \in {17, 30} => PgwJobOf(c, a).at = "sgi_id"
        /\ a = 18 => PgwJobOf(c, a).at = "ue_ctx"
        /\ a = 31 => PgwJobOf(c, a).at = "s5_id"
    BY PgwJobMade
  <2>3. a \in {17, 30}
    BY <1>1, <1>4, <2>1, <2>2 DEF PgwWorks
  <2>4. a = 17 => a \in 17 .. 18
    OBVIOUS
  <2>5. a = 30 => a \in 30 .. 31
    OBVIOUS
  <2> QED
    BY <1>4, <2>1, <2>2, <2>3, <2>4, <2>5, Zenon
<1>6. PICK n : n = IF x.at = 17 THEN c[1] ELSE 0
    OBVIOUS
<1>7. sgi_id' = [sgi_id EXCEPT ![c[1]] = n]
  <2>1. PgwEntry(pgw_job[k]) = n
    BY <1>5, <1>6 DEF PgwEntry
  <2> QED
    BY <1>1, <1>5, <2>1
<1>8. PICK y \in CallState : y.at = x.at + 1 /\ y.id = x.id
  <2>1. x.at + 1 \in 0 .. 44 /\ x.id \in {0} \cup UeId
    BY <1>5, StateFacts
  <2> QED
    BY <2>1, StateMade
<1>9. pgw_job' = [pgw_job EXCEPT ![k] = PgwJobOf(c, y.at)]
  <2>1. PICK t : t = IF x.at = 17 THEN "ue_ctx" ELSE "s5_id"
    OBVIOUS
  <2>2. pgw_job' = [pgw_job EXCEPT ![k].at = t]
    BY <1>1, <1>5, <2>1
  <2>3. PICK j : j = [pgw_job[k] EXCEPT !.at = t]
    OBVIOUS
  <2>4. pgw_job' = [pgw_job EXCEPT ![k] = j]
    BY <2>2, <2>3 DEF TypeOK, MkbPgwTypeOK
  <2>5. j = PgwJobOf(c, y.at)
    BY <1>4, <1>5, <1>8, <2>1, <2>3 DEF PgwJobOf
  <2> QED
    BY <2>4, <2>5
<1>10. /\ c[1] \in UE /\ S5OK(c[1], link["s5"][c], x) /\ PgwOK(c[1], x)
       /\ pgw_fd \subseteq Call /\ (c \in pgw_fd <=> link["s5"][c].state = "open")
       /\ pgw_s5_id \in [UE -> Teid] /\ sgi_id \in [Teid -> Teid]
       /\ pgw_ctx \in [UE -> PgwContext \cup {None}]
  <2>1. call[c].at \in 1 .. 37
    BY <1>3, <1>5
  <2> QED
    BY <1>3, <2>1, PgwHeld
<1>11. PgwLinks(c, y, link')
  <2>1. S5OK(c[1], link["s5"][c], y)
    <3>1. S5State(x.at) = S5State(y.at) /\ x.at # 43 /\ y.at # 43
      BY <1>5, <1>8 DEF S5State
    <3>2. S5Up(c[1], y.at) = S5Up(c[1], x.at) /\ S5Down(c[1], y.at) = S5Down(c[1], x.at)
      BY <1>5, <1>8 DEF S5Up, S5Down
    <3> QED
      BY <1>10, <3>1, <3>2 DEF S5OK
  <2> QED
    BY <1>1, <2>1, LinkFacts DEF PgwLinks
<1>12. /\ sgi_id' \in [Teid -> Teid] /\ sgi_id'[c[1]] = n
       /\ \A v \in UE \ {c[1]} : PgwKept(v)
  <2>1. n \in Teid /\ c[1] \in Teid /\ UE \subseteq Teid
    BY <1>6, <1>10, TeidFacts
  <2>2. sgi_id' \in [Teid -> Teid] /\ sgi_id'[c[1]] = n
    BY <1>7, <1>10, <2>1
  <2>3. \A v \in UE \ {c[1]} : sgi_id'[v] = sgi_id[v]
    BY <1>7, <1>10, <2>1
  <2> QED
    BY <1>1, <2>2, <2>3 DEF PgwKept
<1>13. PgwStep(call, c, y)
  <2>1. <<call[c].at, y.at>> \in PgwMoves /\ y.id = call[c].id
    BY <1>3, <1>5, <1>8 DEF PgwMoves
  <2>2. y.at \in PgwWorks
    BY <1>5, <1>8 DEF PgwWorks
  <2>3. PgwJobGoes(call, c, y)
    BY <1>1, <1>2, <1>5, <1>9, <2>2 DEF PgwJobGoes
  <2>4. /\ pgw_fd' \subseteq Call /\ (c \in pgw_fd' <=> link'["s5"][c].state = "open")
        /\ \A d \in Call \ {c} : d \in pgw_fd' <=> d \in pgw_fd
    BY <1>1, <1>10
  <2>5. pgw_s5_id' = pgw_s5_id /\ pgw_ctx' = pgw_ctx
    BY <1>1
  <2> QED
    BY <1>1, <1>10, <1>12, <2>1, <2>3, <2>4, <2>5 DEF PgwStep
<1>14. PgwOK(c[1], y)'
  <2>1. PgwEntryOf(c[1], {17, 18, 30, 31}, y.at) = c[1] /\ PgwEntryOf(c[1], {17, 18, 30, 31}, x.at) = c[1]
    BY <1>5, <1>8 DEF PgwEntryOf
  <2>2. x.at = 30 => pgw_ctx[c[1]] = None
    BY <1>10 DEF PgwOK
  <2>3. PgwEntryOf(c[1], {18, 30}, y.at) = n
    BY <1>5, <1>6, <1>8, <2>2 DEF PgwEntryOf
  <2>4. sgw_ctx' = sgw_ctx /\ pgw_ctx' = pgw_ctx /\ pgw_s5_id' = pgw_s5_id
    BY <1>1 DEF PgwAlone, sgwVars
  <2>5. pgw_s5_id[c[1]] = PgwEntryOf(c[1], {17, 18, 30, 31}, y.at)
        /\ (pgw_ctx[c[1]] # None => pgw_ctx[c[1]] = [teid |-> c[1], ip_addr |-> c[1]]
                                   /\ sgw_ctx[c[1]] # None)
    BY <1>10, <2>1 DEF PgwOK
  <2>6. y.at \notin (19 .. 29) \cup (41 .. 44) /\ (y.at \in 30 .. 38 => pgw_ctx[c[1]] = None)
    BY <1>5, <1>8, <2>2
  <2> QED
    BY <1>12, <2>3, <2>4, <2>5, <2>6 DEF PgwOK, PgwEntryOf
<1> QED
    BY <1>11, <1>13, <1>14, PgwGoes

\* The end of a create: the context and the answer.
LEMMA PgwCreatedKeeps ==
    ASSUME TypeOK, NEW call \in [Call -> CallState], Calls(call), NEW k \in PgwCore,
           PgwCreated(k), PgwAlone
    PROVE  CallInv'
<1>1. /\ pgw_job[k] # None /\ pgw_job[k].at = "ue_ctx"
      /\ LET j == pgw_job[k]
         IN  /\ pgw_ctx' = [pgw_ctx EXCEPT ![j.imsi] = [teid |-> j.teid, ip_addr |-> j.ip]]
             /\ link' = SendDown(link, "s5", j.call, [Msg(1) EXCEPT !.teid = j.teid, !.ip = j.ip])
      /\ pgw_job' = [pgw_job EXCEPT ![k] = None]
      /\ UNCHANGED <<exited, pgw_fd, pgw_s5_id, sgi_id>>
    BY DEF PgwCreated
<1>2. PICK c \in Call : /\ call[c].at \in PgwWorks /\ link["s5"][c].core = k
                        /\ pgw_job[k] = PgwJobOf(c, call[c].at)
    BY <1>1, PgwJobHeld
<1>3. PICK x \in CallState : x = call[c]
    OBVIOUS
<1>4. x.at \in PgwWorks /\ pgw_job[k] = PgwJobOf(c, x.at)
    BY <1>2, <1>3
<1>5. /\ pgw_job[k].call = c /\ pgw_job[k].teid = c[1] /\ pgw_job[k].imsi = c[1]
      /\ pgw_job[k].ip = c[1] /\ x.at = 18
  <2>1. PICK a \in PgwWorks : a = x.at
    BY <1>4
  <2>2. /\ PgwJobOf(c, a).call = c /\ PgwJobOf(c, a).teid = c[1] /\ PgwJobOf(c, a).imsi = c[1]
        /\ PgwJobOf(c, a).ip = c[1]
        /\ a \in {17, 30} => PgwJobOf(c, a).at = "sgi_id"
        /\ a = 18 => PgwJobOf(c, a).at = "ue_ctx"
        /\ a = 31 => PgwJobOf(c, a).at = "s5_id"
    BY PgwJobMade
  <2>3. a = 18
    BY <1>1, <1>4, <2>1, <2>2 DEF PgwWorks
  <2> QED
    BY <1>4, <2>1, <2>2, <2>3, Zenon
<1>6. PICK y \in CallState : y.at = 19 /\ y.id = x.id
  <2>1. 19 \in 0 .. 44 /\ x.id \in {0} \cup UeId
    BY StateFacts
  <2> QED
    BY <2>1, StateMade
<1>7. /\ c[1] \in UE /\ S5OK(c[1], link["s5"][c], x) /\ PgwOK(c[1], x) /\ SgwOK(c[1], x)
      /\ pgw_fd \subseteq Call /\ (c \in pgw_fd <=> link["s5"][c].state = "open")
      /\ pgw_s5_id \in [UE -> Teid] /\ sgi_id \in [Teid -> Teid]
      /\ pgw_ctx \in [UE -> PgwContext \cup {None}]
  <2>1. call[c].at \in 1 .. 37
    BY <1>3, <1>5
  <2> QED
    BY <1>3, <2>1, PgwHeld
<1>8. PICK ctx : ctx = [teid |-> c[1], ip_addr |-> c[1]]
    OBVIOUS
<1>9. ctx \in PgwContext /\ ctx # None
  <2>1. ctx \in PgwContext
    BY <1>7, <1>8, TeidFacts DEF PgwContext
  <2> QED
    BY <2>1, Constants
<1>10. PICK m : m = [Msg(1) EXCEPT !.teid = c[1], !.ip = c[1]]
    OBVIOUS
<1>11. m \in Message
  <2>1. m = [type |-> 1, id |-> 0, imsi |-> 0, teid |-> c[1], ip |-> c[1]]
    BY <1>10 DEF Msg
  <2> QED
    BY <1>7, <2>1, TeidFacts DEF Message
<1>12. pgw_ctx' = [pgw_ctx EXCEPT ![c[1]] = ctx] /\ link' = SendDown(link, "s5", c, m)
    BY <1>1, <1>5, <1>8, <1>10
<1>13. link["s5"][c] \in Link /\ "s5" \in Interface /\ link \in Links
    BY LinkFacts
<1>14. PICK q : q = [link["s5"][c] EXCEPT !.down = m]
    OBVIOUS
<1>15. Put(link, link', "s5", c, q)
    BY <1>11, <1>12, <1>13, <1>14, SendDownPuts
<1>16. /\ q.state = link["s5"][c].state /\ q.core = link["s5"][c].core
       /\ q.gone = link["s5"][c].gone /\ q.up = link["s5"][c].up /\ q.down = m
    BY <1>13, <1>14 DEF Link
<1>17. link'["s5"][c] = q
    BY <1>15 DEF Put
<1>18. PgwLinks(c, y, link')
  <2>1. S5OK(c[1], q, y)
    <3>1. S5State(x.at) = S5State(y.at) /\ x.at # 43 /\ y.at # 43
      BY <1>5, <1>6 DEF S5State
    <3>2. S5Up(c[1], y.at) = S5Up(c[1], x.at) /\ S5Down(c[1], y.at) = m
      BY <1>5, <1>6, <1>10 DEF S5Up, S5Down
    <3>3. q.up = S5Up(c[1], y.at) /\ q.down = S5Down(c[1], y.at)
      BY <1>7, <1>16, <3>2 DEF S5OK
    <3> QED
      BY <1>7, <1>16, <3>1, <3>3, S5Served
  <2> QED
    BY <1>15, <1>17, <2>1 DEF Put, PgwLinks
<1>19. /\ pgw_ctx' \in [UE -> PgwContext \cup {None}] /\ pgw_ctx'[c[1]] = ctx
       /\ \A v \in UE \ {c[1]} : PgwKept(v)
    BY <1>1, <1>7, <1>9, <1>12 DEF PgwKept
<1>20. PgwStep(call, c, y)
  <2>1. <<call[c].at, y.at>> \in PgwMoves /\ y.id = call[c].id
    BY <1>3, <1>5, <1>6 DEF PgwMoves
  <2>2. y.at \notin PgwWorks
    BY <1>6 DEF PgwWorks
  <2>3. PgwJobGoes(call, c, y)
    BY <1>1, <1>2, <1>5, <2>2 DEF PgwJobGoes
  <2>4. /\ pgw_fd' \subseteq Call /\ (c \in pgw_fd' <=> link'["s5"][c].state = "open")
        /\ \A d \in Call \ {c} : d \in pgw_fd' <=> d \in pgw_fd
    BY <1>1, <1>7, <1>16, <1>17
  <2>5. pgw_s5_id' = pgw_s5_id /\ sgi_id' = sgi_id
    BY <1>1
  <2> QED
    BY <1>1, <1>7, <1>19, <2>1, <2>3, <2>4, <2>5 DEF PgwStep
<1>21. PgwOK(c[1], y)'
  <2>1. pgw_s5_id[c[1]] = c[1] /\ sgi_id[c[1]] = c[1]
    <3>1. PgwEntryOf(c[1], {17, 18, 30, 31}, x.at) = c[1] /\ PgwEntryOf(c[1], {18, 30}, x.at) = c[1]
      BY <1>5 DEF PgwEntryOf
    <3> QED
      BY <1>7, <3>1 DEF PgwOK
  <2>2. sgw_ctx' = sgw_ctx /\ sgi_id' = sgi_id /\ pgw_s5_id' = pgw_s5_id
    BY <1>1 DEF PgwAlone, sgwVars
  <2>3. sgw_ctx[c[1]] # None
    BY <1>5, <1>7 DEF SgwOK
  <2> QED
    BY <1>6, <1>8, <1>9, <1>19, <2>1, <2>2, <2>3 DEF PgwOK, PgwEntryOf
<1> QED
    BY <1>18, <1>20, <1>21, PgwGoes

\* Detach, up to ue_ctx: the subscriber is found.
LEMMA PgwDetachKeeps ==
    ASSUME TypeOK, NEW call \in [Call -> CallState], Calls(call), NEW k \in PgwCore, NEW c \in Call,
           PgwDetach(k, c), PgwAlone
    PROVE  CallInv'
<1>1. PICK x \in CallState : x = call[c]
    OBVIOUS
<1>2. /\ x.at = 29 /\ link["s5"][c].up = S5Up(c[1], x.at) /\ link["s5"][c].core = k
      /\ link["s5"][c].state = "open" /\ pgw_job[k] = None
  <2>1. PgwRequest(k, c, 4)
    BY DEF PgwDetach
  <2>2. /\ <<4, call[c].at>> \in {<<1, 16>>, <<4, 29>>}
        /\ link["s5"][c].up = S5Up(c[1], call[c].at) /\ link["s5"][c].core = k
        /\ link["s5"][c].state = "open" /\ pgw_job[k] = None
    BY <2>1, PgwRequestFacts
  <2> QED
    BY <1>1, <2>2
<1>3. link["s5"][c].up.teid = c[1]
  <2>1. link["s5"][c].up = [Msg(4) EXCEPT !.teid = c[1]]
    BY <1>2 DEF S5Up
  <2> QED
    BY <2>1 DEF Msg
<1>4. /\ c[1] \in UE /\ c[1] # 0 /\ S5OK(c[1], link["s5"][c], x) /\ PgwOK(c[1], x)
      /\ pgw_fd \subseteq Call /\ (c \in pgw_fd <=> link["s5"][c].state = "open")
      /\ pgw_s5_id \in [UE -> Teid] /\ sgi_id \in [Teid -> Teid]
      /\ pgw_ctx \in [UE -> PgwContext \cup {None}]
  <2>1. call[c].at \in 1 .. 37
    BY <1>1, <1>2
  <2> QED
    BY <1>1, <2>1, PgwHeld
<1>5. /\ pgw_ctx[c[1]] # None /\ pgw_ctx[c[1]] = [teid |-> c[1], ip_addr |-> c[1]]
      /\ pgw_s5_id[c[1]] = c[1] /\ sgi_id[c[1]] = c[1]
  <2>1. pgw_ctx[c[1]] # None /\ pgw_ctx[c[1]] = [teid |-> c[1], ip_addr |-> c[1]]
    BY <1>2, <1>4 DEF PgwOK
  <2>2. PgwEntryOf(c[1], {17, 18, 30, 31}, x.at) = c[1] /\ PgwEntryOf(c[1], {18, 30}, x.at) = c[1]
    BY <2>1 DEF PgwEntryOf
  <2> QED
    BY <1>4, <2>1, <2>2 DEF PgwOK
<1>6. PICK y \in CallState : y.at = 30 /\ y.id = x.id
  <2>1. 30 \in 0 .. 44 /\ x.id \in {0} \cup UeId
    BY StateFacts
  <2> QED
    BY <2>1, StateMade, ZenonT(40)
<1>7. /\ pgw_ctx' = [pgw_ctx EXCEPT ![c[1]] = None]
      /\ pgw_job' = [pgw_job EXCEPT ![k] = PgwJobOf(c, y.at)]
      /\ link' = ReadUp(link, "s5", c)
      /\ UNCHANGED <<exited, pgw_fd, pgw_s5_id, sgi_id>>
  <2>1. PgwJobOf(c, y.at) = [call |-> c, do |-> "remove", at |-> "sgi_id", teid |-> c[1],
                             imsi |-> c[1], ip |-> c[1]]
    BY <1>6 DEF PgwJobOf
  <2>2. /\ pgw_ctx' = [pgw_ctx EXCEPT ![c[1]] = None]
        /\ pgw_job' = [pgw_job EXCEPT
              ![k] = [call |-> c, do |-> "remove", at |-> "sgi_id",
                      teid |-> pgw_ctx[c[1]].teid, imsi |-> c[1], ip |-> pgw_ctx[c[1]].ip_addr]]
        /\ link' = ReadUp(link, "s5", c)
        /\ UNCHANGED <<exited, pgw_fd, pgw_s5_id, sgi_id>>
    BY <1>3, <1>4, <1>5 DEF PgwDetach
  <2>3. pgw_ctx[c[1]].teid = c[1] /\ pgw_ctx[c[1]].ip_addr = c[1]
    BY <1>5
  <2> QED
    BY <2>1, <2>2, <2>3
<1>8. link["s5"][c] \in Link /\ "s5" \in Interface /\ link \in Links
    BY LinkFacts
<1>9. PICK q : q = [link["s5"][c] EXCEPT !.up = None]
    OBVIOUS
<1>10. Put(link, link', "s5", c, q)
    BY <1>7, <1>8, <1>9, ReadUpPuts
<1>11. /\ q.state = link["s5"][c].state /\ q.core = k /\ q.gone = link["s5"][c].gone
       /\ q.up = None /\ q.down = link["s5"][c].down
    BY <1>2, <1>8, <1>9 DEF Link
<1>12. link'["s5"][c] = q
    BY <1>10 DEF Put
<1>13. PgwLinks(c, y, link')
  <2>1. S5OK(c[1], q, y)
    <3>1. "open" \in S5State(y.at)
      BY <1>6 DEF S5State
    <3>2. S5Up(c[1], y.at) = None /\ S5Down(c[1], y.at) = None /\ S5Down(c[1], x.at) = None
      BY <1>2, <1>6 DEF S5Up, S5Down
    <3> QED
      BY <1>2, <1>4, <1>6, <1>11, <3>1, <3>2 DEF S5OK
  <2> QED
    BY <1>10, <1>12, <2>1 DEF Put, PgwLinks
<1>14. /\ pgw_ctx' \in [UE -> PgwContext \cup {None}] /\ pgw_ctx'[c[1]] = None
       /\ \A v \in UE \ {c[1]} : PgwKept(v)
    BY <1>4, <1>7 DEF PgwKept
<1>15. PgwStep(call, c, y)
  <2>1. <<call[c].at, y.at>> \in PgwMoves /\ y.id = call[c].id
    BY <1>1, <1>2, <1>6 DEF PgwMoves
  <2>2. y.at \in PgwWorks
    BY <1>6 DEF PgwWorks
  <2>3. PgwJobGoes(call, c, y)
    BY <1>2, <1>7, <1>11, <1>12, <2>2 DEF PgwJobGoes
  <2>4. /\ pgw_fd' \subseteq Call /\ (c \in pgw_fd' <=> link'["s5"][c].state = "open")
        /\ \A d \in Call \ {c} : d \in pgw_fd' <=> d \in pgw_fd
    BY <1>4, <1>7, <1>11, <1>12
  <2> QED
    BY <1>4, <1>7, <1>14, <2>1, <2>3, <2>4 DEF PgwStep
<1>16. PgwOK(c[1], y)'
  <2>1. \A early \in {{17, 18, 30, 31}, {18, 30}} : (PgwEntryOf(c[1], early, y.at))' = c[1]
    BY <1>6 DEF PgwEntryOf
  <2>2. sgi_id' = sgi_id /\ pgw_s5_id' = pgw_s5_id
    BY <1>7
  <2> QED
    BY <1>5, <1>6, <1>14, <2>1, <2>2 DEF PgwOK, PgwEntryOf
<1> QED
    BY <1>13, <1>15, <1>16, PgwGoes

\* The end of a detach: s5_id, the answer and the connection.
LEMMA PgwRemovedKeeps ==
    ASSUME TypeOK, NEW call \in [Call -> CallState], Calls(call), NEW k \in PgwCore,
           PgwRemoved(k), PgwAlone
    PROVE  CallInv'
<1>1. /\ pgw_job[k] # None /\ pgw_job[k].at = "s5_id"
      /\ LET j == pgw_job[k]
         IN  /\ pgw_s5_id' = [t \in UE |-> IF t = j.teid THEN 0 ELSE pgw_s5_id[t]]
             /\ link' = ServerClose(SendDown(link, "s5", j.call, Msg(4)), "s5", j.call)
             /\ pgw_fd' = pgw_fd \ {j.call}
      /\ pgw_job' = [pgw_job EXCEPT ![k] = None]
      /\ UNCHANGED <<exited, sgi_id, pgw_ctx>>
    BY DEF PgwRemoved
<1>2. PICK c \in Call : /\ call[c].at \in PgwWorks /\ link["s5"][c].core = k
                        /\ pgw_job[k] = PgwJobOf(c, call[c].at)
    BY <1>1, PgwJobHeld
<1>3. PICK x \in CallState : x = call[c]
    OBVIOUS
<1>4. x.at \in PgwWorks /\ pgw_job[k] = PgwJobOf(c, x.at)
    BY <1>2, <1>3
<1>5. pgw_job[k].call = c /\ pgw_job[k].teid = c[1] /\ x.at = 31
  <2>1. PICK a \in PgwWorks : a = x.at
    BY <1>4
  <2>2. /\ PgwJobOf(c, a).call = c /\ PgwJobOf(c, a).teid = c[1]
        /\ a \in {17, 30} => PgwJobOf(c, a).at = "sgi_id"
        /\ a = 18 => PgwJobOf(c, a).at = "ue_ctx"
        /\ a = 31 => PgwJobOf(c, a).at = "s5_id"
    BY PgwJobMade
  <2>3. a = 31
    BY <1>1, <1>4, <2>1, <2>2 DEF PgwWorks
  <2> QED
    BY <1>4, <2>1, <2>2, <2>3, Zenon
<1>6. PICK y \in CallState : y.at = 32 /\ y.id = x.id
  <2>1. 32 \in 0 .. 44 /\ x.id \in {0} \cup UeId
    BY StateFacts
  <2> QED
    BY <2>1, StateMade, ZenonT(40)
<1>7. /\ c[1] \in UE /\ S5OK(c[1], link["s5"][c], x) /\ PgwOK(c[1], x)
      /\ pgw_fd \subseteq Call
      /\ pgw_s5_id \in [UE -> Teid] /\ sgi_id \in [Teid -> Teid]
      /\ pgw_ctx \in [UE -> PgwContext \cup {None}]
  <2>1. call[c].at \in 1 .. 37
    BY <1>3, <1>5
  <2> QED
    BY <1>3, <2>1, PgwHeld
<1>8. /\ pgw_s5_id' = [t \in UE |-> IF t = c[1] THEN 0 ELSE pgw_s5_id[t]]
      /\ link' = ServerClose(SendDown(link, "s5", c, Msg(4)), "s5", c)
      /\ pgw_fd' = pgw_fd \ {c}
    BY <1>1, <1>5
<1>9. link["s5"][c] \in Link /\ "s5" \in Interface /\ link \in Links /\ c \in Call
    BY LinkFacts
<1>10. Msg(4) \in Message
    BY TeidFacts DEF Msg, Message
<1>11. PICK q0 : q0 = [link["s5"][c] EXCEPT !.down = Msg(4)]
    OBVIOUS
<1>12. PICK q : q = [q0 EXCEPT !.state = "shut", !.core = None]
    OBVIOUS
<1>13. /\ q.state = "shut" /\ q.core = None /\ q.gone = link["s5"][c].gone
       /\ q.up = link["s5"][c].up /\ q.down = Msg(4)
       /\ q0.gone = link["s5"][c].gone
  <2>1. /\ q0.gone = link["s5"][c].gone /\ q0.up = link["s5"][c].up /\ q0.down = Msg(4)
        /\ q0 \in [state : {"none", "syn", "open", "shut"}, gone : BOOLEAN,
                   core : MmeCore \cup SgwCore \cup PgwCore \cup {None},
                   up : Message \cup {None}, down : Message \cup {None}]
    BY <1>9, <1>10, <1>11 DEF Link
  <2> QED
    BY <1>12, <2>1
<1>14. Put(link, link', "s5", c, q)
  <2>1. PICK r : r = SendDown(link, "s5", c, Msg(4))
    OBVIOUS
  <2>2. Put(link, r, "s5", c, q0)
    BY <1>9, <1>10, <1>11, <2>1, SendDownPuts
  <2>3. r \in Links /\ r["s5"][c] = q0
    BY <2>2 DEF Put
  <2>4. ~r["s5"][c].gone
    BY <1>5, <1>7, <1>13, <2>3 DEF S5OK
  <2>5. link' = ServerClose(r, "s5", c)
    BY <1>8, <2>1
  <2>6. Put(r, link', "s5", c, IF r["s5"][c].gone THEN NoLink
                               ELSE [r["s5"][c] EXCEPT !.state = "shut", !.core = None])
    BY <1>9, <2>3, <2>5, ServerClosePuts
  <2>7. Put(r, link', "s5", c, q)
    BY <1>12, <2>3, <2>4, <2>6
  <2> QED
    BY <2>2, <2>7, PutTwice
<1>15. link'["s5"][c] = q
    BY <1>14 DEF Put
<1>16. PgwLinks(c, y, link')
  <2>1. S5OK(c[1], q, y)
    <3>1. S5Up(c[1], y.at) = None /\ S5Up(c[1], x.at) = None /\ S5Down(c[1], y.at) = Msg(4)
      BY <1>5, <1>6 DEF S5Up, S5Down
    <3>2. S5State(y.at) = {"shut"}
      BY <1>6 DEF S5State
    <3> QED
      BY <1>5, <1>6, <1>7, <1>13, <3>1, <3>2 DEF S5OK
  <2> QED
    BY <1>14, <1>15, <2>1 DEF Put, PgwLinks
<1>17. /\ pgw_s5_id' \in [UE -> Teid] /\ pgw_s5_id'[c[1]] = 0
       /\ \A v \in UE \ {c[1]} : PgwKept(v)
    BY <1>1, <1>7, <1>8, TeidFacts DEF PgwKept
<1>18. PgwStep(call, c, y)
  <2>1. <<call[c].at, y.at>> \in PgwMoves /\ y.id = call[c].id
    BY <1>3, <1>5, <1>6 DEF PgwMoves
  <2>2. y.at \notin PgwWorks
    BY <1>6 DEF PgwWorks
  <2>3. PgwJobGoes(call, c, y)
    BY <1>1, <1>2, <1>5, <2>2 DEF PgwJobGoes
  <2>4. /\ pgw_fd' \subseteq Call /\ (c \in pgw_fd' <=> link'["s5"][c].state = "open")
        /\ \A d \in Call \ {c} : d \in pgw_fd' <=> d \in pgw_fd
    BY <1>7, <1>8, <1>13, <1>15
  <2>5. sgi_id' = sgi_id /\ pgw_ctx' = pgw_ctx
    BY <1>1
  <2> QED
    BY <1>1, <1>7, <1>17, <2>1, <2>3, <2>4, <2>5 DEF PgwStep
<1>19. PgwOK(c[1], y)'
  <2>1. pgw_ctx[c[1]] = None
    BY <1>5, <1>7 DEF PgwOK
  <2>2. sgi_id[c[1]] = 0
    <3>1. PgwEntryOf(c[1], {18, 30}, x.at) = 0
      BY <1>5, <2>1 DEF PgwEntryOf
    <3> QED
      BY <1>7, <3>1 DEF PgwOK
  <2>3. sgi_id' = sgi_id /\ pgw_ctx' = pgw_ctx
    BY <1>1
  <2>4. \A early \in {{17, 18, 30, 31}, {18, 30}} : (PgwEntryOf(c[1], early, y.at))' = 0
    BY <1>6, <2>1, <2>3 DEF PgwEntryOf
  <2> QED
    BY <1>6, <1>17, <2>1, <2>2, <2>3, <2>4 DEF PgwOK, PgwEntryOf
<1> QED
    BY <1>16, <1>18, <1>19, PgwGoes

-----------------------------------------------------------------------------
(* The invariant.                                                          *)

LEMMA CallsStay ==
    ASSUME CallInv, UNCHANGED vars
    PROVE  CallInv'
<1>1. /\ UNCHANGED <<ran_pc, ran_ctx, rounds, hung>>
      /\ UNCHANGED <<mme_fd, mme_removal, mme_srcaddr, ue_count, s1mme_id, mme_ctx>>
      /\ UNCHANGED <<sgw_fd, sgw_job, sgw_id, sgw_ctx>>
      /\ UNCHANGED <<pgw_fd, pgw_job, pgw_s5_id, sgi_id, pgw_ctx>>
      /\ UNCHANGED <<link, exited>>
    BY DEF vars, ranVars, mmeVars, sgwVars, pgwVars, linkVars
<1>2. PICK call \in [Call -> CallState] : TypeOK /\ Calls(call)
    BY DEF CallInv
<1>3. TypeOK'
    BY <1>1, <1>2 DEF TypeOK, MkbBaseTypeOK, MkbRanTypeOK, MkbMmeTypeOK, MkbSgwTypeOK, MkbPgwTypeOK
<1>4. \A d \in Call : CallOK(d, call[d])'
    BY <1>1, <1>2 DEF Calls, CallOK, PlaceOK, LinksOK, FdsOK, WorkOK
<1>5. \A v \in UE : UserOK(v, Last(call, v))'
  <2> SUFFICES ASSUME NEW v \in UE PROVE UserOK(v, Last(call, v))'
    OBVIOUS
  <2>1. PICK x : x = Last(call, v)
    OBVIOUS
  <2>2. (Last(call, v))' = x
    BY <1>1, <2>1 DEF Last, Current
  <2>3. UserOK(v, x)
    BY <1>2, <2>1 DEF Calls
  <2>4. UserOK(v, x)'
    BY <1>1, <2>3 DEF UserOK, RanOK, MmeOK, Pause, SgwOK, SgwEntryOf, PgwOK, PgwEntryOf
  <2> QED
    BY <2>2, <2>4
<1>6. JobsOK(call)'
    BY <1>1, <1>2 DEF Calls, JobsOK
<1>7. RemovalsOK(call)'
  <2>1. \A v : (Last(call, v))' = Last(call, v)
    BY <1>1 DEF Last, Current
  <2> QED
    BY <1>1, <1>2, <2>1 DEF Calls, RemovalsOK
<1>8. IdsOK(call)'
    BY <1>1, <1>2 DEF Calls, IdsOK, Leaving
<1>9. ue_count' = Cardinality(Numbered(call)) /\ exited' = {}
    BY <1>1, <1>2 DEF Calls
<1> QED
    BY <1>3, <1>4, <1>5, <1>6, <1>7, <1>8, <1>9 DEF Calls, CallInv, Numbered

LEMMA RanKeeps ==
    ASSUME CallInv, NEW u \in UE, RanNext(u)
    PROVE  CallInv'
<1>1. PICK call \in [Call -> CallState] : TypeOK /\ Calls(call)
    BY DEF CallInv
<1>2. (Attach(u) \/ RanStep(u)) /\ NodesKept
    BY DEF RanNext, NodesKept
<1>3. CASE Attach(u)
    BY <1>1, <1>2, <1>3, AttachKeeps
<1>4. CASE Authenticate(u)
    BY <1>1, <1>2, <1>4, AuthenticateKeeps
<1>5. CASE SetSecurity(u)
    BY <1>1, <1>2, <1>5, SetSecurityKeeps
<1>6. CASE SetEpsSession(u)
    BY <1>1, <1>2, <1>6, SetEpsSessionKeeps
<1>7. CASE AttachComplete(u)
    BY <1>1, <1>2, <1>7, AttachCompleteKeeps
<1>8. CASE Detach(u)
    BY <1>1, <1>2, <1>8, DetachKeeps
<1>9. CASE Detached(u)
    BY <1>1, <1>2, <1>9, DetachedKeeps
<1>10. CASE HangUp(u)
    BY <1>1, <1>2, <1>10, HangUpKeeps
<1> QED
    BY <1>2, <1>3, <1>4, <1>5, <1>6, <1>7, <1>8, <1>9, <1>10 DEF RanStep

LEMMA HssKeeps ==
    ASSUME CallInv, NEW c \in Call, HssNext(c)
    PROVE  CallInv'
<1>1. PICK call \in [Call -> CallState] : TypeOK /\ Calls(call)
    BY DEF CallInv
<1>2. HssAnswer(c) /\ NodesKept
    BY DEF HssNext, NodesKept
<1> QED
    BY <1>1, <1>2, HssAnswerKeeps

LEMMA MmeKeeps ==
    ASSUME CallInv, NEW k \in MmeCore, MmeNext(k)
    PROVE  CallInv'
<1>1. PICK call \in [Call -> CallState] : TypeOK /\ Calls(call)
    BY DEF CallInv
<1>2. (MmeRemove(k) \/ \E c \in Call : MmeServe(k, c)) /\ MmeAlone
    BY DEF MmeNext, MmeAlone
<1>3. CASE MmeRemove(k)
    BY <1>1, <1>2, <1>3, MmeRemoveKeeps
<1>4. ASSUME NEW c \in Call, MmeServe(k, c) PROVE CallInv'
  <2>1. CASE MmeAccept(k, c)
    BY <1>1, <1>2, <2>1, MmeAcceptKeeps
  <2>2. CASE MmeHungUp(k, c)
    BY <1>1, <1>2, <2>2, MmeHungUpKeeps
  <2>3. CASE MmeAttachOne(k, c)
    BY <1>1, <1>2, <2>3, MmeAttachOneKeeps
  <2>4. CASE MmeAttachTwo(k, c)
    BY <1>1, <1>2, <2>4, MmeAttachTwoKeeps
  <2>5. CASE MmeAttachThree(k, c)
    BY <1>1, <1>2, <2>5, MmeAttachThreeKeeps
  <2>6. CASE MmeAttachFour(k, c)
    BY <1>1, <1>2, <2>6, MmeAttachFourKeeps
  <2>7. CASE MmeDetach(k, c)
    BY <1>1, <1>2, <2>7, MmeDetachKeeps
  <2>8. CASE MmeHssConnected(k, c)
    BY <1>1, <1>2, <2>8, MmeHssConnectedKeeps
  <2>9. CASE MmeHssAnswer(k, c)
    BY <1>1, <1>2, <2>9, MmeHssAnswerKeeps
  <2>10. CASE MmeSgwConnected(k, c)
    BY <1>1, <1>2, <2>10, MmeSgwConnectedKeeps
  <2>11. CASE MmeCreateAnswer(k, c)
    BY <1>1, <1>2, <2>11, MmeCreateAnswerKeeps
  <2>12. CASE MmeModifyAnswer(k, c)
    BY <1>1, <1>2, <2>12, MmeModifyAnswerKeeps
  <2>13. CASE MmeDetachAnswer(k, c)
    BY <1>1, <1>2, <2>13, MmeDetachAnswerKeeps
  <2> QED
    BY <1>4, <2>1, <2>2, <2>3, <2>4, <2>5, <2>6, <2>7, <2>8, <2>9, <2>10, <2>11, <2>12, <2>13
       DEF MmeServe
<1> QED
    BY <1>2, <1>3, <1>4

LEMMA SgwKeeps ==
    ASSUME CallInv, NEW k \in SgwCore, SgwNext(k)
    PROVE  CallInv'
<1>1. PICK call \in [Call -> CallState] : TypeOK /\ Calls(call)
    BY DEF CallInv
<1>2. (SgwWork(k) \/ \E c \in Call : SgwServe(k, c)) /\ SgwAlone
    BY DEF SgwNext, SgwAlone
<1>3. CASE SgwSection(k)
    BY <1>1, <1>2, <1>3, SgwSectionKeeps
<1>4. CASE SgwCreated(k)
    BY <1>1, <1>2, <1>4, SgwCreatedKeeps
<1>5. CASE SgwRemoved(k)
    BY <1>1, <1>2, <1>5, SgwRemovedKeeps
<1>6. ASSUME NEW c \in Call, SgwServe(k, c) PROVE CallInv'
  <2>1. CASE SgwAccept(k, c)
    BY <1>1, <1>2, <2>1, SgwAcceptKeeps
  <2>2. CASE SgwHungUp(k, c)
    BY <1>1, <1>2, <2>2, SgwHungUpKeeps
  <2>3. CASE SgwCreate(k, c)
    BY <1>1, <1>2, <2>3, SgwCreateKeeps
  <2>4. CASE SgwModify(k, c)
    BY <1>1, <1>2, <2>4, SgwModifyKeeps
  <2>5. CASE SgwDetach(k, c)
    BY <1>1, <1>2, <2>5, SgwDetachKeeps
  <2>6. CASE SgwPgwConnected(k, c)
    BY <1>1, <1>2, <2>6, SgwPgwConnectedKeeps
  <2>7. CASE SgwCreateAnswer(k, c)
    BY <1>1, <1>2, <2>7, SgwCreateAnswerKeeps
  <2>8. CASE SgwDetachAnswer(k, c)
    BY <1>1, <1>2, <2>8, SgwDetachAnswerKeeps
  <2> QED
    BY <1>6, <2>1, <2>2, <2>3, <2>4, <2>5, <2>6, <2>7, <2>8 DEF SgwServe
<1> QED
    BY <1>2, <1>3, <1>4, <1>5, <1>6 DEF SgwWork

LEMMA PgwKeeps ==
    ASSUME Addressable, CallInv, NEW k \in PgwCore, PgwNext(k)
    PROVE  CallInv'
<1>1. PICK call \in [Call -> CallState] : TypeOK /\ Calls(call)
    BY DEF CallInv
<1>2. (PgwWork(k) \/ \E c \in Call : PgwServe(k, c)) /\ PgwAlone
    BY DEF PgwNext, PgwAlone
<1>3. CASE PgwSection(k)
    BY <1>1, <1>2, <1>3, PgwSectionKeeps
<1>4. CASE PgwCreated(k)
    BY <1>1, <1>2, <1>4, PgwCreatedKeeps
<1>5. CASE PgwRemoved(k)
    BY <1>1, <1>2, <1>5, PgwRemovedKeeps
<1>6. ASSUME NEW c \in Call, PgwServe(k, c) PROVE CallInv'
  <2>1. CASE PgwAccept(k, c)
    BY <1>1, <1>2, <2>1, PgwAcceptKeeps
  <2>2. CASE PgwHungUp(k, c)
    BY <1>1, <1>2, <2>2, PgwHungUpKeeps
  <2>3. CASE PgwCreate(k, c)
    BY <1>1, <1>2, <2>3, PgwCreateKeeps
  <2>4. CASE PgwDetach(k, c)
    BY <1>1, <1>2, <2>4, PgwDetachKeeps
  <2> QED
    BY <1>6, <2>1, <2>2, <2>3, <2>4 DEF PgwServe
<1> QED
    BY <1>2, <1>3, <1>4, <1>5, <1>6 DEF PgwWork

\* Every call is in one of its steps, which its connections, the descriptors and
\* the tables of all nodes agree with.
THEOREM CallInvariance == ASSUME Addressable PROVE Spec => []CallInv
<1>1. Init => CallInv
    BY CallInit
<1>2. CallInv /\ [Next]_vars => CallInv'
  <2> SUFFICES ASSUME CallInv, [Next]_vars PROVE CallInv'
    OBVIOUS
  <2>1. CASE UNCHANGED vars
    BY <2>1, CallsStay
  <2>2. ASSUME NEW u \in UE, RanNext(u) PROVE CallInv'
    BY <2>2, RanKeeps
  <2>3. ASSUME NEW c \in Call, HssNext(c) PROVE CallInv'
    BY <2>3, HssKeeps
  <2>4. ASSUME NEW k \in MmeCore, MmeNext(k) PROVE CallInv'
    BY <2>4, MmeKeeps
  <2>5. ASSUME NEW k \in SgwCore, SgwNext(k) PROVE CallInv'
    BY <2>5, SgwKeeps
  <2>6. ASSUME NEW k \in PgwCore, PgwNext(k) PROVE CallInv'
    BY <2>6, PgwKeeps
  <2> QED
    BY <2>1, <2>2, <2>3, <2>4, <2>5, <2>6 DEF Next, Serving
<1> QED
    BY <1>1, <1>2, PTL DEF Spec

\* Every variable stays in its type: no handler of any core looks up, enters or
\* sends what is not of the kind that the tables, descriptors and messages hold.
THEOREM TypeCorrect == ASSUME Addressable PROVE Spec => []TypeOK
<1>1. CallInv => TypeOK
    BY DEF CallInv
<1> QED
    BY <1>1, CallInvariance, PTL

\* No lookup and no cross check of MME, SGW or PGW ends the node, whichever cores
\* serve a terminal's rounds and whichever of them were cut off.
THEOREM NoNodeExits == ASSUME Addressable PROVE Spec => []NoExit
<1>1. CallInv => NoExit
    BY DEF CallInv, Calls, NoExit
<1> QED
    BY <1>1, CallInvariance, PTL

-----------------------------------------------------------------------------
(* What follows from it.                                                   *)

LEMMA Connected ==
    ASSUME TypeOK, NEW call \in [Call -> CallState], Calls(call), NEW u \in UE,
           ran_pc[u] = "attached"
    PROVE  LET c == Current(u)
           IN  /\ \A i \in {"s1", "s11", "s5"} : link[i][c].state = "open"
               /\ mme_fd[c] = FromRan(TRUE) /\ sgw_fd[c] = FromMme(TRUE) /\ c \in pgw_fd
               /\ c \in mme_srcaddr
               /\ s1mme_id[ran_ctx[u].id] = u /\ ran_ctx[u].guti = u
               /\ mme_ctx[u] = [imsi |-> u, xres |-> u, s11_cteid_sgw |-> u, ecm_state |-> 1]
               /\ \A i \in {"s11", "s1", "s5"} : sgw_id[i][u] = u
               /\ sgw_ctx[u] = [teid |-> u, s1_uteid_dl |-> ran_ctx[u].s1_uteid_ul, s5_ul |-> u]
               /\ pgw_s5_id[u] = u /\ sgi_id[ran_ctx[u].ip] = u
               /\ pgw_ctx[u] = [teid |-> u, ip_addr |-> ran_ctx[u].ip]
<1>1. PICK c : c = Current(u)
    OBVIOUS
<1>2. c \in Call /\ c[1] = u /\ call[c].at \in 1 .. 37 /\ ran_pc[u] = Pc(call[c].at)
    BY <1>1, RanNow
<1>3. PICK x \in CallState : x = call[c]
    BY <1>2
<1>4. x.at = 26
    BY <1>2, <1>3 DEF Pc
<1>5. /\ UserOK(u, x) /\ PlaceOK(c, x) /\ FdsOK(c, x)
      /\ S1OK(u, link["s1"][c], x) /\ S11OK(u, link["s11"][c], x) /\ S5OK(u, link["s5"][c], x)
    BY <1>2, <1>3, CallNow, Held
<1>6. link["s1"][c].state = "open" /\ link["s11"][c].state = "open" /\ link["s5"][c].state = "open"
  <2>1. S1State(x.at) = "open" /\ S11State(x.at) = {"open"} /\ S5State(x.at) = {"open"}
    BY <1>4 DEF S1State, S11State, S5State
  <2> QED
    BY <1>5, <2>1 DEF S1OK, S11OK, S5OK
<1>7. mme_fd[c] = FromRan(TRUE) /\ sgw_fd[c] = FromMme(TRUE) /\ c \in pgw_fd
  <2>1. MmeEntry(u, x) = FromRan(TRUE)
    BY <1>4 DEF MmeEntry, FromRan, MmeWait
  <2>2. SgwFdEntry(u, "open", x.at) = FromMme(TRUE)
    BY <1>4 DEF SgwFdEntry, FromMme, SgwWait
  <2> QED
    BY <1>2, <1>5, <1>6, <2>1, <2>2 DEF FdsOK
<1>8. c \in mme_srcaddr
    BY <1>4, <1>5 DEF PlaceOK
<1>9. /\ ran_ctx[u].id = x.id /\ ran_ctx[u].guti = u /\ ran_ctx[u].s1_uteid_ul = u
      /\ ran_ctx[u].ip = u
    BY <1>4, <1>5 DEF UserOK, RanOK
<1>10. /\ s1mme_id[x.id] = u
       /\ mme_ctx[u] = [imsi |-> u, xres |-> u, s11_cteid_sgw |-> u, ecm_state |-> 1]
  <2>1. /\ s1mme_id[x.id] = u /\ mme_ctx[u] # None /\ mme_ctx[u].imsi = u /\ mme_ctx[u].xres = u
        /\ mme_ctx[u].s11_cteid_sgw = u /\ mme_ctx[u].ecm_state = 1
    BY <1>4, <1>5 DEF UserOK, MmeOK
  <2>2. mme_ctx[u] \in MmeContext
    BY <2>1 DEF TypeOK, MkbMmeTypeOK
  <2> QED
    BY <2>1, <2>2 DEF MmeContext
<1>11. /\ \A i \in {"s11", "s1", "s5"} : sgw_id[i][u] = u
       /\ sgw_ctx[u] = [teid |-> u, s1_uteid_dl |-> u, s5_ul |-> u]
  <2>1. /\ \A i \in {"s11", "s1", "s5"} : sgw_id[i][u] = u
        /\ sgw_ctx[u] \in SgwContext /\ sgw_ctx[u].teid = u
    BY <1>2, <1>3, <1>4, SgwKnows
  <2>2. sgw_ctx[u].s5_ul = u /\ sgw_ctx[u].s1_uteid_dl = u
    BY <1>4, <1>5 DEF UserOK, SgwOK
  <2> QED
    BY <2>1, <2>2 DEF SgwContext
<1>12. pgw_s5_id[u] = u /\ sgi_id[u] = u /\ pgw_ctx[u] = [teid |-> u, ip_addr |-> u]
  <2>1. PgwOK(u, x)
    BY <1>5 DEF UserOK
  <2>2. pgw_ctx[u] # None
    BY <1>4, <2>1 DEF PgwOK
  <2>3. PgwEntryOf(u, {17, 18, 30, 31}, x.at) = u /\ PgwEntryOf(u, {18, 30}, x.at) = u
    BY <2>2 DEF PgwEntryOf
  <2> QED
    BY <2>1, <2>2, <2>3 DEF PgwOK
<1>13. \A i \in {"s1", "s11", "s5"} : link[i][c].state = "open"
    BY <1>6
<1>14. sgw_ctx[u] = [teid |-> u, s1_uteid_dl |-> ran_ctx[u].s1_uteid_ul, s5_ul |-> u]
    BY <1>9, <1>11
<1>15. sgi_id[ran_ctx[u].ip] = u /\ pgw_ctx[u] = [teid |-> u, ip_addr |-> ran_ctx[u].ip]
    BY <1>9, <1>12
<1>16. s1mme_id[ran_ctx[u].id] = u
    BY <1>9, <1>10
<1> QED
    BY <1>1, <1>7, <1>8, <1>9, <1>10, <1>11, <1>12, <1>13, <1>14, <1>15, <1>16

\* An attached terminal has its connection from node to node, and the tables of all
\* nodes agree with it, for any number of terminals, rounds and cores.
THEOREM PathConnected == ASSUME Addressable PROVE Spec => []BearerConnected
<1>1. CallInv => BearerConnected
  <2> SUFFICES ASSUME CallInv PROVE BearerConnected
    OBVIOUS
  <2>1. PICK call \in [Call -> CallState] : TypeOK /\ Calls(call)
    BY DEF CallInv
  <2> QED
    BY <2>1, Connected DEF BearerConnected
<1> QED
    BY <1>1, CallInvariance, PTL

\* No core of the SGW works on a terminal: its tables have it all or not at all.
LEMMA SgwWhole ==
    ASSUME TypeOK, NEW call \in [Call -> CallState], Calls(call), NEW u \in UE,
           Last(call, u).at \notin SgwWorks
    PROVE  SgwEntries(u) = IF sgw_ctx[u] # None THEN {"s11", "s1", "s5", "ue_ctx"} ELSE {}
<1>1. PICK x : x = Last(call, u)
    OBVIOUS
<1>2. SgwOK(u, x) /\ x.at \notin 12 .. 14 /\ x.at \notin 33 .. 35
    BY <1>1 DEF Calls, UserOK, SgwWorks
<1>3. \A i \in {"s11", "s1", "s5"} : sgw_id[i][u] = IF sgw_ctx[u] # None THEN u ELSE 0
    BY <1>2 DEF SgwOK, SgwEntryOf
<1>4. u # 0
    BY Constants
<1>5. CASE sgw_ctx[u] # None
    BY <1>3, <1>4, <1>5 DEF SgwEntries
<1>6. CASE sgw_ctx[u] = None
    BY <1>3, <1>4, <1>6 DEF SgwEntries
<1> QED
    BY <1>5, <1>6

LEMMA PgwWhole ==
    ASSUME TypeOK, NEW call \in [Call -> CallState], Calls(call), NEW u \in UE,
           Last(call, u).at \notin PgwWorks
    PROVE  PgwEntries(u) = IF pgw_ctx[u] # None THEN {"s5_id", "sgi_id", "ue_ctx"} ELSE {}
<1>1. PICK x : x = Last(call, u)
    OBVIOUS
<1>2. PgwOK(u, x) /\ x.at \notin {17, 18, 30, 31}
    BY <1>1 DEF Calls, UserOK, PgwWorks
<1>3. \A early \in {{17, 18, 30, 31}, {18, 30}} :
          PgwEntryOf(u, early, x.at) = IF pgw_ctx[u] # None THEN u ELSE 0
    BY <1>2 DEF PgwEntryOf
<1>4. /\ pgw_s5_id[u] = IF pgw_ctx[u] # None THEN u ELSE 0
      /\ sgi_id[u] = IF pgw_ctx[u] # None THEN u ELSE 0
    BY <1>2, <1>3 DEF PgwOK
<1>5. u # 0
    BY Constants
<1>6. CASE pgw_ctx[u] # None
    BY <1>4, <1>5, <1>6 DEF PgwEntries
<1>7. CASE pgw_ctx[u] = None
    BY <1>4, <1>5, <1>7 DEF PgwEntries
<1> QED
    BY <1>6, <1>7

\* The last call of a terminal that a gateway works on has a core.
LEMMA WorkedOn ==
    ASSUME TypeOK, NEW call \in [Call -> CallState], Calls(call), NEW u \in UE
    PROVE  /\ Last(call, u).at \in SgwWorks => \E k \in SgwCore : sgw_job[k] # None /\ sgw_job[k].teid = u
           /\ Last(call, u).at \in PgwWorks => \E k \in PgwCore : pgw_job[k] # None /\ pgw_job[k].imsi = u
<1>1. PICK x : x = Last(call, u)
    OBVIOUS
<1>2. ASSUME x.at \in SgwWorks \cup PgwWorks
      PROVE  \E c \in Call : x = call[c] /\ c[1] = u
  <2>1. rounds[u] # 0
    BY <1>1, <1>2 DEF Last, NoCall, SgwWorks, PgwWorks
  <2>2. rounds[u] \in 1 .. Rounds[u]
    BY <2>1, Types
  <2>3. Current(u) \in Call /\ Current(u)[1] = u
    BY <2>2, CallMade DEF Current
  <2> QED
    BY <1>1, <2>1, <2>3 DEF Last
<1>3. ASSUME x.at \in SgwWorks
      PROVE  \E k \in SgwCore : sgw_job[k] # None /\ sgw_job[k].teid = u
  <2>1. PICK c \in Call : x = call[c] /\ c[1] = u
    BY <1>2, <1>3
  <2>2. PICK k : k = link["s11"][c].core
    OBVIOUS
  <2>3. sgw_job[k] = SgwJobOf(c, x.at) /\ S11OK(u, link["s11"][c], x)
    BY <1>3, <2>1, <2>2, Held DEF WorkOK
  <2>4. k \in SgwCore
    <3>1. link["s11"][c].state = "open"
      BY <1>3, <2>3 DEF S11OK, S11State, SgwWorks
    <3> QED
      BY <2>2, <2>3, <3>1 DEF S11OK
  <2>5. SgwJobOf(c, x.at) # None /\ SgwJobOf(c, x.at).teid = c[1]
    BY <1>3, SgwJobMade
  <2> QED
    BY <2>1, <2>3, <2>4, <2>5
<1>4. ASSUME x.at \in PgwWorks
      PROVE  \E k \in PgwCore : pgw_job[k] # None /\ pgw_job[k].imsi = u
  <2>1. PICK c \in Call : x = call[c] /\ c[1] = u
    BY <1>2, <1>4
  <2>2. PICK k : k = link["s5"][c].core
    OBVIOUS
  <2>3. pgw_job[k] = PgwJobOf(c, x.at) /\ S5OK(u, link["s5"][c], x)
    BY <1>4, <2>1, <2>2, Held DEF WorkOK
  <2>4. k \in PgwCore
    <3>1. link["s5"][c].state = "open"
      BY <1>4, <2>3 DEF S5OK, S5State, PgwWorks
    <3> QED
      BY <2>2, <2>3, <3>1 DEF S5OK
  <2>5. PgwJobOf(c, x.at) # None /\ PgwJobOf(c, x.at).imsi = c[1]
    BY <1>4, PgwJobMade
  <2> QED
    BY <2>1, <2>3, <2>4, <2>5
<1> QED
    BY <1>1, <1>3, <1>4

\* What the PGW has of a terminal, the SGW has complete.
LEMMA PgwAfterSgw ==
    ASSUME TypeOK, NEW call \in [Call -> CallState], Calls(call), NEW u \in UE,
           PgwEntries(u) # {}
    PROVE  SgwEntries(u) = {"s11", "s1", "s5", "ue_ctx"}
<1>1. PICK x : x = Last(call, u)
    OBVIOUS
<1>2. /\ SgwOK(u, x) /\ PgwOK(u, x) /\ u # 0
    BY <1>1, Constants DEF Calls, UserOK
<1>3. pgw_ctx[u] # None \/ x.at \in {17, 18, 30, 31}
  <2>1. pgw_s5_id[u] # 0 \/ sgi_id[u] # 0 \/ pgw_ctx[u] # None
    BY DEF PgwEntries
  <2> QED
    BY <1>2, <2>1 DEF PgwOK, PgwEntryOf
<1>4. sgw_ctx[u] # None
    BY <1>2, <1>3 DEF PgwOK, SgwOK
<1>5. x.at \notin 33 .. 35
    BY <1>2, <1>3 DEF PgwOK
<1>6. \A i \in {"s11", "s1", "s5"} : sgw_id[i][u] = u
    BY <1>2, <1>4, <1>5 DEF SgwOK, SgwEntryOf
<1> QED
    BY <1>2, <1>4, <1>6 DEF SgwEntries

\* The gateways' tables agree: a subscriber that no core works on is in all of a
\* gateway's tables or in none, and never in the PGW's without the SGW's.
THEOREM GatewaysInAgreement == ASSUME Addressable PROVE Spec => []GatewaysAgree
<1>1. CallInv => GatewaysAgree
  <2> SUFFICES ASSUME CallInv, NEW u \in UE
               PROVE  /\ (\A k \in SgwCore : sgw_job[k] = None \/ sgw_job[k].teid # u)
                            => SgwEntries(u) \in {{}, {"s11", "s1", "s5", "ue_ctx"}}
                      /\ (\A k \in PgwCore : pgw_job[k] = None \/ pgw_job[k].imsi # u)
                            => PgwEntries(u) \in {{}, {"s5_id", "sgi_id", "ue_ctx"}}
                      /\ PgwEntries(u) # {} => SgwEntries(u) = {"s11", "s1", "s5", "ue_ctx"}
    BY DEF GatewaysAgree
  <2>1. PICK call \in [Call -> CallState] : TypeOK /\ Calls(call)
    BY DEF CallInv
  <2>2. ASSUME \A k \in SgwCore : sgw_job[k] = None \/ sgw_job[k].teid # u
        PROVE  SgwEntries(u) \in {{}, {"s11", "s1", "s5", "ue_ctx"}}
    <3>1. Last(call, u).at \notin SgwWorks
      BY <2>1, <2>2, WorkedOn
    <3> QED
      BY <2>1, <3>1, SgwWhole
  <2>3. ASSUME \A k \in PgwCore : pgw_job[k] = None \/ pgw_job[k].imsi # u
        PROVE  PgwEntries(u) \in {{}, {"s5_id", "sgi_id", "ue_ctx"}}
    <3>1. Last(call, u).at \notin PgwWorks
      BY <2>1, <2>3, WorkedOn
    <3> QED
      BY <2>1, <3>1, PgwWhole
  <2>4. PgwEntries(u) # {} => SgwEntries(u) = {"s11", "s1", "s5", "ue_ctx"}
    BY <2>1, PgwAfterSgw
  <2> QED
    BY <2>2, <2>3, <2>4
<1> QED
    BY <1>1, CallInvariance, PTL

\* A terminal that is through, with no call cut off, is in no table.
LEMMA Through ==
    ASSUME TypeOK, NEW call \in [Call -> CallState], Calls(call), NEW u \in UE,
           Settled(u), \A c \in hung : c[1] # u
    PROVE  mme_ctx[u] = None /\ u \notin Range(s1mme_id) /\ SgwEntries(u) = {} /\ PgwEntries(u) = {}
<1>1. PICK x : x = Last(call, u)
    OBVIOUS
<1>2. ran_pc[u] = "idle" /\ Pause(u)
    BY DEF Settled
<1>3. /\ UserOK(u, x) /\ x.at \in 38 .. 44
      /\ rounds[u] # 0 => Current(u) \in Call /\ x = call[Current(u)]
    BY <1>1, <1>2, IdleFacts
<1>4. x.at = 38
  <2>1. CASE rounds[u] = 0
    BY <1>1, <2>1 DEF Last, NoCall
  <2>2. CASE rounds[u] # 0
    <3>1. PlaceOK(Current(u), x) /\ Current(u)[1] = u
      BY <1>3, <2>2, Held DEF Current
    <3>2. x.at \notin Cut
      BY <3>1 DEF PlaceOK
    <3> QED
      BY <1>3, <3>2 DEF Cut
  <2> QED
    BY <2>1, <2>2
<1>5. mme_ctx[u] = None /\ sgw_ctx[u] = None /\ pgw_ctx[u] = None
    BY <1>2, <1>3, <1>4 DEF UserOK, MmeOK, SgwOK, PgwOK
<1>6. SgwEntries(u) = {} /\ PgwEntries(u) = {}
  <2>1. Last(call, u).at \notin SgwWorks /\ Last(call, u).at \notin PgwWorks
    BY <1>1, <1>4 DEF SgwWorks, PgwWorks
  <2> QED
    BY <1>5, <2>1, SgwWhole, PgwWhole
<1>7. ASSUME NEW i \in UeId, s1mme_id[i] = u PROVE FALSE
  <2>1. u # 0 /\ i # 0
    BY IdFacts, Constants
  <2>2. PICK c \in Call : /\ call[c].id = i /\ c[1] = u
                          /\ call[c].at \in (3 .. 36) \cup Cut \/ Leaving(i)
    BY <1>7, <2>1 DEF Calls, IdsOK
  <2>3. CASE call[c].at \in 3 .. 36
    <3>1. call[c].at \in 1 .. 37
      BY <2>3
    <3>2. Last(call, u) = call[c]
      BY <2>2, <3>1, CallNow
    <3> QED
      BY <1>1, <1>4, <2>3, <3>2
  <2>4. CASE call[c].at \in Cut
    <3>1. c \in hung
      BY <2>4, Held DEF PlaceOK
    <3> QED
      BY <2>2, <3>1
  <2>5. CASE Leaving(i)
    <3>1. PICK k \in MmeCore : mme_removal[k] # None /\ mme_removal[k].id = i
      BY <2>5 DEF Leaving
    <3>2. \E d \in Call : d[1] = mme_removal[k].guti /\ call[d].id = mme_removal[k].id
      BY <3>1, RemovalFacts
    <3>3. PICK d \in Call : d[1] = mme_removal[k].guti /\ call[d].id = i
      BY <3>1, <3>2
    <3>4. d = c
      BY <2>1, <2>2, <3>3 DEF Calls, IdsOK
    <3> QED
      BY <1>2, <2>2, <3>1, <3>3, <3>4 DEF Pause
  <2> QED
    BY <2>2, <2>3, <2>4, <2>5
<1>8. u \notin Range(s1mme_id)
  <2>1. DOMAIN s1mme_id = UeId
    BY DEF TypeOK, MkbMmeTypeOK
  <2> QED
    BY <1>7, <2>1 DEF Range
<1> QED
    BY <1>5, <1>6, <1>8

\* Nothing remains of a terminal whose rounds all ended with a detach, and no source
\* address is kept for a call that is over, but for one that was cut off.
THEOREM NothingRemains == ASSUME Addressable PROVE Spec => []NoResidue
<1>1. CallInv => NoResidue
  <2> SUFFICES ASSUME CallInv PROVE NoResidue
    OBVIOUS
  <2>1. PICK call \in [Call -> CallState] : TypeOK /\ Calls(call)
    BY DEF CallInv
  <2>2. ASSUME NEW u \in UE, Settled(u), ~ \E c \in hung : c[1] = u
        PROVE  mme_ctx[u] = None /\ u \notin Range(s1mme_id) /\ SgwEntries(u) = {} /\ PgwEntries(u) = {}
    BY <2>1, <2>2, Through
  <2>3. ASSUME NEW c \in mme_srcaddr
        PROVE  c \in hung \/ (c = Current(c[1]) /\ ran_pc[c[1]] # "idle")
    <3>1. c \in Call
      BY <2>1 DEF TypeOK, MkbMmeTypeOK
    <3>2. PICK x \in CallState : x = call[c]
      BY <3>1
    <3>3. PlaceOK(c, x)
      BY <2>1, <3>1, <3>2, Held
    <3>4. x.at \in 10 .. 36 \/ x.at \in Cut
      BY <3>3 DEF PlaceOK, Cut
    <3>5. CASE x.at \in 10 .. 36
      <4>1. call[c].at \in 1 .. 37
        BY <3>2, <3>5
      <4>2. c = Current(c[1]) /\ UserOK(c[1], x)
        BY <2>1, <3>1, <3>2, <4>1, CallNow
      <4>3. Pc(x.at) # "idle"
        BY <3>5 DEF Pc
      <4> QED
        BY <4>2, <4>3 DEF UserOK, RanOK
    <3>6. CASE x.at \in Cut
      BY <3>3, <3>6 DEF PlaceOK
    <3> QED
      BY <3>4, <3>5, <3>6
  <2> QED
    BY <2>2, <2>3 DEF NoResidue
<1> QED
    BY <1>1, CallInvariance, PTL
=============================================================================
