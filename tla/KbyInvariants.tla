----------------------------- MODULE KbyInvariants -----------------------------
(***************************************************************************)
(* An inductive invariant of the v3.0 control plane.  A round of a         *)
(* terminal is one call, which passes through the nodes in a fixed order;  *)
(* the event loops only interleave calls.  A call is its step and the      *)
(* descriptors it has, and these determine what every node and connection  *)
(* holds of it:                                                            *)
(*                                                                         *)
(*    0 idle               1 connecting           2 attach sent            *)
(*    3 HSS connected      4 HSS asked            5 HSS answered           *)
(*    6 challenge sent     7 response sent        8 command sent           *)
(*    9 third attach sent 10 SGW connected       11 create sent            *)
(*   12 PGW connected     13 PGW asked           14 PGW answered           *)
(*   15 SGW answered      16 attach accepted     17 attach complete sent   *)
(*   18 modify sent       19 SGW answered        20 MME answered           *)
(*   21 attached          22 detach sent         23 SGW asked              *)
(*   24 PGW asked         25 PGW answered        26 SGW answered           *)
(*   27 MME answered                                                       *)
(*                                                                         *)
(* When act 7 ends the MME, from 26, nothing moves any more and only the   *)
(* types are left to say.                                                  *)
(***************************************************************************)
EXTENDS Kby

\* Every subscriber has an address of its own: ip_addrs has entries up to
\* MAX_UE_COUNT, and beyond it all would share the empty one.
Addressable == \A u \in UE : u < MAX_UE_COUNT

\* ran, out: the MME's descriptors, to the terminal and to HSS or SGW; mme, pgw:
\* the SGW's; sgw: the PGW's.  0 for none.
Call == [at : 0 .. 27, ran : {0} \cup Fd, out : {0} \cup Fd, mme : {0} \cup Fd,
         pgw : {0} \cup Fd, sgw : {0} \cup Fd, id : {0} \cup UeId]

NoCall == [at |-> 0, ran |-> 0, out |-> 0, mme |-> 0, pgw |-> 0, sgw |-> 0, id |-> 0]

\* A server's descriptor is there as soon as the server accepts, at the latest when
\* it takes the request.
FdsOK(c) ==
    /\ c.ran # 0 <=> c.at \in 2 .. 26
    /\ c.out # 0 <=> c.at \in (3 .. 5) \cup (10 .. 26)
    /\ c.id # 0 <=> c.at \in 3 .. 26
    /\ c.mme # 0 => c.at \in 10 .. 25
    /\ c.mme = 0 => c.at \notin 12 .. 25
    /\ c.pgw # 0 <=> c.at \in 12 .. 25
    /\ c.sgw # 0 => c.at \in 12 .. 24
    /\ c.sgw = 0 => c.at \notin 14 .. 24

-----------------------------------------------------------------------------
(* The terminal.                                                           *)

Pc(at) == CASE at = 0        -> "idle"
            [] at \in 1 .. 6   -> "authenticate"
            [] at \in 7 .. 8   -> "set_security"
            [] at \in 9 .. 16  -> "set_eps_session"
            [] at \in 17 .. 20 -> "attach_complete"
            [] at = 21       -> "attached"
            [] at \in 22 .. 27 -> "detach"

S1State(at) == CASE at = 0      -> "closed"
                 [] at = 1      -> "syn"
                 [] at \in 2 .. 26 -> "open"
                 [] at = 27     -> "shut"

S1Up(u, c) == CASE c.at \in 1 .. 2 -> [Msg(1) EXCEPT !.imsi = u]
                [] c.at = 7  -> [Msg(2) EXCEPT !.id = c.id, !.imsi = u]
                [] c.at = 9  -> [Msg(3) EXCEPT !.id = c.id]
                [] c.at = 17 -> [Msg(4) EXCEPT !.id = c.id, !.teid = u]
                [] c.at = 22 -> [Msg(5) EXCEPT !.id = c.id, !.imsi = u]
                [] OTHER     -> None

S1Down(u, c) == CASE c.at = 6  -> [Msg(1) EXCEPT !.id = c.id, !.imsi = u]
                  [] c.at = 8  -> [Msg(2) EXCEPT !.id = c.id]
                  [] c.at = 16 -> [Msg(3) EXCEPT !.imsi = u, !.teid = u, !.ip = u]
                  [] c.at = 20 -> [Msg(4) EXCEPT !.imsi = u]
                  [] c.at = 27 -> [Msg(5) EXCEPT !.imsi = u]
                  [] OTHER     -> None

RanOK(u, c) ==
    /\ ran_pc[u] = Pc(c.at)
    /\ s1[u] = [state |-> S1State(c.at), srv |-> c.ran, up |-> S1Up(u, c), down |-> S1Down(u, c)]
    /\ c.at \in 7 .. 26 => ran_ctx[u].id = c.id
    /\ c.at \in 17 .. 26 =>
          ran_ctx[u].guti = u /\ ran_ctx[u].s1_uteid_ul = u /\ ran_ctx[u].ip = u
    /\ rounds[u] <= Rounds[u]
    /\ c.at # 0 => rounds[u] # 0

-----------------------------------------------------------------------------
(* The MME, and its connections to HSS and SGW.                            *)

RanEntry(c) == CASE c.at = 2 \/ c.at \in 6 .. 9              -> FromRan(0)
                 [] c.at \in 16 .. 17 \/ c.at \in 20 .. 22 -> FromRan(c.out)
                 [] OTHER                                  -> None

Waiting(act, c, buf) == [act |-> act, initial_fd |-> c.ran, msui |-> c.id, buf |-> buf]

OutEntry(u, c) ==
    CASE c.at = 3          -> Waiting(2, c, [Msg(1) EXCEPT !.imsi = u])
      [] c.at \in 4 .. 5   -> Waiting(3, c, None)
      [] c.at = 10         -> Waiting(4, c, [Msg(1) EXCEPT !.teid = u, !.imsi = u])
      [] c.at \in 11 .. 15 -> Waiting(5, c, None)
      [] c.at \in 18 .. 19 -> Waiting(6, c, None)
      [] c.at \in 23 .. 26 -> Waiting(7, c, None)
      [] OTHER             -> None

HssLink(u, c) ==
    [state |-> CASE c.at = 3 -> "syn" [] c.at \in 4 .. 5 -> "open" [] OTHER -> "closed",
     srv |-> 0,
     up |-> IF c.at = 4 THEN [Msg(1) EXCEPT !.imsi = u] ELSE None,
     down |-> IF c.at = 5 THEN [Msg(1) EXCEPT !.imsi = u] ELSE None]

S11State(c) == CASE c.at \notin 10 .. 26       -> "closed"
                 [] c.at = 26                  -> "shut"
                 [] c.at \in 10 .. 25 /\ c.mme = 0 -> "syn"
                 [] c.at \in 10 .. 25 /\ c.mme # 0 -> "open"

S11Up(u, c) == CASE c.at = 11 -> [Msg(1) EXCEPT !.teid = u, !.imsi = u]
                 [] c.at = 18 -> [Msg(2) EXCEPT !.teid = u, !.imsi = u]
                 [] c.at = 23 -> [Msg(3) EXCEPT !.teid = u]
                 [] OTHER     -> None

\* dl is the downlink TEID of a create's answer, which may be another subscriber's.
S11Down(u, c, dl) == CASE c.at = 15 -> [Msg(1) EXCEPT !.teid = u, !.s5 = dl, !.ip = u]
                       [] c.at = 19 -> [Msg(2) EXCEPT !.teid = u]
                       [] c.at = 26 -> [Msg(3) EXCEPT !.teid = u]
                       [] OTHER     -> None

S11OK(u, c) ==
    \E dl \in Teid : s11[c.out] = [state |-> S11State(c), srv |-> c.mme, up |-> S11Up(u, c),
                                   down |-> S11Down(u, c, dl)]

MmeFdsOK(u, c) ==
    /\ c.ran # 0 => mme_fdmap[c.ran] = RanEntry(c)
    /\ c.out # 0 => mme_fdmap[c.out] = OutEntry(u, c) /\ s6a[c.out] = HssLink(u, c) /\ S11OK(u, c)

MmeCtxOK(u, c) ==
    /\ mme_ctx[u] # None <=> c.at \in 3 .. 26
    /\ c.at \in 6 .. 26 => mme_ctx[u].xres = u
    /\ c.at \in 16 .. 26 => mme_ctx[u].s11_cteid_sgw = u
    /\ c.at \in 18 .. 26 => mme_ctx[u].s1_uteid_dl = u
    /\ c.at \in 20 .. 26 => mme_ctx[u].ecm_state = 1

MmeOK(u, c) ==
    /\ MmeFdsOK(u, c) /\ MmeCtxOK(u, c)
    /\ c.id <= ue_count
    /\ \A i \in UeId : s1mme_id[i] = u <=> i = c.id

-----------------------------------------------------------------------------
(* The SGW, and its connection to the PGW.                                 *)

MmeEntry(c) == CASE c.at \in 10 .. 11 -> FromMme(0)
                 [] c.at \in 15 .. 23 -> FromMme(c.pgw)
                 [] OTHER             -> None

PgwEntry(u, c) ==
    LET Wait(act, buf) == [act |-> act, initial_fd |-> c.mme, tid |-> u, guti |-> u, buf |-> buf]
    IN  CASE c.at = 12         -> Wait(2, [Msg(1) EXCEPT !.teid = u, !.imsi = u])
          [] c.at \in 13 .. 14 -> Wait(3, None)
          [] c.at \in 24 .. 25 -> Wait(4, None)
          [] OTHER             -> None

S5State(c) == CASE c.at = 25 -> "shut"
                [] c.at # 25 /\ c.sgw = 0 -> "syn"
                [] c.at # 25 /\ c.sgw # 0 -> "open"

S5Up(u, c) == CASE c.at = 13 -> [Msg(1) EXCEPT !.teid = u, !.imsi = u]
                [] c.at = 24 -> [Msg(4) EXCEPT !.teid = u]
                [] OTHER     -> None

S5Down(u, c) == CASE c.at = 14 -> [Msg(1) EXCEPT !.teid = u, !.ip = u]
                  [] c.at = 25 -> [Msg(4) EXCEPT !.teid = u]
                  [] OTHER     -> None

SgwOK(u, c) ==
    /\ c.mme # 0 => sgw_fdmap[c.mme] = MmeEntry(c)
    /\ c.pgw # 0 =>
          /\ sgw_fdmap[c.pgw] = PgwEntry(u, c)
          /\ s5[c.pgw] = [state |-> S5State(c), srv |-> c.sgw, up |-> S5Up(u, c),
                          down |-> S5Down(u, c)]
    /\ \A table \in {s11_id, s1_id, s5_id} : table[u] = IF c.at \in 12 .. 25 THEN u ELSE 0
    /\ sgw_ctx[u] # None <=> c.at \in 12 .. 25
    /\ c.at \in 12 .. 25 => sgw_ctx[u].teid = u
    /\ c.at \in 15 .. 25 => sgw_ctx[u].s5_ul = u
    /\ c.at \in 19 .. 25 => sgw_ctx[u].s1_uteid_dl = u

-----------------------------------------------------------------------------
(* The PGW.                                                                *)

PgwOK(u, c) ==
    /\ c.sgw # 0 => c.sgw \in pgw_fdmap
    /\ \A table \in {pgw_s5_id, sgi_id} : table[u] = IF c.at \in 14 .. 24 THEN u ELSE 0
    /\ sgi_id[0] = 0
    /\ pgw_ctx[u] = IF c.at \in 14 .. 24 THEN [teid |-> u, ip_addr |-> u] ELSE None

-----------------------------------------------------------------------------
(* All calls.                                                              *)

CallOK(u, c) == FdsOK(c) /\ RanOK(u, c) /\ MmeOK(u, c) /\ SgwOK(u, c) /\ PgwOK(u, c)

\* No two calls share a descriptor, and no call has one in two places.
Apart(call) ==
    \A u, v \in UE :
        /\ call[u].ran # 0 => call[u].ran # call[v].out
        /\ call[u].mme # 0 => call[u].mme # call[v].pgw
        /\ u # v =>
              /\ call[u].ran # 0 => call[u].ran # call[v].ran
              /\ call[u].out # 0 => call[u].out # call[v].out
              /\ call[u].mme # 0 => call[u].mme # call[v].mme
              /\ call[u].pgw # 0 => call[u].pgw # call[v].pgw
              /\ call[u].sgw # 0 => call[u].sgw # call[v].sgw

\* Nothing stands under a descriptor that no call has.
NoStrays(call) ==
    \A f \in Fd :
        /\ mme_fdmap[f] # None => \E u \in UE : f \in {call[u].ran, call[u].out}
        /\ s6a[f] # NoLink \/ s11[f] # NoLink => \E u \in UE : f = call[u].out
        /\ sgw_fdmap[f] # None => \E u \in UE : f \in {call[u].mme, call[u].pgw}
        /\ s5[f] # NoLink => \E u \in UE : f = call[u].pgw
        /\ f \in pgw_fdmap => \E u \in UE : f = call[u].sgw

\* An entry of fdmap and a registration with epoll go together.
Armed ==
    /\ mme_armed = {f \in Fd : mme_fdmap[f] # None}
    /\ sgw_armed = {f \in Fd : sgw_fdmap[f] # None}
    /\ pgw_armed = pgw_fdmap

\* The rounds whose attach the MME has numbered.
Numbered(call) ==
    {a \in Attaches : \/ a[2] < rounds[a[1]]
                      \/ a[2] = rounds[a[1]] /\ call[a[1]].at \notin 1 .. 2}

Calls(call) ==
    /\ \A u \in UE : CallOK(u, call[u])
    /\ Apart(call)
    /\ NoStrays(call)
    /\ Armed
    /\ ue_count = Cardinality(Numbered(call))
    /\ exited = {}

CallInv == TypeOK /\ \E call \in [UE -> Call] : Calls(call)

KbyInv == TypeOK /\ (AllUp => CallInv)
=============================================================================
