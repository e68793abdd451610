----------------------------- MODULE MkbInvariants -----------------------------
(***************************************************************************)
(* An inductive invariant of the multicore nodes.  A round is one call,    *)
(* which passes through the nodes in a fixed order, whichever core serves  *)
(* it where.  Its step determines what its connections and descriptors     *)
(* hold:                                                                   *)
(*                                                                         *)
(*    0 not begun          1 connecting           2 attach sent            *)
(*    3 HSS connecting     4 HSS asked            5 HSS answered           *)
(*    6 challenge sent     7 response sent        8 command sent           *)
(*    9 third attach sent 10 SGW connecting      11 create sent            *)
(*   12 - 14 SGW has entered it in s11_id, s1_id, s5_id                    *)
(*   15 PGW connecting    16 PGW asked                                     *)
(*   17, 18 PGW has entered it in s5_id, sgi_id                            *)
(*   19 PGW answered      20 SGW answered        21 attach accepted        *)
(*   22 complete sent     23 modify sent         24 SGW answered           *)
(*   25 MME answered      26 attached            27 detach sent            *)
(*   28 SGW asked         29 PGW asked                                     *)
(*   30, 31 PGW has removed it from ue_ctx, sgi_id                         *)
(*   32 PGW answered                                                       *)
(*   33 - 35 SGW has removed it from s11_id, s1_id, s5_id                  *)
(*   36 SGW answered      37 MME answered        38 through                *)
(*                                                                         *)
(*   39 cut off before there was an SGW, 40 noticed by the MME             *)
(*   41 cut off later, 42, 43, 44 noticed by MME, SGW, PGW                 *)
(*                                                                         *)
(* The tables are the subscriber's, not the call's: they go by the step of *)
(* its last call, and before that has entered anything they may hold, in   *)
(* whole, what a call that was cut off has left.                           *)
(***************************************************************************)
EXTENDS Mkb

\* Every subscriber has an address of its own: ip_addrs has entries up to
\* MAX_UE_COUNT, and beyond it all would share the empty one.
Addressable == \A u \in UE : u < MAX_UE_COUNT

\* A call's step, and the mme_s1ap_ue_id it gets.
CallState == [at : 0 .. 44, id : {0} \cup UeId]

\* Calls that the terminal cut off.
Cut == 39 .. 44

-----------------------------------------------------------------------------
(* The connections and descriptors of call c, of subscriber u, in state x. *)

S1State(at) == CASE at = 1                       -> "syn"
                 [] at \in (2 .. 36) \cup {39, 41} -> "open"
                 [] at = 37                      -> "shut"
                 [] OTHER                        -> "none"

S1Up(u, x) == CASE x.at \in 1 .. 2 -> [Msg(1) EXCEPT !.imsi = u]
                [] x.at = 7  -> [Msg(2) EXCEPT !.id = x.id, !.imsi = u]
                [] x.at = 9  -> [Msg(3) EXCEPT !.id = x.id]
                [] x.at = 22 -> [Msg(4) EXCEPT !.id = x.id, !.teid = u]
                [] x.at = 27 -> [Msg(5) EXCEPT !.id = x.id, !.imsi = u]
                [] OTHER     -> None

S1Down(u, x) == CASE x.at = 6  -> [Msg(1) EXCEPT !.id = x.id, !.imsi = u]
                  [] x.at = 8  -> [Msg(2) EXCEPT !.id = x.id]
                  [] x.at = 21 -> [Msg(3) EXCEPT !.imsi = u, !.teid = u, !.ip = u]
                  [] x.at = 25 -> [Msg(4) EXCEPT !.imsi = u]
                  [] x.at = 37 -> Msg(5)
                  [] OTHER     -> None

S1OK(u, l, x) ==
    /\ l.state = S1State(x.at)
    /\ l.gone <=> x.at \in {39, 41}
    /\ IF S1State(x.at) = "open" THEN l.core \in MmeCore ELSE l.core = None
    /\ l.up = S1Up(u, x)
    /\ l.down = S1Down(u, x)

S6aOK(u, l, x) ==
    /\ l.state = CASE x.at = 3 -> "syn" [] x.at \in 4 .. 5 -> "open" [] OTHER -> "none"
    /\ ~l.gone
    /\ l.core = None
    /\ l.up = IF x.at = 4 THEN [Msg(1) EXCEPT !.imsi = u] ELSE None
    /\ l.down = IF x.at = 5 THEN [Msg(1) EXCEPT !.imsi = u] ELSE None

\* The server accepts at any time before it takes the first request.
S11State(at) == CASE at \in 10 .. 11                  -> {"syn", "open"}
                  [] at \in (12 .. 35) \cup (41 .. 42) -> {"open"}
                  [] at = 36                          -> {"shut"}
                  [] OTHER                            -> {"none"}

S11Up(u, at) == CASE at = 11 -> [Msg(1) EXCEPT !.teid = u, !.imsi = u]
                  [] at = 23 -> [Msg(2) EXCEPT !.teid = u, !.imsi = u]
                  [] at = 28 -> [Msg(3) EXCEPT !.teid = u]
                  [] OTHER   -> None

S11Down(u, at) == CASE at = 20 -> [Msg(1) EXCEPT !.teid = u, !.ip = u]
                    [] at = 24 -> Msg(2)
                    [] at = 36 -> Msg(3)
                    [] OTHER   -> None

S11OK(u, l, x) ==
    /\ l.state \in S11State(x.at)
    /\ l.gone <=> x.at = 42
    /\ IF l.state = "open" THEN l.core \in SgwCore ELSE l.core = None
    /\ l.up = S11Up(u, x.at)
    /\ l.down = S11Down(u, x.at)

S5State(at) == CASE at \in 15 .. 16                  -> {"syn", "open"}
                 [] at \in (17 .. 31) \cup (41 .. 43) -> {"open"}
                 [] at \in 32 .. 35                  -> {"shut"}
                 [] OTHER                            -> {"none"}

S5Up(u, at) == CASE at = 16 -> [Msg(1) EXCEPT !.teid = u, !.imsi = u]
                 [] at = 29 -> [Msg(4) EXCEPT !.teid = u]
                 [] OTHER   -> None

S5Down(u, at) == CASE at = 19 -> [Msg(1) EXCEPT !.teid = u, !.ip = u]
                   [] at = 32 -> Msg(4)
                   [] OTHER   -> None

S5OK(u, l, x) ==
    /\ l.state \in S5State(x.at)
    /\ l.gone <=> x.at = 43
    /\ IF l.state = "open" THEN l.core \in PgwCore ELSE l.core = None
    /\ l.up = S5Up(u, x.at)
    /\ l.down = S5Down(u, x.at)

MmeWait(act, x, buf) == [act |-> act, sgw |-> FALSE, msui |-> x.id, buf |-> buf]

MmeEntry(u, x) ==
    CASE x.at = 2 \/ x.at \in 6 .. 9 \/ x.at = 39                  -> FromRan(FALSE)
      [] x.at = 3                                                -> MmeWait(2, x, [Msg(1) EXCEPT !.imsi = u])
      [] x.at \in 4 .. 5                                         -> MmeWait(3, x, None)
      [] x.at = 10                                               -> MmeWait(4, x, [Msg(1) EXCEPT !.teid = u, !.imsi = u])
      [] x.at \in 11 .. 20                                       -> MmeWait(5, x, None)
      [] x.at \in 21 .. 22 \/ x.at \in 25 .. 27 \/ x.at = 41     -> FromRan(TRUE)
      [] x.at \in 23 .. 24                                       -> MmeWait(6, x, None)
      [] x.at \in 28 .. 36                                       -> MmeWait(7, x, None)
      [] OTHER                                                   -> None

SgwWait(u, act, buf) == [act |-> act, pgw |-> FALSE, tid |-> u, guti |-> u, buf |-> buf]

\* state: that of the connection from the MME.
SgwFdEntry(u, state, at) ==
    CASE at \in 10 .. 11 /\ state = "open"     -> FromMme(FALSE)
      [] at \in 12 .. 14                       -> FromMme(FALSE)
      [] at = 15                               -> SgwWait(u, 2, [Msg(1) EXCEPT !.teid = u, !.imsi = u])
      [] at \in 16 .. 19                       -> SgwWait(u, 3, None)
      [] at \in 20 .. 28 \/ at \in 41 .. 42    -> FromMme(TRUE)
      [] at \in 29 .. 35                       -> SgwWait(u, 4, None)
      [] OTHER                                 -> None

\* What a core of a gateway is in the middle of.
SgwJobOf(c, at) ==
    [call |-> c, do |-> IF at < 15 THEN "create" ELSE "remove",
     at |-> CASE at \in {12, 33} -> "s1" [] at \in {13, 34} -> "s5" [] at \in {14, 35} -> "ue_ctx",
     teid |-> c[1], imsi |-> c[1]]

PgwJobOf(c, at) ==
    [call |-> c, do |-> IF at < 19 THEN "create" ELSE "remove",
     at |-> CASE at \in {17, 30} -> "sgi_id" [] at = 18 -> "ue_ctx" [] at = 31 -> "s5_id",
     teid |-> c[1], imsi |-> c[1], ip |-> c[1]]

SgwWorks == (12 .. 14) \cup (33 .. 35)

PgwWorks == (17 .. 18) \cup (30 .. 31)

\* Where a call stands among its terminal's, and what was kept for it.
PlaceOK(c, x) ==
    /\ x.at = 0 <=> c[2] > rounds[c[1]]
    /\ c[2] < rounds[c[1]] => x.at \in 38 .. 44
    /\ x.id = 0 <=> x.at \in 0 .. 2
    /\ c \in hung <=> x.at \in Cut
    /\ c \in mme_srcaddr <=> x.at \in (10 .. 36) \cup (41 .. 44)

LinksOK(c, x) ==
    /\ S1OK(c[1], link["s1"][c], x) /\ S6aOK(c[1], link["s6a"][c], x)
    /\ S11OK(c[1], link["s11"][c], x) /\ S5OK(c[1], link["s5"][c], x)

FdsOK(c, x) ==
    /\ mme_fd[c] = MmeEntry(c[1], x)
    /\ sgw_fd[c] = SgwFdEntry(c[1], link["s11"][c].state, x.at)
    /\ c \in pgw_fd <=> link["s5"][c].state = "open"

WorkOK(c, x) ==
    /\ x.at \in SgwWorks => sgw_job[link["s11"][c].core] = SgwJobOf(c, x.at)
    /\ x.at \in PgwWorks => pgw_job[link["s5"][c].core] = PgwJobOf(c, x.at)

CallOK(c, x) == PlaceOK(c, x) /\ LinksOK(c, x) /\ FdsOK(c, x) /\ WorkOK(c, x)

-----------------------------------------------------------------------------
(* Terminal u and the tables, by the state x of its last call; without one *)
(* they are as after a detach.                                             *)

NoCall == [at |-> 38, id |-> 0]

Last(call, u) == IF rounds[u] = 0 THEN NoCall ELSE call[Current(u)]

Pc(at) == CASE at \in 1 .. 6   -> "authenticate"
            [] at \in 7 .. 8   -> "set_security"
            [] at \in 9 .. 21  -> "set_eps_session"
            [] at \in 22 .. 25 -> "attach_complete"
            [] at = 26         -> "attached"
            [] at \in 27 .. 37 -> "detach"
            [] OTHER           -> "idle"

RanOK(u, x) ==
    /\ ran_pc[u] = Pc(x.at)
    /\ x.at \in 7 .. 37 => ran_ctx[u].id = x.id
    /\ x.at \in 22 .. 37 => ran_ctx[u].guti = u /\ ran_ctx[u].s1_uteid_ul = u /\ ran_ctx[u].ip = u

MmeOK(u, x) ==
    /\ x.at \in 3 .. 36 => s1mme_id[x.id] = u /\ mme_ctx[u] # None /\ mme_ctx[u].imsi = u
    /\ x.at \in 6 .. 36 => mme_ctx[u].xres = u
    /\ x.at \in 21 .. 36 => mme_ctx[u].s11_cteid_sgw = u
    /\ x.at \in 25 .. 36 => mme_ctx[u].ecm_state = 1
    /\ x.at \in 37 .. 38 /\ Pause(u) => mme_ctx[u] = None

\* The tables that the SGW is through with.
SgwDone(at) == CASE at \in {12, 33} -> {"s11"}
                 [] at \in {13, 34} -> {"s11", "s1"}
                 [] at \in {14, 35} -> {"s11", "s1", "s5"}
                 [] OTHER           -> {}

SgwEntryOf(u, table, at) ==
    CASE at \in 12 .. 14 /\ table \in SgwDone(at) -> u
      [] at \in 33 .. 35 /\ table \in SgwDone(at) -> 0
      [] OTHER                                    -> IF sgw_ctx[u] # None THEN u ELSE 0

SgwOK(u, x) ==
    /\ x.at \in (15 .. 35) \cup (41 .. 44) => sgw_ctx[u] # None
    /\ x.at \in 36 .. 38 => sgw_ctx[u] = None
    /\ \A table \in {"s11", "s1", "s5"} : sgw_id[table][u] = SgwEntryOf(u, table, x.at)
    /\ x.at \in 15 .. 35 => sgw_ctx[u].teid = u
    /\ x.at \in 20 .. 35 => sgw_ctx[u].s5_ul = u
    /\ x.at \in 24 .. 35 => sgw_ctx[u].s1_uteid_dl = u

PgwEntryOf(u, early, at) == IF at \in early \/ pgw_ctx[u] # None THEN u ELSE 0

PgwOK(u, x) ==
    /\ pgw_ctx[u] # None => pgw_ctx[u] = [teid |-> u, ip_addr |-> u] /\ sgw_ctx[u] # None
    /\ x.at \in (19 .. 29) \cup (41 .. 44) => pgw_ctx[u] # None
    /\ x.at \in 30 .. 38 => pgw_ctx[u] = None
    /\ pgw_s5_id[u] = PgwEntryOf(u, {17, 18, 30, 31}, x.at)
    /\ sgi_id[u] = PgwEntryOf(u, {18, 30}, x.at)

UserOK(u, x) ==
    /\ rounds[u] <= Rounds[u]
    /\ RanOK(u, x) /\ MmeOK(u, x) /\ SgwOK(u, x) /\ PgwOK(u, x)

-----------------------------------------------------------------------------
(* All calls and cores.                                                    *)

\* A core works on what a call has it do.
JobsOK(call) ==
    /\ \A k \in SgwCore : sgw_job[k] # None =>
          LET c == sgw_job[k].call
          IN  call[c].at \in SgwWorks /\ link["s11"][c].core = k
    /\ \A k \in PgwCore : pgw_job[k] # None =>
          LET c == pgw_job[k].call
          IN  call[c].at \in PgwWorks /\ link["s5"][c].core = k

\* What is left to remove is that of the terminal's last call, and of one core.
RemovalsOK(call) ==
    \A k \in MmeCore : mme_removal[k] # None =>
        LET r == mme_removal[k]
        IN  /\ r.tables \in {{"s1mme_id", "ue_ctx"}, {"ue_ctx"}}
            /\ Last(call, r.guti).at \in 37 .. 38
            /\ Last(call, r.guti).id = r.id
            /\ \A l \in MmeCore : mme_removal[l] # None /\ mme_removal[l].guti = r.guti => l = k

\* An identifier is to be removed.
Leaving(id) ==
    \E k \in MmeCore : mme_removal[k] # None /\ mme_removal[k].id = id
                                             /\ "s1mme_id" \in mme_removal[k].tables

\* No two calls have the same identifier, and an entry of s1mme_id is that of a call
\* which still needs it, was cut off, or has it removed.
IdsOK(call) ==
    /\ \A c \in Call : call[c].id <= ue_count
    /\ \A c, d \in Call : call[c].id = call[d].id /\ call[c].id # 0 => c = d
    /\ \A i \in UeId : s1mme_id[i] # 0 => \E c \in Call :
          /\ call[c].id = i /\ c[1] = s1mme_id[i]
          /\ call[c].at \in (3 .. 36) \cup Cut \/ Leaving(i)

\* The calls that the MME has numbered.
Numbered(call) == {c \in Call : call[c].id # 0}

Calls(call) ==
    /\ \A c \in Call : CallOK(c, call[c])
    /\ \A u \in UE : UserOK(u, Last(call, u))
    /\ JobsOK(call) /\ RemovalsOK(call) /\ IdsOK(call)
    /\ ue_count = Cardinality(Numbered(call))
    /\ exited = {}

CallInv == TypeOK /\ \E call \in [Call -> CallState] : Calls(call)
=============================================================================
