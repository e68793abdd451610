---------------------------------- MODULE Mkb ----------------------------------
(***************************************************************************)
(* The core over kernel bypass: terminals, HSS, and the cores of MME, SGW  *)
(* and PGW, each of which handles any one of the events it has.  The model *)
(* stops when a node exits: its peers would find their connections broken. *)
(***************************************************************************)
EXTENDS MkbPgw

vars == <<ranVars, mmeVars, sgwVars, pgwVars, linkVars>>

Init == MkbBaseInit /\ MkbRanInit /\ MkbMmeInit /\ MkbSgwInit /\ MkbPgwInit

RanNext(u) == (Attach(u) \/ RanStep(u)) /\ UNCHANGED <<mmeVars, sgwVars, pgwVars>>

HssNext(c) == HssAnswer(c) /\ UNCHANGED <<mmeVars, sgwVars, pgwVars>>

MmeNext(k) ==
    /\ MmeRemove(k) \/ \E c \in Call : MmeServe(k, c)
    /\ UNCHANGED <<ranVars, sgwVars, pgwVars>>

SgwNext(k) ==
    /\ SgwWork(k) \/ \E c \in Call : SgwServe(k, c)
    /\ UNCHANGED <<ranVars, mmeVars, pgwVars>>

PgwNext(k) ==
    /\ PgwWork(k) \/ \E c \in Call : PgwServe(k, c)
    /\ UNCHANGED <<ranVars, mmeVars, sgwVars>>

Serving ==
    \/ \E u \in UE : RanNext(u)
    \/ \E c \in Call : HssNext(c)
    \/ \E k \in MmeCore : MmeNext(k)
    \/ \E k \in SgwCore : SgwNext(k)
    \/ \E k \in PgwCore : PgwNext(k)

\* All terminals are through, every connection is closed at both ends and every
\* entry is gone.
Quiet ==
    /\ \A u \in UE : ran_pc[u] = "idle" /\ rounds[u] = Rounds[u]
    /\ \A i \in Interface, c \in Call : link[i][c] = NoLink
    /\ \A c \in Call : mme_fd[c] = None /\ sgw_fd[c] = None
    /\ pgw_fd = {}
    /\ \A k \in MmeCore : mme_removal[k] = None

Next ==
    \/ exited = {} /\ Serving
    \/ (Quiet \/ exited # {}) /\ UNCHANGED vars

Spec == Init /\ [][Next]_vars

-----------------------------------------------------------------------------
(* What the control plane must keep to.                                   *)

\* Every variable stays in its type: keys, entries and what cores have to do.
TypeOK ==
    /\ MkbBaseTypeOK /\ MkbRanTypeOK /\ MkbMmeTypeOK /\ MkbSgwTypeOK /\ MkbPgwTypeOK

\* Whichever cores serve a terminal's rounds, and whatever earlier rounds left
\* behind, no lookup or cross check ends a node: a terminal never meets the
\* remains of its own last round half removed.  This rests on Pause; and there are
\* other cores only where MAX_THREADS, line 3 of each node's source, is raised above
\* the 1 it is committed with.
NoExit == exited = {}

\* An attached terminal has a connection from node to node, each waiting for its
\* next request, and the shared tables of all nodes agree with the terminal,
\* whatever the other cores are doing.  The downlink TEID towards the PGW that the
\* MME stores is not compared: its value is another call's (SgwCreateAnswer).
BearerConnected ==
    \A u \in UE : ran_pc[u] = "attached" =>
        LET c == Current(u)
        IN  /\ \A i \in {"s1", "s11", "s5"} : link[i][c].state = "open"
            /\ mme_fd[c] = FromRan(TRUE) /\ sgw_fd[c] = FromMme(TRUE) /\ c \in pgw_fd
            /\ c \in mme_srcaddr
            /\ s1mme_id[ran_ctx[u].id] = u /\ ran_ctx[u].guti = u
            /\ mme_ctx[u] = [imsi |-> u, xres |-> u, s11_cteid_sgw |-> u, ecm_state |-> 1]
            /\ \A i \in {"s11", "s1", "s5"} : sgw_id[i][u] = u
            /\ sgw_ctx[u] = [teid |-> u, s1_uteid_dl |-> ran_ctx[u].s1_uteid_ul, s5_ul |-> u]
            /\ pgw_s5_id[u] = u /\ sgi_id[ran_ctx[u].ip] = u
            /\ pgw_ctx[u] = [teid |-> u, ip_addr |-> ran_ctx[u].ip]

\* SGW and PGW entries of a subscriber.
SgwEntries(u) == {i \in {"s11", "s1", "s5"} : sgw_id[i][u] # 0} \cup
                 (IF sgw_ctx[u] # None THEN {"ue_ctx"} ELSE {})

PgwEntries(u) == {n \in {"s5_id"} : pgw_s5_id[u] # 0} \cup {n \in {"sgi_id"} : sgi_id[u] # 0} \cup
                 (IF pgw_ctx[u] # None THEN {"ue_ctx"} ELSE {})

\* A subscriber that no core of a gateway is working on has an entry in all of its
\* tables or in none; and the PGW never has one that is not complete in the SGW.
GatewaysAgree ==
    \A u \in UE :
        /\ (\A k \in SgwCore : sgw_job[k] = None \/ sgw_job[k].teid # u)
               => SgwEntries(u) \in {{}, {"s11", "s1", "s5", "ue_ctx"}}
        /\ (\A k \in PgwCore : pgw_job[k] = None \/ pgw_job[k].imsi # u)
               => PgwEntries(u) \in {{}, {"s5_id", "sgi_id", "ue_ctx"}}
        /\ PgwEntries(u) # {} => SgwEntries(u) = {"s11", "s1", "s5", "ue_ctx"}

\* The MME is through with the terminal's last round.
Settled(u) == ran_pc[u] = "idle" /\ Pause(u)

\* A terminal whose rounds all ended with a detach has left nothing in any table
\* of any node, and a source address is kept by no call but one that was cut off.
NoResidue ==
    /\ \A u \in UE : (Settled(u) /\ ~ \E c \in hung : c[1] = u) =>
          /\ mme_ctx[u] = None /\ u \notin Range(s1mme_id)
          /\ SgwEntries(u) = {} /\ PgwEntries(u) = {}
    /\ \A c \in mme_srcaddr : c \in hung \/ (c = Current(c[1]) /\ ran_pc[c[1]] # "idle")

\* The nodes come to rest only when all rounds are through and every connection,
\* those of rounds that were cut off included, is closed from node to node: no
\* core waits for what nobody sends.  (No step repeats, as rounds are bounded.)
CallsEnd == exited = {} /\ ~ENABLED Serving => Quiet
=============================================================================
