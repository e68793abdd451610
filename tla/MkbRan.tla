-------------------------------- MODULE MkbRan --------------------------------
(***************************************************************************)
(* The RAN simulator and the HSS that the multicore nodes are run with.    *)
(***************************************************************************)
EXTENDS MkbBase

VARIABLES
    ran_pc,     \* what each terminal does or waits for next
    ran_ctx,    \* what it knows
    rounds,     \* rounds it has begun
    hung        \* calls that ended without a detach

ranVars == <<ran_pc, ran_ctx, rounds, hung>>

NewRanContext == [id |-> 0, guti |-> 0, s1_uteid_ul |-> 0, ip |-> 0]

MkbRanTypeOK ==
    /\ ran_pc \in [UE -> {"idle", "authenticate", "set_security", "set_eps_session",
                          "attach_complete", "attached", "detach"}]
    /\ ran_ctx \in [UE -> [id : {0} \cup UeId, guti : Teid, s1_uteid_ul : Teid, ip : Teid]]
    /\ rounds \in [UE -> Nat] /\ \A u \in UE : rounds[u] <= Rounds[u]
    /\ hung \subseteq Call

MkbRanInit ==
    /\ ran_pc = [u \in UE |-> "idle"]
    /\ ran_ctx = [u \in UE |-> NewRanContext]
    /\ rounds = [u \in UE |-> 0]
    /\ hung = {}

\* The call a terminal is in, or was in last.
Current(u) == <<u, rounds[u]>>

Goto(u, from, to) ==
    /\ ran_pc[u] = from
    /\ ran_pc' = [ran_pc EXCEPT ![u] = to]
    /\ UNCHANGED exited

-----------------------------------------------------------------------------
\* A round: a new Ran, conn_mme and initial_attach.
RanAttach(u) ==
    /\ Goto(u, "idle", "authenticate")
    /\ rounds[u] < Rounds[u]
    /\ rounds' = [rounds EXCEPT ![u] = @ + 1]
    /\ ran_ctx' = [ran_ctx EXCEPT ![u] = NewRanContext]
    /\ LET c == <<u, rounds[u] + 1>>
       IN  link' = SendUp(Connect(link, "s1", c), "s1", c, [Msg(1) EXCEPT !.imsi = u])
    /\ UNCHANGED hung

\* A step takes the next message for the one it waits for and sends a request, or
\* nothing.
Step(u, from, to, ctx, request) ==
    /\ Goto(u, from, to)
    /\ link["s1"][Current(u)].down # None
    /\ link' = SendUp(ReadDown(link, "s1", Current(u)), "s1", Current(u), request)
    /\ ran_ctx' = [ran_ctx EXCEPT ![u] = ctx]
    /\ UNCHANGED <<rounds, hung>>

Answer(u) == link["s1"][Current(u)].down

\* authenticate: the autn of the answer is that of the terminal's key.
Authenticate(u) ==
    /\ Step(u, "authenticate", "set_security", [ran_ctx[u] EXCEPT !.id = Answer(u).id],
            [Msg(2) EXCEPT !.id = Answer(u).id, !.imsi = u])
    /\ Answer(u).imsi = u

SetSecurity(u) ==
    Step(u, "set_security", "set_eps_session", ran_ctx[u],
         [Msg(3) EXCEPT !.id = ran_ctx[u].id])

SetEpsSession(u) ==
    Step(u, "set_eps_session", "attach_complete",
         [ran_ctx[u] EXCEPT !.guti = Answer(u).imsi, !.s1_uteid_ul = Answer(u).teid,
                            !.ip = Answer(u).ip],
         [Msg(4) EXCEPT !.id = ran_ctx[u].id, !.teid = Answer(u).teid])

\* The second receive of set_eps_session.
AttachComplete(u) == Step(u, "attach_complete", "attached", ran_ctx[u], None)

Detach(u) ==
    /\ Goto(u, "attached", "detach")
    /\ link' = SendUp(link, "s1", Current(u),
                      [Msg(5) EXCEPT !.id = ran_ctx[u].id, !.imsi = ran_ctx[u].guti])
    /\ UNCHANGED <<ran_ctx, rounds, hung>>

\* The end of a round destroys its Ran and with it the connection.
Detached(u) ==
    /\ Goto(u, "detach", "idle")
    /\ link["s1"][Current(u)].down # None
    /\ link' = ClientClose(ReadDown(link, "s1", Current(u)), "s1", Current(u))
    /\ UNCHANGED <<ran_ctx, rounds, hung>>

\* A terminal that has read an answer leaves without a detach: authenticate fails,
\* or the simulator is ended.  The terminal's next round is that of a later run.
HangUp(u) ==
    /\ Goto(u, ran_pc[u], "idle")
    /\ \/ ran_pc[u] = "attached"
       \/ ran_pc[u] \notin {"idle", "attached", "detach"} /\ Answer(u) # None
    /\ \/ Cardinality(hung) < MaxHangups
       \/ ran_pc[u] = "authenticate" /\ Answer(u).imsi # u
    /\ link' = ClientClose(ReadDown(link, "s1", Current(u)), "s1", Current(u))
    /\ hung' = hung \cup {Current(u)}
    /\ UNCHANGED <<ran_ctx, rounds>>

RanStep(u) ==
    \/ Authenticate(u) \/ SetSecurity(u) \/ SetEpsSession(u)
    \/ AttachComplete(u) \/ Detach(u) \/ Detached(u) \/ HangUp(u)

\* The HSS answers the authentication request of call c; the subscriber's number
\* stands for RAND, AUTN, XRES and K_ASME.
HssAnswer(c) ==
    /\ link["s6a"][c].up # None
    /\ link' = SendDown(ReadUp(link, "s6a", c), "s6a", c,
                        [Msg(1) EXCEPT !.imsi = link["s6a"][c].up.imsi])
    /\ UNCHANGED <<ranVars, exited>>
=============================================================================
