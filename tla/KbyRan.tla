-------------------------------- MODULE KbyRan --------------------------------
(***************************************************************************)
(* The RAN simulator of v3.0 and the HSS: a terminal opens a connection    *)
(* for each round, and waits for the answer of every message it sends, the *)
(* attach complete included.                                               *)
(***************************************************************************)
EXTENDS KbyBase

VARIABLES
    ran_pc,      \* what each terminal does or waits for next
    ran_ctx,     \* what it knows
    rounds       \* rounds it has begun

ranVars == <<ran_pc, ran_ctx, rounds>>

RanContext == [id : {0} \cup UeId, guti : Teid, s1_uteid_ul : Teid, ip : Teid]

NewRanContext == [id |-> 0, guti |-> 0, s1_uteid_ul |-> 0, ip |-> 0]

KbyRanTypeOK ==
    /\ ran_pc \in [UE -> {"idle", "authenticate", "set_security", "set_eps_session",
                          "attach_complete", "attached", "detach"}]
    /\ ran_ctx \in [UE -> RanContext]
    /\ rounds \in [UE -> Nat]

KbyRanInit ==
    /\ ran_pc = [u \in UE |-> "idle"]
    /\ ran_ctx = [u \in UE |-> NewRanContext]
    /\ rounds = [u \in UE |-> 0]

Goto(u, from, to) ==
    /\ ran_pc[u] = from
    /\ ran_pc' = [ran_pc EXCEPT ![u] = to]
    /\ UNCHANGED <<s6a, s11, s5, exited>>

-----------------------------------------------------------------------------
\* A round: a new Ran, conn_mme and initial_attach.
Attach(u) ==
    /\ Goto(u, "idle", "authenticate")
    /\ rounds[u] < Rounds[u]
    /\ rounds' = [rounds EXCEPT ![u] = @ + 1]
    /\ ran_ctx' = [ran_ctx EXCEPT ![u] = NewRanContext]
    /\ s1' = SendUp(Connect(s1, u), u, [Msg(1) EXCEPT !.imsi = u])

\* A step takes the next message for the one it waits for and sends a request of
\* the given type, unless it has none to send.
Step(u, from, to, ctx, request) ==
    /\ Goto(u, from, to)
    /\ s1[u].down # None
    /\ s1' = [s1 EXCEPT ![u].down = None, ![u].up = request]
    /\ ran_ctx' = [ran_ctx EXCEPT ![u] = ctx]
    /\ UNCHANGED rounds

\* A false autn makes authenticate return -1, which is true in a bool: the
\* terminal goes on to its next receive without a request.
Authenticate(u) ==
    LET m == s1[u].down
    IN  Step(u, "authenticate", "set_security", [ran_ctx[u] EXCEPT !.id = m.id],
             IF m.imsi = u THEN [Msg(2) EXCEPT !.id = m.id, !.imsi = u] ELSE None)

SetSecurity(u) ==
    Step(u, "set_security", "set_eps_session", ran_ctx[u],
         [Msg(3) EXCEPT !.id = ran_ctx[u].id])

SetEpsSession(u) ==
    LET m == s1[u].down
    IN  Step(u, "set_eps_session", "attach_complete",
             [ran_ctx[u] EXCEPT !.guti = m.imsi, !.s1_uteid_ul = m.teid, !.ip = m.ip],
             [Msg(4) EXCEPT !.id = ran_ctx[u].id, !.teid = m.teid])

\* Deviation: attach complete is not waited for, as in v1.0.
AttachComplete_NoWait(u) ==
    /\ Goto(u, "attach_complete", "attached")
    /\ UNCHANGED <<s1, ran_ctx, rounds>>

AttachComplete(u) == Step(u, "attach_complete", "attached", ran_ctx[u], None)

Detach(u) ==
    /\ Goto(u, "attached", "detach")
    /\ s1' = SendUp(s1, u, [Msg(5) EXCEPT !.id = ran_ctx[u].id, !.imsi = ran_ctx[u].guti])
    /\ UNCHANGED <<ran_ctx, rounds>>

\* The Ran of the round is destroyed, and with it the connection.
Detached(u) ==
    /\ Goto(u, "detach", "idle")
    /\ s1[u].down # None
    /\ s1' = [s1 EXCEPT ![u] = NoLink]
    /\ UNCHANGED <<ran_ctx, rounds>>

RanNext(u) ==
    \/ Attach(u) \/ Authenticate(u) \/ SetSecurity(u) \/ SetEpsSession(u)
    \/ AttachComplete(u) \/ Detach(u) \/ Detached(u)

\* The HSS answers an authentication request with a vector of that subscriber.
HssAnswer(f) ==
    /\ s6a[f].up # None
    /\ s6a' = Answer(s6a, f, [s6a[f].up EXCEPT !.id = 0])
    /\ UNCHANGED <<ranVars, s1, s11, s5, exited>>
=============================================================================
