# NFV_LTE_EPC in TLA+

A verification development for NFV_LTE_EPC, the LTE packet core of
`NFV_LTE_EPC-1.0` (multithreaded C++), `NFV_LTE_EPC-2.0` (the same nodes
replicated over a key-value store) and `NFV_LTE_EPC-3.0` (event-driven nodes over
user-space TCP, one core or several). Five models cover the control plane of all
three versions:

| Family | Source | What is new in it |
|---|---|---|
| `Epc` (sections 2-6) | `NFV_LTE_EPC-1.0/src` | server threads over shared tables; theorems |
| `Handover` (section 10) | `NFV_LTE_EPC-1.0/src` | an S1 handover, composed with `Epc`; liveness of v1.0 |
| `Repl` (section 7) | `NFV_LTE_EPC-2.0/src`, its fault tolerant simulator, the store interface | replicas, stores, caches, replication; crashes, restarts, losses, retries; theorems |
| `Kby` (section 8) | `NFV_LTE_EPC-3.0/EPC 3.0 Control Plane` | event loops, state keyed by descriptors that are reused; theorems |
| `Mkb` (section 9) | `NFV_LTE_EPC-3.0/EPC over kernel bypass` | event loops on several cores over shared tables, terminals that leave; theorems |

In sections 2 to 6 and 10 files are in `src/NFV_LTE_EPC-1.0/src/` unless a path says
otherwise.

## 1. The system

| Component | State | Operations | Talks to |
|---|---|---|---|
| RAN simulator (`ran.cpp`, `ran_simulator.cpp`) | per thread a `RanContext` | connect; then, until the run duration has passed: attach, authenticate, set security, set EPS session, transfer, detach | MME (S1AP on SCTP, one connection per thread), SGW (user data) |
| Handover simulator (`ran_simulator_handover.cpp`, `ran.cpp`) | two `Ran` objects, source and target, each with a `handover_state` | attach at the source; start, sleep, complete; serve the MME's messages | MME, on connections that either side opens |
| S1-MME transport (`sctp_server.cpp`, `sctp_client.cpp`, `network.cpp`) | listen queue, pipe per worker, `turn` | accept and hand out connections round-robin, send, receive, drop on end of file | RAN, MME |
| MME (`mme.cpp`, `mme_server.cpp`) | `ue_count`, `s1mme_id`, `ue_ctx`, two locks; per worker an HSS and an SGW client | initial attach, authentication response, security mode, attach complete, detach, handover | HSS (Diameter on SCTP), SGW (GTP on UDP) |
| HSS (`hss.cpp`, `hss_server.cpp`, `mysql.cpp`) | tables `autn_info`, `loc_info` | authentication info, location update | MME |
| SGW (`sgw.cpp`, `sgw_server.cpp`) | `s11_id`, `s1_id`, `s5_id`, `ue_ctx`, `ho_ue_ctx`, a lock for each of the first four | create session, modify bearer, detach, indirect tunnels (handover); forward uplink and downlink | MME, PGW, RAN |
| PGW (`pgw.cpp`, `pgw_server.cpp`) | `s5_id`, `sgi_id`, `ue_ctx`, `ip_addrs`, three locks | create session, detach; forward uplink and downlink | SGW, sink |
| UDP transport (`udp_server.cpp`, `udp_client.cpp`) | sockets | a server socket shared by its threads; a client's send and its receive with a five-second timeout | MME, SGW, PGW |
| Security (`security.cpp`, `telecom.cpp`) | constant keys | cipher, HMAC, numbering | RAN, MME |
| Sink, TUN, traffic monitor | routing | data plane | PGW, RAN |
| v2.0 MME, SGW, PGW replicas | the v1.0 tables, as caches; a store per cluster | the v1.0 handlers between `pull_context`, `push_context` and `erase_context`; `send_replication`, `receive_replication` | each other through load balancers, the store, their siblings |
| v2.0 fault tolerant simulator | `RanContext`, a retry counter | the attach and detach steps, each retried on fresh connections, then the attach, then a fresh start | MME cluster |
| v3.0 nodes, single core | `fdmap`, the tables | one event loop per node; an `act` per descriptor says what its next event means | each other, over mTCP |
| v3.0 nodes, several cores | an `fdmap` per core, tables shared under mutexes, at the MME a pool of source addresses per core | one event loop per core | each other, over mTCP |

An attach takes five round trips: terminal to MME, MME to HSS, back to the
terminal twice, MME to SGW to PGW, and, with nobody waiting at the terminal, the
attach complete and the bearer modification that it starts. Every answer is read
by a blocking receive of "the next message". The components share nothing but
messages; the threads of one component share its tables.

What is hard here: the interleaving of server threads between the locked sections
of a handler; gateways that answer a detach before they remove its state; receivers
that never compare the type or number of a message; a process that exits when a
table has no entry; the terminal going on to detach while its bearer is still being
set up; a TEID, the last nine digits of the GUTI, that is the only name of a session.
In v2.0: a context pulled before and pushed after an answer; caches that are never
told of a change; a replica that dies between an effect and its record; retries of what was
already done. In v3.0: variables of the loop that all calls share; descriptors that
come back under another call; a registration that a handler forgets to move; cores that
enter and remove a subscriber table by table while others read the tables.
What makes each component correct:

- RAN: it reads only what it waits for; it is attached only with a bearer in both directions.
- Transport: every connection is served, in order, by one worker.
- MME: ids, contexts and keys belong to the subscriber on whose connection they are used; an answer is the answer to the request; nothing is left after a detach.
- HSS: only a terminal that holds the key of its row gets a session.
- SGW, PGW: a subscriber has a context and exactly one entry in each table, or none of them, whenever no thread is at work on it.
- Replicas: what is answered is in the store, or with the siblings, before anybody can
  ask another replica for it; a retry gets through.
- Event loops: no call leaks or shares a descriptor, no event is waited for that
  nobody causes.
- All: no assertion fails, every request is eventually answered.

`PROJECT.json` lists every component, the ones that are not modelled too, and the
hazards at their lines.

## 2. The modules of v1.0

| Module | Models | Correspondence |
|---|---|---|
| `EpcBase` | numbering, key derivation, messages, process exit | A subscriber is the number of its RAN thread; MSISDN, IMSI and GUTI are fixed prefixes before it. `S11CteidMme`, `IpAddr`, `Xres`, `KAsme`, `KNasMme`, `KNasRan` compute what the code computes. `Type1Error(p)` is `handle_type1_error`: process `p` joins `exited` and does nothing more |
| `SctpServer` | S1-MME transport | `backlog` the listen queue, `turn` the master thread's variable, `conn_worker` the pipe and descriptor set a connection ended up in, `s1ap_up/dn` the two streams, `closed` end of file |
| `Ran` | `simulate()` | one action per blocking step; `ran_pc` is where the thread stands |
| `Udp` | S11 and S5-C | sets of datagrams: no order. A message carries the asking thread, which stands for the address the answer goes back to |
| `Hss` | `handle_autninfo_req` | rows of `autn_info` are the constants `HssKey`, `HssRand` |
| `Mme` | the worker threads | a handler is cut where it blocks in `rcv`, and at each locked removal after the detach answer; `mme_job` holds its locals |
| `Sgw`, `Pgw` | S11 and S5 threads | a handler is cut at every lock; `sgw_job`, `pgw_job` hold its locals, `sgw_itf` the remaining `update_itfid`/`rem_itfid` calls |
| `Epc` | the composition | `Next` interleaves one step of any thread; `Terminating` lets a finished or exited system stutter, so that TLC's deadlock check finds real ones |
| `EpsBearer` | abstract specification | phases of a subscriber and the nodes that serve it |
| `EpcProperties` | properties, refinement mapping | |
| `EpcInvariants` | inductive invariants `TypeInv`, `OneCall`, `UeInv`, `SessionInv`, `GenuineInv`, `GwInv` | `View(u)` is all that terminal and MME hold of one subscriber, `SgwView`, `PgwView` all that a gateway does |
| `EpcUeProofs`, `EpcSessionProofs`, `EpcBearerProofs` | theorems, section 6 | each extends the one before it |
| `MCEpc` and `MCEpc*.cfg` | instances | |

Decisions a reader should know:

- **Locks.** `mlock`/`munlock` protect single table accesses, so an action is one
  locked section of SGW or PGW. In a handler of the MME the sections are merged,
  because they touch only entries of the subscriber whose connection the worker
  owns and no other worker reads them; `ue_count` is updated together with
  `s1mme_id` under one lock. The removals after the detach answer are kept apart,
  since the terminal can act in between.
- **HMAC and cipher.** `Integrity::get_hmac` and `Crypt` use constant keys
  (`security.cpp:98`) and ignore the NAS key passed in. An HMAC is therefore
  always right, and a message only carries one or does not. Whether the two sides
  derived the same keys shows in no message; `KeysAgree` states it directly.
- **Operator[].** A missing entry read with `operator[]` is created with the
  constructor's zeros: `MmeCtx`, `SgwCtx`, `PgwCtx`.
- **Unset fields.** TEIDs never assigned are 0, which is a member of `Teid` and a key
  of the tables: erasing entry 0 is possible in the code and in the model. The
  instances have a subscriber 0 whose own TEID it is.
- **Result flags.** Every `res` item on the modelled paths is the constant true; its
  failure branches are not modelled.
- **Exit.** After a process has exited the others may go on, and the run may stop;
  nothing restarts it. Reconnection is not in the code.
- **Message types.** The servers' dispatch ignores unknown types with a trace line.
  A message type that a server does not know is never sent, and that no thread reads
  a type it does not expect is the property `RanReadsExpected`.
- **Bound.** `MaxRounds` limits the attach/detach rounds of a terminal, which the code
  limits by time (`TimeExceeded`, which may happen before any round).
- **Widths.** Identifiers stay below 2^32 (`UEAssumption`), so no arithmetic wraps.
  `mme_s1ap_ue_id` would after 2^32 attaches (`mme.cpp:132`); no instance comes near, and
  no property speaks of it.

## 3. The properties of v1.0

- `NoExit`: no assertion of the program fails.
- `BearerConnected`: while a terminal transfers, uplink and downlink lead through the
  tables of SGW and PGW to that terminal. Before the bearer modification arrives the
  SGW has no eNodeB address; the downlink part asks for the right TEID from then on.
- `KeysAgree`, `OnlyAuthenticated`: authentication.
- `RanReadsExpected`, `AnswersMatch`, `OneCall`: messages without types or numbers
  reach whom they are for.
- `SgwConsistent`, `PgwConsistent`, `NoResidue`: tables agree with each other, and
  after a detach nothing is left. A subscriber a thread is working on is exempt, as
  is a terminal that refused the network: the MME is not told (`ran.cpp:168`) and
  keeps its entries.
- `ImplementsBearer`: the whole implements `EpsBearer` under the mapping `Phase` and
  `Serving`. A gateway serves a subscriber when context and all entries are there.
- `NoInterference`: `NoExit`, `BearerConnected`, `RanReadsExpected`, `SessionsMatch`
  (a create's answer names tunnels of the subscriber its reader serves),
  `SgwConsistent`, `PgwConsistent` and `NoResidue` together, for the run in which
  threads serve different subscribers at once.
- Liveness is checked in the run `handover` (section 10), whose ordinary terminals are
  those of `Epc`.

## 4. The runs of v1.0

| Run | Instance | What it shows |
|---|---|---|
| `reattach` | 2 subscribers, 2 workers, 1 thread per gateway port, 2 rounds | all safety properties and the refinement when terminals attach again at once: with a single gateway thread the next request waits until the removals are done |
| `threads` | 2 subscribers, 2 workers, 2+2 threads, 1 round | no interleaving of two handlers for different subscribers does harm (`NoInterference`), and a blocked worker has one call (`OneCall`) |
| `sgw_race` | 2 S11 threads, 2 rounds | expected violation, section 5 |

Subscribers are 0 and 252: 252 is the first terminal of the second subnet of the
address table, 0 is the subscriber whose TEID equals the unassigned value. Two
subscribers are what an interference between sessions takes; two threads on a port are what a
race between two handlers takes; two rounds are what it takes to meet an earlier
session's removals. Threads of a gateway are interchangeable, and `threads` uses
that symmetry; it has no temporal property. Deadlock is checked in every run.

Each property of a passing run has a mutant in `PROJECT.json`: a definition suffixed
`_NoWait`, `_Kept` and so on stands next to the one it deviates from, and the run
refutes the property with it.

## 5. Where the code disagrees with its documents

- **Late removals.** `Sgw::handle_detach` sends its answer (`sgw.cpp:350`) and then
  removes three identifiers and the context under four separate locks; so does
  `Pgw::handle_detach` (`pgw.cpp:143`). The terminal may attach again at once, and
  with several threads on the port, which is how the manual runs it, another
  thread's create session falls between the removals. The manual says the tables are
  "protected by locks to prevent concurrent inconsistent access by the multiple
  threads" (`doc/doc_source/developer_manual.tex:118`). The locks protect each
  access, not the handler. Run `sgw_race`; the same instance with two S5 threads instead
  breaks `PgwConsistent` in the same way.
- Read from the code, with no run: the manual lets the MME update the HSS's location
  after the security setup, while `mme_server.cpp:76` comments that call out; and
  ciphering and integrity do not use the NAS keys.

## 6. What is proved (v1.0)

Every safety property that the runs `reattach` and `threads` check, and the refinement,
holds for every value of the constants under the assumptions of `EpcBase`: `UE` any
set of numbers below 10^9 (the nine digits a TEID takes), any positive number of workers,
any sets of gateway threads, any rows in the HSS's table. `MmeNilAssumption`,
`SgwNilAssumption` and `PgwNilAssumption` say that `Nil` is none of the contexts it stands in for
the absence of. TLC evaluates all of them.

The last two layers below need more, and say so in their statements:

- `Serialised`: terminals attach once, or each gateway serves its port with one thread.
  The numbers of threads are command-line parameters of the gateways. Run `sgw_race`
  shows `SgwConsistent` fail without it: section 5.
- `Addressable`: every subscriber is below `MAX_UE_COUNT`. Beyond it `Pgw::set_ip_addrs`
  has no address to give, and all subscribers without one share the empty address and its
  entry in `sgi_id`.

`reattach` satisfies the second half of `Serialised`, `threads` the first, both satisfy
`Addressable`. The argument is built in layers, each an inductive invariant relative to
those before it:

| Layer | Theorems | Hypotheses | Says |
|---|---|---|---|
| `TypeInv` | `TypeInvariance`, `TypeCorrect` | | types; a thread inside a handler has the locals it assigned |
| `OneCall` | `OneCallInvariance`, `AnswersMatched` | | a blocking call is in one stage, and each stage works for a caller that waits |
| `UeInv` | `UeInvariance`, `RanReadsWhatItWaitsFor`, `KeysAlwaysAgree`, `OnlyGatewaysMayExit` | | terminal and MME |
| `SessionInv` | `SessionInvariance` | | contents of messages, locals and tables |
| `GenuineInv` | `GenuineInvariance`, `OnlyAuthenticatedServed` | | who gets to a gateway |
| `GwInv` | `GatewayInvariance`, `NobodyExits`, `BearersConnected`, `SessionsAlwaysMatch`, `SgwTablesAgree`, `PgwTablesAgree`, `NothingStaysBehind`, `ThreadsDoNotInterfere` | `Serialised`, `Addressable` | stages of a session at the gateways |
| refinement | `ControlPlaneImplementsBearer` | `Serialised`, `Addressable` | `Spec => ImplementsBearer` |

- **`TypeInv`.** `TypeOK` is not inductive: a handler that continues after a receive stores
  under the subscriber and answers to the worker in its locals, which the types allow to
  be `Nil`. `MmeJobsOK`, `SgwJobsOK`, `PgwJobsOK` and `CreatesOK` exclude that.
- **`OneCall`.** A blocking call is a request in flight, or a server thread that owes the answer
  (`SgwOwes`, `PgwOwes`), or an answer in flight. The `Awaited` parts say that each of these
  belongs to a caller that waits for that type, the `Single` parts that a caller has one of
  them. Neither is inductive alone: that a worker stays blocked needs that it cannot take an
  answer of another call, and that needs that there is no other. S6a, S11 and S5 are taken
  apart, since a step disturbs the calls of the one or two interfaces it touches.
- **`UeInv`.** All that concerns one subscriber on the side of terminal and MME is gathered in
  `View(u)`. `Conversation` lists, for each point of `simulate()`, what is in the two streams
  and where the worker stands. It has two overlaps: the terminal leaves while its bearer
  is being modified, and comes back while its entries are being removed. `IdsOK`,
  `MacsOK` and `KeysOK` add what identifiers, HMACs and keys must be at that point. A step
  changes one view, so that most of the proof is lemmas about a single view that know nothing of
  the program; the rest says which view an action changes and how. `WorkersOK` and
  `BacklogOK` tie views to workers: the late removals of the MME do no harm because a
  terminal's next attach goes to the worker that is still at them. No hypothesis about
  gateway threads is needed: `RanReadsExpected` and `KeysAgree` survive the races there.
- **`SessionInv`.** Contents, as against presence: every request, answer, local variable and table
  entry names the identifiers of the subscriber it is about (`TablesOK`, `S11Content`, `S5Content`,
  `SgwLocalsOK`, `PgwLocalsOK`), down to what the terminal was told (`BearersOK`). This
  uses that identifiers of different subscribers differ, and needs no hypothesis on threads:
  the races lose entries and never exchange them.
- **`GenuineInv`.** A terminal without its row's key stops at the first message
  (`KeysOK`), so no create request names it, hence no thread and no table.
- **`GwInv`.** Presence. `SgwStage` says for each point of a handler which entries the subscriber
  it works on has, down to the loop over the interfaces (`Looped`); `SgwRest` says that without a
  thread at work the subscriber has all entries if the MME may use the session (`Holds`), and
  none otherwise. One thread at most works on a subscriber. The last is what `Serialised`
  is for: a second one would come with the next attach, while the first still
  removes. With one thread it waits its turn; with one round it does not come
  (`Removing(u) => Gone(u)`: while removals are left the terminal is leaving, or has used up its
  rounds).
- **Refinement.** `EpsBearer`'s variables are functions of the state, `Phase` and `Serving`. Each
  step of the program is a step of one subscriber's service or a stutter; the proof goes by what
  the step does to `Phase` (a terminal's step) and to `Serving` (a node's). That a
  terminal becomes attached only when all nodes serve it, and that nodes stop
  only when it is leaving, is what `UeInv` and `GwInv` say of the state before.

The invariants were checked with TLC on the two instances before they were proved. Only
model-checked: liveness, which is out of the prover's reach like everything with `ENABLED`
(`EveryoneServed`, `HandoverCompletes`), and the handover's `PathKept`. The theorems about the other
versions are in sections 7, 8 and 9.

## 7. v2.0: replicas and stores

Files are in `src/NFV_LTE_EPC-2.0/src/`.

| Module | Models | Correspondence |
|---|---|---|
| `ReplBase` | vocabulary, the state of a request | `job[u]` is the request of terminal `u`: the node it is at, its step, the replica that serves it, the locals of that handler |
| `ReplRan` | `misc/fault_tolerant_ran_simulator` | `ctr` is the shared retry counter; `conn` the replica behind each connection, as often reopened as `UE_BINDING` says |
| `ReplMme` | `mme.cpp`, `mme_server.cpp` | `mme[m]` the tables of a replica, `mme_store` its store, `mme_rep` replication datagrams; handlers cut where they wait for the SGW |
| `ReplSgw`, `ReplPgw` | `sgw.cpp`, `pgw.cpp` | the same, and `sgw_pull`, `pgw_pull`: data packets between the `get` of `pull_data_context` and the cache update |
| `Repl` | composition, faults; properties | `Serve(u)` is the next step of a request, `Synchronise` a replication datagram, `Forward` a data packet, `Fault` a crash, restart or lost datagram |
| `ReplProofs` | theorems | |
| `MCRepl` | instances | |

Decisions:

- **One request per terminal.** The simulator blocks on each request and sleeps 4 s
  before a retry; its receive and those of MME and SGW give up after 5 s
  (`g_timeout_lev1`). What was left of a request is over when the terminal retries.
  Since all wait equally long, an answer that a node gave after waiting in vain may
  reach the next one too late: `late` in `SgwReply`, `Late` in `NoAnswer`. Requests of
  different terminals interleave.
- **Load balancers** are external: LVS with `-s rr` at the MME and SGW (any live replica,
  fixed per connection or socket: `conn`, `flow`), `-s sh` at the PGW (`PgwHash`).
- **Crash**: the process and its tables are gone, the balancer leaves it out, its peers
  find the connection broken or get no answer. A **restart** begins with empty tables
  and `INIT_VAL`. A **loss** is one S11 or S5 datagram. All are bounded by
  `MaxCrashes`, `MaxRestarts`, `MaxLosses`.
- **`UdpClient::rcv`** has no return statement. `ErrCodes` is the set of what it may
  return; the runs take 0, the value with which the program works. With others a
  `set_security` may fail after the terminal has stored the answer's fields, which
  `RetryWith` keeps; only the theorems on types and identifiers
  cover this.
- **Failed gets** leave the caller's `imsi` as it was, uninitialised: any subscriber
  or 0.
- **Time.** `TimeExceeded` is `MaxTries` initial attaches. The HSS always answers.
- The model stops when a replica ends itself.

| Run | Instance | What it shows |
|---|---|---|
| `repl_session` | `SESSION_BASED`, 1 terminal, 2 replicas each, 1 data packet in flight, 2 attaches | `RequestsServed`, `Forwarded`: whatever replica serves which request or packet, stores hold what was answered and caches do not hide it |
| `repl_crash` | `SESSION_BASED`, 1 terminal, 2+2+1 replicas, one crash of `m1` or `s1`, one restart, one loss, `LiveSpec` | `RunsEnd`: no retry goes on for ever, the terminals' runs end or a replica has ended itself; `Recovers`, `RequestsServed`: if only an MME replica fails, the terminal completes a round and nobody exits |
| `repl_two` | `STATE_LESS`, `NOCACHE`, 2 terminals, 2 MME replicas | `IdLeadsHome`, `BothServed`: steps of two terminals spread over replicas do not mix |
| `repl_siblings` | `UE_BASED`, `REP`, 1 attach, one crash | `SiblingsTakeOver`: when the datagrams of an attach have been handled, every sibling can continue |
| `repl_stale_cache` | `STATE_LESS`, cache on, no fault | expected violation, below |

`RequestsServed` is `NoExit`, `AnsweredIsStored` and `NoGatewayResidue`; `BothServed` adds
`Forwarded`. One terminal is what a crash or a cache takes, since stores and caches are
keyed by subscriber; the second one is for identifiers and interleaved handlers. Two
replicas are the one that acted and the one that did not see it. Fairness is weak
fairness of each terminal's request (its sender, or the node it is at, is a thread that
runs) and of the threads that handle replication; faults are not fair, so they need
not happen.

Where code and documents disagree:

- **Stale cache** (`repl_stale_cache`). With `STATE_LESS` binding and `NOCACHE` 0,
  `Sgw::handle_create_session` (`sgw.cpp:214`) leaves id entries and a context without
  eNodeB at its replica. The modify bearer is served by another replica, which pushes
  the complete context and drops its own entries only. The first replica then finds
  `s5_id` cached and never asks the store: downlink packets are dropped there.

### What is proved (v2.0)

For any finite set of terminals (positive numbers) and any replicas, with every binding,
with and without caches and replication, and any number of crashes, losses and data packets:

| Theorem | Hypotheses | Says |
|---|---|---|
| `TypeCorrect` | | `TypeOK` |
| `IdsLeadHome` | `IdsApart`, `MaxRestarts = 0` | `IdLeadsHome` |

`IdsApart` says that the `INIT_VAL`s of the MME replicas differ by more than the initial
attaches a run can make. They are constants an operator chooses for each replica; nothing in the code
checks them. `MaxRestarts = 0` is needed because a restarted replica begins at `INIT_VAL` again:
below. Run `repl_two` satisfies both.

Neither property is inductive. An id passes through an MME's tables, the store, a
replication datagram, the terminal, its requests and the locals of a handler that waits for the SGW,
and every one of them writes to another. `Inv(own)` says of all these places at once that the
couples of an id and a subscriber which they hold are in the set `own`, that a context is that
of its `imsi`, and that a request carries the id of the terminal that sent it. The proof
has one lemma for each operation on the tables (pull, push, erase, replication) and one for each
handler; the handlers that begin nothing leave `own` alone, and the initial attach adds one
couple to it. With `own` the set of all couples the invariant is about types alone and holds without
hypotheses. With `Homes(own)`, an id belongs to one subscriber and none to a number that a
replica has still to hand out, it yields `IdLeadsHome`. That losses, crashes and the order
of datagrams do not matter here is the point: they decide which couples are where, never what is
in a couple.

Only model-checked are the properties that say that something is present: `RequestsServed`,
`Forwarded`, `BothServed` and `SiblingsTakeOver`. They do not hold for every value of the constants:
`repl_stale_cache` refutes `Forwarded` where caches meet `STATE_LESS` binding, and with replication an
erase that is handled late removes the next attach's session (below), which `repl_siblings` never
meets, its terminal attaching once. They are claims about the instances in the table, each of which is a
mode in which the code is meant to be run. `RunsEnd` and `Recovers` are liveness.

### What the replicated core does not survive

The model reaches the following, and the properties above state their premises
(`OnlyMmeFailed`) accordingly:

- An SGW replica dies after the PGW has erased the session and before its own answer.
  The retried detach makes another SGW replica ask the PGW for a session that it no
  longer has: `imsi` 0, and the PGW ends itself (`pgw.cpp:235`).
- With `STATE_LESS` binding an MME replica dies while a detach is under way. The
  retry meets an SGW replica with the terminal still cached (`sgw.cpp:112`), which asks
  the PGW, which ends itself.
- A create whose answer was lost is stored and answered with zeros (`mme.cpp:536`).
- `Ran::set_eps_session` of the fault tolerant simulator always returns true: a
  terminal whose MME died there is not retried (`ran.cpp:580`).
- Replication datagrams have no number: an erase handled after the push of the next
  attach removes the new session (`mme.cpp:951`).
- A restarted MME replica counts from `INIT_VAL` again while the store keeps the old
  ids: two terminals with one `mme_s1ap_ue_id` (`mme.h:146`).
- A downlink packet for an address without a session leaves a default context in the
  cache that hides a later session (`pgw.cpp:323`); packets for absent subscribers are not
  part of `Forward`.

## 8. v3.0: event loops

Files are in `src/NFV_LTE_EPC-3.0/EPC 3.0 Control Plane/`.

| Module | Models | Correspondence |
|---|---|---|
| `KbyBase` | connections, descriptors | descriptors are numbers, the lowest free one is given out |
| `KbyRan` | `ran/`, `hss/` | one action per blocking step; `HssAnswer` |
| `KbyMme`, `KbySgw`, `KbyPgw` | `kby_mme.cpp`, `kby_sgw.cpp`, `kby_pgw.cpp` | `*_fdmap` is `fdmap`, `*_armed` the epoll set; one action per `act` and, in act 1, per message type |
| `Kby` | composition | a step handles any ready descriptor of one node |
| `Kby`, second part | properties | `ImplementsBearer`: these nodes implement `EpsBearer`, too |
| `KbyInvariants` | the inductive invariant `CallInv` | a call is a step and its descriptors |
| `KbyMmeProofs`, `KbyBearerProofs` | theorems | |
| `MCKby` | instances | |

mTCP is external. Connections do not break and no terminal gives up; an epoll batch
may be in any order. HMAC and cipher use constant keys, as in v1.0. `guti`, a variable of
`run()` that survives from event to event, is `GutiOf`: where a lookup fails and nobody
exits, it is any subscriber's. Header identifiers of replies that nobody reads are left
out.

**The exit of act 7.** Act 1 takes the terminal's descriptor out of the epoll set when it
reads the detach (`kby_mme.cpp:237`), and nothing puts it back. Act 7 deletes it once more
(`kby_mme.cpp:882`) and calls `exit(-1)` if that returns -1, before it closes the connection
that `kby_mme.h:57-58` says it closes. mTCP is not part of the repository. By the convention of epoll
(`ENOENT`) the call fails, and the MME ends at its first detach, every time; should mTCP take it
as done, nothing is amiss. The result is therefore a parameter, `DelUnarmed`, and the run takes
both: `MmeDetachAnswer` has both outcomes. `OnlyDelExits` says that this is the one
step that ends a node. The properties about tables and descriptors are about nodes that run
(`AllUp`), since the exit falls in the middle of the clean-up, and `RoundsComplete` promises
that all rounds end unless this exit comes first. What is shown of second rounds, descriptor
reuse after a close and complete clean-up is thus shown for an mTCP that takes the call.

**Numbers.** A TEID is the last nine digits of a GUTI (`kby_sgw.h:193`) or the last five of
an IMSI; `KbyDigitsAssumption` keeps subscribers below 100000, so that it names one.
Addresses come from a table of 2000 entries (`kby_pgw.cpp:62`), and `operator[]` gives everybody beyond it the same empty string:
`IpAddr`, with 0 for that string.

Run `kby`: two terminals, one of them twice (a descriptor is then reused while the other
call is under way, at every stage of it), both results of the call above. All safety properties,
the refinement, and `RoundsComplete` under weak fairness of the whole: each loop runs for ever and rounds
are finite, so that some enabled step is taken suffices.

Run `kby_downlink`, expected violation: case 3 of the SGW answers a create with
`s5_uteid_dl` (`kby_sgw.cpp:412`), a variable of `run()` that belongs to whichever call was
handled last, while the rest of the answer comes from `fddata`. The MME stores another
subscriber's downlink TEID.

### What is proved (v3.0)

All safety properties that run `kby` checks, and the refinement, hold for any
set of terminals with an address each, any number of rounds, that is for every number of
descriptors, and whatever mTCP returns in act 7. The address is a hypothesis of the theorems,
`Addressable`: below `MAX_UE_COUNT` the table gives every subscriber its own, beyond it
subscribers share one `sgi_id` entry, and `BearerConnected` and the refinement fail. (It implies the assumption on digits.) The only other assumptions
say that `None` is no message, entry or context.

None of the properties is inductive. `FdsAccounted` needs to know which descriptors a handler will
close, `CallsKeptApart` whose call an entry belongs to, and both need what the messages under way
say. `CallInv` says it all at once: there is a function `call` from terminals to records of
a step `at` and five descriptors such that

- what every node, table and connection holds of a terminal is a function of its record (`RanOK`,
  `MmeOK`, `SgwOK`, `PgwOK`: one table each over the 28 steps);
- no two records share a descriptor, and none has one twice at a node (`Apart`);
- nothing stands under a descriptor that no record has (`NoStrays`), and fdmap and epoll set agree
  (`Armed`);
- `ue_count` is the number of attaches begun (`Numbered`), so that an identifier is fresh.

The exit of act 7 is where the record stops: `KbyInv` says `CallInv` of nodes that run, and of
the types alone once the MME has ended, after which no node moves. A step that exits changes
no phase that the refinement sees except for the MME's own entries, which a releasing terminal may lose.

The descriptors of the servers' ends are a part of the record of their own: `accept` may come at any time
after `connect`, up to the request being read. `sgw_dl`, which run `kby_downlink` is about,
is the one thing that the record leaves open (`dl` in `S11OK`).

The proof has a lemma for every event. It says which call the event moves (`RequestOf`,
`MmeEventOf`, `SgwRequestOf`, `PgwEventOf`, `PgwRequestOf` find it: an event of a
descriptor is that of the call that has it), that the call is then in the next step, and that the
others keep what is theirs, which is where `Apart` and the choice of a free descriptor come in
(`FreeFdFacts`: there are always two descriptors for each call and one to spare). The accept loops
are the exception: they move all calls that wait, and the injection from connections to
free descriptors that the action chooses gives the new ones. The properties, and `ServedBy` for
the refinement, are then read off the tables.

TLC checks the properties on two terminals. It does not evaluate `CallInv`, which quantifies over
too many functions; that rests on the proof alone. Only model-checked: `RoundsComplete`
(liveness).

## 9. v3.0 over kernel bypass: several cores

Files are in `src/NFV_LTE_EPC-3.0/EPC over kernel bypass/`.

| Module | Models | Correspondence |
|---|---|---|
| `MkbBase` | connections, each named by its call (terminal and round) | `Link.core` is the core whose listening socket accepted it; `gone` and `shut` are the two ends' closes |
| `MkbRan` | `ran/`, `hss/` | as in v3.0, with `HangUp`: a terminal that has read an answer leaves |
| `MkbMme` | `mkb_mme.cpp` | `mme_fd` the entry of a call in its core's `fdmap`; `mme_removal[k]` what core `k` still has to erase after a detach; `mme_srcaddr` the addresses taken from the pool |
| `MkbSgw`, `MkbPgw` | `mkb_sgw.cpp`, `mkb_pgw.cpp` | `*_job[k]` is a handler between two locked table accesses |
| `Mkb` | composition | any core may accept a connection: the network card decides |
| `MkbInvariants` | the inductive invariant `CallInv` | a call is a step and an identifier |
| `MkbMmeProofs`, `MkbGatewayProofs` | theorems | |
| `MCMkb` | instance | |

Decisions:

- Descriptors are abstracted to calls. That they are never shared or leaked is
  `FdsAccounted` of the Kby modules, whose bookkeeping these files repeat line by line;
  each core has an `fdmap` of its own.
- SGW and PGW handlers are cut at every lock. Those of the MME touch only entries of
  the call's subscriber and are one step, except act 7: the terminal has its answer before
  `s1mme_id` and `ue_ctx` are erased (`mkb_mme.cpp:1351`), and may come back on
  another core.
- `Pause` is the `sleep(1)` of `ran/ran_simulator.cpp:58`. It is taken to outlast
  those two erasures. This is an assumption about time, and the design depends on it:
  without it (`Pause_None`) the late erasures hit the next attach on another core
  and its second request ends the MME.
- **Cores.** All three nodes are committed with `MAX_THREADS 1` (line 3 of `mkb_mme.cpp`,
  `mkb_sgw.cpp`, `mkb_pgw.cpp`). The interleavings of cores exist in a build with a larger
  value, for which the mutexes and the shared tables are there; with one core
  in each node the model is that of the committed value.
- **`s5_uteid_dl`** of a create's answer is left out. `mkb_sgw.cpp:640` takes it from a variable of `run()`,
  which holds that of the call this core handled last, and the MME stores it: the bug that
  run `kby_downlink` shows for the single-core SGW. `BearerConnected` does not compare it.
- **Numbers.** A TEID is its GUTI modulo 100000 (`mkb_pgw.h:155-163`), and addresses
  are those of a table of 10000 (`include-epc/utils.h:54`): `MkbDigitsAssumption`, `IpAddr`, as for the single-core tree.
- `HangUp` leaves a clean end of stream between two requests, which is what `retval == 0` in act 1
  handles (`mkb_mme.cpp:322`). A terminal killed with an answer outstanding causes a
  reset, which the loop treats as a read error; that is not modelled.
- A call that was cut off keeps its entries in all tables, and its source address is
  never given back. `NoResidue` says so by exempting exactly those calls.

Run `mkb`: two cores in each node, two terminals, one of them twice, one round cut
off. Cores are interchangeable (symmetry; all properties are invariants). Two cores
are the one that is between two locks and the one that reads; two rounds, one possibly cut off, are what
meets an earlier round's remains. `CallsEnd` states liveness as an invariant: rounds are bounded and no step
repeats, so that the nodes come to rest is only wrong if they rest too early. It
needs no fairness: a state in which nothing is enabled must be `Quiet`.

### What is proved (several cores)

All the invariants that run `mkb` checks except `CallsEnd` are theorems for any set of terminals
with an address each (`Addressable`, as for v3.0), any numbers of rounds, any cores in each node
and any number of rounds cut off: `TypeCorrect`, `NoNodeExits`, `PathConnected`, `GatewaysInAgreement`,
`NothingRemains`. The other assumptions say that `None` is none of the messages, entries, contexts
and cores. That the simulator's pause outlasts the MME's last two erasures is not an assumption of the
theorems but a part of the model, see `Pause` above; without it `NoExit` fails.

`GatewaysAgree` alone would need only what a core is in the middle of, but that a core finds
what it looks up needs the steps before, at other nodes, and so on around the system.
`CallInv` therefore says: there is a function `call` that gives each round of each terminal one
of 45 steps and an identifier, such that

- the step determines the four connections of the round, with what is under way on
  them and which core serves them as far as that is settled, and the three descriptors (`LinksOK`,
  `FdsOK`);
- a core that is between two locks is there for a call in the step that has it do so, and
  the other way round (`WorkOK`, `JobsOK`): two cores never work on one subscriber;
- the tables, which all cores share and which are keyed by subscriber, are determined by the
  step of the subscriber's last round, and by whether a round cut off earlier has left its entries
  (`MmeOK`, `SgwOK`, `PgwOK`; what was left is always complete). Earlier rounds are
  through or cut off (`PlaceOK`), so nobody else writes them;
- what an MME core has still to erase belongs to the last round, in its last two
  steps (`RemovalsOK`): `Pause` keeps the next round from beginning before;
- identifiers are those of calls, each of one, and `ue_count` is their number (`IdsOK`).

Against single-core v3.0 the descriptors are gone from the invariant, and in their place come shared
tables and rounds that end early. The second is why the tables go by the subscriber and not by
the call: a round that was cut off keeps its entries, and the next round overwrites
them one table at a time, during which the subscriber has old and new entries.

The proofs follow the events. `MkbMmeProofs` has what a step owes to the calls and terminals it does
not concern, stated once, and then a lemma for each event of the terminals, of the HSS and
of an MME core; `MkbGatewayProofs` has those of the gateways, where each locked section is an
event, and the theorems, which are read off the invariant. As for v3.0, TLC does not evaluate
`CallInv`. `CallsEnd` contains `ENABLED` and is only model-checked.

## 10. v1.0: the S1 handover

| Module | Models | Correspondence |
|---|---|---|
| `Handover` (extends `Epc`) | `ran_simulator_handover.cpp`, the handover methods of `Ran`, `Mme` and `Sgw` | `sim_pc` is where `simulateHandover` stands; `ran_in` the connections the MME opens to the RAN, one a message; `ho_req`, `ho_rsp` the calls on a `UdpClient` made for each; `sgw_ho` is `ho_ue_ctx` |
| `MCHandover` | instance | |

`ranS` and `ranT` take the numbers 1 and 2, as `init(1)` and `init(2)` say, with the
connections, streams and contexts of these two in `Epc`. Their key, IMSI and
`enodeb_s1ap_ue_id` all come from that number.

The sequence: `InitiateHandover` at the source; the MME tells the target
(`MmeHandleHandover`), which connects to the MME and offers its TEID; the MME has the
SGW enter an indirect tunnel, `s11_cteid_mme + 1`, and tells the source; after its
sleep the thread lets the target complete, the SGW takes over the downlink TEID,
and the source has the indirect tunnel removed.

Decisions:

- **The sleep.** `SleepOver` takes `usleep(500000)` to outlast the preparation. The program
  depends on it: without it (`SleepOver_Short`) the completion is lost because the target has no
  connection yet, or arrives before the tunnel has been set up.
- **Locks.** A handover request in the SGW is one step. Its sections touch entries of
  the handed over terminal alone, which has no other request under way.
- **Connections of the MME.** Each is closed when the handler returns. The RAN's server
  then reads an end of file over and over; its packet of zeros has id 0 and is ignored.
- **Forwarding.** `SgwUplink` and `SgwDownlink` are the lookups of `handle_uplink_udata` and
  `handle_downlink_udata`, the point of view from which a path is kept or lost.

Properties: `PathKept` relates what the eNodeBs may send with to the SGW's tables in every
state; `HandoverCompletes` says that a handover that was started ends switched, with nothing left
of the indirect tunnel, for good; `EveryoneServed` that ordinary terminals get through attach and
detach behind the same worker and are forgotten; `OnlyAuthenticated` that the one with
a wrong key never reaches the gateways.

| Run | Instance | What it shows |
|---|---|---|
| `handover` | ranS, ranT, terminals 0 and 252 (wrong key), 1 worker, 1 thread per gateway port, 1 round | the four properties above under fairness |

One worker is the hardest case for liveness: it blocks in a call while all other connections
wait. Each of the two ordinary terminals meets the handover at every stage of both. One round is
enough, since a terminal's second attach next to others is the run `reattach`.

Fairness (`HoFairness`) is weak fairness of each RAN thread, the RAN's server thread, the accept
loop, each worker, each HSS connection and each gateway thread: they are kernel threads
that block only in a receive or a sleep. Weak fairness for a worker as a whole is enough,
because it alone takes what its connections send and a terminal has few messages under
way before it must wait.

What the code's handover does not do, read while modelling:

- **The downlink is not switched to the target's address.** `handle_handover_completion`
  (`sgw.cpp:257`) replaces the TEID and keeps `enodeb_ip_addr` and `enodeb_port`. The target
  takes over the source's `enodeb_s1ap_ue_id` (`ran.cpp:383`), which is the TEID the SGW has
  anyway. `ran_simulator_handover.cpp:134` speaks of switching the downlink to the target. In this
  program both eNodeBs are one process, so that nothing shows.
- **Packets on the indirect tunnel go to the PGW.** `handle_uplink_udata` never reads
  `ho_ue_ctx`, and the source's redirection is commented out (`ran.cpp:320`).
- **The tunnel's TEID is the next subscriber's.** An ordinary terminal 2 attached at the
  time would lose its uplink entry to the tunnel (`sgw.cpp:232`) and then to its removal.
  The instance has no such terminal, as the programs of the repository start none.

## 11. Not modelled, and the plan

Not modelled, with the reason:

- **Several handovers at once.** The simulator runs one. Two would race on `ho_ue_ctx`, which
  is erased without a lock (`sgw.cpp:263`).
- **v1.0 UDP loss and timeouts.** `UdpClient::rcv` goes on with an empty packet after five
  seconds. The v2.0 models have losses and timeouts of the same transport.
- **Data planes.** Forwarding decisions are properties (`BearerConnected`, `Forwarded`);
  packets, TUN devices, sink and traffic monitor are I/O.
- **`EPC v3.0 Data Plane`.** Its `kby_*` files repeat those of the control plane with
  some twenty lines changed a node, beside packet forwarding. The v3.0 trees also hold three copies of
  `include-epc`, two of the HSS, and unused copies of the v1.0 sources under `ran/`. These
  copies are most of what the map leaves out.
- **mTCP and epoll errors** beyond the end of a stream and the `EPOLL_CTL_DEL` of act 7; a terminal's 3 s timeout in the
  single-core tree (`kby_mme.cpp:245`).
- **Store adapters, benchmarks, scripts, manuals, SQL, generated objects.** No protocol
  of their own. The store is get, put and remove on a table.
- **Byte layout** of packets and SQL access: a message is the record of the fields that
  are read, a table is a constant.

What only TLC shows, and why:

- **Liveness and `ENABLED`** are out of the prover's reach: `EveryoneServed`, `HandoverCompletes`,
  `RunsEnd`, `Recovers`, `RoundsComplete`, `CallsEnd`.
- **`RequestsServed`, `Forwarded`, `BothServed`, `SiblingsTakeOver`** hold of instances, not of
  every value of the constants: section 7.
- **`PathKept`** lives in `Handover`, whose next-state relation adds a second way for messages
  to reach MME and SGW. Every layer of section 6 would have to be shown again for it.
- Induction over data is out of its reach, too. The models have no recursive definition.

Plan:

1. The layers of section 6 with the handover's actions as further steps, then `PathKept`, with an
   abstract specification of a path that is switched, never lost.
2. The data plane tree of v3.0, as an extension of the `Kby` modules by what its files add.
3. v1.0's five-second receive timeouts at the MME and SGW, with late answers.
