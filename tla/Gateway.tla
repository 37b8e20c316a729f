------------------------------- MODULE Gateway -------------------------------
(***************************************************************************)
(* P1 between a client and RabbitMQ (application/process1.py): requests    *)
(* and the greenthreads of a batch share a few publisher connections, each *)
(* behind a semaphore, with the heartbeat, the start of the HTTP server    *)
(* and, at the end, main, which takes no semaphore.                        *)
(***************************************************************************)
EXTENDS Naturals, SequencesExt

CONSTANTS
    Request,
    Size,           \* how many messages a request publishes
    Batch,          \* the requests that do so in greenthreads of their own
    Slots,          \* API_PUBLISH_CONNECTIONS
    MaxAttempts,    \* of get_rmq_connection_with_retry
    RequestPool,    \* API_REQUEST_POOL_SIZE
    PoolSize,       \* the places in gt._pool that are left for batches
    MaxFaults       \* bound: outages of the broker, and declarations it refuses

Slot == 0..(Slots - 1)

(* A message of a request, and the greenthread that publishes it.          *)
Job == UNION {{r} \X (1..Size[r]) : r \in Request}
Child == {j \in Job : j[1] \in Batch}

(* Who calls channel() on a slot, and who may hold one.                    *)
Server == <<"server", 0>>
Caller == Job \cup {Server}
Heartbeat == <<"heartbeat", 0>>
Party == Caller \cup {Heartbeat}

ASSUME GatewayAssumption ==
    /\ Batch \subseteq Request
    /\ Size \in [Request -> Nat \ {0}]
    /\ \A r \in Request \ Batch : Size[r] = 1
    /\ {Slots, MaxAttempts, RequestPool, PoolSize} \subseteq Nat \ {0}
    /\ MaxFaults \in Nat
    /\ Heartbeat \notin Job /\ Server \notin Job

VARIABLES
    broker,     \* "up" or "down"
    faults,
    conn,       \* a slot's connection, "open" with its channel or "bare"; "stale"
                \* and "adrift" are the same two lost, and nobody has noticed
    line,       \* the holder of a slot's semaphore, and behind it who waits
    tries,      \* failed attempts of the holder to connect
    next,       \* _publish_next, modulo the slots
    at,         \* where the publish of a message stands, and p1_http_server
    stored,     \* the messages that the broker has taken
    req,        \* where a request stands, and its answer
    spawned,    \* the greenthreads that a batch has spawned
    heart,      \* p1_rmq_heartbeat
    main, swept,    \* main, and how many slots it has closed
    losses      \* history: publishes of a slot, since the broker last came
                \* back, that failed for want of a connection

brokerVars == <<broker, faults>>
slotVars == <<conn, line, tries, losses>>
requestVars == <<req, spawned>>
processVars == <<heart, main, swept>>
vars == <<brokerVars, slotVars, next, at, stored, requestVars, processVars>>

IsStopping == main # "serving"
Running == main # "exited"

Lost == {"stale", "adrift"}
IsOpen(s) == conn[s] \in {"open", "bare"} \cup Lost        \* not conn.is_closed

Init ==
    /\ broker = "up" /\ faults = 0
    /\ conn = [s \in Slot |-> "none"]
    /\ line = [s \in Slot |-> <<>>]
    /\ tries = [s \in Slot |-> 0] /\ losses = [s \in Slot |-> 0]
    /\ next = 0
    /\ at = [who \in Caller |-> "idle"] /\ stored = {}
    /\ req = [r \in Request |-> "unsent"]
    /\ spawned = [r \in Request |-> 0]
    /\ heart = "sleeping"
    /\ main = "serving" /\ swept = 0

-----------------------------------------------------------------------------
(* Semaphores.                                                             *)

Joins(who, s) == line' = [line EXCEPT ![s] = Append(@, who)]
Holds(who, s) == Running /\ line[s] # <<>> /\ Head(line[s]) = who
Leaves(s) == line' = [line EXCEPT ![s] = Tail(@)]

Becomes(who, stage) == at' = [at EXCEPT ![who] = stage]
Busy == {"declaring", "sent"}           \* the holder waits for the broker
Unfinished == {"waiting"} \cup Busy

(* Mutant: the counter is not reduced to the slots.                        *)
StartsBeyond(j) ==
    /\ Becomes(j, "waiting") /\ Joins(j, next)
    /\ next' = next + 1

(* The greenthread of a publish starts, and draws the next slot.           *)
Starts(j) ==
    /\ Becomes(j, "waiting") /\ Joins(j, next)
    /\ next' = (next + 1) % Slots

-----------------------------------------------------------------------------
(* _PublishSlot, _publish and _ensure_publish_channel.                     *)

(* What channel() or the publish raises fails the publish, and has the     *)
(* HTTP server restarted.                                                  *)
Raises(who, s) ==
    /\ Leaves(s)
    /\ Becomes(who, IF who = Server THEN "idle" ELSE "failed")

Loses(who, s) ==
    losses' = IF who = Server THEN losses ELSE [losses EXCEPT ![s] = @ + 1]

(* channel() without a connection: the holder tries MaxAttempts times.     *)
Connect(who, s) ==
    /\ Holds(who, s) /\ at[who] = "waiting" /\ conn[s] \in {"none", "closed"}
    /\ IF broker = "up"
       THEN /\ conn' = [conn EXCEPT ![s] = "bare"] /\ Becomes(who, "declaring")
            /\ tries' = [tries EXCEPT ![s] = 0]
            /\ UNCHANGED <<line, losses>>
       ELSE /\ UNCHANGED conn
            /\ IF tries[s] + 1 = MaxAttempts
               THEN /\ Raises(who, s) /\ Loses(who, s)
                    /\ tries' = [tries EXCEPT ![s] = 0]
               ELSE /\ tries' = [tries EXCEPT ![s] = @ + 1]
                    /\ UNCHANGED <<line, at, losses>>
    /\ UNCHANGED <<brokerVars, next, stored, requestVars, processVars>>

(* channel() with a connection whose channel the broker has closed.        *)
Reopen(who, s) ==
    /\ Holds(who, s) /\ at[who] = "waiting" /\ conn[s] \in {"bare", "adrift"}
    /\ Becomes(who, "declaring")
    /\ UNCHANGED <<brokerVars, slotVars, next, stored, requestVars, processVars>>

(* setup_queues has declared everything; a publish goes out at once.       *)
SetUp(who, s) ==
    /\ Holds(who, s) /\ at[who] = "declaring" /\ conn[s] = "bare"
    /\ conn' = [conn EXCEPT ![s] = "open"]
    /\ IF who = Server
       THEN Becomes(who, "accepting") /\ Leaves(s) /\ UNCHANGED stored
       ELSE /\ Becomes(who, "sent") /\ UNCHANGED line
            /\ stored' \in {stored, stored \cup {who}}
    /\ UNCHANGED <<brokerVars, tries, losses, next, requestVars, processVars>>

(* The broker refuses a declaration, and closes the channel with that.     *)
SetUpRefused(who, s) ==
    /\ Holds(who, s) /\ at[who] = "declaring" /\ conn[s] = "bare"
    /\ faults < MaxFaults /\ faults' = faults + 1
    /\ Raises(who, s)
    /\ UNCHANGED <<broker, conn, tries, losses, next, stored, requestVars, processVars>>

(* Mutant: the lost connection is kept.                                    *)
KeepsConnection(who, s) ==
    /\ Holds(who, s)
    /\ \/ at[who] \in Busy /\ conn[s] \in Lost \cup {"closed"}
       \/ at[who] = "waiting" /\ conn[s] = "stale" /\ who # Server
    /\ Raises(who, s) /\ Loses(who, s)
    /\ UNCHANGED <<brokerVars, conn, tries, next, stored, requestVars, processVars>>

(* Mutant: acquire and release instead of with.                            *)
LosesConnectionAndHolds(who, s) ==
    /\ Holds(who, s)
    /\ \/ at[who] \in Busy /\ conn[s] \in Lost \cup {"closed"}
       \/ at[who] = "waiting" /\ conn[s] = "stale" /\ who # Server
    /\ UNCHANGED line /\ Becomes(who, IF who = Server THEN "idle" ELSE "failed")
    /\ Loses(who, s)
    /\ conn' = [conn EXCEPT ![s] = "closed"]
    /\ UNCHANGED <<brokerVars, tries, next, stored, requestVars, processVars>>

(* The connection is lost, or main has closed it: setup_queues raises, or  *)
(* the publish does, before or after the broker took the message.          *)
LosesConnection(who, s) ==
    /\ Holds(who, s)
    /\ \/ at[who] \in Busy /\ conn[s] \in Lost \cup {"closed"}
       \/ at[who] = "waiting" /\ conn[s] = "stale" /\ who # Server
    /\ Raises(who, s) /\ Loses(who, s)
    /\ conn' = [conn EXCEPT ![s] = "closed"]
    /\ UNCHANGED <<brokerVars, tries, next, stored, requestVars, processVars>>

Channel(who, s) ==
    \/ Connect(who, s) \/ Reopen(who, s) \/ SetUp(who, s) \/ SetUpRefused(who, s)
    \/ LosesConnection(who, s)

(* basic_publish; whether the broker has taken the message is known later. *)
Send(j, s) ==
    /\ Holds(j, s) /\ at[j] = "waiting" /\ conn[s] = "open"
    /\ Becomes(j, "sent")
    /\ stored' \in {stored, stored \cup {j}}
    /\ UNCHANGED <<brokerVars, slotVars, next, requestVars, processVars>>

(* Mutant: nobody waits for the confirm.                                   *)
ConfirmBlindly(j, s) ==
    /\ Holds(j, s) /\ at[j] = "sent" /\ conn[s] = "open"
    /\ Becomes(j, "done") /\ Leaves(s)
    /\ UNCHANGED <<brokerVars, conn, tries, losses, next, stored, requestVars,
                   processVars>>

Confirm(j, s) ==
    /\ Holds(j, s) /\ at[j] = "sent" /\ conn[s] = "open" /\ j \in stored
    /\ Becomes(j, "done") /\ Leaves(s)
    /\ UNCHANGED <<brokerVars, conn, tries, losses, next, stored, requestVars,
                   processVars>>

(* The broker returns the message, refuses it, or closes the channel.      *)
Refused(j, s) ==
    /\ Holds(j, s) /\ at[j] = "sent" /\ conn[s] = "open" /\ j \notin stored
    /\ Raises(j, s)
    /\ conn' \in {conn, [conn EXCEPT ![s] = "bare"]}
    /\ UNCHANGED <<brokerVars, tries, losses, next, stored, requestVars, processVars>>

Publish(j) ==
    \E s \in Slot : Channel(j, s) \/ Send(j, s) \/ Confirm(j, s) \/ Refused(j, s)

-----------------------------------------------------------------------------
(* Requests.                                                               *)

Answer(r, status) == req' = [req EXCEPT ![r] = status]

(* The accept loop, which has one greenthread at most for each place of    *)
(* its pool.                                                               *)
Accept(r) ==
    /\ Running /\ at[Server] = "accepting" /\ req[r] = "unsent"
    /\ Cardinality({q \in Request : req[q] = "open"}) < RequestPool
    /\ Answer(r, "open")
    /\ IF r \in Batch THEN UNCHANGED <<spawned, line, at, next>>
       ELSE Starts(<<r, 1>>) /\ spawned' = [spawned EXCEPT ![r] = 1]
    /\ UNCHANGED <<brokerVars, conn, tries, losses, stored, processVars>>

(* A batch spawns its publishes; gt._pool may be full.                     *)
Spawn(r) ==
    /\ Running /\ req[r] = "open" /\ spawned[r] < Size[r]
    /\ Cardinality({j \in Child : at[j] \in Unfinished}) < PoolSize
    /\ spawned' = [spawned EXCEPT ![r] = @ + 1]
    /\ Starts(<<r, spawned[r] + 1>>)
    /\ UNCHANGED <<brokerVars, conn, tries, losses, stored, req, processVars>>

Succeeds(r) ==
    /\ Running /\ req[r] = "open" /\ spawned[r] = Size[r]
    /\ \A i \in 1..Size[r] : at[<<r, i>>] = "done"
    /\ Answer(r, "200")
    /\ UNCHANGED <<brokerVars, slotVars, next, at, stored, spawned, processVars>>

(* They are waited for in order: the first that raised answers, whatever   *)
(* those behind it do.                                                     *)
Fails(r) ==
    /\ Running /\ req[r] = "open" /\ spawned[r] = Size[r]
    /\ \E i \in 1..Size[r] :
          /\ at[<<r, i>>] = "failed"
          /\ \A k \in 1..(i - 1) : at[<<r, k>>] = "done"
    /\ Answer(r, "500")
    /\ UNCHANGED <<brokerVars, slotVars, next, at, stored, spawned, processVars>>

Handle(r) == Spawn(r) \/ Succeeds(r) \/ Fails(r)

-----------------------------------------------------------------------------
(* The greenthreads of the process.                                        *)

(* _gt_http_server: _ensure_publish_channel, and the accept loop.  Nobody   *)
(* else connects before it accepts.                                        *)
ServerStarts ==
    /\ Running /\ at[Server] = "idle" /\ Becomes(Server, "waiting")
    /\ Joins(Server, 0)
    /\ UNCHANGED <<brokerVars, conn, tries, losses, next, stored, requestVars,
                   processVars>>

ServerStops ==
    /\ Running /\ at[Server] = "accepting" /\ IsStopping
    /\ Becomes(Server, "stopped")
    /\ UNCHANGED <<brokerVars, slotVars, next, stored, requestVars, processVars>>

Serve ==
    \/ ServerStarts \/ Channel(Server, 0) \/ ServerStops

(* Mutant: while True.                                                     *)
BeatForEver ==
    /\ Running /\ heart = "sleeping"
    /\ heart' = "beating" /\ Joins(Heartbeat, 0)
    /\ UNCHANGED <<brokerVars, conn, tries, losses, next, at, stored, requestVars,
                   main, swept>>

(* _gt_rmq_heartbeat: every slot in its turn.                              *)
Beat ==
    /\ Running /\ heart = "sleeping"
    /\ IF IsStopping THEN heart' = "ended" /\ UNCHANGED line
       ELSE heart' = "beating" /\ Joins(Heartbeat, 0)
    /\ UNCHANGED <<brokerVars, conn, tries, losses, next, at, stored, requestVars,
                   main, swept>>

(* Mutant: a connection that is lost is not found out.                     *)
TouchOpenOnly(s) ==
    /\ Holds(Heartbeat, s)
    /\ IF s = Slots - 1 THEN Leaves(s) /\ heart' = "sleeping"
       ELSE /\ line' = [line EXCEPT ![s] = Tail(@), ![s + 1] = Append(@, Heartbeat)]
            /\ UNCHANGED heart
    /\ UNCHANGED <<brokerVars, conn, tries, losses, next, at, stored, requestVars,
                   main, swept>>

(* process_data_events; an exception ends the round.                       *)
Touch(s) ==
    /\ Holds(Heartbeat, s)
    /\ IF conn[s] \in Lost
       THEN conn' = [conn EXCEPT ![s] = "closed"] /\ Leaves(s) /\ heart' = "sleeping"
       ELSE /\ UNCHANGED conn
            /\ IF s = Slots - 1 THEN Leaves(s) /\ heart' = "sleeping"
               ELSE /\ line' = [line EXCEPT ![s] = Tail(@),
                                            ![s + 1] = Append(@, Heartbeat)]
                    /\ UNCHANGED heart
    /\ UNCHANGED <<brokerVars, tries, losses, next, at, stored, requestVars, main,
                   swept>>

Beats == Beat \/ \E s \in Slot : Touch(s)

Terminate ==
    /\ main = "serving" /\ main' = "closing"
    /\ UNCHANGED <<brokerVars, slotVars, next, at, stored, requestVars, heart, swept>>

(* main closes the slots' connections, whoever uses them.                  *)
Sweep ==
    /\ main = "closing" /\ swept < Slots /\ swept' = swept + 1
    /\ conn' = [conn EXCEPT ![swept] = IF IsOpen(swept) THEN "closed" ELSE @]
    /\ UNCHANGED <<brokerVars, line, tries, losses, next, at, stored, requestVars,
                   heart, main>>

(* wait_all has the greenthreads of gt._pool, a batch's among them; what   *)
(* serves a request is not in it and ends with the process.                *)
Exit ==
    /\ main = "closing" /\ swept = Slots
    /\ at[Server] = "stopped" /\ heart = "ended"
    /\ \A j \in Child : at[j] \notin Unfinished
    /\ main' = "exited"
    /\ req' = [r \in Request |-> IF req[r] = "open" THEN "dropped" ELSE req[r]]
    /\ UNCHANGED <<brokerVars, slotVars, next, at, stored, spawned, heart, swept>>

Shutdown == Sweep \/ Exit

-----------------------------------------------------------------------------
BrokerFails ==
    /\ Running /\ broker = "up" /\ faults < MaxFaults
    /\ broker' = "down" /\ faults' = faults + 1
    /\ conn' = [s \in Slot |-> CASE conn[s] = "open" -> "stale"
                               [] conn[s] = "bare" -> "adrift"
                               [] OTHER -> conn[s]]
    /\ UNCHANGED <<line, tries, losses, next, at, stored, requestVars, processVars>>

BrokerReturns ==
    /\ Running /\ broker = "down" /\ broker' = "up"
    /\ losses' = [s \in Slot |-> 0]
    /\ UNCHANGED <<faults, conn, line, tries, next, at, stored, requestVars, processVars>>

(* What the greenthreads of the requests do.                               *)
Work == (\E r \in Request : Handle(r)) \/ (\E j \in Job : Publish(j))

Next ==
    \/ \E r \in Request : Accept(r)
    \/ Work \/ Serve \/ Beats \/ Terminate \/ Shutdown
    \/ BrokerFails \/ BrokerReturns

Spec ==
    /\ Init /\ [][Next]_vars
    /\ WF_vars(Work \/ Shutdown) /\ WF_vars(Serve) /\ WF_vars(Beats)

-----------------------------------------------------------------------------
TypeOK ==
    /\ broker \in {"up", "down"} /\ faults \in 0..MaxFaults
    /\ conn \in [Slot -> {"none", "open", "bare", "closed"} \cup Lost]
    /\ line \in [Slot -> Seq(Party)]
    /\ tries \in [Slot -> 0..(MaxAttempts - 1)] /\ losses \in [Slot -> Nat]
    /\ next \in Slot
    /\ at \in [Caller -> Unfinished \cup
                         {"idle", "done", "failed", "accepting", "stopped"}]
    /\ stored \subseteq Job
    /\ req \in [Request -> {"unsent", "open", "200", "500", "dropped"}]
    /\ spawned \in [Request -> Nat]
    /\ heart \in {"sleeping", "beating", "ended"}
    /\ main \in {"serving", "closing", "exited"} /\ swept \in 0..Slots

(* A request is answered 200 only when the broker has every message of it, *)
(* whatever the connection, the heartbeat and main's shutdown do meanwhile *)
(* (config.py, setup_queues).                                              *)
ConfirmedIsStored ==
    \A r \in Request : req[r] = "200" => {r} \X (1..Size[r]) \subseteq stored

(* A slot is held or waited for by exactly those that have work to do on   *)
(* it, each of them at one place of one line, and only its holder declares *)
(* or has a publish under way: however a publish, a round of the heartbeat *)
(* or the start of the server ends, it gives its semaphore back            *)
(* (_PublishSlot).                                                         *)
SlotsAccounted ==
    /\ \A s \in Slot : IsInjective(line[s])
    /\ \A s, t \in Slot : s # t => ToSet(line[s]) \cap ToSet(line[t]) = {}
    /\ \A who \in Caller :
          at[who] \in Unfinished <=> \E s \in Slot : who \in ToSet(line[s])
    /\ \A s \in Slot, who \in Caller :
          at[who] \in Busy /\ who \in ToSet(line[s]) => who = Head(line[s])
    /\ heart = "beating" <=> \E s \in Slot : Heartbeat \in ToSet(line[s])

(* Once the broker is back, an outage costs each publisher connection one  *)
(* publish more at most, the one that finds it lost (channel), and main's  *)
(* close another; whatever they left of the connection or of its channel,  *)
(* the publish behind sets up a new one.                                   *)
OneLossAfterOutage ==
    broker = "up" =>
       \A s \in Slot : losses[s] <= IF s < swept THEN 2 ELSE 1

(* Every request that is accepted is answered, or ends with the process,   *)
(* however long the broker is away and whoever is in front of it on its    *)
(* slot or in the pool.                                                    *)
Answered == []<>(\A r \in Request : req[r] # "open")

(* GET /ready.                                                             *)
Ready == ~IsStopping /\ \E s \in Slot : IsOpen(s)

(* While the broker stays away, /ready comes to say so, also if nobody     *)
(* publishes: the heartbeat finds every connection out.                    *)
OutageNoticed == []<>(broker = "up" \/ ~Ready)

(* With a broker, SIGTERM ends the process by itself: no greenthread that  *)
(* wait_all waits for is kept by another, by a slot or by the pool.        *)
ShutdownEnds == []<>(IsStopping => ~Running \/ broker = "down")
=============================================================================
