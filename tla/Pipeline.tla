------------------------------ MODULE Pipeline ------------------------------
(***************************************************************************)
(* The message pipeline: RabbitMQ queues with acknowledgements, the relay  *)
(* handlers of P2, P3 and P5, the persisting handlers of P4 with their     *)
(* ZooKeeper dedup barrier and MariaDB writes, the dedup reaper, the       *)
(* dead-letter policy and the operator's replay tool.                      *)
(*                                                                         *)
(* A delivery is at most one unacknowledged message held by a consumer     *)
(* greenthread (a worker: a queue and a slot).  Queues are bags: with      *)
(* several consumers per queue, redelivery and replay the code relies on   *)
(* no order.                                                               *)
(***************************************************************************)
EXTENDS Topology

CONSTANTS
    Msg,            \* message ids (the uuid4 of publish_flow<f>_message)
    NoMsg,          \* what an idle worker holds
    Slot,           \* consumer greenthreads per queue, over all nodes
    Offered,        \* bound: the flows clients use
    DlxInstalled,   \* is the policy flowfirst-dlx applied?
    MaxFaults,      \* bound: crashes, lost connections, store and publish errors
    MaxReplays      \* bound: runs of the replay tool, one message each

ASSUME PipelineAssumption ==
    /\ NoMsg \notin Msg
    /\ Offered \subseteq Flow
    /\ DlxInstalled \in BOOLEAN
    /\ MaxFaults \in Nat
    /\ MaxReplays \in Nat

VARIABLES
    req,        \* [Msg -> request]: flow, what its content meets downstream,
                \*   and what the HTTP client was answered
    ready,      \* [Queue -> [Msg -> Nat]]: copies waiting on a queue
    dead,       \* [Queue -> [Msg -> Nat]]: copies in flowfirst_dead_letters,
                \*   by the queue their x-death header names
    discarded,  \* <<queue, message>> rejected where no policy matches
    purged,     \* <<queue, message>> deleted with replay_dead_letters --discard
    work,       \* [Worker -> delivery being handled]
    marked,     \* dedup znodes that exist
    rows,       \* keys with a row in processed_messages
    applied,    \* keys whose devices-table change is committed
    skipped,    \* keys acknowledged as duplicates (flow<f>_dedup_skipped)
    unsynced,   \* flow-6 messages acknowledged without the P5 publish
    notified,   \* keys whose event was handed to the notification exchange
    writes,     \* [Key -> Nat]: committed inserts, overwrites included
    reaped,     \* keys whose znode the reaper has ever removed
    abandoned,  \* keys whose claimant stopped between its mark and its row
    faults,     \* fault budget used
    replays     \* replay budget used

broker == <<ready, dead, discarded, purged>>
stores == <<marked, rows, applied, writes>>
reports == <<skipped, unsynced, notified>>
history == <<reaped, abandoned>>
vars == <<req, broker, work, stores, reports, history, faults, replays>>

-----------------------------------------------------------------------------
Worker == Queue \X Slot
Key == Msg \X Branch

(* Mutant: both branches of flow 6 use one key.                            *)
PlainKeyOf(q, m) == <<m, "direct">>

(* The dedup key and row key of a message arriving at P4 on queue q: the   *)
(* remote handler of flow 6 appends "_remote" to the message id.           *)
KeyOf(q, m) == <<m, IF q = "flow6_p2_to_p4" THEN "remote" ELSE "direct">>
WorkKey(w) == KeyOf(w[1], work[w].msg)

Idle == [pc |-> "idle", msg |-> NoMsg, live |-> TRUE]

(* Flow 5 only reads the devices table; 4, 6 and 7 change it.              *)
DeviceFlow == {4, 6, 7}

(* processed_messages.item_id is NOT NULL, and only the payloads of flows  *)
(* 1-3 carry an item_id.                                                   *)
ItemIdFlow == {1, 2, 3}

(* What a message's content meets downstream: "refused" is a device        *)
(* without a name or with an unknown type (flow 4, at P3), filters that    *)
(* are no object (flow 5, P2), a device id that is not 36 characters (flow *)
(* 6, P3); "unfit" passes the relays but is refused by MariaDB (a value    *)
(* longer than its column, an update without the device's name or type).   *)
Content == {"good", "refused", "unfit"}
FitsFlow(f, c) ==
    /\ c = "refused" => f \in {4, 5, 6}
    /\ c = "unfit" => f # 7
RefusingQueue == {"flow4_p2_to_p3", "flow5_p1_to_p2", "flow6_p2_to_p3"}
Refuses(q, m) == q \in RefusingQueue /\ req[m].content = "refused"

(* What MariaDB accepts as a row: an item_id, and columns that fit.        *)
RowAccepted(m) == req[m].flow \in ItemIdFlow /\ req[m].content = "good"

(* A handler that is past the barrier and has not written its row yet.     *)
Claiming == {"claimed", "applied"}

CanFault == faults < MaxFaults
Fault == CanFault /\ faults' = faults + 1

Put(bag, q, m) == [bag EXCEPT ![q][m] = @ + 1]
Take(bag, q, m) == [bag EXCEPT ![q][m] = @ - 1]
Goto(w, label) == work' = [work EXCEPT ![w].pc = label]
Finish(w) == work' = [work EXCEPT ![w] = Idle]

-----------------------------------------------------------------------------
Init ==
    /\ req = [m \in Msg |-> [flow |-> 0, content |-> "good", reply |-> "none"]]
    /\ ready = [q \in Queue |-> [m \in Msg |-> 0]]
    /\ dead = [q \in Queue |-> [m \in Msg |-> 0]]
    /\ discarded = {} /\ purged = {}
    /\ work = [w \in Worker |-> Idle]
    /\ marked = {} /\ rows = {} /\ applied = {}
    /\ skipped = {} /\ unsynced = {} /\ notified = {}
    /\ writes = [k \in Key |-> 0]
    /\ reaped = {} /\ abandoned = {}
    /\ faults = 0 /\ replays = 0

(* P1 publishes a new message and answers 200 once the broker confirms.    *)
Submit(m, f, c) ==
    /\ req[m].flow = 0
    /\ FitsFlow(f, c)
    /\ req' = [req EXCEPT ![m] = [flow |-> f, content |-> c, reply |-> "ok"]]
    /\ ready' = Put(ready, EntryQueue[f], m)
    /\ UNCHANGED <<dead, discarded, purged, work, stores, reports, history,
                   faults, replays>>

(* The publish raises and the client gets an error: refused by the broker, *)
(* or taken by the broker with the confirm lost.                           *)
SubmitFails(m, f, c) ==
    /\ req[m].flow = 0
    /\ FitsFlow(f, c)
    /\ Fault
    /\ req' = [req EXCEPT ![m] = [flow |-> f, content |-> c, reply |-> "error"]]
    /\ \/ UNCHANGED ready
       \/ ready' = Put(ready, EntryQueue[f], m)
    /\ UNCHANGED <<dead, discarded, purged, work, stores, reports, history,
                   replays>>

(* The broker hands a waiting message to an idle consumer.                 *)
Deliver(w, m) ==
    /\ work[w].pc = "idle"
    /\ ready[w[1]][m] > 0
    /\ ready' = Take(ready, w[1], m)
    /\ work' = [work EXCEPT ![w] = [pc |-> "received", msg |-> m, live |-> TRUE]]
    /\ UNCHANGED <<req, dead, discarded, purged, stores, reports, history,
                   faults, replays>>

-----------------------------------------------------------------------------
(* Relay handlers (P2, P3, P5).                                            *)

(* Mutant: no publisher confirms, an unroutable message is dropped.        *)
PublishUnconfirmed(w) ==
    LET q == w[1]
        m == work[w].msg
    IN  /\ q \in RelayQueue
        /\ work[w].pc = "received" /\ work[w].live
        /\ ~Refuses(q, m)
        /\ ready' \in {ready, Put(ready, Downstream(q), m)}
        /\ Goto(w, IF q = FanOutFrom THEN "half" ELSE "published")
        /\ UNCHANGED <<req, dead, discarded, purged, stores, reports, history,
                       faults, replays>>

(* The publish is confirmed: the copy is on the downstream queue.          *)
Publish(w) ==
    LET q == w[1]
        m == work[w].msg
    IN  /\ q \in RelayQueue
        /\ work[w].pc = "received" /\ work[w].live
        /\ ~Refuses(q, m)
        /\ ready' = Put(ready, Downstream(q), m)
        /\ Goto(w, IF q = FanOutFrom THEN "half" ELSE "published")
        /\ UNCHANGED <<req, dead, discarded, purged, stores, reports, history,
                       faults, replays>>

(* Flow 6 at P3, the second publish.                                       *)
FanOut(w) ==
    /\ work[w].pc = "half" /\ work[w].live
    /\ ready' = Put(ready, FanOutTo, work[w].msg)
    /\ Goto(w, "published")
    /\ UNCHANGED <<req, dead, discarded, purged, stores, reports, history,
                   faults, replays>>

(* Mutant: the failure is not even logged.                                 *)
FanOutFailsQuietly(w) ==
    /\ work[w].pc = "half" /\ work[w].live
    /\ Fault
    /\ Goto(w, "published")
    /\ UNCHANGED <<req, broker, stores, reports, history, replays>>

(* It is refused: the handler logs the failure and acknowledges all the    *)
(* same, so that P4 does not get a duplicate.                              *)
FanOutFails(w) ==
    /\ work[w].pc = "half" /\ work[w].live
    /\ Fault
    /\ unsynced' = unsynced \cup {work[w].msg}
    /\ Goto(w, "published")
    /\ UNCHANGED <<req, broker, stores, skipped, notified, history, replays>>

(* The content is refused (no budget: it is deterministic).                *)
RefuseContent(w) ==
    /\ work[w].pc = "received" /\ Refuses(w[1], work[w].msg)
    /\ Goto(w, "raised")
    /\ UNCHANGED <<req, broker, stores, reports, history, faults, replays>>

(* Anything else in the handler's try block raises before the first        *)
(* confirmed effect: the publish is nacked or unroutable, ZooKeeper does   *)
(* not answer.                                                             *)
Raise(w) ==
    /\ work[w].pc = "received"
    /\ Fault
    /\ Goto(w, "raised")
    /\ UNCHANGED <<req, broker, stores, reports, history, replays>>

-----------------------------------------------------------------------------
(* Persisting handlers (P4).                                               *)

(* Mutant: checked but not marked.                                         *)
ClaimUnmarked(w) ==
    /\ w[1] \in P4Queue /\ work[w].pc = "received"
    /\ WorkKey(w) \notin marked
    /\ Goto(w, "claimed")
    /\ UNCHANGED <<req, broker, stores, reports, history, faults, replays>>

(* check_and_mark_processed creates the znode: first to see this key.      *)
Claim(w) ==
    /\ w[1] \in P4Queue /\ work[w].pc = "received"
    /\ WorkKey(w) \notin marked
    /\ marked' = marked \cup {WorkKey(w)}
    /\ Goto(w, "claimed")
    /\ UNCHANGED <<req, broker, rows, applied, writes, reports, history,
                   faults, replays>>

(* The znode is created but the reply is lost, and kazoo raises.           *)
ClaimReplyLost(w) ==
    /\ w[1] \in P4Queue /\ work[w].pc = "received"
    /\ WorkKey(w) \notin marked
    /\ Fault
    /\ marked' = marked \cup {WorkKey(w)}
    /\ abandoned' = abandoned \cup {WorkKey(w)}
    /\ Goto(w, "raised")
    /\ UNCHANGED <<req, broker, rows, applied, writes, reports, reaped, replays>>

(* Mutant: any failure to create the znode counts as a duplicate.          *)
FindDuplicateOnError(w) ==
    /\ w[1] \in P4Queue /\ work[w].pc = "received"
    /\ Goto(w, "duplicate")
    /\ UNCHANGED <<req, broker, stores, reports, history, faults, replays>>

(* The znode exists: the delivery will be acknowledged without an insert.  *)
FindDuplicate(w) ==
    /\ w[1] \in P4Queue /\ work[w].pc = "received"
    /\ WorkKey(w) \in marked
    /\ Goto(w, "duplicate")
    /\ UNCHANGED <<req, broker, stores, reports, history, faults, replays>>

(* Is the devices table the next thing the handler touches?                *)
AtDevice(w) == work[w].pc = "claimed" /\ req[work[w].msg].flow \notin ItemIdFlow

(* upsert_device / soft_delete_device commits, or query_devices returns.   *)
ApplyDevice(w) ==
    /\ AtDevice(w) /\ req[work[w].msg].content # "unfit"
    /\ applied' = IF req[work[w].msg].flow \in DeviceFlow
                  THEN applied \cup {WorkKey(w)} ELSE applied
    /\ Goto(w, "applied")
    /\ UNCHANGED <<req, broker, marked, rows, writes, reports, history,
                   faults, replays>>

(* Is the insert the next thing the handler does?                          *)
AtInsert(w) ==
    \/ work[w].pc = "claimed" /\ req[work[w].msg].flow \in ItemIdFlow
    \/ work[w].pc = "applied"

RowCommitted(w) ==
    /\ AtInsert(w) /\ RowAccepted(work[w].msg)
    /\ rows' = rows \cup {WorkKey(w)}
    /\ writes' = [writes EXCEPT ![WorkKey(w)] = @ + 1]

(* insert_processed_message commits; the Swift put that follows never      *)
(* raises and decides nothing.                                             *)
InsertRow(w) ==
    /\ RowCommitted(w)
    /\ Goto(w, "stored")
    /\ UNCHANGED <<req, broker, marked, applied, reports, history, faults,
                   replays>>

(* It commits, but the connection is lost before the reply.                *)
InsertReplyLost(w) ==
    /\ RowCommitted(w)
    /\ Fault
    /\ Goto(w, "raised")
    /\ UNCHANGED <<req, broker, marked, applied, reports, history, replays>>

(* Is what the handler is about to write refused by MariaDB?               *)
DatabaseRefusal(w) ==
    \/ AtInsert(w) /\ ~RowAccepted(work[w].msg)
    \/ AtDevice(w) /\ req[work[w].msg].content = "unfit"

(* Mutant: an IntegrityError is logged and swallowed.                      *)
DatabaseRefusesQuietly(w) ==
    /\ DatabaseRefusal(w)
    /\ Goto(w, "stored")
    /\ UNCHANGED <<req, broker, stores, reports, history, faults, replays>>

(* A refused write is not retried: the error is no OperationalError.       *)
DatabaseRefuses(w) ==
    /\ DatabaseRefusal(w)
    /\ abandoned' = abandoned \cup {WorkKey(w)}
    /\ Goto(w, "raised")
    /\ UNCHANGED <<req, broker, stores, reports, reaped, faults, replays>>

(* No database host answers, or three attempts meet deadlocks.             *)
DatabaseError(w) ==
    /\ work[w].pc \in Claiming
    /\ Fault
    /\ abandoned' = abandoned \cup {WorkKey(w)}
    /\ Goto(w, "raised")
    /\ UNCHANGED <<req, broker, stores, reports, reaped, replays>>

(* The event is published after the ack; a failure is swallowed.           *)
Notify(w) ==
    /\ work[w].pc = "acked"
    /\ notified' = notified \cup {WorkKey(w)}
    /\ Finish(w)
    /\ UNCHANGED <<req, broker, stores, skipped, unsynced, history, faults,
                   replays>>

NotifyFails(w) ==
    /\ work[w].pc = "acked"
    /\ Fault
    /\ Finish(w)
    /\ UNCHANGED <<req, broker, stores, reports, history, replays>>

-----------------------------------------------------------------------------
(* Settling a delivery, in every handler.                                  *)

Ack(w) ==
    /\ work[w].pc \in {"published", "duplicate", "stored"} /\ work[w].live
    /\ IF work[w].pc = "stored" THEN Goto(w, "acked") ELSE Finish(w)
    /\ skipped' = IF work[w].pc = "duplicate"
                  THEN skipped \cup {WorkKey(w)} ELSE skipped
    /\ UNCHANGED <<req, broker, stores, unsynced, notified, history, faults,
                   replays>>

(* Mutant: requeue=True.                                                   *)
NackRequeue(w) ==
    /\ work[w].pc = "raised" /\ work[w].live
    /\ Finish(w)
    /\ ready' = Put(ready, w[1], work[w].msg)
    /\ UNCHANGED <<req, dead, discarded, purged, stores, reports, history,
                   faults, replays>>

(* basic_nack(requeue=False) in the except clause: dead-lettered where the *)
(* policy matches the queue, otherwise gone.                               *)
Nack(w) ==
    LET q == w[1]
        m == work[w].msg
    IN  /\ work[w].pc = "raised" /\ work[w].live
        /\ Finish(w)
        /\ IF DlxInstalled /\ q \in DlxQueue
           THEN dead' = Put(dead, q, m) /\ UNCHANGED discarded
           ELSE discarded' = discarded \cup {<<q, m>>} /\ UNCHANGED dead
        /\ UNCHANGED <<req, ready, purged, stores, reports, history, faults,
                       replays>>

(* On a lost channel the publish, ack or nack raises out of the callback:  *)
(* the greenthread ends and is restarted with a new connection.            *)
Abort(w) ==
    /\ ~work[w].live
    /\ \/ work[w].pc \in {"half", "published", "duplicate", "stored", "raised"}
       \/ work[w].pc = "received" /\ w[1] \in RelayQueue
    /\ Finish(w)
    /\ UNCHANGED <<req, broker, stores, reports, history, faults, replays>>

(* The broker closes the connection (missed heartbeats, restart) and       *)
(* requeues the delivery while the handler is still running.               *)
LoseChannel(w) ==
    /\ work[w].pc \notin {"idle", "acked"} /\ work[w].live
    /\ Fault
    /\ work' = [work EXCEPT ![w].live = FALSE]
    /\ ready' = Put(ready, w[1], work[w].msg)
    /\ UNCHANGED <<req, dead, discarded, purged, stores, reports, history,
                   replays>>

(* The process dies; an unacknowledged delivery is requeued.               *)
Crash(w) ==
    /\ work[w].pc # "idle"
    /\ Fault
    /\ Finish(w)
    /\ ready' = IF work[w].live /\ work[w].pc # "acked"
                THEN Put(ready, w[1], work[w].msg) ELSE ready
    /\ abandoned' = IF work[w].pc \in Claiming
                    THEN abandoned \cup {WorkKey(w)} ELSE abandoned
    /\ UNCHANGED <<req, dead, discarded, purged, stores, reports, reaped,
                   replays>>

-----------------------------------------------------------------------------
(* The reaper removes a znode older than ZK_DEDUP_TTL_MS.                  *)
Reap(k) ==
    /\ k \in marked
    /\ marked' = marked \ {k}
    /\ reaped' = reaped \cup {k}
    /\ UNCHANGED <<req, broker, work, rows, applied, writes, reports, abandoned,
                   faults, replays>>

(* replay_dead_letters --replay: publish to the origin queue, confirmed,   *)
(* then ack the dead letter.                                               *)
Replay(q, m) ==
    /\ dead[q][m] > 0 /\ replays < MaxReplays
    /\ ready' = Put(ready, q, m)
    /\ dead' = Take(dead, q, m)
    /\ replays' = replays + 1
    /\ UNCHANGED <<req, discarded, purged, work, stores, reports, history,
                   faults>>

(* The tool dies between the confirm and the ack: the dead letter stays.   *)
ReplayCrash(q, m) ==
    /\ dead[q][m] > 0 /\ replays < MaxReplays
    /\ Fault
    /\ ready' = Put(ready, q, m)
    /\ replays' = replays + 1
    /\ UNCHANGED <<req, dead, discarded, purged, work, stores, reports, history>>

(* Mutant: it acknowledges more messages than it fetched.                  *)
PurgeBlindly(q, m) ==
    /\ dead' = Take(dead, q, m)
    /\ purged' = purged \cup {<<q, m>>}
    /\ UNCHANGED <<req, ready, discarded, work, stores, reports, history,
                   faults, replays>>

(* replay_dead_letters --discard.                                          *)
Purge(q, m) ==
    /\ dead[q][m] > 0
    /\ dead' = Take(dead, q, m)
    /\ purged' = purged \cup {<<q, m>>}
    /\ UNCHANGED <<req, ready, discarded, work, stores, reports, history,
                   faults, replays>>

-----------------------------------------------------------------------------
RelayStep(w) == Publish(w) \/ FanOut(w) \/ RefuseContent(w)
PersistStep(w) ==
    \/ Claim(w) \/ FindDuplicate(w) \/ ApplyDevice(w) \/ InsertRow(w)
    \/ DatabaseRefuses(w) \/ Notify(w)
SettleStep(w) == Ack(w) \/ Nack(w) \/ Abort(w)

(* What a scheduled consumer greenthread does when nothing goes wrong.     *)
HandlerStep(w) ==
    \/ \E m \in Msg : Deliver(w, m)
    \/ RelayStep(w) \/ PersistStep(w) \/ SettleStep(w)

FaultStep(w) ==
    \/ FanOutFails(w) \/ Raise(w) \/ ClaimReplyLost(w) \/ InsertReplyLost(w)
    \/ DatabaseError(w) \/ NotifyFails(w) \/ LoseChannel(w) \/ Crash(w)

OperatorStep(q, m) == Replay(q, m) \/ ReplayCrash(q, m) \/ Purge(q, m)

ClientStep(m) ==
    \E f \in Offered, c \in Content : Submit(m, f, c) \/ SubmitFails(m, f, c)

Next ==
    \/ \E m \in Msg : ClientStep(m)
    \/ \E w \in Worker : HandlerStep(w) \/ FaultStep(w)
    \/ \E k \in Key : Reap(k)
    \/ \E q \in Queue, m \in Msg : OperatorStep(q, m)

Spec == Init /\ [][Next]_vars

(* Some greenthread that can run is eventually run: eventlet schedules     *)
(* every ready greenthread, spawn restarts one that died, and no fairness  *)
(* is asked of clients, operators, the reaper or faults.                   *)
Fairness == WF_vars(\E w \in Worker : HandlerStep(w))
FairSpec == Spec /\ Fairness

-----------------------------------------------------------------------------
(* Properties.                                                             *)

Request == [flow : 0..7, content : Content, reply : {"none", "ok", "error"}]
Label == {"idle", "received", "half", "published", "raised", "claimed",
          "duplicate", "applied", "stored", "acked"}
Delivery == [pc : Label, msg : Msg \cup {NoMsg}, live : BOOLEAN]

Bag == [Queue -> [Msg -> Nat]]

BrokerType ==
    /\ ready \in Bag /\ dead \in Bag
    /\ discarded \in SUBSET (Queue \X Msg) /\ purged \in SUBSET (Queue \X Msg)
WorkType ==
    /\ work \in [Worker -> Delivery]
    /\ \A w \in Worker : work[w].pc # "idle" => work[w].msg \in Msg
StoresType ==
    /\ marked \in SUBSET Key /\ rows \in SUBSET Key /\ applied \in SUBSET Key
    /\ writes \in [Key -> Nat]
ReportsType ==
    /\ skipped \in SUBSET Key /\ notified \in SUBSET Key
    /\ unsynced \in SUBSET Msg
    /\ reaped \in SUBSET Key /\ abandoned \in SUBSET Key

(* Types; a worker that is not idle holds a message.                       *)
TypeOK ==
    /\ req \in [Msg -> Request]
    /\ BrokerType
    /\ WorkType
    /\ StoresType
    /\ ReportsType
    /\ faults \in Nat /\ replays \in Nat

(* A copy of m is waiting on q, being handled there, dead-lettered from    *)
(* it, or was openly given up there.                                       *)
Holds(w, m) ==
    work[w].pc \notin {"idle", "acked"} /\ work[w].live /\ work[w].msg = m
CopyAt(q, m) ==
    \/ ready[q][m] > 0
    \/ dead[q][m] > 0
    \/ <<q, m>> \in discarded \cup purged
    \/ \E s \in Slot : Holds(<<q, s>>, m)

(* Branch b of m still has a copy at rank r or beyond, or has reached P4's *)
(* verdict, or is the P5 publish that P3 reported as failed.               *)
Kept(m, b, r) ==
    \/ \E q \in BranchQueue(b) : Rank(q) >= r /\ CopyAt(q, m)
    \/ <<m, b>> \in rows \cup skipped
    \/ b = "remote" /\ m \in unsynced

(* No silent loss: a message the client was told was accepted (200) never  *)
(* vanishes: every branch of it has a copy somewhere, was stored, was      *)
(* skipped as a duplicate, or was reported.  "A consumer acknowledges its  *)
(* input message only after its own publish was confirmed".                *)
NoSilentLoss ==
    \A m \in Msg : req[m].reply = "ok" =>
        /\ Kept(m, "direct", 1)
        /\ req[m].flow = 6 => Kept(m, "remote", 1)

(* Until the reaper removes its znode, a key is inserted at most once,     *)
(* whatever is redelivered, replayed, or handled by two consumers at once. *)
WriteOnce == \A k \in Key \ reaped : writes[k] <= 1

(* Likewise a committed device change is not made again by a redelivered   *)
(* or replayed copy: an old update cannot overwrite a newer one.           *)
DeviceChangedOnce ==
    [][\A w \in Worker :
        (ApplyDevice(w) /\ WorkKey(w) \in applied) => WorkKey(w) \in reaped]_vars

(* What the barrier guarantees of a key it has marked: the row is there,   *)
(* a handler is still on its way to it, or a handler gave up in between.   *)
Accounted(k) ==
    \/ k \in rows \cup abandoned
    \/ \E w \in Worker : work[w].pc \in Claiming /\ WorkKey(w) = k

(* Every znode, and every delivery acknowledged as a duplicate on the      *)
(* strength of one, is accounted for in that sense.                        *)
DuplicateAccounted == \A k \in marked \cup skipped : Accounted(k)

(* P4 acknowledges a delivery it handled itself only once its row is       *)
(* committed, and announces nothing that is not stored.                    *)
AckedIsStored ==
    /\ \A w \in Worker : work[w].pc \in {"stored", "acked"} => WorkKey(w) \in rows
    /\ notified \subseteq rows

(* No copy of m is waiting or being handled.                               *)
AtRest(m) ==
    /\ \A q \in Queue : ready[q][m] = 0
    /\ \A w \in Worker : work[w].msg # m

(* Every message that entered the pipeline leaves it: no handler and no    *)
(* redelivery cycle keeps it going once faults stop.                       *)
EventuallyAtRest == \A m \in Msg : req[m].reply # "none" ~> AtRest(m)

(* As long as nothing fails, every message of flows 1 to 3 that fits the   *)
(* database is stored and announced, once it has been accepted.            *)
CalmDelivery ==
    [](faults = 0) =>
        \A m \in Msg :
            (req[m].reply = "ok" /\ RowAccepted(m))
                ~> <<m, "direct">> \in rows \cap notified

-----------------------------------------------------------------------------
(* The inductive invariant: the parts the properties above rest on.        *)

(* Which handlers reach which labels.                                      *)
LabelsInPlace ==
    \A w \in Worker :
        /\ work[w].pc = "half" => w[1] = FanOutFrom
        /\ work[w].pc \in Claiming \cup {"duplicate", "stored", "acked"}
               => w[1] \in P4Queue

(* A relay about to acknowledge has put every branch it serves beyond its  *)
(* own queue (between its two publishes, P3 has done so for the direct one).*)
ForwardedFirst ==
    \A w \in Worker, b \in Branch :
        /\ w[1] \in BranchQueue(b)
        /\ work[w].live
        /\ work[w].pc = "published" \/ (work[w].pc = "half" /\ b = "direct")
        => Kept(work[w].msg, b, Rank(w[1]) + 1)

(* While a key's znode has not been reaped, a handler past the barrier is  *)
(* alone there, the znode is held, and nothing is written behind its back. *)
BarrierHeld ==
    /\ \A w \in Worker :
        (work[w].pc \in Claiming /\ WorkKey(w) \notin reaped) =>
            /\ WorkKey(w) \in marked
            /\ writes[WorkKey(w)] = 0
            /\ work[w].pc = "claimed" => WorkKey(w) \notin applied
            /\ \A v \in Worker \ {w} :
                   work[v].pc \in Claiming => WorkKey(v) # WorkKey(w)
    /\ \A k \in Key \ reaped :
            (writes[k] > 0 \/ k \in applied) => k \in marked

(* A delivery found to be a duplicate is accounted for before its ack.     *)
DuplicateSeen ==
    \A w \in Worker : work[w].pc = "duplicate" => Accounted(WorkKey(w))

Inv ==
    /\ TypeOK
    /\ LabelsInPlace
    /\ ForwardedFirst
    /\ NoSilentLoss
    /\ BarrierHeld
    /\ WriteOnce
    /\ DuplicateSeen
    /\ DuplicateAccounted
    /\ AckedIsStored

-----------------------------------------------------------------------------
(* What the documentation says, and the code does not do.                  *)

(* zk.py: if the znode exists the message was already persisted.  So a     *)
(* delivery acknowledged as a duplicate has its row, or a handler is still *)
(* on its way to it.                                                       *)
SkippedIsPersisted ==
    \A k \in skipped :
        \/ k \in rows
        \/ \E w \in Worker : work[w].pc \in Claiming /\ WorkKey(w) = k

(* ReadMe: creating a device emits device.created after persisting it.     *)
DeviceEventEmitted ==
    \A m \in Msg :
        (req[m].reply = "ok" /\ req[m].flow = 4 /\ req[m].content = "good")
            ~> <<m, "direct">> \in notified
=============================================================================
