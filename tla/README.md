# FlowFirst in TLA+

Specifications of the FlowFirst message pipeline, the configurations that model-check
them with TLC, and theorems about them proved with TLAPS. Paths below are relative to
the repository; line numbers are in `PROJECT.json`, which maps every definition to the
code it stands for.

## 1. The system

FlowFirst accepts requests over HTTP and carries each through a chain of processes that
talk over RabbitMQ queues. Seven *flows* differ in the processes they visit.

| flow | what it is | route |
|---|---|---|
| 1 | counter | P1 → P2 → P3 → P4 |
| 2 | value, scaled and reflected | P1 → P2 → P3 → P4 |
| 3 | remote metric | P1 → P5 → P2 → P4 |
| 4 | create device | P1 → P2 → P3 → P4 |
| 5 | query devices | P1 → P2 → P3 → P4 |
| 6 | update device | P1 → P2 → P3 → P4, and P3 → P5 → P2 → P4 |
| 7 | soft-delete device | P1 → P2 → P3 → P4 |

### Inventory

| component | code | state it keeps | operations | must be right |
|---|---|---|---|---|
| P1 API gateway | `application/process1.py` | publisher slots (connection, channel, semaphore), the request pool | one handler per endpoint, `_publish`, batch, heartbeat, accept loop, shutdown | 200 only for a message the broker took; every request is answered, and the process can be stopped |
| P2, P3, P5 relays | `application/process2.py`, `3`, `5` | none between messages | sixteen handlers: parse, transform, publish, ack; nack on any exception | ack only after the publish is confirmed; every flow reaches P4 |
| P4 database updater | `application/process4.py` | none between messages | eight handlers: barrier, devices table, row, ack, event; dedup reaper | a message is stored at most once, acknowledged only when stored |
| dedup barrier | `zookeeper/zk.py` | znodes `/flowfirst/dedup/<key>` | `check_and_mark_processed`, reaping | first caller wins; a duplicate verdict means something |
| stores | `db/db.py` | `processed_messages`, `devices` | insert, upsert, soft delete, query, failover, retry | no duplicate or lost write |
| dead letters | `scripts/setup_rabbitmq_dlx.sh`, `scripts/replay_dead_letters.py` | `flowfirst_dead_letters` | reject, replay, discard | a rejected message is not lost; replaying is harmless |
| notifications | `notifications/notifications.py` | fanout exchange | `notify` | announces only what is stored |
| leader election | `zookeeper/zk.py`, `main` of P2-P4 | election znodes, the shared client | `run`, `_wrap`, fall back to single-node mode | who consumes |
| runtime configuration | `zookeeper/zk.py` | config znodes, a cache per process | `ConfigWatcher`, `write_config`, seeding | a written value reaches every process |
| registry, health | `zookeeper/zk.py` | ephemeral and health znodes | `register_service`, `_update_health` | a live process is listed |
| greenthread runtime | `gt/gt.py`, `systemd/*.service` | name table, restart policy, stop event | `spawn`, `spawn_consumers`, `kill`, `periodic`, `wait_all` | consumers come back; shutdown ends before systemd kills |
| queue type migration | `scripts/migrate_queue_type.py` | a temporary queue | `migrate_one`, second run | no message lost, whatever step it dies at |
| authorization | `application/authz.py`, `_require_auth`, `_require_authz` of P1 | settings parsed at start, tokens in the callers' hands | API key, token, RBAC, ACL, ABAC decisions | combination of the verdicts; rotation of keys while nodes restart one by one |
| object storage, metrics, TLS, logging | `swift/`, `metrics/`, `tls/` | – | side effects nothing reads back | – |
| cluster set-up, demonstrations | `pacemaker/`, `haproxy/`, `security/`, ... | external | shell | – |

How they interact: the processes share nothing but RabbitMQ, ZooKeeper and MariaDB. A
handler is a callback of one consumer greenthread, which owns its connection and holds at
most one unacknowledged message that it is handling. Several greenthreads
(`GT_CONSUMERS_PER_QUEUE`) on several nodes may consume one queue.

What is hard here:

* **Redelivery.** The broker requeues an unacknowledged message when a process dies or its
  connection is lost – also while the handler is still running, so that two handlers work
  on the same message, and also when everything but the acknowledgement is done.
* **Three stores, no transaction.** P4 marks a message in ZooKeeper, changes `devices`,
  inserts a row, acknowledges and notifies, each of which can fail or take effect with the
  reply lost.
* **The barrier has a life time.** The reaper removes a znode by age, knowing nothing of
  copies still queued or dead-lettered.
* **Poison messages.** Content a handler refuses and rows MariaDB refuses come back for
  ever unless they are rejected without requeueing; what is rejected is dead-lettered only
  where a policy matches, and an operator may replay or discard it at any time.
* **Shared connections.** The requests of P1 queue for a few publisher connections, next to a
  heartbeat that queues too and a `main` that, when it stops, closes them without queueing.
* **Cooperative shutdown.** SIGTERM sets an event. Every greenthread must look at it by
  itself, between sleeps, polls, handlers and attempts to connect, in the time systemd leaves.
* **Settings per process.** Each process reads its `.env` once; during a rolling restart the
  nodes judge the same caller by different settings.

## 2. The modules

| module | what it is |
|---|---|
| `Topology` | the queues and the routing hard-wired in the handlers; data only |
| `Pipeline` | the pipeline: queues, relays, P4, barrier, stores, dead letters, replay tool |
| `PipelineMC` | `Pipeline` for TLC: the symmetry sets |
| `PipelineProofs` | theorems about `Pipeline` |
| `Promise` | what the pipeline promises of a message, with no queue or handler in it |
| `PromiseMap` | how a state of `Pipeline` reads as a state of `Promise` |
| `PromiseProofs` | the theorem that `Pipeline` implements `Promise` |
| `MigrateQueue` | the tool that changes a queue's type, killed at any step and run again |
| `MigrateQueueMC`, `MigrateQueueProofs` | the same for TLC; theorems about it |
| `Coordination` | one process on its nodes and ZooKeeper: sessions, registry, configuration, election |
| `CoordinationMC`, `CoordinationProofs` | the same for TLC; theorems about it |
| `Gateway` | P1 between client and broker: slots, batch, heartbeat, accept loop, shutdown |
| `GatewayMC`, `GatewayProofs` | the same for TLC; theorems about it |
| `Greenthreads` | the greenthreads of a consuming process, in time, with its shutdown under systemd |
| `GreenthreadsMC`, `GreenthreadsProofs` | the same for TLC; theorems about it |
| `Authz` | the functions of `authz.py`: parsing, authentication, authorization; no state |
| `AuthzProofs` | theorems about them: the decision, and what the parsers' loop returns |
| `Access` | the nodes of P1 judging calls, with tokens, a clock, edits of `.env` and restarts |
| `AccessMC`, `AccessProofs` | the same for TLC; theorems about it |

### Topology

One record per process: the field is the queue a handler consumes, its value the queue it
publishes to. `DlxQueue` are the queues the pattern `^flow[123]_` of the dead-letter
policy matches. `BranchQueue` and `Rank` are for the properties: the queues a branch of
a message can visit, and how far along a queue is.

### Pipeline

*State.* `req[m]` is what the client asked for and was answered. `ready[q][m]` and
`dead[q][m]` count the copies of `m` waiting on `q`, or dead-lettered from it; `discarded`
and `purged` are the copies the system openly gave up. `work[w]` is the delivery that
consumer `w = <<queue, slot>>` is handling: where its handler stands, and whether its
channel is still open (`live`). `marked`, `rows`, `applied` are the dedup znodes, the rows
of `processed_messages` and the committed changes of `devices`, by dedup key. The rest
are records of what was reported (`skipped`, `unsynced`, `notified`) and of what happened
(`writes`, `reaped`, `abandoned`), and the two budgets.

*Actions.* A handler is cut where another actor can see a difference: at each effect on a
store or on the broker.

| label of `work[w].pc` | the handler has | next actions |
|---|---|---|
| `received` | the message | `Publish`, `Claim`, `FindDuplicate`, `RefuseContent` |
| `half` | (P3, flow 6) published to P4's queue | `FanOut` |
| `published` | every publish confirmed | `Ack` |
| `claimed` | created the dedup znode | `ApplyDevice`, `InsertRow`, `DatabaseRefuses` |
| `applied` | changed (or queried) `devices` | `InsertRow`, `DatabaseRefuses` |
| `stored` | committed its row | `Ack` |
| `duplicate` | found the znode | `Ack` |
| `acked` | acknowledged, not yet notified | `Notify` |
| `raised` | entered its `except` clause | `Nack` |

Faults, drawn from the budget `MaxFaults`: `SubmitFails` (P1's publish raises, the message
queued or not), `Raise`, `FanOutFails`, `ClaimReplyLost`, `InsertReplyLost`,
`DatabaseError`, `NotifyFails`, `LoseChannel` (the broker requeues the delivery while
the handler runs on) and `Crash` (at every label). After a lost channel the handler's next
publish, ack or nack raises out of the callback (`Abort`); `spawn` restarts the consumer.
A graceful stop lets the handler finish and is a special case of these. The reaper
(`Reap`) and the operator (`Replay`, `ReplayCrash`, `Purge`) act at any moment.

*Modelling decisions.*

* Queues are bags. A queue of RabbitMQ is ordered, but with several consumers, redelivery
  and replay no handler may rely on it, and none does.
* A consumer handles one delivery at a time. Prefetched messages are still `ready`.
* The broker keeps what it confirmed. This is what quorum queues give; with classic
  queues (the default of `RABBITMQ_QUEUE_TYPE`) a dead broker node can lose its queues,
  which the ReadMe documents as a limit.
* Time is absent: the reaper may remove a znode at once. The barrier's guarantees are
  therefore stated for keys that have not been reaped.
* Payloads are reduced to their flow and to what their content meets: `good`; `refused`
  by a relay; `unfit` for a column of MariaDB. `ItemIdFlow` are the flows whose payload has
  the `item_id` that `processed_messages` demands.
* Notifications are enabled. Swift is left out: the put never raises and decides nothing.

### Promise, PromiseMap

`Promise` is the specification a client could be shown. Each branch a message travels is an
obligation: *none* until the message is taken, *open* while anything is left of it, then
*closed* for good, and only with an outcome that someone can look up: stored, skipped as a
duplicate, reported unsynced, or rejected. `Accept` and `Decline` are the answers to
the client (`Decline` leaves open whether the message was taken), `Settle` is every step that
adds an outcome or uses up the last copy, `Announce` is the event. `PromiseMap` reads an
obligation as open if a copy is waiting, dead-lettered or in the hands of a handler whose channel
is open, as closed if there is none and an outcome is on record. What the mapping
adds to `NoSilentLoss` is that it is about every message that was taken, and that the
order is right: no branch is ever opened that the client's request did not open, and a
closed one stays closed whatever is redelivered or replayed later.

### MigrateQueue

`scripts/migrate_queue_type.py` works on its queues one after the other and nothing links them,
so one queue and its temporary queue are modelled. `kind` and `content` are what RabbitMQ
knows of the two; `pc`, `way` and `goal` are the tool; `taken` are the messages RabbitMQ has
confirmed. `pc` cuts the tool at each call that changes something: `declare` (the first
`_declare` and the look for a leftover), `declare_temp`, the loop of `_move` (`get`, `fetched`, `ack`),
the two calls of `_delete_if_empty` (`count`, `delete`), `redeclare`. In `_move` a message is fetched
(`Fetch`), copied (`Copy`) and acknowledged (`Ack`). `Kill` stands for a killed process and for an exception, which leaves `main`; `Start` runs the tool, also towards
the other type. `Publish` is P1, which the tool's check for consumers cannot see; `Late`
says which messages it may still send, none if the pipeline was stopped as the tool asks.
A message that was fetched and not acknowledged keeps its place on its queue, but neither `basic_get` nor
the message count sees it: `hidden[q]` are the messages at the head of `q` that dead runs hold, and
`Ready(q)` is what is seen. `Notice` is the broker, which closes the dead connections sooner or later and makes those
messages ready again. `Hasty` says whether the tool may be run again before that; it is `FALSE` in the
run and in the theorems (section 5 has what happens otherwise). The dry run, the
check for consumers and the final `setup_queues` change nothing here and are left out.

### Coordination

One process name (P2; P3 and P4 are the same without the configuration) on the nodes it is
deployed to. `pc[n]` is where `main` stands on a node: `register`, `watch`, `elect`, `wait`
(inside kazoo's `Election.run`), `won` (the callback runs, and reports "leader" first),
`leading`, `single` (an exception came out of the election and the consumers started without
it), `stopping` (`_consume` returned, "follower" is being reported).

`get_client` makes a new client whenever the shared one is not connected at that instant, and
does not close the old one, which goes on reconnecting with the watch, the registry znode and the
election contender made with it. So a node's clients are numbered: `shared` is the one
`get_client` returns, `elector` and `watcher` are the ones the election and the watch were made
with, `entry` is the one that owns the registry znode. `link[c]` is the state of a client's
connection; `dead` is a session whose process is gone and that ZooKeeper has not noticed yet.
`contenders` and `ahead` are the election znodes and their order.

`Connect` and `Seed` are `get_client`: two processes may both find no configuration znode, and
then `create` raises in the slower one. `Raised` is what `main` makes of an exception at each label.
`CallFails` is a call to ZooKeeper that fails or times out, with or without effect. `WatchFires`
is the callback of `DataWatch`, which kazoo also calls after a reconnection. `Crash`,
`StopSingle`, `StopLeader` and `StepDown` are the ends of a process (SIGTERM while `main` is
blocked in `wait` or is starting ends like a crash). A session expires only while its
client is not connected; `expired` remembers a leader to whom that happened. Keys of the
configuration do not interact, so one is modelled; what `_update_health` writes is only read
by a status page, so it is a call like any other. kazoo and ZooKeeper are external and modelled from their use.

`_consume` never looks at the election again. A leader whose session expired, and a node in
single-node mode, consume next to the elected one. `Pipeline` has several consumers on every
queue for this reason: none of its theorems needs the leader to be alone.

### Gateway

A request is single or a batch, and publishes `Size[r]` messages; a *job* is one of them. A
batch spawns a greenthread for each (`Spawn`), in a pool that may be full, waits for them in
order and answers with the first that raised (`Fails`) while those behind it go on.

A slot is a connection and a semaphore. `line[s]` is the holder of the semaphore and, behind it,
who waits, in order; `next` is the round robin. `conn[s]` tells apart what the code can and
cannot see: `stale` is a connection that is lost while its object still says open, `bare` one
whose channel is closed or not set up, `adrift` a `bare` one that is lost. `channel()` is done by whoever
holds the slot: a publish, or the HTTP server, which connects slot 0 before it accepts. `Connect` is one attempt to
connect, `Reopen` opens a channel on a connection that has none, and both lead to `setup_queues` (`declaring`), which is
not tried again: it succeeds (`SetUp`), is refused by the broker, which closes the channel
(`SetUpRefused`), or meets a connection that is lost or closed (`LosesConnection`). `Send` and
`Confirm` are the two halves of `basic_publish`; in between the broker has the message or not
(`stored`), and the connection may be lost, or closed by `Sweep`, which is `main` at shutdown and
takes no semaphore. `Touch` is the heartbeat at one slot: a lost connection raises, which ends
the round. `Exit` is `wait_all`, which waits for the server, the heartbeat and the greenthreads of
batches, but not for those that serve requests: they are in the server's own pool and end with
the process (`dropped`).

`Pipeline` has of all this one publish per request, confirmed or failed with or without effect.
`Gateway` is where that comes from: `Succeeds` and `Fails` are its `Submit` and `SubmitFails`. `losses[s]` counts
every publish that failed on a slot for want of a connection since the broker last came back, whether the connection was
lost under it, was closed by `main`, or could not be had in `MaxAttempts` attempts.

### Greenthreads

`at[t]` is where a greenthread stands and `timer[t]` how long it sleeps or waits there; time
passes (`Tick`) only when nobody can do anything before. Consumers dial (`Dial`, `RetryEnds`,
`RestEnds`: the attempts, the pause after each, the restart of `spawn` when they are used up),
check the stop event, poll for at most `Poll`, and handle what the poll found, up to
`Prefetch` deliveries one after the other. pika goes on dispatching as long as there are deliveries, and a handler that waits
for a confirm reads further ones: `pending` are those at hand, `joined` those that have come to the running call since it
began. Before the ack (`Handled`) the broker holds back all but `Prefetch`; after it, P4's event is published on
the same channel and waited for (`notifying`, `Notified`) with room for one more. So a call ends when nothing
is at hand, and only then is the stop event looked at. `Backlog` bounds `joined`: it is how many messages
can arrive in time. With `Prefetch = 1` and without events nothing can join. A connection that is lost is noticed at the next
check or acknowledgement. `Loop`, `Function` and `Wakes` are `periodic`; the health reporter's function
is itself a loop with a sleep, so that it sleeps twice. `ReaperLoop` and `Reap` are P4's reaper,
which sleeps before it reaps and not after. `Terminate`, `Close` and `Kill` are SIGTERM,
`wait_all` with `close_client`, and systemd's SIGKILL after `TimeoutStopSec`. The duration
of an attempt to connect is counted with the pause behind it, a silent death of the broker's
host adds the heartbeat's timeout to the time the loss is noticed.

### Authz, Access

`Authz` has no variables. What a setting of `.env` parses to is a sequence of entries, since
Python's dictionaries are ordered and that order decides (`AclCheck` takes the first pattern that
matches). `Dict` is the parsers' loop, which skips an entry that is malformed and assigns any other: a
second entry for a label replaces the first in its place. A token is its signed content: subject, expiry, the secret it was signed with.
A condition of a rule may be of the wrong type, as nothing checks the values of `AUTHZ_POLICY`: the rule then
raises when it is reached (`AttributeError`, `TypeError`, `ValueError`), unless a condition before it has failed.
`CheckAuthz` has the nested early returns of `check_authz`, and passes such an exception on; `Permits` is the order of
evaluation that the comment at `authz.py`:234-241 describes, as a formula.

`Access` puts these into the nodes of P1. `env[n]` is what the node's file says, `running[n]` what
its process read at start; `Edit` and `Restart` are the operator, one node at a time. `Issue` is
`POST /auth/token` (in every mode, as in the code), `Call` a request to a publishing endpoint with
the checks in the handler's order: `do_POST` reads the body before it authenticates, `do_PUT`
after. A body may be too large (413), unreadable, or have a field that is no number where flows 1-3 or a batch
need one (400). What a rule raises becomes 400 (`ValueError`) or 500 in `do_POST`; `do_PUT` and `do_DELETE` authorize outside of their
`try`, so that the connection ends without an answer (`dropped`). `last` is the latest call with its answer, forgotten before the next; `listed[l]` is when a
running process last knew the label `l`. Comparing digests in constant time, base64 and HMAC are reduced
to equality of keys and secrets.

## 3. What is checked

| run | bounds | properties |
|---|---|---|
| `race` | 1 message of flow 1 or 4, 2 consumers per queue, 2 faults, no replay, policy applied | `TypeOK`, `NoSilentLoss`, `WriteOnce`, `DeviceChangedOnce`, `DuplicateAccounted`, `AckedIsStored` |
| `rest` | 1 message of flow 1, 3, 4 or 5, 1 consumer per queue, 1 fault, 1 replay | `EventuallyAtRest`, `CalmDelivery` |
| `promise` | 1 message of flow 1 or 6, 1 consumer per queue, 1 fault, 1 replay, policy applied | `KeepsPromise`, `Inv` (the whole inductive invariant of `Pipeline`) |
| `migrate` | 3 waiting messages, 3 kills, both directions, deaths noticed before the next run | `Inv`, `NothingLost`, `Completed`, `OneCopyPerKill`, `EveryRunEnds`, `OrderKept` |
| `coordination` | 2 nodes, 1 outage, 1 death or stop, 1 written value (one parses, one does not) | `Inv`, `LeadersAccounted`, `Takeover`, `ConfigArrives`, `Delisted` |
| `gateway` | a batch of 2 and a single request, 2 slots, 2 attempts, a batch pool of 1, 1 outage or refused declaration | `TypeOK`, `ConfirmedIsStored`, `SlotsAccounted`, `OneLossAfterOutage`, `Answered`, `OutageNoticed`, `ShutdownEnds` |
| `stop` | P4: 2 consumers, health and metrics reporters, reaper, 1 outage, prefetch of 2, events, 1 delivery that joins, the intervals in proportion | `TypeOK`, `ClosesCleanly`, `StopsInTime`, `BackInTime`, `ReapsOnceMore` |
| `access` | 2 nodes, 5 settings, 2 edits, 1 token at a time that lives 1 of 2 hours | `TypeOK`, `RetiredFades`, `TokenGoodEverywhere`, `LastKeyCounts`, `DecidesByPrecedence` |
| `marked`, `event`, `registry`, `killed` | as small as the behaviour allows | four of the disagreements of section 5 |

* **NoSilentLoss.** From the 200 on, every branch of a message has a copy in a queue, in a
  handler's hands, among the dead letters or among those openly discarded; or P4 stored it
  or skipped it as a duplicate; or P3 reported its P5 publish as failed.
* **WriteOnce**, **DeviceChangedOnce.** While a key's znode has not been reaped, its row is
  inserted at most once and its change of `devices` is committed at most once, whatever is
  redelivered, replayed or handled twice at the same time.
* **DuplicateAccounted.** Every znode, and every delivery acknowledged on the strength of
  one, stands for a row, for a handler on its way to it, or for one that gave up in between
  (`abandoned`). It says exactly how far the barrier can be trusted.
* **AckedIsStored.** P4 acknowledges what it handled itself only with the row committed,
  and announces nothing else.
* **EventuallyAtRest.** No poison message, replay or redelivery keeps a message going.
* **KeepsPromise.** `Pipeline` implements `Promise` under the mapping; with several
  consumers per queue the instance is out of TLC's reach, and the theorem covers them.
* **CalmDelivery.** As long as nothing fails, every storable message is stored and announced.
* **NothingLost**, **OneCopyPerKill.** Whatever step the migration dies at and whichever way it is
  run next, every message is on one of its two queues, and each death has left at most
  one copy more.
* **Completed**, **EveryRunEnds.** A run that is not killed ends, with the type asked for and
  no temporary queue. The two need each other: a run that skips a leftover also ends.
* **OrderKept.** On the way to one type messages come out in their original order,
  repetitions aside. (Turned back half way, the tool may reorder; it promises nothing else.)

* **LeadersAccounted.** Two nodes lead at once only if the session of one of them has expired.
* **Takeover.** Whoever dies, is stopped, loses its connection or its session, or fails a
  call at whatever label: while the process runs on any node, one comes to consume.
* **ConfigArrives.** A written value that parses reaches every process that set up its watch,
  also when the client with the watch is no longer the shared one.
* **Delisted.** The registry znode of a dead process goes away.

* **ConfirmedIsStored.** A 200 means that the broker has every message of the request, whatever the
  heartbeat, an outage and the closing of connections in use do between publish and confirm.
* **SlotsAccounted.** A slot is held or waited for by exactly those that have work to do on it, each at one
  place of one line, and only the holder of a slot has a publish under way: however a publish, a round of
  the heartbeat or the start of the server ends, it gives the semaphore back.
* **OneLossAfterOutage.** Once the broker is back each publisher connection fails one publish more at most, the one that
  finds it lost, and another when `main` closes it: the slot is left in a state from which the next holder sets up
  a connection. How many publishes fail while the broker is away is not bounded: each that
  gets the slot uses up its attempts.
* **Answered.** Every accepted request is answered or ends with the process: nobody waits for ever
  for a slot, for a place in the pool or for a batch's greenthread.
* **OutageNoticed.** While the broker stays away, `/ready` comes to say so, even if nobody
  publishes. It takes the heartbeat a round for each connection, since a dead one ends the round.
* **ShutdownEnds.** With a broker, SIGTERM ends P1 by itself.

* **ClosesCleanly**, **StopsInTime.** With the broker reachable, every greenthread sees the
  stop event within the time of the slowest (twice the interval for a reporter whose function sleeps
  too, a poll with its deliveries and those that join it, a reconnection), and the process then closes its ZooKeeper session
  itself, if systemd waits that long. With one delivery at a time and no events the bound does not depend on what waits
  in the queues (`Deliveries`); otherwise it grows with the deliveries that join. With what it is shipped with systemd does
  not wait long enough (`killed`).
* **BackInTime.** After an outage every consumer consumes again within a retry, a restart
  and the handler it was in, also when its attempts were used up meanwhile.
* **ReapsOnceMore.** After SIGTERM the reaper reaps at most once more.

* **RetiredFades.** A label dropped on all nodes, one after the other, is accepted for at most one
  token life after the last of them.
* **TokenGoodEverywhere.** A token is good on every node with the secret until it expires, in spite of restarts
  and changed keys.
* **LastKeyCounts.** Of two entries for one label the last is the key; the one it replaced is not accepted.
* **DecidesByPrecedence.** A call with a good body that is authenticated gets to its publish exactly if the order
  of evaluation that `authz.py` documents permits it; a rule that raises lets nobody through. It is not the order
  that `.env.mgmtnode1` suggests (section 5).

*Bounds.* Messages do not interact (each has its own dedup keys and copies; consumers are
never exhausted, since there is a slot per queue), so one message shows what redelivery does to
it. Two consumers per queue are what it takes for two handlers of one message to meet; one fault
makes a second copy, and the second stops a handler that has the copy. In `rest` and `promise`
`MaxReplays = 1` puts one rejected copy back. The flows are one of each shape: 1 through the relays to a row,
4 with a device and a row that is refused, 3 through P5, 6 with two branches. Each of the
faults, at every label, occurs in some run. The theorems lift all these bounds.
Three messages and three kills leave leftovers on both queues at once, in either role.
In `gateway` two slots and three messages make one slot shared by two jobs, the heartbeat and the
server while the other is free; the pool of one makes the batch's second greenthread wait for the
first; two attempts show both a retry and giving up; the outage, or the refusal, may come between any two
steps. In `stop` the intervals keep the order of the real ones (poll < health < metrics < reaper) at a smaller
scale; `TimeoutStop` there is what the slowest of them needs, so that `ClosesCleanly` says that nothing takes
longer: there that is a poll with two deliveries and a third that joins, each with its event. `killed` has the shipped proportions (5 s a unit) of 30, 60 and 30 s. In `access` a
key moves to another holder, a label is retired, and every mode and kind of rule occurs in one of the
five settings, rules that raise among them; two edits suffice to have two nodes apart and together again.
In `coordination` two nodes are what it takes for a leader and a successor; one outage makes a
second client, one end a second life of a process. `Number` is wide enough for every client those
two can cause, so it cuts nothing off.

*Fairness.* `WF_vars(\E w \in Worker : HandlerStep(w))`: some greenthread that can run is
eventually run. It is what the eventlet hub does with ready greenthreads, and `spawn`
restarts a consumer that died. It is deliberately weak: no particular consumer, and no
client, operator, reaper or fault, is promised a turn. `MigrateQueue` assumes
`WF_vars(ToolStep)`: a process that was started runs. `Coordination`
assumes that some process that can go on does, that watch callbacks are delivered, that clients
reconnect (kazoo retries for ever) and that ZooKeeper expires the sessions of dead processes;
not that a living session expires, nor that anybody starts a process. `Gateway`
assumes that something goes on among the requests and `main` (`WF_vars(Work \/ Shutdown)`: the hub runs
ready greenthreads), and that the server's and the heartbeat's greenthreads get their turns; not
that the broker comes back, nor that it answers at once: an outage may last for ever, and `OutageNoticed` and
`ShutdownEnds` say what they promise then. `Greenthreads` and `Access` need no fairness: what must happen
there has a deadline on a clock, so it is an invariant. Deadlock is not checked in these
runs: when every message has come to rest, the process has ended or the budgets are used up, nothing is left
to do.

## 4. What is proved

`PipelineProofs` proves, from `PipelineAssumption` alone (the idle mark is no message, the
bounds are naturals) and for any sets of messages and consumers and any budgets:
`TypeCorrect`, `InvCorrect`, `NoSilentLossCorrect`, `WriteOnceCorrect`,
`DeviceChangedOnceCorrect`, `DuplicateAccountedCorrect` and `AckedIsStoredCorrect`.

The properties are not inductive by themselves. `Inv` adds:

* `ForwardedFirst`, for no loss. A relay may drop its own copy by acknowledging only since
  another copy is further along. `Kept(m, b, r)` says that branch `b` of `m` is kept at rank
  `r` or beyond, and `ForwardedFirst` that it is kept beyond the queue of a relay that is
  about to acknowledge. The argument is that `Rank` grows along every publish (lemmas on
  the routing), that the copy a step takes is either put back, put further along or given
  up in the open, and that an acknowledged copy at rank `r` leaves one at `r + 1`.
* `BarrierHeld`, for writing once. Between its mark and its row a handler is alone with
  its key, the znode exists and nothing has been written. Reaping a key takes it out of
  the statement, for good.
* `DuplicateSeen`, for the ledger: the verdict on a duplicate is true when it is made and
  stays true until the acknowledgement.
* `LabelsInPlace`: which handlers reach which labels.

`TypeCorrect` comes first and every other step uses it. Each `...Step` lemma has one
step per action or group of actions that leave the same parts alone.

`PromiseProofs` proves `PromiseKept`: `Spec => Abstract!Spec`, from the same assumption.
The mapping needs more than `Inv`: `Traced` (a handler, on a lost channel too, works on a message
that is still present or has an outcome on every branch its queue serves, so that its row
or its rejection closes nothing that was never open), `Unasked` and `Unanswered` (nothing
is found of a message, and nobody is answered, before a client sends it). The
argument is in three lemmas: a step is about one message only (`HandlerAboutSubject`,
`OperatorAbout`, `ClientAbout`), it makes no branch present that was not
(`HandlerBringsNothingBack`: a publish stays on the branches of its queue), and it adds
outcomes of one kind (`HandlerOutcome`). `Bookkeeping` turns these, with `KeptStays` of
`PipelineProofs`, into a step of `Promise`.

`MigrateQueueProofs` proves `InvCorrect`, `NothingLostCorrect`, `CompletedCorrect` and
`OneCopyPerKillCorrect` for any sequence of waiting messages and any number of kills, from
`MigrateAssumption`, `Late = {}` (P1 is stopped) and `~Hasty` (the broker has noticed a death before the next run;
section 5 has what happens otherwise). With these, a running tool works at the head of its queue (`AtHead`). `Stage` is the strengthening: which queues exist at which label, that between the
copy and the acknowledgement the head of the source is also on the destination, and that a
queue about to be deleted is empty.

`CoordinationProofs` proves `InvCorrect` and `LeadersAccountedCorrect` from
`CoordinationAssumption` (the default parses and is no mark for "unseeded"; the bounds are
naturals), for any number of nodes. `LeadersAccounted` is not inductive: it needs `HoldsLock`, that
an elected leader with a live session is `First`, and `Queued`, that of two contenders one is
ahead of the other. Clients that leave do not change who is first among the others
(`LeaveKeepsFirst`), and one that enters comes last (`EnterKeepsQueue`).

`OrderKeptCorrect` adds that the messages, if they are distinct, keep their order as long as every run
is towards the same type `k`. Its invariant is `Towards(k)`: reading the queue that is handed out first
and then the other, no message comes before an earlier one (`Ordered`). Until the queue has the type `k`
the temporary queue comes first, from then on the queue itself; at the moment of the change one of them is empty
(`EmptyOrder`), and copying the head or dropping it once it has been copied keeps the order however often it is
repeated (`CopyKeepsOrder`, `AckKeepsOrder`). That the condition `[](goal \in {"none", k})` is temporal
is no obstacle: the conclusion is an invariant under it.

`GatewayProofs` proves `TypeCorrect`, `SlotsAccountedCorrect`, `ConfirmedIsStoredCorrect` and
`OneLossAfterOutageCorrect` from `GatewayAssumption` alone, for any requests and batches, slots, attempts,
outages and refusals. `IInv` joins to the four:

* `InOrder`: the jobs of a batch that are not started are the last ones, which is how the loop spawns them.
  Without it `Spawn` could start a job that already holds a slot.
* `DoneIsStored`: a job that is done is stored, so that a 200, given when all are done, says what it should.
* `LossToCome`, for the bound on losses: a publish that is about to fail counts already. A slot is `Exposed` while its
  connection is lost unnoticed, or closed under a holder that waits for the broker; as the failure
  ends that, none is counted twice.

The lemmas on the lines come first (`JoinLine`, `LeaveLine`, `FirstIsIdle`, `NextIsIdle`): whoever joins is in no line yet,
whoever leaves is the head of its own. Every step lemma then says who enters or leaves which line.

`GreenthreadsProofs` proves `TypeCorrect`, `StopsInTimeCorrect`, `BackInTimeCorrect` and
`ReapsOnceMoreCorrect` from `GreenthreadsAssumption` (finitely many periodics, at most one reaper,
durations that are not zero where the code's are not), for any greenthreads, durations and backlog, and
`ClosesCleanlyCorrect` if moreover `Longest <= TimeoutStop`, which the run `killed` shows to be what the
shipped units lack. The deadlines are not inductive. `Left(t)` is what a greenthread may still take
at most: its timer and what follows it, such as the deliveries behind the one in hand and those that may
still join them (`Behind`), the restart of a consumer whose
connection is lost, or the second interval of a health reporter. The argument is that of a potential: `InTime`
says that for everyone who is not there yet the clock and `Left(t)` together stay below the
bound; a step of the greenthread does not raise `Left(t)` (`EveryoneShrinks`), and time takes from it what it adds to the
clock, since it passes only while every timer runs. `InPlace` has what the labels say of the timers and
counters, `OneClock` that without an outage both clocks run from SIGTERM, `ReaperDone` that
a reaper that has reaped after SIGTERM does not wait again. `Longest` is a maximum over a set of any size, which
exists because the set is finite (`FiniteMax`).

`AuthzProofs` proves `DecisionTheorem`, that `check_authz` says yes exactly if `Permits` does, for every setting and
call, rules that raise included. The argument is by cases on the answer of the roles; what makes it work is that a denial by the
roles or the list is passed on to every later part. It also proves `DictTheorem`: for a list of any
length, what the parsers' loop returns has one entry for each key, the last one listed. This is
induction over data. The library's induction theorems are of no use for it, but a set of numbers with no least
counterexample is: `ReadsExists` builds the function that the fold chooses, one entry longer at a time,
and `AssignAgrees` is the step.

`AccessProofs` proves `DecidesCorrect`, from `DecisionTheorem`, and `TypeCorrect`, `RetiredFadesCorrect`,
`TokenGoodEverywhereCorrect` and `LastKeyCountsCorrect`, for any nodes, settings, callers and order of
edits and restarts. `KeysAssumption` says that the entries of a `.env` are of the given labels and keys or
malformed, and that no label is the mark for "nobody"; `parse_api_keys` skips an entry without one. `IInv` adds that a label
a running process lists was listed now, that a token's subject was listed within its life time before it expires
(`TokensOK`), and that its secret is a real one. `TypeOK` there has that a token's label is listed in some `.env` with
that secret. `AuthCases` then says that whoever is accepted has shown
a key listed for the label or a token that lasts; what `SelectInSeq` finds is in `VerifyApiKeyCases`.

Only model-checked: the liveness properties `EventuallyAtRest`, `CalmDelivery`, `EveryRunEnds`,
`Takeover`, `ConfigArrives`, `Delisted`, `Answered`, `OutageNoticed` and `ShutdownEnds` (liveness under
fairness is out of the prover's reach). Every invariant of a passing run, and `OrderKept`, is a theorem.

## 5. Where the code and its documentation disagree

With a run that shows it:

* `marked`: P4 creates the znode before the row. After a crash or an error in between, the next copy is
  acknowledged as a duplicate of a message that nobody stored; zk.py says that the
  existing znode means "already persisted".
* `event`: the payloads of flows 4-7 have no `item_id`, and `processed_messages.item_id` is NOT
  NULL; the row is refused after the device was changed, and the event the ReadMe promises
  is never sent.
* `registry`: a process that starts before the session of its previous life has expired overwrites that
  session's znode; it is then deleted with the old session, and the running process is
  not listed.
* `killed`: a process waits for every sleeping greenthread, up to 60 s for the reporters as shipped (600 s for
  P4's reaper); systemd kills it after 30 s, before the ZooKeeper session is closed, although the
  unit's comment says that the time is enough. Pacemaker's `op stop timeout=30s` has the same problem.

Read in the code while modelling, without a run of its own:

* The policy's pattern covers the queues of flows 1-3 only; rejected messages of
  flows 4-7 are gone, policy or not (`ReadMe.md`:11260 has them dead-lettered). `discarded` in `Pipeline`.
* P3 acknowledges a flow-6 message although its publish to P5 failed (`FanOutFails`, `unsynced`);
  `ReadMe.md`:11253 says that a message is never acknowledged upstream and lost downstream.
* The migration tool counts and then deletes unconditionally, although its text says that only an
  empty queue is deleted; a message that P1 publishes in between is deleted too (`Late`).
* The same tool, run again before the broker has noticed that a dead run's connection is gone (its machine is down and its
  heartbeats are not yet missed), does not see the message that run had fetched: the count is zero and the
  message is deleted with the queue. `migrate_queue_type.py`:25 says that the script "is safe to re-run". With
  `Hasty = TRUE` and without `Inv`, which assumes the opposite, TLC finds `NothingLost` violated in the run `migrate` after one
  death.
* With `NOTIFICATIONS_ENABLED` a P4 consumer acknowledges (`process4.py`:70) and then waits for its event's confirm on the same
  channel (:71), during which the next message arrives: one `process_data_events` goes on through the whole
  backlog, and the loop's `is_stopping()` is not asked. `flowfirst-process4.service`:21 promises time
  enough for a clean stop. With `Periodic` and `Looping` empty, `Notifies = TRUE` and `Backlog = 8` in the run `killed`, TLC shows
  the process killed although nobody sleeps. A relay with `GT_PREFETCH_COUNT` above 1 has the same.
* `.env.mgmtnode1`:382 says that the rules of `AUTHZ_POLICY` are "evaluated in order", and :385 gives an example to
  "deny publishes outside business hours, except for ci_bot". `check_authz` looks at every deny rule before any allow
  rule, as the comment in `authz.py` says, so the example refuses `ci_bot` too; in the order of the list it would as
  well, since the deny rules come first. `DecidesByPrecedence` is about the order in `authz.py`.
* `authz.py`:237 and :497 make it depend on `AUTHZ_ACL_MODE=add` whether the access list can grant what the roles
  denied. Nothing reads that setting, and the list always can. `Permits` follows the code in that.
* A batch asks for the resource `flow:*`, which no permission of the built-in role `publisher` covers,
  though `authz.py`:254 says that it "may submit messages to all flows (1-7) and batch": 403 in the mode `rbac`.
* The built-in permission `zk:config:write` is never asked for: `POST /zk/config` has its own
  administrator check.
* `ReadMe.md`:11305 says how long a dead connection may count as open in `/ready`; the heartbeat's
  round stops at the first dead connection, so with several it takes a round each (`Touch`).
* `ReadMe.md`:133 gives `{"firmware_version":"3.0.0","tags":...}` as an update. `upsert_device` inserts with
  NULL for `device_name` and `device_type`, which are NOT NULL, so the row is refused; an update that
  names both resets every column it leaves out.
* `ReadMe.md`:140 calls `update_sequence` a monotonic timestamp. With a config watcher it is the configured
  number, 0 by default (`process2.py`:253), and nothing compares it: the remote branch of an older
  update may overwrite a newer one.
* `ReadMe.md`:8519 says that requests fail while the broker is down and nothing is queued in P1; they queue for
  the slots while their holders go through up to twenty attempts to connect.

## 6. The plan

The modules of the plan are written except `Devices` (section 7), and every safety property that a run checks
is proved. What is left is to state more and prove it:

1. What the configuration and the registry of `Coordination` keep safe (a process that watches never goes
   back to an older value than its client has seen), as invariants beside `LeadersAccounted`.
2. `Gateway` as an implementation of the one publish that `Pipeline` has of a request.

## 7. Not modelled

* What `devices` holds when creates, updates and deletes of one device overtake each other: the three
  travel on separate queues, nothing in the code orders them, and the table holds what was handled last.
  `Pipeline` has only that a change is committed, and not twice.
* The administrator check of `POST /zk/config` (a certificate's name on a list), the endpoints that only
  read, CORS. Clocks of nodes that differ: `Access` has one, and a difference would be added to the life of a token.
* A listening socket or certificate that P1 cannot open: it is restarted with the slot connected already.
* `kill_greenthread`, the name table and the counters (only demonstrations and status pages use them).
* Object storage, metrics, logging, TLS and secrets (no state that the pipeline reads back).
* The shell provisioning of external systems and the monitoring rules (no protocol of their
  own), the ordering and sandboxing of service units.
* The demonstrations, the notification listener and the load test (they only drive or watch a running cluster).
