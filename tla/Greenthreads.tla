---------------------------- MODULE Greenthreads -----------------------------
(***************************************************************************)
(* The greenthreads of a process that consumes (src/gt/gt.py and _consume  *)
(* of P2 to P5), from the connection that is retried to the SIGTERM that   *)
(* ends them, in discrete time, under systemd, which kills a process that  *)
(* takes too long to stop.                                                 *)
(***************************************************************************)
EXTENDS Naturals, FiniteSetsExt

CONSTANTS
    Consumer,       \* spawn_consumers
    Periodic,       \* gt.periodic
    Looping,        \* those whose function is itself a loop (the health reporters)
    Reaper,         \* the dedup reaper, which P4 has and the others have not
    Interval,       \* between two runs of a periodic or of the reaper
    Poll,           \* process_data_events(time_limit=1)
    RetryPause,     \* between two attempts to connect
    MaxAttempts,    \* to connect
    RestartPause,   \* before a greenthread that raised is restarted
    HandlerTime,    \* bound: how long a handler takes to its ack, and its event
    Prefetch,       \* GT_PREFETCH_COUNT
    Notifies,       \* whether the handlers are P4's with NOTIFICATIONS_ENABLED
    Backlog,        \* bound: deliveries that join a call while it dispatches
    TimeoutStop,    \* TimeoutStopSec
    MaxClock,       \* bound: the clocks, which stay at it
    MaxOutages      \* bound: outages of the broker

Sleeper == Periodic \cup Reaper
Thread == Consumer \cup Sleeper

ASSUME GreenthreadsAssumption ==
    /\ Looping \subseteq Periodic
    /\ Consumer \cap Sleeper = {} /\ Periodic \cap Reaper = {}
    /\ IsFiniteSet(Sleeper) /\ \A r, q \in Reaper : r = q
    /\ Interval \in [Sleeper -> Nat \ {0}]
    /\ {Poll, RetryPause, RestartPause, MaxAttempts, Prefetch} \subseteq Nat \ {0}
    /\ {HandlerTime, Backlog, TimeoutStop, MaxClock, MaxOutages} \subseteq Nat
    /\ Notifies \in BOOLEAN

VARIABLES
    broker,     \* "up" or "down"
    at,         \* where a greenthread stands
    timer,      \* how long it still sleeps, or waits for an event
    attempt,    \* attempts to connect that have failed
    pending,    \* deliveries that process_data_events has still to dispatch
    joined,     \* deliveries that have joined the call since it began
    linked,     \* whether a consumer's connection is open
    main,       \* the main greenthread of the process
    stopClock,  \* time since SIGTERM
    calmClock,  \* time since SIGTERM, or since the broker is back
    outages,
    disturbed,  \* history: an outage touched the stop
    reapedLate  \* history: times the reaper reaped after SIGTERM

consumers == <<attempt, pending, joined, linked>>
environment == <<broker, outages, disturbed>>
clocks == <<stopClock, calmClock>>
vars == <<at, timer, consumers, main, clocks, environment, reapedLate>>

IsStopping == main # "serving"
Alive == main \in {"serving", "joining"}

Init ==
    /\ broker = "up" /\ outages = 0 /\ disturbed = FALSE
    /\ at = [t \in Thread |-> IF t \in Consumer THEN "dialing" ELSE "loop"]
    /\ timer = [t \in Thread |-> 0]
    /\ attempt = [c \in Consumer |-> 0]
    /\ pending = [c \in Consumer |-> 0] /\ joined = [c \in Consumer |-> 0]
    /\ linked = [c \in Consumer |-> FALSE]
    /\ main = "serving"
    /\ stopClock = 0 /\ calmClock = 0
    /\ reapedLate = 0

Due(t, label) == Alive /\ at[t] = label /\ timer[t] = 0

Goes(t, label, duration) ==
    /\ at' = [at EXCEPT ![t] = label]
    /\ timer' = [timer EXCEPT ![t] = duration]

-----------------------------------------------------------------------------
(* Consumers.                                                              *)

(* get_rmq_connection_with_retry, and on success setup_queues and          *)
(* basic_consume.                                                          *)
Dial(c) ==
    /\ Due(c, "dialing")
    /\ IF broker = "up"
       THEN /\ attempt' = [attempt EXCEPT ![c] = 0]
            /\ linked' = [linked EXCEPT ![c] = TRUE]
            /\ Goes(c, "checking", 0)
       ELSE /\ attempt' = [attempt EXCEPT ![c] = @ + 1]
            /\ Goes(c, "retrying", RetryPause)
            /\ UNCHANGED linked
    /\ UNCHANGED <<pending, joined, main, clocks, environment, reapedLate>>

(* Mutant: the greenthread was spawned without restart_on_error.           *)
RaisesForGood(c) ==
    /\ Goes(c, "ended", 0)
    /\ attempt' = [attempt EXCEPT ![c] = 0]
    /\ pending' = [pending EXCEPT ![c] = 0] /\ joined' = [joined EXCEPT ![c] = 0]
    /\ linked' = [linked EXCEPT ![c] = FALSE]

(* The wrapper of spawn: an exception restarts a consumer after a pause.   *)
Raises(c) ==
    /\ Goes(c, "resting", RestartPause)
    /\ attempt' = [attempt EXCEPT ![c] = 0]
    /\ pending' = [pending EXCEPT ![c] = 0] /\ joined' = [joined EXCEPT ![c] = 0]
    /\ linked' = [linked EXCEPT ![c] = FALSE]

(* Mutant: the attempts are not counted.                                   *)
RetryEndsAlways(c) ==
    /\ Due(c, "retrying")
    /\ Goes(c, "dialing", 0)
    /\ UNCHANGED <<consumers, main, clocks, environment, reapedLate>>

(* Every failed attempt is followed by a pause, the last one too.          *)
RetryEnds(c) ==
    /\ Due(c, "retrying")
    /\ IF attempt[c] = MaxAttempts THEN Raises(c)
       ELSE Goes(c, "dialing", 0) /\ UNCHANGED consumers
    /\ UNCHANGED <<main, clocks, environment, reapedLate>>

RestEnds(c) ==
    /\ Due(c, "resting") /\ Goes(c, "dialing", 0)
    /\ UNCHANGED <<consumers, main, clocks, environment, reapedLate>>

(* Mutant: while True.                                                     *)
CheckNothing(c) ==
    /\ Due(c, "checking")
    /\ IF ~linked[c] THEN Raises(c)
       ELSE Goes(c, "polling", Poll) /\ UNCHANGED consumers
    /\ UNCHANGED <<main, clocks, environment, reapedLate>>

(* The loop: while not is_stopping(): process_data_events; and conn.close  *)
(* behind it, which raises on a connection that is lost.                   *)
Check(c) ==
    /\ Due(c, "checking")
    /\ IF ~linked[c] THEN Raises(c)
       ELSE IF IsStopping
       THEN /\ Goes(c, "ended", 0)
            /\ linked' = [linked EXCEPT ![c] = FALSE]
            /\ UNCHANGED <<attempt, pending, joined>>
       ELSE Goes(c, "polling", Poll) /\ UNCHANGED consumers
    /\ UNCHANGED <<main, clocks, environment, reapedLate>>

PollEnds(c) ==
    /\ Due(c, "polling") /\ Goes(c, "checking", 0)
    /\ UNCHANGED <<consumers, main, clocks, environment, reapedLate>>

(* The call ends its wait when deliveries are at hand, and dispatches them *)
(* one after the other.                                                    *)
Deliver(c) ==
    /\ Alive /\ at[c] = "polling" /\ linked[c]
    /\ \E k \in 1..Prefetch : pending' = [pending EXCEPT ![c] = k]
    /\ joined' = [joined EXCEPT ![c] = 0]
    /\ \E h \in 0..HandlerTime : Goes(c, "handling", h)
    /\ UNCHANGED <<attempt, linked, main, clocks, environment, reapedLate>>

(* A handler that waits for the broker reads what else has been delivered: *)
(* from left the deliveries at hand go up to k.                            *)
Joining(c, left, k) ==
    /\ joined[c] + k <= Backlog + left
    /\ pending' = [pending EXCEPT ![c] = k]
    /\ joined' = [joined EXCEPT ![c] = @ + k - left]

(* The call goes on as long as there are any, and looks at no stop event.  *)
Dispatch(c, k) ==
    IF k = 0 THEN Goes(c, "checking", 0)
    ELSE \E h \in 0..HandlerTime : Goes(c, "handling", h)

(* The handler waits for the confirm of its publish, if it has one, and    *)
(* acknowledges, which raises on a connection that is lost. The broker     *)
(* holds back Prefetch deliveries until then. An event comes after the     *)
(* ack, if the handler has one and its flow is among those announced.      *)
Handled(c) ==
    /\ Due(c, "handling")
    /\ IF ~linked[c] THEN Raises(c)
       ELSE /\ \E k \in (pending[c] - 1)..(Prefetch - 1) :
                  /\ Joining(c, pending[c] - 1, k)
                  /\ \/ Dispatch(c, k)
                     \/ Notifies /\ \E h \in 0..HandlerTime : Goes(c, "notifying", h)
            /\ UNCHANGED <<attempt, linked>>
    /\ UNCHANGED <<main, clocks, environment, reapedLate>>

(* notify, on the same channel, swallows its failure; the ack has made     *)
(* room for one more delivery.                                             *)
Notified(c) ==
    /\ Due(c, "notifying")
    /\ \E k \in pending[c]..Prefetch :
          /\ linked[c] \/ k = pending[c]
          /\ Joining(c, pending[c], k) /\ Dispatch(c, k)
    /\ UNCHANGED <<attempt, linked, main, clocks, environment, reapedLate>>

-----------------------------------------------------------------------------
(* Greenthreads that run something and sleep.                              *)

(* Mutant: the stop event is looked at when the interval after the run is  *)
(* over, and once more an interval later.                                  *)
LoopLate(p) ==
    /\ Due(p, "loop")
    /\ IF IsStopping /\ stopClock >= Interval[p] THEN Goes(p, "ended", 0)
       ELSE Goes(p, IF p \in Looping THEN "function" ELSE "pausing",
                 IF p \in Looping THEN 0 ELSE Interval[p])
    /\ UNCHANGED <<consumers, main, clocks, environment, reapedLate>>

(* periodic: a function that is not a loop has returned when it sleeps.    *)
Loop(p) ==
    /\ Due(p, "loop")
    /\ IF IsStopping THEN Goes(p, "ended", 0)
       ELSE IF p \in Looping THEN Goes(p, "function", 0)
       ELSE Goes(p, "pausing", Interval[p])
    /\ UNCHANGED <<consumers, main, clocks, environment, reapedLate>>

(* _gt_zk_health_reporter reports and sleeps in a loop of its own; when    *)
(* that ends, periodic sleeps again.                                       *)
Function(p) ==
    /\ Due(p, "function")
    /\ IF IsStopping THEN Goes(p, "pausing", Interval[p])
       ELSE Goes(p, "sleeping", Interval[p])
    /\ UNCHANGED <<consumers, main, clocks, environment, reapedLate>>

Wakes(p) ==
    /\ \/ Due(p, "sleeping") /\ Goes(p, "function", 0)
       \/ Due(p, "pausing") /\ Goes(p, "loop", 0)
    /\ UNCHANGED <<consumers, main, clocks, environment, reapedLate>>

(* Mutant: while True.                                                     *)
ReaperLoopOn(r) ==
    /\ Due(r, "loop") /\ Goes(r, "waiting", Interval[r])
    /\ UNCHANGED <<consumers, main, clocks, environment, reapedLate>>

(* The reaper sleeps first, and reaps then whatever has happened since.    *)
ReaperLoop(r) ==
    /\ Due(r, "loop")
    /\ IF IsStopping THEN Goes(r, "ended", 0)
       ELSE Goes(r, "waiting", Interval[r])
    /\ UNCHANGED <<consumers, main, clocks, environment, reapedLate>>

Reap(r) ==
    /\ Due(r, "waiting") /\ Goes(r, "loop", 0)
    /\ reapedLate' = IF IsStopping THEN reapedLate + 1 ELSE 0
    /\ UNCHANGED <<consumers, main, clocks, environment>>

-----------------------------------------------------------------------------
(* The process.                                                            *)

(* SIGTERM, which sets the stop event; main is then in wait_all.           *)
Terminate ==
    /\ main = "serving" /\ main' = "joining"
    /\ stopClock' = 0 /\ calmClock' = 0
    /\ disturbed' = (broker = "down")
    /\ UNCHANGED <<at, timer, consumers, broker, outages, reapedLate>>

(* wait_all returns and the ZooKeeper client is closed.                    *)
Close ==
    /\ main = "joining" /\ \A t \in Thread : at[t] = "ended"
    /\ main' = "closed"
    /\ UNCHANGED <<at, timer, consumers, clocks, environment, reapedLate>>

(* SIGKILL.                                                                *)
Kill ==
    /\ main = "joining" /\ stopClock > TimeoutStop
    /\ main' = "killed"
    /\ UNCHANGED <<at, timer, consumers, clocks, environment, reapedLate>>

BrokerFails ==
    /\ Alive /\ broker = "up" /\ outages < MaxOutages
    /\ broker' = "down" /\ outages' = outages + 1
    /\ disturbed' = IsStopping
    /\ linked' = [c \in Consumer |-> FALSE]
    /\ UNCHANGED <<at, timer, attempt, pending, joined, main, clocks, reapedLate>>

BrokerReturns ==
    /\ Alive /\ broker = "down" /\ broker' = "up"
    /\ calmClock' = 0
    /\ UNCHANGED <<at, timer, consumers, main, stopClock, outages, disturbed,
                   reapedLate>>

(* Time passes when nobody can do anything before that.                    *)
Later(clock) == Min({clock + 1, MaxClock})

Tick ==
    /\ Alive
    /\ \A t \in Thread : at[t] # "ended" => timer[t] > 0
    /\ main = "joining" => /\ stopClock <= TimeoutStop
                           /\ \E t \in Thread : at[t] # "ended"
    /\ timer' = [t \in Thread |-> IF at[t] = "ended" THEN 0 ELSE timer[t] - 1]
    /\ stopClock' = IF main = "joining" THEN Later(stopClock) ELSE 0
    /\ calmClock' = IF broker = "up" THEN Later(calmClock) ELSE 0
    /\ UNCHANGED <<at, consumers, main, environment, reapedLate>>

Step(t) ==
    \/ t \in Consumer /\ (Dial(t) \/ RetryEnds(t) \/ RestEnds(t) \/ Check(t)
                            \/ PollEnds(t) \/ Deliver(t) \/ Handled(t) \/ Notified(t))
    \/ t \in Periodic /\ (Loop(t) \/ Function(t) \/ Wakes(t))
    \/ t \in Reaper /\ (ReaperLoop(t) \/ Reap(t))

Next ==
    \/ \E t \in Thread : Step(t)
    \/ Terminate \/ Close \/ Kill \/ BrokerFails \/ BrokerReturns \/ Tick

Spec == Init /\ [][Next]_vars

-----------------------------------------------------------------------------
TypeOK ==
    /\ broker \in {"up", "down"} /\ outages \in 0..MaxOutages
    /\ at \in [Thread -> {"dialing", "retrying", "resting", "checking", "polling",
                          "handling", "notifying", "loop", "function", "sleeping", "pausing",
                          "waiting", "ended"}]
    /\ timer \in [Thread -> Nat]
    /\ attempt \in [Consumer -> 0..MaxAttempts]
    /\ pending \in [Consumer -> 0..Prefetch] /\ joined \in [Consumer -> 0..Backlog]
    /\ linked \in [Consumer -> BOOLEAN]
    /\ main \in {"serving", "joining", "closed", "killed"}
    /\ stopClock \in Nat /\ calmClock \in Nat
    /\ disturbed \in BOOLEAN /\ reapedLate \in Nat

(* The time of one delivery, with its event.                               *)
Delivery == IF Notifies THEN 2 * HandlerTime ELSE HandlerTime

(* How many one call dispatches: with one delivery at a time and no event  *)
(* after the ack nothing can join it.                                      *)
Deliveries == Prefetch + (IF Prefetch = 1 /\ ~Notifies THEN 0 ELSE Backlog)

(* The connection's loss is noticed when a poll or a delivery ends, or an  *)
(* attempt to connect has just failed, perhaps the last.                   *)
Reconnection == Max({RetryPause, Poll, Delivery}) + RestartPause

(* How long the slowest greenthread may take to see the stop event: a      *)
(* periodic sleeps once more after the function that was a loop; a         *)
(* consumer may have a poll's deliveries before it, or a reconnection.     *)
Longest ==
    Max({(IF s \in Looping THEN 2 ELSE 1) * Interval[s] : s \in Sleeper}
        \cup {Poll + Deliveries * Delivery, Reconnection})

(* With the broker reachable a process ends by itself, and closes its      *)
(* ZooKeeper session, before systemd kills it: what the comment on         *)
(* TimeoutStopSec in flowfirst-process1.service to 4 promises.             *)
ClosesCleanly == main = "killed" => disturbed

(* Once the broker is reachable, for good or since the outage, the process *)
(* is stopped within the time of its slowest greenthread (gt.py, wait_all).*)
(* With one delivery at a time and no events that is a time the settings   *)
(* give; otherwise what waits in the queue counts, as a call that is       *)
(* joined by further deliveries looks at the stop event behind the last.   *)
StopsInTime == main = "joining" /\ broker = "up" => calmClock <= Longest

(* Once the broker is reachable every consumer consumes again within a     *)
(* retry, a restart and the delivery it was in, also if its attempts to    *)
(* connect were used up (gt.py, spawn and get_rmq_connection_with_retry).  *)
BackInTime ==
    main = "serving" /\ broker = "up" =>
        \A c \in Consumer :
            /\ calmClock > Reconnection => linked[c]
            /\ at[c] # "ended"

(* After SIGTERM the reaper removes znodes at most once more.              *)
ReapsOnceMore == reapedLate <= 1
=============================================================================
