-------------------------- MODULE GreenthreadsProofs --------------------------
(***************************************************************************)
(* Proofs about Greenthreads, for any greenthreads and any durations.      *)
(***************************************************************************)
EXTENDS Greenthreads, FiniteSetTheorems, TLAPS

-----------------------------------------------------------------------------
(* Maxima.                                                                 *)

(* A finite set of numbers that is not empty has a greatest.               *)
LEMMA FiniteMax ==
    ASSUME NEW S \in SUBSET Nat, IsFiniteSet(S), S # {}
    PROVE  Max(S) \in S /\ \A y \in S : y <= Max(S)
<1> DEFINE HasMax(U) == \E x \in U : \A y \in U : x >= y
           Bad == {U \in SUBSET S : U # {} /\ ~HasMax(U)}
           R == StrictSubsetOrdering(S)
<1>1. IsWellFoundedOn(R, SUBSET S)
  BY FS_StrictSubsetOrderingWellFounded, FS_FiniteSubsetsOfFinite
<1>2. Bad = {}
  <2> SUFFICES ASSUME Bad # {} PROVE FALSE
    OBVIOUS
  <2>1. Bad \subseteq SUBSET S
    OBVIOUS
  <2> HIDE DEF Bad, R
  <2>2. PICK U \in Bad : \A V \in Bad : ~(<<V, U>> \in R)
    BY <1>1, <2>1, WFMin
  <2> USE DEF Bad
  <2>3. PICK x \in U : TRUE
    BY <2>2
  <2> DEFINE V == U \ {x}
  <2>4. <<V, U>> \in R
    BY <2>2, <2>3 DEF R, StrictSubsetOrdering
  <2>5. CASE V = {}
    BY <2>2, <2>3, <2>5
  <2>6. CASE V # {}
    <3>1. HasMax(V)
      BY <2>2, <2>4, <2>6
    <3>2. PICK z \in V : \A y \in V : z >= y
      BY <3>1
    <3>3. x \in Nat /\ z \in Nat /\ U \subseteq Nat /\ z \in U
      BY <2>2, <2>3, <3>2
    <3>4. HasMax(U)
      <4>1. CASE z >= x
        BY <3>2, <3>3, <4>1
      <4>2. CASE x > z
        <5>1. \A y \in U : x >= y
          BY <3>2, <3>3, <4>2
        <5> QED BY <2>3, <5>1
      <4> QED BY <3>3, <4>1, <4>2
    <3> QED BY <2>2, <3>4
  <2> QED BY <2>5, <2>6
<1>3. PICK x \in S : \A y \in S : x >= y
  BY <1>2
<1>4. Max(S) \in S /\ \A y \in S : Max(S) >= y
  BY <1>3 DEF Max
<1> QED BY <1>4

(* The earlier of a clock's next value and its bound.                      *)
LEMMA LaterIsNext ==
    ASSUME NEW n \in Nat
    PROVE  Later(n) \in Nat /\ Later(n) <= n + 1
<1>1. MaxClock \in Nat
  BY GreenthreadsAssumption
<1>2. \E x \in {n + 1, MaxClock} : \A y \in {n + 1, MaxClock} : x =< y
  BY <1>1
<1>3. /\ Later(n) \in {n + 1, MaxClock}
      /\ \A y \in {n + 1, MaxClock} : Later(n) =< y
  BY <1>2 DEF Later, Min
<1> QED BY <1>1, <1>3

LEMMA DurationTypes ==
    /\ Poll \in Nat \ {0} /\ RetryPause \in Nat \ {0} /\ RestartPause \in Nat \ {0}
    /\ MaxAttempts \in Nat \ {0} /\ Prefetch \in Nat \ {0} /\ HandlerTime \in Nat
    /\ \A s \in Sleeper : Interval[s] \in Nat \ {0}
    /\ Backlog \in Nat /\ Notifies \in BOOLEAN
BY GreenthreadsAssumption

(* The event's part of a delivery, and how many deliveries may join a call.*)
Event == IF Notifies THEN HandlerTime ELSE 0
Spare == IF Prefetch = 1 /\ ~Notifies THEN 0 ELSE Backlog

(* How long n deliveries take.                                             *)
Rest(n) == n * Delivery

LEMMA DeliveryTypes ==
    /\ Delivery \in Nat /\ Event \in Nat /\ Delivery = HandlerTime + Event
    /\ Notifies => Event = HandlerTime
    /\ Spare \in Nat /\ Spare <= Backlog
    /\ (Prefetch # 1 \/ Notifies) => Spare = Backlog
    /\ Deliveries \in Nat /\ Deliveries = Prefetch + Spare
BY DurationTypes DEF Delivery, Event, Spare, Deliveries

LEMMA RestBounds ==
    /\ \A n \in Nat : Rest(n) \in Nat /\ Rest(n + 1) = Rest(n) + Delivery
    /\ \A m, n \in Nat : m <= n => Rest(m) <= Rest(n)
    /\ Rest(Deliveries) = Deliveries * Delivery
<1>1. Delivery \in Nat
  BY DeliveryTypes
<1>2. ASSUME NEW n \in Nat PROVE n * Delivery \in Nat /\ (n + 1) * Delivery = n * Delivery + Delivery
  BY <1>1
<1>3. ASSUME NEW m \in Nat, NEW n \in Nat, m <= n PROVE m * Delivery <= n * Delivery
  <2>1. n - m \in Nat /\ (n - m) * Delivery \in Nat
    BY <1>1, <1>3
  <2>2. n * Delivery = m * Delivery + (n - m) * Delivery
    BY <1>1
  <2>3. m * Delivery \in Nat
    BY <1>1
  <2> QED BY <2>1, <2>2, <2>3
<1> QED BY <1>2, <1>3 DEF Rest

LEMMA RestAfter ==
    ASSUME NEW n \in Nat, n - 1 \in Nat
    PROVE  Rest(n) = Rest(n - 1) + Delivery /\ Rest(n - 1) \in Nat
<1> DEFINE m == n - 1
<1>1. m \in Nat /\ m + 1 = n
  OBVIOUS
<1> HIDE DEF m
<1>2. Rest(m + 1) = Rest(m) + Delivery /\ Rest(m) \in Nat
  BY <1>1, RestBounds
<1> QED BY <1>1, <1>2 DEF m

LEMMA ReconnectionBounds ==
    /\ Reconnection \in Nat
    /\ RetryPause + RestartPause <= Reconnection
    /\ Poll + RestartPause <= Reconnection
    /\ Delivery + RestartPause <= Reconnection
<1> DEFINE S == {RetryPause, Poll, Delivery}
<1>1. RetryPause \in Nat /\ Poll \in Nat /\ Delivery \in Nat /\ RestartPause \in Nat
  BY DurationTypes, DeliveryTypes
<1>2. \E x \in S : \A y \in S : x >= y
  BY <1>1
<1>3. Max(S) \in S /\ \A y \in S : Max(S) >= y
  BY <1>2 DEF Max
<1> QED BY <1>1, <1>3 DEF Reconnection

LEMMA LongestBounds ==
    /\ Longest \in Nat
    /\ Reconnection <= Longest
    /\ Poll + Deliveries * Delivery <= Longest
    /\ \A s \in Sleeper : Interval[s] <= Longest
    /\ \A s \in Looping : 2 * Interval[s] <= Longest
<1> DEFINE Times(s) == (IF s \in Looping THEN 2 ELSE 1) * Interval[s]
           f == [s \in Sleeper |-> Times(s)]
           T == {Times(s) : s \in Sleeper}
           U == {Poll + Deliveries * Delivery, Reconnection}
           S == T \cup U
<1>1. /\ Poll + Deliveries * Delivery \in Nat /\ Reconnection \in Nat
      /\ \A s \in Sleeper : Interval[s] \in Nat
  <2>1. Rest(Deliveries) \in Nat
    BY DeliveryTypes, RestBounds
  <2> QED BY <2>1, DurationTypes, RestBounds, ReconnectionBounds
<1>2. S \in SUBSET Nat /\ S # {}
  BY <1>1
<1>3. IsFiniteSet(T)
  <2>1. f \in Surjection(Sleeper, T)
    BY DEF Surjection
  <2>2. IsFiniteSet(Sleeper)
    BY GreenthreadsAssumption
  <2> QED BY <2>1, <2>2, FS_Surjection
<1>4. IsFiniteSet(S)
  <2>1. IsFiniteSet(T \cup {Reconnection})
    BY <1>3, FS_AddElement
  <2>2. IsFiniteSet((T \cup {Reconnection}) \cup {Poll + Deliveries * Delivery})
    BY <2>1, FS_AddElement
  <2>3. S = (T \cup {Reconnection}) \cup {Poll + Deliveries * Delivery}
    OBVIOUS
  <2> QED BY <2>2, <2>3
<1>5. Max(S) \in S /\ \A y \in S : y <= Max(S)
  BY <1>2, <1>4, FiniteMax
<1>6. Longest = Max(S)
  BY DEF Longest
<1>7. \A s \in Sleeper : Times(s) <= Longest
  BY <1>5, <1>6
<1>8. Looping \subseteq Sleeper
  BY GreenthreadsAssumption DEF Sleeper
<1>9. /\ Longest \in Nat /\ Reconnection <= Longest
      /\ Poll + Deliveries * Delivery <= Longest
  BY <1>1, <1>2, <1>5, <1>6
<1> QED BY <1>1, <1>7, <1>8, <1>9

-----------------------------------------------------------------------------
(* Where a greenthread stands, and what that says of its variables.        *)
ConsumerInPlace(c) ==
    /\ at[c] \in {"dialing", "retrying", "resting", "checking", "polling",
                  "handling", "notifying", "ended"}
    /\ at[c] \in {"dialing", "checking"} => timer[c] = 0
    /\ at[c] = "dialing" => attempt[c] < MaxAttempts
    /\ at[c] = "retrying" => timer[c] <= RetryPause
    /\ at[c] = "resting" => timer[c] <= RestartPause /\ attempt[c] = 0
    /\ at[c] = "polling" => timer[c] <= Poll
    /\ at[c] \in {"handling", "notifying"} =>
          timer[c] <= HandlerTime /\ joined[c] <= Spare
    /\ at[c] = "handling" => pending[c] # 0
    /\ at[c] = "notifying" => Notifies /\ pending[c] # Prefetch
    /\ linked[c] => at[c] \in {"checking", "polling", "handling", "notifying"}
    /\ at[c] = "ended" => main # "serving"

SleeperInPlace(s) ==
    /\ at[s] \in {"loop", "function", "sleeping", "pausing", "waiting", "ended"}
    /\ timer[s] <= Interval[s]
    /\ at[s] \in {"loop", "function"} => timer[s] = 0
    /\ at[s] \in {"function", "sleeping"} => s \in Looping

InPlace ==
    /\ \A c \in Consumer : ConsumerInPlace(c)
    /\ \A s \in Sleeper : SleeperInPlace(s)

(* How many deliveries the running call may have behind the one in hand.   *)
Behind(c) ==
    (IF at[c] = "handling" THEN pending[c] - 1 ELSE pending[c]) + Spare - joined[c]

(* How much longer than its timer a greenthread may take until it ends, or *)
(* until its connection is open, with the broker up.                       *)
ConsumerOwes(c) ==
    IF at[c] = "retrying"
    THEN IF attempt[c] = MaxAttempts THEN RestartPause ELSE 0
    ELSE IF at[c] \in {"dialing", "resting", "ended"} THEN 0
    ELSE IF ~linked[c]
    THEN (IF at[c] = "notifying" /\ pending[c] # 0 THEN HandlerTime ELSE 0) + RestartPause
    ELSE IF at[c] = "polling" THEN Rest(Deliveries)
    ELSE IF at[c] = "handling" THEN Event + Rest(Behind(c))
    ELSE IF at[c] = "notifying" THEN Rest(Behind(c))
    ELSE 0

SleeperOwes(s) == IF at[s] \in {"function", "sleeping"} THEN Interval[s] ELSE 0

Left(t) == timer[t] + (IF t \in Consumer THEN ConsumerOwes(t) ELSE SleeperOwes(t))

(* Everybody who is not there yet is there in time.                        *)
InTime ==
    broker = "up" =>
        /\ \A c \in Consumer :
              at[c] # "ended" /\ ~linked[c] => calmClock + Left(c) <= Reconnection
        /\ main = "joining" =>
              /\ calmClock <= Longest
              /\ \A t \in Thread : at[t] # "ended" => calmClock + Left(t) <= Longest

(* Without an outage both clocks run from SIGTERM.                         *)
OneClock ==
    main = "joining" /\ ~disturbed => broker = "up" /\ stopClock = calmClock

(* The reaper that has reaped after SIGTERM does not wait again.           *)
ReaperDone ==
    /\ main = "serving" => reapedLate = 0
    /\ reapedLate # 0 => \A r \in Reaper : at[r] \in {"loop", "ended"}

(* The inductive invariant.                                                *)
IInv == TypeOK /\ InPlace /\ InTime /\ OneClock /\ ReaperDone /\ ReapsOnceMore

-----------------------------------------------------------------------------
LEMMA ThreadKinds ==
    /\ Consumer \subseteq Thread /\ Sleeper \subseteq Thread
    /\ Periodic \subseteq Sleeper /\ Reaper \subseteq Sleeper
    /\ \A t \in Thread : t \in Consumer \/ t \in Sleeper
    /\ \A t \in Sleeper : t \notin Consumer
    /\ \A r \in Reaper : r \notin Periodic
    /\ Looping \subseteq Periodic
BY GreenthreadsAssumption DEF Thread, Sleeper

(* Nobody has more left than the two bounds say.                           *)
LEMMA LeftBounds ==
    ASSUME TypeOK, InPlace
    PROVE  /\ \A c \in Consumer : ConsumerOwes(c) \in Nat
           /\ \A s \in Sleeper : SleeperOwes(s) \in Nat
           /\ \A t \in Thread : Left(t) \in Nat /\ timer[t] \in Nat /\ timer[t] <= Left(t)
           /\ \A t \in Thread : at[t] # "ended" => Left(t) <= Longest
           /\ \A c \in Consumer : at[c] # "ended" /\ ~linked[c] => Left(c) <= Reconnection
<1>1. ASSUME NEW c \in Consumer
      PROVE  /\ ConsumerOwes(c) \in Nat
             /\ Left(c) \in Nat /\ timer[c] \in Nat /\ timer[c] <= Left(c)
             /\ at[c] # "ended" => Left(c) <= Longest
             /\ at[c] # "ended" /\ ~linked[c] => Left(c) <= Reconnection
  <2>1. /\ timer[c] \in Nat /\ pending[c] \in 0..Prefetch /\ linked[c] \in BOOLEAN
        /\ joined[c] \in 0..Backlog /\ Left(c) = timer[c] + ConsumerOwes(c)
    BY ThreadKinds DEF TypeOK, Left
  <2>2. ConsumerInPlace(c)
    BY DEF InPlace
  <2>3. at[c] \in {"handling", "notifying"} =>
           /\ Behind(c) \in Nat /\ Behind(c) + 1 \in Nat /\ Behind(c) + 1 <= Deliveries
           /\ Rest(Behind(c)) \in Nat
           /\ Delivery + Rest(Behind(c)) <= Rest(Deliveries)
    <3>1. at[c] \in {"handling", "notifying"} =>
             /\ Behind(c) \in Nat /\ Behind(c) + 1 \in Nat /\ Behind(c) + 1 <= Deliveries
      BY <2>1, <2>2, DurationTypes, DeliveryTypes DEF Behind, ConsumerInPlace
    <3> QED BY <3>1, DeliveryTypes, RestBounds
  <2>7. Rest(Deliveries) \in Nat
    BY DeliveryTypes, RestBounds
  <2>4. ConsumerOwes(c) \in Nat
    <3>1. CASE at[c] \in {"handling", "notifying"} /\ linked[c]
      BY <2>3, <3>1, DeliveryTypes DEF ConsumerOwes
    <3>2. CASE at[c] \notin {"handling", "notifying"} \/ ~linked[c]
      BY <2>7, <3>2, DurationTypes DEF ConsumerOwes
    <3> QED BY <2>1, <3>1, <3>2
  <2>5. at[c] # "ended" /\ ~linked[c] => Left(c) <= Reconnection
    BY <2>1, <2>2, DurationTypes, DeliveryTypes, ReconnectionBounds
       DEF ConsumerOwes, ConsumerInPlace
  <2>6. linked[c] => Left(c) <= Poll + Deliveries * Delivery
    <3>2. linked[c] => Left(c) <= Poll + Rest(Deliveries)
      BY <2>1, <2>2, <2>3, <2>7, DurationTypes, DeliveryTypes DEF ConsumerOwes, ConsumerInPlace
    <3> QED BY <3>2, RestBounds
  <2>8. Left(c) \in Nat /\ timer[c] <= Left(c)
    BY <2>1, <2>4
  <2>9. at[c] # "ended" => Left(c) <= Longest
    <3>1. Poll + Rest(Deliveries) <= Longest /\ Reconnection <= Longest
      BY LongestBounds, RestBounds
    <3>2. linked[c] => Left(c) <= Poll + Rest(Deliveries)
      BY <2>6, RestBounds
    <3> QED BY <2>5, <2>7, <2>8, <3>1, <3>2, LongestBounds, ReconnectionBounds, DurationTypes
  <2> QED BY <2>1, <2>4, <2>5, <2>8, <2>9
<1>2. ASSUME NEW s \in Sleeper
      PROVE  /\ SleeperOwes(s) \in Nat
             /\ Left(s) \in Nat /\ timer[s] \in Nat /\ timer[s] <= Left(s)
             /\ Left(s) <= Longest
  <2>1. timer[s] \in Nat /\ Interval[s] \in Nat /\ Left(s) = timer[s] + SleeperOwes(s)
    BY ThreadKinds, DurationTypes DEF TypeOK, Left
  <2>2. CASE at[s] \in {"function", "sleeping"}
    BY <2>1, <2>2, LongestBounds DEF SleeperOwes, InPlace, SleeperInPlace
  <2>3. CASE at[s] \notin {"function", "sleeping"}
    BY <2>1, <2>3, LongestBounds DEF SleeperOwes, InPlace, SleeperInPlace
  <2>4. SleeperOwes(s) \in Nat
    BY <2>1 DEF SleeperOwes
  <2> QED BY <2>2, <2>3, <2>4
<1> QED BY <1>1, <1>2, ThreadKinds

-----------------------------------------------------------------------------
(* Types, labels and timers.                                               *)
Labels == {"dialing", "retrying", "resting", "checking", "polling", "handling",
           "notifying", "loop", "function", "sleeping", "pausing", "waiting", "ended"}

LEMMA PlaceInit == Init => TypeOK /\ InPlace
<1> SUFFICES ASSUME Init PROVE TypeOK /\ InPlace
  OBVIOUS
<1>1. TypeOK
  <2>1. MaxOutages \in Nat /\ MaxAttempts \in Nat /\ Prefetch \in Nat /\ Backlog \in Nat
    BY GreenthreadsAssumption
  <2>2. at \in [Thread -> Labels]
    BY DEF Init, Labels
  <2>3. linked \in [Consumer -> BOOLEAN] /\ disturbed \in BOOLEAN
    BY DEF Init
  <2> QED BY <2>1, <2>2, <2>3 DEF Init, TypeOK, Labels
<1>2. InPlace
  BY DurationTypes, ThreadKinds DEF Init, InPlace, ConsumerInPlace, SleeperInPlace
<1> QED BY <1>1, <1>2

(* The step of one consumer.                                               *)
LEMMA ConsumerPlaced ==
    ASSUME TypeOK, InPlace, NEW c \in Consumer, NEW l \in Labels, NEW d \in Nat,
           Goes(c, l, d),
           \A b \in Consumer \ {c} : /\ attempt'[b] = attempt[b] /\ pending'[b] = pending[b]
                                     /\ joined'[b] = joined[b] /\ linked'[b] = linked[b],
           attempt' \in [Consumer -> 0..MaxAttempts],
           pending' \in [Consumer -> 0..Prefetch],
           joined' \in [Consumer -> 0..Backlog],
           linked' \in [Consumer -> BOOLEAN],
           UNCHANGED <<main, clocks, environment, reapedLate>>,
           ConsumerInPlace(c)'
    PROVE  TypeOK' /\ InPlace'
<1>1. /\ at' \in [Thread -> Labels] /\ timer' \in [Thread -> Nat]
      /\ \A t \in Thread \ {c} : at'[t] = at[t] /\ timer'[t] = timer[t]
  BY ThreadKinds DEF Goes, TypeOK, Labels
<1>2. TypeOK'
  BY <1>1 DEF TypeOK, Labels, clocks, environment
<1>3. \A b \in Consumer : ConsumerInPlace(b)'
  BY <1>1, ThreadKinds DEF InPlace, ConsumerInPlace
<1>4. \A s \in Sleeper : SleeperInPlace(s)'
  BY <1>1, ThreadKinds DEF InPlace, SleeperInPlace
<1> QED BY <1>2, <1>3, <1>4 DEF InPlace

(* The step of one sleeper.                                                *)
LEMMA SleeperPlaced ==
    ASSUME TypeOK, InPlace, NEW s \in Sleeper, NEW l \in Labels, NEW d \in Nat,
           Goes(s, l, d), reapedLate' \in Nat,
           UNCHANGED <<consumers, main, clocks, environment>>,
           SleeperInPlace(s)'
    PROVE  TypeOK' /\ InPlace'
<1>1. /\ at' \in [Thread -> Labels] /\ timer' \in [Thread -> Nat]
      /\ \A t \in Thread \ {s} : at'[t] = at[t] /\ timer'[t] = timer[t]
  BY ThreadKinds DEF Goes, TypeOK, Labels
<1>2. TypeOK'
  BY <1>1 DEF TypeOK, Labels, clocks, environment, consumers
<1>3. \A b \in Consumer : ConsumerInPlace(b)'
  BY <1>1, ThreadKinds DEF InPlace, ConsumerInPlace, consumers
<1>4. \A t \in Sleeper : SleeperInPlace(t)'
  BY <1>1, ThreadKinds DEF InPlace, SleeperInPlace
<1> QED BY <1>2, <1>3, <1>4 DEF InPlace

(* A greenthread that raised.                                              *)
LEMMA RaisesPlaced ==
    ASSUME TypeOK, InPlace, NEW c \in Consumer, Raises(c),
           UNCHANGED <<main, clocks, environment, reapedLate>>
    PROVE  TypeOK' /\ InPlace'
<1>1. /\ Goes(c, "resting", RestartPause)
      /\ attempt' = [attempt EXCEPT ![c] = 0]
      /\ pending' = [pending EXCEPT ![c] = 0] /\ joined' = [joined EXCEPT ![c] = 0]
      /\ linked' = [linked EXCEPT ![c] = FALSE]
  BY DEF Raises
<1>2. /\ attempt' \in [Consumer -> 0..MaxAttempts] /\ pending' \in [Consumer -> 0..Prefetch]
      /\ joined' \in [Consumer -> 0..Backlog] /\ linked' \in [Consumer -> BOOLEAN]
  BY <1>1, DurationTypes DEF TypeOK
<1>3. ConsumerInPlace(c)'
  BY <1>1, DurationTypes, ThreadKinds DEF TypeOK, Goes, ConsumerInPlace
<1>4. \A b \in Consumer \ {c} : /\ attempt'[b] = attempt[b] /\ pending'[b] = pending[b]
                                /\ joined'[b] = joined[b] /\ linked'[b] = linked[b]
  BY <1>1 DEF TypeOK
<1> QED BY <1>1, <1>2, <1>3, <1>4, ConsumerPlaced, DurationTypes DEF Labels

(* What Joining does to the two counters.                                  *)
JoinedBy(c, left, k) ==
    /\ pending' \in [Consumer -> 0..Prefetch] /\ joined' \in [Consumer -> 0..Backlog]
    /\ pending'[c] = k /\ joined'[c] = joined[c] + k - left
    /\ \A b \in Consumer \ {c} : pending'[b] = pending[b] /\ joined'[b] = joined[b]

LEMMA JoiningBounds ==
    ASSUME TypeOK, NEW c \in Consumer, NEW left \in Nat, NEW k \in 0..Prefetch,
           left <= k, Joining(c, left, k)
    PROVE  JoinedBy(c, left, k)
<1>1. /\ joined[c] \in Nat /\ joined[c] + k <= Backlog + left
      /\ pending' = [pending EXCEPT ![c] = k]
      /\ joined' = [joined EXCEPT ![c] = joined[c] + k - left]
  BY DEF TypeOK, Joining
<1>2. joined[c] + k - left \in 0..Backlog
  BY <1>1, DurationTypes
<1> QED BY <1>1, <1>2 DEF TypeOK, JoinedBy

(* The next delivery of the call, or the end of the call.                  *)
LEMMA DispatchPlaced ==
    ASSUME TypeOK, InPlace, NEW c \in Consumer, NEW left \in Nat, NEW k \in 0..Prefetch,
           at[c] \in {"handling", "notifying"}, JoinedBy(c, left, k), joined'[c] <= Spare,
           Dispatch(c, k), UNCHANGED <<attempt, linked, main, clocks, environment, reapedLate>>
    PROVE  TypeOK' /\ InPlace'
<1>1. PICK l \in Labels, h \in 0..HandlerTime :
         /\ Goes(c, l, h)
         /\ \/ l = "checking" /\ h = 0
            \/ l = "handling" /\ k # 0
  BY DurationTypes DEF Dispatch, Labels
<1>2. at'[c] = l /\ timer'[c] = h
  BY <1>1, ThreadKinds DEF Goes, TypeOK
<1>3. ConsumerInPlace(c)'
  BY <1>1, <1>2 DEF ConsumerInPlace, JoinedBy
<1> QED BY <1>1, <1>3, ConsumerPlaced DEF TypeOK, JoinedBy

LEMMA PlaceStep == TypeOK /\ InPlace /\ [Next]_vars => TypeOK' /\ InPlace'
<1> SUFFICES ASSUME TypeOK, InPlace, [Next]_vars PROVE TypeOK' /\ InPlace'
  OBVIOUS
<1> USE DurationTypes, ThreadKinds
<1>1. ASSUME NEW c \in Consumer, Dial(c) PROVE TypeOK' /\ InPlace'
  <2>1. attempt[c] < MaxAttempts /\ attempt[c] \in Nat
    BY <1>1 DEF Dial, Due, InPlace, ConsumerInPlace, TypeOK
  <2>2. CASE broker = "up"
    <3>1. /\ Goes(c, "checking", 0) /\ attempt' = [attempt EXCEPT ![c] = 0]
          /\ linked' = [linked EXCEPT ![c] = TRUE]
          /\ UNCHANGED <<pending, joined, main, clocks, environment, reapedLate>>
      BY <1>1, <2>2 DEF Dial
    <3>2. ConsumerInPlace(c)'
      BY <3>1 DEF Goes, TypeOK, ConsumerInPlace
    <3>3. attempt' \in [Consumer -> 0..MaxAttempts] /\ pending' \in [Consumer -> 0..Prefetch]
          /\ joined' \in [Consumer -> 0..Backlog] /\ linked' \in [Consumer -> BOOLEAN]
      BY <3>1 DEF TypeOK
    <3>4. \A b \in Consumer \ {c} : /\ attempt'[b] = attempt[b] /\ pending'[b] = pending[b]
                                    /\ joined'[b] = joined[b] /\ linked'[b] = linked[b]
      BY <3>1 DEF TypeOK
    <3> QED BY <3>1, <3>2, <3>3, <3>4, ConsumerPlaced DEF Labels
  <2>3. CASE broker # "up"
    <3>1. /\ Goes(c, "retrying", RetryPause)
          /\ attempt' = [attempt EXCEPT ![c] = attempt[c] + 1]
          /\ UNCHANGED <<linked, pending, joined, main, clocks, environment, reapedLate>>
      BY <1>1, <2>3 DEF Dial
    <3>2. ConsumerInPlace(c)'
      BY <1>1, <3>1 DEF Dial, Due, Goes, TypeOK, InPlace, ConsumerInPlace
    <3>3. attempt' \in [Consumer -> 0..MaxAttempts] /\ pending' \in [Consumer -> 0..Prefetch]
          /\ joined' \in [Consumer -> 0..Backlog] /\ linked' \in [Consumer -> BOOLEAN]
      BY <2>1, <3>1 DEF TypeOK
    <3>4. \A b \in Consumer \ {c} : /\ attempt'[b] = attempt[b] /\ pending'[b] = pending[b]
                                    /\ joined'[b] = joined[b] /\ linked'[b] = linked[b]
      BY <3>1 DEF TypeOK
    <3> QED BY <3>1, <3>2, <3>3, <3>4, ConsumerPlaced DEF Labels
  <2> QED BY <2>2, <2>3
<1>2. ASSUME NEW c \in Consumer, RetryEnds(c) PROVE TypeOK' /\ InPlace'
  <2>1. CASE attempt[c] = MaxAttempts
    BY <1>2, <2>1, RaisesPlaced DEF RetryEnds
  <2>2. CASE attempt[c] # MaxAttempts
    <3>1. Goes(c, "dialing", 0) /\ UNCHANGED <<consumers, main, clocks, environment, reapedLate>>
      BY <1>2, <2>2 DEF RetryEnds
    <3>2. ConsumerInPlace(c)'
      BY <1>2, <2>2, <3>1
         DEF RetryEnds, Due, Goes, TypeOK, InPlace, ConsumerInPlace, consumers
    <3> QED BY <3>1, <3>2, ConsumerPlaced DEF Labels, TypeOK, consumers
  <2> QED BY <2>1, <2>2
<1>3. ASSUME NEW c \in Consumer, RestEnds(c) PROVE TypeOK' /\ InPlace'
  <2>1. Goes(c, "dialing", 0) /\ UNCHANGED <<consumers, main, clocks, environment, reapedLate>>
    BY <1>3 DEF RestEnds
  <2>2. ConsumerInPlace(c)'
    BY <1>3, <2>1 DEF RestEnds, Due, Goes, TypeOK, InPlace, ConsumerInPlace, consumers
  <2> QED BY <2>1, <2>2, ConsumerPlaced DEF Labels, TypeOK, consumers
<1>4. ASSUME NEW c \in Consumer, Check(c) PROVE TypeOK' /\ InPlace'
  <2>1. CASE ~linked[c]
    BY <1>4, <2>1, RaisesPlaced DEF Check
  <2>2. CASE linked[c] /\ IsStopping
    <3>1. /\ Goes(c, "ended", 0) /\ linked' = [linked EXCEPT ![c] = FALSE]
          /\ UNCHANGED <<attempt, pending, joined, main, clocks, environment, reapedLate>>
      BY <1>4, <2>2 DEF Check
    <3>2. ConsumerInPlace(c)'
      BY <2>2, <3>1 DEF Goes, TypeOK, ConsumerInPlace, IsStopping
    <3>3. attempt' \in [Consumer -> 0..MaxAttempts] /\ pending' \in [Consumer -> 0..Prefetch]
          /\ joined' \in [Consumer -> 0..Backlog] /\ linked' \in [Consumer -> BOOLEAN]
      BY <3>1 DEF TypeOK
    <3>4. \A b \in Consumer \ {c} : /\ attempt'[b] = attempt[b] /\ pending'[b] = pending[b]
                                    /\ joined'[b] = joined[b] /\ linked'[b] = linked[b]
      BY <3>1 DEF TypeOK
    <3> QED BY <3>1, <3>2, <3>3, <3>4, ConsumerPlaced DEF Labels
  <2>3. CASE linked[c] /\ ~IsStopping
    <3>1. Goes(c, "polling", Poll) /\ UNCHANGED <<consumers, main, clocks, environment, reapedLate>>
      BY <1>4, <2>3 DEF Check
    <3>2. ConsumerInPlace(c)'
      BY <3>1 DEF Goes, TypeOK, ConsumerInPlace, consumers
    <3> QED BY <3>1, <3>2, ConsumerPlaced DEF Labels, TypeOK, consumers
  <2> QED BY <2>1, <2>2, <2>3
<1>5. ASSUME NEW c \in Consumer, PollEnds(c) PROVE TypeOK' /\ InPlace'
  <2>1. Goes(c, "checking", 0) /\ UNCHANGED <<consumers, main, clocks, environment, reapedLate>>
    BY <1>5 DEF PollEnds
  <2>2. ConsumerInPlace(c)'
    BY <2>1 DEF Goes, TypeOK, ConsumerInPlace, consumers
  <2> QED BY <2>1, <2>2, ConsumerPlaced DEF Labels, TypeOK, consumers
<1>6. ASSUME NEW c \in Consumer, Deliver(c) PROVE TypeOK' /\ InPlace'
  <2>1. PICK k \in 1..Prefetch, h \in 0..HandlerTime :
           Goes(c, "handling", h) /\ pending' = [pending EXCEPT ![c] = k]
    BY <1>6 DEF Deliver
  <2>2. /\ joined' = [joined EXCEPT ![c] = 0]
        /\ UNCHANGED <<attempt, linked, main, clocks, environment, reapedLate>>
    BY <1>6 DEF Deliver
  <2>3. ConsumerInPlace(c)'
    BY <2>1, <2>2, DeliveryTypes DEF Goes, TypeOK, ConsumerInPlace
  <2>4. /\ pending' \in [Consumer -> 0..Prefetch] /\ joined' \in [Consumer -> 0..Backlog]
        /\ h \in Nat
    BY <2>1, <2>2 DEF TypeOK
  <2>5. \A b \in Consumer \ {c} : pending'[b] = pending[b] /\ joined'[b] = joined[b]
    BY <2>1, <2>2 DEF TypeOK
  <2> QED BY <2>1, <2>2, <2>3, <2>4, <2>5, ConsumerPlaced DEF Labels, TypeOK
<1>7. ASSUME NEW c \in Consumer, Handled(c) PROVE TypeOK' /\ InPlace'
  <2>1. CASE ~linked[c]
    BY <1>7, <2>1, RaisesPlaced DEF Handled
  <2>2. CASE linked[c]
    <3>1. PICK k \in (pending[c] - 1)..(Prefetch - 1) :
             /\ Joining(c, pending[c] - 1, k)
             /\ \/ Dispatch(c, k)
                \/ Notifies /\ \E h \in 0..HandlerTime : Goes(c, "notifying", h)
      BY <1>7, <2>2 DEF Handled
    <3>2. UNCHANGED <<attempt, linked, main, clocks, environment, reapedLate>>
      BY <1>7, <2>2 DEF Handled
    <3>3. /\ pending[c] \in 1..Prefetch /\ k \in 0..(Prefetch - 1)
          /\ joined[c] \in 0..Backlog /\ joined[c] <= Spare
      BY <1>7 DEF Handled, Due, InPlace, ConsumerInPlace, TypeOK
    <3> DEFINE left == pending[c] - 1
    <3>9. left \in Nat /\ left <= k /\ k \in 0..Prefetch /\ Joining(c, left, k)
      BY <3>1, <3>3
    <3> HIDE DEF left
    <3>4. JoinedBy(c, left, k)
      BY <3>9, JoiningBounds
    <3>5. /\ pending'[c] # Prefetch /\ joined'[c] <= Spare
      BY <3>3, <3>4, DeliveryTypes DEF JoinedBy, left
    <3>10. at[c] = "handling"
      BY <1>7 DEF Handled, Due
    <3>6. CASE Dispatch(c, k)
      BY <3>2, <3>4, <3>5, <3>6, <3>9, <3>10, DispatchPlaced
    <3>7. CASE Notifies /\ \E h \in 0..HandlerTime : Goes(c, "notifying", h)
      <4>1. PICK h \in 0..HandlerTime : Goes(c, "notifying", h)
        BY <3>7
      <4>2. ConsumerInPlace(c)'
        BY <3>2, <3>5, <3>7, <4>1 DEF Goes, TypeOK, ConsumerInPlace
      <4> QED BY <3>2, <3>4, <4>1, <4>2, ConsumerPlaced DEF Labels, TypeOK, JoinedBy
    <3> QED BY <3>1, <3>6, <3>7
  <2> QED BY <2>1, <2>2
<1>13. ASSUME NEW c \in Consumer, Notified(c) PROVE TypeOK' /\ InPlace'
  <2>1. PICK k \in pending[c]..Prefetch :
           (linked[c] \/ k = pending[c]) /\ Joining(c, pending[c], k) /\ Dispatch(c, k)
    BY <1>13 DEF Notified
  <2>2. UNCHANGED <<attempt, linked, main, clocks, environment, reapedLate>>
    BY <1>13 DEF Notified
  <2>3. /\ pending[c] \in 0..Prefetch /\ k \in 0..Prefetch /\ joined[c] \in 0..Backlog
        /\ Notifies
    BY <1>13 DEF Notified, Due, InPlace, ConsumerInPlace, TypeOK
  <2>4. JoinedBy(c, pending[c], k)
    BY <2>1, <2>3, JoiningBounds
  <2>5. joined'[c] <= Spare
    BY <2>3, <2>4, DeliveryTypes DEF JoinedBy
  <2>6. at[c] = "notifying"
    BY <1>13 DEF Notified, Due
  <2> QED BY <2>1, <2>2, <2>3, <2>4, <2>5, <2>6, DispatchPlaced
<1>8. ASSUME NEW p \in Periodic, Loop(p) \/ Function(p) \/ Wakes(p)
      PROVE  TypeOK' /\ InPlace'
  <2>1. UNCHANGED <<consumers, main, clocks, environment, reapedLate>>
    BY <1>8 DEF Loop, Function, Wakes
  <2>2. PICK l \in Labels, d \in {0, Interval[p]} : Goes(p, l, d)
    BY <1>8 DEF Loop, Function, Wakes, Labels
  <2>3. SleeperInPlace(p)'
    BY <1>8 DEF Loop, Function, Wakes, Due, Goes, TypeOK, InPlace, SleeperInPlace
  <2> QED BY <2>1, <2>2, <2>3, SleeperPlaced DEF TypeOK
<1>9. ASSUME NEW r \in Reaper, ReaperLoop(r) \/ Reap(r) PROVE TypeOK' /\ InPlace'
  <2>1. UNCHANGED <<consumers, main, clocks, environment>> /\ reapedLate' \in Nat
    BY <1>9 DEF ReaperLoop, Reap, TypeOK
  <2>2. PICK l \in Labels, d \in {0, Interval[r]} : Goes(r, l, d)
    BY <1>9 DEF ReaperLoop, Reap, Labels
  <2>3. SleeperInPlace(r)'
    BY <1>9 DEF ReaperLoop, Reap, Due, Goes, TypeOK, InPlace, SleeperInPlace
  <2> QED BY <2>1, <2>2, <2>3, SleeperPlaced
<1>10. CASE Terminate \/ Close \/ Kill \/ BrokerReturns \/ UNCHANGED vars
  <2>1. UNCHANGED <<at, timer, consumers>> /\ (main # "serving" => main' # "serving")
    BY <1>10 DEF Terminate, Close, Kill, BrokerReturns, vars
  <2>2. InPlace'
    BY <2>1 DEF InPlace, ConsumerInPlace, SleeperInPlace, consumers
  <2>3. TypeOK'
    <3>1. CASE Terminate
      <4>1. disturbed' \in BOOLEAN
        BY <3>1 DEF Terminate
      <4>2. UNCHANGED <<at, timer, attempt, pending, joined, linked, broker, outages, reapedLate>>
            /\ main' = "joining" /\ stopClock' = 0 /\ calmClock' = 0
        BY <3>1 DEF Terminate, consumers
      <4> QED BY <4>1, <4>2 DEF TypeOK
    <3>2. CASE Close \/ Kill \/ BrokerReturns \/ UNCHANGED vars
      BY <3>2 DEF Close, Kill, BrokerReturns, vars, TypeOK, consumers, clocks, environment
    <3> QED BY <1>10, <3>1, <3>2
  <2> QED BY <2>2, <2>3
<1>11. CASE BrokerFails
  <2>1. TypeOK'
    <3>1. /\ UNCHANGED <<at, timer, attempt, pending, joined, main, clocks, reapedLate>>
          /\ broker' = "down" /\ outages' = outages + 1 /\ outages < MaxOutages
          /\ linked' = [c \in Consumer |-> FALSE] /\ disturbed' = IsStopping
      BY <1>11 DEF BrokerFails
    <3>2. outages' \in 0..MaxOutages
      BY <3>1, GreenthreadsAssumption DEF TypeOK
    <3>3. linked' \in [Consumer -> BOOLEAN] /\ disturbed' \in BOOLEAN
      BY <3>1 DEF IsStopping
    <3> QED BY <3>1, <3>2, <3>3 DEF TypeOK, clocks
  <2>2. InPlace'
    BY <1>11 DEF BrokerFails, InPlace, ConsumerInPlace, SleeperInPlace
  <2> QED BY <2>1, <2>2
<1>12. CASE Tick
  <2>1. \A t \in Thread : timer'[t] \in Nat /\ timer'[t] <= timer[t]
    BY <1>12 DEF Tick, TypeOK
  <2>2. /\ timer' = [t \in Thread |-> timer'[t]]
        /\ UNCHANGED <<at, consumers, main, environment, reapedLate>>
    BY <1>12 DEF Tick
  <2>3. timer' \in [Thread -> Nat]
    BY <2>1, <2>2
  <2>4. stopClock' \in Nat /\ calmClock' \in Nat
    BY <1>12, LaterIsNext DEF Tick, TypeOK
  <2>5. TypeOK'
    BY <2>2, <2>3, <2>4 DEF TypeOK, consumers, environment
  <2>6. ASSUME NEW c \in Consumer PROVE ConsumerInPlace(c)'
    BY <2>1, <2>2 DEF TypeOK, InPlace, ConsumerInPlace, consumers
  <2>7. ASSUME NEW s \in Sleeper PROVE SleeperInPlace(s)'
    BY <2>1, <2>2 DEF TypeOK, InPlace, SleeperInPlace
  <2> QED BY <2>5, <2>6, <2>7 DEF InPlace
<1> QED
  BY <1>1, <1>2, <1>3, <1>4, <1>5, <1>6, <1>7, <1>8, <1>9, <1>10, <1>11, <1>12, <1>13
  DEF Next, Step

-----------------------------------------------------------------------------
(* Time left.                                                              *)

(* A step of a greenthread does not put off its end, once it has been told *)
(* to stop, nor its connection, as long as the broker is up.               *)
Shrinks(t) ==
    /\ main = "joining" /\ at'[t] # "ended" => at[t] # "ended" /\ Left(t)' <= Left(t)
    /\ t \in Consumer /\ at'[t] # "ended" /\ ~linked'[t] =>
          at[t] # "ended" /\ ~linked[t] /\ Left(t)' <= Left(t)

(* What a greenthread has left depends on its own variables only.          *)
Untouched(t) ==
    /\ at'[t] = at[t] /\ timer'[t] = timer[t]
    /\ t \in Consumer => /\ attempt'[t] = attempt[t] /\ pending'[t] = pending[t]
                         /\ joined'[t] = joined[t] /\ linked'[t] = linked[t]

LEMMA UntouchedShrinks ==
    ASSUME TypeOK, InPlace, NEW t \in Thread, Untouched(t)
    PROVE  Shrinks(t)
<1>1. Left(t)' = Left(t) /\ Left(t) \in Nat
  BY LeftBounds DEF Untouched, Left, ConsumerOwes, SleeperOwes, Behind
<1> QED BY <1>1 DEF Shrinks, Untouched

LEMMA ConsumerShrinks ==
    ASSUME TypeOK, InPlace, broker = "up", NEW c \in Consumer,
           \/ Dial(c) \/ RetryEnds(c) \/ RestEnds(c) \/ Check(c)
           \/ PollEnds(c) \/ Deliver(c) \/ Handled(c) \/ Notified(c)
    PROVE  Shrinks(c)
<1> USE DurationTypes, ThreadKinds DEF Due, Goes, Alive
<1>1. /\ at \in [Thread -> Labels] /\ timer \in [Thread -> Nat] /\ c \in Thread
      /\ linked \in [Consumer -> BOOLEAN] /\ attempt \in [Consumer -> 0..MaxAttempts]
      /\ pending \in [Consumer -> 0..Prefetch] /\ ConsumerInPlace(c)
  BY DEF TypeOK, Labels, InPlace
<1>2. Left(c) = timer[c] + ConsumerOwes(c) /\ Left(c)' = timer'[c] + ConsumerOwes(c)'
  BY DEF Left
<1>3. CASE Raises(c) /\ ~linked[c] /\ at[c] \in {"checking", "handling"} /\ timer[c] = 0
  BY <1>1, <1>2, <1>3 DEF Shrinks, ConsumerOwes, Raises
<1>4. CASE Dial(c)
  BY <1>1, <1>2, <1>4 DEF Dial, Shrinks, ConsumerOwes
<1>5. CASE RetryEnds(c)
  <2>1. CASE attempt[c] = MaxAttempts
    BY <1>1, <1>2, <1>5, <2>1 DEF RetryEnds, Raises, Shrinks, ConsumerOwes, ConsumerInPlace
  <2>2. CASE attempt[c] # MaxAttempts
    BY <1>1, <1>2, <1>5, <2>2
       DEF RetryEnds, Shrinks, ConsumerOwes, ConsumerInPlace, consumers
  <2> QED BY <2>1, <2>2
<1>6. CASE RestEnds(c)
  BY <1>1, <1>2, <1>6 DEF RestEnds, Shrinks, ConsumerOwes, ConsumerInPlace, consumers
<1>7. CASE Check(c)
  <2>1. CASE ~linked[c]
    BY <1>3, <1>7, <2>1 DEF Check
  <2>2. CASE linked[c] /\ IsStopping
    BY <1>1, <1>7, <2>2 DEF Check, Shrinks
  <2>3. CASE linked[c] /\ ~IsStopping
    BY <1>1, <1>7, <2>3 DEF Check, Shrinks, IsStopping, consumers
  <2> QED BY <2>1, <2>2, <2>3
<1>8. CASE PollEnds(c)
  <2>1. Left(c) \in Nat
    BY LeftBounds
  <2> QED BY <1>1, <1>2, <1>8, <2>1 DEF PollEnds, Shrinks, ConsumerOwes, consumers
<1>9. CASE Deliver(c)
  <2>1. PICK k \in 1..Prefetch, h \in 0..HandlerTime :
           Goes(c, "handling", h) /\ pending' = [pending EXCEPT ![c] = k]
    BY <1>9 DEF Deliver
  <2>2. /\ at[c] = "polling" /\ linked[c] /\ UNCHANGED linked
        /\ joined' = [joined EXCEPT ![c] = 0]
    BY <1>9 DEF Deliver
  <2>3. /\ at'[c] = "handling" /\ timer'[c] = h /\ linked'[c]
        /\ pending'[c] = k /\ joined'[c] = 0
    BY <1>1, <2>1, <2>2 DEF TypeOK
  <2>4. Left(c)' = h + Event + Rest(k - 1 + Spare)
    <3>1. Behind(c)' = k - 1 + Spare
      BY <2>3, DeliveryTypes DEF Behind
    <3> QED BY <1>2, <2>3, <3>1, DeliveryTypes, RestBounds DEF ConsumerOwes
  <2>5. Left(c) = timer[c] + Rest(Deliveries)
    BY <1>2, <2>2 DEF ConsumerOwes
  <2>6. /\ k - 1 + Spare \in Nat /\ k - 1 + Spare + 1 <= Deliveries
        /\ k - 1 + Spare + 1 \in Nat
    BY DeliveryTypes
  <2>7. /\ Rest(k - 1 + Spare) + Delivery <= Rest(Deliveries)
        /\ Rest(k - 1 + Spare) \in Nat /\ Rest(Deliveries) \in Nat
    BY <2>6, DeliveryTypes, RestBounds
  <2>8. Left(c)' <= Left(c)
    BY <1>1, <2>4, <2>5, <2>7, DeliveryTypes
  <2> QED BY <1>1, <2>2, <2>3, <2>8 DEF Shrinks
<1>10. CASE Handled(c)
  <2>1. CASE ~linked[c]
    BY <1>3, <1>10, <2>1 DEF Handled
  <2>2. CASE linked[c]
    <3>1. PICK k \in (pending[c] - 1)..(Prefetch - 1) :
             /\ Joining(c, pending[c] - 1, k)
             /\ \/ Dispatch(c, k)
                \/ Notifies /\ \E h \in 0..HandlerTime : Goes(c, "notifying", h)
      BY <1>10, <2>2 DEF Handled
    <3>9. at[c] = "handling" /\ timer[c] = 0 /\ UNCHANGED linked
      BY <1>10, <2>2 DEF Handled
    <3>2. /\ at[c] = "handling" /\ timer[c] = 0 /\ UNCHANGED linked
          /\ pending[c] \in 1..Prefetch /\ joined[c] \in 0..Backlog /\ joined[c] <= Spare
          /\ k \in 0..Prefetch
      <4>1. pending[c] # 0 /\ joined[c] <= Spare
        BY <1>1, <3>9 DEF ConsumerInPlace
      <4>2. joined[c] \in 0..Backlog /\ pending[c] \in 0..Prefetch
        BY DEF TypeOK
      <4> QED BY <3>1, <3>9, <4>1, <4>2
    <3> DEFINE left == pending[c] - 1
    <3>10. left \in Nat /\ left <= k /\ Joining(c, left, k)
      BY <3>1, <3>2
    <3> HIDE DEF left
    <3>11. JoinedBy(c, left, k)
      BY <3>2, <3>10, JoiningBounds
    <3>3. JoinedBy(c, pending[c] - 1, k)
      BY <3>11 DEF left
    <3> DEFINE n == Behind(c)
    <3>4. n = pending[c] - 1 + Spare - joined[c] /\ n \in Nat
      BY <3>2, DeliveryTypes DEF Behind
    <3>5. Left(c) = Event + Rest(n)
      BY <1>2, <2>2, <3>2, DeliveryTypes, RestBounds, <3>4 DEF ConsumerOwes
    <3>6. k - joined'[c] = pending[c] - 1 - joined[c] /\ joined'[c] \in Nat
          /\ (k # 0 => Spare = Backlog) /\ joined'[c] <= Backlog /\ pending'[c] = k
      BY <3>1, <3>2, <3>3, DurationTypes, DeliveryTypes DEF JoinedBy
    <3>7. CASE Dispatch(c, k)
      <4>1. k = 0 => Left(c)' <= Left(c)
        <5>1. k = 0 => Left(c)' = 0
          BY <1>1, <1>2, <2>2, <3>2, <3>7 DEF Dispatch, ConsumerOwes
        <5> QED BY <3>4, <3>5, <5>1, DeliveryTypes, RestBounds
      <4>2. ASSUME k # 0 PROVE Left(c)' <= Left(c)
        <5>1. PICK h \in 0..HandlerTime : Goes(c, "handling", h)
          BY <3>7, <4>2 DEF Dispatch
        <5>2. at'[c] = "handling" /\ timer'[c] = h /\ linked'[c]
          BY <1>1, <2>2, <3>2, <5>1
        <5>3. Behind(c)' = n - 1 /\ n - 1 \in Nat
          BY <3>2, <3>4, <3>6, <4>2, <5>2, DeliveryTypes DEF Behind
        <5>4. Left(c)' = h + Event + Rest(n - 1)
          BY <1>2, <5>2, <5>3, DeliveryTypes, RestBounds DEF ConsumerOwes
        <5>5. Rest(n) = Rest(n - 1) + Delivery /\ Rest(n - 1) \in Nat
          BY <3>4, <5>3, RestAfter
        <5> QED BY <3>5, <5>4, <5>5, DeliveryTypes, DurationTypes
      <4>3. at'[c] # "ended" /\ linked[c] /\ linked'[c] = linked[c]
        BY <1>1, <2>2, <3>2, <3>7 DEF Dispatch
      <4> QED BY <3>2, <4>1, <4>2, <4>3 DEF Shrinks
    <3>8. CASE Notifies /\ \E h \in 0..HandlerTime : Goes(c, "notifying", h)
      <4>1. PICK h \in 0..HandlerTime : Goes(c, "notifying", h)
        BY <3>8
      <4>2. at'[c] = "notifying" /\ timer'[c] = h /\ linked'[c]
        BY <1>1, <2>2, <3>2, <4>1
      <4>3. Behind(c)' = n
        BY <3>2, <3>4, <3>6, <4>2, DeliveryTypes DEF Behind
      <4>4. Left(c)' = h + Rest(n)
        BY <1>2, <4>2, <4>3 DEF ConsumerOwes
      <4>5. Left(c)' <= Left(c)
        BY <3>4, <3>5, <3>8, <4>4, DeliveryTypes, DurationTypes, RestBounds
      <4> QED BY <2>2, <3>2, <4>2, <4>5 DEF Shrinks
    <3> QED BY <3>1, <3>7, <3>8
  <2> QED BY <2>1, <2>2
<1>11. CASE Notified(c)
  <2>1. PICK k \in pending[c]..Prefetch :
           (linked[c] \/ k = pending[c]) /\ Joining(c, pending[c], k) /\ Dispatch(c, k)
    BY <1>11 DEF Notified
  <2>9. at[c] = "notifying" /\ timer[c] = 0 /\ UNCHANGED linked
    BY <1>11 DEF Notified
  <2>2. /\ at[c] = "notifying" /\ timer[c] = 0 /\ UNCHANGED linked /\ Notifies
        /\ pending[c] \in 0..Prefetch /\ joined[c] \in 0..Backlog /\ joined[c] <= Spare
        /\ k \in 0..Prefetch
    <3>1. Notifies /\ joined[c] <= Spare
      BY <1>1, <2>9 DEF ConsumerInPlace
    <3>2. joined[c] \in 0..Backlog /\ pending[c] \in 0..Prefetch
      BY DEF TypeOK
    <3> QED BY <2>1, <2>9, <3>1, <3>2
  <2>3. JoinedBy(c, pending[c], k)
    BY <2>1, <2>2, JoiningBounds
  <2>4. k - joined'[c] = pending[c] - joined[c] /\ joined'[c] \in Nat
        /\ Spare = Backlog /\ joined'[c] <= Backlog /\ pending'[c] = k
    BY <2>2, <2>3, DurationTypes, DeliveryTypes DEF JoinedBy
  <2>5. at'[c] # "ended" /\ linked'[c] = linked[c]
    BY <1>1, <2>1, <2>2 DEF Dispatch
  <2> DEFINE n == Behind(c)
  <2>6. n = pending[c] + Spare - joined[c] /\ n \in Nat
    BY <2>2, DeliveryTypes DEF Behind
  <2>7. CASE k = 0
    <3>1. at'[c] = "checking" /\ timer'[c] = 0 /\ pending[c] = 0
      BY <1>1, <2>1, <2>2, <2>7 DEF Dispatch
    <3>2. /\ linked[c] => Left(c)' = 0
          /\ ~linked[c] => Left(c)' = RestartPause /\ Left(c) = RestartPause
      BY <1>2, <2>2, <2>5, <3>1 DEF ConsumerOwes
    <3>3. Left(c) \in Nat /\ RestartPause \in Nat
      BY LeftBounds
    <3> QED BY <2>2, <2>5, <3>2, <3>3 DEF Shrinks
  <2>8. CASE k # 0
    <3>1. PICK h \in 0..HandlerTime : Goes(c, "handling", h)
      BY <2>1, <2>8 DEF Dispatch
    <3>2. at'[c] = "handling" /\ timer'[c] = h
      BY <1>1, <3>1
    <3>3. ASSUME ~linked[c] PROVE Left(c)' <= Left(c)
      <4>1. Left(c)' = h + RestartPause
        BY <1>2, <2>5, <3>2, <3>3 DEF ConsumerOwes
      <4>2. Left(c) = HandlerTime + RestartPause
        BY <1>2, <2>1, <2>2, <2>8, <3>3 DEF ConsumerOwes
      <4> QED BY <4>1, <4>2
    <3>4. ASSUME linked[c] PROVE Left(c)' <= Left(c)
      <4>8. /\ k \in Nat /\ pending[c] \in Nat /\ joined[c] \in Nat /\ joined'[c] \in Nat
            /\ Spare \in Nat /\ k - joined'[c] = pending[c] - joined[c]
        BY <2>2, <2>4, DeliveryTypes
      <4>9. k >= 1
        BY <2>8, <4>8
      <4>5. n = k + Spare - joined'[c] /\ k >= 1
        BY <2>6, <4>8, <4>9
      <4>6. n - 1 \in Nat
        BY <2>2, <2>4, <4>5, DeliveryTypes
      <4>7. Behind(c)' = (k - 1) + Spare - joined'[c]
        BY <2>4, <3>2 DEF Behind
      <4>1. Behind(c)' = n - 1 /\ n - 1 \in Nat
        BY <2>2, <2>4, <4>5, <4>6, <4>7, DeliveryTypes
      <4>2. Left(c)' = h + Event + Rest(n - 1)
        BY <1>2, <2>5, <3>2, <3>4, <4>1, DeliveryTypes, RestBounds DEF ConsumerOwes
      <4>3. Rest(n) = Rest(n - 1) + Delivery /\ Rest(n - 1) \in Nat
        BY <2>6, <4>1, RestAfter
      <4>4. Left(c) = Rest(n)
        BY <1>2, <2>2, <2>6, <3>4, <4>3, DeliveryTypes DEF ConsumerOwes
      <4> QED BY <4>2, <4>3, <4>4, DeliveryTypes, DurationTypes
    <3> QED BY <2>2, <2>5, <3>3, <3>4, <1>1 DEF Shrinks
  <2> QED BY <2>7, <2>8
<1> QED BY <1>4, <1>5, <1>6, <1>7, <1>8, <1>9, <1>10, <1>11

LEMMA SleeperShrinks ==
    ASSUME TypeOK, InPlace, NEW s \in Sleeper,
           \/ s \in Periodic /\ (Loop(s) \/ Function(s) \/ Wakes(s))
           \/ s \in Reaper /\ (ReaperLoop(s) \/ Reap(s))
    PROVE  Shrinks(s)
<1>1. /\ at \in [Thread -> Labels] /\ timer \in [Thread -> Nat] /\ s \in Thread
      /\ SleeperInPlace(s) /\ s \notin Consumer /\ Interval[s] \in Nat
  BY ThreadKinds, DurationTypes DEF TypeOK, Labels, InPlace
<1>2. Left(s) = timer[s] + SleeperOwes(s) /\ Left(s)' = timer'[s] + SleeperOwes(s)'
  BY <1>1 DEF Left
<1> USE DEF Due, Goes, Alive, IsStopping, Shrinks, SleeperOwes
<1>3. CASE s \in Periodic /\ Loop(s)
  BY <1>1, <1>2, <1>3 DEF Loop
<1>4. CASE s \in Periodic /\ Function(s)
  BY <1>1, <1>2, <1>4 DEF Function
<1>5. CASE s \in Periodic /\ Wakes(s)
  BY <1>1, <1>2, <1>5 DEF Wakes
<1>6. CASE s \in Reaper /\ ReaperLoop(s)
  BY <1>1, <1>2, <1>6 DEF ReaperLoop
<1>7. CASE s \in Reaper /\ Reap(s)
  BY <1>1, <1>2, <1>7 DEF Reap
<1> QED BY <1>3, <1>4, <1>5, <1>6, <1>7

(* One greenthread moves; for nobody does the end come later.              *)
LEMMA EveryoneShrinks ==
    ASSUME TypeOK, InPlace, broker = "up", NEW u \in Thread, Step(u)
    PROVE  \A t \in Thread : Shrinks(t)
<1>1. Shrinks(u)
  BY ConsumerShrinks, SleeperShrinks, ThreadKinds DEF Step
<1>2. ASSUME NEW t \in Thread, t # u PROVE Untouched(t)
  <2>1. at'[t] = at[t] /\ timer'[t] = timer[t]
    BY <1>2
       DEF Step, Dial, RetryEnds, RestEnds, Check, PollEnds, Deliver, Handled, Notified,
           Raises, Joining, Dispatch,
           Loop, Function, Wakes, ReaperLoop, Reap, Goes, TypeOK
  <2>2. ASSUME t \in Consumer
        PROVE  /\ attempt'[t] = attempt[t] /\ pending'[t] = pending[t]
               /\ joined'[t] = joined[t] /\ linked'[t] = linked[t]
    BY <1>2, <2>2
       DEF Step, Dial, RetryEnds, RestEnds, Check, PollEnds, Deliver, Handled, Notified,
           Raises, Joining, Dispatch,
           Loop, Function, Wakes, ReaperLoop, Reap, TypeOK, consumers
  <2> QED BY <2>1, <2>2 DEF Untouched
<1> QED BY <1>1, <1>2, UntouchedShrinks

-----------------------------------------------------------------------------
(* The invariant holds at the start, and each step preserves each part.    *)
LEMMA IInvInit == Init => IInv
<1> SUFFICES ASSUME Init PROVE IInv
  OBVIOUS
<1>1. TypeOK /\ InPlace
  BY PlaceInit
<1>2. InTime
  <2>1. \A c \in Consumer : Left(c) = 0
    BY ThreadKinds DEF Init, Left, ConsumerOwes
  <2> QED BY <2>1, ReconnectionBounds DEF Init, InTime
<1>3. OneClock /\ ReaperDone /\ ReapsOnceMore
  BY DEF Init, OneClock, ReaperDone, ReapsOnceMore
<1> QED BY <1>1, <1>2, <1>3 DEF IInv

(* The same of the next state.                                             *)
LEMMA LeftIsNat == TypeOK /\ InPlace => \A t \in Thread : Left(t) \in Nat
BY LeftBounds

LEMMA LeftIsNatNext == TypeOK' /\ InPlace' => \A t \in Thread : Left(t)' \in Nat
<1>1. (TypeOK /\ InPlace => \A t \in Thread : Left(t) \in Nat)'
  BY LeftIsNat, PTL
<1> QED BY <1>1

LEMMA InTimeStep ==
    ASSUME TypeOK, InPlace, InTime, [Next]_vars
    PROVE  InTime'
<1>1. /\ calmClock \in Nat /\ Longest \in Nat /\ Reconnection \in Nat
      /\ \A t \in Thread : Left(t) \in Nat
      /\ Consumer \subseteq Thread
  BY LeftBounds, LongestBounds, ReconnectionBounds, ThreadKinds DEF TypeOK
<1>0. \A t \in Thread : Left(t)' \in Nat
  BY PlaceStep, LeftIsNatNext
<1>2. ASSUME NEW u \in Thread, Step(u) PROVE InTime'
  <2>1. UNCHANGED <<broker, main, calmClock>>
    BY <1>2
       DEF Step, Dial, RetryEnds, RestEnds, Check, PollEnds, Deliver, Handled, Notified,
           Loop, Function, Wakes, ReaperLoop, Reap, clocks, environment
  <2> SUFFICES ASSUME broker = "up"
               PROVE  InTime'
    BY <2>1 DEF InTime
  <2>2. \A t \in Thread : Shrinks(t)
    BY <1>2, EveryoneShrinks
  <2>3. ASSUME NEW c \in Consumer, at'[c] # "ended", ~linked'[c]
        PROVE  calmClock' + Left(c)' <= Reconnection
    BY <1>0, <1>1, <2>1, <2>2, <2>3 DEF InTime, Shrinks
  <2>4. ASSUME main = "joining" PROVE calmClock' <= Longest
    BY <2>1, <2>4 DEF InTime
  <2>5. ASSUME main = "joining", NEW t \in Thread, at'[t] # "ended"
        PROVE  calmClock' + Left(t)' <= Longest
    BY <1>0, <1>1, <2>1, <2>2, <2>5 DEF InTime, Shrinks
  <2> QED BY <2>1, <2>3, <2>4, <2>5 DEF InTime
<1>3. ASSUME UNCHANGED <<at, timer, consumers>>
      PROVE  \A t \in Thread : Left(t)' = Left(t)
  BY <1>3 DEF Left, ConsumerOwes, SleeperOwes, Behind, consumers
<1>4. CASE Terminate \/ BrokerReturns
  <2>1. UNCHANGED <<at, timer, consumers>> /\ calmClock' = 0
    BY <1>4 DEF Terminate, BrokerReturns
  <2>2. \A t \in Thread : Left(t)' = Left(t)
    BY <1>3, <2>1
  <2> QED BY <1>1, <2>1, <2>2, LeftBounds DEF InTime, consumers
<1>5. CASE Close \/ Kill \/ UNCHANGED vars
  <2>1. UNCHANGED <<at, timer, consumers, clocks, environment>>
        /\ (main' = "joining" => main = "joining")
    BY <1>5 DEF Close, Kill, vars
  <2>2. \A t \in Thread : Left(t)' = Left(t)
    BY <1>3, <2>1
  <2> QED BY <1>1, <2>1, <2>2 DEF InTime, consumers, clocks, environment
<1>6. CASE BrokerFails
  BY <1>6 DEF BrokerFails, InTime
<1>7. CASE Tick
  <2> SUFFICES ASSUME broker = "up"
               PROVE  InTime'
    BY <1>7 DEF Tick, InTime, environment
  <2>1. /\ UNCHANGED <<at, consumers, main, broker>>
        /\ calmClock' \in Nat /\ calmClock' <= calmClock + 1
    BY <1>1, <1>7, LaterIsNext DEF Tick, environment
  <2>2. ASSUME NEW t \in Thread, at[t] # "ended"
        PROVE  Left(t)' = Left(t) - 1 /\ 1 <= Left(t)
    <3>1. timer[t] \in Nat \ {0} /\ timer'[t] = timer[t] - 1
      BY <1>7, <2>2 DEF Tick, TypeOK
    <3>2. timer[t] <= Left(t)
      BY LeftBounds
    <3> DEFINE owed == IF t \in Consumer THEN ConsumerOwes(t) ELSE SleeperOwes(t)
    <3>3. Left(t) = timer[t] + owed /\ Left(t)' = timer'[t] + owed
      BY <2>1 DEF Left, ConsumerOwes, SleeperOwes, Behind, consumers
    <3>4. owed \in Nat
      BY LeftBounds, ThreadKinds
    <3> HIDE DEF owed
    <3> QED BY <1>1, <3>1, <3>2, <3>3, <3>4
  <2>3. ASSUME NEW c \in Consumer, at[c] # "ended", ~linked[c]
        PROVE  calmClock' + Left(c)' <= Reconnection
    BY <1>1, <2>1, <2>2, <2>3 DEF InTime
  <2>4. ASSUME main = "joining", NEW t \in Thread, at[t] # "ended"
        PROVE  calmClock' + Left(t)' <= Longest /\ calmClock' <= Longest
    BY <1>1, <2>1, <2>2, <2>4 DEF InTime
  <2>5. main = "joining" => \E t \in Thread : at[t] # "ended"
    BY <1>7 DEF Tick
  <2> QED BY <2>1, <2>3, <2>4, <2>5 DEF InTime, consumers
<1> QED BY <1>2, <1>4, <1>5, <1>6, <1>7 DEF Next

(* Only SIGTERM, an outage's end and time move the clocks.                 *)
LEMMA OneClockStep ==
    ASSUME TypeOK, OneClock, [Next]_vars
    PROVE  OneClock'
<1>1. ASSUME NEW u \in Thread, Step(u) PROVE OneClock'
  BY <1>1
     DEF Step, Dial, RetryEnds, RestEnds, Check, PollEnds, Deliver, Handled, Notified,
         Loop, Function, Wakes, ReaperLoop, Reap, clocks, environment, OneClock
<1>2. CASE Terminate
  <2>1. stopClock' = calmClock' /\ broker' = broker /\ disturbed' = (broker = "down")
    BY <1>2 DEF Terminate
  <2>2. ~disturbed' => broker = "up"
    BY <2>1 DEF TypeOK
  <2> QED BY <2>1, <2>2 DEF OneClock
<1>3. CASE Close \/ Kill \/ UNCHANGED vars
  BY <1>3 DEF Close, Kill, vars, OneClock, clocks, environment
<1>4. CASE BrokerFails
  <2>1. main' = main /\ (main = "joining" => disturbed')
    BY <1>4, ZenonT(20) DEF BrokerFails, IsStopping
  <2> QED BY <2>1 DEF OneClock
<1>5. CASE BrokerReturns
  BY <1>5 DEF BrokerReturns, OneClock
<1>6. CASE Tick
  BY <1>6 DEF Tick, OneClock, environment
<1> QED BY <1>1, <1>2, <1>3, <1>4, <1>5, <1>6 DEF Next

LEMMA ReaperStep ==
    ASSUME TypeOK, ReaperDone, ReapsOnceMore, [Next]_vars
    PROVE  ReaperDone' /\ ReapsOnceMore'
<1> USE DEF ReaperDone, ReapsOnceMore
<1>1. ASSUME NEW c \in Thread \ Reaper, Step(c) PROVE ReaperDone' /\ ReapsOnceMore'
  <2>1. UNCHANGED <<main, reapedLate>>
    BY <1>1
       DEF Step, Dial, RetryEnds, RestEnds, Check, PollEnds, Deliver, Handled, Notified,
           Loop, Function, Wakes
  <2>2. ASSUME NEW r \in Reaper PROVE at'[r] = at[r]
    <3>1. r # c /\ r \in Thread
      BY ThreadKinds
    <3> QED BY <1>1, <3>1
       DEF Step, Dial, RetryEnds, RestEnds, Check, PollEnds, Deliver, Handled, Notified,
           Raises, Joining, Dispatch,
           Loop, Function, Wakes, Goes, TypeOK
  <2> QED BY <2>1, <2>2
<1>2. ASSUME NEW r \in Reaper, Step(r) PROVE ReaperDone' /\ ReapsOnceMore'
  <2>1. /\ r \in Thread /\ r \notin Consumer /\ r \notin Periodic
        /\ \A q \in Reaper : q = r
    BY ThreadKinds, GreenthreadsAssumption
  <2>2. CASE ReaperLoop(r)
    BY <2>1, <2>2 DEF ReaperLoop, Due, Goes, IsStopping, TypeOK
  <2>3. CASE Reap(r)
    BY <2>1, <2>3 DEF Reap, Due, Goes, IsStopping, TypeOK
  <2> QED BY <1>2, <2>1, <2>2, <2>3 DEF Step
<1>3. CASE Terminate \/ Close \/ Kill \/ BrokerFails \/ BrokerReturns \/ Tick \/ UNCHANGED vars
  BY <1>3 DEF Terminate, Close, Kill, BrokerFails, BrokerReturns, Tick, vars
<1> QED BY <1>1, <1>2, <1>3 DEF Next

LEMMA IInvStep == IInv /\ [Next]_vars => IInv'
BY PlaceStep, InTimeStep, OneClockStep, ReaperStep DEF IInv

(* The inductive invariant.                                                *)
THEOREM IInvCorrect == Spec => []IInv
<1> QED BY IInvInit, IInvStep, PTL DEF Spec

(* The variables keep their types: attempts to connect stay at or below    *)
(* MaxAttempts, because get_rmq_connection_with_retry gives up at it, and  *)
(* the deliveries at hand at or below GT_PREFETCH_COUNT, because the       *)
(* handlers acknowledge last, or publish one event after it.               *)
THEOREM TypeCorrect == Spec => []TypeOK
<1>1. IInv => TypeOK
  BY DEF IInv
<1> QED BY <1>1, IInvCorrect, PTL

(* From SIGTERM, or from the end of the outage that it met, the process    *)
(* ends within the time of its slowest greenthread (gt.py, wait_all),      *)
(* however many consumers and periodics it has and whatever they wait for. *)
(* Longest counts the deliveries that may join a running call; with one    *)
(* delivery at a time and no events there are none, whatever the backlog.  *)
THEOREM StopsInTimeCorrect == Spec => []StopsInTime
<1>1. IInv => StopsInTime
  BY DEF IInv, InTime, StopsInTime
<1> QED BY <1>1, IInvCorrect, PTL

(* A serving process has every consumer back within Reconnection of the    *)
(* broker's return: the wrapper of spawn restarts the one whose attempts   *)
(* in get_rmq_connection_with_retry were used up, and none ends.           *)
THEOREM BackInTimeCorrect == Spec => []BackInTime
<1>1. IInv => BackInTime
  <2> SUFFICES ASSUME IInv, main = "serving", broker = "up", NEW c \in Consumer
               PROVE  (calmClock > Reconnection => linked[c]) /\ at[c] # "ended"
    BY DEF BackInTime
  <2>1. at[c] # "ended"
    BY DEF IInv, InPlace, ConsumerInPlace
  <2>2. calmClock \in Nat /\ Reconnection \in Nat /\ Left(c) \in Nat
    BY LeftBounds, ReconnectionBounds, ThreadKinds DEF IInv, TypeOK
  <2>3. ~linked[c] => calmClock + Left(c) <= Reconnection
    BY <2>1 DEF IInv, InTime
  <2> QED BY <2>1, <2>2, <2>3
<1> QED BY <1>1, IInvCorrect, PTL

(* The reaper of P4 waits on the stop event before it reaps, so that it    *)
(* removes znodes at most once more after SIGTERM.                         *)
THEOREM ReapsOnceMoreCorrect == Spec => []ReapsOnceMore
<1>1. IInv => ReapsOnceMore
  BY DEF IInv
<1> QED BY <1>1, IInvCorrect, PTL

(* Whoever is killed was disturbed by an outage, or its greenthreads take  *)
(* longer than TimeoutStopSec.                                             *)
LEMMA ClosesCleanlyStep ==
    ASSUME IInv, Longest <= TimeoutStop, ClosesCleanly, [Next]_vars
    PROVE  ClosesCleanly'
<1> USE DEF ClosesCleanly
<1>1. ASSUME NEW u \in Thread, Step(u) PROVE ClosesCleanly'
  BY <1>1
     DEF Step, Dial, RetryEnds, RestEnds, Check, PollEnds, Deliver, Handled, Notified,
         Loop, Function, Wakes, ReaperLoop, Reap, environment
<1>2. CASE Kill
  <2>1. main = "joining" /\ stopClock > TimeoutStop /\ disturbed' = disturbed
    BY <1>2 DEF Kill, environment
  <2>2. /\ stopClock \in Nat /\ disturbed \in BOOLEAN
        /\ Longest \in Nat /\ TimeoutStop \in Nat
    BY LongestBounds, GreenthreadsAssumption DEF IInv, TypeOK
  <2>3. ~disturbed => stopClock <= Longest
    BY <2>1 DEF IInv, OneClock, InTime
  <2> QED BY <2>1, <2>2, <2>3
<1>3. CASE Terminate \/ Close \/ BrokerReturns \/ Tick \/ UNCHANGED vars
  BY <1>3 DEF Terminate, Close, BrokerReturns, Tick, vars, environment
<1>4. CASE BrokerFails
  BY <1>4 DEF BrokerFails, Alive
<1> QED BY <1>1, <1>2, <1>3, <1>4 DEF Next

(* If TimeoutStopSec is as long as the slowest greenthread, systemd kills  *)
(* only a process whose stop an outage met: without one each ends by       *)
(* itself and closes its ZooKeeper session (flowfirst-process1.service to  *)
(* 4). The runs killed and backlog show what happens where it is shorter.  *)
THEOREM ClosesCleanlyCorrect ==
    ASSUME Longest <= TimeoutStop
    PROVE  Spec => []ClosesCleanly
<1>1. Init => ClosesCleanly
  BY DEF Init, ClosesCleanly
<1>2. IInv /\ ClosesCleanly /\ [Next]_vars => ClosesCleanly'
  BY ClosesCleanlyStep
<1> QED BY <1>1, <1>2, IInvCorrect, PTL DEF Spec
=============================================================================
