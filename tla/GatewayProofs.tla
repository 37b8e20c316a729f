---------------------------- MODULE GatewayProofs -----------------------------
(***************************************************************************)
(* Proofs about Gateway, for any requests, batches, slots and pools, and   *)
(* any number of outages and refusals.                                     *)
(***************************************************************************)
EXTENDS Gateway, TLAPS

(* What the publishes of a request have come to.                           *)
InOrder ==
    /\ \A r \in Request : spawned[r] <= Size[r]
    /\ \A r \in Request : req[r] = "unsent" => spawned[r] = 0
    /\ \A r \in Request \ Batch : req[r] # "unsent" => spawned[r] = 1
    /\ \A r \in Request : \A i \in 1..Size[r] :
          at[<<r, i>>] = "idle" <=> spawned[r] < i

DoneIsStored == \A j \in Job : at[j] = "done" => j \in stored

(* The holder of a slot waits for a broker that does not hear it any more,  *)
(* or the next one is about to use a connection that is lost.              *)
Waiting(s) == \E who \in Caller : at[who] \in Busy /\ who \in ToSet(line[s])
Exposed(s) == conn[s] \in Lost \/ (conn[s] = "closed" /\ Waiting(s))

(* A publish that is about to fail for want of a connection is the first   *)
(* since the broker came back, or since main closed the slot.              *)
LossToCome ==
    broker = "up" =>
       \A s \in Slot : losses[s] + (IF Exposed(s) THEN 1 ELSE 0)
                        <= IF s < swept THEN 2 ELSE 1

(* The inductive invariant.                                                *)
IInv ==
    /\ TypeOK /\ InOrder /\ SlotsAccounted
    /\ DoneIsStored /\ ConfirmedIsStored
    /\ LossToCome

-----------------------------------------------------------------------------
(* A line of waiting parties.                                              *)

(* Who joins a line comes last.                                            *)
LEMMA AppendLine ==
    ASSUME NEW S, NEW l \in Seq(S), NEW x \in S
    PROVE  /\ Append(l, x) \in Seq(S)
           /\ ToSet(Append(l, x)) = ToSet(l) \cup {x}
           /\ l # <<>> => Head(Append(l, x)) = Head(l)
           /\ IsInjective(l) /\ x \notin ToSet(l) => IsInjective(Append(l, x))
<1> DEFINE t == Append(l, x)
<1>1. /\ t \in Seq(S) /\ Len(t) = Len(l) + 1 /\ Len(l) \in Nat
      /\ DOMAIN t = 1..Len(t) /\ DOMAIN l = 1..Len(l)
      /\ \A i \in 1..Len(l) : t[i] = l[i]
      /\ t[Len(l) + 1] = x
  OBVIOUS
<1>2. ToSet(t) = ToSet(l) \cup {x}
  <2>1. DOMAIN t = DOMAIN l \cup {Len(l) + 1}
    BY <1>1
  <2> QED BY <1>1, <2>1 DEF ToSet
<1>3. ASSUME l # <<>> PROVE Head(t) = Head(l)
  BY <1>3
<1>4. ASSUME IsInjective(l), x \notin ToSet(l) PROVE IsInjective(t)
  <2> SUFFICES ASSUME NEW a \in DOMAIN t, NEW b \in DOMAIN t, t[a] = t[b]
               PROVE  a = b
    BY DEF IsInjective
  <2>1. \A i \in DOMAIN l : l[i] # x
    BY <1>4 DEF ToSet
  <2>2. (a \in DOMAIN l \/ a = Len(l) + 1) /\ (b \in DOMAIN l \/ b = Len(l) + 1)
    BY <1>1
  <2> QED BY <1>1, <1>4, <2>1, <2>2 DEF IsInjective
<1> QED BY <1>1, <1>2, <1>3, <1>4

(* Who leaves a line was its first, and is not in it any more.             *)
LEMMA TailLine ==
    ASSUME NEW S, NEW l \in Seq(S), l # <<>>, IsInjective(l)
    PROVE  /\ Tail(l) \in Seq(S)
           /\ Head(l) \in ToSet(l)
           /\ ToSet(Tail(l)) = ToSet(l) \ {Head(l)}
           /\ IsInjective(Tail(l))
<1> DEFINE t == Tail(l)
<1>1. /\ t \in Seq(S) /\ Len(t) = Len(l) - 1 /\ Len(l) \in Nat \ {0}
      /\ DOMAIN t = 1..Len(t) /\ DOMAIN l = 1..Len(l)
      /\ \A i \in 1..Len(t) : t[i] = l[i + 1]
      /\ Head(l) = l[1] /\ 1 \in DOMAIN l
  OBVIOUS
<1>2. ToSet(t) \subseteq ToSet(l) \ {Head(l)}
  <2> SUFFICES ASSUME NEW i \in DOMAIN t PROVE t[i] \in ToSet(l) \ {Head(l)}
    BY DEF ToSet
  <2>1. i + 1 \in DOMAIN l /\ t[i] = l[i + 1] /\ i + 1 # 1
    BY <1>1
  <2> QED BY <1>1, <2>1 DEF ToSet, IsInjective
<1>3. ToSet(l) \ {Head(l)} \subseteq ToSet(t)
  <2> SUFFICES ASSUME NEW i \in DOMAIN l, l[i] # Head(l) PROVE l[i] \in ToSet(t)
    BY DEF ToSet
  <2>1. i - 1 \in DOMAIN t /\ t[i - 1] = l[i]
    BY <1>1
  <2> QED BY <2>1 DEF ToSet
<1>4. IsInjective(t)
  <2> SUFFICES ASSUME NEW a \in DOMAIN t, NEW b \in DOMAIN t, t[a] = t[b]
               PROVE  a = b
    BY DEF IsInjective
  <2>1. /\ a + 1 \in DOMAIN l /\ b + 1 \in DOMAIN l /\ a \in Int /\ b \in Int
        /\ t[a] = l[a + 1] /\ t[b] = l[b + 1]
    BY <1>1
  <2>2. a + 1 = b + 1
    BY <2>1 DEF IsInjective
  <2> QED BY <2>1, <2>2
<1>5. Head(l) \in ToSet(l)
  BY <1>1 DEF ToSet
<1> QED BY <1>1, <1>2, <1>3, <1>4, <1>5

-----------------------------------------------------------------------------
(* Types.                                                                  *)

LEMMA JobType ==
    /\ \A r \in Request : \A i \in 1..Size[r] : <<r, i>> \in Job
    /\ \A j \in Job : \E r \in Request : \E i \in 1..Size[r] : j = <<r, i>>
    /\ Caller = Job \cup {Server} /\ Party = Caller \cup {Heartbeat}
    /\ Server \notin Job /\ Heartbeat \notin Caller
BY GatewayAssumption DEF Job, Caller, Party, Server, Heartbeat

LEMMA SlotType ==
    /\ Slots \in Nat \ {0} /\ 0 \in Slot
    /\ \A s \in Slot : s \in Nat /\ s < Slots
    /\ \A s \in Slot : s # Slots - 1 => s + 1 \in Slot
    /\ \A n \in Nat : n < Slots => n \in Slot
    /\ \A s \in Slot : (s + 1) % Slots \in Slot
<1>1. Slots \in Nat \ {0}
  BY GatewayAssumption
<1>2. \A n \in Nat : n % Slots \in 0..(Slots - 1)
  BY <1>1
<1> QED BY <1>1, <1>2 DEF Slot

(* Joining a line.                                                         *)
LEMMA JoinLine ==
    ASSUME TypeOK, NEW who \in Party, NEW s \in Slot, Joins(who, s)
    PROVE  /\ line' \in [Slot -> Seq(Party)]
           /\ \A t \in Slot \ {s} : line'[t] = line[t]
           /\ ToSet(line'[s]) = ToSet(line[s]) \cup {who}
           /\ line[s] # <<>> => Head(line'[s]) = Head(line[s])
           /\ IsInjective(line[s]) /\ who \notin ToSet(line[s])
                => IsInjective(line'[s])
<1>1. line \in [Slot -> Seq(Party)] /\ line[s] \in Seq(Party)
  BY DEF TypeOK
<1>2. line' = [line EXCEPT ![s] = Append(line[s], who)]
  BY DEF Joins
<1>3. line'[s] = Append(line[s], who)
  BY <1>1, <1>2
<1>4. Append(line[s], who) \in Seq(Party)
  BY <1>1, AppendLine
<1> QED BY <1>1, <1>2, <1>3, <1>4, AppendLine

(* Leaving a line.                                                         *)
LEMMA LeaveLine ==
    ASSUME TypeOK, SlotsAccounted, NEW s \in Slot, line[s] # <<>>, Leaves(s)
    PROVE  /\ line' \in [Slot -> Seq(Party)]
           /\ \A t \in Slot \ {s} : line'[t] = line[t]
           /\ Head(line[s]) \in ToSet(line[s])
           /\ ToSet(line'[s]) = ToSet(line[s]) \ {Head(line[s])}
           /\ IsInjective(line'[s])
<1>1. line \in [Slot -> Seq(Party)] /\ line[s] \in Seq(Party)
  BY DEF TypeOK
<1>2. line' = [line EXCEPT ![s] = Tail(line[s])]
  BY DEF Leaves
<1>3. line'[s] = Tail(line[s]) /\ IsInjective(line[s])
  BY <1>1, <1>2 DEF SlotsAccounted
<1>4. /\ Tail(line[s]) \in Seq(Party) /\ Head(line[s]) \in ToSet(line[s])
      /\ ToSet(Tail(line[s])) = ToSet(line[s]) \ {Head(line[s])}
      /\ IsInjective(Tail(line[s]))
  BY <1>1, <1>3, TailLine
<1> QED BY <1>1, <1>2, <1>3, <1>4

(* Whoever holds a slot is first in its line, and in it.                   *)
LEMMA HolderFirst ==
    ASSUME TypeOK, SlotsAccounted, NEW who, NEW s \in Slot, Holds(who, s)
    PROVE  line[s] # <<>> /\ Head(line[s]) = who /\ who \in ToSet(line[s])
<1>1. line[s] # <<>> /\ Head(line[s]) = who
  BY DEF Holds
<1>2. line[s] \in Seq(Party) /\ IsInjective(line[s])
  BY DEF TypeOK, SlotsAccounted
<1> QED BY <1>1, <1>2, TailLine

LEMMA TypeInit == Init => TypeOK
<1> SUFFICES ASSUME Init PROVE TypeOK
  OBVIOUS
<1>1. <<>> \in Seq(Party)
  OBVIOUS
<1>2. MaxAttempts - 1 \in Nat /\ MaxFaults \in Nat /\ Slots \in Nat
  BY GatewayAssumption
<1> QED BY <1>1, <1>2, SlotType DEF Init, TypeOK

-----------------------------------------------------------------------------
(* The lines.                                                              *)

(* A caller who becomes something else.                                     *)
LEMMA CallerBecomes ==
    ASSUME TypeOK, NEW who \in Caller, NEW stage, Becomes(who, stage)
    PROVE  at'[who] = stage /\ \A c \in Caller \ {who} : at'[c] = at[c]
BY DEF TypeOK, Becomes

(* A caller who is done with a slot leaves its line.                       *)
LEMMA CallerLeaves ==
    ASSUME TypeOK, SlotsAccounted, NEW who \in Caller, NEW s \in Slot, Holds(who, s),
           Leaves(s), NEW stage, stage \notin Unfinished, Becomes(who, stage),
           UNCHANGED heart
    PROVE  SlotsAccounted'
<1>1. line[s] # <<>> /\ Head(line[s]) = who /\ who \in ToSet(line[s])
  BY HolderFirst
<1>2. /\ \A t \in Slot \ {s} : line'[t] = line[t]
      /\ ToSet(line'[s]) = ToSet(line[s]) \ {who}
      /\ IsInjective(line'[s])
  BY <1>1, LeaveLine
<1>3. at'[who] = stage /\ \A c \in Caller \ {who} : at'[c] = at[c]
  BY CallerBecomes
<1>4. \A t \in Slot : ToSet(line'[t]) = ToSet(line[t]) \ {who}
  BY <1>1, <1>2 DEF SlotsAccounted
<1>5. who # Heartbeat
  BY JobType
<1>6. \A t \in Slot : IsInjective(line'[t])
  BY <1>2 DEF SlotsAccounted
<1>7. \A t, u \in Slot : t # u => ToSet(line'[t]) \cap ToSet(line'[u]) = {}
  BY <1>4 DEF SlotsAccounted
<1>8. \A c \in Caller : at'[c] \in Unfinished <=> \E t \in Slot : c \in ToSet(line'[t])
  BY <1>3, <1>4 DEF SlotsAccounted
<1>9. ASSUME NEW t \in Slot, NEW c \in Caller, at'[c] \in Busy, c \in ToSet(line'[t])
      PROVE  c = Head(line'[t])
  <2>1. c # who /\ at[c] \in Busy /\ c \in ToSet(line[t])
    BY <1>3, <1>4, <1>9
  <2>2. c = Head(line[t])
    BY <2>1 DEF SlotsAccounted
  <2> QED BY <1>1, <1>2, <2>1, <2>2
<1>10. heart' = "beating" <=> \E t \in Slot : Heartbeat \in ToSet(line'[t])
  BY <1>4, <1>5 DEF SlotsAccounted
<1> QED BY <1>6, <1>7, <1>8, <1>9, <1>10 DEF SlotsAccounted

(* The heartbeat ends its round.                                           *)
LEMMA HeartbeatLeaves ==
    ASSUME TypeOK, SlotsAccounted, NEW s \in Slot, Holds(Heartbeat, s), Leaves(s),
           UNCHANGED at, heart' = "sleeping"
    PROVE  SlotsAccounted'
<1>1. line[s] # <<>> /\ Head(line[s]) = Heartbeat /\ Heartbeat \in ToSet(line[s])
  BY HolderFirst
<1>2. /\ \A t \in Slot \ {s} : line'[t] = line[t]
      /\ ToSet(line'[s]) = ToSet(line[s]) \ {Heartbeat}
      /\ IsInjective(line'[s])
  BY <1>1, LeaveLine
<1>4. \A t \in Slot : ToSet(line'[t]) = ToSet(line[t]) \ {Heartbeat}
  BY <1>1, <1>2 DEF SlotsAccounted
<1>5. Heartbeat \notin Caller
  BY JobType
<1>6. \A t \in Slot : IsInjective(line'[t])
  BY <1>2 DEF SlotsAccounted
<1>7. \A t, u \in Slot : t # u => ToSet(line'[t]) \cap ToSet(line'[u]) = {}
  BY <1>4 DEF SlotsAccounted
<1>8. \A c \in Caller : at'[c] \in Unfinished <=> \E t \in Slot : c \in ToSet(line'[t])
  BY <1>4, <1>5 DEF SlotsAccounted
<1>9. ASSUME NEW t \in Slot, NEW c \in Caller, at'[c] \in Busy, c \in ToSet(line'[t])
      PROVE  c = Head(line'[t])
  <2>1. at[c] \in Busy /\ c \in ToSet(line[t])
    BY <1>4, <1>9
  <2>2. c = Head(line[t])
    BY <2>1 DEF SlotsAccounted
  <2> QED BY <1>1, <1>2, <1>5, <2>1, <2>2
<1>10. heart' = "beating" <=> \E t \in Slot : Heartbeat \in ToSet(line'[t])
  BY <1>4
<1> QED BY <1>6, <1>7, <1>8, <1>9, <1>10 DEF SlotsAccounted

(* Somebody who is in no line joins one.                                   *)
LEMMA PartyJoins ==
    ASSUME TypeOK, SlotsAccounted, NEW who \in Party, NEW s \in Slot,
           Joins(who, s), \A t \in Slot : who \notin ToSet(line[t]),
           IF who = Heartbeat THEN UNCHANGED at /\ heart' = "beating"
                              ELSE Becomes(who, "waiting") /\ UNCHANGED heart
    PROVE  SlotsAccounted'
<1>1. who # Heartbeat => who \in Caller
  BY JobType
<1>2. /\ \A t \in Slot \ {s} : line'[t] = line[t]
      /\ ToSet(line'[s]) = ToSet(line[s]) \cup {who}
      /\ line[s] # <<>> => Head(line'[s]) = Head(line[s])
      /\ IsInjective(line'[s])
  BY JoinLine DEF SlotsAccounted
<1>3. /\ \A c \in Caller \ {who} : at'[c] = at[c]
      /\ who # Heartbeat => at'[who] = "waiting"
  BY <1>1, CallerBecomes
<1>4. \A t \in Slot : \A x : x \in ToSet(line'[t])
                               <=> x \in ToSet(line[t]) \/ (t = s /\ x = who)
  BY <1>2
<1>5. Heartbeat \notin Caller
  BY JobType
<1>6. \A t \in Slot : IsInjective(line'[t])
  BY <1>2 DEF SlotsAccounted
<1>7. \A t, u \in Slot : t # u => ToSet(line'[t]) \cap ToSet(line'[u]) = {}
  BY <1>4 DEF SlotsAccounted
<1>8. \A c \in Caller : at'[c] \in Unfinished <=> \E t \in Slot : c \in ToSet(line'[t])
  BY <1>3, <1>4, <1>5 DEF SlotsAccounted, Unfinished
<1>9. ASSUME NEW t \in Slot, NEW c \in Caller, at'[c] \in Busy, c \in ToSet(line'[t])
      PROVE  c = Head(line'[t])
  <2>1. c # who /\ at[c] \in Busy /\ c \in ToSet(line[t])
    BY <1>3, <1>4, <1>5, <1>9 DEF Busy
  <2>2. c = Head(line[t])
    BY <2>1 DEF SlotsAccounted
  <2>3. line[t] # <<>>
    BY <2>1 DEF ToSet
  <2> QED BY <1>2, <2>2, <2>3
<1>10. heart' = "beating" <=> \E t \in Slot : Heartbeat \in ToSet(line'[t])
  BY <1>4 DEF SlotsAccounted
<1> QED BY <1>6, <1>7, <1>8, <1>9, <1>10 DEF SlotsAccounted

(* The holder of a slot goes on to declare, or to publish.                 *)
LEMMA CallerStays ==
    ASSUME TypeOK, SlotsAccounted, NEW who \in Caller, NEW s \in Slot, Holds(who, s),
           NEW stage \in Unfinished, at[who] \in Unfinished, Becomes(who, stage),
           UNCHANGED <<line, heart>>
    PROVE  SlotsAccounted'
<1>1. at'[who] = stage /\ \A c \in Caller \ {who} : at'[c] = at[c]
  BY CallerBecomes
<1>2. who \in ToSet(line[s]) /\ who = Head(line[s])
  BY HolderFirst
<1>3. \A c \in Caller : at'[c] \in Unfinished <=> at[c] \in Unfinished
  BY <1>1
<1>4. \A t \in Slot : who \in ToSet(line[t]) => t = s
  BY <1>2 DEF SlotsAccounted
<1>5. \A t \in Slot, c \in Caller :
         at'[c] \in Busy /\ c \in ToSet(line[t]) => c = Head(line[t])
  BY <1>1, <1>2, <1>4 DEF SlotsAccounted
<1> QED BY <1>3, <1>5 DEF SlotsAccounted

(* Nobody moves, or p1_http_server does, away from the slots.               *)
LEMMA NobodyMoves ==
    ASSUME SlotsAccounted, UNCHANGED <<line, heart>>,
           \A c \in Caller : \/ at'[c] = at[c]
                             \/ at'[c] \notin Unfinished /\ at[c] \notin Unfinished
    PROVE  SlotsAccounted'
<1>1. \A c \in Caller : /\ at'[c] \in Unfinished <=> at[c] \in Unfinished
                        /\ at'[c] \in Busy => at[c] \in Busy
  BY DEF Unfinished
<1> QED BY <1>1 DEF SlotsAccounted

(* The heartbeat goes on to the next slot.                                 *)
LEMMA HeartbeatMoves ==
    ASSUME TypeOK, SlotsAccounted, NEW s \in Slot, s # Slots - 1,
           Holds(Heartbeat, s), UNCHANGED <<at, heart>>,
           line' = [line EXCEPT ![s] = Tail(@), ![s + 1] = Append(@, Heartbeat)]
    PROVE  SlotsAccounted' /\ line' \in [Slot -> Seq(Party)]
<1>1. line[s] # <<>> /\ Head(line[s]) = Heartbeat /\ Heartbeat \in ToSet(line[s])
  BY HolderFirst
<1>2. /\ line \in [Slot -> Seq(Party)] /\ Heartbeat \in Party /\ Heartbeat \notin Caller
      /\ s + 1 \in Slot /\ s + 1 # s
  <2>1. line \in [Slot -> Seq(Party)]
    BY DEF TypeOK
  <2>2. Heartbeat \in Party /\ Heartbeat \notin Caller
    BY JobType
  <2>3. s + 1 \in Slot /\ s + 1 # s
    BY SlotType
  <2> QED BY <2>1, <2>2, <2>3
<1>3. /\ line'[s] = Tail(line[s])
      /\ line'[s + 1] = Append(line[s + 1], Heartbeat)
      /\ \A t \in Slot \ {s, s + 1} : line'[t] = line[t]
  BY <1>2
<1>4. Heartbeat \notin ToSet(line[s + 1]) /\ \A t \in Slot : IsInjective(line[t])
  BY <1>1, <1>2 DEF SlotsAccounted
<1>5. /\ Tail(line[s]) \in Seq(Party) /\ IsInjective(Tail(line[s]))
      /\ ToSet(Tail(line[s])) = ToSet(line[s]) \ {Heartbeat}
  BY <1>1, <1>2, <1>4, TailLine
<1>6. /\ Append(line[s + 1], Heartbeat) \in Seq(Party)
      /\ IsInjective(Append(line[s + 1], Heartbeat))
      /\ ToSet(Append(line[s + 1], Heartbeat)) = ToSet(line[s + 1]) \cup {Heartbeat}
      /\ line[s + 1] # <<>> => Head(Append(line[s + 1], Heartbeat)) = Head(line[s + 1])
  BY <1>2, <1>4, AppendLine
<1>7. line' \in [Slot -> Seq(Party)]
  BY <1>2, <1>5, <1>6
<1>8. \A t \in Slot : IsInjective(line'[t])
  BY <1>3, <1>4, <1>5, <1>6
<1>9. \A t \in Slot : \A x : x # Heartbeat => (x \in ToSet(line'[t]) <=> x \in ToSet(line[t]))
  BY <1>2, <1>3, <1>5, <1>6
<1>10. \A t \in Slot : Heartbeat \in ToSet(line'[t]) <=> t = s + 1
  <2>1. \A t \in Slot : Heartbeat \in ToSet(line[t]) => t = s
    BY <1>1 DEF SlotsAccounted
  <2> QED BY <1>2, <1>3, <1>5, <1>6, <2>1
<1>11. \A t, u \in Slot : t # u => ToSet(line'[t]) \cap ToSet(line'[u]) = {}
  <2>1. \A t, u \in Slot : t # u => \A x : ~(x \in ToSet(line[t]) /\ x \in ToSet(line[u]))
    BY DEF SlotsAccounted
  <2>2. ASSUME NEW t \in Slot, NEW u \in Slot, t # u, NEW x,
               x \in ToSet(line'[t]), x \in ToSet(line'[u])
        PROVE  FALSE
    <3>1. CASE x = Heartbeat
      BY <1>10, <2>2, <3>1
    <3>2. CASE x # Heartbeat
      BY <1>9, <2>1, <2>2, <3>2
    <3> QED BY <3>1, <3>2
  <2> QED BY <2>2
<1>12. ASSUME NEW t \in Slot, NEW c \in Caller, at'[c] \in Busy, c \in ToSet(line'[t])
       PROVE  c = Head(line'[t])
  <2>1. at[c] \in Busy /\ c \in ToSet(line[t]) /\ c # Heartbeat
    BY <1>2, <1>9, <1>12
  <2>2. c = Head(line[t]) /\ t # s
    BY <1>1, <2>1 DEF SlotsAccounted
  <2>3. line[t] # <<>>
    BY <2>1 DEF ToSet
  <2> QED BY <1>3, <1>6, <2>2, <2>3
<1>13. \A c \in Caller : at'[c] \in Unfinished <=> \E t \in Slot : c \in ToSet(line'[t])
  BY <1>2, <1>9 DEF SlotsAccounted
<1>14. heart' = "beating" <=> \E t \in Slot : Heartbeat \in ToSet(line'[t])
  BY <1>1, <1>2, <1>10 DEF SlotsAccounted
<1> QED BY <1>7, <1>8, <1>11, <1>12, <1>13, <1>14 DEF SlotsAccounted

-----------------------------------------------------------------------------
(* Who draws a slot was idle, and is in no line.                           *)
LEMMA IdleInNoLine ==
    ASSUME SlotsAccounted, NEW who \in Caller, at[who] = "idle"
    PROVE  \A t \in Slot : who \notin ToSet(line[t])
BY DEF SlotsAccounted, Unfinished, Busy

(* The first publish of a request that is not sent yet.                    *)
LEMMA FirstIsIdle ==
    ASSUME TypeOK, InOrder, NEW r \in Request, req[r] = "unsent"
    PROVE  <<r, 1>> \in Job /\ at[<<r, 1>>] = "idle"
<1>1. Size[r] \in Nat \ {0}
  BY GatewayAssumption
<1>2. 1 \in 1..Size[r] /\ spawned[r] < 1
  BY <1>1 DEF InOrder, TypeOK
<1> QED BY <1>2, JobType DEF InOrder

(* The next publish of a batch.                                            *)
LEMMA NextIsIdle ==
    ASSUME TypeOK, InOrder, NEW r \in Request, spawned[r] < Size[r]
    PROVE  <<r, spawned[r] + 1>> \in Job /\ at[<<r, spawned[r] + 1>>] = "idle"
<1>1. Size[r] \in Nat \ {0}
  BY GatewayAssumption
<1>2. spawned[r] + 1 \in 1..Size[r] /\ spawned[r] < spawned[r] + 1
  BY <1>1 DEF TypeOK
<1> QED BY <1>2, JobType DEF InOrder

(* Every step keeps the account of the slots.                              *)
LEMMA SlotsStep ==
    TypeOK /\ InOrder /\ SlotsAccounted /\ [Next]_vars => SlotsAccounted'
<1> SUFFICES ASSUME TypeOK, InOrder, SlotsAccounted, [Next]_vars
             PROVE  SlotsAccounted'
  OBVIOUS
<1> USE DEF brokerVars, slotVars, requestVars, processVars
<1>1. ASSUME NEW r \in Request, Accept(r) PROVE SlotsAccounted'
  <2>1. CASE r \in Batch
    BY <1>1, <2>1, NobodyMoves DEF Accept
  <2>2. CASE r \notin Batch
    <3>1. <<r, 1>> \in Job /\ at[<<r, 1>>] = "idle"
      BY <1>1, FirstIsIdle DEF Accept
    <3>2. Becomes(<<r, 1>>, "waiting") /\ Joins(<<r, 1>>, next) /\ UNCHANGED heart
      BY <1>1, <2>2 DEF Accept, Starts
    <3> QED BY <3>1, <3>2, IdleInNoLine, JobType, PartyJoins DEF TypeOK
  <2> QED BY <2>1, <2>2
<1>2. ASSUME NEW r \in Request, Spawn(r) PROVE SlotsAccounted'
  <2> DEFINE j == <<r, spawned[r] + 1>>
  <2>1. j \in Job /\ at[j] = "idle"
    BY <1>2, NextIsIdle DEF Spawn
  <2>2. Becomes(j, "waiting") /\ Joins(j, next) /\ UNCHANGED heart
    BY <1>2 DEF Spawn, Starts
  <2> HIDE DEF j
  <2> QED BY <2>1, <2>2, IdleInNoLine, JobType, PartyJoins DEF TypeOK
<1>3. ASSUME NEW r \in Request, Succeeds(r) \/ Fails(r) PROVE SlotsAccounted'
  BY <1>3, NobodyMoves DEF Succeeds, Fails
<1>4. ASSUME NEW who \in Caller, NEW s \in Slot, Channel(who, s)
      PROVE  SlotsAccounted'
  <2>1. /\ Holds(who, s) /\ UNCHANGED heart
        /\ at[who] \in Unfinished
    BY <1>4 DEF Channel, Connect, Reopen, SetUp, SetUpRefused, LosesConnection,
                Unfinished, Busy
  <2>2. CASE Raises(who, s)
    BY <2>1, <2>2, CallerLeaves DEF Raises, Unfinished, Busy
  <2>3. CASE UNCHANGED <<line, at>>
    BY <2>1, <2>3, NobodyMoves
  <2>4. CASE UNCHANGED line /\ (Becomes(who, "declaring") \/ Becomes(who, "sent"))
    BY <2>1, <2>4, CallerStays DEF Unfinished, Busy
  <2>5. CASE Leaves(s) /\ Becomes(who, "accepting")
    BY <2>1, <2>5, CallerLeaves DEF Unfinished, Busy
  <2> QED
    BY <1>4, <2>2, <2>3, <2>4, <2>5
    DEF Channel, Connect, Reopen, SetUp, SetUpRefused, LosesConnection
<1>5. ASSUME NEW j \in Job, NEW s \in Slot, Send(j, s) PROVE SlotsAccounted'
  BY <1>5, CallerStays, JobType DEF Send, Unfinished, Busy
<1>6. ASSUME NEW j \in Job, NEW s \in Slot, Confirm(j, s) \/ Refused(j, s)
      PROVE  SlotsAccounted'
  <2>1. /\ Holds(j, s) /\ Leaves(s) /\ UNCHANGED heart /\ j \in Caller
        /\ Becomes(j, "done") \/ Becomes(j, "failed")
    BY <1>6, JobType DEF Confirm, Refused, Raises
  <2> QED BY <2>1, CallerLeaves DEF Unfinished, Busy
<1>7. CASE ServerStarts
  <2>1. Server \in Caller /\ Server \in Party /\ Server # Heartbeat /\ 0 \in Slot
    BY JobType, SlotType
  <2>2. \A t \in Slot : Server \notin ToSet(line[t])
    BY <1>7, <2>1, IdleInNoLine DEF ServerStarts
  <2> QED BY <1>7, <2>1, <2>2, PartyJoins DEF ServerStarts
<1>9. CASE ServerStops
  BY <1>9, NobodyMoves, JobType DEF ServerStops, Becomes, TypeOK, Unfinished, Busy
<1>10. CASE Beat
  <2>1. CASE IsStopping
    BY <1>10, <2>1 DEF Beat, SlotsAccounted
  <2>2. CASE ~IsStopping
    <3>1. \A t \in Slot : Heartbeat \notin ToSet(line[t])
      BY <1>10 DEF Beat, SlotsAccounted
    <3>2. Heartbeat \in Party /\ 0 \in Slot
      BY JobType, SlotType
    <3> QED BY <1>10, <2>2, <3>1, <3>2, PartyJoins DEF Beat
  <2> QED BY <2>1, <2>2
<1>11. ASSUME NEW s \in Slot, Touch(s) PROVE SlotsAccounted'
  <2>1. CASE Leaves(s) /\ heart' = "sleeping"
    BY <1>11, <2>1, HeartbeatLeaves DEF Touch
  <2>2. CASE /\ s # Slots - 1 /\ UNCHANGED heart
             /\ line' = [line EXCEPT ![s] = Tail(@), ![s + 1] = Append(@, Heartbeat)]
    BY <1>11, <2>2, HeartbeatMoves DEF Touch
  <2> QED BY <1>11, <2>1, <2>2 DEF Touch
<1>12. CASE Terminate \/ Shutdown \/ BrokerFails \/ BrokerReturns \/ UNCHANGED vars
  BY <1>12, NobodyMoves
     DEF Terminate, Shutdown, Sweep, Exit, BrokerFails, BrokerReturns, vars
<1> QED
  BY <1>1, <1>2, <1>3, <1>4, <1>5, <1>6, <1>7, <1>9, <1>10, <1>11, <1>12,
     SlotType, JobType
  DEF Next, Work, Handle, Publish, Serve, Beats

-----------------------------------------------------------------------------
(* Every step keeps the types.                                             *)
LEMMA TypeStep ==
    TypeOK /\ InOrder /\ SlotsAccounted /\ [Next]_vars => TypeOK'
<1> SUFFICES ASSUME TypeOK, InOrder, SlotsAccounted, [Next]_vars
             PROVE  TypeOK'
  OBVIOUS
<1> USE DEF brokerVars, slotVars, requestVars, processVars, TypeOK, Becomes, Answer,
            Unfinished, Busy, Lost
<1>1. ASSUME NEW r \in Request, Accept(r) PROVE TypeOK'
  <2>1. CASE r \in Batch
    BY <1>1, <2>1 DEF Accept
  <2>2. CASE r \notin Batch
    <3>1. <<r, 1>> \in Job
      BY <1>1, FirstIsIdle DEF Accept
    <3>2. line' \in [Slot -> Seq(Party)]
      BY <1>1, <2>2, <3>1, JobType, JoinLine DEF Accept, Starts
    <3>3. next' \in Slot
      BY <1>1, <2>2, SlotType DEF Accept, Starts
    <3>4. at' \in [Caller -> Unfinished \cup
                               {"idle", "done", "failed", "accepting", "stopped"}]
      BY <1>1, <2>2, <3>1, JobType DEF Accept, Starts
    <3>5. /\ req' \in [Request -> {"unsent", "open", "200", "500", "dropped"}]
          /\ spawned' \in [Request -> Nat]
      BY <1>1, <2>2 DEF Accept
    <3>6. UNCHANGED <<brokerVars, conn, tries, losses, stored, processVars>>
      BY <1>1 DEF Accept
    <3> QED BY <3>2, <3>3, <3>4, <3>5, <3>6
  <2> QED BY <2>1, <2>2
<1>2. ASSUME NEW r \in Request, Spawn(r) PROVE TypeOK'
  <2> DEFINE j == <<r, spawned[r] + 1>>
  <2>1. j \in Job
    BY <1>2, NextIsIdle DEF Spawn
  <2>2. Starts(j) /\ spawned' = [spawned EXCEPT ![r] = @ + 1]
    BY <1>2 DEF Spawn
  <2>3. UNCHANGED <<brokerVars, conn, tries, losses, stored, req, processVars>>
    BY <1>2 DEF Spawn
  <2> HIDE DEF j
  <2>4. line' \in [Slot -> Seq(Party)]
    BY <2>1, <2>2, JobType, JoinLine DEF Starts
  <2>5. next' \in Slot
    BY <2>2, SlotType DEF Starts
  <2>6. at' \in [Caller -> Unfinished \cup
                             {"idle", "done", "failed", "accepting", "stopped"}]
    BY <2>1, <2>2, JobType DEF Starts
  <2>7. spawned' \in [Request -> Nat]
    BY <2>2
  <2> QED BY <2>3, <2>4, <2>5, <2>6, <2>7
<1>3. ASSUME NEW r \in Request, Succeeds(r) \/ Fails(r) PROVE TypeOK'
  BY <1>3 DEF Succeeds, Fails
<1>4. ASSUME NEW who \in Caller, NEW s \in Slot, Connect(who, s)
      PROVE  TypeOK'
  <2>1. MaxAttempts \in Nat \ {0}
    BY GatewayAssumption
  <2>2. CASE broker = "up"
    <3>1. tries' = [tries EXCEPT ![s] = 0] /\ 0 \in 0..(MaxAttempts - 1)
      BY <1>4, <2>1, <2>2 DEF Connect
    <3>2. tries' \in [Slot -> 0..(MaxAttempts - 1)]
      BY <3>1
    <3> QED BY <1>4, <2>2, <3>2 DEF Connect
  <2>3. CASE broker # "up" /\ tries[s] + 1 # MaxAttempts
    <3>1. tries' = [tries EXCEPT ![s] = tries[s] + 1]
          /\ UNCHANGED <<conn, line, at, losses>>
      BY <1>4, <2>3 DEF Connect
    <3>2. tries[s] \in 0..(MaxAttempts - 1)
      OBVIOUS
    <3>3. tries' \in [Slot -> 0..(MaxAttempts - 1)]
      BY <2>1, <2>3, <3>1, <3>2
    <3>4. UNCHANGED <<brokerVars, next, stored, requestVars, processVars>>
      BY <1>4 DEF Connect
    <3> QED BY <3>1, <3>3, <3>4
  <2>4. CASE broker # "up" /\ tries[s] + 1 = MaxAttempts
    <3>1. /\ Raises(who, s) /\ Loses(who, s) /\ Holds(who, s)
          /\ tries' = [tries EXCEPT ![s] = 0] /\ UNCHANGED conn
      BY <1>4, <2>4 DEF Connect
    <3>2. line' \in [Slot -> Seq(Party)]
      BY <3>1, LeaveLine, HolderFirst DEF Raises
    <3>3. tries' \in [Slot -> 0..(MaxAttempts - 1)]
      BY <3>1, <2>1
    <3>4. /\ at' \in [Caller -> Unfinished \cup
                         {"idle", "done", "failed", "accepting", "stopped"}]
          /\ losses' \in [Slot -> Nat]
      BY <3>1 DEF Raises, Loses
    <3>5. UNCHANGED <<brokerVars, next, stored, requestVars, processVars>>
      BY <1>4 DEF Connect
    <3> QED BY <3>1, <3>2, <3>3, <3>4, <3>5
  <2> QED BY <2>2, <2>3, <2>4
<1>5. ASSUME NEW who \in Caller, NEW s \in Slot, Reopen(who, s) PROVE TypeOK'
  BY <1>5 DEF Reopen
<1>16. ASSUME NEW who \in Caller, NEW s \in Slot, SetUp(who, s) PROVE TypeOK'
  <2>1. line' \in [Slot -> Seq(Party)]
    BY <1>16, LeaveLine, HolderFirst DEF SetUp
  <2>2. stored' \subseteq Job
    BY <1>16, JobType DEF SetUp
  <2> QED BY <1>16, <2>1, <2>2 DEF SetUp
<1>17. ASSUME NEW who \in Caller, NEW s \in Slot,
              SetUpRefused(who, s) \/ LosesConnection(who, s)
       PROVE  TypeOK'
  <2>1. Raises(who, s) /\ line' \in [Slot -> Seq(Party)]
    BY <1>17, LeaveLine, HolderFirst DEF SetUpRefused, LosesConnection, Raises
  <2>2. at' \in [Caller -> Unfinished \cup
                             {"idle", "done", "failed", "accepting", "stopped"}]
    BY <2>1 DEF Raises
  <2>3. CASE SetUpRefused(who, s)
    <3>1. faults' \in 0..MaxFaults
      BY <2>3, GatewayAssumption DEF SetUpRefused
    <3> QED BY <2>1, <2>2, <2>3, <3>1 DEF SetUpRefused
  <2>4. CASE LosesConnection(who, s)
    BY <2>1, <2>2, <2>4 DEF LosesConnection, Loses
  <2> QED BY <1>17, <2>3, <2>4
<1>18. ASSUME NEW j \in Job, NEW s \in Slot, Send(j, s) PROVE TypeOK'
  BY <1>18 DEF Send
<1>6. ASSUME NEW j \in Job, NEW s \in Slot, Confirm(j, s) \/ Refused(j, s)
      PROVE  TypeOK'
  <2>1. line' \in [Slot -> Seq(Party)]
    BY <1>6, LeaveLine, HolderFirst DEF Confirm, Refused, Raises
  <2>2. CASE Confirm(j, s)
    BY <2>1, <2>2 DEF Confirm
  <2>3. CASE Refused(j, s)
    BY <2>1, <2>3 DEF Refused, Raises
  <2> QED BY <1>6, <2>2, <2>3
<1>7. CASE ServerStarts
  <2>1. line' \in [Slot -> Seq(Party)]
    BY <1>7, JobType, SlotType, JoinLine DEF ServerStarts
  <2> QED BY <1>7, <2>1 DEF ServerStarts
<1>9. CASE ServerStops
  BY <1>9 DEF ServerStops
<1>10. CASE Beat
  <2>1. line' \in [Slot -> Seq(Party)]
    BY <1>10, JobType, SlotType, JoinLine DEF Beat
  <2> QED BY <1>10, <2>1 DEF Beat
<1>11. ASSUME NEW s \in Slot, Touch(s) PROVE TypeOK'
  <2>1. CASE Leaves(s)
    <3>1. line' \in [Slot -> Seq(Party)]
      BY <1>11, <2>1, LeaveLine, HolderFirst DEF Touch
    <3> QED BY <1>11, <3>1 DEF Touch
  <2>2. CASE /\ s # Slots - 1
             /\ line' = [line EXCEPT ![s] = Tail(@), ![s + 1] = Append(@, Heartbeat)]
             /\ UNCHANGED <<heart, conn>>
    <3>1. line' \in [Slot -> Seq(Party)]
      BY <1>11, <2>2, HeartbeatMoves DEF Touch
    <3> QED BY <1>11, <2>2, <3>1 DEF Touch
  <2> QED BY <1>11, <2>1, <2>2 DEF Touch
<1>12. CASE Sweep
  BY <1>12, SlotType DEF Sweep
<1>13. CASE Exit
  BY <1>13 DEF Exit
<1>14. CASE BrokerFails
  BY <1>14, GatewayAssumption DEF BrokerFails
<1>15. CASE Terminate \/ BrokerReturns \/ UNCHANGED vars
  BY <1>15 DEF Terminate, BrokerReturns, vars
<1> QED
  BY <1>1, <1>2, <1>3, <1>4, <1>5, <1>6, <1>7, <1>9, <1>10, <1>11, <1>12,
     <1>13, <1>14, <1>15, <1>16, <1>17, <1>18, SlotType, JobType
  DEF Channel, Next, Work, Handle, Publish, Serve, Beats, Shutdown

(* A publish that is not idle any more does not become idle.               *)
LEMMA InOrderStep ==
    TypeOK /\ InOrder /\ SlotsAccounted /\ [Next]_vars => InOrder'
<1> SUFFICES ASSUME TypeOK, InOrder, SlotsAccounted, [Next]_vars
             PROVE  InOrder'
  OBVIOUS
<1> USE DEF brokerVars, slotVars, requestVars, processVars
<1>1. ASSUME NEW r \in Request, req[r] = "unsent" \/ spawned[r] < Size[r],
             r \in Batch \/ req[r] = "unsent",
             req' = [req EXCEPT ![r] = "open"],
             spawned' = [spawned EXCEPT ![r] = spawned[r] + 1],
             Becomes(<<r, spawned[r] + 1>>, "waiting")
      PROVE  InOrder'
  <2> DEFINE j == <<r, spawned[r] + 1>>
  <2>1. Size[r] \in Nat \ {0} /\ (r \notin Batch => Size[r] = 1)
    BY GatewayAssumption
  <2>2. spawned[r] \in Nat /\ spawned[r] < Size[r]
    BY <1>1, <2>1 DEF InOrder, TypeOK
  <2>3. j \in Job
    BY <2>1, <2>2, NextIsIdle
  <2>4. at'[j] = "waiting" /\ \A k \in Job \ {j} : at'[k] = at[k]
    BY <1>1, <2>3, JobType, CallerBecomes
  <2>5. /\ spawned'[r] = spawned[r] + 1 /\ req'[r] = "open"
        /\ \A q \in Request \ {r} : spawned'[q] = spawned[q] /\ req'[q] = req[q]
    BY <1>1 DEF TypeOK
  <2>6. ASSUME NEW q \in Request, NEW i \in 1..Size[q]
        PROVE  at'[<<q, i>>] = "idle" <=> spawned'[q] < i
    <3>1. <<q, i>> \in Job /\ (at[<<q, i>>] = "idle" <=> spawned[q] < i)
      BY JobType DEF InOrder
    <3>2. CASE <<q, i>> = j
      BY <2>2, <2>4, <2>5, <3>2
    <3>3. CASE <<q, i>> # j /\ q = r
      <4>1. i # spawned[r] + 1 /\ at'[<<q, i>>] = at[<<q, i>>] /\ i \in Nat
        BY <2>4, <3>1, <3>3
      <4> QED BY <2>2, <2>5, <3>1, <3>3, <4>1
    <3>4. CASE q # r
      BY <2>4, <2>5, <3>1, <3>4
    <3> QED BY <3>2, <3>3, <3>4
  <2>7. \A q \in Request : spawned'[q] <= Size[q]
    BY <2>1, <2>2, <2>5 DEF InOrder
  <2>8. \A q \in Request : req'[q] = "unsent" => spawned'[q] = 0
    BY <2>5 DEF InOrder
  <2>9. \A q \in Request \ Batch : req'[q] # "unsent" => spawned'[q] = 1
    BY <1>1, <2>5 DEF InOrder
  <2> QED BY <2>6, <2>7, <2>8, <2>9 DEF InOrder
<1>2. ASSUME UNCHANGED spawned,
             \A r \in Request : req'[r] = "unsent" <=> req[r] = "unsent",
             \A j \in Job : at'[j] = "idle" <=> at[j] = "idle"
      PROVE  InOrder'
  BY <1>2, JobType DEF InOrder
<1>3. ASSUME NEW r \in Request, Accept(r) PROVE InOrder'
  <2>1. spawned[r] = 0 /\ req[r] = "unsent" /\ req' = [req EXCEPT ![r] = "open"]
    BY <1>3 DEF Accept, Answer, InOrder
  <2>2. CASE r \in Batch
    <3>1. UNCHANGED <<spawned, at>>
      BY <1>3, <2>2 DEF Accept
    <3>2. /\ req'[r] = "open" /\ \A q \in Request \ {r} : req'[q] = req[q]
      BY <2>1 DEF TypeOK
    <3> QED BY <2>1, <2>2, <3>1, <3>2, JobType DEF InOrder
  <2>3. CASE r \notin Batch
    <3>1. Becomes(<<r, 1>>, "waiting") /\ spawned' = [spawned EXCEPT ![r] = 1]
      BY <1>3, <2>3 DEF Accept, Starts
    <3>2. spawned[r] + 1 = 1
      BY <2>1
    <3> QED BY <1>1, <2>1, <2>3, <3>1, <3>2
  <2> QED BY <2>2, <2>3
<1>4. ASSUME NEW r \in Request, Spawn(r) PROVE InOrder'
  <2>1. /\ req[r] = "open" /\ spawned[r] < Size[r] /\ UNCHANGED req
        /\ Becomes(<<r, spawned[r] + 1>>, "waiting")
        /\ spawned' = [spawned EXCEPT ![r] = spawned[r] + 1]
    BY <1>4 DEF Spawn, Starts
  <2>2. r \in Batch
    <3>1. r \notin Batch => Size[r] = 1 /\ spawned[r] = 1
      BY <2>1, GatewayAssumption DEF InOrder
    <3> QED BY <2>1, <3>1
  <2>3. req' = [req EXCEPT ![r] = "open"]
    BY <2>1 DEF TypeOK
  <2> QED BY <1>1, <2>1, <2>2, <2>3
<1>5. ASSUME NEW r \in Request, Succeeds(r) \/ Fails(r) PROVE InOrder'
  BY <1>2, <1>5 DEF Succeeds, Fails, Answer, TypeOK
<1>6. ASSUME UNCHANGED <<spawned, req>>, NEW who \in Caller, at[who] # "idle" \/ who = Server,
             NEW stage, Becomes(who, stage), stage # "idle" \/ who = Server
      PROVE  InOrder'
  <2>1. at'[who] = stage /\ \A c \in Caller \ {who} : at'[c] = at[c]
    BY <1>6, CallerBecomes
  <2>2. \A j \in Job : at'[j] = "idle" <=> at[j] = "idle"
    BY <1>6, <2>1, JobType
  <2> QED BY <1>2, <1>6, <2>2
<1>7. ASSUME NEW who \in Caller, NEW s \in Slot, Channel(who, s) PROVE InOrder'
  <2>1. UNCHANGED <<spawned, req>> /\ at[who] # "idle"
    BY <1>7 DEF Channel, Connect, Reopen, SetUp, SetUpRefused, LosesConnection, Busy
  <2>2. CASE UNCHANGED at
    BY <1>2, <2>1, <2>2
  <2>3. CASE Raises(who, s)
    BY <1>6, <2>1, <2>3 DEF Raises
  <2>4. CASE Becomes(who, "declaring") \/ Becomes(who, "sent") \/ Becomes(who, "accepting")
    BY <1>6, <2>1, <2>4
  <2> QED
    BY <1>7, <2>2, <2>3, <2>4
    DEF Channel, Connect, Reopen, SetUp, SetUpRefused, LosesConnection
<1>8. ASSUME NEW j \in Job, NEW s \in Slot, Send(j, s) \/ Confirm(j, s) \/ Refused(j, s)
      PROVE  InOrder'
  <2>1. /\ UNCHANGED <<spawned, req>> /\ at[j] # "idle" /\ j \in Caller /\ j # Server
        /\ Becomes(j, "sent") \/ Becomes(j, "done") \/ Becomes(j, "failed")
    BY <1>8, JobType DEF Send, Confirm, Refused, Raises
  <2> QED BY <1>6, <2>1
<1>9. CASE ServerStarts \/ ServerStops
  <2>1. /\ UNCHANGED <<spawned, req>> /\ Server \in Caller
        /\ Becomes(Server, "waiting") \/ Becomes(Server, "stopped")
    BY <1>9, JobType DEF ServerStarts, ServerStops
  <2> QED BY <1>6, <2>1
<1>10. CASE Exit
  BY <1>2, <1>10 DEF Exit, TypeOK
<1>11. CASE Beats \/ Terminate \/ Sweep \/ BrokerFails \/ BrokerReturns \/ UNCHANGED vars
  <2>1. UNCHANGED <<spawned, req, at>>
    BY <1>11 DEF Beats, Beat, Touch, Terminate, Sweep, BrokerFails, BrokerReturns, vars
  <2> QED BY <1>2, <2>1
<1> QED
  BY <1>3, <1>4, <1>5, <1>7, <1>8, <1>9, <1>10, <1>11, SlotType, JobType
  DEF Next, Work, Handle, Publish, Serve, Shutdown

-----------------------------------------------------------------------------
(* Initially the lines are empty, and nothing has been asked for.          *)
LEMMA IInvInit == Init => IInv
<1> SUFFICES ASSUME Init PROVE IInv
  OBVIOUS
<1>1. TypeOK
  BY TypeInit
<1>2. \A r \in Request : Size[r] \in Nat \ {0}
  BY GatewayAssumption
<1>3. InOrder
  BY <1>2, JobType DEF Init, InOrder
<1>4. SlotsAccounted
  <2>1. \A s \in Slot : ToSet(line[s]) = {} /\ IsInjective(line[s])
    BY DEF Init, ToSet, IsInjective
  <2>2. \A c \in Caller : at[c] \notin Unfinished /\ at[c] \notin Busy
    BY DEF Init, Unfinished, Busy
  <2>3. heart # "beating"
    BY DEF Init
  <2> QED BY <2>1, <2>2, <2>3 DEF SlotsAccounted
<1>5. DoneIsStored /\ ConfirmedIsStored
  BY JobType DEF Init, DoneIsStored, ConfirmedIsStored
<1>6. LossToCome
  BY SlotType DEF Init, LossToCome, Exposed, Lost
<1> QED BY <1>1, <1>3, <1>4, <1>5, <1>6 DEF IInv

(* A publish is done only once the broker has its message, which it keeps. *)
LEMMA DoneStep ==
    TypeOK /\ DoneIsStored /\ [Next]_vars => DoneIsStored' /\ stored \subseteq stored'
<1> SUFFICES ASSUME TypeOK, DoneIsStored, [Next]_vars
             PROVE  DoneIsStored' /\ stored \subseteq stored'
  OBVIOUS
<1> USE DEF brokerVars, slotVars, requestVars, processVars
<1>1. ASSUME NEW who \in Caller, NEW stage, Becomes(who, stage), stage # "done",
             stored \subseteq stored'
      PROVE  DoneIsStored'
  BY <1>1, CallerBecomes, JobType DEF DoneIsStored
<1>2. ASSUME UNCHANGED at, stored \subseteq stored' PROVE DoneIsStored'
  BY <1>2 DEF DoneIsStored
<1>3. ASSUME NEW who \in Caller, NEW s \in Slot, Channel(who, s)
      PROVE  DoneIsStored' /\ stored \subseteq stored'
  <2>1. stored \subseteq stored'
    BY <1>3 DEF Channel, Connect, Reopen, SetUp, SetUpRefused, LosesConnection
  <2>2. \/ UNCHANGED at \/ Raises(who, s) \/ Becomes(who, "declaring")
        \/ Becomes(who, "sent") \/ Becomes(who, "accepting")
    BY <1>3 DEF Channel, Connect, Reopen, SetUp, SetUpRefused, LosesConnection
  <2> QED BY <1>1, <1>2, <2>1, <2>2 DEF Raises
<1>4. ASSUME NEW j \in Job, NEW s \in Slot, Send(j, s) \/ Refused(j, s)
      PROVE  DoneIsStored' /\ stored \subseteq stored'
  BY <1>1, <1>4, JobType DEF Send, Refused, Raises
<1>5. ASSUME NEW j \in Job, NEW s \in Slot, Confirm(j, s)
      PROVE  DoneIsStored' /\ stored \subseteq stored'
  BY <1>5, CallerBecomes, JobType DEF Confirm, DoneIsStored
<1>6. ASSUME NEW r \in Request, Accept(r) \/ Handle(r)
      PROVE  DoneIsStored' /\ stored \subseteq stored'
  <2>1. UNCHANGED stored
    BY <1>6 DEF Accept, Handle, Spawn, Succeeds, Fails
  <2>2. \A j \in Job : at'[j] = "done" => at[j] = "done"
    BY <1>6, JobType
       DEF Accept, Handle, Spawn, Starts, Succeeds, Fails, Becomes, TypeOK
  <2> QED BY <2>1, <2>2 DEF DoneIsStored
<1>7. CASE ServerStarts \/ ServerStops
  BY <1>1, <1>7, JobType DEF ServerStarts, ServerStops
<1>8. CASE \/ Beats \/ Terminate \/ Shutdown \/ BrokerFails \/ BrokerReturns
           \/ UNCHANGED vars
  BY <1>2, <1>8
     DEF Beats, Beat, Touch, Terminate, Shutdown, Sweep, Exit, BrokerFails,
         BrokerReturns, vars
<1> QED BY <1>3, <1>4, <1>5, <1>6, <1>7, <1>8, SlotType, JobType
        DEF Next, Work, Publish, Serve

(* The answer 200 is given when every message of the request is stored.    *)
LEMMA ConfirmedStep ==
    /\ TypeOK /\ DoneIsStored /\ ConfirmedIsStored /\ [Next]_vars
    => ConfirmedIsStored'
<1> SUFFICES ASSUME TypeOK, DoneIsStored, ConfirmedIsStored, [Next]_vars
             PROVE  ConfirmedIsStored'
  OBVIOUS
<1>1. stored \subseteq stored'
  BY DoneStep
<1>2. ASSUME NEW r \in Request, Succeeds(r) PROVE ConfirmedIsStored'
  <2>1. {r} \X (1..Size[r]) \subseteq stored
    <3> SUFFICES ASSUME NEW i \in 1..Size[r] PROVE <<r, i>> \in stored
      OBVIOUS
    <3> QED BY <1>2, JobType DEF Succeeds, DoneIsStored
  <2>2. \A q \in Request : req'[q] = "200" => q = r \/ req[q] = "200"
    BY <1>2 DEF Succeeds, Answer, TypeOK
  <2> QED BY <1>1, <2>1, <2>2 DEF ConfirmedIsStored
<1>3. ASSUME \A r \in Request : req'[r] = "200" => req[r] = "200"
      PROVE  ConfirmedIsStored'
  BY <1>1, <1>3 DEF ConfirmedIsStored
<1>4. ASSUME NEW r \in Request, Accept(r) \/ Spawn(r) \/ Fails(r)
      PROVE  ConfirmedIsStored'
  BY <1>3, <1>4 DEF Accept, Spawn, Fails, Answer, TypeOK
<1>5. CASE Exit
  BY <1>3, <1>5 DEF Exit
<1>6. CASE \/ \E j \in Job : Publish(j)
           \/ Serve \/ Beats \/ Terminate \/ Sweep \/ BrokerFails \/ BrokerReturns
           \/ UNCHANGED vars
  BY <1>3, <1>6
     DEF Publish, Channel, Connect, Reopen, SetUp, SetUpRefused, LosesConnection,
         Send, Confirm, Refused, Serve, ServerStarts,
         ServerStops, Beats, Beat, Touch, Terminate, Sweep,
         BrokerFails, BrokerReturns, vars, requestVars
<1> QED BY <1>2, <1>4, <1>5, <1>6 DEF Next, Work, Handle, Shutdown

(* Once its holder has left, nobody waits for the broker on a slot.        *)
LEMMA NobodyWaits ==
    ASSUME TypeOK, SlotsAccounted, NEW s \in Slot, NEW who, Holds(who, s), Leaves(s),
           \A c \in Caller \ {who} : at'[c] = at[c]
    PROVE  ~Waiting(s)'
<1>1. line[s] # <<>> /\ Head(line[s]) = who
  BY HolderFirst
<1>2. ToSet(line'[s]) = ToSet(line[s]) \ {who}
  BY <1>1, LeaveLine
<1>3. \A c \in Caller : at[c] \in Busy /\ c \in ToSet(line[s]) => c = who
  BY <1>1 DEF SlotsAccounted
<1> QED BY <1>2, <1>3 DEF Waiting

(* A publish that fails for want of a connection closes it, and leaves     *)
(* nobody behind that waits for it; what else a step does to a slot makes  *)
(* no further loss, unless the broker fails or main closes it.             *)
LEMMA LossStep ==
    TypeOK /\ InOrder /\ SlotsAccounted /\ LossToCome /\ [Next]_vars => LossToCome'
<1> SUFFICES ASSUME TypeOK, InOrder, SlotsAccounted, LossToCome, [Next]_vars
             PROVE  LossToCome'
  OBVIOUS
<1> USE DEF brokerVars, slotVars, requestVars, processVars
<1>1. losses \in [Slot -> Nat] /\ conn \in [Slot -> {"none", "open", "bare", "closed"} \cup Lost]
  BY DEF TypeOK
<1>2. ASSUME UNCHANGED <<broker, losses, swept>>,
             \A t \in Slot : Exposed(t)' => Exposed(t)
      PROVE  LossToCome'
  BY <1>1, <1>2 DEF LossToCome
<1>3. ASSUME UNCHANGED conn, \A t \in Slot : Waiting(t)' => Waiting(t)
      PROVE  \A t \in Slot : Exposed(t)' => Exposed(t)
  BY <1>3 DEF Exposed
<1>4. ASSUME NEW who \in Caller, NEW s \in Slot, Holds(who, s), Raises(who, s)
      PROVE  \A t \in Slot : Waiting(t)' => Waiting(t) /\ t # s
  <2>1. ~Waiting(s)' /\ \A c \in Caller \ {who} : at'[c] = at[c]
    BY <1>4, NobodyWaits, CallerBecomes DEF Raises
  <2>2. at'[who] \notin Busy
    BY <1>4, CallerBecomes DEF Raises, Busy
  <2>3. \A t \in Slot \ {s} : line'[t] = line[t]
    BY <1>4, LeaveLine, HolderFirst DEF Raises
  <2> QED BY <2>1, <2>2, <2>3 DEF Waiting
<1>5. ASSUME NEW who \in Party, NEW s \in Slot, Joins(who, s),
             UNCHANGED at \/ (Becomes(who, "waiting") /\ who \in Caller),
             UNCHANGED <<conn, broker, losses, swept>>,
             who \in Caller => at[who] = "idle"
      PROVE  LossToCome'
  <2>1. \A t \in Slot : \A x : x \in ToSet(line'[t])
                                 => x \in ToSet(line[t]) \/ x = who
    BY <1>5, JoinLine
  <2>2. \A c \in Caller : at'[c] \in Busy => at[c] \in Busy /\ c # who
    BY <1>5, CallerBecomes DEF Busy
  <2>3. \A t \in Slot : Waiting(t)' => Waiting(t)
    BY <2>1, <2>2 DEF Waiting
  <2> QED BY <1>2, <1>3, <1>5, <2>3
<1>6. ASSUME NEW r \in Request, Accept(r) PROVE LossToCome'
  <2>1. CASE r \in Batch
    BY <1>2, <1>3, <1>6, <2>1 DEF Accept, Waiting
  <2>2. CASE r \notin Batch
    <3>1. <<r, 1>> \in Job /\ at[<<r, 1>>] = "idle"
      BY <1>6, FirstIsIdle DEF Accept
    <3> QED BY <1>5, <1>6, <2>2, <3>1, JobType DEF Accept, Starts, TypeOK
  <2> QED BY <2>1, <2>2
<1>7. ASSUME NEW r \in Request, Spawn(r) PROVE LossToCome'
  <2> DEFINE j == <<r, spawned[r] + 1>>
  <2>1. j \in Job /\ at[j] = "idle"
    BY <1>7, NextIsIdle DEF Spawn
  <2>2. Becomes(j, "waiting") /\ Joins(j, next) /\ UNCHANGED <<conn, broker, losses, swept>>
    BY <1>7 DEF Spawn, Starts
  <2> HIDE DEF j
  <2> QED BY <1>5, <2>1, <2>2, JobType DEF TypeOK
<1>8. ASSUME NEW who \in Caller, NEW s \in Slot, Connect(who, s) PROVE LossToCome'
  <2>1. CASE broker = "up"
    <3>1. conn'[s] = "bare" /\ \A t \in Slot \ {s} : conn'[t] = conn[t]
      BY <1>1, <1>8, <2>1 DEF Connect
    <3>2. Becomes(who, "declaring") /\ UNCHANGED <<line, broker, losses, swept>>
      BY <1>8, <2>1 DEF Connect
    <3>3. who \in ToSet(line[s])
      BY <1>8, HolderFirst DEF Connect
    <3>4. \A t \in Slot \ {s} : who \notin ToSet(line[t])
      BY <3>3 DEF SlotsAccounted
    <3>5. \A t \in Slot \ {s} : Waiting(t)' => Waiting(t)
      BY <3>2, <3>4, CallerBecomes DEF Waiting
    <3>6. \A t \in Slot : Exposed(t)' => Exposed(t)
      BY <3>1, <3>5 DEF Exposed, Lost
    <3> QED BY <1>2, <3>2, <3>6
  <2>2. CASE broker # "up"
    BY <1>8, <2>2 DEF Connect, LossToCome
  <2> QED BY <2>1, <2>2
<1>9. ASSUME NEW who \in Caller, NEW s \in Slot, Reopen(who, s) \/ SetUp(who, s)
      PROVE  LossToCome'
  <2>1. /\ Holds(who, s) /\ UNCHANGED <<broker, losses, swept>>
        /\ conn[s] \in {"bare", "adrift"} /\ conn'[s] \in {conn[s], "open"}
        /\ \A t \in Slot \ {s} : conn'[t] = conn[t] /\ line'[t] = line[t]
    BY <1>1, <1>9 DEF Reopen, SetUp, Leaves, TypeOK
  <2>2. \A c \in Caller \ {who} : at'[c] = at[c]
    BY <1>9, CallerBecomes DEF Reopen, SetUp
  <2>3. \A t \in Slot \ {s} : who \notin ToSet(line[t])
    BY <2>1, HolderFirst DEF SlotsAccounted
  <2>4. \A t \in Slot \ {s} : Waiting(t)' => Waiting(t)
    BY <2>1, <2>2, <2>3 DEF Waiting
  <2>5. \A t \in Slot : Exposed(t)' => Exposed(t)
    BY <2>1, <2>4 DEF Exposed, Lost
  <2> QED BY <1>2, <2>1, <2>5
<1>10. ASSUME NEW who \in Caller, NEW s \in Slot, SetUpRefused(who, s)
       PROVE  LossToCome'
  BY <1>2, <1>3, <1>4, <1>10 DEF SetUpRefused
<1>11. ASSUME NEW who \in Caller, NEW s \in Slot, LosesConnection(who, s)
       PROVE  LossToCome'
  <2>1. /\ Holds(who, s) /\ Raises(who, s) /\ UNCHANGED <<broker, swept>>
        /\ conn'[s] = "closed" /\ \A t \in Slot \ {s} : conn'[t] = conn[t]
        /\ losses'[s] \in {losses[s], losses[s] + 1}
        /\ \A t \in Slot \ {s} : losses'[t] = losses[t]
    BY <1>1, <1>11 DEF LosesConnection, Loses
  <2>2. Exposed(s)
    <3>1. who \in ToSet(line[s])
      BY <2>1, HolderFirst
    <3> QED BY <1>11, <3>1 DEF LosesConnection, Exposed, Waiting, Lost
  <2>3. ~Exposed(s)' /\ \A t \in Slot \ {s} : Exposed(t)' => Exposed(t)
    BY <1>4, <2>1 DEF Exposed, Lost
  <2>4. losses'[s] \in Nat /\ losses'[s] <= losses[s] + 1
    BY <1>1, <2>1
  <2> QED BY <1>1, <2>1, <2>2, <2>3, <2>4 DEF LossToCome
<1>12. ASSUME NEW j \in Job, NEW s \in Slot, Send(j, s) PROVE LossToCome'
  <2>1. conn[s] = "open" /\ Becomes(j, "sent") /\ Holds(j, s)
        /\ UNCHANGED <<conn, line, broker, losses, swept>>
    BY <1>12 DEF Send
  <2>2. j \in Caller /\ \A t \in Slot \ {s} : j \notin ToSet(line[t])
    BY <2>1, JobType, HolderFirst DEF SlotsAccounted
  <2>3. \A t \in Slot \ {s} : Waiting(t)' => Waiting(t)
    BY <2>1, <2>2, CallerBecomes DEF Waiting
  <2>4. \A t \in Slot : Exposed(t)' => Exposed(t)
    BY <2>1, <2>3 DEF Exposed, Lost
  <2> QED BY <1>2, <2>1, <2>4
<1>13. ASSUME NEW j \in Job, NEW s \in Slot, Confirm(j, s) \/ Refused(j, s)
       PROVE  LossToCome'
  <2>1. /\ Holds(j, s) /\ UNCHANGED <<broker, losses, swept>> /\ conn[s] = "open"
        /\ conn'[s] \in {"open", "bare"} /\ \A t \in Slot \ {s} : conn'[t] = conn[t]
        /\ Leaves(s) /\ j \in Caller
    BY <1>1, <1>13, JobType DEF Confirm, Refused, Raises
  <2>2. at'[j] \notin Busy /\ \A c \in Caller \ {j} : at'[c] = at[c]
    BY <1>13, <2>1, JobType, CallerBecomes DEF Confirm, Refused, Raises, Busy
  <2>3. \A t \in Slot \ {s} : line'[t] = line[t]
    BY <2>1, LeaveLine, HolderFirst
  <2>4. \A t \in Slot \ {s} : Waiting(t)' => Waiting(t)
    BY <2>2, <2>3 DEF Waiting
  <2>5. \A t \in Slot : Exposed(t)' => Exposed(t)
    BY <2>1, <2>4 DEF Exposed, Lost
  <2> QED BY <1>2, <2>1, <2>5
<1>14. CASE ServerStarts
  BY <1>5, <1>14, JobType, SlotType DEF ServerStarts
<1>15. CASE ServerStops
  <2>1. /\ Server \in Caller /\ UNCHANGED <<line, conn, broker, losses, swept>>
        /\ Becomes(Server, "stopped")
    BY <1>15, JobType DEF ServerStops, slotVars
  <2>2. \A c \in Caller : at'[c] \in Busy => at[c] \in Busy
    BY <2>1, CallerBecomes DEF Busy
  <2>3. \A t \in Slot : ToSet(line'[t]) \subseteq ToSet(line[t])
    BY <2>1
  <2>4. \A t \in Slot : Waiting(t)' => Waiting(t)
    BY <2>2, <2>3 DEF Waiting
  <2> QED BY <1>2, <1>3, <2>1, <2>4
<1>16. CASE Beat
  <2>1. CASE IsStopping
    BY <1>2, <1>3, <1>16, <2>1 DEF Beat, Waiting
  <2>2. CASE ~IsStopping
    <3>1. Heartbeat \in Party /\ Heartbeat \notin Caller /\ 0 \in Slot
      BY JobType, SlotType
    <3> QED BY <1>5, <1>16, <2>2, <3>1 DEF Beat
  <2> QED BY <2>1, <2>2
<1>17. ASSUME NEW s \in Slot, Touch(s) PROVE LossToCome'
  <2>1. /\ Holds(Heartbeat, s) /\ UNCHANGED <<at, broker, losses, swept>>
        /\ conn[s] \in Lost \/ UNCHANGED conn
        /\ \A t \in Slot \ {s} : conn'[t] = conn[t]
    BY <1>1, <1>17 DEF Touch
  <2>2. \A t \in Slot, c \in Caller : c \in ToSet(line'[t]) => c \in ToSet(line[t])
    <3>1. CASE Leaves(s)
      BY <2>1, <3>1, LeaveLine, HolderFirst
    <3>2. CASE /\ s # Slots - 1
               /\ line' = [line EXCEPT ![s] = Tail(@), ![s + 1] = Append(@, Heartbeat)]
      <4>1. /\ s + 1 \in Slot /\ s + 1 # s /\ Heartbeat \in Party /\ Heartbeat \notin Caller
            /\ line \in [Slot -> Seq(Party)] /\ IsInjective(line[s]) /\ line[s] # <<>>
        <5>1. s + 1 \in Slot /\ s + 1 # s
          BY <3>2, SlotType
        <5>2. Heartbeat \in Party /\ Heartbeat \notin Caller
          BY JobType
        <5>3. line \in [Slot -> Seq(Party)] /\ IsInjective(line[s]) /\ line[s] # <<>>
          BY <2>1 DEF TypeOK, SlotsAccounted, Holds
        <5> QED BY <5>1, <5>2, <5>3
      <4>2. /\ line'[s] = Tail(line[s]) /\ line'[s + 1] = Append(line[s + 1], Heartbeat)
            /\ \A t \in Slot \ {s, s + 1} : line'[t] = line[t]
        BY <3>2, <4>1
      <4>3. ToSet(line'[s]) \subseteq ToSet(line[s])
        BY <4>1, <4>2, TailLine
      <4>4. ToSet(line'[s + 1]) = ToSet(line[s + 1]) \cup {Heartbeat}
        BY <4>1, <4>2, AppendLine
      <4> QED BY <4>1, <4>2, <4>3, <4>4
    <3> QED BY <1>17, <3>1, <3>2 DEF Touch
  <2>3. \A t \in Slot : Waiting(t)' => Waiting(t)
    BY <2>1, <2>2 DEF Waiting
  <2>4. \A t \in Slot : Exposed(t)' => Exposed(t)
    BY <2>1, <2>3 DEF Exposed
  <2> QED BY <1>2, <2>1, <2>4
<1>18. CASE Sweep
  <2>1. /\ UNCHANGED <<broker, losses, line, at>> /\ swept' = swept + 1 /\ swept \in Slot
        /\ \A t \in Slot \ {swept} : conn'[t] = conn[t]
    BY <1>1, <1>18, SlotType DEF Sweep, TypeOK
  <2>2. \A t \in Slot \ {swept} : (Exposed(t)' => Exposed(t)) /\ t \in Nat
    BY <2>1, SlotType DEF Exposed, Waiting
  <2>3. swept \in Nat
    BY <2>1, SlotType
  <2>4. ASSUME broker = "up", NEW t \in Slot
        PROVE  losses[t] + (IF Exposed(t)' THEN 1 ELSE 0) <= IF t < swept + 1 THEN 2 ELSE 1
    <3>1. losses[t] + (IF Exposed(t) THEN 1 ELSE 0) <= IF t < swept THEN 2 ELSE 1
      BY <2>4 DEF LossToCome
    <3>2. losses[t] \in Nat
      BY <1>1
    <3>3. CASE t = swept
      BY <2>3, <3>1, <3>2, <3>3
    <3>4. CASE t # swept
      <4>1. t \in Nat /\ (Exposed(t)' => Exposed(t)) /\ (t < swept + 1 <=> t < swept)
        BY <2>2, <2>3, <3>4
      <4> QED BY <3>1, <3>2, <4>1
    <3> QED BY <3>3, <3>4
  <2> QED BY <2>1, <2>4 DEF LossToCome
<1>19. CASE BrokerFails
  BY <1>19 DEF BrokerFails, LossToCome
<1>20. CASE BrokerReturns
  BY <1>20 DEF BrokerReturns, LossToCome
<1>21. CASE \/ \E r \in Request : Succeeds(r) \/ Fails(r)
            \/ Terminate \/ Exit \/ UNCHANGED vars
  <2>1. UNCHANGED <<broker, conn, line, losses, at, swept>>
    BY <1>21 DEF Succeeds, Fails, Terminate, Exit, vars
  <2>2. \A t \in Slot : Waiting(t)' => Waiting(t)
    BY <2>1 DEF Waiting
  <2> QED BY <1>2, <1>3, <2>1, <2>2
<1> QED
  BY <1>6, <1>7, <1>8, <1>9, <1>10, <1>11, <1>12, <1>13, <1>14, <1>15, <1>16, <1>17,
     <1>18, <1>19, <1>20, <1>21, SlotType, JobType
  DEF Next, Work, Handle, Publish, Channel, Serve, Beats, Shutdown

LEMMA IInvStep == IInv /\ [Next]_vars => IInv'
BY TypeStep, InOrderStep, SlotsStep, DoneStep, ConfirmedStep, LossStep DEF IInv

(* The inductive invariant holds throughout.                               *)
THEOREM IInvCorrect == Spec => []IInv
<1> QED BY IInvInit, IInvStep, PTL DEF Spec

-----------------------------------------------------------------------------
(* P1's variables have their types: _publish_next always names a slot, and *)
(* no connection is tried more than MaxAttempts times                      *)
(* (get_rmq_connection_with_retry).                                        *)
THEOREM TypeCorrect == Spec => []TypeOK
<1>1. IInv => TypeOK
  BY DEF IInv
<1> QED BY <1>1, IInvCorrect, PTL

(* Every semaphore is given back, whatever way a publish, the heartbeat or *)
(* the start of the server ends (_PublishSlot, _gt_rmq_heartbeat): a slot  *)
(* is held or waited for by exactly those that have work for it, and one   *)
(* publish at most is under way on it, for any number of slots, requests   *)
(* and outages.                                                            *)
THEOREM SlotsAccountedCorrect == Spec => []SlotsAccounted
<1>1. IInv => SlotsAccounted
  BY DEF IInv
<1> QED BY <1>1, IInvCorrect, PTL

(* A request that was answered 200 is stored by the broker, every message  *)
(* of it (_PublishSlot.publish with confirms, do_POST).                    *)
THEOREM ConfirmedIsStoredCorrect == Spec => []ConfirmedIsStored
<1>1. IInv => ConfirmedIsStored
  BY DEF IInv
<1> QED BY <1>1, IInvCorrect, PTL

(* With the broker back, a publisher connection fails one publish more at  *)
(* most, and a second one when main closes it, however many publishes wait *)
(* for its slot (_PublishSlot.channel): the connection that fails one is   *)
(* closed, and nobody behind is told that it is there.                     *)
THEOREM OneLossAfterOutageCorrect == Spec => []OneLossAfterOutage
<1>1. IInv => OneLossAfterOutage
  <2> SUFFICES ASSUME IInv, broker = "up", NEW s \in Slot
               PROVE  losses[s] <= IF s < swept THEN 2 ELSE 1
    BY DEF OneLossAfterOutage
  <2>1. losses[s] \in Nat
    BY DEF IInv, TypeOK
  <2>2. losses[s] + (IF Exposed(s) THEN 1 ELSE 0) <= IF s < swept THEN 2 ELSE 1
    BY DEF IInv, LossToCome
  <2> QED BY <2>1, <2>2
<1> QED BY <1>1, IInvCorrect, PTL
=============================================================================
