------------------------- MODULE MigrateQueueProofs --------------------------
(***************************************************************************)
(* Proofs about MigrateQueue, for any waiting messages and any number of   *)
(* kills, with P1 stopped as the tool asks, and with the tool not run      *)
(* again before the broker has noticed that it died.                       *)
(***************************************************************************)
EXTENDS MigrateQueue, SequenceTheorems, WellFoundedInduction, TLAPS

(* Appending adds one element.                                             *)
LEMMA AppendElements ==
    ASSUME NEW s \in Seq(Msg), NEW x \in Msg
    PROVE  /\ Append(s, x) \in Seq(Msg)
           /\ Len(Append(s, x)) = Len(s) + 1
           /\ Append(s, x) # << >>
           /\ \A m \in Elements(s) : m \in Elements(Append(s, x))
           /\ x \in Elements(Append(s, x))
<1> DEFINE t == Append(s, x)
<1>1. /\ t \in Seq(Msg) /\ Len(t) = Len(s) + 1 /\ Len(s) \in Nat
      /\ DOMAIN t = 1..Len(t) /\ DOMAIN s = 1..Len(s)
      /\ \A i \in 1..Len(s) : t[i] = s[i]
      /\ t[Len(s) + 1] = x
  OBVIOUS
<1>2. Len(s) + 1 \in DOMAIN t /\ DOMAIN s \subseteq DOMAIN t /\ t # << >>
  BY <1>1
<1> QED
  BY <1>1, <1>2 DEF Elements

(* Dropping the head removes no other element.                             *)
LEMMA TailElements ==
    ASSUME NEW s \in Seq(Msg), s # << >>
    PROVE  /\ Tail(s) \in Seq(Msg) /\ Head(s) \in Msg
           /\ Len(s) = Len(Tail(s)) + 1
           /\ Head(s) \in Elements(s)
           /\ \A m \in Elements(s) : m = Head(s) \/ m \in Elements(Tail(s))
<1> DEFINE t == Tail(s)
<1>1. /\ t \in Seq(Msg) /\ Len(t) = Len(s) - 1 /\ Len(s) \in Nat \ {0}
      /\ DOMAIN t = 1..Len(t) /\ DOMAIN s = 1..Len(s)
      /\ \A i \in 1..Len(t) : t[i] = s[i + 1]
      /\ Head(s) = s[1] /\ Head(s) \in Msg
  OBVIOUS
<1>2. ASSUME NEW i \in DOMAIN s PROVE s[i] = Head(s) \/ s[i] \in Elements(t)
  <2>1. CASE i = 1
    BY <1>1, <2>1
  <2>2. CASE i # 1
    <3>1. i - 1 \in DOMAIN t /\ t[i - 1] = s[i]
      BY <1>1, <2>2
    <3> QED
      BY <3>1 DEF Elements
  <2> QED
    BY <2>1, <2>2
<1>3. 1 \in DOMAIN s
  BY <1>1
<1> QED
  BY <1>1, <1>2, <1>3 DEF Elements

(* A tool that is not run hastily works at the head of a queue.            *)
LEMMA AtHead ==
    ASSUME TypeOK, Stage, pc \in Moving
    PROVE  /\ Source \in Name /\ Destination \in Name /\ Source # Destination
           /\ content[Source] \in Seq(Msg) /\ content[Destination] \in Seq(Msg)
           /\ Ready(Source) = content[Source]
           /\ pc \in {"fetched", "ack"} =>
                 /\ content[Source] # << >>
                 /\ Fetched = Head(content[Source])
                 /\ RemoveAt(content[Source], hidden[Source] + 1) = Tail(content[Source])
<1>1. /\ Source \in Name /\ Destination \in Name /\ Source # Destination
      /\ content[Source] \in Seq(Msg) /\ content[Destination] \in Seq(Msg)
  BY DEF TypeOK, Source, Destination, Name
<1>2. hidden[Source] = 0
  BY <1>1 DEF Stage, Moving
<1>3. ASSUME NEW s \in Seq(Msg)
      PROVE  /\ SubSeq(s, 0 + 1, Len(s)) = s
             /\ s # << >> => s[0 + 1] = Head(s) /\ RemoveAt(s, 0 + 1) = Tail(s)
  <2>1. SubSeq(s, 1, Len(s)) = s
    OBVIOUS
  <2>2. ASSUME s # << >> PROVE RemoveAt(s, 1) = Tail(s)
    <3>1. SubSeq(s, 1, 0) = << >> /\ SubSeq(s, 2, Len(s)) = Tail(s) /\ Tail(s) \in Seq(Msg)
      BY <2>2
    <3> QED BY <3>1 DEF RemoveAt
  <2> QED BY <2>1, <2>2
<1>4. Ready(Source) = content[Source]
  BY <1>1, <1>2, <1>3 DEF Ready
<1>5. pc \in {"fetched", "ack"} => content[Source] # << >>
  BY DEF Stage
<1> QED BY <1>1, <1>2, <1>3, <1>4, <1>5 DEF Fetched

-----------------------------------------------------------------------------
(* The waiting messages are on the old queue, and nothing else exists.     *)
LEMMA InvInit == Init => Inv
<1> SUFFICES ASSUME Init PROVE Inv
  OBVIOUS
<1>1. Waiting \in Seq(Msg) /\ Elements(Waiting) \subseteq Msg /\ Len(Waiting) \in Nat
  BY MigrateAssumption DEF Elements
<1>2. PICK k \in Kind : kind = [queue |-> k, temp |-> "none"]
  BY DEF Init
<1>3. TypeOK
  <2>1. kind \in [Name -> Kind \cup {"none"}]
    BY <1>2 DEF Name
  <2>2. content \in [Name -> Seq(Msg)]
    <3>1. << >> \in Seq(Msg) /\ DOMAIN content = Name
      BY DEF Init, Name
    <3>2. content = [q \in Name |-> IF q = "queue" THEN Waiting ELSE << >>]
      BY DEF Init, Name
    <3> QED
      BY <1>1, <3>1, <3>2
  <2> QED
    BY <1>1, <2>1, <2>2 DEF Init, TypeOK, Label
<1>6. Stage /\ Completed
  <2>1. k # "none" /\ kind["queue"] # "none" /\ kind["temp"] = "none"
    BY <1>2 DEF Kind
  <2>2. content["temp"] = << >>
    BY DEF Init
  <2> QED
    BY <2>1, <2>2 DEF Init, Stage, Completed, Moving, Name
<1>4. NothingLost
  BY DEF Init, NothingLost, Has
<1>5. OneCopyPerKill
  BY <1>1 DEF Init, OneCopyPerKill
<1> QED
  BY <1>3, <1>4, <1>5, <1>6 DEF Inv

(* Every step of the tool, killed or not, keeps the invariant.             *)
LEMMA InvStep == Late = {} /\ ~Hasty /\ Inv /\ [Next]_vars => Inv'
<1> SUFFICES ASSUME Late = {}, ~Hasty, Inv, [Next]_vars PROVE Inv'
  OBVIOUS
<1>0. /\ TypeOK /\ Stage /\ NothingLost /\ Completed /\ OneCopyPerKill
      /\ Waiting \in Seq(Msg) /\ content \in [Name -> Seq(Msg)]
      /\ hidden \in [Name -> Nat]
  BY MigrateAssumption DEF Inv, TypeOK, Name
<1>1. ASSUME NEW k \in Goals, Start(k) PROVE Inv'
  <2>1. k \in Kind
    BY MigrateAssumption
  <2> QED
    BY <1>0, <1>1, <2>1
    DEF Start, Inv, TypeOK, Stage, NothingLost, Has, Completed, OneCopyPerKill, Label,
        Moving, Kind
<1>2. CASE Survey /\ UNCHANGED hidden
  BY <1>0, <1>2
  DEF Survey, Declare, Inv, TypeOK, Stage, NothingLost, Has, Completed, OneCopyPerKill,
      Label, Moving, Kind, Name
<1>3. CASE DeclareTemp /\ UNCHANGED hidden
  BY <1>0, <1>3
  DEF DeclareTemp, Declare, Inv, TypeOK, Stage, NothingLost, Has, Completed,
      OneCopyPerKill, Label, Moving, Kind, Name
<1>4. CASE Copy /\ UNCHANGED hidden
  <2> DEFINE h == Head(content[Source])
  <2>1. /\ Source \in Name /\ Destination \in Name /\ Source # Destination
        /\ content[Source] \in Seq(Msg) /\ content[Source] # << >>
        /\ content[Destination] \in Seq(Msg) /\ Source' = Source
        /\ Destination' = Destination
    BY <1>0, <1>4, AtHead DEF Copy, Moving, Source, Destination
  <2>2a. Fetched = h
    BY <1>0, <1>4, AtHead DEF Copy, Moving
  <2>2. h \in Msg /\ h \in Elements(content[Source])
    BY <2>1, TailElements
  <2>3. /\ content'[Destination] = Append(content[Destination], h)
        /\ content'[Source] = content[Source]
        /\ content' \in [Name -> Seq(Msg)]
    BY <1>0, <1>4, <2>1, <2>2, <2>2a, AppendElements DEF Copy, TypeOK
  <2>4. TypeOK'
    BY <1>0, <1>4, <2>3 DEF Copy, TypeOK, Label, Moving
  <2>5. Stage'
    <3>1. Fetched' = h
      BY <1>4, <2>1, <2>2a, <2>3 DEF Fetched
    <3>2. Has(Destination, h)' /\ content'[Destination] # << >>
      BY <2>1, <2>2, <2>3, AppendElements DEF Has, Destination
    <3> QED
      BY <1>0, <1>4, <2>1, <2>3, <3>1, <3>2 DEF Copy, Stage, Moving, Name, Source
  <2>6. NothingLost'
    BY <1>0, <1>4, <2>1, <2>2, <2>3, AppendElements
    DEF Copy, NothingLost, Has, Source, Destination
  <2>7. OneCopyPerKill'
    <3>1. Len(content'[Destination]) = Len(content[Destination]) + 1
      BY <2>1, <2>2, <2>3, AppendElements
    <3>2. Len(content'["queue"]) + Len(content'["temp"])
              = Len(content["queue"]) + Len(content["temp"]) + 1
      <4>1. CASE way = "out"
        <5>1. /\ content'["queue"] = content["queue"]
              /\ Len(content'["temp"]) = Len(content["temp"]) + 1
          BY <2>3, <3>1, <4>1 DEF Source, Destination
        <5> QED
          BY <1>0, <2>3, <5>1 DEF Name
      <4>2. CASE way # "out"
        <5>1. /\ content'["temp"] = content["temp"]
              /\ Len(content'["queue"]) = Len(content["queue"]) + 1
          BY <2>3, <3>1, <4>2 DEF Source, Destination
        <5> QED
          BY <1>0, <2>3, <5>1 DEF Name
      <4> QED
        BY <4>1, <4>2
    <3>3. pc = "fetched" /\ pc' = "ack" /\ kills' = kills /\ kills \in Nat
      BY <1>0, <1>4 DEF Copy, TypeOK
    <3> QED
      BY <1>0, <2>3, <3>2, <3>3 DEF OneCopyPerKill, Name
  <2> QED
    BY <1>4, <2>4, <2>5, <2>6, <2>7 DEF Copy, Inv, Completed
<1>5. CASE Ack /\ UNCHANGED hidden
  <2>1. /\ Source \in Name /\ Destination \in Name /\ Source # Destination
        /\ content[Source] \in Seq(Msg) /\ content[Source] # << >>
        /\ Has(Destination, Head(content[Source]))
        /\ RemoveAt(content[Source], hidden[Source] + 1) = Tail(content[Source])
    BY <1>0, <1>5, AtHead DEF Ack, Stage, Moving
  <2>2. /\ content'[Source] = Tail(content[Source])
        /\ content'[Destination] = content[Destination]
        /\ content' \in [Name -> Seq(Msg)]
    BY <1>0, <1>5, <2>1, TailElements DEF Ack, TypeOK
  <2>3. TypeOK'
    BY <1>0, <1>5, <2>2 DEF Ack, TypeOK, Label, Moving
  <2>4. Stage'
    BY <1>0, <1>5, <2>1, <2>2 DEF Ack, Stage, Moving, Name, Source, Destination
  <2>5. NothingLost'
    BY <1>0, <1>5, <2>1, <2>2, TailElements
    DEF Ack, NothingLost, Has, Source, Destination
  <2>6. OneCopyPerKill'
    <3>1. Len(content[Source]) = Len(content'[Source]) + 1
      BY <2>1, <2>2, TailElements
    <3>2. Len(content["queue"]) + Len(content["temp"])
              = Len(content'["queue"]) + Len(content'["temp"]) + 1
      <4>1. CASE way = "out"
        <5>1. /\ content'["temp"] = content["temp"]
              /\ Len(content["queue"]) = Len(content'["queue"]) + 1
          BY <2>2, <3>1, <4>1 DEF Source, Destination
        <5> QED
          BY <1>0, <2>2, <5>1 DEF Name
      <4>2. CASE way # "out"
        <5>1. /\ content'["queue"] = content["queue"]
              /\ Len(content["temp"]) = Len(content'["temp"]) + 1
          BY <2>2, <3>1, <4>2 DEF Source, Destination
        <5> QED
          BY <1>0, <2>2, <5>1 DEF Name
      <4> QED
        BY <4>1, <4>2
    <3>3. /\ pc = "ack" /\ pc' = "get" /\ kills' = kills /\ kills \in Nat
      BY <1>0, <1>5 DEF Ack, TypeOK
    <3> QED
      BY <1>0, <2>2, <3>2, <3>3 DEF OneCopyPerKill, Name
  <2> QED
    BY <1>5, <2>3, <2>4, <2>5, <2>6 DEF Ack, Inv, Completed
<1>6. CASE (Fetch \/ Drained \/ Count) /\ UNCHANGED hidden
  <2>1. Ready(Source) = content[Source]
    BY <1>0, <1>6, AtHead DEF Fetch, Drained, Count, Moving
  <2> QED BY <1>0, <1>6, <2>1
  DEF Fetch, Drained, Count, Inv, TypeOK, Stage, NothingLost, Has, Completed, OneCopyPerKill,
      Label, Moving, Source
<1>7. CASE Delete
  <2>1. Source \in Name /\ content[Source] = << >> /\ content' = content
    BY <1>0, <1>7 DEF Delete, TypeOK, Stage, Source, Name
  <2>2. TypeOK'
    BY <1>0, <1>7, <2>1 DEF Delete, TypeOK, Label, Moving
  <2>3. Stage' /\ Completed'
    BY <1>0, <1>7, <2>1 DEF Delete, TypeOK, Stage, Completed, Moving, Name, Source
  <2>4. NothingLost' /\ OneCopyPerKill'
    BY <1>0, <1>7, <2>1 DEF Delete, NothingLost, OneCopyPerKill, Has
  <2> QED
    BY <2>2, <2>3, <2>4 DEF Inv
<1>8. CASE Redeclare /\ UNCHANGED hidden
  BY <1>0, <1>8
  DEF Redeclare, Declare, Inv, TypeOK, Stage, NothingLost, Has, Completed,
      OneCopyPerKill, Label, Moving, Kind, Name
<1>9. CASE Kill
  <2>0. hidden' \in [Name -> Nat]
    <3>1. Source \in Name /\ hidden[Source] + 1 \in Nat
      BY <1>0 DEF Source, Name
    <3>2. hidden' \in {hidden, [hidden EXCEPT ![Source] = hidden[Source] + 1]}
      BY <1>9 DEF Kill
    <3> QED
      BY <1>0, <3>1, <3>2
  <2>1. TypeOK' /\ Stage' /\ Completed'
    BY <1>0, <1>9, <2>0 DEF Kill, TypeOK, Stage, Completed, Label, Moving
  <2>2. NothingLost'
    BY <1>0, <1>9 DEF Kill, NothingLost, Has
  <2>3. OneCopyPerKill'
    <3>1. kills \in Nat /\ kills' = kills + 1 /\ pc' = "idle" /\ content' = content
      BY <1>0, <1>9 DEF Kill, TypeOK
    <3> QED
      BY <1>0, <3>1 DEF OneCopyPerKill, Name
  <2> QED
    BY <2>1, <2>2, <2>3 DEF Inv
<1>10. CASE Notice
  <2>1. /\ hidden' = [q \in Name |-> 0] /\ pc' = pc /\ pc \notin {"fetched", "ack"}
        /\ UNCHANGED <<kind, content, way, goal, taken, kills>>
    BY <1>10 DEF Notice
  <2>2. TypeOK' /\ Stage' /\ Completed'
    BY <1>0, <2>1 DEF TypeOK, Stage, Completed, Source
  <2> QED
    BY <1>0, <2>1, <2>2 DEF Inv, NothingLost, Has, OneCopyPerKill
<1>11. CASE UNCHANGED vars
  BY <1>0, <1>11
  DEF vars, Inv, TypeOK, Stage, NothingLost, Has, Completed, OneCopyPerKill, Source,
      Destination, Fetched
<1> QED
  BY <1>1, <1>2, <1>3, <1>4, <1>5, <1>6, <1>7, <1>8, <1>9, <1>10, <1>11
  DEF Next, ToolStep

(* With P1 stopped, and the broker given the time to notice that it died,  *)
(* the tool is safe to kill and to run again, any number of times and in   *)
(* either direction: its inductive invariant.                              *)
THEOREM InvCorrect == ASSUME Late = {}, ~Hasty PROVE Spec => []Inv
<1>1. Inv /\ [Next]_vars => Inv'
  BY InvStep
<1> QED
  BY <1>1, InvInit, PTL DEF Spec

(* No waiting message is ever lost.                                        *)
THEOREM NothingLostCorrect == ASSUME Late = {}, ~Hasty PROVE Spec => []NothingLost
<1>1. Inv => NothingLost
  BY DEF Inv
<1> QED
  BY <1>1, InvCorrect, PTL

(* A run that ends has done what it was asked.                             *)
THEOREM CompletedCorrect == ASSUME Late = {}, ~Hasty PROVE Spec => []Completed
<1>1. Inv => Completed
  BY DEF Inv
<1> QED
  BY <1>1, InvCorrect, PTL

(* Every kill leaves at most one message more than there were.             *)
THEOREM OneCopyPerKillCorrect == ASSUME Late = {}, ~Hasty PROVE Spec => []OneCopyPerKill
<1>1. Inv => OneCopyPerKill
  BY DEF Inv
<1> QED
  BY <1>1, InvCorrect, PTL

-----------------------------------------------------------------------------
(* The order of the messages.                                              *)

(* Of two waiting messages the later never comes without the earlier       *)
(* before it, if s is handed out first and t behind it.                    *)
Ordered(s, t) ==
    \A i, j \in DOMAIN Waiting : i < j =>
        /\ \A q \in DOMAIN s : s[q] = Waiting[j] =>
              \E p \in DOMAIN s : p < q /\ s[p] = Waiting[i]
        /\ \A q \in DOMAIN t : t[q] = Waiting[j] =>
              \/ Waiting[i] \in Elements(s)
              \/ \E p \in DOMAIN t : p < q /\ t[p] = Waiting[i]

(* Copying the head of one queue to the end of the other keeps the order,  *)
(* as often as it is done.                                                 *)
LEMMA CopyKeepsOrder ==
    ASSUME NEW s \in Seq(Msg), NEW t \in Seq(Msg), t # << >>, Ordered(s, t)
    PROVE  Ordered(Append(s, Head(t)), t)
<1> DEFINE u == Append(s, Head(t))
<1>1. /\ Len(s) \in Nat /\ DOMAIN s = 1..Len(s) /\ DOMAIN u = 1..(Len(s) + 1)
      /\ \A q \in DOMAIN s : u[q] = s[q]
      /\ u[Len(s) + 1] = t[1] /\ 1 \in DOMAIN t /\ DOMAIN t \subseteq Nat \ {0}
  BY TailElements
<1>2. Elements(s) \subseteq Elements(u)
  BY <1>1 DEF Elements
<1>3. ASSUME NEW i \in DOMAIN Waiting, NEW j \in DOMAIN Waiting, i < j
      PROVE  /\ \A q \in DOMAIN u : u[q] = Waiting[j] =>
                   \E p \in DOMAIN u : p < q /\ u[p] = Waiting[i]
             /\ \A q \in DOMAIN t : t[q] = Waiting[j] =>
                   \/ Waiting[i] \in Elements(u)
                   \/ \E p \in DOMAIN t : p < q /\ t[p] = Waiting[i]
  <2>1. ASSUME NEW q \in DOMAIN s, u[q] = Waiting[j]
        PROVE  \E p \in DOMAIN u : p < q /\ u[p] = Waiting[i]
    <3>1. PICK p \in DOMAIN s : p < q /\ s[p] = Waiting[i]
      BY <1>1, <1>3, <2>1 DEF Ordered
    <3> QED BY <1>1, <3>1
  <2>2. ASSUME t[1] = Waiting[j]
        PROVE  \E p \in DOMAIN u : p < Len(s) + 1 /\ u[p] = Waiting[i]
    <3>1. \/ Waiting[i] \in Elements(s)
          \/ \E p \in DOMAIN t : p < 1 /\ t[p] = Waiting[i]
      BY <1>1, <1>3, <2>2 DEF Ordered
    <3>2. PICK p \in DOMAIN s : s[p] = Waiting[i]
      BY <1>1, <3>1 DEF Elements
    <3> QED BY <1>1, <3>2
  <2>3. \A q \in DOMAIN u : q \in DOMAIN s \/ q = Len(s) + 1
    BY <1>1
  <2>4. \A q \in DOMAIN t : t[q] = Waiting[j] =>
           \/ Waiting[i] \in Elements(u)
           \/ \E p \in DOMAIN t : p < q /\ t[p] = Waiting[i]
    BY <1>2, <1>3 DEF Ordered
  <2> QED BY <1>1, <2>1, <2>2, <2>3, <2>4
<1> QED BY <1>3 DEF Ordered

(* So does dropping the head once it has been copied.                      *)
LEMMA AckKeepsOrder ==
    ASSUME NEW s \in Seq(Msg), NEW t \in Seq(Msg), t # << >>, Head(t) \in Elements(s),
           Ordered(s, t)
    PROVE  Ordered(s, Tail(t))
<1> DEFINE u == Tail(t)
<1>1. /\ Len(t) \in Nat \ {0} /\ DOMAIN t = 1..Len(t) /\ DOMAIN u = 1..(Len(t) - 1)
      /\ \A q \in DOMAIN u : u[q] = t[q + 1]
      /\ Head(t) = t[1]
  OBVIOUS
<1>2. ASSUME NEW i \in DOMAIN Waiting, NEW j \in DOMAIN Waiting, i < j,
             NEW q \in DOMAIN u, u[q] = Waiting[j], Waiting[i] \notin Elements(s)
      PROVE  \E p \in DOMAIN u : p < q /\ u[p] = Waiting[i]
  <2>1. q + 1 \in DOMAIN t /\ t[q + 1] = Waiting[j]
    BY <1>1, <1>2
  <2>2. PICK p \in DOMAIN t : p < q + 1 /\ t[p] = Waiting[i]
    BY <1>2, <2>1 DEF Ordered
  <2>3. p # 1
    BY <1>1, <1>2, <2>2
  <2>4. p - 1 \in DOMAIN u /\ p - 1 < q /\ u[p - 1] = Waiting[i]
    BY <1>1, <2>2, <2>3
  <2> QED BY <2>4
<1> QED BY <1>2 DEF Ordered

(* With one of the queues empty it does not matter which is the first.     *)
LEMMA EmptyOrder ==
    ASSUME NEW s \in Seq(Msg)
    PROVE  Ordered(s, << >>) <=> Ordered(<< >>, s)
BY DEF Ordered, Elements

(* Waiting messages are in order.                                          *)
Distinct == \A i, j \in DOMAIN Waiting : Waiting[i] = Waiting[j] => i = j

LEMMA WaitingOrdered == Distinct => Ordered(Waiting, << >>)
<1>1. DOMAIN Waiting = 1..Len(Waiting)
  BY MigrateAssumption
<1> QED BY <1>1 DEF Distinct, Ordered

(* What is handed out first comes in order.                                *)
LEMMA OrderedInOrder ==
    ASSUME Distinct, content["queue"] \in Seq(Msg), Ordered(content["queue"], << >>),
           \A i \in DOMAIN Waiting : Has("queue", Waiting[i])
    PROVE  InOrder
<1> DEFINE s == content["queue"]
<1> SUFFICES ASSUME NEW i \in DOMAIN Waiting, NEW j \in DOMAIN Waiting, i < j
             PROVE  \E p \in DOMAIN s : /\ s[p] = Waiting[i]
                                        /\ \A r \in 1..p : s[r] # Waiting[j]
  BY DEF InOrder
<1>1. DOMAIN s = 1..Len(s) /\ Len(s) \in Nat
  OBVIOUS
<1> DEFINE At == {p \in DOMAIN s : s[p] = Waiting[i]}
<1>2. PICK p \in At : \A r \in At : p <= r
  <2>1. At # {} /\ At \subseteq Nat
    BY <1>1 DEF Has, Elements
  <2> HIDE DEF At
  <2>2. PICK p \in At : \A r \in At : ~(<<r, p>> \in OpToRel(<, Nat))
    BY <2>1, NatLessThanWellFounded, WFMin
  <2>3. \A r \in At : p <= r
    <3> TAKE r \in At
    <3>1. p \in Nat /\ r \in Nat /\ ~(r < p)
      BY <2>1, <2>2 DEF OpToRel
    <3> QED BY <3>1
  <2> QED BY <2>3
<1>3. ASSUME NEW r \in 1..p, s[r] = Waiting[j] PROVE FALSE
  <2>1. r \in DOMAIN s
    BY <1>1, <1>2
  <2>2. PICK q \in DOMAIN s : q < r /\ s[q] = Waiting[i]
    BY <1>3, <2>1 DEF Ordered
  <2> QED BY <1>1, <1>2, <1>3, <2>2
<1> QED BY <1>2, <1>3

(* What holds while every run is towards the type k: the queue that has    *)
(* that type comes first, and before that the temporary queue does.        *)
Towards(k) ==
    /\ goal \in {"none", k}
    /\ pc # "idle" => goal = k
    /\ Elements(Waiting) \subseteq taken
    /\ pc = "declare_temp" => kind["queue"] # k
    /\ pc \in Moving /\ way = "out" => kind["queue"] # k
    /\ kind["queue"] = k => Ordered(content["queue"], content["temp"])
    /\ kind["queue"] # k => Ordered(content["temp"], content["queue"])

LEMMA TowardsInit ==
    ASSUME Distinct, Init, NEW k \in Kind
    PROVE  Towards(k)
<1>1. /\ pc = "idle" /\ goal = "none" /\ taken = Elements(Waiting)
      /\ content["queue"] = Waiting /\ content["temp"] = << >>
  BY DEF Init
<1>2. Ordered(content["queue"], content["temp"]) /\ Ordered(content["temp"], content["queue"])
  BY <1>1, WaitingOrdered, EmptyOrder, MigrateAssumption
<1> QED BY <1>1, <1>2 DEF Towards, Moving

LEMMA TowardsStep ==
    ASSUME Late = {}, ~Hasty, Inv, NEW k \in Kind, Towards(k), goal' \in {"none", k}, [Next]_vars
    PROVE  Towards(k)'
<1>0. /\ TypeOK /\ Stage /\ Completed /\ k # "none"
      /\ content["queue"] \in Seq(Msg) /\ content["temp"] \in Seq(Msg)
      /\ DOMAIN kind = Name /\ DOMAIN content = Name
  BY DEF Inv, TypeOK, Name, Kind
<1>1. ASSUME NEW l \in Goals, Start(l) PROVE Towards(k)'
  <2>1. goal' = k /\ pc' = "declare" /\ UNCHANGED <<kind, content, way, taken>>
    BY <1>1, MigrateAssumption DEF Start, Kind
  <2> QED BY <2>1 DEF Towards, Moving
<1>2. ASSUME Declare("queue"), goal = k, UNCHANGED content
      PROVE  /\ kind'["queue"] = k => Ordered(content["queue"], content["temp"])
             /\ kind'["queue"] # k => Ordered(content["temp"], content["queue"])
  <2>1. CASE kind["queue"] = "none"
    <3>1. content["queue"] = << >> /\ Ordered(content["temp"], content["queue"])
      BY <1>0, <2>1 DEF Stage, Name, Towards
    <3>2. Ordered(content["queue"], content["temp"])
      BY <1>0, <3>1, EmptyOrder
    <3> QED BY <3>1, <3>2
  <2>2. CASE kind["queue"] # "none"
    BY <1>2, <2>2 DEF Declare, Towards
  <2> QED BY <2>1, <2>2
<1>3. CASE Survey /\ UNCHANGED hidden
  <2>1. /\ Declare("queue") /\ goal = k /\ UNCHANGED <<content, way, goal, taken>>
        /\ pc' \in {"declare_temp", "redeclare", "done"}
        /\ pc' = "declare_temp" => kind'["queue"] # k
    BY <1>3 DEF Survey, Towards
  <2> QED BY <1>2, <2>1 DEF Towards, Moving
<1>4. CASE DeclareTemp /\ UNCHANGED hidden
  <2>1. /\ kind'["queue"] = kind["queue"] /\ kind["queue"] # k /\ pc' = "get" /\ goal = k
        /\ UNCHANGED <<content, goal, taken>>
    BY <1>0, <1>4 DEF DeclareTemp, Declare, Towards, Name
  <2> QED BY <2>1 DEF Towards, Moving
<1>5. CASE (Copy \/ Ack) /\ UNCHANGED hidden
  <2>1. /\ pc \in Moving /\ pc' \in Moving /\ goal = k
        /\ UNCHANGED <<kind, way, goal, taken>> /\ content[Source] # << >>
        /\ way \in {"out", "back"}
    BY <1>0, <1>5 DEF Copy, Ack, Stage, Moving, Towards, TypeOK
  <2>2. ASSUME Ordered(content[Destination], content[Source])
        PROVE  Ordered(content'[Destination], content'[Source])
    <3>1. /\ Source \in Name /\ Destination \in Name /\ Source # Destination
          /\ content[Source] \in Seq(Msg) /\ content[Destination] \in Seq(Msg)
      BY <1>0, <2>1 DEF Source, Destination, Name
    <3>2. CASE Copy /\ UNCHANGED hidden
      <4>1. /\ content'[Source] = content[Source]
            /\ content'[Destination] = Append(content[Destination], Head(content[Source]))
        BY <1>0, <2>1, <3>1, <3>2, AtHead DEF Copy
      <4> QED BY <2>1, <2>2, <3>1, <4>1, CopyKeepsOrder
    <3>3. CASE Ack /\ UNCHANGED hidden
      <4>1. /\ content'[Source] = Tail(content[Source])
            /\ content'[Destination] = content[Destination]
        BY <1>0, <2>1, <3>1, <3>3, AtHead DEF Ack
      <4>2. Head(content[Source]) \in Elements(content[Destination])
        BY <1>0, <2>1, <3>3, AtHead DEF Ack, Stage, Has
      <4> QED BY <2>1, <2>2, <3>1, <4>1, <4>2, AckKeepsOrder
    <3> QED BY <1>5, <3>2, <3>3
  <2>3. CASE way = "out"
    <3>1. kind["queue"] # k /\ Source = "queue" /\ Destination = "temp"
      BY <2>1, <2>3 DEF Towards, Source, Destination
    <3>2. Ordered(content'["temp"], content'["queue"])
      BY <2>2, <3>1 DEF Towards
    <3> QED BY <2>1, <3>1, <3>2 DEF Towards, Moving
  <2>4. CASE way = "back"
    <3>1. kind["queue"] = k /\ Source = "temp" /\ Destination = "queue"
      BY <1>0, <2>1, <2>4 DEF Stage, Source, Destination
    <3>2. Ordered(content'["queue"], content'["temp"])
      BY <2>2, <3>1 DEF Towards
    <3> QED BY <2>1, <2>4, <3>1, <3>2 DEF Towards, Moving
  <2> QED BY <2>1, <2>3, <2>4
<1>6. CASE Fetch \/ Drained \/ Count \/ Kill \/ Notice
  <2>1. /\ UNCHANGED <<kind, content, way, goal, taken>>
        /\ pc' \in {pc, "idle"} \/ (pc \in Moving /\ pc' \in Moving)
    BY <1>6 DEF Fetch, Drained, Count, Kill, Notice, Moving
  <2> QED BY <2>1 DEF Towards, Moving
<1>7. CASE Delete
  <2>1. /\ content' = content /\ goal = k /\ UNCHANGED <<way, goal, taken>>
        /\ pc' \in {"redeclare", "done"}
    BY <1>0, <1>7 DEF Delete, Stage, Towards, TypeOK, Source, Name
  <2>2. kind'["queue"] = k <=> kind["queue"] = k
    BY <1>0, <1>7 DEF Delete, Towards, Stage, Source, Moving, Name, TypeOK
  <2> QED BY <2>1, <2>2 DEF Towards, Moving
<1>8. CASE Redeclare /\ UNCHANGED hidden
  <2>1. /\ Declare("queue") /\ goal = k /\ UNCHANGED <<content, goal, taken>>
        /\ pc' = "done" \/ (pc' = "get" /\ way' = "back")
    BY <1>8 DEF Redeclare, Towards
  <2> QED BY <1>2, <2>1 DEF Towards, Moving
<1>9. CASE UNCHANGED vars
  BY <1>9 DEF vars, Towards, Moving
<1> QED
  BY <1>1, <1>3, <1>4, <1>5, <1>6, <1>7, <1>8, <1>9 DEF Next, ToolStep

LEMMA TowardsInOrder ==
    ASSUME Distinct, Inv, NEW k \in Kind, Towards(k), pc = "done"
    PROVE  InOrder
<1>1. /\ kind["queue"] = k /\ content["temp"] = << >>
      /\ content["queue"] \in Seq(Msg)
  BY DEF Inv, Completed, Stage, TypeOK, Towards, Name
<1>2. Ordered(content["queue"], << >>)
  BY <1>1 DEF Towards
<1>3. ASSUME NEW i \in DOMAIN Waiting PROVE Has("queue", Waiting[i])
  <2>1. Waiting[i] \in taken
    BY DEF Towards, Elements
  <2>2. Elements(content["temp"]) = {}
    BY <1>1 DEF Elements
  <2> QED BY <2>1, <2>2 DEF Inv, NothingLost, Has
<1> QED BY <1>1, <1>2, <1>3, OrderedInOrder

(* However often the tool dies on the way to one type, it hands the        *)
(* messages on in the order in which they waited (migrate_queue_type.py,   *)
(* _move), for any number of different messages.                           *)
THEOREM OrderKeptCorrect ==
    ASSUME Late = {}, ~Hasty, Distinct
    PROVE  Spec => OrderKept
<1> SUFFICES ASSUME NEW k \in Kind
             PROVE  Spec => ([](goal \in {"none", k}) => [](pc = "done" => InOrder))
  BY DEF OrderKept
<1>1. Init => Towards(k)
  BY TowardsInit
<1>2. Inv /\ Towards(k) /\ (goal \in {"none", k})' /\ [Next]_vars => Towards(k)'
  BY TowardsStep
<1>3. Inv /\ Towards(k) => (pc = "done" => InOrder)
  BY TowardsInOrder
<1> QED BY <1>1, <1>2, <1>3, InvCorrect, PTL DEF Spec
=============================================================================
