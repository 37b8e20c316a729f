---------------------------- MODULE PromiseProofs ----------------------------
(***************************************************************************)
(* The pipeline keeps its promise: Pipeline implements Promise under the   *)
(* mapping of PromiseMap.                                                  *)
(***************************************************************************)
EXTENDS PromiseMap, PipelineProofs

-----------------------------------------------------------------------------
(* Routing and the mapping.                                                *)

(* A message enters its pipeline on exactly the branches it travels.       *)
LEMMA EntryTravels ==
    \A f \in Flow, b \in Branch : EntryQueue[f] \in BranchQueue(b) <=> b \in Travels[f]
BY DEF Flow, Branch, Travels, EntryQueue, BranchQueue, RemoteOnly, Queue, RelayQueue,
       P2Queue, P3Queue, P5Queue, P4Queue, P2Publishes, P3Publishes, P5Publishes

(* A publish never reaches a branch that its own queue does not serve.     *)
LEMMA PublishStaysOnBranch ==
    \A b \in Branch :
        /\ \A q \in RelayQueue :
               Downstream(q) \in BranchQueue(b) => q \in BranchQueue(b)
        /\ FanOutTo \in BranchQueue(b) => FanOutFrom \in BranchQueue(b)
BY DEF Branch, BranchQueue, RemoteOnly, Queue, RelayQueue, Downstream, FanOutTo,
       FanOutFrom, P2Queue, P3Queue, P5Queue, P4Queue, P2Publishes, P3Publishes,
       P5Publishes

(* P4's key names a branch that the queue serves, and no other.            *)
LEMMA KeyNamesBranch ==
    ASSUME NEW q \in P4Queue, NEW m \in Msg
    PROVE  \E b \in Branch : q \in BranchQueue(b) /\ KeyOf(q, m) = <<m, b>>
BY DEF P4Queue, Branch, BranchQueue, RemoteOnly, KeyOf, Queue

(* Something is known of a branch of a message exactly if it is present or *)
(* has an outcome: what the mapping calls open or closed.                  *)
LEMMA KeptIsKnown ==
    ASSUME NEW m \in Msg, NEW b \in Branch
    PROVE  /\ Kept(m, b, 1) <=> Present(m, b) \/ OutcomeOf(<<m, b>>) # {}
           /\ Kept(m, b, 1) <=> LifeOf(<<m, b>>) # "none"
<1>1. BranchQueue(b) \subseteq Queue
  BY BranchInQueue
<1>2. OutcomeOf(<<m, b>>) # {} <=>
          \/ <<m, b>> \in rows \cup skipped
          \/ b = "remote" /\ m \in unsynced
          \/ Rejected(m, b)
  BY DEF OutcomeOf
<1>3. (\E q \in BranchQueue(b) : Rank(q) >= 1 /\ CopyAt(q, m))
          <=> Present(m, b) \/ Rejected(m, b)
  BY <1>1, RankAtLeastOne DEF CopyAt, Present, PresentAt, Rejected
<1> QED
  BY <1>2, <1>3 DEF Kept, LifeOf

-----------------------------------------------------------------------------
(* A step is about one message.                                            *)

(* Nothing of any message but m changes.                                   *)
OnlyAbout(m) ==
    \A n \in Msg \ {m} :
        /\ \A q \in Queue :
               /\ ready'[q][n] = ready[q][n]
               /\ dead'[q][n] = dead[q][n]
               /\ <<q, n>> \in discarded' <=> <<q, n>> \in discarded
               /\ <<q, n>> \in purged' <=> <<q, n>> \in purged
        /\ \A v \in Worker : Holds(v, n)' <=> Holds(v, n)
        /\ \A b \in Branch :
               /\ <<n, b>> \in rows' <=> <<n, b>> \in rows
               /\ <<n, b>> \in skipped' <=> <<n, b>> \in skipped
        /\ n \in unsynced' <=> n \in unsynced

(* Then the mapping does not change for the others either.                 *)
LEMMA OthersUnchanged ==
    ASSUME NEW m \in Msg, OnlyAbout(m), NEW n \in Msg, n # m, NEW b \in Branch
    PROVE  /\ Present(n, b)' <=> Present(n, b)
           /\ OutcomeOf(<<n, b>>)' = OutcomeOf(<<n, b>>)
           /\ LifeOf(<<n, b>>)' = LifeOf(<<n, b>>)
<1>1. BranchQueue(b) \subseteq Queue
  BY BranchInQueue
<1>2. \A q \in BranchQueue(b) : PresentAt(q, n)' <=> PresentAt(q, n)
  BY <1>1 DEF OnlyAbout, PresentAt, Worker
<1>3. Present(n, b)' <=> Present(n, b)
  BY <1>2 DEF Present
<1>4. Rejected(n, b)' <=> Rejected(n, b)
  BY <1>1 DEF OnlyAbout, Rejected
<1>5. OutcomeOf(<<n, b>>)' = OutcomeOf(<<n, b>>)
  BY <1>4 DEF OnlyAbout, OutcomeOf
<1> QED
  BY <1>3, <1>5 DEF LifeOf

(* Put and Take change the copies of one message on one queue.             *)
LEMMA PutTakeElsewhere ==
    ASSUME NEW bag \in Bag, NEW q \in Queue, NEW m \in Msg,
           NEW p \in Queue, NEW n \in Msg, <<p, n>> # <<q, m>>
    PROVE  Put(bag, q, m)[p][n] = bag[p][n] /\ Take(bag, q, m)[p][n] = bag[p][n]
BY DEF Bag, Put, Take

(* The message a handler's step is about.                                  *)
Subject(w) == IF work[w].pc = "idle" THEN work'[w].msg ELSE work[w].msg

(* A handler's step changes copies and outcomes of that message only.      *)
LEMMA HandlerAboutSubject ==
    ASSUME TypeOK, NEW w \in Worker, HandlerStep(w) \/ FaultStep(w)
    PROVE  Subject(w) \in Msg /\ OnlyAbout(Subject(w))
<1>0. /\ WorkType /\ ready \in Bag /\ dead \in Bag /\ w[1] \in Queue
      /\ \A v \in Worker : v # w => work'[v] = work[v]
  BY OthersStay DEF TypeOK, BrokerType, Worker
<1>1. CASE \E n \in Msg : Deliver(w, n)
  <2>1. PICK n \in Msg : Deliver(w, n)
    BY <1>1
  <2>2. work'[w].msg = n /\ work[w].pc = "idle" /\ Subject(w) = n
    BY <1>0, <2>1 DEF Deliver, WorkType, Subject
  <2>3. \A q \in Queue, o \in Msg : o # n => ready'[q][o] = ready[q][o]
    BY <1>0, <2>1, PutTakeElsewhere DEF Deliver
  <2>4. \A v \in Worker, o \in Msg : o # n => (Holds(v, o)' <=> Holds(v, o))
    BY <1>0, <2>2 DEF Holds
  <2> QED
    BY <2>1, <2>2, <2>3, <2>4 DEF Deliver, OnlyAbout, stores, reports
<1>2. CASE ~\E n \in Msg : Deliver(w, n)
  <2> DEFINE m == work[w].msg
  <2>1. work[w].pc # "idle" /\ m \in Msg /\ Subject(w) = m
    <3>1. work[w].pc # "idle"
      BY <1>2
      DEF HandlerStep, RelayStep, Publish, FanOut, RefuseContent, PersistStep, Claim,
          FindDuplicate, ApplyDevice, AtDevice, InsertRow, RowCommitted, AtInsert,
          DatabaseRefuses, DatabaseRefusal, Notify, SettleStep, Ack, Nack, Abort,
          FaultStep, FanOutFails, Raise, ClaimReplyLost, InsertReplyLost,
          DatabaseError, Claiming, NotifyFails, LoseChannel, Crash
    <3> QED
      BY <1>0, <3>1 DEF WorkType, Subject
  <2>2. work'[w].msg = m \/ work'[w].pc = "idle"
    BY <1>0, <1>2
    DEF HandlerStep, RelayStep, Publish, FanOut, RefuseContent, PersistStep, Claim,
        FindDuplicate, ApplyDevice, InsertRow, DatabaseRefuses, Notify, SettleStep, Ack,
        Nack, Abort, FaultStep, FanOutFails, Raise, ClaimReplyLost, InsertReplyLost,
        DatabaseError, NotifyFails, LoseChannel, Crash, Goto, Finish, Idle, WorkType,
        Delivery
  <2>3. \A v \in Worker, n \in Msg : n # m => (Holds(v, n)' <=> Holds(v, n))
    BY <1>0, <2>2 DEF Holds
  <2>4. ready' = ready \/ \E q \in Queue : ready' = Put(ready, q, m)
    BY <1>0, <1>2, DownstreamInQueue, FanOutAdvances
    DEF HandlerStep, RelayStep, Publish, FanOut, RefuseContent, PersistStep, Claim,
        FindDuplicate, ApplyDevice, InsertRow, DatabaseRefuses, Notify, SettleStep, Ack,
        Nack, Abort, FaultStep, FanOutFails, Raise, ClaimReplyLost, InsertReplyLost,
        DatabaseError, NotifyFails, LoseChannel, Crash, broker
  <2>5. /\ dead' = dead \/ dead' = Put(dead, w[1], m)
        /\ discarded' = discarded \/ discarded' = discarded \cup {<<w[1], m>>}
        /\ purged' = purged
        /\ rows' = rows \/ rows' = rows \cup {WorkKey(w)}
        /\ skipped' = skipped \/ skipped' = skipped \cup {WorkKey(w)}
        /\ unsynced' = unsynced \/ unsynced' = unsynced \cup {m}
    BY <1>2
    DEF HandlerStep, RelayStep, Publish, FanOut, RefuseContent, PersistStep, Claim,
        FindDuplicate, ApplyDevice, InsertRow, RowCommitted, DatabaseRefuses, Notify,
        SettleStep, Ack, Nack, Abort, FaultStep, FanOutFails, Raise, ClaimReplyLost,
        InsertReplyLost, DatabaseError, NotifyFails, LoseChannel, Crash, broker,
        stores, reports
  <2>6. \A q \in Queue, n \in Msg : n # m =>
            ready'[q][n] = ready[q][n] /\ dead'[q][n] = dead[q][n]
    BY <1>0, <2>1, <2>4, <2>5, PutTakeElsewhere
  <2>7. \A n \in Msg, b \in Branch : n # m => WorkKey(w) # <<n, b>>
    BY DEF WorkKey, KeyOf
  <2> QED
    BY <2>1, <2>3, <2>5, <2>6, <2>7 DEF OnlyAbout
<1> QED
  BY <1>1, <1>2

-----------------------------------------------------------------------------
(* What a handler's step does to its message.                              *)

(* Copies come from copies on the same branch: no handler step makes a     *)
(* branch present that was not.                                            *)
LEMMA HandlerBringsNothingBack ==
    ASSUME TypeOK, LabelsInPlace, NEW w \in Worker, HandlerStep(w) \/ FaultStep(w),
           NEW m \in Msg, NEW b \in Branch, Present(m, b)'
    PROVE  Present(m, b)
<1>0. /\ WorkType /\ ready \in Bag /\ dead \in Bag /\ w[1] \in Queue
      /\ w = <<w[1], w[2]>> /\ w[2] \in Slot
      /\ BranchQueue(b) \subseteq Queue
      /\ \A v \in Worker : v # w => work'[v] = work[v]
  BY BranchInQueue, OthersStay DEF TypeOK, BrokerType, Worker
<1>1. PICK q \in BranchQueue(b) : PresentAt(q, m)'
  BY DEF Present
<1>2. ASSUME Holds(w, m), w[1] \in BranchQueue(b) PROVE Present(m, b)
  BY <1>0, <1>2 DEF Present, PresentAt
<1>3. CASE ready'[q][m] > 0
  <2>1. ASSUME NEW p \in Queue, NEW n \in Msg, ready' = Put(ready, p, n),
               n = m /\ p = q => Present(m, b)
        PROVE  Present(m, b)
    <3>1. CASE n = m /\ p = q
      BY <2>1, <3>1
    <3>2. CASE ~(n = m /\ p = q)
      <4>1. ready[q][m] > 0
        BY <1>0, <1>3, <2>1, <3>2, PutTakeElsewhere
      <4> QED
        BY <4>1 DEF Present, PresentAt
    <3> QED
      BY <3>1, <3>2
  <2>2. CASE ready' = ready
    BY <1>3, <2>2 DEF Present, PresentAt
  <2>3. ASSUME NEW n \in Msg, Deliver(w, n) PROVE Present(m, b)
    <3>1. ready[q][m] > 0
      <4>1. CASE n = m /\ w[1] = q
        BY <2>3, <4>1 DEF Deliver
      <4>2. CASE ~(n = m /\ w[1] = q)
        BY <1>0, <1>3, <2>3, <4>2, PutTakeElsewhere DEF Deliver
      <4> QED
        BY <4>1, <4>2
    <3> QED
      BY <3>1 DEF Present, PresentAt
  <2>4. CASE Publish(w) \/ FanOut(w) \/ LoseChannel(w) \/ Crash(w)
    <3>1. work[w].pc # "idle" /\ work[w].msg \in Msg
      BY <1>0, <2>4 DEF Publish, FanOut, LoseChannel, Crash, WorkType
    <3>2. CASE Publish(w)
      <4>1. /\ w[1] \in RelayQueue /\ Downstream(w[1]) \in Queue
            /\ ready' = Put(ready, Downstream(w[1]), work[w].msg)
            /\ work[w].pc \notin {"idle", "acked"} /\ work[w].live
        BY <3>2, DownstreamInQueue DEF Publish
      <4>2. work[w].msg = m /\ Downstream(w[1]) = q => Present(m, b)
        BY <1>2, <4>1, PublishStaysOnBranch DEF Holds
      <4> QED
        BY <2>1, <3>1, <4>1, <4>2
    <3>3. CASE FanOut(w)
      <4>1. /\ w[1] = FanOutFrom /\ FanOutTo \in Queue
            /\ ready' = Put(ready, FanOutTo, work[w].msg)
            /\ work[w].pc \notin {"idle", "acked"} /\ work[w].live
        BY <3>3, FanOutAdvances DEF FanOut, LabelsInPlace
      <4>2. work[w].msg = m /\ FanOutTo = q => Present(m, b)
        BY <1>2, <4>1, PublishStaysOnBranch DEF Holds
      <4> QED
        BY <2>1, <3>1, <4>1, <4>2
    <3>4. CASE LoseChannel(w) \/ Crash(w)
      <4>1. \/ ready' = ready
            \/ /\ ready' = Put(ready, w[1], work[w].msg)
               /\ work[w].pc \notin {"idle", "acked"} /\ work[w].live
        BY <3>4 DEF LoseChannel, Crash
      <4>2. CASE ready' = Put(ready, w[1], work[w].msg) /\ ready' # ready
        <5>1. work[w].msg = m /\ w[1] = q => Present(m, b)
          BY <1>1, <1>2, <4>1, <4>2 DEF Holds
        <5> QED
          BY <1>0, <2>1, <3>1, <4>2, <5>1
      <4> QED
        BY <2>2, <4>1, <4>2
    <3> QED
      BY <2>4, <3>2, <3>3, <3>4
  <2> QED
    BY <2>2, <2>3, <2>4
    DEF HandlerStep, RelayStep, RefuseContent, PersistStep, Claim, FindDuplicate,
        ApplyDevice, InsertRow, DatabaseRefuses, Notify, SettleStep, Ack, Nack, Abort,
        FaultStep, FanOutFails, Raise, ClaimReplyLost, InsertReplyLost, DatabaseError,
        NotifyFails, broker
<1>4. CASE dead'[q][m] > 0
  <2>1. CASE Nack(w)
    <3>1. work[w].pc \notin {"idle", "acked"} /\ work[w].live /\ work[w].msg \in Msg
      BY <1>0, <2>1 DEF Nack, WorkType
    <3>2. dead' = dead \/ dead' = Put(dead, w[1], work[w].msg)
      BY <2>1 DEF Nack
    <3>3. CASE w[1] = q /\ work[w].msg = m
      BY <1>1, <1>2, <3>1, <3>3 DEF Holds
    <3>4. CASE ~(w[1] = q /\ work[w].msg = m)
      <4>1. dead[q][m] > 0
        BY <1>0, <1>4, <3>1, <3>2, <3>4, PutTakeElsewhere
      <4> QED
        BY <4>1 DEF Present, PresentAt
    <3> QED
      BY <3>3, <3>4
  <2>2. CASE ~Nack(w)
    <3>1. dead' = dead
      BY <2>2
      DEF HandlerStep, Deliver, RelayStep, Publish, FanOut, RefuseContent, PersistStep,
          Claim, FindDuplicate, ApplyDevice, InsertRow, DatabaseRefuses, Notify,
          SettleStep, Ack, Abort, FaultStep, FanOutFails, Raise, ClaimReplyLost,
          InsertReplyLost, DatabaseError, NotifyFails, LoseChannel, Crash, broker
    <3> QED
      BY <1>4, <3>1 DEF Present, PresentAt
  <2> QED
    BY <2>1, <2>2
<1>5. ASSUME NEW s \in Slot, Holds(<<q, s>>, m)' PROVE Present(m, b)
  <2> DEFINE v == <<q, s>>
  <2>1. CASE v # w
    <3>1. Holds(v, m)
      BY <1>0, <1>5, <2>1 DEF Holds, Worker
    <3> QED
      BY <3>1 DEF Present, PresentAt
  <2>2. CASE v = w /\ \E n \in Msg : Deliver(w, n)
    <3>1. ready[q][m] > 0
      BY <1>0, <1>5, <2>2 DEF Deliver, Holds, WorkType
    <3> QED
      BY <3>1 DEF Present, PresentAt
  <2>3. CASE v = w /\ ~\E n \in Msg : Deliver(w, n)
    <3>1. Holds(w, m)
      BY <1>0, <1>5, <2>3
      DEF HandlerStep, RelayStep, Publish, FanOut, RefuseContent, PersistStep, Claim,
          FindDuplicate, ApplyDevice, AtDevice, InsertRow, RowCommitted, AtInsert,
          DatabaseRefuses, DatabaseRefusal, Notify, SettleStep, Ack, Nack, Abort,
          FaultStep, FanOutFails, Raise, ClaimReplyLost, InsertReplyLost,
          DatabaseError, Claiming, NotifyFails, LoseChannel, Crash, Goto, Finish, Idle,
          WorkType, Delivery, Holds
    <3> QED
      BY <2>3, <3>1 DEF Present, PresentAt
  <2> QED
    BY <2>1, <2>2, <2>3
<1> QED
  BY <1>1, <1>3, <1>4, <1>5 DEF PresentAt

(* Branches B of m, known already, come to outcome o; no other does.       *)
Adds(m, B, o) ==
    /\ \A b \in B : Kept(m, b, 1)
    /\ \A b \in Branch : OutcomeOf(<<m, b>>)' =
          IF b \in B THEN OutcomeOf(<<m, b>>) \cup {o} ELSE OutcomeOf(<<m, b>>)

(* The outcomes a handler's step adds are of one kind and of its message.  *)
LEMMA HandlerOutcome ==
    ASSUME TypeOK, LabelsInPlace, Traced, NEW w \in Worker,
           HandlerStep(w) \/ FaultStep(w), NEW m \in Msg, m = Subject(w)
    PROVE  \E B \in SUBSET Branch, o \in {"stored", "skipped", "unsynced", "rejected"} :
               Adds(m, B, o)
<1>0. /\ WorkType /\ w[1] \in Queue /\ Branch = {"direct", "remote"}
      /\ \A b \in Branch : BranchQueue(b) \subseteq Queue
  BY BranchInQueue DEF TypeOK, Worker, Branch
<1>1. CASE InsertRow(w) \/ InsertReplyLost(w) \/ (Ack(w) /\ work[w].pc = "duplicate")
  <2>1. work[w].pc # "idle" /\ work[w].msg = m
    BY <1>1 DEF InsertRow, InsertReplyLost, RowCommitted, AtInsert, Ack, Subject
  <2>2. w[1] \in P4Queue
    BY <1>1 DEF LabelsInPlace, Claiming, InsertRow, InsertReplyLost, RowCommitted,
                AtInsert, Ack
  <2>3. PICK b \in Branch : w[1] \in BranchQueue(b) /\ WorkKey(w) = <<m, b>>
    BY <2>1, <2>2, KeyNamesBranch DEF WorkKey
  <2>4. Kept(m, b, 1)
    BY <2>1, <2>3 DEF Traced
  <2>5. CASE InsertRow(w) \/ InsertReplyLost(w)
    <3>1. /\ rows' = rows \cup {<<m, b>>}
          /\ UNCHANGED <<skipped, unsynced, discarded, purged>>
      BY <2>3, <2>5 DEF InsertRow, InsertReplyLost, RowCommitted, broker, reports
    <3>2. \A c \in Branch : OutcomeOf(<<m, c>>)' =
              IF c \in {b} THEN OutcomeOf(<<m, c>>) \cup {"stored"}
                           ELSE OutcomeOf(<<m, c>>)
      BY <3>1 DEF OutcomeOf, Rejected
    <3>3. Adds(m, {b}, "stored")
      BY <2>4, <3>2 DEF Adds
    <3> QED
      BY <3>3
  <2>6. CASE Ack(w) /\ work[w].pc = "duplicate"
    <3>1. /\ skipped' = skipped \cup {<<m, b>>}
          /\ UNCHANGED <<rows, unsynced, discarded, purged>>
      BY <2>3, <2>6 DEF Ack, broker, stores
    <3>2. \A c \in Branch : OutcomeOf(<<m, c>>)' =
              IF c \in {b} THEN OutcomeOf(<<m, c>>) \cup {"skipped"}
                           ELSE OutcomeOf(<<m, c>>)
      BY <3>1 DEF OutcomeOf, Rejected
    <3>3. Adds(m, {b}, "skipped")
      BY <2>4, <3>2 DEF Adds
    <3> QED
      BY <3>3
  <2> QED
    BY <1>1, <2>5, <2>6
<1>2. CASE FanOutFails(w)
  <2>1. work[w].msg = m /\ w[1] = FanOutFrom /\ work[w].pc # "idle"
    BY <1>2 DEF FanOutFails, LabelsInPlace, Subject
  <2>2. FanOutFrom \in BranchQueue("remote")
    BY FanOutAdvances, PublishStaysOnBranch, <1>0
  <2>3. Kept(m, "remote", 1)
    BY <1>0, <2>1, <2>2 DEF Traced
  <2>4. Adds(m, {"remote"}, "unsynced")
    BY <1>2, <2>1, <2>3 DEF Adds, FanOutFails, OutcomeOf, Rejected, broker, stores
  <2> QED
    BY <1>0, <2>4
<1>3. CASE Nack(w) /\ discarded' # discarded
  <2> DEFINE B == {b \in Branch : w[1] \in BranchQueue(b)}
  <2>1. /\ work[w].msg = m /\ work[w].pc # "idle"
        /\ discarded' = discarded \cup {<<w[1], m>>}
    BY <1>3 DEF Nack, Subject
  <2>2. \A b \in B : Kept(m, b, 1)
    BY <2>1 DEF Traced
  <2>3. \A c \in Branch : Rejected(m, c)' <=> Rejected(m, c) \/ c \in B
    BY <1>3, <2>1 DEF Nack, Rejected
  <2>4. Adds(m, B, "rejected")
    BY <1>3, <2>2, <2>3 DEF Adds, Nack, OutcomeOf, stores, reports
  <2> QED
    BY <2>4
<1>4. CASE UNCHANGED <<rows, skipped, unsynced, discarded, purged>>
  <2>1. Adds(m, {}, "stored")
    BY <1>4 DEF Adds, OutcomeOf, Rejected
  <2> QED
    BY <2>1
<1> QED
  BY <1>1, <1>2, <1>3, <1>4
  DEF HandlerStep, Deliver, RelayStep, Publish, FanOut, RefuseContent, PersistStep,
      Claim, FindDuplicate, ApplyDevice, DatabaseRefuses, Notify, SettleStep, Ack, Nack,
      Abort, FaultStep, Raise, ClaimReplyLost, DatabaseError, NotifyFails, LoseChannel,
      Crash, broker, stores, reports

-----------------------------------------------------------------------------
(* The operator and the client.                                            *)

(* So does a step of the operator, which puts back what was dead-lettered. *)
LEMMA OperatorAbout ==
    ASSUME TypeOK, NEW q \in Queue, NEW m \in Msg, OperatorStep(q, m)
    PROVE  /\ OnlyAbout(m)
           /\ \A b \in Branch : Present(m, b)' => Present(m, b)
           /\ \A b \in Branch : q \in BranchQueue(b) => Present(m, b)
           /\ \E B \in SUBSET Branch : Adds(m, B, "rejected")
<1>0. /\ ready \in Bag /\ dead \in Bag /\ dead[q][m] > 0
      /\ \A b \in Branch : BranchQueue(b) \subseteq Queue
  BY BranchInQueue DEF TypeOK, BrokerType, OperatorStep, Replay, ReplayCrash, Purge
<1>1. /\ \A p \in Queue, n \in Msg : <<p, n>> # <<q, m>> =>
              ready'[p][n] = ready[p][n] /\ dead'[p][n] = dead[p][n]
      /\ work' = work /\ discarded' = discarded
      /\ purged' = IF Purge(q, m) THEN purged \cup {<<q, m>>} ELSE purged
      /\ UNCHANGED <<rows, skipped, unsynced>>
  BY <1>0, PutTakeElsewhere
  DEF OperatorStep, Replay, ReplayCrash, Purge, stores, reports
<1>2. \A b \in Branch : q \in BranchQueue(b) => Present(m, b)
  BY <1>0 DEF Present, PresentAt
<1>3. \A p \in Queue : PresentAt(p, m)' => p = q \/ PresentAt(p, m)
  BY <1>0, <1>1 DEF PresentAt, Holds
<1>4. \A b \in Branch : Present(m, b)' => Present(m, b)
  BY <1>0, <1>2, <1>3 DEF Present
<1>5. OnlyAbout(m)
  BY <1>1 DEF OnlyAbout, Holds
<1>6. \A b \in Branch : Rejected(m, b)' <=>
          Rejected(m, b) \/ (Purge(q, m) /\ q \in BranchQueue(b))
  BY <1>1 DEF Rejected
<1>7. \E B \in SUBSET Branch : Adds(m, B, "rejected")
  <2> DEFINE B == {b \in Branch : Purge(q, m) /\ q \in BranchQueue(b)}
  <2>1. \A b \in B : Kept(m, b, 1)
    BY <1>2, KeptIsKnown
  <2>2. Adds(m, B, "rejected")
    BY <1>1, <1>6, <2>1 DEF Adds, OutcomeOf
  <2> QED
    BY <2>2
<1> QED
  BY <1>2, <1>4, <1>5, <1>7

(* A client's step is about its new message, which enters on the branches  *)
(* it travels or not at all.                                               *)
LEMMA ClientAbout ==
    ASSUME TypeOK, Unasked, NEW m \in Msg, NEW f \in Offered, NEW c \in Content,
           Submit(m, f, c) \/ SubmitFails(m, f, c)
    PROVE  /\ OnlyAbout(m)
           /\ \A b \in Branch : ~Kept(m, b, 1)
           /\ \A b \in Branch : OutcomeOf(<<m, b>>)' = OutcomeOf(<<m, b>>)
           /\ \/ SubmitFails(m, f, c) /\ \A b \in Branch : ~Present(m, b)'
              \/ \A b \in Branch : Present(m, b)' <=> b \in Travels[f]
<1>0. /\ ready \in Bag /\ f \in Flow /\ EntryQueue[f] \in Queue
      /\ \A b \in Branch : BranchQueue(b) \subseteq Queue
  BY BranchInQueue, EntryOnBranches, PipelineAssumption DEF TypeOK, BrokerType
<1>1. req[m].flow = 0 /\ UNCHANGED <<dead, work, discarded, purged, stores, reports>>
  BY DEF Submit, SubmitFails
<1>2. \A b \in Branch : ~Kept(m, b, 1)
  BY <1>1 DEF Unasked
<1>3. \A b \in Branch : ~Present(m, b)
  BY <1>2, KeptIsKnown
<1>4. \A b \in Branch : OutcomeOf(<<m, b>>)' = OutcomeOf(<<m, b>>)
  BY <1>1 DEF OutcomeOf, Rejected, stores, reports
<1>5. CASE ready' = ready
  <2>1. OnlyAbout(m)
    BY <1>1, <1>5 DEF OnlyAbout, Holds, stores, reports
  <2>2. \A b \in Branch : ~Present(m, b)'
    BY <1>1, <1>3, <1>5 DEF Present, PresentAt, Holds
  <2>3. SubmitFails(m, f, c)
    <3>1. Submit(m, f, c) => ready' = Put(ready, EntryQueue[f], m)
      BY DEF Submit
    <3>2. Put(ready, EntryQueue[f], m) # ready
      BY <1>0 DEF Put, Bag
    <3> QED
      BY <1>5, <3>1, <3>2
  <2> QED
    BY <1>2, <1>4, <2>1, <2>2, <2>3
<1>6. CASE ready' = Put(ready, EntryQueue[f], m)
  <2>1. OnlyAbout(m)
    BY <1>0, <1>1, <1>6, PutTakeElsewhere DEF OnlyAbout, Holds, stores, reports
  <2>2. ready'[EntryQueue[f]][m] > 0
    BY <1>0, <1>6, PutType
  <2>3. \A q \in Queue : PresentAt(q, m)' <=> q = EntryQueue[f] \/ PresentAt(q, m)
    BY <1>0, <1>1, <1>6, <2>2, PutTakeElsewhere DEF PresentAt, Holds
  <2>4. \A b \in Branch : Present(m, b)' <=> b \in Travels[f]
    BY <1>0, <1>3, <2>3, EntryTravels DEF Present
  <2> QED
    BY <1>2, <1>4, <2>1, <2>4
<1> QED
  BY <1>5, <1>6 DEF Submit, SubmitFails

-----------------------------------------------------------------------------
(* The strengthened invariant.                                             *)

(* Nobody has asked for anything in the first state.                       *)
LEMMA LinkedInit == Init => Traced /\ Unasked
<1> SUFFICES ASSUME Init PROVE Traced /\ Unasked
  OBVIOUS
<1>1. Traced
  BY DEF Init, Traced, Idle
<1>2. ASSUME NEW m \in Msg, NEW b \in Branch PROVE ~Kept(m, b, 1)
  <2>1. \A q \in Queue : ~CopyAt(q, m)
    <3>1. \A q \in Queue, t \in Slot : ~Holds(<<q, t>>, m)
      BY DEF Init, Holds, Worker, Idle
    <3>2. \A q \in Queue : ~(ready[q][m] > 0) /\ ~(dead[q][m] > 0)
      BY DEF Init
    <3>3. discarded = {} /\ purged = {}
      BY DEF Init
    <3> QED
      BY <3>1, <3>2, <3>3 DEF CopyAt
  <2> QED
    BY <2>1, BranchInQueue DEF Init, Kept
<1> QED
  BY <1>1, <1>2 DEF Unasked

(* A handler's message stays present, or with an outcome, while it works.  *)
LEMMA TracedStep == Inv /\ Traced /\ [Next]_vars => Traced'
<1> SUFFICES ASSUME Inv, Traced, [Next]_vars, NEW v \in Worker, NEW b \in Branch,
                    work'[v].pc # "idle", v[1] \in BranchQueue(b),
                    NEW m \in Msg, work'[v].msg = m
             PROVE  Kept(m, b, 1)'
  <2>1. Inv /\ [Next]_vars => WorkType'
    BY TypeStep DEF Inv, TypeOK
  <2> QED
    BY <2>1 DEF Traced, WorkType
<1>0. /\ TypeOK /\ WorkType /\ LabelsInPlace /\ ForwardedFirst /\ AckedIsStored
      /\ v[1] \in Queue
  BY DEF Inv, TypeOK, Worker
<1>1. CASE work[v].pc # "idle" /\ work[v].msg = m
  <2>1. Kept(m, b, 1)
    BY <1>1 DEF Traced
  <2> QED
    BY <1>0, <2>1, KeptStays
<1>2. ASSUME NEW n \in Msg, Deliver(v, n) PROVE Kept(m, b, 1)'
  <2>1. n = m
    BY <1>0, <1>2 DEF Deliver, WorkType
  <2>2. Kept(m, b, 1)
    BY <1>0, <1>2, <2>1, RankAtLeastOne DEF Deliver, Kept, CopyAt
  <2> QED
    BY <1>0, <2>2, KeptStays
<1>3. CASE work'[v] = work[v]
  BY <1>1, <1>3
<1>4. CASE (HandlerStep(v) \/ FaultStep(v)) /\ ~\E n \in Msg : Deliver(v, n)
  <2>1. work[v].pc # "idle" /\ work'[v].msg = work[v].msg
    BY <1>0, <1>4
    DEF HandlerStep, RelayStep, Publish, FanOut, RefuseContent, PersistStep, Claim,
        FindDuplicate, ApplyDevice, AtDevice, InsertRow, RowCommitted, AtInsert,
        DatabaseRefuses, DatabaseRefusal, Notify, SettleStep, Ack, Nack, Abort,
        FaultStep, FanOutFails, Raise, ClaimReplyLost, InsertReplyLost, DatabaseError,
        Claiming, NotifyFails, LoseChannel, Crash, Goto, Finish, Idle, WorkType, Delivery
  <2> QED
    BY <1>1, <2>1
<1>5. ASSUME NEW w \in Worker, HandlerStep(w) \/ FaultStep(w), v # w
      PROVE  Kept(m, b, 1)'
  BY <1>0, <1>3, <1>5, OthersStay
<1> QED
  BY <1>2, <1>3, <1>4, <1>5
  DEF Next, ClientStep, Submit, SubmitFails, Reap, OperatorStep, Replay, ReplayCrash,
      Purge, vars

(* Nothing comes to be known of a message that no client sent.             *)
LEMMA UnaskedStep ==
    Inv /\ Traced /\ Unasked /\ [Next]_vars => Unasked'
<1> SUFFICES ASSUME Inv, Traced, Unasked, [Next]_vars, NEW m \in Msg, NEW b \in Branch,
                    req'[m].flow = 0, Kept(m, b, 1)'
             PROVE  FALSE
  BY DEF Unasked
<1>0. /\ TypeOK /\ WorkType /\ LabelsInPlace
      /\ \A q \in Queue : \E c \in Branch : q \in BranchQueue(c)
      /\ \A w \in Worker : w[1] \in Queue
  BY DEF Inv, TypeOK, Branch, BranchQueue, Worker
<1>1. req[m].flow = 0
  BY <1>0 DEF Next, ClientStep, Submit, SubmitFails, HandlerStep, Deliver, RelayStep,
      Publish, FanOut, RefuseContent, PersistStep, Claim, FindDuplicate, ApplyDevice,
      InsertRow, DatabaseRefuses, Notify, SettleStep, Ack, Nack, Abort, FaultStep,
      FanOutFails, Raise, ClaimReplyLost, InsertReplyLost, DatabaseError, NotifyFails,
      LoseChannel, Crash, Reap, OperatorStep, Replay, ReplayCrash, Purge, vars, TypeOK,
      PipelineAssumption, Flow, Request
<1>2. \A c \in Branch : ~Kept(m, c, 1)
  BY <1>1 DEF Unasked
<1>3. Present(m, b)' \/ OutcomeOf(<<m, b>>)' # {}
  <2>1. \A c \in Branch : BranchQueue(c) \subseteq Queue
    BY BranchInQueue
  <2> QED
    BY <2>1, RankAtLeastOne DEF Kept, CopyAt, Present, PresentAt, OutcomeOf, Rejected
<1>4. ~Present(m, b) /\ OutcomeOf(<<m, b>>) = {}
  BY <1>2, KeptIsKnown
<1>5. ASSUME NEW n \in Msg, n # m, OnlyAbout(n) PROVE FALSE
  BY <1>3, <1>4, <1>5, OthersUnchanged
<1>6. ASSUME NEW n \in Msg, ClientStep(n) PROVE FALSE
  <2>1. PICK f \in Offered, c \in Content : Submit(n, f, c) \/ SubmitFails(n, f, c)
    BY <1>6 DEF ClientStep
  <2>2. n # m
    BY <1>0, <2>1, PipelineAssumption DEF Submit, SubmitFails, Flow, TypeOK, Request
  <2> QED
    BY <1>0, <1>5, <2>1, <2>2, ClientAbout
<1>7. ASSUME NEW w \in Worker, HandlerStep(w) \/ FaultStep(w) PROVE FALSE
  <2>1. Subject(w) \in Msg /\ OnlyAbout(Subject(w))
    BY <1>0, <1>7, HandlerAboutSubject
  <2>2. PICK c \in Branch : w[1] \in BranchQueue(c)
    BY <1>0
  <2>3. CASE Subject(w) = m
    <3>1. Kept(m, c, 1)
      <4>1. CASE work[w].pc # "idle"
        BY <2>2, <2>3, <4>1 DEF Traced, Subject
      <4>2. CASE work[w].pc = "idle"
        <5>1. PICK n \in Msg : Deliver(w, n)
          BY <1>7, <4>2
          DEF HandlerStep, RelayStep, Publish, FanOut, RefuseContent, PersistStep, Claim,
              FindDuplicate, ApplyDevice, AtDevice, InsertRow, RowCommitted, AtInsert,
              DatabaseRefuses, DatabaseRefusal, Notify, SettleStep, Ack, Nack, Abort,
              FaultStep, FanOutFails, Raise, ClaimReplyLost, InsertReplyLost,
              DatabaseError, Claiming, NotifyFails, LoseChannel, Crash
        <5>2. n = m
          BY <1>0, <2>3, <4>2, <5>1 DEF Deliver, Subject, WorkType
        <5> QED
          BY <1>0, <2>2, <5>1, <5>2, RankAtLeastOne DEF Deliver, Kept, CopyAt
      <4> QED
        BY <4>1, <4>2
    <3> QED
      BY <1>2, <3>1
  <2> QED
    BY <1>5, <2>1, <2>3
<1>8. ASSUME NEW q \in Queue, NEW n \in Msg, OperatorStep(q, n) PROVE FALSE
  <2>1. n # m
    BY <1>0, <1>2, <1>8, OperatorAbout, KeptIsKnown
  <2> QED
    BY <1>0, <1>5, <1>8, <2>1, OperatorAbout
<1>9. CASE UNCHANGED <<broker, work, rows, skipped, unsynced>>
  BY <1>3, <1>4, <1>9 DEF Present, PresentAt, Holds, OutcomeOf, Rejected, broker
<1> QED
  BY <1>6, <1>7, <1>8, <1>9 DEF Next, Reap, vars, reports, stores

-----------------------------------------------------------------------------
(* Every step of the pipeline is a step of Promise or a stutter.           *)

(* Something known of a message is open or closed, after the step too.     *)
LEMMA KeptIsKnownNext ==
    ASSUME NEW m \in Msg, NEW b \in Branch
    PROVE  Kept(m, b, 1)' <=> Present(m, b)' \/ OutcomeOf(<<m, b>>)' # {}
<1>1. BranchQueue(b) \subseteq Queue
  BY BranchInQueue
<1>2. OutcomeOf(<<m, b>>)' # {} <=>
          \/ <<m, b>> \in (rows \cup skipped)'
          \/ b = "remote" /\ m \in unsynced'
          \/ Rejected(m, b)'
  BY DEF OutcomeOf
<1>3. (\E q \in BranchQueue(b) : Rank(q) >= 1 /\ CopyAt(q, m)')
          <=> Present(m, b)' \/ Rejected(m, b)'
  BY <1>1, RankAtLeastOne DEF CopyAt, Present, PresentAt, Rejected
<1> QED
  BY <1>2, <1>3 DEF Kept

(* A step about one message that adds outcomes of one kind, brings nothing *)
(* back and loses track of nothing settles some of its branches.           *)
LEMMA Bookkeeping ==
    ASSUME NEW m \in Msg, NEW B \in SUBSET Branch,
           NEW o \in {"stored", "skipped", "unsynced", "rejected"},
           OnlyAbout(m), Adds(m, B, o),
           \A b \in Branch : Present(m, b)' => Present(m, b),
           \A b \in Branch : Kept(m, b, 1) => Kept(m, b, 1)',
           Answer' = Answer, notified' = notified
    PROVE  Abstract!Next
<1> DEFINE C == {b \in Branch : Present(m, b) /\ ~Present(m, b)'}
<1>1. \A b \in B \cup C : Kept(m, b, 1) /\ LifeOf(<<m, b>>) # "none"
  BY KeptIsKnown DEF Adds
<1>2. \A b \in C : OutcomeOf(<<m, b>>)' # {}
  BY <1>1, KeptIsKnownNext
<1>3. \A k \in Key : OutcomeOf(k)' =
          IF k \in {m} \X B THEN OutcomeOf(k) \cup {o} ELSE OutcomeOf(k)
  <2> SUFFICES ASSUME NEW k \in Key
               PROVE  OutcomeOf(k)' =
                          IF k \in {m} \X B THEN OutcomeOf(k) \cup {o} ELSE OutcomeOf(k)
    OBVIOUS
  <2>0. PICK n \in Msg, b \in Branch : k = <<n, b>>
    BY DEF Key
  <2>1. CASE n = m
    <3>1. k \in {m} \X B <=> b \in B
      BY <2>0, <2>1
    <3> QED
      BY <2>0, <2>1, <3>1 DEF Adds
  <2>2. CASE n # m
    <3>1. k \notin {m} \X B
      BY <2>0, <2>2
    <3> QED
      BY <2>0, <2>2, <3>1, OthersUnchanged
  <2> QED
    BY <2>1, <2>2
<1>4. \A k \in Key : LifeOf(k)' = IF k \in {m} \X C THEN "closed" ELSE LifeOf(k)
  <2> SUFFICES ASSUME NEW n \in Msg, NEW b \in Branch
               PROVE  LifeOf(<<n, b>>)' =
                          IF n = m /\ b \in C THEN "closed" ELSE LifeOf(<<n, b>>)
    BY DEF Key
  <2>1. CASE n # m
    BY <2>1, OthersUnchanged
  <2>2. CASE n = m /\ b \in C
    BY <1>2, <2>2 DEF LifeOf
  <2>3. CASE n = m /\ b \notin C
    <3>1. Present(m, b)' <=> Present(m, b)
      BY <2>3
    <3>2. ~Present(m, b) => (OutcomeOf(<<m, b>>)' # {} <=> OutcomeOf(<<m, b>>) # {})
      BY KeptIsKnown DEF Adds
    <3> QED
      BY <2>3, <3>1, <3>2 DEF LifeOf
  <2> QED
    BY <2>1, <2>2, <2>3
<1>5. Abstract!Settle(m, B, o, C)
  <2>1. \A b \in B \cup C : <<m, b>> \in Key
    BY DEF Key
  <2>2. /\ \A b \in B \cup C : Life[<<m, b>>] # "none"
        /\ \A b \in C : Outcomes'[<<m, b>>] # {}
    BY <1>1, <1>2, <2>1 DEF Life, Outcomes
  <2>3. Outcomes' = [k \in Key |->
                        IF k \in {m} \X B THEN Outcomes[k] \cup {o} ELSE Outcomes[k]]
    BY <1>3 DEF Outcomes
  <2>4. Life' = [k \in Key |-> IF k \in {m} \X C THEN "closed" ELSE Life[k]]
    BY <1>4 DEF Life
  <2> QED
    BY <2>2, <2>3, <2>4 DEF Abstract!Settle, Abstract!Obligation, Key
<1> QED
  BY <1>5 DEF Abstract!Next, Abstract!Outcome

(* Clients are answered once, when they ask.                               *)
LEMMA UnansweredStep ==
    ASSUME TypeOK, Unanswered, [Next]_vars
    PROVE  Unanswered'
<1>1. req \in [Msg -> Request] /\ \A f \in Offered : f # 0
  BY PipelineAssumption DEF TypeOK, Flow
<1>2. CASE \E m \in Msg : ClientStep(m)
  <2>1. PICK m \in Msg, f \in Offered, a \in Content, r \in {"ok", "error"} :
            req' = [req EXCEPT ![m] = [flow |-> f, content |-> a, reply |-> r]]
    BY <1>2 DEF ClientStep, Submit, SubmitFails
  <2> QED
    BY <1>1, <2>1 DEF Unanswered
<1>3. CASE req' = req
  BY <1>3 DEF Unanswered
<1> QED
  BY <1>2, <1>3
  DEF Next, HandlerStep, Deliver, RelayStep, Publish, FanOut, RefuseContent, PersistStep,
      Claim, FindDuplicate, ApplyDevice, InsertRow, DatabaseRefuses, Notify, SettleStep,
      Ack, Nack, Abort, FaultStep, FanOutFails, Raise, ClaimReplyLost, InsertReplyLost,
      DatabaseError, NotifyFails, LoseChannel, Crash, Reap, OperatorStep, Replay,
      ReplayCrash, Purge, vars

(* The invariant the mapping rests on is kept by every step.               *)
LEMMA LinkedStep == Linked /\ [Next]_vars => Linked'
<1>1. Inv /\ [Next]_vars => Inv'
  BY TypeStep, LabelsStep, LedgerStep, AckedStep, BarrierStep, ForwardedStep,
     SilentLossStep
  DEF Inv
<1>2. Inv => TypeOK
  BY DEF Inv
<1> QED
  BY <1>1, <1>2, TracedStep, UnaskedStep, UnansweredStep DEF Linked

(* A client's step takes a message or declines it.                         *)
LEMMA ClientAbstract ==
    ASSUME Linked, NEW m \in Msg, ClientStep(m)
    PROVE  Abstract!Next
<1>0. TypeOK /\ Unasked /\ Unanswered /\ Offered \subseteq Flow
  BY PipelineAssumption DEF Linked, Inv
<1>1. PICK f \in Offered, a \in Content : Submit(m, f, a) \/ SubmitFails(m, f, a)
  BY DEF ClientStep
<1>2. /\ OnlyAbout(m)
      /\ \A b \in Branch : ~Kept(m, b, 1)
      /\ \A b \in Branch : OutcomeOf(<<m, b>>)' = OutcomeOf(<<m, b>>)
      /\ \/ SubmitFails(m, f, a) /\ \A b \in Branch : ~Present(m, b)'
         \/ \A b \in Branch : Present(m, b)' <=> b \in Travels[f]
  BY <1>0, <1>1, ClientAbout
<1>3. /\ Answer[m] = "none" /\ notified' = notified
      /\ Answer' = [Answer EXCEPT ![m] =
                        IF Submit(m, f, a) THEN "ok" ELSE "error"]
  <2>1. req[m].flow = 0 /\ notified' = notified
    BY <1>1 DEF Submit, SubmitFails, reports
  <2>2. req' = [req EXCEPT ![m] = [flow |-> f, content |-> a, reply |->
                    IF Submit(m, f, a) THEN "ok" ELSE "error"]]
    BY <1>1 DEF Submit, SubmitFails
  <2>3. \A n \in Msg : req'[n].reply =
            IF n = m THEN IF Submit(m, f, a) THEN "ok" ELSE "error" ELSE req[n].reply
    BY <1>0, <2>2 DEF TypeOK
  <2> QED
    BY <1>0, <2>1, <2>3 DEF Answer, Unanswered
<1>4. \A b \in Branch : LifeOf(<<m, b>>) = "none" /\ OutcomeOf(<<m, b>>)' = {}
  BY <1>2, KeptIsKnown
<1>5. Outcomes' = Outcomes
  <2>1. ASSUME NEW k \in Key PROVE OutcomeOf(k)' = OutcomeOf(k)
    <3>1. PICK n \in Msg, b \in Branch : k = <<n, b>>
      BY DEF Key
    <3> QED
      BY <1>2, <3>1, OthersUnchanged
  <2> QED
    BY <2>1 DEF Outcomes
<1>6. ASSUME NEW k \in Key
      PROVE  LifeOf(k)' = IF k[1] = m THEN IF Present(m, k[2])' THEN "open" ELSE "none"
                                      ELSE LifeOf(k)
  <2>1. PICK n \in Msg, b \in Branch : k = <<n, b>>
    BY DEF Key
  <2>2. CASE n = m
    BY <1>4, <2>1, <2>2 DEF LifeOf
  <2>3. CASE n # m
    BY <1>2, <2>1, <2>3, OthersUnchanged
  <2> QED
    BY <2>1, <2>2, <2>3
<1>7. CASE SubmitFails(m, f, a) /\ \A b \in Branch : ~Present(m, b)'
  <2>1. ASSUME NEW k \in Key PROVE LifeOf(k)' = LifeOf(k)
    BY <1>4, <1>6, <1>7 DEF Key
  <2>2. Life' = Life
    BY <2>1 DEF Life
  <2>3. ~Submit(m, f, a)
    BY <1>0, <1>7 DEF Submit, SubmitFails, TypeOK
  <2>4. Abstract!Decline(m, f)
    BY <1>3, <1>5, <2>2, <2>3 DEF Abstract!Decline
  <2> QED
    BY <1>0, <2>4 DEF Abstract!Next
<1>8. CASE \A b \in Branch : Present(m, b)' <=> b \in Travels[f]
  <2>1. ASSUME NEW k \in Key
        PROVE  LifeOf(k)' = IF k \in {m} \X Travels[f] THEN "open" ELSE LifeOf(k)
    <3>1. PICK n \in Msg, b \in Branch : k = <<n, b>>
      BY DEF Key
    <3>2. k \in {m} \X Travels[f] <=> n = m /\ b \in Travels[f]
      BY <3>1
    <3> QED
      BY <1>4, <1>6, <1>8, <3>1, <3>2
  <2>2. Abstract!Open(m, f)
    BY <2>1 DEF Life, Abstract!Open, Abstract!Obligation, Key
  <2>3. Abstract!Accept(m, f) \/ Abstract!Decline(m, f)
    BY <1>3, <1>5, <2>2 DEF Abstract!Accept, Abstract!Decline
  <2> QED
    BY <1>0, <2>3 DEF Abstract!Next
<1> QED
  BY <1>2, <1>7, <1>8

(* Announcing an event changes nothing that the mapping looks at.          *)
LEMMA NotifyAbstract ==
    ASSUME Linked, NEW w \in Worker, Notify(w)
    PROVE  Abstract!Next
<1>0. WorkType /\ AckedIsStored /\ work[w].pc = "acked" /\ work[w].msg \in Msg
  BY DEF Linked, Inv, TypeOK, WorkType, Notify
<1>1. WorkKey(w) \in Key /\ WorkKey(w) \in rows
  BY <1>0, KeyType DEF AckedIsStored
<1>2. /\ req' = req /\ notified' = notified \cup {WorkKey(w)}
      /\ UNCHANGED <<ready, dead, discarded, purged, rows, skipped, unsynced>>
  BY DEF Notify, broker, stores
<1>3. \A v \in Worker, m \in Msg : Holds(v, m)' <=> Holds(v, m)
  BY <1>0 DEF Notify, Finish, Idle, Holds, WorkType
<1>4. ASSUME NEW m \in Msg, NEW b \in Branch
      PROVE  /\ OutcomeOf(<<m, b>>)' = OutcomeOf(<<m, b>>)
             /\ LifeOf(<<m, b>>)' = LifeOf(<<m, b>>)
  <2>1. BranchQueue(b) \subseteq Queue
    BY BranchInQueue
  <2>2. Present(m, b)' <=> Present(m, b)
    BY <1>2, <1>3, <2>1 DEF Present, PresentAt, Worker
  <2>3. OutcomeOf(<<m, b>>)' = OutcomeOf(<<m, b>>)
    BY <1>2 DEF OutcomeOf, Rejected
  <2> QED
    BY <2>2, <2>3 DEF LifeOf
<1>5. \A k \in Key : OutcomeOf(k)' = OutcomeOf(k) /\ LifeOf(k)' = LifeOf(k)
  <2> SUFFICES ASSUME NEW k \in Key
               PROVE  OutcomeOf(k)' = OutcomeOf(k) /\ LifeOf(k)' = LifeOf(k)
    OBVIOUS
  <2>1. PICK m \in Msg, b \in Branch : k = <<m, b>>
    BY DEF Key
  <2> QED
    BY <1>4, <2>1
<1>6. Abstract!Announce(WorkKey(w))
  <2>1. Answer' = Answer
    BY <1>2 DEF Answer
  <2>2. Outcomes' = Outcomes /\ Life' = Life
    BY <1>5 DEF Outcomes, Life
  <2>3. "stored" \in Outcomes[WorkKey(w)]
    BY <1>1 DEF Outcomes, OutcomeOf
  <2> QED
    BY <1>2, <2>1, <2>2, <2>3 DEF Abstract!Announce
<1> QED
  BY <1>1, <1>6 DEF Abstract!Next, Abstract!Obligation, Key

(* Any other step of a handler, and any step of the operator, settles some *)
(* branches of one message.                                                *)
LEMMA HandlerAbstract ==
    ASSUME Linked, [Next]_vars, NEW w \in Worker, HandlerStep(w) \/ FaultStep(w)
    PROVE  Abstract!Next
<1>0. TypeOK /\ LabelsInPlace /\ ForwardedFirst /\ AckedIsStored /\ Traced
  BY DEF Linked, Inv
<1>1. CASE Notify(w)
  BY <1>1, NotifyAbstract
<1>2. CASE ~Notify(w)
  <2>1. req' = req /\ notified' = notified
    BY <1>2
    DEF HandlerStep, Deliver, RelayStep, Publish, FanOut, RefuseContent, PersistStep,
        Claim, FindDuplicate, ApplyDevice, InsertRow, DatabaseRefuses, SettleStep, Ack,
        Nack, Abort, FaultStep, FanOutFails, Raise, ClaimReplyLost, InsertReplyLost,
        DatabaseError, NotifyFails, LoseChannel, Crash, reports
  <2>2. Answer' = Answer
    BY <2>1 DEF Answer
  <2>3. PICK m \in Msg : m = Subject(w) /\ OnlyAbout(m)
    BY <1>0, HandlerAboutSubject
  <2>4. PICK B \in SUBSET Branch, o \in {"stored", "skipped", "unsynced", "rejected"} :
            Adds(m, B, o)
    BY <1>0, <2>3, HandlerOutcome
  <2>5. \A b \in Branch : Present(m, b)' => Present(m, b)
    BY <1>0, HandlerBringsNothingBack
  <2>6. \A b \in Branch : Kept(m, b, 1) => Kept(m, b, 1)'
    BY <1>0, KeptStays
  <2> QED
    BY <2>1, <2>2, <2>3, <2>4, <2>5, <2>6, Bookkeeping
<1> QED
  BY <1>1, <1>2

(* The operator's replay, its crash and its purge settle branches too.     *)
LEMMA OperatorAbstract ==
    ASSUME Linked, [Next]_vars, NEW q \in Queue, NEW m \in Msg, OperatorStep(q, m)
    PROVE  Abstract!Next
<1>0. TypeOK /\ LabelsInPlace /\ ForwardedFirst /\ AckedIsStored
  BY DEF Linked, Inv
<1>1. Answer' = Answer /\ notified' = notified
  BY DEF OperatorStep, Replay, ReplayCrash, Purge, reports, Answer
<1>2. OnlyAbout(m) /\ \A b \in Branch : Present(m, b)' => Present(m, b)
  BY <1>0, OperatorAbout
<1>3. PICK B \in SUBSET Branch : Adds(m, B, "rejected")
  BY <1>0, OperatorAbout
<1>4. \A b \in Branch : Kept(m, b, 1) => Kept(m, b, 1)'
  BY <1>0, KeptStays
<1> QED
  BY <1>1, <1>2, <1>3, <1>4, Bookkeeping

(* The reaper, and a step that changes nothing, are stutters.              *)
LEMMA StutterAbstract ==
    ASSUME UNCHANGED <<req, broker, work, rows, reports>>
    PROVE  UNCHANGED Abstract!vars
<1>1. UNCHANGED <<req, ready, dead, discarded, purged, work, rows, skipped, unsynced,
                  notified>>
  BY DEF broker, reports
<1>2. \A k \in Key : OutcomeOf(k)' = OutcomeOf(k) /\ LifeOf(k)' = LifeOf(k)
  BY <1>1 DEF OutcomeOf, Rejected, LifeOf, Present, PresentAt, Holds
<1> QED
  BY <1>1, <1>2 DEF Abstract!vars, Answer, Life, Outcomes

-----------------------------------------------------------------------------
(* The pipeline implements Promise, for every set of messages and slots,   *)
(* with or without the dead-letter policy and under any number of faults:  *)
(* whatever the handlers, the reaper and the operator do, a branch of a    *)
(* message once taken is closed only on an outcome on record, is never     *)
(* opened again, and is announced only when stored.                        *)
THEOREM PromiseKept == Spec => KeepsPromise
<1>1. Init => Abstract!Init
  <2> SUFFICES ASSUME Init PROVE Abstract!Init
    OBVIOUS
  <2>1. \A m \in Msg, b \in Branch :
            LifeOf(<<m, b>>) = "none" /\ OutcomeOf(<<m, b>>) = {}
    <3>1. \A m \in Msg, b \in Branch : ~Kept(m, b, 1)
      BY LinkedInit DEF Unasked, Init
    <3> QED
      BY <3>1, KeptIsKnown
  <2>2. \A k \in Key : LifeOf(k) = "none" /\ OutcomeOf(k) = {}
    BY <2>1 DEF Key
  <2> QED
    BY <2>2 DEF Abstract!Init, Abstract!Obligation, Answer, Life, Outcomes, Init, Key
<1>2. Init => Linked
  BY TypeInit, LabelsInit, LedgerInit, AckedInit, BarrierInit, ForwardedInit, LinkedInit
  DEF Inv, Linked, Init, Unanswered
<1>3. Linked /\ [Next]_vars => Linked'
  BY LinkedStep
<1>4. Linked /\ [Next]_vars => [Abstract!Next]_(Abstract!vars)
  <2> SUFFICES ASSUME Linked, [Next]_vars
               PROVE  Abstract!Next \/ UNCHANGED Abstract!vars
    OBVIOUS
  <2>1. CASE \E m \in Msg : ClientStep(m)
    BY <2>1, ClientAbstract
  <2>2. CASE \E w \in Worker : HandlerStep(w) \/ FaultStep(w)
    BY <2>2, HandlerAbstract
  <2>3. CASE \E q \in Queue, m \in Msg : OperatorStep(q, m)
    BY <2>3, OperatorAbstract
  <2>4. CASE (\E k \in Key : Reap(k)) \/ UNCHANGED vars
    <3>1. UNCHANGED <<req, broker, work, rows, reports>>
      BY <2>4 DEF Reap, vars, stores
    <3> QED
      BY <3>1, StutterAbstract
  <2> QED
    BY <2>1, <2>2, <2>3, <2>4 DEF Next
<1> QED
  BY <1>1, <1>2, <1>3, <1>4, PTL DEF KeepsPromise, Abstract!Spec, Spec
=============================================================================
