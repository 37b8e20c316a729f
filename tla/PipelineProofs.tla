--------------------------- MODULE PipelineProofs ---------------------------
(***************************************************************************)
(* Proofs about Pipeline, for every set of messages, every number of       *)
(* consumers per queue and every fault and replay budget.                  *)
(***************************************************************************)
EXTENDS Pipeline, TLAPS

-----------------------------------------------------------------------------
(* The routing tables.                                                     *)

(* Every relay publishes to a pipeline queue.                              *)
LEMMA DownstreamInQueue == \A q \in RelayQueue : Downstream(q) \in Queue
BY DEF RelayQueue, Queue, P2Queue, P3Queue, P5Queue, P4Queue, Downstream,
       P2Publishes, P3Publishes, P5Publishes

(* So does P1, on every branch the flow has.                               *)
LEMMA EntryOnBranches ==
    \A f \in Flow :
        /\ EntryQueue[f] \in Queue
        /\ EntryQueue[f] \in BranchQueue("direct")
        /\ f = 6 => EntryQueue[f] \in BranchQueue("remote")
BY DEF Flow, EntryQueue, Queue, RelayQueue, P2Queue, P3Queue, P5Queue, P4Queue,
       P2Publishes, P3Publishes, P5Publishes, BranchQueue, RemoteOnly

(* A relay publishes to a queue further along each branch it serves; on    *)
(* the remote branch of flow 6, P3 does so with its second publish.        *)
LEMMA PublishAdvances ==
    \A q \in RelayQueue, b \in Branch :
        q \in BranchQueue(b) /\ ~(q = FanOutFrom /\ b = "remote") =>
            /\ Downstream(q) \in BranchQueue(b)
            /\ Rank(Downstream(q)) >= Rank(q) + 1
BY DEF RelayQueue, P2Queue, P3Queue, P5Queue, P4Queue, Queue, Downstream,
       P2Publishes, P3Publishes, P5Publishes, Branch, BranchQueue, RemoteOnly,
       FanOutFrom, FanOutTo, Rank

(* P3's second publish of flow 6 goes further along the remote branch.     *)
LEMMA FanOutAdvances ==
    /\ FanOutTo \in Queue
    /\ FanOutTo \in BranchQueue("remote")
    /\ Rank(FanOutTo) >= Rank(FanOutFrom) + 1
BY DEF Queue, RelayQueue, P2Queue, P3Queue, P5Queue, P4Queue, P2Publishes,
       P3Publishes, P5Publishes, BranchQueue, RemoteOnly, FanOutFrom, FanOutTo,
       Rank

(* Ranks are positive numbers.                                             *)
LEMMA RankAtLeastOne == \A q \in Queue : Rank(q) \in Nat /\ Rank(q) >= 1
BY DEF Rank

(* The queues of a branch are pipeline queues.                             *)
LEMMA BranchInQueue == \A b \in Branch : BranchQueue(b) \subseteq Queue
BY DEF Branch, BranchQueue, RemoteOnly, Queue, RelayQueue, P2Queue, P3Queue, P5Queue,
       P4Queue, P2Publishes, P3Publishes, P5Publishes

(* P4's key for a message is that of the branch its queue ends.            *)
LEMMA KeyOfBranch ==
    \A q \in P4Queue, b \in Branch, m \in Msg :
        q \in BranchQueue(b) => KeyOf(q, m) = <<m, b>>
BY DEF P4Queue, Branch, BranchQueue, RemoteOnly, KeyOf

-----------------------------------------------------------------------------
(* What the helpers that move copies and handlers do.                      *)

(* A queue stays a bag when a copy is added ...                            *)
LEMMA PutType ==
    ASSUME NEW bag \in Bag, NEW q \in Queue, NEW m \in Msg
    PROVE  /\ Put(bag, q, m) \in Bag
           /\ \A p \in Queue, n \in Msg : Put(bag, q, m)[p][n] >= bag[p][n]
           /\ Put(bag, q, m)[q][m] > 0
BY DEF Bag, Put

(* ... and when one of its copies is taken.                                *)
LEMMA TakeType ==
    ASSUME NEW bag \in Bag, NEW q \in Queue, NEW m \in Msg, bag[q][m] > 0
    PROVE  /\ Take(bag, q, m) \in Bag
           /\ \A p \in Queue, n \in Msg :
                  <<p, n>> # <<q, m>> => Take(bag, q, m)[p][n] = bag[p][n]
BY DEF Bag, Take

(* Goto moves one busy handler to a label and leaves everything else.      *)
LEMMA GotoEffect ==
    ASSUME WorkType, NEW w \in Worker, work[w].pc # "idle", NEW l \in Label,
           Goto(w, l)
    PROVE  /\ WorkType'
           /\ work'[w].pc = l
           /\ work'[w].msg = work[w].msg
           /\ work'[w].live = work[w].live
           /\ \A v \in Worker : v # w => work'[v] = work[v]
BY DEF WorkType, Goto, Delivery

(* Finish makes one handler idle.                                          *)
LEMMA FinishEffect ==
    ASSUME WorkType, NEW w \in Worker, Finish(w)
    PROVE  /\ WorkType'
           /\ work'[w] = Idle
           /\ \A v \in Worker : v # w => work'[v] = work[v]
BY DEF WorkType, Finish, Delivery, Idle, Label

(* A step of one handler leaves the deliveries of the others alone.        *)
LEMMA OthersStay ==
    ASSUME WorkType, NEW w \in Worker, HandlerStep(w) \/ FaultStep(w),
           NEW v \in Worker, v # w
    PROVE  work'[v] = work[v]
BY DEF HandlerStep, Deliver, RelayStep, Publish, FanOut, RefuseContent, PersistStep,
       Claim, FindDuplicate, ApplyDevice, InsertRow, DatabaseRefuses, Notify, SettleStep,
       Ack, Nack, Abort, FaultStep, FanOutFails, Raise, ClaimReplyLost,
       InsertReplyLost, DatabaseError, NotifyFails, LoseChannel, Crash, Goto, Finish,
       WorkType

(* The dedup key P4 works on is one.                                       *)
LEMMA KeyType == \A w \in Worker : work[w].msg \in Msg => WorkKey(w) \in Key
BY DEF WorkKey, KeyOf, Key, Branch

-----------------------------------------------------------------------------
(* Type correctness.                                                       *)

(* The first state is well typed.                                          *)
LEMMA TypeInit == Init => TypeOK
BY PipelineAssumption
   DEF Init, TypeOK, BrokerType, WorkType, StoresType, ReportsType, Bag, Idle,
       Request, Content, Delivery, Label

(* Every step of a handler, a client, the reaper or the operator keeps the *)
(* types.                                                                  *)
LEMMA TypeStep == TypeOK /\ [Next]_vars => TypeOK'
<1> SUFFICES ASSUME TypeOK, [Next]_vars PROVE TypeOK'
  OBVIOUS
<1> USE DEF TypeOK
<1>1. ASSUME NEW m \in Msg, ClientStep(m) PROVE TypeOK'
  <2>1. PICK f \in Offered, c \in Content : Submit(m, f, c) \/ SubmitFails(m, f, c)
    BY <1>1 DEF ClientStep
  <2>2. f \in Flow /\ EntryQueue[f] \in Queue
    BY PipelineAssumption, EntryOnBranches
  <2>3. Put(ready, EntryQueue[f], m) \in Bag
    BY <2>2, PutType DEF BrokerType
  <2> QED
    BY <2>1, <2>2, <2>3
    DEF Submit, SubmitFails, Fault, BrokerType, WorkType, StoresType, ReportsType,
        Request, Flow, stores, reports, history
<1>2. ASSUME NEW w \in Worker, NEW m \in Msg, Deliver(w, m) PROVE TypeOK'
  <2>1. w[1] \in Queue
    BY DEF Worker
  <2>2. Take(ready, w[1], m) \in Bag
    BY <1>2, <2>1, TakeType DEF Deliver, BrokerType
  <2>3. WorkType'
    BY <1>2 DEF Deliver, WorkType, Delivery, Label
  <2> QED
    BY <1>2, <2>2, <2>3
    DEF Deliver, BrokerType, StoresType, ReportsType, stores, reports, history
<1>3. ASSUME NEW w \in Worker, RelayStep(w) \/ FanOutFails(w) PROVE TypeOK'
  <2>0. work[w].pc # "idle" /\ work[w].msg \in Msg
    BY <1>3 DEF RelayStep, Publish, FanOut, FanOutFails, RefuseContent, WorkType
  <2>1. CASE Publish(w)
    <3>1. Downstream(w[1]) \in Queue
      BY <2>1, DownstreamInQueue DEF Publish
    <3>2. Put(ready, Downstream(w[1]), work[w].msg) \in Bag
      BY <2>0, <3>1, PutType DEF BrokerType
    <3>3. WorkType'
      <4> DEFINE l == IF w[1] = FanOutFrom THEN "half" ELSE "published"
      <4>1. l \in Label /\ Goto(w, l)
        BY <2>1 DEF Publish, Label
      <4> QED
        BY <2>0, <4>1, GotoEffect
    <3> QED
      BY <2>1, <3>2, <3>3
      DEF Publish, BrokerType, StoresType, ReportsType, stores, reports, history
  <2>2. CASE FanOut(w)
    <3>1. Put(ready, FanOutTo, work[w].msg) \in Bag
      BY <2>0, FanOutAdvances, PutType DEF BrokerType
    <3>2. WorkType'
      BY <2>0, <2>2, GotoEffect DEF FanOut, Label
    <3> QED
      BY <2>2, <3>1, <3>2
      DEF FanOut, BrokerType, StoresType, ReportsType, stores, reports, history
  <2>3. CASE FanOutFails(w) \/ RefuseContent(w)
    <3>1. WorkType'
      BY <2>0, <2>3, GotoEffect DEF FanOutFails, RefuseContent, Label
    <3> QED
      BY <2>0, <2>3, <3>1
      DEF FanOutFails, RefuseContent, Fault, BrokerType, StoresType, ReportsType,
          broker, stores, reports, history
  <2> QED
    BY <1>3, <2>1, <2>2, <2>3 DEF RelayStep
<1>4. ASSUME NEW w \in Worker,
             Raise(w) \/ Claim(w) \/ ClaimReplyLost(w) \/ FindDuplicate(w) \/ ApplyDevice(w)
      PROVE  TypeOK'
  <2>1. work[w].pc # "idle"
    BY <1>4 DEF Raise, Claim, ClaimReplyLost, FindDuplicate, ApplyDevice, AtDevice
  <2>2. WorkKey(w) \in Key
    BY <2>1, KeyType DEF WorkType
  <2>3. WorkType'
    BY <1>4, <2>1, GotoEffect
    DEF Raise, Claim, ClaimReplyLost, FindDuplicate, ApplyDevice, Label
  <2> QED
    BY <1>4, <2>2, <2>3
    DEF Raise, Claim, ClaimReplyLost, FindDuplicate, ApplyDevice, Fault, BrokerType,
        StoresType, ReportsType, broker, stores, reports, history
<1>5. ASSUME NEW w \in Worker,
             InsertRow(w) \/ InsertReplyLost(w) \/ DatabaseRefuses(w) \/ DatabaseError(w)
      PROVE  TypeOK'
  <2>1. work[w].pc # "idle"
    BY <1>5 DEF InsertRow, InsertReplyLost, DatabaseRefuses, DatabaseError, RowCommitted,
                AtInsert, AtDevice, DatabaseRefusal, Claiming
  <2>2. WorkKey(w) \in Key
    BY <2>1, KeyType DEF WorkType
  <2>3. WorkType'
    BY <1>5, <2>1, GotoEffect
    DEF InsertRow, InsertReplyLost, DatabaseRefuses, DatabaseError, Label
  <2> QED
    BY <1>5, <2>2, <2>3
    DEF InsertRow, InsertReplyLost, DatabaseRefuses, DatabaseError, RowCommitted, Fault,
        BrokerType, StoresType, ReportsType, broker, stores, reports, history
<1>6. ASSUME NEW w \in Worker,
             Notify(w) \/ NotifyFails(w) \/ SettleStep(w) \/ LoseChannel(w) \/ Crash(w)
      PROVE  TypeOK'
  <2>0. w[1] \in Queue /\ work[w].pc # "idle" /\ work[w].msg \in Msg /\ WorkKey(w) \in Key
    BY <1>6, KeyType
    DEF Worker, Notify, NotifyFails, SettleStep, Ack, Nack, Abort, LoseChannel, Crash,
        WorkType
  <2>1. CASE Notify(w) \/ NotifyFails(w) \/ Abort(w)
    <3>1. WorkType'
      BY <2>1, FinishEffect DEF Notify, NotifyFails, Abort
    <3> QED
      BY <2>0, <2>1, <3>1
      DEF Notify, NotifyFails, Abort, Fault, BrokerType, StoresType, ReportsType,
          broker, stores, reports, history
  <2>2. CASE Ack(w)
    <3>1. WorkType'
      BY <2>0, <2>2, FinishEffect, GotoEffect DEF Ack, Label
    <3> QED
      BY <2>0, <2>2, <3>1
      DEF Ack, BrokerType, StoresType, ReportsType, broker, stores, reports, history
  <2>3. CASE Nack(w)
    <3>1. WorkType'
      BY <2>3, FinishEffect DEF Nack
    <3>2. Put(dead, w[1], work[w].msg) \in Bag
      BY <2>0, PutType DEF BrokerType
    <3> QED
      BY <2>0, <2>3, <3>1, <3>2
      DEF Nack, BrokerType, StoresType, ReportsType, stores, reports, history
  <2>4. CASE LoseChannel(w) \/ Crash(w)
    <3>1. WorkType'
      BY <2>4, FinishEffect DEF LoseChannel, Crash, WorkType, Delivery
    <3>2. Put(ready, w[1], work[w].msg) \in Bag
      BY <2>0, PutType DEF BrokerType
    <3> QED
      BY <2>0, <2>4, <3>1, <3>2
      DEF LoseChannel, Crash, Fault, BrokerType, StoresType, ReportsType, stores,
          reports, history
  <2> QED
    BY <1>6, <2>1, <2>2, <2>3, <2>4 DEF SettleStep
<1>7. ASSUME NEW k \in Key, Reap(k) PROVE TypeOK'
  BY <1>7 DEF Reap, BrokerType, WorkType, StoresType, ReportsType, broker, reports
<1>8. ASSUME NEW q \in Queue, NEW m \in Msg, OperatorStep(q, m) PROVE TypeOK'
  <2>1. dead[q][m] > 0
    BY <1>8 DEF OperatorStep, Replay, ReplayCrash, Purge
  <2>2. Put(ready, q, m) \in Bag /\ Take(dead, q, m) \in Bag
    BY <2>1, PutType, TakeType DEF BrokerType
  <2> QED
    BY <1>8, <2>2
    DEF OperatorStep, Replay, ReplayCrash, Purge, Fault, BrokerType, WorkType,
        StoresType, ReportsType, stores, reports, history
<1>9. CASE UNCHANGED vars
  BY <1>9 DEF vars, BrokerType, WorkType, StoresType, ReportsType, broker, stores,
              reports, history
<1> QED
  BY <1>1, <1>2, <1>3, <1>4, <1>5, <1>6, <1>7, <1>8, <1>9
  DEF Next, HandlerStep, FaultStep, RelayStep, PersistStep

(* Every reachable state of the pipeline is well typed, and a consumer     *)
(* that handles a delivery holds a message.                                *)
THEOREM TypeCorrect == Spec => []TypeOK
BY TypeInit, TypeStep, PTL DEF Spec

-----------------------------------------------------------------------------
(* Which handlers reach which labels.                                      *)

(* No handler is anywhere in the first state.                              *)
LEMMA LabelsInit == Init => LabelsInPlace
BY DEF Init, LabelsInPlace, Idle, Claiming

(* Relays stay out of P4's labels and P4 out of theirs.                    *)
LEMMA LabelsStep == TypeOK /\ LabelsInPlace /\ [Next]_vars => LabelsInPlace'
<1> SUFFICES ASSUME TypeOK, LabelsInPlace, [Next]_vars PROVE LabelsInPlace'
  OBVIOUS
<1>0. WorkType
  BY DEF TypeOK
<1>1. ASSUME NEW w \in Worker, NEW m \in Msg, Deliver(w, m) PROVE LabelsInPlace'
  BY <1>0, <1>1 DEF Deliver, LabelsInPlace, WorkType, Delivery, Claiming
<1>2. ASSUME NEW w \in Worker, RelayStep(w) \/ FanOutFails(w) \/ Raise(w)
      PROVE  LabelsInPlace'
  <2>1. work[w].pc # "idle"
    BY <1>2 DEF RelayStep, Publish, FanOut, FanOutFails, RefuseContent, Raise
  <2>2. PICK new \in {"half", "published", "raised"} :
            Goto(w, new) /\ (new = "half" => w[1] = FanOutFrom)
    BY <1>2 DEF RelayStep, Publish, FanOut, FanOutFails, RefuseContent, Raise
  <2> QED
    BY <1>0, <2>1, <2>2, GotoEffect DEF LabelsInPlace, Claiming, Label
<1>3. ASSUME NEW w \in Worker,
             Claim(w) \/ ClaimReplyLost(w) \/ FindDuplicate(w) \/ ApplyDevice(w)
               \/ InsertRow(w) \/ InsertReplyLost(w) \/ DatabaseRefuses(w)
               \/ DatabaseError(w)
      PROVE  LabelsInPlace'
  <2>1. work[w].pc # "idle" /\ w[1] \in P4Queue
    BY <1>3
    DEF Claim, ClaimReplyLost, FindDuplicate, ApplyDevice, InsertRow, InsertReplyLost,
        DatabaseRefuses, DatabaseError, RowCommitted, AtInsert, AtDevice, DatabaseRefusal, Claiming, LabelsInPlace
  <2>2. PICK new \in {"raised", "claimed", "duplicate", "applied", "stored"} :
            Goto(w, new)
    BY <1>3
    DEF Claim, ClaimReplyLost, FindDuplicate, ApplyDevice, InsertRow, InsertReplyLost,
        DatabaseRefuses, DatabaseError
  <2> QED
    BY <1>0, <2>1, <2>2, GotoEffect DEF LabelsInPlace, Claiming, Label
<1>4. ASSUME NEW w \in Worker, Finish(w) PROVE LabelsInPlace'
  BY <1>0, <1>4, FinishEffect DEF LabelsInPlace, Claiming, Idle
<1>5. ASSUME NEW w \in Worker, Ack(w), Goto(w, "acked"), work[w].pc = "stored"
      PROVE  LabelsInPlace'
  BY <1>0, <1>5, GotoEffect DEF LabelsInPlace, Claiming, Label
<1>6. ASSUME NEW w \in Worker, LoseChannel(w) PROVE LabelsInPlace'
  BY <1>0, <1>6 DEF LoseChannel, LabelsInPlace, WorkType, Delivery, Claiming
<1>7. CASE UNCHANGED work
  BY <1>7 DEF LabelsInPlace
<1> QED
  BY <1>1, <1>2, <1>3, <1>4, <1>5, <1>6, <1>7
  DEF Next, ClientStep, Submit, SubmitFails, HandlerStep, PersistStep, SettleStep,
      FaultStep, Notify, NotifyFails, Ack, Nack, Abort, Crash, Reap, OperatorStep,
      Replay, ReplayCrash, Purge, vars

-----------------------------------------------------------------------------
(* The dedup ledger: every marked key is accounted for.                    *)

(* A key that is accounted for stays so: a handler that leaves the stretch *)
(* between its mark and its row has written the row or is recorded as      *)
(* having given up.                                                        *)
LEMMA AccountedStays ==
    ASSUME TypeOK, [Next]_vars, NEW k \in Key, Accounted(k)
    PROVE  Accounted(k)'
<1>0. WorkType
  BY DEF TypeOK
<1>1. rows \subseteq rows' /\ abandoned \subseteq abandoned'
  BY DEF Next, ClientStep, Submit, SubmitFails, HandlerStep, Deliver, RelayStep,
         Publish, FanOut, RefuseContent, PersistStep, Claim, FindDuplicate, ApplyDevice,
         InsertRow, RowCommitted, DatabaseRefuses, Notify, SettleStep, Ack, Nack, Abort,
         FaultStep, FanOutFails, Raise, ClaimReplyLost, InsertReplyLost, DatabaseError,
         NotifyFails, LoseChannel, Crash, Reap, OperatorStep, Replay, ReplayCrash, Purge,
         vars, stores, history
<1>2. CASE k \in rows \cup abandoned
  BY <1>1, <1>2 DEF Accounted
<1>3. ASSUME NEW v \in Worker, work[v].pc \in Claiming, WorkKey(v) = k
      PROVE  Accounted(k)'
  <2>1. CASE work'[v].pc \in Claiming /\ work'[v].msg = work[v].msg
    BY <1>3, <2>1 DEF Accounted, WorkKey
  <2>2. CASE InsertRow(v) \/ InsertReplyLost(v)
    BY <1>3, <2>2 DEF InsertRow, InsertReplyLost, RowCommitted, Accounted
  <2>3. CASE DatabaseRefuses(v) \/ DatabaseError(v) \/ Crash(v)
    BY <1>3, <2>3 DEF DatabaseRefuses, DatabaseError, Crash, Accounted
  <2>4. CASE UNCHANGED work
    BY <1>3, <2>1, <2>4
  <2>5. CASE LoseChannel(v)
    BY <1>0, <1>3, <2>1, <2>5 DEF LoseChannel, WorkType, Delivery
  <2>6. CASE ApplyDevice(v)
    BY <1>0, <1>3, <2>1, <2>6, GotoEffect DEF ApplyDevice, Claiming, Label
  <2>7. ASSUME NEW w \in Worker, w # v, HandlerStep(w) \/ FaultStep(w)
        PROVE  work'[v] = work[v]
    BY <1>0, <2>7, OthersStay
  <2>8. ASSUME HandlerStep(v) \/ FaultStep(v)
        PROVE  \/ InsertRow(v) \/ InsertReplyLost(v) \/ DatabaseRefuses(v)
               \/ DatabaseError(v) \/ Crash(v) \/ LoseChannel(v) \/ ApplyDevice(v)
    BY <1>3, <2>8
    DEF Claiming, HandlerStep, Deliver, RelayStep, Publish, FanOut, RefuseContent,
        PersistStep, Claim, FindDuplicate, Notify, SettleStep, Ack, Nack, Abort,
        FaultStep, FanOutFails, Raise, ClaimReplyLost, NotifyFails
  <2> QED
    BY <1>3, <2>1, <2>2, <2>3, <2>4, <2>5, <2>6, <2>7, <2>8
    DEF Next, ClientStep, Submit, SubmitFails, Reap, OperatorStep, Replay, ReplayCrash,
        Purge, vars
<1> QED
  BY <1>2, <1>3 DEF Accounted

(* No znode, no verdict, nothing to account for.                           *)
LEMMA LedgerInit == Init => DuplicateSeen /\ DuplicateAccounted
BY DEF Init, DuplicateSeen, DuplicateAccounted, Idle

(* A verdict on a duplicate, and every znode, stay accounted for.          *)
LEMMA LedgerStep ==
    TypeOK /\ DuplicateSeen /\ DuplicateAccounted /\ [Next]_vars
        => DuplicateSeen' /\ DuplicateAccounted'
<1> SUFFICES ASSUME TypeOK, DuplicateSeen, DuplicateAccounted, [Next]_vars
             PROVE  DuplicateSeen' /\ DuplicateAccounted'
  OBVIOUS
<1>0. WorkType /\ marked \subseteq Key /\ skipped \subseteq Key
  BY DEF TypeOK, StoresType, ReportsType
<1>1. ASSUME NEW v \in Worker, work'[v].pc = "duplicate" PROVE Accounted(WorkKey(v))'
  <2>1. CASE work'[v] = work[v]
    <3>1. WorkKey(v) \in Key /\ WorkKey(v)' = WorkKey(v)
      BY <1>0, <1>1, <2>1, KeyType DEF WorkType, WorkKey
    <3>2. Accounted(WorkKey(v))
      BY <1>1, <2>1 DEF DuplicateSeen
    <3> QED
      BY <3>1, <3>2, AccountedStays
  <2>2. CASE FindDuplicate(v)
    <3>1. work[v].pc # "idle" /\ WorkKey(v) \in Key
      BY <1>0, <2>2, KeyType DEF FindDuplicate, WorkType
    <3>2. Accounted(WorkKey(v))
      BY <2>2, <3>1 DEF FindDuplicate, DuplicateAccounted
    <3>3. WorkKey(v)' = WorkKey(v)
      BY <1>0, <2>2, <3>1, GotoEffect DEF FindDuplicate, WorkKey, Label
    <3> QED
      BY <3>1, <3>2, <3>3, AccountedStays
  <2>3. ASSUME NEW w \in Worker, HandlerStep(w) \/ FaultStep(w), v # w
        PROVE  work'[v] = work[v]
    BY <1>0, <2>3, OthersStay
  <2>4. CASE LoseChannel(v)
    <3>1. work[v].pc = "duplicate" /\ WorkKey(v)' = WorkKey(v) /\ WorkKey(v) \in Key
      BY <1>0, <1>1, <2>4, KeyType DEF LoseChannel, WorkType, Delivery, WorkKey
    <3> QED
      BY <3>1, AccountedStays DEF DuplicateSeen
  <2>5. ASSUME HandlerStep(v) \/ FaultStep(v)
        PROVE  FindDuplicate(v) \/ LoseChannel(v)
    BY <1>0, <1>1, <2>5
    DEF HandlerStep, Deliver, RelayStep, Publish, FanOut, RefuseContent, PersistStep,
        Claim, ApplyDevice, InsertRow, DatabaseRefuses, Notify, SettleStep, Ack, Nack, Abort,
        FaultStep, FanOutFails, Raise, ClaimReplyLost, InsertReplyLost, DatabaseError,
        NotifyFails, Crash, Goto, Finish, WorkType, Idle, Delivery
  <2> QED
    BY <2>1, <2>2, <2>3, <2>4, <2>5
    DEF Next, ClientStep, Submit, SubmitFails, Reap, OperatorStep, Replay, ReplayCrash,
        Purge, vars
<1>2. ASSUME NEW k \in (marked \cup skipped)' PROVE Accounted(k)'
  <2>1. CASE k \in marked \cup skipped
    BY <1>0, <2>1, AccountedStays DEF DuplicateAccounted
  <2>2. ASSUME NEW w \in Worker, Claim(w), k = WorkKey(w) PROVE Accounted(k)'
    <3>1. work[w].pc # "idle"
      BY <2>2 DEF Claim
    <3>2. work'[w].pc \in Claiming /\ WorkKey(w)' = k
      BY <1>0, <2>2, <3>1, GotoEffect DEF Claim, Claiming, WorkKey, Label
    <3> QED
      BY <3>2 DEF Accounted
  <2>3. ASSUME NEW w \in Worker, ClaimReplyLost(w), k = WorkKey(w) PROVE Accounted(k)'
    BY <2>3 DEF ClaimReplyLost, Accounted
  <2>4. ASSUME NEW w \in Worker, Ack(w), work[w].pc = "duplicate", k = WorkKey(w)
        PROVE  Accounted(k)'
    <3>1. k \in Key /\ Accounted(k)
      BY <1>0, <2>4, KeyType DEF DuplicateSeen, WorkType
    <3> QED
      BY <3>1, AccountedStays
  <2>5. \/ k \in marked \cup skipped
        \/ \E w \in Worker : k = WorkKey(w) /\ Claim(w)
        \/ \E w \in Worker : k = WorkKey(w) /\ ClaimReplyLost(w)
        \/ \E w \in Worker : k = WorkKey(w) /\ Ack(w) /\ work[w].pc = "duplicate"
    BY <1>2
    DEF Next, ClientStep, Submit, SubmitFails, HandlerStep, Deliver, RelayStep, Publish,
        FanOut, RefuseContent, PersistStep, Claim, FindDuplicate, ApplyDevice, InsertRow,
        DatabaseRefuses, Notify, SettleStep, Ack, Nack, Abort, FaultStep, FanOutFails, Raise,
        ClaimReplyLost, InsertReplyLost, DatabaseError, NotifyFails, LoseChannel, Crash,
        Reap, OperatorStep, Replay, ReplayCrash, Purge, vars, stores, reports
  <2> QED
    BY <2>1, <2>2, <2>3, <2>4, <2>5
<1> QED
  BY <1>1, <1>2 DEF DuplicateSeen, DuplicateAccounted

-----------------------------------------------------------------------------
(* P4 acknowledges and announces only what is stored.                      *)

(* Nothing is acknowledged in the first state.                             *)
LEMMA AckedInit == Init => AckedIsStored
BY DEF Init, AckedIsStored, Idle

(* P4 comes to its acknowledgement only past the row, which stays.         *)
LEMMA AckedStep == TypeOK /\ AckedIsStored /\ [Next]_vars => AckedIsStored'
<1> SUFFICES ASSUME TypeOK, AckedIsStored, [Next]_vars PROVE AckedIsStored'
  OBVIOUS
<1>0. WorkType
  BY DEF TypeOK
<1>1. ASSUME NEW w \in Worker, InsertRow(w) PROVE AckedIsStored'
  <2>1. work[w].pc # "idle" /\ WorkKey(w) \in rows' /\ rows \subseteq rows'
    BY <1>1 DEF InsertRow, RowCommitted, AtInsert, AtDevice, DatabaseRefusal
  <2>2. WorkKey(w)' = WorkKey(w)
    BY <1>0, <1>1, <2>1, GotoEffect DEF InsertRow, WorkKey, Label
  <2> QED
    BY <1>0, <1>1, <2>1, <2>2, GotoEffect
    DEF InsertRow, AckedIsStored, Label, WorkKey, reports
<1>2. ASSUME NEW w \in Worker, Ack(w) PROVE AckedIsStored'
  BY <1>0, <1>2, GotoEffect, FinishEffect
  DEF Ack, AckedIsStored, Label, WorkKey, stores, Idle
<1>3. ASSUME NEW w \in Worker, Notify(w) PROVE AckedIsStored'
  BY <1>0, <1>3, FinishEffect DEF Notify, AckedIsStored, WorkKey, stores, Idle
<1>4. ASSUME NEW w \in Worker, InsertReplyLost(w) PROVE AckedIsStored'
  <2>1. work[w].pc # "idle" /\ rows \subseteq rows'
    BY <1>4 DEF InsertReplyLost, RowCommitted, AtInsert, AtDevice, DatabaseRefusal
  <2> QED
    BY <1>0, <1>4, <2>1, GotoEffect
    DEF InsertReplyLost, AckedIsStored, Label, WorkKey, reports
<1>5. ASSUME UNCHANGED <<rows, notified>>,
             \A v \in Worker : work'[v].pc \in {"stored", "acked"} =>
                                   work'[v].msg = work[v].msg /\ work'[v].pc = work[v].pc
      PROVE  AckedIsStored'
  BY <1>5 DEF AckedIsStored, WorkKey
<1>6. ASSUME NEW w \in Worker, HandlerStep(w) \/ FaultStep(w),
             ~InsertRow(w), ~Ack(w), ~Notify(w), ~InsertReplyLost(w)
      PROVE  AckedIsStored'
  <2>1. UNCHANGED <<rows, notified>>
    BY <1>6
    DEF HandlerStep, Deliver, RelayStep, Publish, FanOut, RefuseContent, PersistStep,
        Claim, FindDuplicate, ApplyDevice, DatabaseRefuses, SettleStep, Nack, Abort,
        FaultStep, FanOutFails, Raise, ClaimReplyLost, DatabaseError, NotifyFails,
        LoseChannel, Crash, stores, reports
  <2>2. work'[w].pc \in {"stored", "acked"} =>
            work'[w].msg = work[w].msg /\ work'[w].pc = work[w].pc
    BY <1>0, <1>6
    DEF HandlerStep, Deliver, RelayStep, Publish, FanOut, RefuseContent, PersistStep,
        Claim, FindDuplicate, ApplyDevice, DatabaseRefuses, SettleStep, Nack, Abort,
        FaultStep, FanOutFails, Raise, ClaimReplyLost, DatabaseError, NotifyFails,
        LoseChannel, Crash, Goto, Finish, WorkType, Idle, Delivery
  <2> QED
    BY <1>0, <1>5, <1>6, <2>1, <2>2, OthersStay
<1>7. CASE UNCHANGED <<rows, notified, work>>
  BY <1>5, <1>7
<1> QED
  BY <1>1, <1>2, <1>3, <1>4, <1>6, <1>7
  DEF Next, ClientStep, Submit, SubmitFails, Reap, OperatorStep, Replay, ReplayCrash,
      Purge, vars, stores, reports

-----------------------------------------------------------------------------
(* The barrier: between two reapings a key is written once.                *)

(* Nothing is written in the first state.                                  *)
LEMMA BarrierInit == Init => BarrierHeld /\ WriteOnce
BY DEF Init, BarrierHeld, WriteOnce, Idle, Claiming

(* A handler that may write a key: past the barrier, not reaped since.     *)
LEMMA BarrierStep ==
    TypeOK /\ BarrierHeld /\ WriteOnce /\ [Next]_vars => BarrierHeld' /\ WriteOnce'
<1> SUFFICES ASSUME TypeOK, BarrierHeld, WriteOnce, [Next]_vars
             PROVE  BarrierHeld' /\ WriteOnce'
  OBVIOUS
<1>0. WorkType /\ writes \in [Key -> Nat] /\ marked \subseteq Key
  BY DEF TypeOK, StoresType
<1>1. ASSUME NEW w \in Worker, Claim(w) PROVE BarrierHeld' /\ WriteOnce'
  <2>1. work[w].pc # "idle" /\ WorkKey(w) \in Key
    BY <1>0, <1>1, KeyType DEF Claim, WorkType
  <2>2. /\ work'[w].pc = "claimed" /\ WorkKey(w)' = WorkKey(w)
        /\ \A v \in Worker \ {w} : work'[v] = work[v] /\ WorkKey(v)' = WorkKey(v)
    BY <1>0, <1>1, <2>1, GotoEffect DEF Claim, WorkKey, Label
  <2>3. UNCHANGED <<writes, applied, reaped>> /\ marked' = marked \cup {WorkKey(w)}
    BY <1>1 DEF Claim, history
  <2>4. WorkKey(w) \notin reaped =>
            /\ writes[WorkKey(w)] = 0 /\ WorkKey(w) \notin applied
            /\ \A v \in Worker : work[v].pc \in Claiming => WorkKey(v) # WorkKey(w)
    BY <1>0, <1>1, <2>1 DEF Claim, BarrierHeld
  <2> QED
    BY <2>1, <2>2, <2>3, <2>4 DEF BarrierHeld, WriteOnce, Claiming
<1>2. ASSUME NEW w \in Worker, ApplyDevice(w) PROVE BarrierHeld' /\ WriteOnce'
  <2>1. work[w].pc = "claimed" /\ WorkKey(w) \in Key
    BY <1>0, <1>2, KeyType DEF ApplyDevice, AtDevice, WorkType
  <2>2. /\ work'[w].pc = "applied" /\ WorkKey(w)' = WorkKey(w)
        /\ \A v \in Worker \ {w} : work'[v] = work[v] /\ WorkKey(v)' = WorkKey(v)
    BY <1>0, <1>2, <2>1, GotoEffect DEF ApplyDevice, WorkKey, Label
  <2>3. /\ UNCHANGED <<writes, marked, reaped>>
        /\ applied' \subseteq applied \cup {WorkKey(w)}
    BY <1>2 DEF ApplyDevice, history
  <2>4. WorkKey(w) \notin reaped =>
            /\ WorkKey(w) \in marked /\ writes[WorkKey(w)] = 0
            /\ \A v \in Worker \ {w} : work[v].pc \in Claiming => WorkKey(v) # WorkKey(w)
    BY <2>1 DEF BarrierHeld, Claiming
  <2> QED
    BY <2>1, <2>2, <2>3, <2>4 DEF BarrierHeld, WriteOnce, Claiming
<1>3. ASSUME NEW w \in Worker, InsertRow(w) \/ InsertReplyLost(w)
      PROVE  BarrierHeld' /\ WriteOnce'
  <2>1. work[w].pc \in Claiming /\ WorkKey(w) \in Key
    BY <1>0, <1>3, KeyType
    DEF InsertRow, InsertReplyLost, RowCommitted, AtInsert, AtDevice, DatabaseRefusal, WorkType, Claiming
  <2>2. /\ work'[w].pc \notin Claiming
        /\ \A v \in Worker \ {w} : work'[v] = work[v] /\ WorkKey(v)' = WorkKey(v)
    BY <1>0, <1>3, <2>1, GotoEffect
    DEF InsertRow, InsertReplyLost, WorkKey, Label, Claiming
  <2>3. /\ UNCHANGED <<applied, marked, reaped>>
        /\ writes' = [writes EXCEPT ![WorkKey(w)] = @ + 1]
    BY <1>3 DEF InsertRow, InsertReplyLost, RowCommitted, history
  <2>4. WorkKey(w) \notin reaped =>
            /\ WorkKey(w) \in marked /\ writes[WorkKey(w)] = 0
            /\ \A v \in Worker \ {w} : work[v].pc \in Claiming => WorkKey(v) # WorkKey(w)
    BY <2>1 DEF BarrierHeld
  <2>5. WriteOnce'
    BY <1>0, <2>1, <2>3, <2>4 DEF WriteOnce
  <2>6. \A k \in Key \ reaped' : (writes'[k] > 0 \/ k \in applied') => k \in marked'
    BY <1>0, <2>1, <2>3, <2>4 DEF BarrierHeld
  <2>7. ASSUME NEW v \in Worker, work'[v].pc \in Claiming, WorkKey(v)' \notin reaped'
        PROVE  /\ WorkKey(v)' \in marked'
               /\ writes'[WorkKey(v)'] = 0
               /\ work'[v].pc = "claimed" => WorkKey(v)' \notin applied'
               /\ \A u \in Worker \ {v} :
                      work'[u].pc \in Claiming => WorkKey(u)' # WorkKey(v)'
    <3>1. /\ v # w /\ work[v].pc \in Claiming /\ WorkKey(v)' = WorkKey(v)
          /\ WorkKey(v) \notin reaped /\ WorkKey(v) \in Key
      BY <1>0, <2>2, <2>3, <2>7, KeyType DEF WorkType, Claiming
    <3>2. WorkKey(v) # WorkKey(w)
      BY <2>1, <3>1 DEF BarrierHeld
    <3>3. writes'[WorkKey(v)] = writes[WorkKey(v)]
      BY <1>0, <2>3, <3>1, <3>2
    <3> QED
      BY <2>2, <2>3, <3>1, <3>3 DEF BarrierHeld
  <2> QED
    BY <2>5, <2>6, <2>7 DEF BarrierHeld
<1>4. ASSUME NEW k \in Key, Reap(k) PROVE BarrierHeld' /\ WriteOnce'
  <2>1. /\ UNCHANGED <<work, writes, applied>>
        /\ marked' = marked \ {k} /\ reaped' = reaped \cup {k}
    BY <1>4 DEF Reap
  <2> QED
    BY <2>1 DEF BarrierHeld, WriteOnce, WorkKey
<1>5. ASSUME UNCHANGED <<writes, applied, reaped>>, marked \subseteq marked',
             \A v \in Worker : work'[v].pc \in Claiming =>
                                   work'[v].msg = work[v].msg /\ work'[v].pc = work[v].pc
      PROVE  BarrierHeld' /\ WriteOnce'
  BY <1>5 DEF BarrierHeld, WriteOnce, WorkKey
<1>6. ASSUME NEW w \in Worker, HandlerStep(w) \/ FaultStep(w),
             ~Claim(w), ~ApplyDevice(w), ~InsertRow(w), ~InsertReplyLost(w)
      PROVE  BarrierHeld' /\ WriteOnce'
  <2>1. UNCHANGED <<writes, applied, reaped>> /\ marked \subseteq marked'
    BY <1>6
    DEF HandlerStep, Deliver, RelayStep, Publish, FanOut, RefuseContent, PersistStep,
        FindDuplicate, DatabaseRefuses, Notify, SettleStep, Ack, Nack, Abort,
        FaultStep, FanOutFails, Raise, ClaimReplyLost, DatabaseError, NotifyFails,
        LoseChannel, Crash, stores, history
  <2>2. work'[w].pc \in Claiming =>
            work'[w].msg = work[w].msg /\ work'[w].pc = work[w].pc
    BY <1>0, <1>6
    DEF HandlerStep, Deliver, RelayStep, Publish, FanOut, RefuseContent, PersistStep,
        FindDuplicate, DatabaseRefuses, Notify, SettleStep, Ack, Nack, Abort,
        FaultStep, FanOutFails, Raise, ClaimReplyLost, DatabaseError, NotifyFails,
        LoseChannel, Crash, Goto, Finish, WorkType, Idle, Delivery, Claiming
  <2> QED
    BY <1>0, <1>5, <1>6, <2>1, <2>2, OthersStay
<1>7. CASE UNCHANGED <<work, marked, writes, applied, reaped>>
  BY <1>5, <1>7
<1> QED
  BY <1>1, <1>2, <1>3, <1>4, <1>6, <1>7
  DEF Next, ClientStep, Submit, SubmitFails, OperatorStep, Replay, ReplayCrash,
      Purge, vars, stores, history

(* A device change that is being applied a second time follows a reaping.  *)
LEMMA DeviceStep ==
    TypeOK /\ BarrierHeld =>
        \A w \in Worker :
            (ApplyDevice(w) /\ WorkKey(w) \in applied) => WorkKey(w) \in reaped
BY DEF ApplyDevice, AtDevice, BarrierHeld, Claiming

-----------------------------------------------------------------------------
(* Copies are moved, never dropped.                                        *)

(* A copy at a queue stays at that queue until a handler of the queue      *)
(* acknowledges it.                                                        *)
LEMMA CopyStays ==
    ASSUME TypeOK, [Next]_vars, NEW q \in Queue, NEW m \in Msg, CopyAt(q, m)
    PROVE  \/ CopyAt(q, m)'
           \/ \E s \in Slot : Holds(<<q, s>>, m) /\ Ack(<<q, s>>)
<1>0. /\ WorkType /\ ready \in Bag /\ dead \in Bag
      /\ \A s \in Slot : <<q, s>> \in Worker
  BY DEF TypeOK, BrokerType, Worker
<1>1. CASE <<q, m>> \in discarded \cup purged
  <2>1. discarded \subseteq discarded' /\ purged \subseteq purged'
    BY DEF Next, ClientStep, Submit, SubmitFails, HandlerStep, Deliver, RelayStep,
           Publish, FanOut, RefuseContent, PersistStep, Claim, FindDuplicate,
           ApplyDevice, InsertRow, DatabaseRefuses, Notify, SettleStep, Ack, Nack, Abort,
           FaultStep, FanOutFails, Raise, ClaimReplyLost, InsertReplyLost,
           DatabaseError, NotifyFails, LoseChannel, Crash, Reap, OperatorStep, Replay,
           ReplayCrash, Purge, vars, broker
  <2> QED
    BY <1>1, <2>1 DEF CopyAt
<1>2. CASE ready[q][m] > 0
  <2>1. ASSUME NEW w \in Worker, NEW n \in Msg, Deliver(w, n) PROVE CopyAt(q, m)'
    <3>1. w[1] \in Queue /\ w = <<w[1], w[2]>> /\ w[2] \in Slot
      BY DEF Worker
    <3>2. CASE w[1] = q /\ n = m
      <4>1. Holds(<<q, w[2]>>, m)'
        BY <1>0, <2>1, <3>1, <3>2 DEF Deliver, Holds, WorkType
      <4> QED
        BY <3>1, <4>1 DEF CopyAt
    <3>3. CASE ~(w[1] = q /\ n = m)
      <4>1. ready'[q][m] = ready[q][m]
        BY <1>0, <2>1, <3>1, <3>3 DEF Deliver, Take, Bag
      <4> QED
        BY <1>2, <4>1 DEF CopyAt
    <3> QED
      BY <3>2, <3>3
  <2>2. ASSUME NEW p \in Queue, NEW n \in Msg, ready' = Put(ready, p, n)
        PROVE  CopyAt(q, m)'
    <3>1. ready'[q][m] >= ready[q][m] /\ ready' \in Bag
      BY <1>0, <2>2, PutType
    <3> QED
      BY <1>0, <1>2, <3>1 DEF CopyAt, Bag
  <2>3. CASE UNCHANGED ready
    BY <1>2, <2>3 DEF CopyAt
  <2>4. ASSUME NEW w \in Worker, HandlerStep(w) \/ FaultStep(w)
        PROVE  \/ \E n \in Msg : Deliver(w, n)
               \/ \E p \in Queue, n \in Msg : ready' = Put(ready, p, n)
               \/ UNCHANGED ready
    <3>1. w[1] \in Queue /\ (work[w].pc # "idle" => work[w].msg \in Msg)
      BY <1>0 DEF Worker, WorkType
    <3>2. CASE Publish(w)
      BY <3>1, <3>2, DownstreamInQueue DEF Publish
    <3>3. CASE FanOut(w)
      BY <3>1, <3>3, FanOutAdvances DEF FanOut
    <3>4. CASE LoseChannel(w) \/ Crash(w)
      BY <3>1, <3>4 DEF LoseChannel, Crash
    <3> QED
      BY <2>4, <3>2, <3>3, <3>4
      DEF HandlerStep, RelayStep, RefuseContent, PersistStep, Claim, FindDuplicate,
          ApplyDevice, InsertRow, DatabaseRefuses, Notify, SettleStep, Ack, Nack, Abort,
          FaultStep, FanOutFails, Raise, ClaimReplyLost, InsertReplyLost,
          DatabaseError, NotifyFails, broker
  <2>5. ASSUME NEW n \in Msg, ClientStep(n)
        PROVE  \/ \E p \in Queue : ready' = Put(ready, p, n)
               \/ UNCHANGED ready
    BY <2>5, PipelineAssumption, EntryOnBranches DEF ClientStep, Submit, SubmitFails
  <2> QED
    BY <2>1, <2>2, <2>3, <2>4, <2>5
    DEF Next, Reap, OperatorStep, Replay, ReplayCrash, Purge, vars, broker
<1>3. CASE dead[q][m] > 0
  <2>1. ASSUME NEW p \in Queue, NEW n \in Msg, OperatorStep(p, n)
        PROVE  CopyAt(q, m)'
    <3>1. CASE Replay(p, n) /\ <<p, n>> = <<q, m>>
      <4>1. ready'[q][m] > 0
        BY <1>0, <3>1, PutType DEF Replay
      <4> QED
        BY <4>1 DEF CopyAt
    <3>2. CASE Purge(p, n) /\ <<p, n>> = <<q, m>>
      BY <3>2 DEF Purge, CopyAt
    <3>3. CASE <<p, n>> # <<q, m>> \/ ReplayCrash(p, n)
      <4>1. dead'[q][m] = dead[q][m]
        BY <1>0, <2>1, <3>3 DEF OperatorStep, Replay, ReplayCrash, Purge, Take, Bag
      <4> QED
        BY <1>3, <4>1 DEF CopyAt
    <3> QED
      BY <2>1, <3>1, <3>2, <3>3 DEF OperatorStep
  <2>2. ASSUME NEW w \in Worker, Nack(w) PROVE CopyAt(q, m)'
    <3>1. w[1] \in Queue /\ work[w].msg \in Msg
      BY <1>0, <2>2 DEF Worker, WorkType, Nack
    <3>2. dead' = dead \/ dead' = Put(dead, w[1], work[w].msg)
      BY <2>2 DEF Nack
    <3>3. CASE dead' = Put(dead, w[1], work[w].msg)
      <4>1. dead'[q][m] >= dead[q][m] /\ dead' \in Bag
        BY <1>0, <3>1, <3>3, PutType
      <4> QED
        BY <1>0, <1>3, <4>1 DEF CopyAt, Bag
    <3> QED
      BY <1>3, <3>2, <3>3 DEF CopyAt
  <2>3. CASE UNCHANGED dead
    BY <1>3, <2>3 DEF CopyAt
  <2> QED
    BY <2>1, <2>2, <2>3
    DEF Next, ClientStep, Submit, SubmitFails, HandlerStep, Deliver, RelayStep,
        Publish, FanOut, RefuseContent, PersistStep, Claim, FindDuplicate,
        ApplyDevice, InsertRow, DatabaseRefuses, Notify, SettleStep, Ack, Abort,
        FaultStep, FanOutFails, Raise, ClaimReplyLost, InsertReplyLost,
        DatabaseError, NotifyFails, LoseChannel, Crash, Reap, vars, broker
<1>4. ASSUME NEW s \in Slot, Holds(<<q, s>>, m), ~Ack(<<q, s>>)
      PROVE  CopyAt(q, m)'
  <2> DEFINE v == <<q, s>>
  <2>0. /\ v \in Worker /\ v[1] = q
        /\ work[v].pc \notin {"idle", "acked"} /\ work[v].live /\ work[v].msg = m
    BY <1>0, <1>4 DEF Holds
  <2>1. CASE work'[v].pc \notin {"idle", "acked"} /\ work'[v].live /\ work'[v].msg = m
    BY <2>1 DEF CopyAt, Holds
  <2>2. CASE Nack(v)
    <3>1. \/ dead' = Put(dead, q, m)
          \/ <<q, m>> \in discarded'
      BY <2>0, <2>2 DEF Nack
    <3>2. dead' = Put(dead, q, m) => dead'[q][m] > 0
      BY <1>0, PutType
    <3> QED
      BY <3>1, <3>2 DEF CopyAt
  <2>3. CASE LoseChannel(v) \/ Crash(v)
    <3>1. ready' = Put(ready, q, m)
      BY <2>0, <2>3 DEF LoseChannel, Crash
    <3>2. ready'[q][m] > 0
      BY <1>0, <3>1, PutType
    <3> QED
      BY <3>2 DEF CopyAt
  <2>4. ASSUME NEW l \in Label \ {"idle", "acked"}, Goto(v, l)
        PROVE  CopyAt(q, m)'
    <3>1. work'[v].pc \notin {"idle", "acked"} /\ work'[v].live /\ work'[v].msg = m
      BY <1>0, <2>0, <2>4, GotoEffect
    <3> QED
      BY <2>1, <3>1
  <2>5. ASSUME HandlerStep(v) \/ FaultStep(v)
        PROVE  \/ Nack(v) \/ LoseChannel(v) \/ Crash(v)
               \/ \E l \in Label \ {"idle", "acked"} : Goto(v, l)
    <3>1. CASE Publish(v) \/ FanOut(v) \/ RefuseContent(v) \/ FanOutFails(v) \/ Raise(v)
      BY <3>1 DEF Publish, FanOut, RefuseContent, FanOutFails, Raise, Label
    <3>2. CASE \/ Claim(v) \/ FindDuplicate(v) \/ ApplyDevice(v) \/ InsertRow(v)
               \/ DatabaseRefuses(v) \/ ClaimReplyLost(v) \/ InsertReplyLost(v)
               \/ DatabaseError(v)
      BY <3>2 DEF Claim, FindDuplicate, ApplyDevice, InsertRow, DatabaseRefuses,
                  ClaimReplyLost, InsertReplyLost, DatabaseError, Label
    <3>3. ~Notify(v) /\ ~NotifyFails(v) /\ ~Abort(v) /\ \A n \in Msg : ~Deliver(v, n)
      BY <2>0 DEF Notify, NotifyFails, Abort, Deliver
    <3> QED
      BY <1>4, <2>5, <3>1, <3>2, <3>3
      DEF HandlerStep, RelayStep, PersistStep, SettleStep, FaultStep
  <2>6. ASSUME NEW w \in Worker, HandlerStep(w) \/ FaultStep(w), w # v
        PROVE  work'[v] = work[v]
    BY <1>0, <2>0, <2>6, OthersStay
  <2>7. CASE UNCHANGED work
    BY <2>0, <2>1, <2>7
  <2> QED
    BY <2>0, <2>1, <2>2, <2>3, <2>4, <2>5, <2>6, <2>7
    DEF Next, ClientStep, Submit, SubmitFails, Reap, OperatorStep, Replay, ReplayCrash,
        Purge, vars
<1> QED
  BY <1>1, <1>2, <1>3, <1>4 DEF CopyAt

-----------------------------------------------------------------------------
(* No silent loss.                                                         *)

(* A branch that is kept stays kept: where an acknowledgement removes its  *)
(* copy, ForwardedFirst supplies one further along, and where P4 does so   *)
(* the row is there or the key is recorded as a duplicate.                 *)
LEMMA KeptStays ==
    ASSUME TypeOK, LabelsInPlace, ForwardedFirst, AckedIsStored, [Next]_vars,
           NEW m \in Msg, NEW b \in Branch, NEW r \in Nat, Kept(m, b, r)
    PROVE  Kept(m, b, r)'
<1>0. WorkType /\ Branch = {"direct", "remote"}
  BY DEF TypeOK, Branch
<1>1. /\ rows \subseteq rows' /\ skipped \subseteq skipped'
      /\ unsynced \subseteq unsynced'
  BY DEF Next, ClientStep, Submit, SubmitFails, HandlerStep, Deliver, RelayStep,
         Publish, FanOut, RefuseContent, PersistStep, Claim, FindDuplicate, ApplyDevice,
         InsertRow, RowCommitted, DatabaseRefuses, Notify, SettleStep, Ack, Nack, Abort,
         FaultStep, FanOutFails, Raise, ClaimReplyLost, InsertReplyLost, DatabaseError,
         NotifyFails, LoseChannel, Crash, Reap, OperatorStep, Replay, ReplayCrash, Purge,
         vars, stores, reports
<1>2. CASE <<m, b>> \in rows \cup skipped \/ (b = "remote" /\ m \in unsynced)
  BY <1>1, <1>2 DEF Kept
<1>3. ASSUME NEW q \in BranchQueue(b), Rank(q) >= r, CopyAt(q, m)
      PROVE  Kept(m, b, r)'
  <2>1. q \in Queue /\ Rank(q) \in Nat
    BY <1>0, <1>3, BranchInQueue, RankAtLeastOne
  <2>2. CASE CopyAt(q, m)'
    BY <1>3, <2>2 DEF Kept
  <2>3. ASSUME NEW s \in Slot, Holds(<<q, s>>, m), Ack(<<q, s>>)
        PROVE  Kept(m, b, r)'
    <3> DEFINE v == <<q, s>>
    <3>0. v \in Worker /\ v[1] = q /\ work[v].msg = m /\ work[v].live
      BY <2>1, <2>3 DEF Worker, Holds
    <3>1. CASE work[v].pc = "stored"
      <4>1. WorkKey(v) = <<m, b>>
        BY <1>3, <3>0, <3>1, KeyOfBranch DEF LabelsInPlace, WorkKey
      <4>2. WorkKey(v) \in rows
        BY <3>0, <3>1 DEF AckedIsStored
      <4> QED
        BY <1>1, <4>1, <4>2 DEF Kept
    <3>2. CASE Ack(v) /\ work[v].pc = "duplicate"
      <4>1. WorkKey(v) = <<m, b>>
        BY <1>3, <3>0, <3>2, KeyOfBranch DEF LabelsInPlace, WorkKey
      <4>2. WorkKey(v) \in skipped'
        BY <3>2 DEF Ack
      <4> QED
        BY <4>1, <4>2 DEF Kept
    <3>3. CASE Ack(v) /\ work[v].pc = "published"
      <4>1. Kept(m, b, Rank(q) + 1)
        BY <1>3, <3>0, <3>3 DEF ForwardedFirst
      <4>2. CASE <<m, b>> \in rows \cup skipped \/ (b = "remote" /\ m \in unsynced)
        BY <1>1, <4>2 DEF Kept
      <4>3. ASSUME NEW p \in BranchQueue(b), Rank(p) >= Rank(q) + 1, CopyAt(p, m)
            PROVE  Kept(m, b, r)'
        <5>1. p \in Queue /\ Rank(p) \in Nat /\ p # q
          BY <1>0, <2>1, <4>3, BranchInQueue, RankAtLeastOne
        <5>2. \A t \in Slot : Holds(<<p, t>>, m) => Holds(<<p, t>>, m)'
          <6>1. \A t \in Slot : <<p, t>> \in Worker /\ <<p, t>> # v
            BY <5>1 DEF Worker
          <6>2. HandlerStep(v)
            BY <3>3 DEF HandlerStep, SettleStep
          <6> QED
            BY <1>0, <3>0, <6>1, <6>2, OthersStay DEF Holds
        <5>3. CopyAt(p, m)'
          BY <3>3, <4>3, <5>2 DEF Ack, CopyAt, broker
        <5> QED
          BY <1>3, <2>1, <4>3, <5>1, <5>3 DEF Kept
      <4> QED
        BY <4>1, <4>2, <4>3 DEF Kept
    <3> QED
      BY <2>3, <3>1, <3>2, <3>3 DEF Ack
  <2> QED
    BY <1>3, <2>1, <2>2, <2>3, CopyStays
<1> QED
  BY <1>2, <1>3 DEF Kept

(* No message has been taken in the first state.                           *)
LEMMA ForwardedInit == Init => ForwardedFirst /\ NoSilentLoss
BY DEF Init, ForwardedFirst, NoSilentLoss, Idle

(* Where a relay is about to acknowledge, its publish is still kept further *)
(* along, whatever the other handlers do.                                  *)
LEMMA ForwardedStep ==
    TypeOK /\ LabelsInPlace /\ ForwardedFirst /\ AckedIsStored /\ [Next]_vars
        => ForwardedFirst'
<1> SUFFICES ASSUME TypeOK, LabelsInPlace, ForwardedFirst, AckedIsStored, [Next]_vars,
                    NEW v \in Worker, NEW b \in Branch,
                    v[1] \in BranchQueue(b), work'[v].live,
                    \/ work'[v].pc = "published"
                    \/ work'[v].pc = "half" /\ b = "direct"
             PROVE  Kept(work[v].msg, b, Rank(v[1]) + 1)'
  BY DEF ForwardedFirst
<1> DEFINE m == work[v].msg
<1>0. /\ WorkType /\ ready \in Bag /\ Branch = {"direct", "remote"}
      /\ v[1] \in Queue /\ Rank(v[1]) + 1 \in Nat
  BY RankAtLeastOne DEF TypeOK, BrokerType, Worker, Branch
<1>1. CASE work'[v] = work[v]
  <2>1. m \in Msg /\ Kept(m, b, Rank(v[1]) + 1)
    BY <1>0, <1>1 DEF ForwardedFirst, WorkType
  <2> QED
    BY <1>0, <1>1, <2>1, KeptStays
<1>2. CASE Publish(v)
  <2>1. m \in Msg /\ work[v].pc # "idle" /\ v[1] \in RelayQueue
    BY <1>0, <1>2 DEF Publish, WorkType
  <2>2. /\ work'[v].msg = m
        /\ work'[v].pc = IF v[1] = FanOutFrom THEN "half" ELSE "published"
    BY <1>0, <1>2, <2>1, GotoEffect DEF Publish, Label
  <2>3. ~(v[1] = FanOutFrom /\ b = "remote")
    BY <2>2
  <2>4. /\ Downstream(v[1]) \in BranchQueue(b) /\ Downstream(v[1]) \in Queue
        /\ Rank(Downstream(v[1])) >= Rank(v[1]) + 1
    BY <2>1, <2>3, PublishAdvances, DownstreamInQueue
  <2>5. ready'[Downstream(v[1])][m] > 0
    BY <1>0, <1>2, <2>1, <2>4, PutType DEF Publish
  <2> QED
    BY <2>2, <2>4, <2>5 DEF Kept, CopyAt
<1>3. CASE FanOut(v) \/ FanOutFails(v)
  <2>1. m \in Msg /\ work[v].pc = "half" /\ work[v].live /\ v[1] = FanOutFrom
    BY <1>0, <1>3 DEF FanOut, FanOutFails, WorkType, LabelsInPlace
  <2>2. work'[v].msg = m
    BY <1>0, <1>3, <2>1, GotoEffect DEF FanOut, FanOutFails, Label
  <2>3. CASE b = "direct"
    <3>1. Kept(m, b, Rank(v[1]) + 1)
      BY <2>1, <2>3 DEF ForwardedFirst
    <3> QED
      BY <1>0, <2>1, <2>2, <3>1, KeptStays
  <2>4. CASE b = "remote" /\ FanOut(v)
    <3>1. ready'[FanOutTo][m] > 0
      BY <1>0, <2>1, <2>4, FanOutAdvances, PutType DEF FanOut
    <3> QED
      BY <2>1, <2>2, <2>4, <3>1, FanOutAdvances DEF Kept, CopyAt
  <2>5. CASE b = "remote" /\ FanOutFails(v)
    BY <2>2, <2>5 DEF FanOutFails, Kept
  <2> QED
    BY <1>0, <1>3, <2>3, <2>4, <2>5
<1>4. ASSUME NEW w \in Worker, HandlerStep(w) \/ FaultStep(w), w # v
      PROVE  work'[v] = work[v]
  BY <1>0, <1>4, OthersStay
<1>5. ASSUME HandlerStep(v) \/ FaultStep(v)
      PROVE  Publish(v) \/ FanOut(v) \/ FanOutFails(v)
  <2>1. CASE LoseChannel(v)
    BY <1>0, <2>1 DEF LoseChannel, WorkType, Delivery
  <2>2. CASE \E n \in Msg : Deliver(v, n)
    BY <1>0, <2>2 DEF Deliver, WorkType
  <2>3. ASSUME Finish(v) PROVE FALSE
    BY <1>0, <2>3, FinishEffect DEF Idle
  <2>4. ASSUME work[v].pc # "idle", NEW l \in Label \ {"half", "published"}, Goto(v, l)
        PROVE  FALSE
    BY <1>0, <2>4, GotoEffect
  <2>5. CASE RefuseContent(v) \/ Raise(v) \/ Claim(v) \/ FindDuplicate(v) \/ ApplyDevice(v)
    BY <2>4, <2>5 DEF RefuseContent, Raise, Claim, FindDuplicate, ApplyDevice, AtDevice,
                    Label
  <2>6. CASE \/ InsertRow(v) \/ DatabaseRefuses(v) \/ ClaimReplyLost(v)
             \/ InsertReplyLost(v) \/ DatabaseError(v)
    BY <2>4, <2>6
    DEF InsertRow, DatabaseRefuses, ClaimReplyLost, InsertReplyLost, DatabaseError,
        RowCommitted, AtInsert, AtDevice, DatabaseRefusal, Claiming, Label
  <2>7. CASE Ack(v)
    BY <2>3, <2>4, <2>7 DEF Ack, Label
  <2> QED
    BY <1>5, <2>1, <2>2, <2>3, <2>5, <2>6, <2>7
    DEF HandlerStep, RelayStep, PersistStep, SettleStep, FaultStep, Notify, NotifyFails,
        Nack, Abort, Crash
<1>6. CASE UNCHANGED work
  BY <1>1, <1>6
<1> QED
  BY <1>1, <1>2, <1>3, <1>4, <1>5, <1>6
  DEF Next, ClientStep, Submit, SubmitFails, Reap, OperatorStep, Replay, ReplayCrash,
      Purge, vars

(* What was kept somewhere on a branch stays kept; a new message is kept at *)
(* its entry.                                                              *)
LEMMA SilentLossStep ==
    TypeOK /\ LabelsInPlace /\ ForwardedFirst /\ AckedIsStored /\ NoSilentLoss
        /\ [Next]_vars => NoSilentLoss'
<1> SUFFICES ASSUME TypeOK, LabelsInPlace, ForwardedFirst, AckedIsStored,
                    NoSilentLoss, [Next]_vars,
                    NEW m \in Msg, req'[m].reply = "ok"
             PROVE  /\ Kept(m, "direct", 1)'
                    /\ req'[m].flow = 6 => Kept(m, "remote", 1)'
  BY DEF NoSilentLoss
<1> SUFFICES ASSUME NEW b \in Branch, b = "remote" => req'[m].flow = 6
             PROVE  Kept(m, b, 1)'
  BY DEF Branch
<1>1. CASE req'[m] = req[m]
  <2>1. Kept(m, b, 1)
    BY <1>1 DEF NoSilentLoss, Branch
  <2> QED
    BY <2>1, KeptStays
<1>2. ASSUME NEW f \in Offered, NEW c \in Content, Submit(m, f, c)
      PROVE  Kept(m, b, 1)'
  <2>1. req'[m].flow = f /\ f \in Flow
    BY <1>2, PipelineAssumption DEF Submit, TypeOK
  <2>2. EntryQueue[f] \in Queue /\ EntryQueue[f] \in BranchQueue(b)
    BY <2>1, EntryOnBranches DEF Branch
  <2>3. ready'[EntryQueue[f]][m] > 0
    BY <1>2, <2>2, PutType DEF Submit, TypeOK, BrokerType
  <2>4. Rank(EntryQueue[f]) >= 1
    BY <2>2, RankAtLeastOne
  <2> QED
    BY <2>2, <2>3, <2>4 DEF Kept, CopyAt
<1>3. ASSUME NEW f \in Offered, NEW c \in Content, SubmitFails(m, f, c)
      PROVE  FALSE
  BY <1>3 DEF SubmitFails, TypeOK
<1>4. ASSUME NEW n \in Msg, ClientStep(n), n # m PROVE req'[m] = req[m]
  BY <1>4 DEF ClientStep, Submit, SubmitFails, TypeOK
<1>5. CASE UNCHANGED req
  BY <1>1, <1>5
<1> QED
  BY <1>1, <1>2, <1>3, <1>4, <1>5
  DEF Next, ClientStep, HandlerStep, Deliver, RelayStep, Publish, FanOut, RefuseContent,
      PersistStep, Claim, FindDuplicate, ApplyDevice, InsertRow, DatabaseRefuses, Notify,
      SettleStep, Ack, Nack, Abort, FaultStep, FanOutFails, Raise, ClaimReplyLost,
      InsertReplyLost, DatabaseError, NotifyFails, LoseChannel, Crash, Reap,
      OperatorStep, Replay, ReplayCrash, Purge, vars

-----------------------------------------------------------------------------
(* The inductive invariant and what follows from it.                       *)

(* The conjunction of the properties and of the parts they rest on holds   *)
(* in every reachable state.                                               *)
THEOREM InvCorrect == Spec => []Inv
<1>1. Init => Inv
  BY TypeInit, LabelsInit, LedgerInit, AckedInit, BarrierInit, ForwardedInit DEF Inv
<1>2. Inv /\ [Next]_vars => Inv'
  BY TypeStep, LabelsStep, LedgerStep, AckedStep, BarrierStep, ForwardedStep,
     SilentLossStep
  DEF Inv
<1> QED
  BY <1>1, <1>2, PTL DEF Spec

(* A message whose client was answered 200 never vanishes: whatever        *)
(* crashes, is redelivered, dead-lettered, replayed or refused, each of    *)
(* its branches is waiting, being handled, kept or dropped on record,      *)
(* stored, or acknowledged as a duplicate.                                 *)
THEOREM NoSilentLossCorrect == Spec => []NoSilentLoss
<1>1. Inv => NoSilentLoss
  BY DEF Inv
<1> QED
  BY <1>1, InvCorrect, PTL

(* However many P4 handlers work at once on copies of a message, and       *)
(* however often it is redelivered or replayed, its row is inserted once   *)
(* as long as the reaper has not removed its znode.                        *)
THEOREM WriteOnceCorrect == Spec => []WriteOnce
<1>1. Inv => WriteOnce
  BY DEF Inv
<1> QED
  BY <1>1, InvCorrect, PTL

(* A device change is committed a second time only after the reaper        *)
(* removed the znode of its message.                                       *)
THEOREM DeviceChangedOnceCorrect == Spec => DeviceChangedOnce
<1>1. Inv => \A w \in Worker :
          (ApplyDevice(w) /\ WorkKey(w) \in applied) => WorkKey(w) \in reaped
  BY DeviceStep DEF Inv
<1> QED
  BY <1>1, InvCorrect, PTL DEF DeviceChangedOnce

(* A znode stands for a row, a handler on its way to one, or a handler     *)
(* that gave up after taking it; so does an acknowledged duplicate.        *)
THEOREM DuplicateAccountedCorrect == Spec => []DuplicateAccounted
<1>1. Inv => DuplicateAccounted
  BY DEF Inv
<1> QED
  BY <1>1, InvCorrect, PTL

(* P4 acknowledges a delivery it handled, and announces it, only when the  *)
(* row is committed.                                                       *)
THEOREM AckedIsStoredCorrect == Spec => []AckedIsStored
<1>1. Inv => AckedIsStored
  BY DEF Inv
<1> QED
  BY <1>1, InvCorrect, PTL
=============================================================================
