------------------------------ MODULE Topology ------------------------------
(***************************************************************************)
(* The RabbitMQ queues of the FlowFirst pipeline and the routing that the  *)
(* handlers of the five processes hard-wire: which queue each handler      *)
(* consumes and which queue it publishes to.  Only data, no behaviour.     *)
(*                                                                         *)
(*   P1 API gateway   P2 transformer   P3 forwarder   P4 db updater        *)
(*   P5 remote worker                                                      *)
(***************************************************************************)
EXTENDS Integers

Flow == 1..7

(* P1: the queue publish_flow<f>_message sends a new message to.           *)
EntryQueue ==
    << "flow1_p1_to_p2", "flow2_p1_to_p2", "flow3_p1_to_p5",
       "flow4_p1_to_p2", "flow5_p1_to_p2", "flow6_p1_to_p2",
       "flow7_p1_to_p2" >>

(* One field per handler: the queue it consumes |-> the queue it publishes *)
(* to before it acknowledges.                                              *)
P2Publishes ==
    [ flow1_p1_to_p2 |-> "flow1_p2_to_p3",
      flow2_p1_to_p2 |-> "flow2_p2_to_p3",
      flow3_p5_to_p2 |-> "flow3_p2_to_p4",
      flow4_p1_to_p2 |-> "flow4_p2_to_p3",
      flow5_p1_to_p2 |-> "flow5_p2_to_p3",
      flow6_p1_to_p2 |-> "flow6_p2_to_p3",
      flow6_p5_to_p2 |-> "flow6_p2_to_p4",
      flow7_p1_to_p2 |-> "flow7_p2_to_p3" ]

P3Publishes ==
    [ flow1_p2_to_p3 |-> "flow1_p3_to_p4",
      flow2_p2_to_p3 |-> "flow2_p3_reflected",
      flow4_p2_to_p3 |-> "flow4_p3_to_p4",
      flow5_p2_to_p3 |-> "flow5_p3_to_p4",
      flow6_p2_to_p3 |-> "flow6_p3_to_p4",
      flow7_p2_to_p3 |-> "flow7_p3_to_p4" ]

(* Mutant: the queues of flows 3 and 6 swapped.                            *)
P5PublishesSwapped ==
    [ flow3_p1_to_p5 |-> "flow6_p5_to_p2",
      flow6_p3_to_p5 |-> "flow3_p5_to_p2" ]

P5Publishes ==
    [ flow3_p1_to_p5 |-> "flow3_p5_to_p2",
      flow6_p3_to_p5 |-> "flow6_p5_to_p2" ]

(* Flow 6 only: P3 publishes the same body a second time, to P5.           *)
FanOutFrom == "flow6_p2_to_p3"
FanOutTo   == "flow6_p3_to_p5"

P4Queue ==
    { "flow1_p3_to_p4", "flow2_p3_reflected", "flow3_p2_to_p4",
      "flow4_p3_to_p4", "flow5_p3_to_p4", "flow6_p3_to_p4",
      "flow6_p2_to_p4", "flow7_p3_to_p4" }

P2Queue == DOMAIN P2Publishes
P3Queue == DOMAIN P3Publishes
P5Queue == DOMAIN P5Publishes
RelayQueue == P2Queue \cup P3Queue \cup P5Queue
Queue == RelayQueue \cup P4Queue

(* The queue the relay consuming q publishes to first.                     *)
Downstream(q) ==
    IF q \in P2Queue THEN P2Publishes[q]
    ELSE IF q \in P3Queue THEN P3Publishes[q]
    ELSE P5Publishes[q]

(* The queues the pattern ^flow[123]_ of the dead-letter policy matches.   *)
DlxQueue ==
    { "flow1_p1_to_p2", "flow1_p2_to_p3", "flow1_p3_to_p4",
      "flow2_p1_to_p2", "flow2_p2_to_p3", "flow2_p3_reflected",
      "flow3_p1_to_p5", "flow3_p5_to_p2", "flow3_p2_to_p4" }

(* The two branches a message can travel and the queues of each: a flow-6  *)
(* message travels both, any other message the direct one only.            *)
Branch == {"direct", "remote"}
Travels == [f \in Flow |-> IF f = 6 THEN Branch ELSE {"direct"}]
RemoteOnly == {"flow6_p3_to_p5", "flow6_p5_to_p2", "flow6_p2_to_p4"}
BranchQueue(b) ==
    IF b = "remote" THEN {"flow6_p1_to_p2", "flow6_p2_to_p3"} \cup RemoteOnly
    ELSE Queue \ RemoteOnly

(* How far along its branch a queue is: every publish goes to a queue of   *)
(* higher rank.                                                            *)
Rank(q) ==
    IF q \in P4Queue THEN 5
    ELSE IF q = "flow6_p5_to_p2" THEN 4
    ELSE IF q = FanOutTo THEN 3
    ELSE IF q \in P3Queue \cup {"flow3_p5_to_p2"} THEN 2
    ELSE 1
=============================================================================
