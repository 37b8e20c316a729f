-------------------------- MODULE CoordinationProofs -------------------------
(***************************************************************************)
(* Proofs about Coordination, for any nodes, values and bounds.            *)
(***************************************************************************)
EXTENDS Coordination, TLAPS

(* The election znodes as a set of clients, each with the older ones.      *)
ElectionType ==
    contenders \subseteq Client /\ ahead \in [Client -> SUBSET Client]

(* Clients that leave disturb neither the order of the others (the         *)
(* ephemeral znodes of the election are deleted) ...                       *)
LEMMA LeaveKeepsQueue ==
    ASSUME ElectionType, Queued, NEW gone \in SUBSET Client, Leave(gone)
    PROVE  ElectionType' /\ Queued'
  BY DEF ElectionType, Queued, Leave

(* ... nor who is the first of them.                                       *)
LEMMA LeaveKeepsFirst ==
    ASSUME ElectionType, NEW gone \in SUBSET Client, Leave(gone),
           NEW c, c \notin gone, First(c)
    PROVE  First(c)'
  BY DEF ElectionType, First, Leave

(* A client that enters the election (LeaderElection.run) comes last.      *)
LEMMA EnterKeepsQueue ==
    ASSUME ElectionType, Queued, NEW c \in Client, Enter(c)
    PROVE  /\ ElectionType' /\ Queued'
           /\ \A d : (d # c /\ First(d)) => First(d)'
  BY DEF ElectionType, Queued, Enter, First

-----------------------------------------------------------------------------
(* The invariant.                                                          *)

(* The state before any process runs.                                      *)
LEMMA InvInit ==
    ASSUME CoordinationAssumption, Init
    PROVE  Inv
  BY DEF CoordinationAssumption, Init, Inv, TypeOK, Queued, HoldsLock, Client,
         Calling, Leading

(* What a fallback of main does to the label and to the election.          *)
LEMMA RaisedEffect ==
    ASSUME Inv, NEW n \in Node, Raised(n)
    PROVE  /\ pc' \in [Node -> Calling \cup {"down", "wait"}]
           /\ ElectionType' /\ Queued'
           /\ \A m \in Node : (pc'[m] \in Leading) => pc[m] \in Leading
           /\ \A m \in Node : \A k : (pc'[m] \in Leading /\ First(<<m, k>>))
                  => First(<<m, k>>)'
  <1>1. CASE UNCHANGED election
    BY <1>1 DEF Inv, TypeOK, Raised, Calling, Leading, ElectionType, Queued,
                First, election
  <1>2. CASE /\ pc[n] = "won" /\ pc' = [pc EXCEPT ![n] = "single"]
             /\ Leave({<<n, elector[n]>>})
    <2>1. pc' \in [Node -> Calling \cup {"down", "wait"}]
      BY <1>2 DEF Inv, TypeOK, Calling
    <2>2. \A m \in Node : (pc'[m] \in Leading) => m # n /\ pc[m] \in Leading
      BY <1>2 DEF Inv, TypeOK, Leading
    <2>3. ElectionType' /\ Queued'
      BY <1>2 DEF Inv, TypeOK, ElectionType, Queued, Leave
    <2>4. \A m \in Node : \A k : (m # n /\ First(<<m, k>>)) => First(<<m, k>>)'
      BY <1>2 DEF Inv, TypeOK, First, Leave
    <2>. QED
      BY <2>1, <2>2, <2>3, <2>4
  <1>. QED
    BY <1>1, <1>2 DEF Raised

(* The end of a process takes away no znode but its own.                   *)
LEMMA ExitEffect ==
    ASSUME CoordinationAssumption, Inv, NEW n \in Node, NEW closed, NEW left,
           closed \cup left \subseteq {<<n, k>> : k \in Number},
           Exit(n, closed, left)
    PROVE  /\ pc' \in [Node -> Calling \cup {"down", "wait"}]
           /\ shared' \in [Node -> Number \cup {0}]
           /\ elector' \in [Node -> Number \cup {0}]
           /\ watcher' \in [Node -> Number \cup {0}]
           /\ seeding' \in [Node -> BOOLEAN]
           /\ cache' \in [Node -> Readable]
           /\ made' \in [Node -> Nat]
           /\ link' \in [Client -> {"none", "connected", "suspended", "dead", "closed"}]
           /\ entry' \in [Node -> Number \cup {0}]
           /\ conf' \in Value \cup {Default, Unseeded}
           /\ expired' \in [Node -> BOOLEAN]
           /\ ElectionType' /\ Queued' /\ HoldsLock'
  <1>. DEFINE gone == closed \cup left
  <1>1. gone \in SUBSET Client /\ Leave(gone)
    BY DEF Exit, Client
  <1>2. ElectionType /\ Queued /\ HoldsLock
    BY DEF Inv, TypeOK, ElectionType
  <1>3. ElectionType' /\ Queued'
    BY <1>1, <1>2, LeaveKeepsQueue
  <1>4. /\ pc' \in [Node -> Calling \cup {"down", "wait"}]
        /\ shared' \in [Node -> Number \cup {0}]
        /\ elector' \in [Node -> Number \cup {0}]
        /\ watcher' \in [Node -> Number \cup {0}]
        /\ seeding' \in [Node -> BOOLEAN]
    BY DEF Exit, Inv, TypeOK
  <1>5. /\ cache' \in [Node -> Readable]
        /\ made' \in [Node -> Nat]
        /\ conf' \in Value \cup {Default, Unseeded}
        /\ expired' \in [Node -> BOOLEAN]
        /\ entry' \in [Node -> Number \cup {0}]
    BY DEF Exit, Inv, TypeOK, CoordinationAssumption
  <1>6. link' \in [Client -> {"none", "connected", "suspended", "dead", "closed"}]
    BY DEF Exit, Inv, TypeOK
  <1>7. HoldsLock'
    <2>. SUFFICES ASSUME NEW m \in Node, pc'[m] \in Leading, ~expired'[m]
                  PROVE  First(<<m, elector[m]>>)' 
      BY DEF HoldsLock
    <2>1. m # n /\ pc'[m] = pc[m] /\ expired'[m] = expired[m] /\ elector'[m] = elector[m]
      BY DEF Exit, Inv, TypeOK, Leading
    <2>2. First(<<m, elector[m]>>) /\ <<m, elector[m]>> \notin gone
      BY <1>2, <2>1 DEF HoldsLock
    <2>. QED
      BY <1>1, <1>2, <2>1, <2>2 DEF First, Leave, ElectionType
  <1>. QED
    BY <1>3, <1>4, <1>5, <1>6, <1>7

(* The invariant holds after a step that changes neither the election nor  *)
(* who leads, elects or has lost its session.                              *)
LEMMA StableElection ==
    ASSUME Inv, UNCHANGED election,
           \A m \in Node : (pc'[m] \in Leading) => pc[m] \in Leading,
           \A m \in Node : pc[m] \in Leading => elector'[m] = elector[m],
           \A m \in Node : expired[m] => expired'[m]
    PROVE  Queued' /\ HoldsLock'
  BY DEF Inv, TypeOK, Queued, HoldsLock, First, election

(* A step of a process or of a client of it.                               *)
LEMMA NodeStepKeepsInv ==
    ASSUME CoordinationAssumption, Inv, NEW n \in Node, NodeStep(n)
    PROVE  Inv'
  <1>. USE DEF CoordinationAssumption, Inv, process, znodes, election, budgets
  <1>. Queued /\ HoldsLock /\ ElectionType
    BY DEF TypeOK, ElectionType
  <1>1. CASE Connect(n)
    <2>1. TypeOK'
      BY <1>1 DEF TypeOK, Connect, Client, Number
    <2>2. Queued' /\ HoldsLock'
      BY <1>1, StableElection DEF Connect
    <2>. QED
      BY <2>1, <2>2
  <1>2. CASE Seed(n)
    <2>1. CASE conf = Unseeded
      <3>1. TypeOK'
        BY <1>2, <2>1 DEF TypeOK, Seed
      <3>2. Queued' /\ HoldsLock'
        BY <1>2, <2>1, StableElection DEF Seed
      <3>. QED
        BY <3>1, <3>2
    <2>2. CASE conf # Unseeded
      <3>1. Raised(n) /\ UNCHANGED conf
        BY <1>2, <2>2 DEF Seed
      <3>2. TypeOK' /\ Queued'
        BY <1>2, <3>1, RaisedEffect DEF Seed, TypeOK, ElectionType
      <3>3. HoldsLock'
        BY <1>2, <3>1, RaisedEffect DEF Seed, HoldsLock, First
      <3>. QED
        BY <3>2, <3>3
    <2>. QED
      BY <2>1, <2>2
  <1>3. CASE Register(n)
    <2>1. TypeOK'
      BY <1>3 DEF TypeOK, Register, Calling
    <2>2. Queued' /\ HoldsLock'
      BY <1>3, StableElection DEF Register, Leading, TypeOK
    <2>. QED
      BY <2>1, <2>2
  <1>4. CASE LoadConfig(n)
    <2>1. TypeOK'
      BY <1>4 DEF TypeOK, LoadConfig, Parsed, Calling
    <2>2. Queued' /\ HoldsLock'
      BY <1>4, StableElection DEF LoadConfig, Leading, TypeOK
    <2>. QED
      BY <2>1, <2>2
  <1>5. CASE Contend(n)
    <2>. DEFINE c == <<n, shared[n]>>
    <2>1. c \in Client
      BY <1>5 DEF TypeOK, Contend, Ready, Connected, Client
    <2>2. Enter(c)
      BY <1>5 DEF Contend
    <2>3. /\ ElectionType' /\ Queued'
          /\ \A d : (d # c /\ First(d)) => First(d)'
      BY <2>1, <2>2, EnterKeepsQueue
    <2>4. TypeOK'
      BY <1>5, <2>3 DEF TypeOK, Contend, ElectionType, Calling
    <2>5. HoldsLock'
      <3>. SUFFICES ASSUME NEW m \in Node, pc'[m] \in Leading, ~expired'[m]
                    PROVE  First(<<m, elector[m]>>)'
        BY DEF HoldsLock, First
      <3>1. m # n /\ pc'[m] = pc[m] /\ elector'[m] = elector[m] /\ ~expired[m]
        BY <1>5 DEF Contend, TypeOK, Leading
      <3>2. First(<<m, elector[m]>>)
        BY <3>1 DEF HoldsLock
      <3>. QED
        BY <2>3, <3>1, <3>2 DEF First
    <2>. QED
      BY <2>3, <2>4, <2>5
  <1>6. CASE Recontend(n)
    <2>. DEFINE c == <<n, elector[n]>>
    <2>1. c \in Client
      BY <1>6 DEF TypeOK, Recontend, Connected, Client
    <2>2. /\ ElectionType' /\ Queued'
          /\ \A d : (d # c /\ First(d)) => First(d)'
      BY <1>6, <2>1, EnterKeepsQueue DEF Recontend
    <2>3. TypeOK'
      BY <1>6, <2>2 DEF TypeOK, Recontend, ElectionType
    <2>4. HoldsLock'
      BY <1>6, <2>2 DEF Recontend, HoldsLock, First, Leading
    <2>. QED
      BY <2>2, <2>3, <2>4
  <1>7. CASE Win(n)
    <2>1. TypeOK'
      BY <1>7 DEF TypeOK, Win, Calling
    <2>2. Queued'
      BY <1>7 DEF Win, Queued
    <2>3. HoldsLock'
      BY <1>7 DEF Win, HoldsLock, First, TypeOK
    <2>. QED
      BY <2>1, <2>2, <2>3
  <1>8. CASE Lead(n)
    <2>1. TypeOK'
      BY <1>8 DEF TypeOK, Lead, Calling
    <2>2. Queued' /\ HoldsLock'
      BY <1>8, StableElection DEF Lead, Leading, TypeOK
    <2>. QED
      BY <2>1, <2>2
  <1>9. CASE StepDown(n)
    <2>1. /\ Exit(n, Reachable(n, shared[n]), Reachable(n, elector[n]))
          /\ Reachable(n, shared[n]) \cup Reachable(n, elector[n])
                 \subseteq {<<n, k>> : k \in Number}
      BY <1>9 DEF StepDown, Reachable, Connected, TypeOK
    <2>. QED
      BY <1>9, <2>1, ExitEffect DEF StepDown, TypeOK, ElectionType
  <1>10. CASE WatchFires(n)
    <2>1. TypeOK'
      BY <1>10 DEF TypeOK, WatchFires
    <2>2. Queued' /\ HoldsLock'
      BY <1>10, StableElection DEF WatchFires
    <2>. QED
      BY <2>1, <2>2
  <1>11. CASE Launch(n)
    <2>1. TypeOK'
      BY <1>11 DEF TypeOK, Launch, Calling
    <2>2. Queued' /\ HoldsLock'
      BY <1>11, StableElection DEF Launch, Leading, TypeOK
    <2>. QED
      BY <2>1, <2>2
  <1>12. CASE CallFails(n)
    <2>1. /\ outages' \in Nat
          /\ link' \in [Client -> {"none", "connected", "suspended", "dead", "closed"}]
          /\ shared' \in [Node -> Number \cup {0}]
          /\ entry' \in [Node -> Number \cup {0}]
          /\ seeding' \in [Node -> BOOLEAN]
      <3>1. outages' \in Nat /\ seeding' \in [Node -> BOOLEAN]
        BY <1>12 DEF CallFails, TypeOK
      <3>2. shared' \in [Node -> Number \cup {0}]
        BY <1>12 DEF CallFails, TypeOK
      <3>3. link' \in [Client -> {"none", "connected", "suspended", "dead", "closed"}]
        BY <1>12 DEF CallFails, TypeOK
      <3>4. entry' \in [Node -> Number \cup {0}]
        BY <1>12 DEF CallFails, TypeOK
      <3>. QED
        BY <3>1, <3>2, <3>3, <3>4
    <2>2. Raised(n)
      BY <1>12 DEF CallFails
    <2>3. TypeOK' /\ Queued'
      BY <1>12, <2>1, <2>2, RaisedEffect DEF CallFails, TypeOK, ElectionType
    <2>4. HoldsLock'
      BY <1>12, <2>2, RaisedEffect DEF CallFails, HoldsLock, First
    <2>. QED
      BY <2>3, <2>4
  <1>13. CASE Crash(n)
    BY <1>13, ExitEffect DEF Crash, End, TypeOK, ElectionType
  <1>14. CASE StopSingle(n)
    <2>1. /\ Exit(n, Reachable(n, shared[n]), {})
          /\ Reachable(n, shared[n]) \cup {} \subseteq {<<n, k>> : k \in Number}
      BY <1>14 DEF StopSingle, Reachable, Connected, TypeOK
    <2>. QED
      BY <1>14, <2>1, ExitEffect DEF StopSingle, End, TypeOK, ElectionType
  <1>15. CASE StopLeader(n)
    <2>1. TypeOK'
      BY <1>15 DEF TypeOK, StopLeader, End, Calling
    <2>2. Queued' /\ HoldsLock'
      BY <1>15, StableElection DEF StopLeader, Leading, TypeOK
    <2>. QED
      BY <2>1, <2>2
  <1>. QED
    BY <1>1, <1>2, <1>3, <1>4, <1>5, <1>6, <1>7, <1>8, <1>9, <1>10, <1>11, <1>12,
       <1>13, <1>14, <1>15 DEF NodeStep, ProcessStep

(* A step of ZooKeeper or of the network.                                  *)
LEMMA ClientStepKeepsInv ==
    ASSUME CoordinationAssumption, Inv, NEW c \in Client, ClientStep(c)
    PROVE  Inv'
  <1>. USE DEF Inv, process, znodes, election, budgets
  <1>. Queued /\ HoldsLock /\ ElectionType
    BY DEF TypeOK, ElectionType
  <1>1. CASE Disconnect(c) \/ Reconnect(c)
    <2>1. TypeOK'
      BY <1>1 DEF TypeOK, Disconnect, Reconnect
    <2>2. Queued' /\ HoldsLock'
      BY <1>1 DEF Disconnect, Reconnect, Queued, HoldsLock, First
    <2>. QED
      BY <2>1, <2>2
  <1>2. CASE Expire(c)
    <2>1. c[1] \in Node /\ c = <<c[1], c[2]>>
      BY DEF Client
    <2>2. Leave({c}) /\ {c} \in SUBSET Client
      BY <1>2 DEF Expire
    <2>3. ElectionType' /\ Queued'
      BY <2>2, LeaveKeepsQueue
    <2>4. TypeOK'
      BY <1>2, <2>1, <2>3 DEF TypeOK, Expire, ElectionType
    <2>5. HoldsLock'
      <3>. SUFFICES ASSUME NEW m \in Node, pc'[m] \in Leading, ~expired'[m]
                    PROVE  First(<<m, elector[m]>>)'
        BY DEF HoldsLock, First
      <3>1. pc' = pc /\ elector' = elector /\ ~expired[m]
        BY <1>2, <2>1 DEF Expire, TypeOK
      <3>2. <<m, elector[m]>> # c
        <4>. SUFFICES ASSUME <<m, elector[m]>> = c
                      PROVE  FALSE
          OBVIOUS
        <4>1. m = c[1] /\ elector[m] = c[2]
          BY <2>1
        <4>. QED
          BY <1>2, <3>1, <4>1 DEF Expire, TypeOK
      <3>3. First(<<m, elector[m]>>)
        BY <3>1 DEF HoldsLock
      <3>. QED
        BY <2>2, <3>1, <3>2, <3>3, LeaveKeepsFirst DEF First, Leave, ElectionType
    <2>. QED
      BY <2>3, <2>4, <2>5
  <1>. QED
    BY <1>1, <1>2 DEF ClientStep

(* An operator writes the configuration (write_config).                    *)
LEMMA WriteKeepsInv ==
    ASSUME CoordinationAssumption, Inv, NEW v \in Value, WriteConfig(v)
    PROVE  Inv'
  BY DEF WriteConfig, Inv, TypeOK, Queued, HoldsLock, First, process, election

(* No step breaks the invariant.                                           *)
LEMMA NextKeepsInv ==
    ASSUME CoordinationAssumption, Inv, [Next]_vars
    PROVE  Inv'
  <1>1. CASE Next
    BY <1>1, NodeStepKeepsInv, ClientStepKeepsInv, WriteKeepsInv DEF Next
  <1>2. CASE UNCHANGED vars
    BY <1>2 DEF vars, process, znodes, election, budgets, Inv, TypeOK, Queued,
                HoldsLock, First
  <1>. QED
    BY <1>1, <1>2

(* Every process keeps its types, the election znodes stay in an order,    *)
(* and who won the election (LeaderElection._wrap) and has not lost its    *)
(* session is the first of them, however clients are replaced, calls fail, *)
(* sessions expire and processes die.                                      *)
THEOREM InvCorrect ==
    ASSUME CoordinationAssumption
    PROVE  Spec => []Inv
  <1>1. Init => Inv
    BY InvInit
  <1>2. Inv /\ [Next]_vars => Inv'
    BY NextKeepsInv
  <1>. QED
    BY <1>1, <1>2, PTL DEF Spec

(* Of two nodes that consume as leaders, one has lost its session.         *)
LEMMA InvImpliesAccounted ==
    ASSUME Inv
    PROVE  LeadersAccounted
  <1>. SUFFICES ASSUME NEW n \in Node, NEW m \in Node, n # m,
                       pc[n] \in Leading, pc[m] \in Leading,
                       ~expired[n], ~expired[m]
                PROVE  FALSE
    BY DEF LeadersAccounted
  <1>1. First(<<n, elector[n]>>) /\ First(<<m, elector[m]>>)
    BY DEF Inv, HoldsLock
  <1>2. <<n, elector[n]>> # <<m, elector[m]>>
    OBVIOUS
  <1>. QED
    BY <1>1, <1>2 DEF Inv, Queued, First

(* Two nodes lead at once only if the session of one of them expired:      *)
(* "one node wins the election per process name" up to the leader that     *)
(* goes on consuming because _consume never asks whether it still leads.   *)
THEOREM LeadersAccountedCorrect ==
    ASSUME CoordinationAssumption
    PROVE  Spec => []LeadersAccounted
  BY InvCorrect, InvImpliesAccounted, PTL
=============================================================================
