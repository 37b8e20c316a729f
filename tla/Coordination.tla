---------------------------- MODULE Coordination -----------------------------
(***************************************************************************)
(* One process of the pipeline on its nodes (zookeeper/zk.py and main of   *)
(* P2): how it connects to ZooKeeper, registers, follows the runtime       *)
(* configuration, and is elected or falls back to single-node mode, while  *)
(* connections drop, sessions expire and processes die.                    *)
(*                                                                         *)
(* A node's clients are numbered, since get_client replaces one that is    *)
(* not connected: the election, the configuration watch and the registry   *)
(* entry stay with the client they were made with.  That client reconnects *)
(* by itself, and if its session expired meanwhile, with a new one.        *)
(***************************************************************************)
EXTENDS Naturals

CONSTANTS
    Node,
    Value,        \* what an operator may write to the configuration key
    Readable,     \* the values that parse as the key's type
    Default,      \* _CONFIG_DEFAULTS of the key
    MaxOutages,   \* bound: connections dropped and calls failed
    MaxEnds,      \* bound: processes killed or stopped
    MaxWrites     \* bound: values written

(* There is no configuration znode yet.                                   *)
Unseeded == "unseeded"

ASSUME CoordinationAssumption ==
    /\ Default \in Readable /\ Unseeded \notin Readable \cup Value
    /\ MaxOutages \in Nat /\ MaxEnds \in Nat /\ MaxWrites \in Nat

(* No node makes more clients than there are reasons to.                   *)
Number == 1..(MaxOutages + MaxEnds + 1)
Client == Node \X Number

VARIABLES
    pc,          \* where main is
    shared,      \* zk._client: the number of the client, or 0
    elector,     \* the client that the election was made with, or 0
    watcher,     \* the client that the configuration is watched with, or 0
    seeding,     \* get_client found no configuration znode
    cache,       \* ConfigWatcher._cache
    made,        \* how many clients a node has made
    link,        \* state of a client, or of the session it left behind
    contenders,  \* the clients that have an ephemeral election znode
    ahead,       \* the contenders whose znode is older than a client's
    entry,       \* the client whose ephemeral registry znode is there, or 0
    conf,        \* the configuration znode
    expired,     \* the election's session expired after it was won
    outages, ends, writes

process == <<pc, shared, elector, watcher, seeding, cache>>
election == <<contenders, ahead>>
znodes == <<election, entry, conf>>
budgets == <<outages, ends, writes>>
vars == <<process, made, link, znodes, expired, budgets>>

Init ==
    /\ pc = [n \in Node |-> "down"]
    /\ shared = [n \in Node |-> 0]
    /\ elector = [n \in Node |-> 0]
    /\ watcher = [n \in Node |-> 0]
    /\ seeding = [n \in Node |-> FALSE]
    /\ cache = [n \in Node |-> Default]
    /\ made = [n \in Node |-> 0]
    /\ link = [c \in Client |-> "none"]
    /\ contenders = {} /\ ahead = [c \in Client |-> {}]
    /\ entry = [n \in Node |-> 0]
    /\ conf = Unseeded
    /\ expired = [n \in Node |-> FALSE]
    /\ outages = 0 /\ ends = 0 /\ writes = 0

Connected(n, k) == k # 0 /\ link[<<n, k>>] = "connected"

(* get_client returns at once.                                             *)
Ready(n) == Connected(n, shared[n]) /\ ~seeding[n]

(* Labels at which main, or a reporter of _consume, calls get_client.      *)
Calling ==
    {"register", "watch", "elect", "won", "leading", "single", "stopping"}

(* Labels between winning the election and leaving it.                     *)
Leading == {"won", "leading", "stopping"}

Launch(n) ==
    /\ pc[n] = "down"
    /\ pc' = [pc EXCEPT ![n] = "register"]
    /\ UNCHANGED <<shared, elector, watcher, seeding, cache, made, link, znodes,
                   expired, budgets>>

-----------------------------------------------------------------------------
(* get_client.                                                             *)

(* Mutant: the client that is replaced is closed.                          *)
ConnectAndClose(n) ==
    /\ pc[n] \in Calling /\ ~Connected(n, shared[n]) /\ ~seeding[n]
    /\ made[n] + 1 \in Number
    /\ made' = [made EXCEPT ![n] = @ + 1]
    /\ shared' = [shared EXCEPT ![n] = made[n] + 1]
    /\ link' = [c \in Client |->
           IF c = <<n, made[n] + 1>> THEN "connected"
           ELSE IF c = <<n, shared[n]>> THEN "closed" ELSE link[c]]
    /\ seeding' = [seeding EXCEPT ![n] = conf = Unseeded]
    /\ UNCHANGED <<pc, elector, watcher, cache, znodes, expired, budgets>>

(* A new client, whether or not an old one is still trying.  It looks for  *)
(* the configuration znode ...                                             *)
Connect(n) ==
    /\ pc[n] \in Calling /\ ~Connected(n, shared[n]) /\ ~seeding[n]
    /\ made[n] + 1 \in Number
    /\ made' = [made EXCEPT ![n] = @ + 1]
    /\ shared' = [shared EXCEPT ![n] = made[n] + 1]
    /\ link' = [link EXCEPT ![<<n, made[n] + 1>>] = "connected"]
    /\ seeding' = [seeding EXCEPT ![n] = conf = Unseeded]
    /\ UNCHANGED <<pc, elector, watcher, cache, znodes, expired, budgets>>

(* The election znodes of the clients in gone disappear.                   *)
Leave(gone) ==
    /\ contenders' = contenders \ gone
    /\ ahead' = [c \in Client |-> IF c \in gone THEN {} ELSE ahead[c] \ gone]

(* Mutant: main has no fallback, and a thread keeps the process alive.     *)
RaisedQuietly(n) ==
    \/ /\ pc[n] \in {"register", "watch"}
       /\ pc' = [pc EXCEPT ![n] = "elect"]
       /\ UNCHANGED election
    \/ /\ pc[n] \in {"elect", "won"}
       /\ pc' = [pc EXCEPT ![n] = "idle"]
       /\ UNCHANGED election
    \/ /\ pc[n] \in {"leading", "single", "stopping"}
       /\ UNCHANGED <<pc, election>>

(* What main makes of an exception: it starts without registration and     *)
(* watch, or without the election.  A winner leaves the lock, unless that  *)
(* call fails as well.  The reporters of a consuming process ignore it.    *)
Raised(n) ==
    \/ /\ pc[n] \in {"register", "watch"}
       /\ pc' = [pc EXCEPT ![n] = "elect"]
       /\ UNCHANGED election
    \/ /\ pc[n] = "elect"
       /\ pc' = [pc EXCEPT ![n] = "single"]
       /\ UNCHANGED election
    \/ /\ pc[n] = "won"
       /\ pc' = [pc EXCEPT ![n] = "single"]
       /\ UNCHANGED election \/ Leave({<<n, elector[n]>>})
    \/ /\ pc[n] \in {"leading", "single", "stopping"}
       /\ UNCHANGED <<pc, election>>

(* ... and creates it, unless another process was faster: then create      *)
(* raises.                                                                 *)
Seed(n) ==
    /\ seeding[n] /\ Connected(n, shared[n])
    /\ seeding' = [seeding EXCEPT ![n] = FALSE]
    /\ IF conf = Unseeded THEN conf' = Default /\ UNCHANGED <<pc, election>>
                          ELSE Raised(n) /\ UNCHANGED conf
    /\ UNCHANGED <<shared, elector, watcher, cache, made, link, entry, expired,
                   budgets>>

-----------------------------------------------------------------------------
(* main.                                                                   *)

Register(n) ==
    /\ pc[n] = "register" /\ Ready(n)
    /\ entry' = [entry EXCEPT ![n] = IF @ = 0 THEN shared[n] ELSE @]
    /\ pc' = [pc EXCEPT ![n] = "watch"]
    /\ UNCHANGED <<shared, elector, watcher, seeding, cache, made, link,
                   election, conf, expired, budgets>>

(* Mutant: whatever is written is taken over.                              *)
ParsedBlindly(n) == conf

(* _load: a value that does not parse leaves the default.                  *)
Parsed(n) == IF conf \in Readable THEN conf ELSE cache[n]

LoadConfig(n) ==
    /\ pc[n] = "watch" /\ Ready(n)
    /\ cache' = [cache EXCEPT ![n] = Parsed(n)]
    /\ watcher' = [watcher EXCEPT ![n] = shared[n]]
    /\ pc' = [pc EXCEPT ![n] = "elect"]
    /\ UNCHANGED <<shared, elector, seeding, made, link, znodes, expired, budgets>>

(* The client c enters the election, or enters it again.                   *)
Enter(c) ==
    /\ contenders' = contenders \cup {c}
    /\ ahead' = [ahead EXCEPT ![c] = contenders]

Contend(n) ==
    /\ pc[n] = "elect" /\ Ready(n)
    /\ elector' = [elector EXCEPT ![n] = shared[n]]
    /\ Enter(<<n, shared[n]>>)
    /\ pc' = [pc EXCEPT ![n] = "wait"]
    /\ UNCHANGED <<shared, watcher, seeding, cache, made, link, entry, conf,
                   expired, budgets>>

(* kazoo notices that its znode is gone and makes another.                 *)
Recontend(n) ==
    /\ pc[n] = "wait" /\ Connected(n, elector[n])
    /\ <<n, elector[n]>> \notin contenders
    /\ Enter(<<n, elector[n]>>)
    /\ UNCHANGED <<process, made, link, entry, conf, expired, budgets>>

First(c) == c \in contenders /\ ahead[c] = {}

(* Mutant: the callback runs before the election is decided.               *)
WinAtOnce(n) ==
    /\ pc[n] = "wait" /\ Connected(n, elector[n])
    /\ pc' = [pc EXCEPT ![n] = "won"]
    /\ UNCHANGED <<shared, elector, watcher, seeding, cache, made, link, znodes,
                   expired, budgets>>

Win(n) ==
    /\ pc[n] = "wait" /\ Connected(n, elector[n])
    /\ First(<<n, elector[n]>>)
    /\ pc' = [pc EXCEPT ![n] = "won"]
    /\ UNCHANGED <<shared, elector, watcher, seeding, cache, made, link, znodes,
                   expired, budgets>>

(* _inner of the election reports to ZooKeeper before it consumes.         *)
Lead(n) ==
    /\ pc[n] = "won" /\ Ready(n)
    /\ pc' = [pc EXCEPT ![n] = "leading"]
    /\ UNCHANGED <<shared, elector, watcher, seeding, cache, made, link, znodes,
                   expired, budgets>>

(* A call to ZooKeeper fails, or no server answers in time; the znode that *)
(* register_service creates may be there all the same.                     *)
CallFails(n) ==
    /\ pc[n] \in Calling
    /\ outages < MaxOutages /\ outages' = outages + 1
    /\ Raised(n)
    /\ seeding' = [seeding EXCEPT ![n] = FALSE]
    /\ IF Connected(n, shared[n])
       THEN /\ link' = [link EXCEPT ![<<n, shared[n]>>] = "suspended"]
            /\ UNCHANGED shared
       ELSE /\ shared' = [shared EXCEPT ![n] = 0]
            /\ UNCHANGED link
    /\ \/ UNCHANGED entry
       \/ /\ pc[n] = "register" /\ Ready(n) /\ entry[n] = 0
          /\ entry' = [entry EXCEPT ![n] = shared[n]]
    /\ UNCHANGED <<elector, watcher, cache, made, conf, expired, ends, writes>>

-----------------------------------------------------------------------------
(* The end of a process.                                                   *)

(* The process is gone.  The sessions of the clients in closed end with    *)
(* it, the others when ZooKeeper notices; left are the election znodes     *)
(* that were deleted.                                                      *)
Exit(n, closed, left) ==
    /\ pc' = [pc EXCEPT ![n] = "down"]
    /\ shared' = [shared EXCEPT ![n] = 0]
    /\ elector' = [elector EXCEPT ![n] = 0]
    /\ watcher' = [watcher EXCEPT ![n] = 0]
    /\ seeding' = [seeding EXCEPT ![n] = FALSE]
    /\ link' = [c \in Client |->
           IF c[1] # n \/ link[c] \in {"none", "closed"} THEN link[c]
           ELSE IF c \in closed THEN "closed" ELSE "dead"]
    /\ Leave(closed \cup left)
    /\ entry' = [entry EXCEPT ![n] = IF <<n, @>> \in closed THEN 0 ELSE @]
    /\ cache' = [cache EXCEPT ![n] = Default]
    /\ expired' = [expired EXCEPT ![n] = FALSE]
    /\ UNCHANGED <<made, conf>>

(* The client of n numbered k, if it is connected.                         *)
Reachable(n, k) == IF Connected(n, k) THEN {<<n, k>>} ELSE {}

End == ends < MaxEnds /\ ends' = ends + 1 /\ UNCHANGED <<outages, writes>>

Crash(n) == pc[n] # "down" /\ End /\ Exit(n, {}, {})

(* SIGTERM: _consume returns.  close_client closes a connected client.     *)
StopSingle(n) ==
    pc[n] = "single" /\ End /\ Exit(n, Reachable(n, shared[n]), {})

StopLeader(n) ==
    /\ pc[n] = "leading" /\ End
    /\ pc' = [pc EXCEPT ![n] = "stopping"]
    /\ UNCHANGED <<shared, elector, watcher, seeding, cache, made, link, znodes,
                   expired>>

(* The last report, whether it succeeds or not; the lock is left if its    *)
(* client is connected.                                                    *)
StepDown(n) ==
    /\ pc[n] = "stopping"
    /\ Exit(n, Reachable(n, shared[n]), Reachable(n, elector[n]))
    /\ UNCHANGED budgets

-----------------------------------------------------------------------------
(* ZooKeeper and the network.                                              *)

Disconnect(c) ==
    /\ link[c] = "connected"
    /\ outages < MaxOutages /\ outages' = outages + 1
    /\ link' = [link EXCEPT ![c] = "suspended"]
    /\ UNCHANGED <<process, made, znodes, expired, ends, writes>>

Reconnect(c) ==
    /\ link[c] = "suspended"
    /\ link' = [link EXCEPT ![c] = "connected"]
    /\ UNCHANGED <<process, made, znodes, expired, budgets>>

(* Mutant: the registry znode is not ephemeral.                            *)
ExpireUnlisted(c) ==
    /\ link[c] \in {"suspended", "dead"}
    /\ link' = [link EXCEPT ![c] = IF @ = "dead" THEN "closed" ELSE @]
    /\ Leave({c})
    /\ UNCHANGED <<process, made, conf, entry, expired, budgets>>

(* The session of a client that is not connected expires, with its znodes. *)
Expire(c) ==
    LET n == c[1]
    IN  /\ link[c] \in {"suspended", "dead"}
        /\ link' = [link EXCEPT ![c] = IF @ = "dead" THEN "closed" ELSE @]
        /\ Leave({c})
        /\ entry' = [entry EXCEPT ![n] = IF @ = c[2] THEN 0 ELSE @]
        /\ expired' = [expired EXCEPT
               ![n] = @ \/ (pc[n] \in Leading /\ elector[n] = c[2])]
        /\ UNCHANGED <<process, made, conf, budgets>>

(* write_config: any value is written.                                     *)
WriteConfig(v) ==
    /\ writes < MaxWrites /\ writes' = writes + 1
    /\ conf' = v
    /\ UNCHANGED <<process, made, link, election, entry, expired, outages, ends>>

(* DataWatch calls _watch on a change and after every reconnection; a      *)
(* value that does not parse is ignored.                                   *)
WatchFires(n) ==
    /\ Connected(n, watcher[n])
    /\ conf \in Readable /\ cache[n] # conf
    /\ cache' = [cache EXCEPT ![n] = conf]
    /\ UNCHANGED <<pc, shared, elector, watcher, seeding, made, link, znodes,
                   expired, budgets>>

-----------------------------------------------------------------------------
ProcessStep(n) ==
    \/ Connect(n) \/ Seed(n) \/ Register(n) \/ LoadConfig(n) \/ Contend(n)
    \/ Recontend(n) \/ Win(n) \/ Lead(n) \/ StepDown(n)

NodeStep(n) ==
    \/ ProcessStep(n) \/ WatchFires(n) \/ Launch(n) \/ CallFails(n) \/ Crash(n)
    \/ StopSingle(n) \/ StopLeader(n)

ClientStep(c) == Disconnect(c) \/ Reconnect(c) \/ Expire(c)

Next ==
    \/ \E n \in Node : NodeStep(n)
    \/ \E c \in Client : ClientStep(c)
    \/ \E v \in Value : WriteConfig(v)

Spec == Init /\ [][Next]_vars

(* Processes that can go on do so, clients reconnect, and ZooKeeper        *)
(* expires the sessions of processes that are gone.                        *)
FairSpec ==
    /\ Spec
    /\ WF_vars(\E n \in Node : ProcessStep(n))
    /\ WF_vars(\E n \in Node : WatchFires(n))
    /\ WF_vars(\E c \in Client : Reconnect(c))
    /\ WF_vars(\E c \in Client : link[c] = "dead" /\ Expire(c))

-----------------------------------------------------------------------------
(* Properties.                                                             *)

Consuming(n) == pc[n] \in {"leading", "single"}

(* Types.                                                                  *)
TypeOK ==
    /\ pc \in [Node -> Calling \cup {"down", "wait"}]
    /\ shared \in [Node -> Number \cup {0}]
    /\ elector \in [Node -> Number \cup {0}]
    /\ watcher \in [Node -> Number \cup {0}]
    /\ seeding \in [Node -> BOOLEAN]
    /\ cache \in [Node -> Readable]
    /\ made \in [Node -> Nat]
    /\ link \in [Client -> {"none", "connected", "suspended", "dead", "closed"}]
    /\ contenders \subseteq Client /\ ahead \in [Client -> SUBSET Client]
    /\ entry \in [Node -> Number \cup {0}]
    /\ conf \in Value \cup {Default, Unseeded}
    /\ expired \in [Node -> BOOLEAN]
    /\ outages \in Nat /\ ends \in Nat /\ writes \in Nat

(* Two nodes lead at the same time only after the session of one of them   *)
(* has expired: "the next candidate is automatically promoted".            *)
LeadersAccounted ==
    \A n, m \in Node :
        (n # m /\ pc[n] \in Leading /\ pc[m] \in Leading) => expired[n] \/ expired[m]

(* Whoever dies, is stopped or loses its session or its connections, some  *)
(* node consumes as long as the process runs on any.                       *)
Takeover ==
    (\E n \in Node : pc[n] # "down")
        ~> (\E n \in Node : Consuming(n)) \/ \A n \in Node : pc[n] = "down"

(* A written value that parses reaches every process that has a watch,     *)
(* through dropped connections, expired sessions and replaced clients.     *)
ConfigArrives ==
    \A n \in Node :
        (watcher[n] # 0 /\ conf \in Readable)
            ~> (cache[n] = conf \/ conf \notin Readable \/ watcher[n] = 0)

(* The registry entry of a process that is gone disappears.                *)
Delisted == \A n \in Node : pc[n] = "down" ~> entry[n] = 0 \/ pc[n] # "down"

-----------------------------------------------------------------------------
(* The inductive invariant: of two contenders one is ahead, and a leader   *)
(* whose session has not expired has nobody ahead.                         *)
Queued ==
    \A c, d \in contenders : c # d => c \in ahead[d] \/ d \in ahead[c]

HoldsLock ==
    \A n \in Node :
        (pc[n] \in Leading /\ ~expired[n]) => First(<<n, elector[n]>>)

Inv == TypeOK /\ Queued /\ HoldsLock

-----------------------------------------------------------------------------
(* What the documentation promises of the registry: a process registers on *)
(* startup, and its entry disappears when it exits or loses its session.   *)
Listed == \A n \in Node : pc[n] \in {"watch", "elect", "wait", "leading"} => entry[n] # 0
=============================================================================
