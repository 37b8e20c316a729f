---------------------------- MODULE MigrateQueue ----------------------------
(***************************************************************************)
(* scripts/migrate_queue_type.py: one queue is changed to another type by  *)
(* moving its messages to a temporary queue, deleting it, declaring it     *)
(* again and moving the messages back.  The tool can die at any point and  *)
(* be run again, towards the same type or back to the other.               *)
(*                                                                         *)
(* A message that was fetched and not acknowledged keeps its place on its  *)
(* queue, but is not seen there: neither basic_get nor a message count     *)
(* looks at more than what is ready.  If the tool dies, the broker makes   *)
(* the message ready again when it notices.                                *)
(***************************************************************************)
EXTENDS Naturals, SequencesExt, FiniteSets

CONSTANTS
    Msg,
    Waiting,    \* the messages on the queue when the tool is first run
    Late,       \* messages P1 publishes meanwhile (none, if it was stopped)
    Goals,      \* bound: the types the operator asks for
    MaxKills,   \* bound: how often the tool dies
    Hasty       \* whether it is run again before the broker notices

Kind == {"classic", "quorum"}

ASSUME MigrateAssumption ==
    /\ Waiting \in Seq(Msg)
    /\ Late \subseteq Msg
    /\ Goals \subseteq Kind
    /\ MaxKills \in Nat
    /\ Hasty \in BOOLEAN

Name == {"queue", "temp"}

VARIABLES
    kind,       \* [Name -> type of the queue, or "none" if it does not exist]
    content,    \* [Name -> Seq(Msg)]
    hidden,     \* [Name -> how many messages at its head dead tools hold]
    pc,         \* where the tool is
    way,        \* "out" to the temporary queue, or "back"
    goal,       \* --to
    taken,      \* messages that RabbitMQ has confirmed
    kills       \* kill budget used

vars == <<kind, content, hidden, pc, way, goal, taken, kills>>

Source == IF way = "out" THEN "queue" ELSE "temp"
Destination == IF way = "out" THEN "temp" ELSE "queue"

Elements(s) == {s[i] : i \in DOMAIN s}

(* What is ready on a queue while the tool holds nothing.  Messages are    *)
(* taken from the head, so what dead tools hold is ahead of it.            *)
Ready(q) == SubSeq(content[q], hidden[q] + 1, Len(content[q]))

(* The message that the tool has fetched.                                  *)
Fetched == content[Source][hidden[Source] + 1]

Init ==
    /\ \E k \in Kind : kind = [queue |-> k, temp |-> "none"]
    /\ content = [queue |-> Waiting, temp |-> << >>]
    /\ hidden = [q \in Name |-> 0]
    /\ pc = "idle" /\ way = "out" /\ goal = "none"
    /\ taken = Elements(Waiting)
    /\ kills = 0

(* The operator runs the tool, also after it died or finished.             *)
Start(k) ==
    /\ pc \in {"idle", "done"}
    /\ Hasty \/ \A q \in Name : hidden[q] = 0
    /\ pc' = "declare" /\ goal' = k
    /\ UNCHANGED <<kind, content, hidden, way, taken, kills>>

(* _declare: creates what is missing; another type is refused.             *)
Declare(q) ==
    kind' = IF kind[q] = "none" THEN [kind EXCEPT ![q] = goal] ELSE kind

(* Mutant: a leftover temporary queue goes unnoticed.                      *)
SurveyQueueOnly ==
    /\ pc = "declare"
    /\ Declare("queue")
    /\ pc' = IF kind'["queue"] # goal THEN "declare_temp" ELSE "done"
    /\ UNCHANGED <<content, way, goal, taken, kills>>

(* Mutant: a leftover is moved back before the type is looked at.          *)
SurveyBackFirst ==
    /\ pc = "declare"
    /\ Declare("queue")
    /\ pc' = IF kind["temp"] # "none" THEN "redeclare"
             ELSE IF kind'["queue"] # goal THEN "declare_temp" ELSE "done"
    /\ UNCHANGED <<content, way, goal, taken, kills>>

(* migrate_one begins: the queue has another type, or a temporary queue is *)
(* left over, or there is nothing to do.                                   *)
Survey ==
    /\ pc = "declare"
    /\ Declare("queue")
    /\ pc' = IF kind'["queue"] # goal THEN "declare_temp"
             ELSE IF kind["temp"] # "none" THEN "redeclare" ELSE "done"
    /\ UNCHANGED <<content, way, goal, taken, kills>>

(* The answer of this _declare is ignored: a leftover of either type will  *)
(* do.                                                                     *)
DeclareTemp ==
    /\ pc = "declare_temp"
    /\ Declare("temp")
    /\ pc' = "get" /\ way' = "out"
    /\ UNCHANGED <<content, goal, taken, kills>>

(* _move: basic_get.                                                       *)
Fetch ==
    /\ pc = "get" /\ Ready(Source) # << >>
    /\ pc' = "fetched"
    /\ UNCHANGED <<kind, content, way, goal, taken, kills>>

(* Mutant: acknowledged without waiting, the copy lost.                    *)
CopyUnconfirmed ==
    /\ pc = "fetched"
    /\ content' \in {content, [content EXCEPT ![Destination] = Append(@, Fetched)]}
    /\ pc' = "ack"
    /\ UNCHANGED <<kind, way, goal, taken, kills>>

(* basic_publish: the copy is confirmed.                                   *)
Copy ==
    /\ pc = "fetched"
    /\ content' = [content EXCEPT ![Destination] = Append(@, Fetched)]
    /\ pc' = "ack"
    /\ UNCHANGED <<kind, way, goal, taken, kills>>

(* Mutant: the original is never acknowledged.                             *)
AckForgotten ==
    /\ pc = "ack"
    /\ pc' = "get"
    /\ UNCHANGED <<kind, content, way, goal, taken, kills>>

Ack ==
    /\ pc = "ack"
    /\ content' = [content EXCEPT ![Source] = RemoveAt(@, hidden[Source] + 1)]
    /\ pc' = "get"
    /\ UNCHANGED <<kind, way, goal, taken, kills>>

(* basic_get finds nothing: _move returns.                                 *)
Drained ==
    /\ pc = "get" /\ Ready(Source) = << >>
    /\ pc' = "count"
    /\ UNCHANGED <<kind, content, way, goal, taken, kills>>

(* Mutant: an empty queue does not count as empty.                         *)
CountAgain ==
    /\ pc = "count"
    /\ pc' = "get"
    /\ UNCHANGED <<kind, content, way, goal, taken, kills>>

(* _delete_if_empty asks for the message count and deletes afterwards.     *)
(* The count leaves out what a dead tool still holds.                      *)
Count ==
    /\ pc = "count"
    /\ pc' = IF Ready(Source) = << >> THEN "delete" ELSE "get"
    /\ UNCHANGED <<kind, content, way, goal, taken, kills>>

Delete ==
    /\ pc = "delete"
    /\ kind' = [kind EXCEPT ![Source] = "none"]
    /\ content' = [content EXCEPT ![Source] = << >>]
    /\ hidden' = [hidden EXCEPT ![Source] = 0]
    /\ pc' = IF way = "out" THEN "redeclare" ELSE "done"
    /\ UNCHANGED <<way, goal, taken, kills>>

Redeclare ==
    /\ pc = "redeclare"
    /\ Declare("queue")
    /\ IF kind["temp"] # "none" THEN pc' = "get" /\ way' = "back"
                                ELSE pc' = "done" /\ UNCHANGED way
    /\ UNCHANGED <<content, goal, taken, kills>>

(* The tool dies, or a call raises out of main.                            *)
Kill ==
    /\ pc \notin {"idle", "done"}
    /\ kills < MaxKills
    /\ kills' = kills + 1
    /\ pc' = "idle"
    /\ hidden' = IF pc \in {"fetched", "ack"}
                 THEN [hidden EXCEPT ![Source] = @ + 1] ELSE hidden
    /\ UNCHANGED <<kind, content, way, goal, taken>>

(* The broker notices, at once or after a while, that connections are dead *)
(* (of all of them together, between two messages of the tool that runs).  *)
Notice ==
    /\ pc \notin {"fetched", "ack"}
    /\ \E q \in Name : hidden[q] # 0
    /\ hidden' = [q \in Name |-> 0]
    /\ UNCHANGED <<kind, content, pc, way, goal, taken, kills>>

(* P1 publishes to the queue, confirmed; it has no consumer that the tool  *)
(* would see.  Without the queue the publish is unroutable.                *)
Publish(m) ==
    /\ m \notin taken /\ kind["queue"] # "none"
    /\ content' = [content EXCEPT !["queue"] = Append(@, m)]
    /\ taken' = taken \cup {m}
    /\ UNCHANGED <<kind, hidden, pc, way, goal, kills>>

ToolStep ==
    \/ /\ \/ Survey \/ DeclareTemp \/ Redeclare
          \/ Fetch \/ Copy \/ Ack \/ Drained \/ Count
       /\ UNCHANGED hidden
    \/ Delete

Next ==
    \/ \E k \in Goals : Start(k)
    \/ ToolStep
    \/ Kill \/ Notice
    \/ \E m \in Late : Publish(m)

Spec == Init /\ [][Next]_vars

(* The tool is one process that the system runs.                           *)
FairSpec == Spec /\ WF_vars(ToolStep)

-----------------------------------------------------------------------------
(* Properties.                                                             *)

Moving == {"get", "fetched", "ack", "count", "delete"}
Label == {"idle", "declare", "declare_temp", "redeclare", "done"} \cup Moving

(* Types.                                                                  *)
TypeOK ==
    /\ kind \in [Name -> Kind \cup {"none"}]
    /\ content \in [Name -> Seq(Msg)]
    /\ hidden \in [Name -> Nat]
    /\ pc \in Label
    /\ way \in {"out", "back"}
    /\ goal \in Kind \cup {"none"}
    /\ taken \in SUBSET Msg
    /\ kills \in Nat

Has(q, m) == m \in Elements(content[q])

(* Whatever step the tool dies at and whichever way it is run next, every  *)
(* message is on the queue or on the temporary queue ("keeping every       *)
(* waiting message", "The script is safe to re-run").                      *)
NothingLost == \A m \in taken : Has("queue", m) \/ Has("temp", m)

(* A run that is not killed leaves the queue with the type asked for, and  *)
(* no temporary queue.                                                     *)
Completed == pc = "done" => kind["queue"] = goal /\ kind["temp"] = "none"

(* Each time the tool dies leaves at most one copy more, of one message.   *)
OneCopyPerKill ==
    LET total == Len(content["queue"]) + Len(content["temp"])
    IN  /\ total <= Len(Waiting) + kills + 1
        /\ pc # "ack" => total <= Len(Waiting) + kills

(* However often it dies on the way to one type, messages are handed out   *)
(* in the order in which they were waiting, repetitions aside.             *)
InOrder ==
    \A i, j \in DOMAIN Waiting : i < j =>
        \E p \in DOMAIN content["queue"] :
            /\ content["queue"][p] = Waiting[i]
            /\ \A r \in 1..p : content["queue"][r] # Waiting[j]

OrderKept ==
    \A k \in Kind : [](goal \in {"none", k}) => [](pc = "done" => InOrder)

(* A run that is not killed ends: neither drain-and-delete loop goes on    *)
(* for ever.                                                               *)
EveryRunEnds == pc = "declare" ~> pc \in {"idle", "done"}

-----------------------------------------------------------------------------
(* The inductive invariant, of a tool that is not run hastily.             *)

(* Which queues exist where the tool is, and what it knows of them.        *)
Stage ==
    /\ \A q \in Name : kind[q] = "none" => content[q] = << >>
    /\ pc \notin {"idle", "done"} => goal \in Kind
    /\ pc = "declare_temp" => kind["queue"] # "none"
    /\ pc = "redeclare" => kind["queue"] \in {"none", goal}
    /\ pc \in Moving =>
          /\ kind["queue"] # "none" /\ kind["temp"] # "none"
          /\ way = "back" => kind["queue"] = goal
    /\ pc # "idle" => \A q \in Name : hidden[q] = 0
    /\ pc \in {"fetched", "ack"} => content[Source] # << >>
    /\ pc = "ack" => Has(Destination, Fetched)
    /\ pc = "delete" => content[Source] = << >>

Inv == TypeOK /\ Stage /\ NothingLost /\ Completed /\ OneCopyPerKill
=============================================================================
