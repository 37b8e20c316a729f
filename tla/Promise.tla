------------------------------ MODULE Promise -------------------------------
(***************************************************************************)
(* What the pipeline promises of a message, with no queue, handler or      *)
(* store in sight.  Each branch a message travels is an obligation: it is  *)
(* opened when the message is taken, it is closed only on an outcome that  *)
(* someone can look up, and once closed nothing brings it back.            *)
(***************************************************************************)
CONSTANTS
    Msg,
    Flow,
    Branch,
    Travels     \* [Flow -> SUBSET Branch]: the branches a flow's message travels

VARIABLES
    answer,     \* [Msg -> "none", "ok" or "error"]: what the client was told
    life,       \* [Msg \X Branch -> "none", "open" or "closed"]
    outcome,    \* [Msg \X Branch -> SUBSET Outcome]
    announced   \* obligations whose event was published

vars == <<answer, life, outcome, announced>>

Obligation == Msg \X Branch

(* stored by P4; skipped as a duplicate; reported unsynced by P3; rejected *)
(* where no dead-letter policy matches or discarded by the operator.       *)
Outcome == {"stored", "skipped", "unsynced", "rejected"}

Init ==
    /\ answer = [m \in Msg |-> "none"]
    /\ life = [k \in Obligation |-> "none"]
    /\ outcome = [k \in Obligation |-> {}]
    /\ announced = {}

Open(m, f) ==
    life' = [k \in Obligation |->
                IF k \in {m} \X Travels[f] THEN "open" ELSE life[k]]

(* The client is told that the message was taken: its branches are open.   *)
Accept(m, f) ==
    /\ answer[m] = "none"
    /\ answer' = [answer EXCEPT ![m] = "ok"]
    /\ Open(m, f)
    /\ UNCHANGED <<outcome, announced>>

(* The client is told of an error; the message may have been taken.        *)
Decline(m, f) ==
    /\ answer[m] = "none"
    /\ answer' = [answer EXCEPT ![m] = "error"]
    /\ Open(m, f) \/ UNCHANGED life
    /\ UNCHANGED <<outcome, announced>>

(* Branches B of m come to outcome o, and nothing is left of branches C,   *)
(* each of which has come to some outcome.                                 *)
Settle(m, B, o, C) ==
    /\ \A b \in B \cup C : life[<<m, b>>] # "none"
    /\ outcome' = [k \in Obligation |->
                      IF k \in {m} \X B THEN outcome[k] \cup {o} ELSE outcome[k]]
    /\ \A b \in C : outcome'[<<m, b>>] # {}
    /\ life' = [k \in Obligation |->
                   IF k \in {m} \X C THEN "closed" ELSE life[k]]
    /\ UNCHANGED <<answer, announced>>

Announce(k) ==
    /\ "stored" \in outcome[k]
    /\ announced' = announced \cup {k}
    /\ UNCHANGED <<answer, life, outcome>>

Next ==
    \/ \E m \in Msg, f \in Flow : Accept(m, f) \/ Decline(m, f)
    \/ \E m \in Msg, B, C \in SUBSET Branch, o \in Outcome : Settle(m, B, o, C)
    \/ \E k \in Obligation : Announce(k)

Spec == Init /\ [][Next]_vars
=============================================================================
