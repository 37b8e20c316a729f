----------------------------- MODULE PromiseMap -----------------------------
(***************************************************************************)
(* How the state of the pipeline reads as a state of Promise.              *)
(***************************************************************************)
EXTENDS Pipeline

(* A copy of m is waiting on q, dead-lettered from it, or being handled    *)
(* there on an open channel.                                               *)
PresentAt(q, m) ==
    \/ ready[q][m] > 0
    \/ dead[q][m] > 0
    \/ \E s \in Slot : Holds(<<q, s>>, m)

Present(m, b) == \E q \in BranchQueue(b) : PresentAt(q, m)

Rejected(m, b) ==
    \E q \in BranchQueue(b) : <<q, m>> \in discarded \cup purged

OutcomeOf(k) ==
    { o \in {"stored", "skipped", "unsynced", "rejected"} :
        \/ o = "stored" /\ k \in rows
        \/ o = "skipped" /\ k \in skipped
        \/ o = "unsynced" /\ k[2] = "remote" /\ k[1] \in unsynced
        \/ o = "rejected" /\ Rejected(k[1], k[2]) }

LifeOf(k) ==
    IF Present(k[1], k[2]) THEN "open"
    ELSE IF OutcomeOf(k) # {} THEN "closed"
    ELSE "none"

Answer == [m \in Msg |-> req[m].reply]
Life == [k \in Key |-> LifeOf(k)]
Outcomes == [k \in Key |-> OutcomeOf(k)]

Abstract == INSTANCE Promise WITH
    answer <- Answer, life <- Life, outcome <- Outcomes, announced <- notified

(* The pipeline keeps the promise: no obligation closes without an         *)
(* outcome, none reopens, none appears that no client asked for, and       *)
(* nothing is announced that is not stored.                                *)
KeepsPromise == Abstract!Spec

-----------------------------------------------------------------------------
(* What the proof of the refinement needs beyond Inv.                      *)

(* A handler works on a message that is, on every branch its queue serves, *)
(* still present or has come to an outcome.                                *)
Traced ==
    \A w \in Worker, b \in Branch :
        work[w].pc # "idle" /\ w[1] \in BranchQueue(b)
            => Kept(work[w].msg, b, 1)

(* Nothing is to be found of a message that no client has sent.            *)
Unasked ==
    \A m \in Msg, b \in Branch : req[m].flow = 0 => ~Kept(m, b, 1)

(* No client is answered before it asks.                                   *)
Unanswered == \A m \in Msg : req[m].flow = 0 => req[m].reply = "none"

Linked == Inv /\ Traced /\ Unasked /\ Unanswered
=============================================================================
