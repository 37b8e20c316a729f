------------------------------- MODULE Access --------------------------------
(***************************************************************************)
(* Calls to the publishing endpoints of P1 on its nodes: every process     *)
(* reads its node's .env when it starts, tokens that one node issued are   *)
(* presented to another, and the operator changes .env and restarts the    *)
(* nodes one after the other.                                              *)
(***************************************************************************)
EXTENDS Authz, FiniteSets

CONSTANTS
    Node,
    Env,        \* the contents that a .env may have, by name
    Label,      \* labels of API keys
    Key,        \* API keys, or their digests
    Cn,         \* common names of client certificates
    Endpoint,   \* [method, resource] of the endpoints of do_POST, do_PUT, do_DELETE
    Ttl,        \* AUTH_TOKEN_TTL_S
    MaxTime,    \* bound: the clock
    MaxEdits,   \* bound: changes of a .env
    MaxTokens   \* bound: tokens issued

ASSUME AccessAssumption ==
    Ttl \in Nat /\ MaxTime \in Nat /\ MaxEdits \in Nat /\ MaxTokens \in Nat

VARIABLES
    env,      \* which .env a node has
    running,  \* which .env the node's process started with
    tokens,   \* the tokens issued
    now,      \* the clock, in hours
    edits,
    listed,   \* history: when a label was last known to a running process
    last      \* history: the last call and its answer

Setting == DOMAIN Env

vars == <<env, running, tokens, now, edits, listed, last>>

NoCall == [status |-> "none"]

(* A process parses its .env once.                                         *)
Conf == [s \in Setting |-> Parse(Env[s])]

Labels(setting) == {e.key : e \in ToSet(Conf[setting].keys)}

(* The keys of a .env are what Label and Key name; nobody is without a     *)
(* label, since parse_api_keys skips an entry that has none.               *)
ASSUME KeysAssumption ==
    /\ \A s \in Setting : Env[s].keys \in Seq([key : Label, value : Key] \cup {Malformed})
    /\ Nothing \notin Label

Init ==
    /\ \E s \in Setting : env = [n \in Node |-> s]
    /\ running = env
    /\ tokens = {} /\ now = 0 /\ edits = 0
    /\ listed = [l \in Label |-> 0]
    /\ last = NoCall

(* What listed becomes.                                                    *)
Witness(run, time) ==
    [l \in Label |-> IF \E n \in Node : l \in Labels(run[n]) THEN time
                     ELSE listed[l]]

Edit(n) ==
    /\ edits < MaxEdits /\ edits' = edits + 1
    /\ \E s \in Setting \ {env[n]} : env' = [env EXCEPT ![n] = s]
    /\ last' = NoCall
    /\ UNCHANGED <<running, tokens, now, listed>>

Restart(n) ==
    /\ running[n] # env[n]
    /\ running' = [running EXCEPT ![n] = env[n]]
    /\ listed' = Witness(running', now)
    /\ last' = NoCall
    /\ UNCHANGED <<env, tokens, now, edits>>

Tick ==
    /\ now < MaxTime /\ now' = now + 1
    /\ listed' = Witness(running, now')
    /\ last' = NoCall
    /\ UNCHANGED <<env, running, tokens, edits>>

(* Mutant: a key that is not listed gets a token, for nobody.              *)
IssueAnyway(n, k) ==
    LET conf == Conf[running[n]]
        label == VerifyApiKey(conf, k)
    IN  /\ conf.secret # Nothing
        /\ Cardinality(tokens) < MaxTokens
        /\ tokens' = tokens \cup {IssueToken(conf, label, now, Ttl)}
        /\ last' = NoCall
        /\ UNCHANGED <<env, running, now, edits, listed>>

(* POST /auth/token, in every mode; without a secret it is answered 500.   *)
Issue(n, k) ==
    LET conf == Conf[running[n]]
        label == VerifyApiKey(conf, k)
    IN  /\ label # Nothing /\ conf.secret # Nothing
        /\ Cardinality(tokens) < MaxTokens
        /\ tokens' = tokens \cup {IssueToken(conf, label, now, Ttl)}
        /\ last' = NoCall
        /\ UNCHANGED <<env, running, now, edits, listed>>

-----------------------------------------------------------------------------
(* A caller has a certificate, or a key and a token, at most.              *)
Credentials ==
    [apikey : {Nothing}, token : {NoToken}, cert : Cn]
    \cup [apikey : Key \cup {Nothing}, token : tokens \cup {NoToken},
          cert : {Nothing}]

(* The question that a handler asks check_authz.                           *)
Question(conf, creds, endpoint) ==
    LET who == AuthedIdentity(conf, creds, now)
    IN  [identity |-> who, roles |-> Lookup(conf.assigned, who),
         action |-> "publish", resource |-> endpoint.resource,
         method |-> endpoint.method, hour |-> now]

(* What a call may bring as its body; a wrong field is one that is to be a *)
(* number and is none, or a count out of range.                            *)
Body == {"good", "too large", "unreadable", "wrong field"}
Numeric == {"flow:1", "flow:2", "flow:3", "flow:*"}

(* _read_json_body; "200" stands for no answer yet.                        *)
BodyStatus(body) ==
    CASE body = "too large" -> "413" [] body = "unreadable" -> "400" [] OTHER -> "200"

(* _require_auth and _require_authz.  What a policy rule raises is caught  *)
(* by do_POST; do_PUT and do_DELETE call them outside of their try, and    *)
(* the connection ends without an answer.                                  *)
AccessStatus(conf, creds, endpoint) ==
    LET answer == CheckAuthz(conf, Question(conf, creds, endpoint))
    IN  IF CheckRequestAuth(conf, creds, now) = Nothing THEN "401"
        ELSE IF answer = "yes" THEN "200"
        ELSE IF answer = "no" THEN "403"
        ELSE IF endpoint.method # "POST" THEN "dropped"
        ELSE IF answer = "value error" THEN "400" ELSE "500"

(* Mutant: do_POST lets pass what a policy rule raises.                    *)
StatusFailOpen(conf, creds, endpoint, body) ==
    LET access == AccessStatus(conf, creds, endpoint)
    IN  IF endpoint.method = "POST" /\ BodyStatus(body) # "200" THEN BodyStatus(body)
        ELSE IF access \notin {"200", "500"} THEN access
        ELSE IF endpoint.method = "PUT" THEN BodyStatus(body)
        ELSE IF endpoint.resource \in Numeric /\ body = "wrong field" THEN "400"
        ELSE "200"

(* do_POST reads the body before both checks, do_PUT after them, do_DELETE *)
(* not at all.  "200" is a call that gets as far as its publish.           *)
Status(conf, creds, endpoint, body) ==
    LET access == AccessStatus(conf, creds, endpoint)
    IN  IF endpoint.method = "POST" /\ BodyStatus(body) # "200" THEN BodyStatus(body)
        ELSE IF access # "200" THEN access
        ELSE IF endpoint.method = "PUT" THEN BodyStatus(body)
        ELSE IF endpoint.resource \in Numeric /\ body = "wrong field" THEN "400"
        ELSE "200"

(* Calls are independent of each other: the answer to one is forgotten     *)
(* before the next.                                                        *)
Call(n, creds, endpoint, body) ==
    LET conf == Conf[running[n]]
    IN  /\ last = NoCall
        /\ last' = [status |-> Status(conf, creds, endpoint, body),
                    setting |-> running[n], creds |-> creds,
                    question |-> Question(conf, creds, endpoint),
                    body |-> body]
        /\ UNCHANGED <<env, running, tokens, now, edits, listed>>

Request(n) ==
    \/ \E k \in Key : Issue(n, k)
    \/ \E creds \in Credentials, e \in Endpoint, body \in Body :
          /\ body = "wrong field" => e.resource \in Numeric
          /\ e.method = "DELETE" => body = "good"
          /\ Call(n, creds, e, body)

Next ==
    \/ Tick
    \/ \E n \in Node : Edit(n) \/ Restart(n) \/ Request(n)

Spec == Init /\ [][Next]_vars

-----------------------------------------------------------------------------
TypeOK ==
    /\ env \in [Node -> Setting] /\ running \in [Node -> Setting]
    /\ now \in 0..MaxTime /\ edits \in 0..MaxEdits
    /\ \A t \in tokens : /\ t.exp \in Nat
                         /\ \E s \in Setting : /\ t.sub \in Labels(s)
                                               /\ t.secret = Env[s].secret
    /\ listed \in [Label -> 0..MaxTime]
    /\ last.status \in {"none", "200", "400", "401", "403", "413", "500", "dropped"}

(* The .env that the call was judged with.                                *)
Used == Env[last.setting]

(* The call got past _require_auth.                                        *)
Authenticated ==
    /\ last # NoCall /\ last.status # "401"
    /\ last.question.method = "POST" => BodyStatus(last.body) = "200"

ByToken ==
    /\ Authenticated /\ Used.auth = "token"
    /\ last.creds.apikey = Nothing

(* A label that every node has dropped is accepted for at most one life    *)
(* time of a token more, although the nodes drop it one after the other    *)
(* and one that has not yet may still issue tokens for it                  *)
(* (application/authz.py, verify_token).                                   *)
RetiredFades ==
    Authenticated /\ Used.auth \in {"api_key", "token"} =>
        now <= listed[last.question.identity] + Ttl

(* A token is accepted by every node with the same secret until it has     *)
(* expired, whichever node issued it and whatever keys the nodes have been *)
(* restarted with since (src/ReadMe.md: a rolling restart is safe).        *)
TokenGoodEverywhere ==
    /\ last.status = "401" =>
          ~ /\ Used.auth = "token" /\ last.creds.apikey = Nothing
            /\ last.creds.token # NoToken
            /\ last.creds.token.secret = Used.secret
            /\ last.creds.token.exp >= now
    /\ ByToken => last.question.identity = last.creds.token.sub

(* An API key is accepted as the key of a label only if that is the last   *)
(* key that .env lists for the label: an entry that was to replace another *)
(* replaces it (parse_api_keys).                                           *)
LastKeyCounts ==
    Authenticated /\ last.creds.apikey # Nothing
      /\ Used.auth \in {"api_key", "token"} =>
        LET keys == Used.keys
            mine == {i \in DOMAIN keys : /\ keys[i] # Malformed
                                         /\ keys[i].key = last.question.identity}
        IN  \E i \in mine : /\ keys[i].value = last.creds.apikey
                            /\ \A j \in mine : j <= i

(* A call with a good body that is authenticated gets to its publish       *)
(* exactly if the order of evaluation in the comment of authz.py permits   *)
(* it: the early returns of check_authz never keep a later part from       *)
(* granting, or a deny rule from refusing, and a policy rule that raises   *)
(* lets nobody through, whichever handler it is raised in.                 *)
DecidesByPrecedence ==
    Authenticated /\ last.body = "good" =>
        (last.status = "200" <=> Permits(Conf[last.setting], last.question))
=============================================================================
