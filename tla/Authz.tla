-------------------------------- MODULE Authz --------------------------------
(***************************************************************************)
(* The functions of application/authz.py: who a caller is, and what the    *)
(* roles, access lists and policy rules together decide.  Names of         *)
(* identities, keys and resources are values; what the settings of .env    *)
(* parse to are sequences of [key, value] entries, as Python's ordered     *)
(* dictionaries.                                                           *)
(***************************************************************************)
EXTENDS Naturals, SequencesExt

CONSTANTS
    Resource,   \* what the handlers of P1 ask for: flow:1, flow:*, ...
    Covers      \* the resources that each resource pattern matches (fnmatch)

(* No identity, key, secret or certificate, and no token.                  *)
Nothing == "nothing"
NoToken == [sub |-> Nothing, exp |-> 0, secret |-> Nothing]

(* An entry without its separator, a digest of the wrong length, a rule    *)
(* without effect: the parsers skip it.                                    *)
Malformed == [skipped |-> TRUE]

(* A rule has a list of conditions, [key, value, fits]: fits says whether  *)
(* the value is one that the comparison can take (a number for an hour, a  *)
(* string for a method).  What is given for "when" may be no dictionary.   *)
NoDict == <<Malformed>>

-----------------------------------------------------------------------------
(* Parsing.                                                                *)

(* dict[key] = value, unless the entry is skipped: a key that is there     *)
(* keeps its place.                                                        *)
Assign(dict, entry) ==
    LET place == {i \in DOMAIN dict : dict[i].key = entry.key}
    IN  IF entry = Malformed THEN dict
        ELSE IF place = {} THEN Append(dict, entry)
        ELSE [i \in DOMAIN dict |-> IF i \in place THEN entry ELSE dict[i]]

(* Mutant: the first of two entries for a key stays.                       *)
DictFirstWins(entries) ==
    FoldLeft(LAMBDA dict, e : IF \/ e = Malformed
                                 \/ \E i \in DOMAIN dict : dict[i].key = e.key
                              THEN dict ELSE Append(dict, e),
             <<>>, entries)

Dict(entries) == FoldLeft(Assign, <<>>, entries)

(* The policy is a list of rules.                                          *)
WellFormed(rules) == SelectSeq(rules, LAMBDA r : r # Malformed)

Lookup(dict, key) ==
    UNION {dict[i].value : i \in {i \in DOMAIN dict : dict[i].key = key}}

(* A permission is a resource pattern and an action.                       *)
Publishing == {[pattern |-> f, action |-> "publish"] :
    f \in {"flow:1", "flow:2", "flow:3", "flow:4", "flow:5", "flow:6", "flow:7"}}
Reading == {[pattern |-> r, action |-> "read"] :
    r \in {"health", "ready", "gt:status", "zk:health", "zk:config", "swift:object"}}
    \cup {[pattern |-> "swift:objects", action |-> "list"]}
Writing == {[pattern |-> "zk:config", action |-> "write"]}

BuiltinRoles == <<
    [key |-> "publisher", value |-> Publishing],
    [key |-> "reader", value |-> Reading],
    [key |-> "admin", value |-> Reading \cup Writing],
    [key |-> "operator", value |-> Publishing \cup Reading \cup Writing]>>

BuiltinPatterns == {perm.pattern : perm \in Publishing \cup Reading \cup Writing}

(* A name without wildcards matches itself, and so does flow:*.            *)
ASSUME AuthzAssumption ==
    /\ Resource \subseteq DOMAIN Covers
    /\ BuiltinPatterns \subseteq DOMAIN Covers
    /\ \A r \in Resource : r \in Covers[r]

(* What a process makes of .env when it starts.                            *)
Parse(env) ==
    [auth |-> env.auth,
     secret |-> env.secret,
     keys |-> Dict(env.keys),
     authz |-> env.authz,
     roles |-> Dict(BuiltinRoles \o env.roles),
     assigned |-> Dict(env.assigned),
     acl |-> Dict(env.acl),
     policy |-> WellFormed(env.policy)]

-----------------------------------------------------------------------------
(* Authentication.                                                         *)

(* The label of the first entry with the key's digest.                     *)
VerifyApiKey(conf, apikey) ==
    LET i == SelectInSeq(conf.keys, LAMBDA e : e.value = apikey)
    IN  IF i = 0 THEN Nothing ELSE conf.keys[i].key

(* A token is its signed content; time is in units of AUTH_TOKEN_TTL_S.    *)
IssueToken(conf, subject, now, ttl) ==
    [sub |-> subject, exp |-> now + ttl, secret |-> conf.secret]

(* Mutant: a token is accepted for one more unit.                          *)
VerifyTokenLate(conf, token, now) ==
    IF /\ token # NoToken /\ conf.secret # Nothing
       /\ token.secret = conf.secret /\ token.exp + 1 >= now
    THEN token.sub ELSE Nothing

(* Mutant: a token lasts only as long as the key's label is listed.        *)
VerifyTokenByKey(conf, token, now) ==
    IF /\ token # NoToken /\ conf.secret # Nothing
       /\ token.secret = conf.secret /\ token.exp >= now
       /\ \E i \in DOMAIN conf.keys : conf.keys[i].key = token.sub
    THEN token.sub ELSE Nothing

VerifyToken(conf, token, now) ==
    IF /\ token # NoToken /\ conf.secret # Nothing
       /\ token.secret = conf.secret /\ token.exp >= now
    THEN token.sub ELSE Nothing

(* The caller's label, or Nothing.  With an API key at hand the token is   *)
(* not looked at.                                                          *)
CheckRequestAuth(conf, creds, now) ==
    CASE conf.auth = "none" -> "anonymous"
      [] conf.auth = "api_key" -> VerifyApiKey(conf, creds.apikey)
      [] conf.auth = "token" ->
             IF creds.apikey # Nothing THEN VerifyApiKey(conf, creds.apikey)
             ELSE VerifyToken(conf, creds.token, now)
      [] conf.auth = "cert" -> creds.cert

(* _authed_identity: without authentication a certificate still names the  *)
(* caller.                                                                 *)
AuthedIdentity(conf, creds, now) ==
    IF conf.auth = "none" /\ creds.cert # Nothing THEN creds.cert
    ELSE CheckRequestAuth(conf, creds, now)

-----------------------------------------------------------------------------
(* Authorization.  A call is [identity, roles, action, resource, method,   *)
(* hour].                                                                  *)

Grants(perm, call) ==
    perm.action = call.action /\ call.resource \in Covers[perm.pattern]

RbacCheck(conf, call) ==
    IF call.roles = {} THEN "none"
    ELSE IF \E role \in call.roles : \E perm \in Lookup(conf.roles, role) :
                Grants(perm, call)
         THEN "yes" ELSE "no"

(* The entry for the resource by name, or else the first with a pattern    *)
(* that matches, decides.                                                  *)
AclCheck(conf, call) ==
    LET named == SelectInSeq(conf.acl, LAMBDA e :
            e.key = [pattern |-> call.resource, action |-> call.action])
        matching == SelectInSeq(conf.acl, LAMBDA e : Grants(e.key, call))
        i == IF named # 0 THEN named ELSE matching
    IN  IF i = 0 THEN "none"
        ELSE IF call.identity \in conf.acl[i].value THEN "yes" ELSE "no"

(* An unknown condition holds.                                             *)
ConditionHolds(c, call) ==
    CASE c.key = "identity" -> c.fits /\ call.identity = c.value
      [] c.key = "role" -> c.value \in call.roles
      [] c.key = "action" -> c.fits /\ call.action = c.value
      [] c.key = "resource" -> call.resource \in Covers[c.value]
      [] c.key = "method" -> call.method = c.value
      [] c.key = "hour_utc_lt" -> call.hour < c.value
      [] c.key = "hour_utc_gte" -> call.hour >= c.value
      [] OTHER -> TRUE

(* "yes", "no", or the kind of exception: int(), a set and fnmatch raise   *)
(* ValueError or TypeError, a method's upper() AttributeError.             *)
Outcome(c, call) ==
    CASE ~c.fits /\ c.key \in {"role", "resource", "hour_utc_lt", "hour_utc_gte"} ->
             "value error"
      [] ~c.fits /\ c.key = "method" -> "attribute error"
      [] OTHER -> IF ConditionHolds(c, call) THEN "yes" ELSE "no"

(* The first condition that does not hold ends the rule.                   *)
RuleMatches(rule, call) ==
    LET i == SelectInSeq(rule.when, LAMBDA c : Outcome(c, call) # "yes")
    IN  IF rule.when = NoDict THEN "attribute error"
        ELSE IF i = 0 THEN "yes" ELSE Outcome(rule.when[i], call)

(* The first rule of the policy with this effect that matches, or raises.  *)
SomeRule(conf, effect, call) ==
    LET i == SelectInSeq(conf.policy, LAMBDA r :
                r.effect = effect /\ RuleMatches(r, call) # "no")
    IN  IF i = 0 THEN "no" ELSE RuleMatches(conf.policy[i], call)

(* What the three mechanisms say, where they are in use.                   *)
Rbac(conf, call) == IF "rbac" \in conf.authz THEN RbacCheck(conf, call) ELSE "none"
Acl(conf, call) == IF "acl" \in conf.authz THEN AclCheck(conf, call) ELSE "none"
Abac(conf, effect, call) ==
    IF "abac" \in conf.authz THEN SomeRule(conf, effect, call) ELSE "no"

(* Mutant: a refusal by the roles is not passed on to the access list.     *)
RoleDenialFinal(conf, call) ==
    LET deny == Abac(conf, "deny", call)
        allow == Abac(conf, "allow", call)
    IN  IF conf.authz = {} THEN "yes"
        ELSE IF call.identity = Nothing THEN "no"
        ELSE IF deny # "no" THEN IF deny = "yes" THEN "no" ELSE deny
        ELSE IF Rbac(conf, call) = "yes" THEN "yes"
        ELSE IF Rbac(conf, call) = "no" THEN allow
        ELSE IF Acl(conf, call) = "yes" THEN "yes"
        ELSE allow

(* check_authz: "yes", "no", or the exception of a rule.  conf.authz is    *)
(* the set of the parts of AUTHZ_MODE, without "none".                     *)
CheckAuthz(conf, call) ==
    LET deny == Abac(conf, "deny", call)
        allow == Abac(conf, "allow", call)
    IN  IF conf.authz = {} THEN "yes"
        ELSE IF call.identity = Nothing THEN "no"
        ELSE IF deny # "no" THEN IF deny = "yes" THEN "no" ELSE deny
        ELSE IF Rbac(conf, call) = "yes" THEN "yes"
        ELSE IF Rbac(conf, call) = "no"
             THEN IF Acl(conf, call) = "yes" THEN "yes" ELSE allow
        ELSE IF Acl(conf, call) = "yes" THEN "yes"
        ELSE allow

-----------------------------------------------------------------------------
(* The order of evaluation that the comment of authz.py gives (lines 234   *)
(* to 241), read as a formula: unless no deny rule matches, nobody gets    *)
(* through; then any of the three may grant, whatever the others say;      *)
(* nobody grants by default.  A deny rule that raises refuses too.         *)
Permits(conf, call) ==
    \/ conf.authz = {}
    \/ /\ call.identity # Nothing
       /\ "abac" \in conf.authz => SomeRule(conf, "deny", call) = "no"
       /\ \/ "rbac" \in conf.authz /\ RbacCheck(conf, call) = "yes"
          \/ "acl" \in conf.authz /\ AclCheck(conf, call) = "yes"
          \/ "abac" \in conf.authz /\ SomeRule(conf, "allow", call) = "yes"
=============================================================================
