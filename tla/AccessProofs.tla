----------------------------- MODULE AccessProofs -----------------------------
(***************************************************************************)
(* Theorems about Access, for all settings of the nodes and all calls.     *)
(***************************************************************************)
EXTENDS Access, AuthzProofs, TLAPS

(* At the publishing endpoints the order of evaluation that authz.py       *)
(* documents decides (do_POST, do_PUT and do_DELETE of process1.py), for   *)
(* any settings, keys, tokens and clock, and a rule that raises refuses.   *)
THEOREM DecidesCorrect == Spec => []DecidesByPrecedence
<1>0. NoCall.status = "none"
  BY DEF NoCall
<1>1. Init => DecidesByPrecedence
  BY DEF Init, DecidesByPrecedence, Authenticated
<1>2. ASSUME DecidesByPrecedence, [Next]_vars PROVE DecidesByPrecedence'
  <2>1. CASE last' = NoCall
    BY <2>1 DEF DecidesByPrecedence, Authenticated, NoCall
  <2>2. ASSUME NEW n \in Node, NEW creds, NEW e, NEW body, Call(n, creds, e, body)
        PROVE  DecidesByPrecedence'
    <3> DEFINE conf == Conf[running[n]]
               question == Question(conf, creds, e)
    <3>1. last' = [status |-> Status(conf, creds, e, body),
                   setting |-> running[n], creds |-> creds,
                   question |-> question, body |-> body]
      BY <2>2 DEF Call
    <3>2. /\ last'.status = Status(conf, creds, e, body) /\ last'.body = body
          /\ last'.setting = running[n] /\ last'.question = question
      BY <3>1
    <3>3. CheckAuthz(conf, question) = "yes" <=> Permits(conf, question)
      BY DecisionTheorem
    <3>4. ASSUME body = "good"
          PROVE  Status(conf, creds, e, body) = AccessStatus(conf, creds, e)
      BY <3>4 DEF Status, BodyStatus
    <3>5. AccessStatus(conf, creds, e) # "401" =>
             (AccessStatus(conf, creds, e) = "200" <=> CheckAuthz(conf, question) = "yes")
      BY DEF AccessStatus
    <3>6. (Conf[last.setting])' = conf
      BY <3>2 DEF Conf
    <3> QED
      BY <3>2, <3>3, <3>4, <3>5, <3>6 DEF DecidesByPrecedence, Authenticated
  <2>3. CASE UNCHANGED vars
    BY <1>2, <2>3 DEF vars, DecidesByPrecedence, Authenticated, Conf
  <2>4. CASE Next
    BY <2>1, <2>2, <2>4 DEF Next, Tick, Edit, Restart, Request, Issue
  <2> QED BY <1>2, <2>3, <2>4
<1> QED BY <1>1, <1>2, PTL DEF Spec

-----------------------------------------------------------------------------
(* Keys and labels of the settings.                                        *)
Entries == [key : Label, value : Key]

LEMMA ConfFields ==
    ASSUME NEW s \in Setting
    PROVE  /\ Conf[s].auth = Env[s].auth /\ Conf[s].secret = Env[s].secret
           /\ Conf[s].keys = Dict(Env[s].keys)
BY DEF Conf, Parse

LEMMA KeysOf ==
    ASSUME NEW s \in Setting
    PROVE  /\ Conf[s].keys \in Seq(Entries)
           /\ Agrees(Env[s].keys, Len(Env[s].keys), Conf[s].keys)
<1>1. Env[s].keys \in Seq(Entries \cup {Malformed})
  BY KeysAssumption DEF Entries
<1>2. /\ Conf[s].keys \in Seq(Entries \cup {Malformed})
      /\ Agrees(Env[s].keys, Len(Env[s].keys), Conf[s].keys)
  BY <1>1, DictTheorem, ConfFields
<1>3. \A i \in 1..Len(Conf[s].keys) : Conf[s].keys[i] \in Entries
  <2> SUFFICES ASSUME NEW i \in 1..Len(Conf[s].keys)
               PROVE  Conf[s].keys[i] \in Entries
    OBVIOUS
  <2>1. i \in DOMAIN Conf[s].keys
    BY <1>2
  <2>2. Conf[s].keys[i] # Malformed
    BY <1>2, <2>1 DEF Agrees, Newest
  <2>3. Conf[s].keys[i] \in Entries \cup {Malformed}
    BY <1>2
  <2> QED BY <2>2, <2>3
<1>4. Conf[s].keys \in Seq(Entries)
  BY <1>2, <1>3
<1> QED BY <1>2, <1>4

LEMMA LabelsType ==
    ASSUME NEW s \in Setting
    PROVE  Labels(s) \subseteq Label /\ Nothing \notin Labels(s)
<1>1. \A i \in 1..Len(Conf[s].keys) : Conf[s].keys[i].key \in Label
  <2>1. \A i \in 1..Len(Conf[s].keys) : Conf[s].keys[i] \in Entries
    BY KeysOf
  <2> QED BY <2>1 DEF Entries
<1>2. ToSet(Conf[s].keys) = {Conf[s].keys[i] : i \in 1..Len(Conf[s].keys)}
  BY KeysOf DEF ToSet
<1> QED BY <1>1, <1>2, KeysAssumption DEF Labels

(* A key is refused, or it is the value of the entry of the label that it  *)
(* is accepted for.                                                        *)
LEMMA VerifyApiKeyCases ==
    ASSUME NEW s \in Setting, NEW k, VerifyApiKey(Conf[s], k) # Nothing
    PROVE  \E i \in DOMAIN Conf[s].keys :
              /\ Conf[s].keys[i].value = k
              /\ VerifyApiKey(Conf[s], k) = Conf[s].keys[i].key
              /\ VerifyApiKey(Conf[s], k) \in Labels(s)
<1> DEFINE keys == Conf[s].keys
           I == {i \in 1..Len(keys) : keys[i].value = k}
<1>1. keys \in Seq(Entries) /\ Len(keys) \in Nat /\ DOMAIN keys = 1..Len(keys)
  BY KeysOf
<1>2. SelectInSeq(keys, LAMBDA e : e.value = k) = IF I # {} THEN Min(I) ELSE 0
  BY DEF SelectInSeq
<1>3. I # {}
  BY <1>2 DEF VerifyApiKey
<1>4. Min(I) \in I
  <2>1. I \in SUBSET Nat
    BY <1>1
  <2> HIDE DEF I
  <2> QED BY <1>3, <2>1, NatMin
<1>5. Min(I) # 0 /\ Min(I) \in DOMAIN keys /\ keys[Min(I)].value = k
  BY <1>1, <1>4
<1>6. VerifyApiKey(Conf[s], k) = keys[Min(I)].key
  BY <1>2, <1>3, <1>5 DEF VerifyApiKey
<1>7. keys[Min(I)].key \in Labels(s)
  BY <1>5 DEF Labels, ToSet
<1> QED BY <1>5, <1>6, <1>7

-----------------------------------------------------------------------------
(* What holds of the nodes and the tokens, whatever is asked of them: a    *)
(* label that a running process lists is listed now, and a token expires   *)
(* within its life time of the moment its label was listed last.           *)
Issued ==
    [sub : Label, exp : Nat, secret : {Env[s].secret : s \in Setting} \ {Nothing}]

NodesOK ==
    /\ env \in [Node -> Setting] /\ running \in [Node -> Setting]
    /\ now \in 0..MaxTime /\ edits \in 0..MaxEdits
    /\ listed \in [Label -> 0..MaxTime]
    /\ \A l \in Label : listed[l] <= now
    /\ \A n \in Node : \A l \in Labels(running[n]) : listed[l] = now

TokensOK ==
    /\ tokens \subseteq Issued
    /\ \A t \in tokens : t.exp <= listed[t.sub] + Ttl
    /\ \A t \in tokens : \E s \in Setting : /\ t.sub \in Labels(s)
                                           /\ t.secret = Env[s].secret

LastOK ==
    last.status \in {"none", "200", "400", "401", "403", "413", "500", "dropped"}

(* The inductive invariant.                                                *)
IInv == NodesOK /\ TokensOK /\ LastOK /\ RetiredFades /\ TokenGoodEverywhere /\ LastKeyCounts

(* Nothing that is forgotten can have been wrong.                          *)
LEMMA ForgottenOK ==
    ASSUME last = NoCall
    PROVE  LastOK /\ RetiredFades /\ TokenGoodEverywhere /\ LastKeyCounts
<1>1. last.status = "none"
  BY DEF NoCall
<1> QED BY <1>1
    DEF LastOK, RetiredFades, TokenGoodEverywhere, LastKeyCounts, ByToken, Authenticated

LEMMA ForgottenNext ==
    ASSUME last' = NoCall
    PROVE  (LastOK /\ RetiredFades /\ TokenGoodEverywhere /\ LastKeyCounts)'
<1>1. last'.status = "none"
  BY DEF NoCall
<1> QED BY <1>1
    DEF LastOK, RetiredFades, TokenGoodEverywhere, LastKeyCounts, ByToken, Authenticated

LEMMA IInvInit == Init => IInv
<1> SUFFICES ASSUME Init PROVE IInv
  OBVIOUS
<1>1. PICK s \in Setting : env = [n \in Node |-> s] /\ running = env
  BY DEF Init
<1>2. NodesOK
  BY <1>1, LabelsType, AccessAssumption DEF Init, NodesOK
<1>3. TokensOK
  BY DEF Init, TokensOK
<1> QED BY <1>2, <1>3, ForgottenOK DEF Init, IInv

(* A restart and the clock bring listed up to date.                        *)
LEMMA WitnessOK ==
    ASSUME NodesOK, NEW run \in [Node -> Setting], NEW time \in 0..MaxTime, now <= time,
           listed' = Witness(run, time)
    PROVE  /\ listed' \in [Label -> 0..MaxTime]
           /\ \A l \in Label : listed[l] <= listed'[l] /\ listed'[l] <= time
           /\ \A n \in Node : \A l \in Labels(run[n]) : listed'[l] = time
<1>1. \A n \in Node : Labels(run[n]) \subseteq Label
  BY LabelsType
<1>2. now \in Nat /\ time \in Nat /\ \A l \in Label : listed[l] \in 0..MaxTime
  BY AccessAssumption DEF NodesOK
<1>3. \A l \in Label : listed'[l] = IF \E n \in Node : l \in Labels(run[n]) THEN time
                                    ELSE listed[l]
  BY DEF Witness
<1>4. \A l \in Label : listed[l] <= listed'[l] /\ listed'[l] <= time
  BY <1>2, <1>3 DEF NodesOK
<1>5. listed' \in [Label -> 0..MaxTime]
  BY <1>2 DEF Witness
<1> QED BY <1>1, <1>3, <1>4, <1>5

LEMMA NodesStep ==
    ASSUME NodesOK, TokensOK, [Next]_vars
    PROVE  NodesOK' /\ TokensOK'
<1> USE AccessAssumption
<1>1. CASE Tick
  <2>1. /\ now' \in 0..MaxTime /\ now <= now' /\ listed' = Witness(running, now')
        /\ UNCHANGED <<env, running, tokens, edits>>
    BY <1>1 DEF Tick, NodesOK
  <2>2. /\ listed' \in [Label -> 0..MaxTime]
        /\ \A l \in Label : listed[l] <= listed'[l] /\ listed'[l] <= now'
        /\ \A n \in Node : \A l \in Labels(running[n]) : listed'[l] = now'
    BY <2>1, WitnessOK DEF NodesOK
  <2>3. NodesOK'
    BY <2>1, <2>2 DEF NodesOK, Labels, Conf
  <2> QED BY <2>1, <2>2, <2>3 DEF NodesOK, TokensOK, Issued
<1>2. ASSUME NEW n \in Node, Restart(n) PROVE NodesOK' /\ TokensOK'
  <2>1. /\ running' \in [Node -> Setting] /\ listed' = Witness(running', now)
        /\ now \in 0..MaxTime /\ UNCHANGED <<env, tokens, now, edits>>
    BY <1>2 DEF Restart, NodesOK
  <2>2. /\ listed' \in [Label -> 0..MaxTime]
        /\ \A l \in Label : listed[l] <= listed'[l] /\ listed'[l] <= now
        /\ \A m \in Node : \A l \in Labels(running'[m]) : listed'[l] = now
    BY <2>1, WitnessOK
  <2>3. NodesOK'
    BY <2>1, <2>2 DEF NodesOK, Labels, Conf
  <2> QED BY <2>1, <2>2, <2>3 DEF NodesOK, TokensOK, Issued
<1>3. ASSUME NEW n \in Node, Edit(n) PROVE NodesOK' /\ TokensOK'
  <2>1. /\ env' \in [Node -> Setting] /\ edits' \in 0..MaxEdits
        /\ UNCHANGED <<running, tokens, now, listed>>
    BY <1>3 DEF Edit, NodesOK
  <2> QED BY <2>1 DEF NodesOK, TokensOK, Labels, Conf, Issued
<1>4. ASSUME NEW n \in Node, NEW k \in Key, Issue(n, k) PROVE NodesOK' /\ TokensOK'
  <2> DEFINE s == running[n]
             label == VerifyApiKey(Conf[s], k)
             token == IssueToken(Conf[s], label, now, Ttl)
  <2>1. s \in Setting
    BY DEF NodesOK
  <2>2. /\ label # Nothing /\ Conf[s].secret # Nothing /\ tokens' = tokens \cup {token}
        /\ UNCHANGED <<env, running, now, edits, listed>>
    BY <1>4 DEF Issue
  <2>3. label \in Labels(s) /\ label \in Label
    BY <2>1, <2>2, VerifyApiKeyCases, LabelsType
  <2>4. listed[label] = now /\ now + Ttl \in Nat
    BY <2>3 DEF NodesOK
  <2>5. token \in Issued
    BY <2>1, <2>2, <2>3, <2>4, ConfFields DEF IssueToken, Issued
  <2>6. token.exp <= listed[token.sub] + Ttl
    BY <2>4 DEF IssueToken
  <2>7. token.sub \in Labels(s) /\ token.secret = Env[s].secret
    BY <2>1, <2>3, ConfFields DEF IssueToken
  <2> QED BY <2>1, <2>2, <2>5, <2>6, <2>7 DEF NodesOK, TokensOK, Labels, Conf, Issued
<1>5. ASSUME NEW n \in Node, NEW creds, NEW e, NEW body, Call(n, creds, e, body)
      PROVE  NodesOK' /\ TokensOK'
  BY <1>5 DEF Call, NodesOK, TokensOK, Labels, Conf, Issued
<1>6. CASE UNCHANGED vars
  BY <1>6 DEF vars, NodesOK, TokensOK, Labels, Conf, Issued
<1> QED BY <1>1, <1>2, <1>3, <1>4, <1>5, <1>6 DEF Next, Request

-----------------------------------------------------------------------------
(* Who is accepted has shown a key that is listed for the label, or else a *)
(* token that lasts.                                                       *)
ByKey(s, creds, who) ==
    /\ who \in Labels(s)
    /\ \E i \in DOMAIN Conf[s].keys :
          Conf[s].keys[i].value = creds.apikey /\ Conf[s].keys[i].key = who

ByLastingToken(s, creds, who) ==
    /\ Env[s].auth = "token" /\ creds.apikey = Nothing
    /\ creds.token \in tokens /\ who = creds.token.sub /\ creds.token.exp >= now

LEMMA CredentialFields ==
    ASSUME NEW creds \in Credentials
    PROVE  creds.token \in tokens \cup {NoToken}
BY DEF Credentials

LEMMA AuthCases ==
    ASSUME NEW s \in Setting, NEW creds \in Credentials,
           Env[s].auth \in {"api_key", "token"},
           NEW who, who = CheckRequestAuth(Conf[s], creds, now), who # Nothing
    PROVE  /\ AuthedIdentity(Conf[s], creds, now) = who
           /\ ByKey(s, creds, who) \/ ByLastingToken(s, creds, who)
           /\ creds.apikey = Nothing /\ Env[s].auth = "token" => ByLastingToken(s, creds, who)
<1>1. AuthedIdentity(Conf[s], creds, now) = who
  BY ConfFields DEF AuthedIdentity
<1>2. ASSUME who = VerifyApiKey(Conf[s], creds.apikey) PROVE ByKey(s, creds, who)
  BY <1>2, VerifyApiKeyCases DEF ByKey
<1>3. CASE Env[s].auth = "api_key"
  <2>1. who = VerifyApiKey(Conf[s], creds.apikey)
    BY <1>3, ConfFields DEF CheckRequestAuth
  <2> QED BY <1>1, <1>2, <1>3, <2>1
<1>4. CASE Env[s].auth = "token" /\ creds.apikey # Nothing
  <2>1. who = VerifyApiKey(Conf[s], creds.apikey)
    BY <1>4, ConfFields DEF CheckRequestAuth
  <2> QED BY <1>1, <1>2, <1>4, <2>1
<1>5. CASE Env[s].auth = "token" /\ creds.apikey = Nothing
  <2>1. who = VerifyToken(Conf[s], creds.token, now)
    BY <1>5, ConfFields DEF CheckRequestAuth
  <2>2. creds.token # NoToken /\ creds.token.exp >= now /\ who = creds.token.sub
    BY <2>1 DEF VerifyToken
  <2>3. ByLastingToken(s, creds, who)
    BY <1>5, <2>2, CredentialFields DEF ByLastingToken
  <2> QED BY <1>1, <2>3
<1> QED BY <1>3, <1>4, <1>5

(* A token that lasts and has the node's secret is not refused.            *)
LEMMA LastingTokenAccepted ==
    ASSUME TokensOK, NEW s \in Setting, NEW creds \in Credentials,
           Env[s].auth = "token", creds.apikey = Nothing, creds.token # NoToken,
           creds.token.secret = Env[s].secret, creds.token.exp >= now
    PROVE  CheckRequestAuth(Conf[s], creds, now) # Nothing
<1>1. creds.token \in tokens
  BY CredentialFields
<1>2. creds.token.sub \in Label /\ creds.token.secret # Nothing
  BY <1>1 DEF TokensOK, Issued
<1>3. VerifyToken(Conf[s], creds.token, now) = creds.token.sub
  BY <1>2, ConfFields DEF VerifyToken
<1>4. CheckRequestAuth(Conf[s], creds, now) = creds.token.sub
  BY <1>3, ConfFields DEF CheckRequestAuth
<1> QED BY <1>2, <1>4, KeysAssumption

(* A call is answered as the three properties say.                         *)
LEMMA CallOK ==
    ASSUME NodesOK, TokensOK, NEW n \in Node, NEW creds \in Credentials, NEW e, NEW body,
           Call(n, creds, e, body)
    PROVE  LastOK' /\ RetiredFades' /\ TokenGoodEverywhere' /\ LastKeyCounts'
<1> DEFINE s == running[n]
           conf == Conf[s]
           question == Question(conf, creds, e)
           who == CheckRequestAuth(conf, creds, now)
<1>1. s \in Setting
  BY DEF NodesOK
<1>2. last' = [status |-> Status(conf, creds, e, body), setting |-> s, creds |-> creds,
               question |-> question, body |-> body]
      /\ UNCHANGED <<env, running, tokens, now, edits, listed>>
  BY DEF Call
<1>3. /\ last'.status = Status(conf, creds, e, body) /\ last'.setting = s
      /\ last'.creds = creds /\ last'.question.identity = AuthedIdentity(conf, creds, now)
      /\ Used' = Env[s]
  BY <1>2 DEF Question, Used
<1>4. /\ Status(conf, creds, e, body) \in
            {"200", "400", "401", "403", "413", "500", "dropped"}
      /\ Status(conf, creds, e, body) = "401" => who = Nothing
  BY DEF Status, AccessStatus, BodyStatus
<1>4a. Authenticated' => who # Nothing
  <2>1. last'.question.method = e.method /\ last'.body = body
    BY <1>2 DEF Question
  <2>2. AccessStatus(conf, creds, e) = "401" <=> who = Nothing
    BY DEF AccessStatus
  <2>3. who = Nothing => \/ Status(conf, creds, e, body) = "401"
                         \/ e.method = "POST" /\ BodyStatus(body) # "200"
    BY <2>2 DEF Status
  <2> QED BY <1>3, <2>1, <2>3 DEF Authenticated
<1>5. LastOK'
  BY <1>3, <1>4 DEF LastOK
<1>6. ASSUME Authenticated', Used'.auth \in {"api_key", "token"}
      PROVE  /\ last'.question.identity = who
             /\ ByKey(s, creds, who) \/ ByLastingToken(s, creds, who)
             /\ creds.apikey = Nothing /\ Used'.auth = "token" =>
                   ByLastingToken(s, creds, who)
  BY <1>1, <1>3, <1>6, <1>4a, AuthCases
<1>7. RetiredFades'
  <2> SUFFICES ASSUME Authenticated', Used'.auth \in {"api_key", "token"}
               PROVE  now <= listed[who] + Ttl
    BY <1>2, <1>6 DEF RetiredFades
  <2>1. now \in Nat /\ Ttl \in Nat
    BY AccessAssumption DEF NodesOK
  <2>2. CASE ByKey(s, creds, who)
    BY <2>1, <2>2 DEF ByKey, NodesOK
  <2>3. CASE ByLastingToken(s, creds, who)
    <3>1. /\ creds.token.exp \in Nat /\ creds.token.sub \in Label
          /\ creds.token.exp <= listed[creds.token.sub] + Ttl
      BY <2>3 DEF ByLastingToken, TokensOK, Issued
    <3>2. listed[creds.token.sub] \in Nat
      BY <3>1, AccessAssumption DEF NodesOK
    <3> QED BY <2>1, <2>3, <3>1, <3>2 DEF ByLastingToken
  <2> QED BY <1>6, <2>2, <2>3
<1>8. TokenGoodEverywhere'
  <2>1. (last.status = "401")' =>
           ~ /\ Env[s].auth = "token" /\ creds.apikey = Nothing /\ creds.token # NoToken
             /\ creds.token.secret = Env[s].secret /\ creds.token.exp >= now
    BY <1>1, <1>3, <1>4, LastingTokenAccepted
  <2>2. ByToken' => last'.question.identity = creds.token.sub
    BY <1>3, <1>6 DEF ByToken, ByLastingToken
  <2> QED BY <1>2, <1>3, <2>1, <2>2 DEF TokenGoodEverywhere
<1>9. LastKeyCounts'
  <2> DEFINE keys == Env[s].keys
             mine == {i \in DOMAIN keys : /\ keys[i] # Malformed /\ keys[i].key = who}
  <2> SUFFICES ASSUME Authenticated', creds.apikey # Nothing,
                      Used'.auth \in {"api_key", "token"}
               PROVE  \E i \in mine : /\ keys[i].value = creds.apikey
                                      /\ \A j \in mine : j <= i
    BY <1>3, <1>6 DEF LastKeyCounts
  <2>1. PICK i \in DOMAIN conf.keys :
           conf.keys[i].value = creds.apikey /\ conf.keys[i].key = who
    BY <1>6 DEF ByKey, ByLastingToken
  <2>2. Newest(keys, Len(keys), conf.keys[i])
    BY <1>1, <2>1, KeysOf DEF Agrees
  <2>3. DOMAIN keys = 1..Len(keys)
    BY <1>1, KeysAssumption
  <2> QED BY <2>1, <2>2, <2>3 DEF Newest
<1> QED BY <1>5, <1>7, <1>8, <1>9

LEMMA IInvStep == IInv /\ [Next]_vars => IInv'
<1> SUFFICES ASSUME IInv, [Next]_vars PROVE IInv'
  OBVIOUS
<1>1. NodesOK' /\ TokensOK'
  BY NodesStep DEF IInv
<1>2. ASSUME NEW n \in Node, NEW creds \in Credentials, NEW e, NEW body,
             Call(n, creds, e, body)
      PROVE  IInv'
  BY <1>1, <1>2, CallOK DEF IInv
<1>3. CASE last' = NoCall
  BY <1>1, <1>3, ForgottenNext DEF IInv
<1>4. CASE UNCHANGED vars
  BY <1>1, <1>4
     DEF IInv, vars, LastOK, RetiredFades, TokenGoodEverywhere, LastKeyCounts,
         Used, Authenticated, ByToken
<1> QED BY <1>2, <1>3, <1>4 DEF Next, Tick, Edit, Restart, Request, Issue

(* The inductive invariant.                                                *)
THEOREM IInvCorrect == Spec => []IInv
<1> QED BY IInvInit, IInvStep, PTL DEF Spec

(* The variables keep their types, over all restarts and changes of .env:  *)
(* above all, a token is for a label that some .env lists whose secret it  *)
(* is signed with (process1.py, _handle_auth_token).                       *)
THEOREM TypeCorrect == Spec => []TypeOK
<1>1. IInv => TypeOK
  BY DEF IInv, NodesOK, TokensOK, LastOK, Issued, TypeOK
<1> QED BY <1>1, IInvCorrect, PTL

(* A label that has been dropped from every node is accepted for one life  *)
(* time of a token more at most (authz.py, verify_token, which looks at no *)
(* list of labels), in whatever order the nodes are restarted.             *)
THEOREM RetiredFadesCorrect == Spec => []RetiredFades
<1>1. IInv => RetiredFades
  BY DEF IInv
<1> QED BY <1>1, IInvCorrect, PTL

(* A token is good on every node that has the secret, until it expires     *)
(* (authz.py, verify_token; src/ReadMe.md on rolling restarts).            *)
THEOREM TokenGoodEverywhereCorrect == Spec => []TokenGoodEverywhere
<1>1. IInv => TokenGoodEverywhere
  BY DEF IInv
<1> QED BY <1>1, IInvCorrect, PTL

(* The last key that .env lists for a label is the only one that is        *)
(* accepted for it (authz.py, parse_api_keys and verify_api_key), for      *)
(* lists of any length: by DictTheorem.                                    *)
THEOREM LastKeyCountsCorrect == Spec => []LastKeyCounts
<1>1. IInv => LastKeyCounts
  BY DEF IInv
<1> QED BY <1>1, IInvCorrect, PTL
=============================================================================
