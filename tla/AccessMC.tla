------------------------------ MODULE AccessMC -------------------------------
(***************************************************************************)
(* Access for TLC: .env files that use every mode, every part of the       *)
(* policy and every kind of entry, and a rotation of keys between them.    *)
(***************************************************************************)
EXTENDS Access, TLC

MCResource == {"flow:1", "flow:*", "flow:6", "flow:7"}

MCCovers == [p \in BuiltinPatterns \cup MCResource |->
    IF p = "flow:*" THEN MCResource ELSE {p}]

Post(f) == [method |-> "POST", resource |-> f]
MCEndpoint == {Post("flow:1"), Post("flow:*"),
               [method |-> "PUT", resource |-> "flow:6"],
               [method |-> "DELETE", resource |-> "flow:7"]}

Entry(k, v) == [key |-> k, value |-> v]
Permission(p) == [pattern |-> p, action |-> "publish"]
Cond(k, v) == [key |-> k, value |-> v, fits |-> TRUE]
IllTyped(k) == [key |-> k, value |-> Nothing, fits |-> FALSE]
Rule(when, effect) == [when |-> when, effect |-> effect]

TwoKeys == <<Entry("ci", "k1"), Entry("ops", "k2")>>

(* Tokens and roles; ghost is no role.                                     *)
Roles ==
    [auth |-> "token", secret |-> "s", keys |-> TwoKeys,
     authz |-> {"rbac"}, roles |-> <<Entry("batch", {Permission("flow:*")})>>,
     assigned |-> <<Entry("ci", {"publisher"}), Entry("ops", {"batch", "ghost"})>>,
     acl |-> <<>>, policy |-> <<>>]

(* ci is retired and ops has a new key; an access list adds to the roles.  *)
Lists ==
    [Roles EXCEPT
        !.keys = <<Entry("ops", "k2"), Malformed, Entry("ops", "k3")>>,
        !.authz = {"rbac", "acl"},
        !.assigned = <<Entry("ci", {"reader"}), Entry("ops", {"admin"})>>,
        !.acl = <<Entry(Permission("flow:*"), {"ops"}),
                  Entry(Permission("flow:1"), {"ci"})>>]

(* All three, with rules that depend on the hour, and rules that raise     *)
(* behind a condition that may fail, if nothing has decided before.        *)
Rules ==
    [Roles EXCEPT
        !.auth = "api_key", !.secret = Nothing,
        !.authz = {"rbac", "acl", "abac"},
        !.assigned = <<Entry("ci", {"publisher"}), Entry("ops", {"ghost"})>>,
        !.acl = <<Entry(Permission("flow:1"), {})>>,
        !.policy = <<Rule(<<Cond("role", "publisher"), Cond("hour_utc_lt", 1)>>, "deny"),
                     Malformed,
                     Rule(<<Cond("action", "publish"), Cond("method", "PUT")>>, "allow"),
                     Rule(<<Cond("identity", "ops"), Cond("resource", "flow:1"),
                            Cond("hour_utc_gte", 1), Cond("region", "eu")>>, "allow"),
                     Rule(<<Cond("identity", "ops"), Cond("resource", "flow:7"),
                            IllTyped("hour_utc_lt")>>, "deny"),
                     Rule(<<Cond("resource", "flow:1"), IllTyped("role")>>, "allow"),
                     Rule(NoDict, "allow")>>]

(* Certificates; an access list alone.                                     *)
Certificates ==
    [Lists EXCEPT !.auth = "cert", !.authz = {"acl"},
        !.acl = <<Entry(Permission("flow:*"), {"ci"})>>]

(* No authentication: a rule for whoever has a certificate.                *)
Open ==
    [Lists EXCEPT !.auth = "none", !.authz = {"abac"},
        !.policy = <<Rule(<<Cond("identity", "ops")>>, "allow")>>]

Interchangeable == Permutations(Node)

MCEnv == [roles |-> Roles, lists |-> Lists, rules |-> Rules,
          certificates |-> Certificates, open |-> Open]
=============================================================================
