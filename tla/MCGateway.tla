----------------------------- MODULE MCGateway -----------------------------
(* Instances of Gateway for TLC.                                           *)
EXTENDS Gateway, TLC

CONSTANTS r1, r2, r3

MCUpstreams ==
  "iam" :> "iam-service" @@ "datasources" :> "datasource-service"

(* The routers of the services, and their probes.                          *)
MCServes ==
  "iam-service" :> {Api \o <<"auth">>, Api \o <<"users">>, Api \o <<"roles">>,
                    <<"healthz">>}
    @@ "datasource-service" :> {Api \o <<"datasources">>, <<"healthz">>}

Ask(path, token) == [path |-> Api \o path, token |-> token]
User(sub, tenant) == [sub |-> sub, tenant_id |-> tenant]

A == <<"a">>
B == <<"b">>
C == <<"c">>
Colon == <<":">>

(* Requests of the users c and b:c of tenant a, and one that is of user c  *)
(* of tenant a:b, whose key is that of b:c, has the claims the IAM service *)
(* writes, or is a login.                                                  *)
Limited == {Ask(<<"search">>, User(C, A)),
            Ask(<<"search">>, User(B \o Colon \o C, A))}

MCAsks ==
  r1 :> Limited @@ r2 :> Limited
    @@ r3 :> {Ask(<<"iam", "healthz">>, User(C, A \o Colon \o B)),
              Ask(<<"iam", "users">>, [user_id |-> C, tenant_id |-> A]),
              Ask(<<"auth", "login">>, None)}

Alike == Permutations({r1, r2})

LoginAsks == [r \in {r1} |-> {Ask(<<"auth", "login">>, None)}]
=============================================================================
