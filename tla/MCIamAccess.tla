---------------------------- MODULE MCIamAccess ----------------------------
(* Instances of IamAccess for TLC.                                         *)
EXTENDS IamAccess, TLC

CONSTANTS c1, c2, c3

MCHomeOf == [m \in Members |-> "acme"]
MCTeamRole == "acme" :> "acme-team" @@ "beta" :> "beta-team"

Bind(r) == [op |-> "bind", user |-> "mia", role |-> r]
Unbind(r) == [op |-> "unbind", user |-> "mia", role |-> r]
Session(op) == [op |-> op, user |-> "mia", token |-> None]

(* Two bindings that may race, an unbinding, and the calls that look: all  *)
(* about one member, in the presence of another tenant.                    *)
MCRequests ==
  c1 :> {Bind("acme-team"), Unbind("acme-team"),
         [op |-> "create_role", code |-> AdminCode, permissions |-> {"user.read"}],
         [op |-> "create_role", code |-> "viewer", permissions |-> {"user.read"}],
         [op |-> "create_user", name |-> "ned", status |-> "invited",
          roles |-> {"acme-team"}],
         [op |-> "register", code |-> "new"]}
    @@ c2 :> {Bind("acme-team"), Bind(c1),
              [op |-> "register", code |-> "new"],
              [op |-> "update", user |-> "mia", status |-> "locked"],
              [op |-> "delete", user |-> "mia"]}
    @@ c3 :> {Unbind("acme-team"), Session("login"), Session("refresh"),
              Session("me"),
              [op |-> "check", user |-> "mia"], [op |-> "check", user |-> c1],
              [op |-> "list"]}
=============================================================================
