------------------------------ MODULE IamAccess ----------------------------
(***************************************************************************)
(* Users, roles and bindings of the IAM service, and the two answers to    *)
(* "may this user do that": the scopes frozen into an access token, and    *)
(* the live check of permissions_check_route (user_service.py, rbac.py,    *)
(* auth_service.py, api/roles.py; aidp_auth for tokens).                   *)
(*                                                                         *)
(* Within a replica a call runs to its end before the next one starts      *)
(* (every handler is a coroutine that never awaits before its database     *)
(* work is over), so calls that interleave are those of several replicas,  *)
(* under READ COMMITTED.  A row bears the name of the call that inserted   *)
(* it.  What a call reads of its own, uncommitted rows is private to it;   *)
(* collect_user_permissions reads through a session of its own and does    *)
(* not see them.  Passwords and refresh-token sessions are the subject of  *)
(* IamSessions.                                                            *)
(***************************************************************************)
EXTENDS FiniteSets, Functions, Integers

CONSTANTS
  Calls,       \* calls of the API, each made once
  Tenants,     \* tenants already registered: each stands for its row, its
               \* administrator and its admin role
  Members,     \* users already created, one per tenant
  HomeOf,      \* the tenant of each of them
  TeamRole,    \* a role already created in each tenant
  Requests,    \* what each call may ask
  Permissions, \* permission strings, the wildcard apart
  None

Wildcard == "*"
AdminCode == "admin"

(* Ids are unique, within a table and over the tables.                     *)
ASSUME AccessAssumption ==
  /\ HomeOf \in [Members -> Tenants]
  /\ TeamRole \in [Tenants -> STRING]
  /\ \A s, t \in Tenants : TeamRole[s] = TeamRole[t] => s = t
  /\ Range(TeamRole) \cap (Calls \cup Tenants) = {}
  /\ Tenants \cap Members = {}
  /\ Calls \cap (Tenants \cup Members \cup {None}) = {}
  /\ Wildcard \notin Permissions

(* A request names an operation; those of sessions name a user and leave   *)
(* room for the token, and the permissions of a new role are permissions.  *)
ASSUME RequestAssumption ==
  \A c \in Calls : \A q \in Requests[c] :
    /\ "op" \in DOMAIN q
    /\ q.op \in {"login", "refresh", "me"} =>
         {"user", "token"} \subseteq DOMAIN q
    /\ q.op = "create_role" =>
         q.permissions \subseteq Permissions \cup {Wildcard}

VARIABLES
  codes,    \* tenants: the code of each row
  users,    \* users rows
  roles,    \* roles rows
  bindings, \* user_role_bindings rows
  tokens,   \* access tokens handed out
  pc,       \* where each call is
  req,      \* what it asks
  tenant,   \* the tenant context it runs in
  doomed,   \* rows the DELETE of an unbind_role has marked
  view,     \* the permissions it found, None before
  total,    \* the number of users a list_users counted, None before
  ever,     \* history: permissions its subject had at some time of the call
  always,   \* history: those it had all along
  before    \* history: calls that had ended when it began

rowVars == <<codes, users, roles, bindings, tokens>>
callVars == <<pc, req, tenant, doomed, view, total>>
historyVars == <<ever, always, before>>
vars == <<rowVars, callVars, historyVars>>

AllPermissions == Permissions \cup {Wildcard}

(* Rows of a table to which one is added.                                  *)
With(table, id, row) ==
  [x \in DOMAIN table \cup {id} |-> IF x = id THEN row ELSE table[x]]

UserRow(t, name, status) == [tenant |-> t, name |-> name, status |-> status]
RoleRow(t, code, perms) == [tenant |-> t, code |-> code, permissions |-> perms]
Binding(by, t, u, r) == [by |-> by, tenant |-> t, user |-> u, role |-> r]
Token(t, u, rs, scopes) ==
  [tenant |-> t, user |-> u, roles |-> rs, scopes |-> scopes]

(* The listener on SELECT restricts the last mapped class it meets to the  *)
(* tenant of the context: the roles of a join of bindings and roles, and   *)
(* nothing of a bare count.                                                *)
OwnRoles(t) == {r \in DOMAIN roles : roles[r].tenant = t}
OwnUsers(t) == {u \in DOMAIN users : users[u].tenant = t}

RolesOf(u, t, bs) ==
  {b.role : b \in {x \in bs : x.user = u /\ x.tenant = t}} \cap OwnRoles(t)

CodesOf(u, t) == {roles[r].code : r \in RolesOf(u, t, bindings)}

(* collect_user_permissions.  Nothing sets expires_at: no binding expires. *)
Granted(u, t, bs) == UNION {roles[r].permissions : r \in RolesOf(u, t, bs)}

(* has_permission, on what collect_user_permissions returned.              *)
Decides(perms, p) == Wildcard \in perms \/ p \in perms

(* _user_has_permission, on an access token.                               *)
Allows(t, p) == Wildcard \in t.scopes \/ AdminCode \in t.roles \/ p \in t.scopes

(* Each tenant as register_tenant leaves it, with a role more, and members *)
(* that hold it and logged in, or hold nothing.                            *)
Init ==
  /\ codes = [t \in Tenants |-> t]
  /\ users = [u \in Tenants \cup Members |->
                IF u \in Tenants THEN UserRow(u, "admin", "active")
                                 ELSE UserRow(HomeOf[u], "member", "active")]
  /\ roles = [r \in Tenants \cup Range(TeamRole) |->
                IF r \in Tenants
                THEN RoleRow(r, AdminCode, {Wildcard})
                ELSE RoleRow(CHOOSE t \in Tenants : TeamRole[t] = r, "team",
                             Permissions)]
  /\ \E bound \in SUBSET Members :
       /\ bindings =
            {Binding(None, t, t, t) : t \in Tenants} \cup
            {Binding(None, HomeOf[u], u, TeamRole[HomeOf[u]]) : u \in bound}
       /\ tokens =
            {Token(t, t, {AdminCode}, {Wildcard}) : t \in Tenants} \cup
            {Token(HomeOf[u], u, {"team"}, Permissions) : u \in bound}
  /\ pc = [c \in Calls |-> "idle"]
  /\ req = [c \in Calls |-> None]
  /\ tenant = [c \in Calls |-> None]
  /\ doomed = [c \in Calls |-> {}]
  /\ view = [c \in Calls |-> None]
  /\ total = [c \in Calls |-> None]
  /\ ever = [c \in Calls |-> {}]
  /\ always = [c \in Calls |-> {}]
  /\ before = [c \in Calls |-> {}]

-----------------------------------------------------------------------------
(* What calls have in common.                                              *)

Ended == {"done", "refused", "aborted"}
Running(c) == pc[c] \notin Ended \cup {"idle"}

Goto(c, stage) == pc' = [pc EXCEPT ![c] = stage]

(* Does the request name somebody whose permissions the call looks up?     *)
Subject(c) == IF "user" \in DOMAIN req[c] THEN req[c].user ELSE c

(* The bindings become bs: the history of every running call follows.      *)
Rebind(bs) ==
  /\ bindings' = bs
  /\ LET now(c) == Granted(Subject(c), tenant[c], bs)
     IN /\ ever' = [c \in Calls |->
                      IF Running(c) THEN ever[c] \cup now(c) ELSE ever[c]]
        /\ always' = [c \in Calls |->
                      IF Running(c) THEN always[c] \cap now(c) ELSE always[c]]
  /\ UNCHANGED before

(* A call starts, in the tenant context t, with a request q.               *)
Start(c, q, t, stage) ==
  /\ pc[c] = "idle"
  /\ Goto(c, stage)
  /\ req' = [req EXCEPT ![c] = q]
  /\ tenant' = [tenant EXCEPT ![c] = t]
  /\ before' = [before EXCEPT ![c] = {d \in Calls : pc[d] \in Ended}]
  /\ LET now == IF "user" \in DOMAIN q THEN Granted(q.user, t, bindings) ELSE {}
     IN ever' = [ever EXCEPT ![c] = now] /\ always' = [always EXCEPT ![c] = now]
  /\ UNCHANGED <<rowVars, doomed, view, total>>

(* The permission each route asks of its caller.                           *)
Required(op) ==
  CASE op \in {"bind", "unbind"} -> "role.bind"
    [] op = "create_role"        -> "role.create"
    [] op = "create_user"        -> "user.create"
    [] op = "update"             -> "user.update"
    [] op = "delete"             -> "user.delete"
    [] op = "list"               -> "user.read"

(* An administrative call: the token must allow the permission the route   *)
(* requires, and gives the tenant.                                         *)
Authorised(c, op, stage) ==
  \E q \in Requests[c], t \in tokens :
    /\ q.op = op
    /\ Allows(t, Required(op))
    /\ Start(c, q, t.tenant, stage)

(* A call ends with an answer, or is refused, or the transaction rolls     *)
(* back because the database or the replica failed.                        *)
Refuse(c) ==
  /\ Goto(c, "refused")
  /\ UNCHANGED <<rowVars, req, tenant, doomed, view, total, historyVars>>

Abort(c) ==
  /\ Running(c)
  /\ Goto(c, "aborted")
  /\ UNCHANGED <<rowVars, req, tenant, doomed, view, total, historyVars>>

(* collect_user_permissions, in a session of its own.                      *)
See(c) == view' = [view EXCEPT ![c] = Granted(Subject(c), tenant[c], bindings)]

(* _load_user_roles_scopes, for the answer of a call that has written.     *)
Answer(c) ==
  /\ pc[c] = "written" /\ req[c].op \in {"bind", "create_user", "update"}
  /\ See(c)
  /\ Goto(c, "answered")
  /\ UNCHANGED <<rowVars, req, tenant, doomed, total, historyVars>>

-----------------------------------------------------------------------------
(* bind_role and unbind_role.                                              *)

BeginBind(c) == Authorised(c, "bind", "called")

FindsUser(c) == req[c].user \in OwnUsers(tenant[c])

(* The pre-check: an active binding of the same user and role.             *)
Bound(c) ==
  \E b \in bindings : b.user = req[c].user /\ b.role = req[c].role

(* Mutant of CheckBinding: the pre-check is left to the unique constraint. *)
CheckBinding_LeftToIndex(c) ==
  /\ pc[c] = "called" /\ req[c].op = "bind"
  /\ IF FindsUser(c) /\ req[c].role \in OwnRoles(tenant[c])
     THEN /\ Goto(c, "written")
          /\ UNCHANGED <<rowVars, req, tenant, doomed, view, total, historyVars>>
     ELSE Refuse(c)

(* The SELECTs of bind_role, then the INSERT, which no other call sees and *)
(* no constraint refuses: scope_id is NULL.                                *)
CheckBinding(c) ==
  /\ pc[c] = "called" /\ req[c].op = "bind"
  /\ IF FindsUser(c) /\ req[c].role \in OwnRoles(tenant[c]) /\ ~Bound(c)
     THEN /\ Goto(c, "written")
          /\ UNCHANGED <<rowVars, req, tenant, doomed, view, total, historyVars>>
     ELSE Refuse(c)

CommitBind(c) ==
  /\ pc[c] = "answered" /\ req[c].op = "bind"
  /\ Rebind(bindings \cup {Binding(c, tenant[c], req[c].user, req[c].role)})
  /\ Goto(c, "done")
  /\ UNCHANGED <<codes, users, roles, tokens, req, tenant, doomed, view, total>>

BeginUnbind(c) == Authorised(c, "unbind", "called")

Matches(c) == {b \in bindings : /\ b.tenant = tenant[c]
                                /\ b.user = req[c].user
                                /\ b.role = req[c].role}

(* Mutant of Delete: the row found first is the one that is deleted.       *)
Delete_First(c) ==
  /\ pc[c] = "called" /\ req[c].op = "unbind"
  /\ FindsUser(c)
  /\ doomed' = [doomed EXCEPT ![c] = IF Matches(c) = {} THEN {}
                                     ELSE {CHOOSE b \in Matches(c) : TRUE}]
  /\ Goto(c, "deleting")
  /\ UNCHANGED <<rowVars, req, tenant, view, total, historyVars>>

(* The DELETE marks the rows it sees.                                      *)
Delete(c) ==
  /\ pc[c] = "called" /\ req[c].op = "unbind"
  /\ FindsUser(c)
  /\ doomed' = [doomed EXCEPT ![c] = Matches(c)]
  /\ Goto(c, "deleting")
  /\ UNCHANGED <<rowVars, req, tenant, view, total, historyVars>>

UnbindUnknown(c) ==
  /\ pc[c] = "called" /\ req[c].op = "unbind"
  /\ ~FindsUser(c)
  /\ Refuse(c)

CommitUnbind(c) ==
  /\ pc[c] = "deleting"
  /\ Rebind(bindings \ doomed[c])
  /\ Goto(c, "done")
  /\ UNCHANGED <<codes, users, roles, tokens, req, tenant, doomed, view, total>>

-----------------------------------------------------------------------------
(* register_tenant, create_user and create_role insert rows under a unique *)
(* key: an INSERT waits for the transaction that holds the same key and    *)
(* fails if that one commits.                                              *)

BeginRegister(c) ==
  \E q \in Requests[c] : q.op = "register" /\ Start(c, q, c, "called")

BeginCreateRole(c) == Authorised(c, "create_role", "called")

BeginCreateUser(c) == Authorised(c, "create_user", "checking")

(* Mutant of CheckRoles: the roles are looked up without the tenant.       *)
CheckRoles_AnyTenant(c) ==
  /\ pc[c] = "checking"
  /\ IF req[c].roles \subseteq DOMAIN roles
     THEN /\ Goto(c, "called")
          /\ UNCHANGED <<rowVars, req, tenant, doomed, view, total, historyVars>>
     ELSE Refuse(c)

(* Every role_id must be found in the tenant.                              *)
CheckRoles(c) ==
  /\ pc[c] = "checking"
  /\ IF req[c].roles \subseteq OwnRoles(tenant[c])
     THEN /\ Goto(c, "called")
          /\ UNCHANGED <<rowVars, req, tenant, doomed, view, total, historyVars>>
     ELSE Refuse(c)

Inserters == {"register", "create_role", "create_user"}

Key(c) ==
  CASE req[c].op = "register"    -> <<"tenant", req[c].code>>
    [] req[c].op = "create_role" -> <<"role", tenant[c], req[c].code>>
    [] req[c].op = "create_user" -> <<"user", tenant[c], req[c].name>>

KeyHeld(c) ==
  \E d \in Calls \ {c} : /\ pc[d] \in {"written", "answered"}
                         /\ req[d].op \in Inserters
                         /\ Key(d) = Key(c)

(* Mutant of KeyTaken: the index on roles is not unique.                   *)
KeyTaken_NotRoles(c) ==
  \/ \E t \in DOMAIN codes : Key(c) = <<"tenant", codes[t]>>
  \/ \E u \in DOMAIN users : Key(c) = <<"user", users[u].tenant, users[u].name>>

KeyTaken(c) ==
  \/ \E t \in DOMAIN codes : Key(c) = <<"tenant", codes[t]>>
  \/ \E r \in DOMAIN roles : Key(c) = <<"role", roles[r].tenant, roles[r].code>>
  \/ \E u \in DOMAIN users : Key(c) = <<"user", users[u].tenant, users[u].name>>

Insert(c) ==
  /\ pc[c] = "called" /\ req[c].op \in Inserters
  /\ ~KeyHeld(c)
  /\ IF KeyTaken(c)
     THEN Refuse(c)
     ELSE /\ Goto(c, "written")
          /\ UNCHANGED <<rowVars, req, tenant, doomed, view, total, historyVars>>

(* The tenant, its administrator, the admin role, their binding and a      *)
(* token pair, in one transaction.                                         *)
CommitRegister(c) ==
  /\ pc[c] = "written" /\ req[c].op = "register"
  /\ codes' = With(codes, c, req[c].code)
  /\ users' = With(users, c, UserRow(c, "admin", "active"))
  /\ roles' = With(roles, c, RoleRow(c, AdminCode, {Wildcard}))
  /\ bindings' = bindings \cup {Binding(c, c, c, c)}
  /\ tokens' = tokens \cup {Token(c, c, {AdminCode}, {Wildcard})}
  /\ Goto(c, "done")
  /\ UNCHANGED <<req, tenant, doomed, view, total, historyVars>>

CommitCreateRole(c) ==
  /\ pc[c] = "written" /\ req[c].op = "create_role"
  /\ roles' = With(roles, c, RoleRow(tenant[c], req[c].code, req[c].permissions))
  /\ Goto(c, "done")
  /\ UNCHANGED <<codes, users, bindings, tokens, req, tenant, doomed, view,
                 total, historyVars>>

CommitCreateUser(c) ==
  /\ pc[c] = "answered" /\ req[c].op = "create_user"
  /\ users' = With(users, c, UserRow(tenant[c], req[c].name, req[c].status))
  /\ Rebind(bindings \cup {Binding(c, tenant[c], c, r) : r \in req[c].roles})
  /\ Goto(c, "done")
  /\ UNCHANGED <<codes, roles, tokens, req, tenant, doomed, view, total>>

-----------------------------------------------------------------------------
(* update_user and delete_user.  A deleted user is a disabled one that     *)
(* keeps its row, its name and its bindings.                               *)

BeginUpdate(c) == Authorised(c, "update", "called")
BeginDelete(c) == Authorised(c, "delete", "called")

RowLocked(c) ==
  \E d \in Calls \ {c} : /\ pc[d] \in {"written", "answered"}
                         /\ req[d].op \in {"update", "delete"}
                         /\ req[d].user = req[c].user

(* The UPDATE of the users row waits for its lock.                         *)
Write(c) ==
  /\ pc[c] = "called" /\ req[c].op \in {"update", "delete"}
  /\ ~RowLocked(c)
  /\ IF FindsUser(c)
     THEN /\ Goto(c, "written")
          /\ UNCHANGED <<rowVars, req, tenant, doomed, view, total, historyVars>>
     ELSE Refuse(c)

CommitWrite(c) ==
  /\ \/ pc[c] = "answered" /\ req[c].op = "update"
     \/ pc[c] = "written" /\ req[c].op = "delete"
  /\ users' = [users EXCEPT ![req[c].user].status =
                 IF req[c].op = "update" THEN req[c].status ELSE "disabled"]
  /\ Goto(c, "done")
  /\ UNCHANGED <<codes, roles, bindings, tokens, req, tenant, doomed, view,
                 total, historyVars>>

-----------------------------------------------------------------------------
(* login, refresh and me look the user up and read the roles and scopes of *)
(* its bindings (_get_user_roles_scopes).                                  *)

TokenFor(c) == Token(tenant[c], req[c].user,
                     CodesOf(req[c].user, tenant[c]), view'[c])

BeginSession(c) ==
  \E q \in Requests[c] :
    /\ q.op \in {"login", "refresh", "me"}
    /\ q.user \in DOMAIN users
    /\ q.op = "me" => \E t \in tokens : t.user = q.user
    /\ Start(c, q, users[q.user].tenant, "called")

(* The password or the refresh token is not accepted, or the status is not *)
(* active.                                                                 *)
RefuseSession(c) ==
  /\ pc[c] = "called" /\ req[c].op \in {"login", "refresh", "me"}
  /\ req[c].op # "me" \/ users[req[c].user].status # "active"
  /\ Refuse(c)

(* authenticate: the first of the two transactions of login.  The roles    *)
(* and scopes it finds are the ones the token will carry.                  *)
Authenticate(c) ==
  /\ pc[c] = "called" /\ req[c].op \in {"login", "refresh", "me"}
  /\ users[req[c].user].status = "active"
  /\ See(c)
  /\ req' = [req EXCEPT ![c] = [@ EXCEPT !.token = TokenFor(c)]]
  /\ Goto(c, IF req[c].op = "me" THEN "done" ELSE "issuing")
  /\ UNCHANGED <<rowVars, tenant, doomed, total, historyVars>>

(* Mutant of Issue: the scopes of the refreshed token are carried over.    *)
Issue_CarriesOver(c) ==
  /\ pc[c] = "issuing"
  /\ \E t \in tokens :
       /\ t.user = req[c].user
       /\ tokens' = tokens \cup {t}
       /\ view' = [view EXCEPT ![c] = t.scopes]
  /\ Goto(c, "done")
  /\ UNCHANGED <<codes, users, roles, bindings, req, tenant, doomed, total,
                 historyVars>>

(* issue_token_pair, or the end of refresh_tokens.                         *)
Issue(c) ==
  /\ pc[c] = "issuing"
  /\ tokens' = tokens \cup {req[c].token}
  /\ Goto(c, "done")
  /\ UNCHANGED <<codes, users, roles, bindings, req, tenant, doomed, view,
                 total, historyVars>>

-----------------------------------------------------------------------------
(* permissions_check_route and list_users.                                 *)

(* The tenant of the user, whatever its status; a user that does not exist *)
(* has no permission.                                                      *)
BeginCheck(c) ==
  \E q \in Requests[c] :
    /\ q.op = "check"
    /\ IF q.user \in DOMAIN users
       THEN Start(c, q, users[q.user].tenant, "called")
       ELSE Start(c, q, None, "refused")

Check(c) ==
  /\ pc[c] = "called" /\ req[c].op = "check"
  /\ See(c)
  /\ Goto(c, "done")
  /\ UNCHANGED <<rowVars, req, tenant, doomed, total, historyVars>>

BeginList(c) == Authorised(c, "list", "called")

(* The count of users: no column of a mapped class, so no restriction      *)
(* to the tenant.                                                          *)
Count(c) ==
  /\ pc[c] = "called" /\ req[c].op = "list"
  /\ total' = [total EXCEPT ![c] = Cardinality(DOMAIN users)]
  /\ Goto(c, "counted")
  /\ UNCHANGED <<rowVars, req, tenant, doomed, view, historyVars>>

(* The page of users, each with its roles and scopes, changes nothing.     *)
ListPage(c) ==
  /\ pc[c] = "counted"
  /\ Goto(c, "done")
  /\ UNCHANGED <<rowVars, req, tenant, doomed, view, total, historyVars>>

-----------------------------------------------------------------------------
Administrate(c) ==
  \/ BeginBind(c) \/ CheckBinding(c) \/ CommitBind(c)
  \/ BeginUnbind(c) \/ Delete(c) \/ UnbindUnknown(c) \/ CommitUnbind(c)
  \/ BeginCreateRole(c) \/ CommitCreateRole(c)
  \/ BeginCreateUser(c) \/ CheckRoles(c) \/ CommitCreateUser(c)
  \/ BeginRegister(c) \/ CommitRegister(c)
  \/ BeginUpdate(c) \/ BeginDelete(c) \/ Write(c) \/ CommitWrite(c)
  \/ Insert(c) \/ Answer(c)

Decide(c) ==
  \/ BeginSession(c) \/ RefuseSession(c) \/ Authenticate(c) \/ Issue(c)
  \/ BeginCheck(c) \/ Check(c)
  \/ BeginList(c) \/ Count(c) \/ ListPage(c)

Next == \E c \in Calls : Administrate(c) \/ Decide(c) \/ Abort(c)

Spec == Init /\ [][Next]_vars

-----------------------------------------------------------------------------
(* Every binding names a user and a role that exist, in its own tenant,    *)
(* and every token a user that exists.                                     *)
WithinTenant ==
  /\ \A b \in bindings :
       /\ b.user \in OwnUsers(b.tenant)
       /\ b.role \in OwnRoles(b.tenant)
       /\ b.by \in Calls \cup {None}
  /\ \A t \in tokens :
       t.user \in OwnUsers(t.tenant) /\ t.scopes \subseteq AllPermissions
  /\ \A c \in Calls : view[c] = None \/ view[c] \subseteq AllPermissions

(* The two paths of rbac.py agree when a token is issued: what the scopes  *)
(* and the role codes of a token allow is what a check of the permissions  *)
(* it was issued for would decide.  A second role with the code admin      *)
(* would break it.                                                         *)
PathsAgree ==
  \A t \in tokens, p \in Permissions : Allows(t, p) <=> Decides(t.scopes, p)

(* What a call finds a user may do, in a token or in an answer, the user   *)
(* could do at some time between the start of the call and its end, and    *)
(* nothing is missing that the user could do all along: nothing revoked    *)
(* before a call began comes back in it.                                   *)
ViewsCurrent ==
  \A c \in Calls : view[c] # None =>
    always[c] \subseteq view[c] /\ view[c] \subseteq ever[c]

(* A user bound twice to a role was bound by calls that overlapped.        *)
DuplicatesOverlapped ==
  \A b, d \in bindings :
    b.user = d.user /\ b.role = d.role /\ b # d =>
      /\ b.by \in Calls /\ d.by \in Calls
      /\ b.by \notin before[d.by]

(* Once unbind_role has returned, no binding made by a call that had ended *)
(* when it began is left.                                                  *)
UnbindSweeps ==
  \A c \in Calls : pc[c] = "done" /\ req[c].op = "unbind" =>
    \A b \in bindings :
      b.user = req[c].user /\ b.role = req[c].role =>
        b.by \in Calls \ before[c]
=============================================================================
