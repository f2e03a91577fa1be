--------------------------- MODULE IamAccess_proofs --------------------------
(***************************************************************************)
(* Theorems about users, roles and bindings, for any number of calls,      *)
(* tenants and members, and for whatever the calls ask.                    *)
(***************************************************************************)
EXTENDS IamAccess, TLAPS

Done == {c \in Calls : pc[c] = "done"}

(* The tables: every row but the first ones bears the name of a call that  *)
(* is done, every user is of a registered tenant, and a tenant has its     *)
(* admin role.                                                             *)
TablesInv ==
  /\ DOMAIN codes \subseteq Tenants \cup Done
  /\ DOMAIN users \subseteq Tenants \cup Members \cup Done
  /\ DOMAIN roles \subseteq Tenants \cup Range(TeamRole) \cup Done
  /\ \A t \in DOMAIN codes :
       t \in DOMAIN roles /\ roles[t] = RoleRow(t, AdminCode, {Wildcard})
  /\ \A u \in DOMAIN users :
       /\ users[u].tenant \in DOMAIN codes
       /\ "tenant" \in DOMAIN users[u]
  /\ \A r \in DOMAIN roles :
       /\ roles[r].permissions \subseteq AllPermissions
       /\ roles[r].code = AdminCode => Wildcard \in roles[r].permissions

(* A token names a user of its tenant, and the admin code goes with the    *)
(* wildcard.                                                               *)
Sound(t) ==
  /\ t.user \in OwnUsers(t.tenant)
  /\ t.scopes \subseteq AllPermissions
  /\ AdminCode \in t.roles => Wildcard \in t.scopes

RowsInv ==
  /\ \A b \in bindings :
       /\ b.user \in OwnUsers(b.tenant) /\ b.role \in OwnRoles(b.tenant)
       /\ b.by \in Done \cup {None}
  /\ \A t \in tokens : Sound(t)

Sessions == {"login", "refresh", "me"}

(* What the stage of a call tells of its request.                          *)
StageInv(c) ==
  /\ pc[c] = "idle" => view[c] = None
  /\ pc[c] # "idle" =>
       /\ "op" \in DOMAIN req[c]
       /\ req[c].op \in Sessions => {"user", "token"} \subseteq DOMAIN req[c]
       /\ req[c].op = "create_role" => req[c].permissions \subseteq AllPermissions
  /\ pc[c] = "deleting" => req[c].op = "unbind"
  /\ pc[c] = "issuing" => req[c].op \in Sessions
  /\ pc[c] = "counted" => req[c].op = "list"
  /\ pc[c] = "checking" => req[c].op = "create_user"
  /\ pc[c] = "answered" => req[c].op \in {"bind", "create_user", "update"}
  /\ view[c] = None \/ view[c] \subseteq AllPermissions

(* What a call has looked up still holds: rows stay in their tenant.       *)
FoundInv(c) ==
  /\ Running(c) /\ req[c].op = "register" => tenant[c] = c
  /\ Running(c) /\ req[c].op # "register" => tenant[c] \in DOMAIN codes
  /\ pc[c] = "called" /\ req[c].op \in Sessions =>
       req[c].user \in OwnUsers(tenant[c])
  /\ pc[c] = "issuing" => Sound(req[c].token)
  /\ pc[c] \in {"written", "answered"} /\ req[c].op = "bind" =>
       req[c].user \in OwnUsers(tenant[c]) /\ req[c].role \in OwnRoles(tenant[c])
  /\ pc[c] \in {"called", "written", "answered"} /\ req[c].op = "create_user" =>
       req[c].roles \subseteq OwnRoles(tenant[c])
  /\ pc[c] = "written" /\ req[c].op = "create_role" => req[c].code # AdminCode

(* The bindings of what a call names.                                      *)
Named(c) == {b \in bindings : b.user = req[c].user /\ b.role = req[c].role}

(* Bindings that a call overlaps with, or that it has marked.              *)
RaceInv(c) ==
  /\ before[c] \subseteq {d \in Calls : pc[d] \in Ended}
  /\ pc[c] \in {"written", "answered"} /\ req[c].op = "bind" =>
       \A b \in Named(c) : b.by \in Calls \ before[c]
  /\ pc[c] = "deleting" =>
       \A b \in Named(c) : b \in doomed[c] \/ b.by \in Calls \ before[c]
  /\ pc[c] = "done" /\ req[c].op = "unbind" =>
       \A b \in Named(c) : b.by \in Calls \ before[c]

(* The history of a call is that of the permissions of its subject.        *)
Now(c) == Granted(Subject(c), tenant[c], bindings)

ViewInv(c) ==
  /\ Running(c) => always[c] \subseteq Now(c) /\ Now(c) \subseteq ever[c]
  /\ view[c] # None => always[c] \subseteq view[c] /\ view[c] \subseteq ever[c]

CallInv(c) == StageInv(c) /\ FoundInv(c) /\ RaceInv(c) /\ ViewInv(c)

(* Every call has its place in the state.                                  *)
ShapeInv ==
  /\ DOMAIN pc = Calls /\ DOMAIN req = Calls /\ DOMAIN tenant = Calls
  /\ DOMAIN doomed = Calls /\ DOMAIN view = Calls
  /\ DOMAIN ever = Calls /\ DOMAIN always = Calls /\ DOMAIN before = Calls

AccessInv ==
  /\ ShapeInv /\ TablesInv /\ RowsInv /\ DuplicatesOverlapped
  /\ \A c \in Calls : CallInv(c)

-----------------------------------------------------------------------------
(* The tables.                                                             *)

(* Rows are added and change their status, nothing else.                   *)
Grow ==
  /\ DOMAIN codes \subseteq DOMAIN codes'
  /\ \A u \in DOMAIN users :
       u \in DOMAIN users' /\ users'[u].tenant = users[u].tenant
  /\ \A r \in DOMAIN roles : r \in DOMAIN roles' /\ roles'[r] = roles[r]

LEMMA OwnRowsGrow ==
  ASSUME Grow, NEW t
  PROVE  OwnUsers(t) \subseteq OwnUsers(t)' /\ OwnRoles(t) \subseteq OwnRoles(t)'
  BY DEF Grow, OwnUsers, OwnRoles

LEMMA SoundStays ==
  ASSUME Grow, NEW t, Sound(t)
  PROVE  /\ t.user \in OwnUsers(t.tenant)' /\ t.scopes \subseteq AllPermissions
         /\ AdminCode \in t.roles => Wildcard \in t.scopes
  BY OwnRowsGrow DEF Sound

(* Roles grant permissions.                                                *)
LEMMA GrantedPermissions ==
  ASSUME TablesInv, NEW u, NEW t, NEW bs
  PROVE  Granted(u, t, bs) \subseteq AllPermissions
  BY DEF Granted, RolesOf, OwnRoles, TablesInv

LEMMA Columns ==
  /\ \A t, n, s : /\ UserRow(t, n, s).tenant = t
                  /\ "tenant" \in DOMAIN UserRow(t, n, s)
  /\ \A t, k, ps : /\ RoleRow(t, k, ps).tenant = t /\ RoleRow(t, k, ps).code = k
                   /\ RoleRow(t, k, ps).permissions = ps
  BY DEF UserRow, RoleRow

-----------------------------------------------------------------------------
(* Calls that do not move.                                                 *)

Kept(d) ==
  /\ pc'[d] = pc[d] /\ req'[d] = req[d] /\ tenant'[d] = tenant[d]
  /\ doomed'[d] = doomed[d] /\ view'[d] = view[d] /\ before'[d] = before[d]

(* Only c moves, which had not ended.                                      *)
Moves(c) ==
  /\ pc[c] \notin Ended
  /\ \A d \in Calls \ {c} : Kept(d)

(* A call is not disturbed by what others write: rows that are added, and  *)
(* bindings of calls that had not ended when it began.                     *)
LEMMA OthersKept ==
  ASSUME NEW c \in Calls, Moves(c), NEW d \in Calls \ {c}, Grow,
         StageInv(d), FoundInv(d), RaceInv(d),
         \A b \in bindings' : b \in bindings \/ b.by = c
  PROVE  StageInv(d)' /\ FoundInv(d)' /\ RaceInv(d)'
<1>1. Kept(d)
  BY DEF Moves
<1>2. StageInv(d)'
  BY <1>1 DEF StageInv, Kept
<1>3. FoundInv(d)'
  <2>1. Running(d)' <=> Running(d)
    BY <1>1 DEF Running, Kept
  <2>2. \A t : OwnUsers(t) \subseteq OwnUsers(t)' /\ OwnRoles(t) \subseteq OwnRoles(t)'
    BY OwnRowsGrow
  <2>3. pc[d] = "issuing" => Sound(req[d].token)'
    BY <1>1, SoundStays DEF FoundInv, Sound, Kept
  <2> QED
    BY <1>1, <2>1, <2>2, <2>3 DEF FoundInv, Kept, Grow
<1>4. RaceInv(d)'
  <2>1. \A e \in Calls : pc[e] \in Ended => pc'[e] \in Ended
    BY DEF Moves, Kept
  <2>2. c \notin before[d]
    BY DEF RaceInv, Moves
  <2>3. \A b \in Named(d)' : b \in Named(d) \/ b.by \in Calls \ before[d]
    BY <1>1, <2>2 DEF Named, Kept
  <2> QED
    BY <1>1, <2>1, <2>3 DEF RaceInv, Kept
<1> QED
  BY <1>2, <1>3, <1>4

(* What a call may see does not change with roles nobody is bound to, nor  *)
(* with bindings of other tenants.                                         *)
LEMMA NowKept ==
  ASSUME RowsInv, Grow, NEW d \in Calls, Kept(d),
         \A b \in bindings : b \in bindings',
         \A b \in bindings' : b \in bindings \/ b.tenant # tenant[d]
  PROVE  Now(d)' = Now(d)
<1>1. Subject(d)' = Subject(d) /\ tenant'[d] = tenant[d]
  BY DEF Subject, Kept
<1> DEFINE bs == {x \in bindings : x.user = Subject(d) /\ x.tenant = tenant[d]}
<1>2. {x \in bindings' : x.user = Subject(d)' /\ x.tenant = tenant'[d]} = bs
  BY <1>1
<1>3. \A b \in bs : b.role \in OwnRoles(tenant[d])
  BY DEF RowsInv
<1>4. \A b \in bs : b.role \in DOMAIN roles' /\ roles'[b.role].tenant = tenant'[d]
  BY <1>1, <1>3 DEF OwnRoles, Grow
<1>5. RolesOf(Subject(d), tenant[d], bindings) = {b.role : b \in bs}
  BY <1>3 DEF RolesOf
<1>6. RolesOf(Subject(d), tenant[d], bindings)' = {b.role : b \in bs}
  BY <1>2, <1>4 DEF RolesOf, OwnRoles
<1>7. \A r \in {b.role : b \in bs} : roles'[r] = roles[r]
  BY <1>3 DEF OwnRoles, Grow
<1> QED
  BY <1>5, <1>6, <1>7 DEF Now, Granted

-----------------------------------------------------------------------------
(* Initial states.                                                         *)

LEMMA InitAccessInv == Init => AccessInv
<1> SUFFICES ASSUME Init PROVE AccessInv
  OBVIOUS
<1>1. \A t \in Tenants : TeamRole[t] \in Range(TeamRole) /\ TeamRole[t] \notin Tenants
  BY AccessAssumption DEF Range
<1>2. \A u \in Tenants \cup Members : u \in DOMAIN users /\
         users[u] = IF u \in Tenants THEN UserRow(u, "admin", "active")
                                     ELSE UserRow(HomeOf[u], "member", "active")
  BY DEF Init
<1>3. \A t \in Tenants : t \in DOMAIN roles /\ roles[t] = RoleRow(t, AdminCode, {Wildcard})
  BY DEF Init
<1>4. \A t \in Tenants : /\ TeamRole[t] \in DOMAIN roles
                         /\ roles[TeamRole[t]] = RoleRow(t, "team", Permissions)
  <2> SUFFICES ASSUME NEW t \in Tenants
               PROVE  /\ TeamRole[t] \in DOMAIN roles
                      /\ roles[TeamRole[t]] = RoleRow(t, "team", Permissions)
    OBVIOUS
  <2>1. (CHOOSE s \in Tenants : TeamRole[s] = TeamRole[t]) = t
    BY AccessAssumption
  <2> QED
    BY <1>1, <2>1 DEF Init
<1>5. DOMAIN roles = Tenants \cup Range(TeamRole) /\ DOMAIN codes = Tenants
      /\ DOMAIN users = Tenants \cup Members
  BY DEF Init
<1>6. TablesInv
  <2>1. \A u \in DOMAIN users : /\ users[u].tenant \in DOMAIN codes
                                /\ "tenant" \in DOMAIN users[u]
    BY <1>2, <1>5, Columns, AccessAssumption
  <2>2. \A r \in DOMAIN roles :
          /\ roles[r].permissions \subseteq AllPermissions
          /\ roles[r].code = AdminCode => Wildcard \in roles[r].permissions
    <3>1. \A r \in Range(TeamRole) : \E t \in Tenants : r = TeamRole[t]
      BY AccessAssumption DEF Range
    <3> QED
      BY <1>3, <1>4, <1>5, <3>1, Columns DEF AllPermissions, AdminCode
  <2> QED
    BY <1>3, <1>5, <2>1, <2>2 DEF TablesInv
<1>7. PICK bound \in SUBSET Members :
        /\ bindings =
            {Binding(None, t, t, t) : t \in Tenants} \cup
            {Binding(None, HomeOf[u], u, TeamRole[HomeOf[u]]) : u \in bound}
        /\ tokens =
            {Token(t, t, {AdminCode}, {Wildcard}) : t \in Tenants} \cup
            {Token(HomeOf[u], u, {"team"}, Permissions) : u \in bound}
  BY DEF Init
<1>8. RowsInv
  <2>1. \A t \in Tenants : t \in OwnUsers(t) /\ t \in OwnRoles(t)
    BY <1>2, <1>3, Columns DEF OwnUsers, OwnRoles
  <2>2. \A u \in Members : u \in OwnUsers(HomeOf[u]) /\ HomeOf[u] \in Tenants
    BY <1>2, Columns, AccessAssumption DEF OwnUsers
  <2>3. \A t \in Tenants : TeamRole[t] \in OwnRoles(t)
    BY <1>4, Columns DEF OwnRoles
  <2>4. ASSUME NEW b \in bindings
        PROVE  /\ b.user \in OwnUsers(b.tenant) /\ b.role \in OwnRoles(b.tenant)
               /\ b.by = None
    BY <1>7, <2>1, <2>2, <2>3 DEF Binding
  <2>5. ASSUME NEW t \in tokens PROVE Sound(t)
    BY <1>7, <2>1, <2>2 DEF Token, Sound, AllPermissions, AdminCode
  <2> QED
    BY <2>4, <2>5 DEF RowsInv
<1>9. DuplicatesOverlapped
  <2>1. ASSUME NEW b \in bindings, NEW d \in bindings, b.user = d.user PROVE b = d
    BY <1>7, <2>1, AccessAssumption DEF Binding
  <2> QED
    BY <2>1 DEF DuplicatesOverlapped
<1>10. ShapeInv
  BY DEF Init, ShapeInv
<1>11. ASSUME NEW c \in Calls PROVE CallInv(c)
  BY DEF Init, CallInv, StageInv, FoundInv, RaceInv, ViewInv, Running, Ended
<1> QED
  BY <1>6, <1>8, <1>9, <1>10, <1>11 DEF AccessInv

-----------------------------------------------------------------------------
(* Calls that do not write to the tables.                                  *)

(* Such a step disturbs neither rows nor other calls.                      *)
LEMMA QuietStep ==
  ASSUME AccessInv, NEW c \in Calls, Moves(c), ShapeInv',
         UNCHANGED <<codes, users, roles, bindings>>,
         \A t \in tokens' : t \in tokens \/ Sound(t),
         \A d \in Calls \ {c} : ever'[d] = ever[d] /\ always'[d] = always[d],
         CallInv(c)'
  PROVE  AccessInv'
<1>1. Grow
  BY DEF Grow
<1>2. ASSUME NEW d \in Calls \ {c} PROVE CallInv(d)'
  <2>1. Kept(d) /\ CallInv(d)
    BY DEF Moves, AccessInv
  <2>2. StageInv(d)' /\ FoundInv(d)' /\ RaceInv(d)'
    BY <1>1, <2>1, OthersKept DEF CallInv
  <2>3. Now(d)' = Now(d)
    BY <1>1, <2>1, NowKept DEF AccessInv
  <2>4. ViewInv(d)'
    BY <2>1, <2>3 DEF CallInv, ViewInv, Kept, Running
  <2> QED
    BY <2>2, <2>4 DEF CallInv
<1>3. Done \subseteq Done'
  BY DEF Done, Moves, Kept, Ended
<1>4. TablesInv'
  BY <1>3 DEF AccessInv, TablesInv
<1>5. RowsInv'
  <2>1. \A t \in tokens' : Sound(t)
    BY DEF AccessInv, RowsInv
  <2>2. \A t \in tokens' : Sound(t)'
    BY <1>1, <2>1, SoundStays DEF Sound
  <2>3. \A t : OwnUsers(t)' = OwnUsers(t) /\ OwnRoles(t)' = OwnRoles(t)
    BY DEF OwnUsers, OwnRoles
  <2> QED
    BY <1>3, <2>2, <2>3 DEF AccessInv, RowsInv
<1>6. DuplicatesOverlapped'
  <2>1. \A b \in bindings : b.by \in Calls => before'[b.by] = before[b.by]
    <3>1. \A b \in bindings : b.by \in Calls => b.by \in Done
      BY AccessAssumption DEF AccessInv, RowsInv
    <3>2. \A d \in Done : d # c
      BY DEF Done, Moves, Ended
    <3> QED
      BY <3>1, <3>2 DEF Moves, Kept
  <2> QED
    BY <2>1 DEF AccessInv, DuplicatesOverlapped
<1> QED
  BY <1>2, <1>4, <1>5, <1>6 DEF AccessInv

(* A call begins: nobody is bound to a call that is no user yet.           *)
LEMMA StartKeeps ==
  ASSUME AccessInv, NEW c \in Calls, NEW q \in Requests[c], NEW t, NEW stage,
         Start(c, q, t, stage), stage \in {"called", "checking", "refused"},
         stage # "refused" =>
           IF q.op = "register" THEN t = c ELSE t \in DOMAIN codes,
         stage = "checking" <=> q.op = "create_user",
         stage = "called" /\ q.op \in Sessions => q.user \in OwnUsers(t)
  PROVE  AccessInv'
<1> DEFINE now == IF "user" \in DOMAIN q THEN Granted(q.user, t, bindings) ELSE {}
<1>1. /\ pc[c] = "idle" /\ pc' = [pc EXCEPT ![c] = stage]
      /\ req' = [req EXCEPT ![c] = q] /\ tenant' = [tenant EXCEPT ![c] = t]
      /\ before' = [before EXCEPT ![c] = {d \in Calls : pc[d] \in Ended}]
      /\ ever' = [ever EXCEPT ![c] = now] /\ always' = [always EXCEPT ![c] = now]
      /\ UNCHANGED <<codes, users, roles, bindings, tokens, doomed, view, total>>
  BY DEF Start, Goto, rowVars
<1> HIDE DEF now
<1>2. ShapeInv'
  BY <1>1 DEF AccessInv, ShapeInv
<1>3. /\ pc'[c] = stage /\ req'[c] = q /\ tenant'[c] = t
      /\ before'[c] = {d \in Calls : pc[d] \in Ended}
      /\ ever'[c] = now /\ always'[c] = now
  BY <1>1 DEF AccessInv, ShapeInv
<1>4. Moves(c) /\ \A d \in Calls \ {c} : ever'[d] = ever[d] /\ always'[d] = always[d]
  BY <1>1 DEF Moves, Kept, Ended, AccessInv, ShapeInv
<1>5. StageInv(c)'
  BY <1>1, <1>3, RequestAssumption
     DEF AccessInv, CallInv, StageInv, Sessions, AllPermissions
<1>6. FoundInv(c)'
  <2>1. t \in DOMAIN codes => t \in DOMAIN codes'
    BY <1>1
  <2>2. OwnUsers(t)' = OwnUsers(t)
    BY <1>1 DEF OwnUsers
  <2> QED
    BY <1>3, <2>1, <2>2 DEF FoundInv, Running, Ended
<1>7. RaceInv(c)'
  <2>1. \A d \in Calls : pc[d] \in Ended => pc'[d] \in Ended
    BY <1>1, <1>4 DEF Moves, Kept, Ended
  <2> QED
    BY <1>3, <2>1 DEF RaceInv
<1>8. ViewInv(c)'
  <2>1. view'[c] = None
    BY <1>1 DEF AccessInv, CallInv, StageInv
  <2>2. Granted(c, t, bindings) = {}
    <3>1. c \notin DOMAIN users
      BY <1>1, AccessAssumption DEF AccessInv, TablesInv, Done
    <3>2. \A b \in bindings : b.user # c
      BY <3>1 DEF AccessInv, RowsInv, OwnUsers
    <3>3. RolesOf(c, t, bindings) = {}
      BY <3>2 DEF RolesOf
    <3> QED
      BY <3>3 DEF Granted
  <2>3. Now(c)' = Granted(IF "user" \in DOMAIN q THEN q.user ELSE c, t, bindings)
    BY <1>1, <1>3 DEF Now, Subject, Granted, RolesOf, OwnRoles
  <2>4. Now(c)' = now
    BY <2>2, <2>3 DEF now
  <2> QED
    BY <1>3, <2>1, <2>4 DEF ViewInv
<1>9. \A x \in tokens' : x \in tokens
  BY <1>1
<1> QED
  BY <1>1, <1>2, <1>4, <1>5, <1>6, <1>7, <1>8, <1>9, QuietStep DEF CallInv

(* What a call must have found out before it goes to a stage.              *)
Due(c, stage) ==
  /\ stage \notin {"idle", "checking", "issuing"}
  /\ stage = "called" => req[c].op = "create_user"
  /\ stage = "done" => req[c].op # "unbind"
  /\ stage = "counted" => req[c].op = "list"
  /\ stage = "answered" =>
       /\ pc[c] = "written"
       /\ req[c].op \in {"bind", "create_user", "update"}
  /\ stage = "deleting" => req[c].op = "unbind" /\ Named(c) \subseteq doomed'[c]
  /\ stage = "written" /\ req[c].op = "bind" =>
       /\ req[c].user \in OwnUsers(tenant[c]) /\ req[c].role \in OwnRoles(tenant[c])
       /\ Named(c) = {}
  /\ stage \in {"called", "written"} /\ req[c].op = "create_user" =>
       req[c].roles \subseteq OwnRoles(tenant[c])
  /\ stage = "written" /\ req[c].op = "create_role" => req[c].code # AdminCode

LEMMA MoveKeeps ==
  ASSUME AccessInv, NEW c \in Calls, NEW stage, Running(c), Goto(c, stage),
         Due(c, stage), UNCHANGED <<rowVars, req, tenant, historyVars>>,
         doomed' = doomed \/ \E bs : doomed' = [doomed EXCEPT ![c] = bs],
         view' = view \/ view' = [view EXCEPT ![c] = Now(c)]
  PROVE  AccessInv'
<1>1. /\ pc' = [pc EXCEPT ![c] = stage]
      /\ UNCHANGED <<codes, users, roles, bindings, tokens, req, tenant, ever,
                     always, before>>
  BY DEF Goto, rowVars, historyVars
<1>2. ShapeInv'
  BY <1>1 DEF AccessInv, ShapeInv
<1>3. pc'[c] = stage /\ (view'[c] = view[c] \/ view'[c] = Now(c))
  BY <1>1 DEF AccessInv, ShapeInv
<1>4. Moves(c)
  BY <1>1 DEF Moves, Kept, Running, AccessInv, ShapeInv
<1>5. pc[c] # "idle" /\ CallInv(c)
  BY DEF Running, AccessInv
<1>6. StageInv(c)'
  <2>1. Now(c) \subseteq AllPermissions
    BY GrantedPermissions DEF AccessInv, Now
  <2> QED
    BY <1>1, <1>3, <1>5, <2>1 DEF CallInv, StageInv, Due
<1>7. \A t : OwnUsers(t)' = OwnUsers(t) /\ OwnRoles(t)' = OwnRoles(t)
  BY <1>1 DEF OwnUsers, OwnRoles
<1>8. FoundInv(c)'
  BY <1>1, <1>3, <1>5, <1>7 DEF CallInv, FoundInv, Due, Running, Sessions
<1>9. RaceInv(c)'
  <2>1. \A d \in Calls : pc[d] \in Ended => pc'[d] \in Ended
    BY <1>1, <1>4 DEF Moves, Kept, Ended
  <2>2. Named(c)' = Named(c)
    BY <1>1 DEF Named
  <2> QED
    BY <1>1, <1>3, <1>5, <2>1, <2>2 DEF CallInv, RaceInv, Due
<1>10. ViewInv(c)'
  <2>1. Now(c)' = Now(c)
    BY <1>1 DEF Now, Subject, Granted, RolesOf, OwnRoles
  <2> QED
    BY <1>1, <1>3, <1>5, <2>1 DEF CallInv, ViewInv
<1> QED
  BY <1>1, <1>2, <1>4, <1>6, <1>8, <1>9, <1>10, QuietStep DEF CallInv

LEMMA BeginKeeps ==
  ASSUME AccessInv, NEW c \in Calls,
         \/ BeginBind(c) \/ BeginUnbind(c) \/ BeginCreateRole(c)
         \/ BeginCreateUser(c) \/ BeginRegister(c) \/ BeginUpdate(c)
         \/ BeginDelete(c) \/ BeginSession(c) \/ BeginCheck(c) \/ BeginList(c)
  PROVE  AccessInv'
<1>1. \A t \in tokens : t.tenant \in DOMAIN codes
  BY DEF AccessInv, RowsInv, Sound, OwnUsers, TablesInv
<1>2. ASSUME NEW op \in {"bind", "unbind", "create_role", "update", "delete", "list"},
             Authorised(c, op, "called")
      PROVE  AccessInv'
  <2>1. PICK q \in Requests[c], t \in tokens :
          q.op = op /\ Start(c, q, t.tenant, "called")
    BY <1>2 DEF Authorised
  <2>2. q.op \notin Sessions \cup {"register", "create_user"}
    BY <2>1 DEF Sessions
  <2> QED
    BY <1>1, <2>1, <2>2, StartKeeps
<1>3. ASSUME Authorised(c, "create_user", "checking") PROVE AccessInv'
  <2>1. PICK q \in Requests[c], t \in tokens :
          q.op = "create_user" /\ Start(c, q, t.tenant, "checking")
    BY <1>3 DEF Authorised
  <2> QED
    BY <1>1, <2>1, StartKeeps
<1>4. CASE BeginRegister(c)
  BY <1>4, StartKeeps DEF BeginRegister, Sessions
<1>5. CASE BeginSession(c)
  <2>1. PICK q \in Requests[c] :
          /\ q.op \in Sessions /\ q.user \in DOMAIN users
          /\ Start(c, q, users[q.user].tenant, "called")
    BY <1>5 DEF BeginSession, Sessions
  <2>2. users[q.user].tenant \in DOMAIN codes
        /\ q.user \in OwnUsers(users[q.user].tenant)
    BY <2>1 DEF AccessInv, TablesInv, OwnUsers
  <2>3. q.op \notin {"register", "create_user"}
    BY <2>1 DEF Sessions
  <2> QED
    BY <2>1, <2>2, <2>3, StartKeeps
<1>6. CASE BeginCheck(c)
  <2>1. PICK q \in Requests[c] :
          /\ q.op = "check"
          /\ \/ q.user \in DOMAIN users /\ Start(c, q, users[q.user].tenant, "called")
             \/ Start(c, q, None, "refused")
    BY <1>6 DEF BeginCheck
  <2>2. q.user \in DOMAIN users => users[q.user].tenant \in DOMAIN codes
    BY DEF AccessInv, TablesInv
  <2>3. q.op \notin Sessions \cup {"register", "create_user"}
    BY <2>1 DEF Sessions
  <2> QED
    BY <2>1, <2>2, <2>3, StartKeeps
<1> QED
  BY <1>2, <1>3, <1>4, <1>5, <1>6
     DEF BeginBind, BeginUnbind, BeginCreateRole, BeginCreateUser, BeginUpdate,
         BeginDelete, BeginList

LEMMA EndKeeps ==
  ASSUME AccessInv, NEW c \in Calls, Running(c), Refuse(c) \/ Abort(c)
  PROVE  AccessInv'
<1>1. PICK stage \in {"refused", "aborted"} :
        /\ Goto(c, stage)
        /\ UNCHANGED <<rowVars, req, tenant, doomed, view, total, historyVars>>
  BY DEF Refuse, Abort
<1>2. Due(c, stage)
  BY DEF Due
<1> QED
  BY <1>1, <1>2, MoveKeeps

(* Checks, marks and writes that their transactions keep to themselves.    *)
LEMMA LookUpKeeps ==
  ASSUME AccessInv, NEW c \in Calls,
         \/ CheckBinding(c) \/ Delete(c) \/ UnbindUnknown(c) \/ CheckRoles(c)
         \/ Insert(c) \/ Write(c)
  PROVE  AccessInv'
<1>1. Running(c)
  BY DEF CheckBinding, Delete, UnbindUnknown, CheckRoles, Insert, Write,
     Running, Ended
<1>2. CASE Refuse(c)
  BY <1>1, <1>2, EndKeeps
<1>3. CASE CheckBinding(c) /\ ~Refuse(c)
  <2>1. /\ req[c].op = "bind" /\ FindsUser(c) /\ req[c].role \in OwnRoles(tenant[c])
        /\ ~Bound(c) /\ Goto(c, "written")
        /\ UNCHANGED <<rowVars, req, tenant, doomed, view, total, historyVars>>
    BY <1>3 DEF CheckBinding
  <2>2. Due(c, "written")
    BY <2>1 DEF Due, FindsUser, Bound, Named
  <2> QED
    BY <1>1, <2>1, <2>2, MoveKeeps
<1>4. CASE Delete(c)
  <2>1. /\ req[c].op = "unbind" /\ req[c].user \in OwnUsers(tenant[c])
        /\ Goto(c, "deleting") /\ doomed' = [doomed EXCEPT ![c] = Matches(c)]
        /\ UNCHANGED <<rowVars, req, tenant, view, total, historyVars>>
    BY <1>4 DEF Delete, FindsUser
  <2>2. Named(c) \subseteq Matches(c)
    BY <2>1 DEF Named, Matches, AccessInv, RowsInv, OwnUsers
  <2>3. doomed'[c] = Matches(c)
    BY <2>1 DEF AccessInv, ShapeInv
  <2>4. Due(c, "deleting")
    BY <2>1, <2>2, <2>3 DEF Due
  <2> QED
    BY <1>1, <2>1, <2>4, MoveKeeps
<1>5. CASE CheckRoles(c) /\ ~Refuse(c)
  <2>1. /\ pc[c] = "checking" /\ req[c].roles \subseteq OwnRoles(tenant[c])
        /\ Goto(c, "called")
        /\ UNCHANGED <<rowVars, req, tenant, doomed, view, total, historyVars>>
    BY <1>5 DEF CheckRoles
  <2>2. req[c].op = "create_user"
    BY <2>1 DEF AccessInv, CallInv, StageInv
  <2>3. Due(c, "called")
    BY <2>1, <2>2 DEF Due
  <2> QED
    BY <1>1, <2>1, <2>3, MoveKeeps
<1>6. CASE Insert(c) /\ ~Refuse(c)
  <2>1. /\ pc[c] = "called" /\ req[c].op \in Inserters /\ ~KeyTaken(c)
        /\ Goto(c, "written")
        /\ UNCHANGED <<rowVars, req, tenant, doomed, view, total, historyVars>>
    BY <1>6 DEF Insert
  <2>2. CASE req[c].op = "create_role"
    <3>1. tenant[c] \in DOMAIN codes
      BY <1>1, <2>2 DEF AccessInv, CallInv, FoundInv
    <3>2. /\ tenant[c] \in DOMAIN roles
          /\ roles[tenant[c]].tenant = tenant[c]
          /\ roles[tenant[c]].code = AdminCode
      BY <3>1, Columns DEF AccessInv, TablesInv
    <3>3. Key(c) = <<"role", tenant[c], req[c].code>>
      BY <2>2 DEF Key
    <3>4. req[c].code # AdminCode
      BY <2>1, <3>2, <3>3 DEF KeyTaken
    <3>5. Due(c, "written")
      BY <2>2, <3>4 DEF Due
    <3> QED
      BY <1>1, <2>1, <3>5, MoveKeeps
  <2>3. CASE req[c].op # "create_role"
    <3>1. Due(c, "written")
      BY <2>1, <2>3 DEF Due, AccessInv, CallInv, FoundInv, Inserters
    <3> QED
      BY <1>1, <2>1, <3>1, MoveKeeps
  <2> QED
    BY <2>2, <2>3
<1>7. CASE Write(c) /\ ~Refuse(c)
  <2>1. /\ req[c].op \in {"update", "delete"} /\ Goto(c, "written")
        /\ UNCHANGED <<rowVars, req, tenant, doomed, view, total, historyVars>>
    BY <1>7 DEF Write
  <2>2. Due(c, "written")
    BY <2>1 DEF Due
  <2> QED
    BY <1>1, <2>1, <2>2, MoveKeeps
<1> QED
  BY <1>2, <1>3, <1>4, <1>5, <1>6, <1>7 DEF UnbindUnknown

(* What a call reads for its answer.                                       *)
LEMMA AnswerKeeps ==
  ASSUME AccessInv, NEW c \in Calls,
         \/ Answer(c) \/ RefuseSession(c) \/ Check(c) \/ Count(c) \/ ListPage(c)
  PROVE  AccessInv'
<1>1. Running(c)
  BY DEF Answer, RefuseSession, Check, Count, ListPage, Running, Ended
<1>2. CASE RefuseSession(c)
  BY <1>1, <1>2, EndKeeps DEF RefuseSession
<1>3. CASE Answer(c) \/ Check(c) \/ Count(c) \/ ListPage(c)
  <2>1. PICK stage :
          /\ Goto(c, stage) /\ Due(c, stage)
          /\ UNCHANGED <<rowVars, req, tenant, doomed, historyVars>>
          /\ view' = view \/ view' = [view EXCEPT ![c] = Now(c)]
    <3>1. CASE Answer(c)
      BY <3>1 DEF Answer, See, Now, Due
    <3>2. CASE Check(c)
      BY <3>2 DEF Check, See, Now, Due
    <3>3. CASE Count(c)
      BY <3>3 DEF Count, Due
    <3>4. CASE ListPage(c)
      <4>1. req[c].op = "list"
        BY <3>4 DEF ListPage, AccessInv, CallInv, StageInv
      <4> QED
        BY <3>4, <4>1 DEF ListPage, Due
    <3> QED
      BY <1>3, <3>1, <3>2, <3>3, <3>4
  <2> QED
    BY <1>1, <2>1, MoveKeeps
<1> QED
  BY <1>2, <1>3

-----------------------------------------------------------------------------
(* Sessions.                                                               *)

(* The admin code goes with the wildcard, in what a user is granted.       *)
LEMMA AdminIsGrantedAll ==
  ASSUME TablesInv, NEW u, NEW t
  PROVE  AdminCode \in CodesOf(u, t) => Wildcard \in Granted(u, t, bindings)
  BY DEF CodesOf, Granted, RolesOf, OwnRoles, TablesInv

LEMMA AuthenticateKeeps ==
  ASSUME AccessInv, NEW c \in Calls, Authenticate(c)
  PROVE  AccessInv'
<1>1. PICK now : now = Now(c)
  OBVIOUS
<1>2. PICK token :
        token = Token(tenant[c], req[c].user, CodesOf(req[c].user, tenant[c]), now)
  OBVIOUS
<1>3. PICK stage : stage = IF req[c].op = "me" THEN "done" ELSE "issuing"
  OBVIOUS
<1>4. /\ pc[c] = "called" /\ req[c].op \in Sessions
      /\ view' = [view EXCEPT ![c] = now]
      /\ pc' = [pc EXCEPT ![c] = stage]
      /\ UNCHANGED <<codes, users, roles, bindings, tokens, tenant, doomed, total,
                     ever, always, before>>
  BY <1>1, <1>3 DEF Authenticate, See, Goto, Now, Sessions, rowVars, historyVars
<1>5. view'[c] = now
  BY <1>4 DEF AccessInv, ShapeInv
<1>6. req' = [req EXCEPT ![c] = [req[c] EXCEPT !.token = token]]
  BY <1>2, <1>5 DEF Authenticate, TokenFor
<1>7. ShapeInv'
  BY <1>4, <1>6 DEF AccessInv, ShapeInv
<1>8. pc'[c] = stage /\ req'[c] = [req[c] EXCEPT !.token = token]
  BY <1>4, <1>6 DEF AccessInv, ShapeInv
<1>9. Moves(c)
  BY <1>4, <1>6 DEF Moves, Kept, Ended, AccessInv, ShapeInv
<1>10. Running(c) /\ CallInv(c) /\ "op" \in DOMAIN req[c]
       /\ {"user", "token"} \subseteq DOMAIN req[c]
  BY <1>4 DEF AccessInv, CallInv, StageInv, Running, Ended
<1>11. /\ DOMAIN req'[c] = DOMAIN req[c] /\ req'[c].op = req[c].op
       /\ req'[c].user = req[c].user /\ req'[c].token = token
  BY <1>8, <1>10
<1>12. Sound(token)
  <2>1. req[c].user \in OwnUsers(tenant[c])
    BY <1>4, <1>10 DEF CallInv, FoundInv
  <2>2. now = Granted(req[c].user, tenant[c], bindings)
    BY <1>1, <1>10 DEF Now, Subject
  <2>3. now \subseteq AllPermissions
    BY <2>2, GrantedPermissions DEF AccessInv
  <2>4. AdminCode \in CodesOf(req[c].user, tenant[c]) => Wildcard \in now
    BY <2>2, AdminIsGrantedAll DEF AccessInv
  <2> QED
    BY <1>2, <2>1, <2>3, <2>4 DEF Sound, Token
<1>13. Sound(token)'
  BY <1>4, <1>12 DEF Sound, OwnUsers
<1>14. StageInv(c)'
  <2>1. now \subseteq AllPermissions
    BY <1>1, GrantedPermissions DEF AccessInv, Now
  <2> QED
    BY <1>3, <1>4, <1>5, <1>8, <1>10, <1>11, <2>1 DEF StageInv, Sessions
<1>15. FoundInv(c)'
  <2>1. req[c].op # "register" /\ tenant[c] \in DOMAIN codes
    BY <1>4, <1>10 DEF Sessions, CallInv, FoundInv
  <2>2. stage \in {"done", "issuing"}
    BY <1>3
  <2> QED
    BY <1>4, <1>8, <1>11, <1>13, <2>1, <2>2 DEF FoundInv, Sessions, Running
<1>16. RaceInv(c)'
  <2>1. \A d \in Calls : pc[d] \in Ended => pc'[d] \in Ended
    BY <1>9 DEF Moves, Kept
  <2>2. stage \in {"done", "issuing"} /\ req'[c].op \in Sessions
    BY <1>3, <1>4, <1>11
  <2> QED
    BY <1>4, <1>8, <1>10, <2>1, <2>2 DEF CallInv, RaceInv, Sessions
<1>17. ViewInv(c)'
  <2>1. Subject(c)' = Subject(c)
    BY <1>11 DEF Subject
  <2>2. Now(c)' = now
    BY <1>1, <1>4, <2>1 DEF Now, Granted, RolesOf, OwnRoles
  <2> QED
    BY <1>1, <1>4, <1>5, <1>10, <2>2 DEF CallInv, ViewInv
<1> QED
  BY <1>4, <1>7, <1>9, <1>14, <1>15, <1>16, <1>17, QuietStep DEF CallInv

LEMMA IssueKeeps ==
  ASSUME AccessInv, NEW c \in Calls, Issue(c)
  PROVE  AccessInv'
<1>1. /\ pc[c] = "issuing" /\ tokens' = tokens \cup {req[c].token}
      /\ pc' = [pc EXCEPT ![c] = "done"]
      /\ UNCHANGED <<codes, users, roles, bindings, req, tenant, doomed, view,
                     ever, always, before>>
  BY DEF Issue, Goto, historyVars
<1>2. ShapeInv'
  BY <1>1 DEF AccessInv, ShapeInv
<1>3. pc'[c] = "done"
  BY <1>1 DEF AccessInv, ShapeInv
<1>4. Moves(c)
  BY <1>1 DEF Moves, Kept, Ended, AccessInv, ShapeInv
<1>5. CallInv(c) /\ req[c].op \in Sessions /\ Sound(req[c].token)
  BY <1>1 DEF AccessInv, CallInv, StageInv, FoundInv
<1>6. StageInv(c)' /\ FoundInv(c)'
  BY <1>1, <1>3, <1>5 DEF CallInv, StageInv, FoundInv, Running, Ended
<1>7. RaceInv(c)'
  <2>1. \A d \in Calls : pc[d] \in Ended => pc'[d] \in Ended
    BY <1>4 DEF Moves, Kept
  <2> QED
    BY <1>1, <1>3, <1>5, <2>1 DEF CallInv, RaceInv, Sessions
<1>8. ViewInv(c)'
  BY <1>1, <1>3, <1>5 DEF CallInv, ViewInv, Running, Ended
<1> QED
  BY <1>1, <1>2, <1>4, <1>5, <1>6, <1>7, <1>8, QuietStep DEF CallInv

-----------------------------------------------------------------------------
(* Commits.                                                                *)

(* A commit only adds or removes bindings that bear its name or that it    *)
(* marked, and ends its call.                                              *)
Commits(c) ==
  /\ Running(c) /\ Goto(c, "done")
  /\ UNCHANGED <<req, tenant, doomed, view, before>>
  /\ DOMAIN ever' = Calls /\ DOMAIN always' = Calls

LEMMA CommitMoves ==
  ASSUME AccessInv, NEW c \in Calls, Commits(c)
  PROVE  /\ ShapeInv' /\ pc'[c] = "done" /\ Moves(c) /\ Done' = Done \cup {c}
         /\ \A d \in Calls \ {c} : Running(d)' <=> Running(d)
         /\ c \notin Done \cup DOMAIN codes \cup DOMAIN users \cup DOMAIN roles
<1>1. pc' = [pc EXCEPT ![c] = "done"] /\ UNCHANGED <<req, tenant, doomed, view, before>>
      /\ DOMAIN ever' = Calls /\ DOMAIN always' = Calls
  BY DEF Commits, Goto
<1>2. ShapeInv' /\ pc'[c] = "done"
  BY <1>1 DEF AccessInv, ShapeInv
<1>3. Moves(c)
  BY <1>1 DEF Moves, Kept, Commits, Running, AccessInv, ShapeInv
<1>4. c \notin Done
  BY <1>3 DEF Moves, Done, Ended
<1>5. Done' = Done \cup {c}
  BY <1>2, <1>3 DEF Moves, Kept, Done
<1>6. \A d \in Calls \ {c} : Running(d)' <=> Running(d)
  BY <1>3 DEF Moves, Kept, Running
<1>7. c \notin Tenants \cup Members \cup Range(TeamRole)
  BY AccessAssumption
<1> QED
  BY <1>2, <1>3, <1>4, <1>5, <1>6, <1>7 DEF AccessInv, TablesInv

LEMMA CommitKeeps ==
  ASSUME AccessInv, NEW c \in Calls, Commits(c), Grow, TablesInv',
         \A b \in bindings' : b \in bindings \/
           /\ b.by = c
           /\ b.user \in OwnUsers(b.tenant)' /\ b.role \in OwnRoles(b.tenant)'
           /\ \A d \in bindings' : d # b /\ d.user = b.user /\ d.role = b.role =>
                d \in bindings /\ d.by \in Calls \ before[c],
         \A t \in tokens' : t \in tokens \/ Sound(t)',
         req[c].op = "unbind" =>
           \A b \in bindings' : b \in Named(c) => b.by \in Calls \ before[c],
         req[c].op = "unbind" => bindings' \subseteq bindings,
         \A d \in Calls : ViewInv(d)'
  PROVE  AccessInv'
<1>1. /\ ShapeInv' /\ pc'[c] = "done" /\ Moves(c) /\ Done' = Done \cup {c}
      /\ UNCHANGED <<req, tenant, doomed, view, before>>
  BY CommitMoves DEF Commits
<1>2. pc[c] \notin Ended \cup {"idle"} /\ CallInv(c)
  BY DEF Commits, Running, AccessInv
<1>3. ASSUME NEW d \in Calls \ {c} PROVE StageInv(d)' /\ FoundInv(d)' /\ RaceInv(d)'
  <2>1. StageInv(d) /\ FoundInv(d) /\ RaceInv(d)
    BY DEF AccessInv, CallInv
  <2> QED
    BY <1>1, <2>1, OthersKept
<1>4. StageInv(c)' /\ FoundInv(c)'
  BY <1>1, <1>2 DEF CallInv, StageInv, FoundInv, Running, Ended
<1>5. RaceInv(c)'
  <2>1. \A d \in Calls : pc[d] \in Ended => pc'[d] \in Ended
    BY <1>1 DEF Moves, Kept
  <2>2. req[c].op = "unbind" => \A b \in Named(c)' : b.by \in Calls \ before[c]
    BY <1>1 DEF Named
  <2> QED
    BY <1>1, <1>2, <2>1, <2>2 DEF CallInv, RaceInv
<1>6. RowsInv'
  <2>1. \A t : OwnUsers(t) \subseteq OwnUsers(t)' /\ OwnRoles(t) \subseteq OwnRoles(t)'
    BY OwnRowsGrow
  <2>2. \A t \in tokens' : Sound(t)'
    BY SoundStays DEF AccessInv, RowsInv, Sound
  <2> QED
    BY <1>1, <2>1, <2>2 DEF AccessInv, RowsInv
<1>7. DuplicatesOverlapped'
  <2> SUFFICES ASSUME NEW b \in bindings', NEW d \in bindings',
                      b.user = d.user, b.role = d.role, b # d
               PROVE  b.by \in Calls /\ d.by \in Calls /\ b.by \notin before[d.by]
    BY <1>1 DEF DuplicatesOverlapped
  <2>1. CASE b \in bindings /\ d \in bindings
    BY <2>1 DEF AccessInv, DuplicatesOverlapped
  <2>2. CASE b \notin bindings
    <3>1. b.by = c /\ d \in bindings /\ d.by \in Calls
      BY <2>2
    <3>2. c \notin before[d.by]
      BY <1>2, <3>1 DEF AccessInv, CallInv, RaceInv
    <3> QED
      BY <3>1, <3>2
  <2>3. CASE d \notin bindings
    BY <2>3
  <2> QED
    BY <2>1, <2>2, <2>3
<1> QED
  BY <1>1, <1>3, <1>4, <1>5, <1>6, <1>7 DEF AccessInv, CallInv

(* Views follow the bindings, or the bindings they follow stay.            *)
LEMMA RebindViews ==
  ASSUME AccessInv, NEW c \in Calls, Commits(c), NEW bs, Rebind(bs),
         UNCHANGED roles
  PROVE  \A d \in Calls : ViewInv(d)'
<1>1. /\ bindings' = bs /\ UNCHANGED <<req, tenant, view>>
      /\ \A d \in Calls :
           /\ ever'[d] = IF Running(d)
                         THEN ever[d] \cup Granted(Subject(d), tenant[d], bs)
                         ELSE ever[d]
           /\ always'[d] = IF Running(d)
                           THEN always[d] \cap Granted(Subject(d), tenant[d], bs)
                           ELSE always[d]
  BY DEF Rebind, Commits
<1>2. pc'[c] = "done" /\ \A d \in Calls \ {c} : Running(d)' <=> Running(d)
  BY CommitMoves
<1> SUFFICES ASSUME NEW d \in Calls PROVE ViewInv(d)'
  OBVIOUS
<1>3. Now(d)' = Granted(Subject(d), tenant[d], bs)
  BY <1>1 DEF Now, Subject, Granted, RolesOf, OwnRoles
<1>4. Running(d)' => Running(d)
  BY <1>2 DEF Running, Ended
<1>5. ViewInv(d)
  BY DEF AccessInv, CallInv
<1> QED
  BY <1>1, <1>3, <1>4, <1>5 DEF ViewInv

LEMMA SteadyViews ==
  ASSUME AccessInv, NEW c \in Calls, Commits(c), Grow, UNCHANGED <<ever, always>>,
         \A b \in bindings : b \in bindings',
         \A b \in bindings' : b \in bindings \/ b.tenant = c
  PROVE  \A d \in Calls : ViewInv(d)'
<1>1. /\ pc'[c] = "done" /\ \A d \in Calls \ {c} : Running(d)' <=> Running(d)
      /\ Moves(c) /\ c \notin DOMAIN codes
  BY CommitMoves
<1> SUFFICES ASSUME NEW d \in Calls PROVE ViewInv(d)'
  OBVIOUS
<1>2. ViewInv(d) /\ view'[d] = view[d]
  BY DEF AccessInv, CallInv, Commits
<1>3. Running(d)' => Running(d) /\ d # c
  BY <1>1 DEF Running, Ended
<1>4. ASSUME Running(d), d # c PROVE Now(d)' = Now(d)
  <2>1. tenant[d] # c
    BY <1>1, <1>4 DEF AccessInv, CallInv, FoundInv
  <2>2. Kept(d)
    BY <1>1, <1>4 DEF Moves
  <2> QED
    BY <2>1, <2>2, NowKept DEF AccessInv
<1> QED
  BY <1>2, <1>3, <1>4 DEF ViewInv

LEMMA CommitBindKeeps ==
  ASSUME AccessInv, NEW c \in Calls, CommitBind(c)
  PROVE  AccessInv'
<1>1. PICK b : b = Binding(c, tenant[c], req[c].user, req[c].role)
  OBVIOUS
<1>2. /\ pc[c] = "answered" /\ req[c].op = "bind"
      /\ Rebind(bindings \cup {b}) /\ Goto(c, "done")
      /\ UNCHANGED <<codes, users, roles, tokens, req, tenant, doomed, view>>
  BY <1>1 DEF CommitBind
<1>3. Commits(c)
  BY <1>2 DEF Commits, Rebind, Running, Ended
<1>4. Grow
  BY <1>2 DEF Grow
<1>5. TablesInv'
  BY <1>2, <1>3, CommitMoves DEF AccessInv, TablesInv
<1>6. /\ b.by = c /\ b.user = req[c].user /\ b.role = req[c].role
      /\ b.tenant = tenant[c] /\ bindings' = bindings \cup {b}
  BY <1>1, <1>2 DEF Binding, Rebind
<1>7. req[c].user \in OwnUsers(tenant[c])' /\ req[c].role \in OwnRoles(tenant[c])'
  BY <1>2 DEF AccessInv, CallInv, FoundInv, OwnUsers, OwnRoles
<1>8. \A d \in bindings : d.user = b.user /\ d.role = b.role => d.by \in Calls \ before[c]
  BY <1>2, <1>6 DEF AccessInv, CallInv, RaceInv, Named
<1>9. \A d \in Calls : ViewInv(d)'
  BY <1>2, <1>3, RebindViews
<1> QED
  BY <1>2, <1>3, <1>4, <1>5, <1>6, <1>7, <1>8, <1>9, CommitKeeps

LEMMA CommitUnbindKeeps ==
  ASSUME AccessInv, NEW c \in Calls, CommitUnbind(c)
  PROVE  AccessInv'
<1>1. /\ pc[c] = "deleting" /\ Rebind(bindings \ doomed[c]) /\ Goto(c, "done")
      /\ UNCHANGED <<codes, users, roles, tokens, req, tenant, doomed, view>>
  BY DEF CommitUnbind
<1>2. Commits(c)
  BY <1>1 DEF Commits, Rebind, Running, Ended
<1>3. Grow
  BY <1>1 DEF Grow
<1>4. TablesInv'
  BY <1>1, <1>2, CommitMoves DEF AccessInv, TablesInv
<1>5. bindings' = bindings \ doomed[c]
  BY <1>1 DEF Rebind
<1>6. \A b \in bindings' : b \in Named(c) => b.by \in Calls \ before[c]
  BY <1>1, <1>5 DEF AccessInv, CallInv, RaceInv
<1>7. \A d \in Calls : ViewInv(d)'
  BY <1>1, <1>2, RebindViews
<1> QED
  BY <1>1, <1>2, <1>3, <1>4, <1>5, <1>6, <1>7, CommitKeeps

LEMMA CommitRegisterKeeps ==
  ASSUME AccessInv, NEW c \in Calls, CommitRegister(c)
  PROVE  AccessInv'
<1>1. PICK user : user = UserRow(c, "admin", "active")
  OBVIOUS
<1>2. PICK role : role = RoleRow(c, AdminCode, {Wildcard})
  OBVIOUS
<1>3. PICK b : b = Binding(c, c, c, c)
  OBVIOUS
<1>4. PICK token : token = Token(c, c, {AdminCode}, {Wildcard})
  OBVIOUS
<1>5. /\ pc[c] = "written" /\ req[c].op = "register"
      /\ codes' = With(codes, c, req[c].code)
      /\ users' = With(users, c, user) /\ roles' = With(roles, c, role)
      /\ bindings' = bindings \cup {b} /\ tokens' = tokens \cup {token}
      /\ Goto(c, "done")
      /\ UNCHANGED <<req, tenant, doomed, view, ever, always, before>>
  BY <1>1, <1>2, <1>3, <1>4 DEF CommitRegister, historyVars
<1>6. Commits(c)
  BY <1>5 DEF Commits, Running, Ended, AccessInv, ShapeInv
<1>7. Done' = Done \cup {c} /\ c \notin DOMAIN codes \cup DOMAIN users \cup DOMAIN roles
  BY <1>6, CommitMoves
<1>8. /\ DOMAIN codes' = DOMAIN codes \cup {c}
      /\ DOMAIN users' = DOMAIN users \cup {c} /\ users'[c] = user
      /\ \A u \in DOMAIN users : users'[u] = users[u]
      /\ DOMAIN roles' = DOMAIN roles \cup {c} /\ roles'[c] = role
      /\ \A r \in DOMAIN roles : roles'[r] = roles[r]
  BY <1>5, <1>7 DEF With
<1>9. Grow
  BY <1>8 DEF Grow
<1>10. /\ user.tenant = c /\ "tenant" \in DOMAIN user
       /\ role.tenant = c /\ role.permissions = {Wildcard}
  BY <1>1, <1>2, Columns
<1>11. TablesInv'
  BY <1>2, <1>7, <1>8, <1>10 DEF AccessInv, TablesInv, AllPermissions
<1>12. c \in OwnUsers(c)' /\ c \in OwnRoles(c)'
  BY <1>8, <1>10 DEF OwnUsers, OwnRoles
<1>13. Sound(token)'
  BY <1>4, <1>12 DEF Sound, Token, AllPermissions
<1>14. b.by = c /\ b.tenant = c /\ b.user = c /\ b.role = c
  BY <1>3 DEF Binding
<1>15. \A d \in bindings : d.user # c
  BY <1>7 DEF AccessInv, RowsInv, OwnUsers
<1>16. \A d \in Calls : ViewInv(d)'
  BY <1>5, <1>6, <1>9, <1>14, SteadyViews
<1> QED
  BY <1>5, <1>6, <1>9, <1>11, <1>12, <1>13, <1>14, <1>15, <1>16, CommitKeeps

LEMMA CommitCreateRoleKeeps ==
  ASSUME AccessInv, NEW c \in Calls, CommitCreateRole(c)
  PROVE  AccessInv'
<1>1. PICK role : role = RoleRow(tenant[c], req[c].code, req[c].permissions)
  OBVIOUS
<1>2. /\ pc[c] = "written" /\ req[c].op = "create_role"
      /\ roles' = With(roles, c, role) /\ Goto(c, "done")
      /\ UNCHANGED <<codes, users, bindings, tokens, req, tenant, doomed, view,
                     ever, always, before>>
  BY <1>1 DEF CommitCreateRole, historyVars
<1>3. Commits(c)
  BY <1>2 DEF Commits, Running, Ended, AccessInv, ShapeInv
<1>4. Done' = Done \cup {c} /\ c \notin DOMAIN roles /\ c \notin DOMAIN codes
  BY <1>3, CommitMoves
<1>5. /\ DOMAIN roles' = DOMAIN roles \cup {c} /\ roles'[c] = role
      /\ \A r \in DOMAIN roles : roles'[r] = roles[r]
  BY <1>2, <1>4 DEF With
<1>6. Grow
  BY <1>2, <1>5 DEF Grow
<1>7. role.permissions \subseteq AllPermissions /\ role.code # AdminCode
  BY <1>1, <1>2, Columns DEF AccessInv, CallInv, StageInv, FoundInv
<1>8. TablesInv'
  BY <1>2, <1>4, <1>5, <1>7 DEF AccessInv, TablesInv
<1>9. \A d \in Calls : ViewInv(d)'
  BY <1>2, <1>3, <1>6, SteadyViews
<1> QED
  BY <1>2, <1>3, <1>6, <1>8, <1>9, CommitKeeps

LEMMA CommitCreateUserKeeps ==
  ASSUME AccessInv, NEW c \in Calls, CommitCreateUser(c)
  PROVE  AccessInv'
<1>1. PICK user : user = UserRow(tenant[c], req[c].name, req[c].status)
  OBVIOUS
<1>2. PICK added : added = {Binding(c, tenant[c], c, r) : r \in req[c].roles}
  OBVIOUS
<1>3. /\ pc[c] = "answered" /\ req[c].op = "create_user"
      /\ users' = With(users, c, user) /\ Rebind(bindings \cup added)
      /\ Goto(c, "done")
      /\ UNCHANGED <<codes, roles, tokens, req, tenant, doomed, view>>
  BY <1>1, <1>2 DEF CommitCreateUser
<1>4. Commits(c)
  BY <1>3 DEF Commits, Rebind, Running, Ended
<1>5. Done' = Done \cup {c} /\ c \notin DOMAIN users
  BY <1>4, CommitMoves
<1>6. /\ DOMAIN users' = DOMAIN users \cup {c} /\ users'[c] = user
      /\ \A u \in DOMAIN users : users'[u] = users[u]
  BY <1>3, <1>5 DEF With
<1>7. Grow
  BY <1>3, <1>6 DEF Grow
<1>8. user.tenant = tenant[c] /\ "tenant" \in DOMAIN user
  BY <1>1, Columns
<1>9. tenant[c] \in DOMAIN codes /\ req[c].roles \subseteq OwnRoles(tenant[c])
  BY <1>3, <1>4 DEF Commits, AccessInv, CallInv, FoundInv
<1>10. TablesInv'
  BY <1>3, <1>5, <1>6, <1>8, <1>9 DEF AccessInv, TablesInv
<1>11. c \in OwnUsers(tenant[c])' /\ OwnRoles(tenant[c])' = OwnRoles(tenant[c])
  BY <1>3, <1>6, <1>8 DEF OwnUsers, OwnRoles
<1>12. \A b \in added : /\ b.by = c /\ b.tenant = tenant[c] /\ b.user = c
                        /\ b.role \in req[c].roles
                        /\ b = Binding(c, tenant[c], c, b.role)
  BY <1>2 DEF Binding
<1>13. \A d \in bindings : d.user # c
  BY <1>5 DEF AccessInv, RowsInv, OwnUsers
<1>14. bindings' = bindings \cup added
  BY <1>3 DEF Rebind
<1>15. \A d \in Calls : ViewInv(d)'
  BY <1>3, <1>4, RebindViews
<1>16. \A b \in added :
         /\ b.user \in OwnUsers(b.tenant)' /\ b.role \in OwnRoles(b.tenant)'
         /\ \A d \in bindings' : ~(d # b /\ d.user = b.user /\ d.role = b.role)
  BY <1>3, <1>9, <1>11, <1>12, <1>13, <1>14
<1> QED
  BY <1>3, <1>4, <1>7, <1>10, <1>12, <1>14, <1>15, <1>16, CommitKeeps

LEMMA CommitWriteKeeps ==
  ASSUME AccessInv, NEW c \in Calls, CommitWrite(c)
  PROVE  AccessInv'
<1>1. PICK status : users' = [users EXCEPT ![req[c].user].status = status]
  BY DEF CommitWrite
<1>2. /\ pc[c] \in {"answered", "written"} /\ req[c].op \in {"update", "delete"}
      /\ Goto(c, "done")
      /\ UNCHANGED <<codes, roles, bindings, tokens, req, tenant, doomed, view,
                     ever, always, before>>
  BY DEF CommitWrite, historyVars
<1>3. Commits(c)
  BY <1>2 DEF Commits, Running, Ended, AccessInv, ShapeInv
<1>4. Done' = Done \cup {c}
  BY <1>3, CommitMoves
<1>5. DOMAIN users' = DOMAIN users /\
      \A u \in DOMAIN users : /\ "tenant" \in DOMAIN users'[u]
                              /\ users'[u].tenant = users[u].tenant
  <2>1. \A u \in DOMAIN users : "tenant" \in DOMAIN users[u]
    BY DEF AccessInv, TablesInv
  <2>2. ASSUME NEW u \in DOMAIN users
        PROVE  users'[u] = users[u] \/ users'[u] = [users[u] EXCEPT !.status = status]
    BY <1>1
  <2>3. \A row : "tenant" \in DOMAIN row =>
           /\ "tenant" \in DOMAIN [row EXCEPT !.status = status]
           /\ [row EXCEPT !.status = status].tenant = row.tenant
    OBVIOUS
  <2> QED
    BY <1>1, <2>1, <2>2, <2>3
<1>6. Grow
  BY <1>2, <1>5 DEF Grow
<1>7. TablesInv'
  BY <1>2, <1>4, <1>5 DEF AccessInv, TablesInv
<1>8. \A d \in Calls : ViewInv(d)'
  BY <1>2, <1>3, <1>6, SteadyViews
<1> QED
  BY <1>2, <1>3, <1>6, <1>7, <1>8, CommitKeeps

-----------------------------------------------------------------------------
(* The invariant.                                                          *)

LEMMA UnchangedKeeps == AccessInv /\ UNCHANGED vars => AccessInv'
<1> SUFFICES ASSUME AccessInv, UNCHANGED vars PROVE AccessInv'
  OBVIOUS
<1>1. UNCHANGED <<codes, users, roles, bindings, tokens, pc, req, tenant, doomed,
                  view, total, ever, always, before>>
  BY DEF vars, rowVars, callVars, historyVars
<1>2. \A t : OwnUsers(t)' = OwnUsers(t) /\ OwnRoles(t)' = OwnRoles(t)
  BY <1>1 DEF OwnUsers, OwnRoles
<1>3. Done' = Done
  BY <1>1 DEF Done
<1>4. ShapeInv' /\ TablesInv'
  BY <1>1, <1>3 DEF AccessInv, ShapeInv, TablesInv
<1>5. RowsInv' /\ DuplicatesOverlapped'
  BY <1>1, <1>2, <1>3 DEF AccessInv, RowsInv, Sound, DuplicatesOverlapped
<1>6. ASSUME NEW c \in Calls PROVE CallInv(c)'
  <2>1. CallInv(c)
    BY DEF AccessInv
  <2>2. (Running(c)' <=> Running(c)) /\ Named(c)' = Named(c)
    BY <1>1 DEF Running, Named
  <2>3. StageInv(c)' /\ RaceInv(c)'
    BY <1>1, <2>1, <2>2 DEF CallInv, StageInv, RaceInv
  <2>4. FoundInv(c)'
    BY <1>1, <1>2, <2>1, <2>2 DEF CallInv, FoundInv, Sound
  <2>5. Now(c)' = Now(c)
    BY <1>1 DEF Now, Subject, Granted, RolesOf, OwnRoles
  <2>6. ViewInv(c)'
    BY <1>1, <2>1, <2>2, <2>5 DEF CallInv, ViewInv
  <2> QED
    BY <2>3, <2>4, <2>6 DEF CallInv
<1> QED
  BY <1>4, <1>5, <1>6 DEF AccessInv

LEMMA NextAccessInv == AccessInv /\ [Next]_vars => AccessInv'
<1> SUFFICES ASSUME AccessInv, [Next]_vars PROVE AccessInv'
  OBVIOUS
<1>1. CASE UNCHANGED vars
  BY <1>1, UnchangedKeeps
<1>2. ASSUME NEW c \in Calls, Administrate(c) PROVE AccessInv'
  BY <1>2, BeginKeeps, LookUpKeeps, AnswerKeeps, CommitBindKeeps, CommitUnbindKeeps,
     CommitRegisterKeeps, CommitCreateRoleKeeps, CommitCreateUserKeeps,
     CommitWriteKeeps DEF Administrate
<1>3. ASSUME NEW c \in Calls, Decide(c) PROVE AccessInv'
  BY <1>3, BeginKeeps, AnswerKeeps, AuthenticateKeeps, IssueKeeps DEF Decide
<1>4. ASSUME NEW c \in Calls, Abort(c) PROVE AccessInv'
  BY <1>4, EndKeeps DEF Abort
<1> QED
  BY <1>1, <1>2, <1>3, <1>4 DEF Next

LEMMA AccessInvariant == Spec => []AccessInv
  BY InitAccessInv, NextAccessInv, PTL DEF Spec

-----------------------------------------------------------------------------
(* Tenants stay apart: a binding names a user and a role of one tenant and *)
(* a token a user of its own, because what bind_role, create_user and      *)
(* authenticate look up at first is still so when they commit.             *)
THEOREM TenantsStayApart == Spec => []WithinTenant
<1>1. AccessInv => WithinTenant
  BY DEF AccessInv, RowsInv, Sound, CallInv, StageInv, WithinTenant, Done
<1> QED
  BY <1>1, AccessInvariant, PTL

(* Both permission checks of rbac.py decide alike on a token: the code     *)
(* admin is given once in each tenant, at register_tenant, to a role with  *)
(* the wildcard, and the unique key of roles keeps others from taking it.  *)
THEOREM PathsStayAgreed == Spec => []PathsAgree
<1>1. AccessInv => PathsAgree
  BY DEF AccessInv, RowsInv, Sound, PathsAgree, Allows, Decides
<1> QED
  BY <1>1, AccessInvariant, PTL

(* No answer and no token of a call brings back a permission its user lost *)
(* before it began, or lacks one the user had all along.                   *)
THEOREM ViewsStayCurrent == Spec => []ViewsCurrent
<1>1. AccessInv => ViewsCurrent
  BY DEF AccessInv, CallInv, ViewInv, ViewsCurrent
<1> QED
  BY <1>1, AccessInvariant, PTL

(* The pre-check of bind_role fails only calls that overlap: two bindings  *)
(* of one user and role come from two of these.                            *)
THEOREM DuplicatesFromOverlaps == Spec => []DuplicatesOverlapped
<1>1. AccessInv => DuplicatesOverlapped
  BY DEF AccessInv
<1> QED
  BY <1>1, AccessInvariant, PTL

(* unbind_role removes duplicates too: what is left of a binding after it  *)
(* was made by calls that had not ended when it began.                     *)
THEOREM UnbindsSweep == Spec => []UnbindSweeps
<1>1. AccessInv => UnbindSweeps
  BY DEF AccessInv, CallInv, RaceInv, Named, UnbindSweeps
<1> QED
  BY <1>1, AccessInvariant, PTL
=============================================================================
