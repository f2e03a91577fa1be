------------------------- MODULE Datasources_proofs ------------------------
(***************************************************************************)
(* Theorems about Datasources, for any number of calls, tenants and names. *)
(***************************************************************************)
EXTENDS Datasources, FiniteSetTheorems, TLAPS

(* What the table holds: rows that decrypt where they are.                 *)
Row(i) == {row \in Rows : row.aad = Aad(row.tenant, i, row.kind)}

Busy == {"check", "insert", "probe", "publish", "commit"}

(* A call at work on a row: the one it has found is there, and of its own  *)
(* tenant; the one it has inserted will be.                                *)
AtWork(c) ==
  /\ request[c] \in Requests
  /\ IF request[c].op = "create"
       THEN /\ rows[c] = None
            /\ pc[c] # "insert" =>
                 loaded[c] \in Row(c) /\ loaded[c].tenant = TenantOf[c] /\ ~loaded[c].deleted
       ELSE /\ pc[c] # "insert"
            /\ rows[request[c].id] \in Row(request[c].id)
            /\ rows[request[c].id].tenant = TenantOf[c]

TypeInv ==
  /\ rows \in [Ids -> {None} \cup Rows]
  /\ policies \in [Ids -> {None} \cup Policies]
  /\ pc \in [Calls -> Busy \cup {"idle", "done", "failed"}]
  /\ request \in [Calls -> {None} \cup Requests]
  /\ loaded = [c \in Calls |-> loaded[c]]

RowsInv == \A i \in Ids : rows[i] # None => rows[i] \in Row(i)

CallsInv ==
  \A c \in Calls :
    /\ pc[c] = "idle" => rows[c] = None
    /\ pc[c] \in Busy => AtWork(c)

TenancyInv == TypeInv /\ RowsInv /\ CallsInv

-----------------------------------------------------------------------------
(* Rows and requests.                                                      *)

LEMMA RequestIds ==
  ASSUME NEW r \in Requests, r.op # "create"
  PROVE  r.id \in Ids
BY DEF Requests

LEMMA NewRowIsRow ==
  ASSUME NEW i \in Ids, NEW tenant \in Tenants, NEW name \in Names, NEW kind \in Kinds,
         NEW enabled \in BOOLEAN
  PROVE  /\ NewRow(tenant, i, name, kind, enabled) \in Row(i)
         /\ NewRow(tenant, i, name, kind, enabled).tenant = tenant
         /\ ~NewRow(tenant, i, name, kind, enabled).deleted
BY DEF NewRow, Row, Aad, Rows

(* What a flush makes of a row.                                            *)
LEMMA FlushedRow ==
  ASSUME NEW c, NEW i \in Ids, NEW row \in Row(i),
         "name" \in Diff(c) => request[c]["name"] \in Names,
         "enabled" \in Diff(c) => request[c]["enabled"] \in BOOLEAN
  PROVE  /\ Flushed(c, row) \in Row(i)
         /\ Flushed(c, row).tenant = row.tenant /\ Flushed(c, row).deleted = row.deleted
         /\ Flushed(c, row).name = IF "name" \in Diff(c) THEN request[c]["name"] ELSE row.name
         /\ Flushed(c, row).enabled =
              IF "enabled" \in Diff(c) THEN request[c]["enabled"] ELSE row.enabled
<1> DEFINE flushed == Flushed(c, row)
           columns == {"tenant", "name", "kind", "enabled", "deleted", "aad"}
<1>1. flushed = [f \in columns |-> IF f \in Diff(c) THEN request[c][f] ELSE row[f]]
  BY DEF Row, Flushed, Rows
<1>2. Diff(c) \subseteq {"name", "enabled"}
  BY DEF Diff
<1> HIDE DEF flushed
<1>3. /\ flushed.tenant = row.tenant /\ flushed.kind = row.kind
      /\ flushed.deleted = row.deleted /\ flushed.aad = row.aad
      /\ flushed.name \in Names /\ flushed.enabled \in BOOLEAN
  BY <1>1, <1>2 DEF Row, Rows
<1>4. flushed = [tenant |-> flushed.tenant, name |-> flushed.name, kind |-> flushed.kind,
                 enabled |-> flushed.enabled, deleted |-> flushed.deleted,
                 aad |-> flushed.aad]
  BY <1>1
<1>5. flushed \in Row(i)
  BY <1>3, <1>4 DEF Row, Rows
<1>6. /\ flushed.name = IF "name" \in Diff(c) THEN request[c]["name"] ELSE row.name
      /\ flushed.enabled = IF "enabled" \in Diff(c) THEN request[c]["enabled"] ELSE row.enabled
  BY <1>1
<1> QED  BY <1>3, <1>5, <1>6 DEF flushed

LEMMA DeletedRow ==
  ASSUME NEW i \in Ids, NEW row \in Row(i), NEW enabled \in BOOLEAN
  PROVE  LET deleted == [row EXCEPT !.deleted = TRUE, !.enabled = enabled]
         IN  deleted \in Row(i) /\ deleted.tenant = row.tenant
BY DEF Row, Rows

LEMMA InitTenancy == Init => TenancyInv
<1> SUFFICES ASSUME Init PROVE TenancyInv
  OBVIOUS
<1>1. First \in Ids /\ rows[First] \in Row(First)
  <2>1. First \in Ids
    BY DEF Ids
  <2>2. NewRow(FirstRow.tenant, First, FirstRow.name, FirstRow.kind, TRUE) \in Row(First)
    BY <2>1, NewRowIsRow, DatasourcesAssumption
  <2> QED  BY <2>1, <2>2 DEF Init
<1>2. \A i \in Ids \ {First} : rows[i] = None
  BY DEF Init
<1>3. TypeInv
  BY <1>1, <1>2 DEF TypeInv, Init, Row
<1>4. RowsInv
  BY <1>1, <1>2 DEF RowsInv
<1>5. CallsInv
  BY <1>2, DatasourcesAssumption DEF Init, CallsInv, Busy, Ids
<1> QED  BY <1>3, <1>4, <1>5 DEF TenancyInv

-----------------------------------------------------------------------------
(* Steps.                                                                  *)

(* A step of a call that keeps rows where and whose they are leaves what   *)
(* the other calls have found.                                             *)
LEMMA OthersKeepRows ==
  ASSUME TenancyInv, TypeInv', NEW c \in Calls,
         \A i \in Ids : rows[i] \in Row(i) =>
            rows'[i] \in Row(i) /\ rows'[i].tenant = rows[i].tenant,
         \A i \in Ids : rows[i] = None =>
            rows'[i] = None \/ (i = c /\ rows'[i] \in Row(i)),
         \A d \in Calls \ {c} :
            pc'[d] = pc[d] /\ request'[d] = request[d] /\ loaded'[d] = loaded[d],
         pc'[c] # "idle", pc'[c] \in Busy => AtWork(c)'
  PROVE  TenancyInv'
<1>1. RowsInv'
  BY DEF TenancyInv, RowsInv
<1>2. ASSUME NEW d \in Calls \ {c}, pc'[d] \in Busy
      PROVE  AtWork(d)'
  <2>1. pc[d] \in Busy /\ AtWork(d)
    BY <1>2 DEF TenancyInv, CallsInv
  <2>2. CASE request[d].op = "create"
    <3>1. rows'[d] = None
      BY <2>1, <2>2 DEF AtWork, Ids
    <3> QED  BY <2>1, <2>2, <3>1, <1>2 DEF AtWork, Row, Rows
  <2>3. CASE request[d].op # "create"
    <3>1. request[d].id \in Ids
      BY <2>1, <2>3, RequestIds DEF AtWork
    <3> QED  BY <2>1, <2>3, <3>1, <1>2 DEF AtWork
  <2> QED  BY <2>2, <2>3
<1>3. ASSUME NEW d \in Calls, pc'[d] = "idle"
      PROVE  rows'[d] = None
  BY <1>3 DEF TenancyInv, CallsInv, Ids
<1>4. CallsInv'
  BY <1>2, <1>3 DEF CallsInv
<1> QED  BY <1>1, <1>4 DEF TenancyInv

LEMMA FoundStep ==
  ASSUME TenancyInv, NEW c \in Calls, NEW r \in Requests, r.op # "create",
         NEW found \in {"check", "probe", "publish", "commit", "done", "failed"},
         Accept(c, r), Load(c, r, found), UNCHANGED <<rows, policies>>
  PROVE  TenancyInv'
<1>1. r.id \in Ids
  BY RequestIds
<1>2. /\ pc' = [pc EXCEPT ![c] = pc'[c]] /\ pc'[c] \in {found, "failed"}
      /\ request' = [request EXCEPT ![c] = r]
      /\ loaded' = [loaded EXCEPT ![c] = loaded'[c]]
  BY DEF Load, Accept, Goto, TenancyInv, TypeInv
<1>3. TypeInv' /\ pc'[c] # "idle"
  BY <1>2 DEF TenancyInv, TypeInv, Busy
<1>4. ASSUME pc'[c] \in Busy
      PROVE  AtWork(c)'
  <2>1. Finds(TenantOf[c], r.id)
    BY <1>4 DEF Load, Goto, Busy, TenancyInv, TypeInv
  <2>2. rows[r.id] \in Row(r.id) /\ rows[r.id].tenant = TenantOf[c]
    BY <1>1, <2>1 DEF Finds, TenancyInv, RowsInv
  <2>3. request'[c] = r /\ pc'[c] # "insert"
    BY <1>2 DEF TenancyInv, TypeInv
  <2> QED  BY <2>2, <2>3 DEF AtWork
<1>5. \A d \in Calls \ {c} :
         pc'[d] = pc[d] /\ request'[d] = request[d] /\ loaded'[d] = loaded[d]
  BY <1>2 DEF TenancyInv, TypeInv
<1> QED  BY <1>3, <1>4, <1>5, OthersKeepRows

LEMMA BeginSteps ==
  ASSUME TenancyInv, NEW c \in Calls,
         \/ BeginCreate(c) \/ BeginUpdate(c) \/ BeginDelete(c)
         \/ BeginTest(c) \/ BeginPolicy(c)
  PROVE  TenancyInv' /\ UNCHANGED <<rows, policies>>
<1>1. CASE BeginCreate(c)
  <2>1. PICK r \in Requests :
          /\ r.op = "create" /\ pc[c] = "idle"
          /\ request' = [request EXCEPT ![c] = r]
          /\ pc' = [pc EXCEPT ![c] = pc'[c]] /\ pc'[c] \in {"failed", "insert"}
          /\ UNCHANGED <<rows, policies, loaded>>
    BY <1>1 DEF BeginCreate, Accept, Goto, dbVars, TenancyInv, TypeInv
  <2>2. TypeInv'
    BY <2>1 DEF TenancyInv, TypeInv, Busy
  <2>3. pc'[c] \in Busy => AtWork(c)'
    BY <2>1 DEF AtWork, TenancyInv, TypeInv, CallsInv, Busy
  <2>4. \A d \in Calls \ {c} :
           pc'[d] = pc[d] /\ request'[d] = request[d] /\ loaded'[d] = loaded[d]
    BY <2>1 DEF TenancyInv, TypeInv
  <2> QED  BY <2>1, <2>2, <2>3, <2>4, OthersKeepRows
<1>2. CASE BeginUpdate(c)
  BY <1>2, FoundStep DEF BeginUpdate, dbVars
<1>3. CASE BeginDelete(c)
  BY <1>3, FoundStep DEF BeginDelete, dbVars
<1>4. CASE BeginTest(c)
  BY <1>4, FoundStep DEF BeginTest, dbVars
<1>5. CASE BeginPolicy(c)
  BY <1>5, FoundStep DEF BeginPolicy, dbVars
<1> QED  BY <1>1, <1>2, <1>3, <1>4, <1>5

(* A step that ends a call, or takes it on without touching a row.         *)
LEMMA QuietStep ==
  ASSUME TenancyInv, NEW c \in Calls, pc[c] \in Busy,
         NEW stage \in {"check", "probe", "publish", "commit", "done", "failed"},
         Goto(c, stage), pc[c] = "insert" => stage = "failed",
         UNCHANGED <<rows, request, loaded>>, policies' \in [Ids -> {None} \cup Policies]
  PROVE  TenancyInv'
<1>1. TypeInv'
  BY DEF TenancyInv, TypeInv, Goto, Busy
<1>2. /\ pc'[c] = stage
      /\ \A d \in Calls \ {c} :
           pc'[d] = pc[d] /\ request'[d] = request[d] /\ loaded'[d] = loaded[d]
  BY DEF TenancyInv, TypeInv, Goto
<1>3. AtWork(c)
  BY DEF TenancyInv, CallsInv
<1>4. pc'[c] \in Busy => AtWork(c)'
  BY <1>2, <1>3 DEF AtWork, Busy
<1> QED  BY <1>1, <1>2, <1>4, OthersKeepRows

LEMMA InsertStep ==
  ASSUME TenancyInv, NEW c \in Calls, Insert(c)
  PROVE  TenancyInv' /\ UNCHANGED <<rows, policies>>
<1>1. UNCHANGED <<rows, policies, request>> /\ pc[c] = "insert"
  BY DEF Insert, dbVars
<1>2. /\ request[c] \in Requests
      /\ request[c].op = "create"
      /\ rows[c] = None
  BY <1>1 DEF TenancyInv, CallsInv, AtWork, Busy
<1>3. CASE NameTaken(TenantOf[c], request[c].name, None)
  BY <1>1, <1>3, QuietStep DEF Insert, Busy, TenancyInv, TypeInv
<1>4. CASE ~NameTaken(TenantOf[c], request[c].name, None)
  <2> DEFINE row == NewRow(TenantOf[c], c, request[c].name, request[c].kind, request[c].enabled)
  <2>1. /\ pc' = [pc EXCEPT ![c] = "publish"]
        /\ loaded' = [loaded EXCEPT ![c] = row]
    BY <1>4 DEF Insert, Goto
  <2>2. row \in Row(c) /\ row.tenant = TenantOf[c] /\ ~row.deleted
    <3>1. /\ c \in Ids /\ TenantOf[c] \in Tenants /\ request[c].name \in Names
          /\ request[c].kind \in Kinds /\ request[c].enabled \in BOOLEAN
      BY <1>2, DatasourcesAssumption DEF Requests, Ids
    <3> QED  BY <3>1, NewRowIsRow
  <2> HIDE DEF row
  <2>3. TypeInv'
    BY <1>1, <2>1 DEF TenancyInv, TypeInv, Busy
  <2>4. pc'[c] = "publish" /\ AtWork(c)'
    BY <1>1, <1>2, <2>1, <2>2 DEF AtWork, TenancyInv, TypeInv
  <2>5. \A d \in Calls \ {c} :
           pc'[d] = pc[d] /\ request'[d] = request[d] /\ loaded'[d] = loaded[d]
    BY <1>1, <2>1 DEF TenancyInv, TypeInv
  <2> QED  BY <1>1, <2>3, <2>4, <2>5, OthersKeepRows
<1> QED  BY <1>1, <1>3, <1>4

(* A commit that writes one row, of the tenant of its call.                *)
LEMMA WriteStep ==
  ASSUME TenancyInv, NEW c \in Calls, NEW id \in Ids, NEW row \in Row(id),
         IF rows[id] = None THEN id = c ELSE row.tenant = rows[id].tenant,
         rows' = [rows EXCEPT ![id] = row], Goto(c, "done"),
         UNCHANGED <<policies, request, loaded>>
  PROVE  TenancyInv' /\ rows'[id] = row /\ \A i \in Ids \ {id} : rows'[i] = rows[i]
<1>1. rows'[id] = row /\ \A i \in Ids \ {id} : rows'[i] = rows[i]
  BY DEF TenancyInv, TypeInv
<1>2. TypeInv'
  BY DEF TenancyInv, TypeInv, Goto, Row
<1>3. /\ pc'[c] = "done"
      /\ \A d \in Calls \ {c} :
           pc'[d] = pc[d] /\ request'[d] = request[d] /\ loaded'[d] = loaded[d]
  BY DEF TenancyInv, TypeInv, Goto
<1>4. ASSUME NEW i \in Ids, rows[i] \in Row(i)
      PROVE  rows'[i] \in Row(i) /\ rows'[i].tenant = rows[i].tenant
  BY <1>1, <1>4, NoRowAssumption DEF Row
<1>5. pc'[c] \notin Busy
  BY <1>3 DEF Busy
<1> QED  BY <1>1, <1>2, <1>3, <1>4, <1>5, OthersKeepRows

(* What a step may do to rows and policies, beside keeping the invariant.  *)
OwnWrite(c) ==
  \A i \in Ids :
    rows'[i] # rows[i] \/ policies'[i] # policies[i] =>
      pc'[c] # pc[c] /\ TenantOf[c] = rows'[i].tenant

LEMMA CommitCreateStep ==
  ASSUME TenancyInv, NEW c \in Calls, CommitCreate(c)
  PROVE  TenancyInv' /\ OwnWrite(c)
<1>1. /\ pc[c] = "commit" /\ request[c].op = "create"
      /\ rows' = [rows EXCEPT ![c] = loaded[c]] /\ Goto(c, "done")
      /\ UNCHANGED <<policies, request, loaded>>
  BY DEF CommitCreate
<1>2. loaded[c] \in Row(c) /\ loaded[c].tenant = TenantOf[c] /\ rows[c] = None
  BY <1>1 DEF TenancyInv, CallsInv, AtWork, Busy
<1>3. c \in Ids
  BY DEF Ids
<1>4. TenancyInv' /\ rows'[c] = loaded[c] /\ \A i \in Ids \ {c} : rows'[i] = rows[i]
  BY <1>1, <1>2, <1>3, WriteStep
<1>5. pc'[c] # pc[c]
  BY <1>1 DEF Goto, TenancyInv, TypeInv
<1> QED  BY <1>1, <1>2, <1>4, <1>5 DEF OwnWrite

LEMMA CommitUpdateStep ==
  ASSUME TenancyInv, NEW c \in Calls, CommitUpdate(c)
  PROVE  TenancyInv' /\ OwnWrite(c)
<1> DEFINE id == request[c].id
<1>1. pc[c] = "commit" /\ request[c].op = "update" /\ UNCHANGED <<policies, request, loaded>>
  BY DEF CommitUpdate
<1>2. /\ request[c] \in Requests /\ id \in Ids
      /\ rows[id] \in Row(id) /\ rows[id].tenant = TenantOf[c]
  BY <1>1, RequestIds DEF TenancyInv, CallsInv, AtWork, Busy
<1>3. CASE Goto(c, "failed") /\ UNCHANGED rows
  BY <1>1, <1>3, QuietStep DEF OwnWrite, TenancyInv, TypeInv, Busy
<1>4. CASE rows' = [rows EXCEPT ![id] = Flushed(c, rows[id])] /\ Goto(c, "done")
  <2>1. /\ "name" \in Diff(c) => request[c]["name"] \in Names
        /\ "enabled" \in Diff(c) => request[c]["enabled"] \in BOOLEAN
    BY <1>1, <1>2 DEF Diff, Requests
  <2>2. Flushed(c, rows[id]) \in Row(id) /\ Flushed(c, rows[id]).tenant = TenantOf[c]
    BY <1>2, <2>1, FlushedRow
  <2>3. IF rows[id] = None THEN id = c
        ELSE Flushed(c, rows[id]).tenant = rows[id].tenant
    BY <1>2, <2>2, NoRowAssumption DEF Row
  <2> DEFINE row == Flushed(c, rows[id])
  <2>4. /\ row \in Row(id) /\ rows' = [rows EXCEPT ![id] = row]
        /\ IF rows[id] = None THEN id = c ELSE row.tenant = rows[id].tenant
    BY <1>4, <2>2, <2>3
  <2>5. Goto(c, "done") /\ id \in Ids
    BY <1>2, <1>4
  <2> HIDE DEF row, id
  <2>6. TenancyInv' /\ rows'[id] = row /\ \A i \in Ids \ {id} : rows'[i] = rows[i]
    BY <1>1, <2>4, <2>5, WriteStep
  <2>7. /\ TenancyInv' /\ rows'[id] = Flushed(c, rows[id])
        /\ \A i \in Ids \ {id} : rows'[i] = rows[i]
    BY <2>6 DEF row
  <2>8. pc'[c] # pc[c]
    BY <1>1, <1>4 DEF Goto, TenancyInv, TypeInv
  <2> QED  BY <1>1, <2>2, <2>7, <2>8 DEF OwnWrite
<1>5. \/ Goto(c, "failed") /\ UNCHANGED rows
      \/ rows' = [rows EXCEPT ![id] = Flushed(c, rows[id])] /\ Goto(c, "done")
  BY DEF CommitUpdate
<1> QED  BY <1>3, <1>4, <1>5

LEMMA CommitDeleteStep ==
  ASSUME TenancyInv, NEW c \in Calls, CommitDelete(c)
  PROVE  TenancyInv' /\ OwnWrite(c)
<1> DEFINE id == request[c].id
           row == [rows[id] EXCEPT !.deleted = TRUE,
                                   !.enabled = rows[id].enabled /\ ~loaded[c].enabled]
<1>1. /\ pc[c] = "commit" /\ request[c].op = "delete" /\ UNCHANGED <<policies, request, loaded>>
      /\ Goto(c, "done")
  BY DEF CommitDelete
<1>2. /\ request[c] \in Requests /\ id \in Ids
      /\ rows[id] \in Row(id) /\ rows[id].tenant = TenantOf[c]
  BY <1>1, RequestIds DEF TenancyInv, CallsInv, AtWork, Busy
<1>3. rows' = [rows EXCEPT ![id] = row]
  BY <1>2 DEF CommitDelete, TenancyInv, TypeInv
<1>4. row \in Row(id) /\ row.tenant = TenantOf[c]
  BY <1>2, DeletedRow
<1>5. rows[id] # None
  BY <1>2, NoRowAssumption DEF Row
<1>6. IF rows[id] = None THEN id = c ELSE row.tenant = rows[id].tenant
  BY <1>2, <1>4, <1>5
<1>7. id \in Ids
  BY <1>2
<1> HIDE DEF row, id
<1>8. TenancyInv' /\ rows'[id] = row /\ \A i \in Ids \ {id} : rows'[i] = rows[i]
  BY <1>1, <1>3, <1>4, <1>6, <1>7, WriteStep
<1>9. pc'[c] # pc[c]
  BY <1>1 DEF Goto, TenancyInv, TypeInv
<1> QED  BY <1>1, <1>4, <1>8, <1>9 DEF OwnWrite, id

LEMMA CommitPolicyStep ==
  ASSUME TenancyInv, NEW c \in Calls, CommitPolicy(c)
  PROVE  TenancyInv' /\ OwnWrite(c)
<1> DEFINE id == request[c].id
<1>1. pc[c] = "commit" /\ request[c].op = "policy" /\ UNCHANGED <<rows, request, loaded>>
  BY DEF CommitPolicy
<1>2. request[c] \in Requests /\ id \in Ids /\ rows[id].tenant = TenantOf[c]
  BY <1>1, RequestIds DEF TenancyInv, CallsInv, AtWork, Busy
<1>3. PICK stage \in {"failed", "publish"} : Goto(c, stage)
  BY DEF CommitPolicy
<1>4. /\ policies' \in [Ids -> {None} \cup Policies]
      /\ \A i \in Ids \ {id} : policies'[i] = policies[i]
  <2>1. request[c].policy \in Policies
    BY <1>1, <1>2 DEF Requests
  <2> QED  BY <1>2, <2>1 DEF CommitPolicy, TenancyInv, TypeInv
<1>5. pc'[c] # pc[c]
  BY <1>1, <1>3 DEF Goto, TenancyInv, TypeInv
<1>6. OwnWrite(c)
  BY <1>1, <1>2, <1>4, <1>5 DEF OwnWrite
<1> QED  BY <1>1, <1>3, <1>4, <1>6, QuietStep DEF Busy

LEMMA StepKeepsTenancy ==
  ASSUME TenancyInv, NEW c \in Calls, Step(c)
  PROVE  TenancyInv' /\ OwnWrite(c)
<1>1. CASE \/ BeginCreate(c) \/ BeginUpdate(c) \/ BeginDelete(c)
           \/ BeginTest(c) \/ BeginPolicy(c)
  BY <1>1, BeginSteps DEF OwnWrite
<1>2. CASE Insert(c)
  BY <1>2, InsertStep DEF OwnWrite
<1>3. CASE CommitCreate(c)
  BY <1>3, CommitCreateStep
<1>4. CASE CommitUpdate(c)
  BY <1>4, CommitUpdateStep
<1>5. CASE CommitDelete(c)
  BY <1>5, CommitDeleteStep
<1>6. CASE CommitPolicy(c)
  BY <1>6, CommitPolicyStep
<1>7. ASSUME CheckName(c) \/ Probe(c) \/ CommitTest(c) \/ Publish(c) \/ Abort(c)
      PROVE  TenancyInv' /\ OwnWrite(c)
  <2>1. /\ pc[c] \in Busy
        /\ UNCHANGED <<rows, policies, request, loaded>>
    BY <1>7 DEF CheckName, Probe, CommitTest, Publish, Abort, dbVars, Busy
  <2>2. PICK stage \in {"publish", "commit", "done", "failed"} :
          Goto(c, stage) /\ (pc[c] = "insert" => stage = "failed")
    BY <1>7 DEF CheckName, Probe, CommitTest, Publish, Abort
  <2> QED  BY <2>1, <2>2, QuietStep DEF OwnWrite, TenancyInv, TypeInv
<1> QED  BY <1>1, <1>2, <1>3, <1>4, <1>5, <1>6, <1>7 DEF Step

LEMMA TenancyIsInductive == TenancyInv /\ [Next]_vars => TenancyInv'
<1>1. TenancyInv /\ Next => TenancyInv'
  BY StepKeepsTenancy DEF Next
<1>2. TenancyInv /\ UNCHANGED vars => TenancyInv'
  BY DEF TenancyInv, TypeInv, RowsInv, CallsInv, AtWork, vars, dbVars
<1> QED  BY <1>1, <1>2

LEMMA TenancyHolds == Spec => []TenancyInv
BY InitTenancy, TenancyIsInductive, PTL DEF Spec

-----------------------------------------------------------------------------
(* Theorems.                                                               *)

(* The state of the registry stays well formed: the table holds rows, each *)
(* decrypting under its own tenant, id and kind, and calls at work have    *)
(* found a row of their tenant or hold one that is not in the table yet.   *)
THEOREM TenancyCorrect == Spec => []TenancyInv
BY TenancyHolds

(* Credentials can be read for ever: nothing a call may change, alone or   *)
(* overlapping with others, is part of what they are encrypted with        *)
(* (datasource_service.py:283).                                            *)
THEOREM CredentialsStayReadable == Spec => []CredentialsReadable
<1>1. TenancyInv => CredentialsReadable
  BY DEF TenancyInv, RowsInv, CredentialsReadable, Decrypts, Row
<1> QED  BY <1>1, TenancyHolds, PTL

(* A row or policy is changed only by a step of a call of its tenant,      *)
(* however long ago that call has looked the row up.                       *)
THEOREM TenantsKeptApart == Spec => OwnRowsOnly
<1> DEFINE A == \A i \in Ids :
                  rows'[i] # rows[i] \/ policies'[i] # policies[i] =>
                    \E c \in Calls : pc'[c] # pc[c] /\ TenantOf[c] = rows'[i].tenant
<1>1. ASSUME TenancyInv, [Next]_vars
      PROVE  [A]_vars
  <2>1. CASE Next
    <3>1. PICK c \in Calls : Step(c)
      BY <2>1 DEF Next
    <3>2. OwnWrite(c)
      BY <1>1, <3>1, StepKeepsTenancy
    <3> QED  BY <3>2 DEF OwnWrite
  <2>2. CASE UNCHANGED vars
    BY <2>2
  <2> QED  BY <1>1, <2>1, <2>2
<1>2. Spec => [][A]_vars
  BY <1>1, TenancyHolds, PTL DEF Spec
<1> QED  BY <1>2 DEF OwnRowsOnly

-----------------------------------------------------------------------------
(* The audit rows.                                                         *)

Fields == {"name", "enabled"}

Excused(row, f) == f = "enabled" /\ row.deleted

Deletion(i) == \E a \in audits : a.id = i /\ a.action = "deleted"

(* The audit rows about every datasource account for it.                   *)
TrailInv ==
  /\ IsFiniteSet(audits)
  /\ \A i \in Ids :
       IF rows[i] = None
         THEN \A a \in audits : a.id # i
         ELSE /\ \A f \in Fields : Balanced(i, f) \/ Disputed(i, f) \/ Excused(rows[i], f)
              /\ rows[i].deleted <=> Deletion(i)

(* A call that has not committed yet has no audit row.                     *)
Uncommitted(c) ==
  \/ pc[c] \in {"idle", "insert", "check", "probe", "commit"}
  \/ pc[c] = "publish" /\ request[c].op # "policy"

OneRowEach == \A c \in Calls : Uncommitted(c) => \A a \in audits : a.by # c

(* What an update has loaded of a field is what is there, unless another   *)
(* update has changed it meanwhile.                                        *)
Updating(c) == pc[c] \in {"check", "publish", "commit"} /\ request[c].op = "update"

Fresh(c, f) ==
  loaded[c][f] = rows[request[c].id][f] \/ <<c, f>> \in overtaken
    \/ Excused(rows[request[c].id], f)

LoadedInv ==
  \A c \in Calls :
    /\ Updating(c) => \A f \in Fields : Fresh(c, f)
    /\ pc[c] = "probe" => request[c].op = "test"

AuditInv == TrailInv /\ OneRowEach /\ LoadedInv

LEMMA InitAudits == Init => AuditInv
<1> SUFFICES ASSUME Init PROVE AuditInv
  OBVIOUS
<1> DEFINE a == Audit(First, First, "created", [name |-> FirstRow.name, enabled |-> TRUE])
           row == NewRow(FirstRow.tenant, First, FirstRow.name, FirstRow.kind, TRUE)
<1>1. audits = {a} /\ First \in Ids /\ \A i \in Ids \ {First} : rows[i] = None
  BY DEF Init, Ids
<1>2. rows[First] = row /\ row # None
  <2>1. row \in Rows
    BY <1>1, DatasourcesAssumption, NewRowIsRow DEF Row
  <2> QED  BY <1>1, <2>1, NoRowAssumption DEF Init
<1>3. /\ a.id = First /\ a.by = First /\ a.action = "created"
      /\ a.change["name"] = FirstRow.name /\ a.change["enabled"] = TRUE
      /\ row.name = FirstRow.name /\ row.enabled = TRUE /\ ~row.deleted
  BY DEF Audit, NewRow
<1> HIDE DEF a, row
<1>4. ASSUME NEW f \in Fields PROVE Balanced(First, f)
  <2>1. ASSUME NEW v \in Names \cup BOOLEAN
        PROVE  /\ {x \in audits : Reaches(x, First, f, v)} = IF row[f] = v THEN {a} ELSE {}
               /\ {x \in audits : Leaves(x, First, f, v)} = {}
    BY <1>1, <1>3 DEF Fields, Reaches, Leaves
  <2>2. Cardinality({a}) = 1 /\ Cardinality({}) = 0
    BY FS_Singleton, FS_EmptySet
  <2>3. ASSUME NEW v \in Names \cup BOOLEAN
        PROVE  Cardinality({x \in audits : Reaches(x, First, f, v)})
                 = Cardinality({x \in audits : Leaves(x, First, f, v)})
                     + (IF rows[First][f] = v THEN 1 ELSE 0)
    <3> DEFINE came == {x \in audits : Reaches(x, First, f, v)}
               went == {x \in audits : Leaves(x, First, f, v)}
    <3>1. came = (IF row[f] = v THEN {a} ELSE {}) /\ went = {}
      BY <2>1
    <3> HIDE DEF came, went
    <3>2. Cardinality(came) = Cardinality(went) + (IF rows[First][f] = v THEN 1 ELSE 0)
      BY <1>2, <2>2, <3>1
    <3> QED  BY <3>2 DEF came, went
  <2> QED  BY <2>3 DEF Balanced
<1>5. TrailInv
  <2>1. ~Deletion(First) /\ IsFiniteSet(audits)
    BY <1>1, <1>3, FS_Singleton DEF Deletion
  <2>2. \A i \in Ids \ {First} : rows[i] = None /\ \A x \in audits : x.id # i
    BY <1>1, <1>3
  <2> QED  BY <1>2, <1>3, <1>4, <2>1, <2>2 DEF TrailInv
<1>6. OneRowEach
  BY <1>1, <1>3, DatasourcesAssumption DEF OneRowEach
<1>7. LoadedInv
  BY DEF Init, LoadedInv, Updating
<1> QED  BY <1>5, <1>6, <1>7 DEF AuditInv

(* What one more audit row adds to the two sides of the account.           *)
LEMMA OneMore ==
  ASSUME IsFiniteSet(audits), NEW a, a \notin audits, audits' = audits \cup {a},
         NEW P, P = {x \in audits' : x \in P}
  PROVE  /\ Cardinality(P \cap audits) \in Nat
         /\ Cardinality(P) = Cardinality(P \cap audits) + (IF a \in P THEN 1 ELSE 0)
<1>1. P = IF a \in P THEN (P \cap audits) \cup {a} ELSE P \cap audits
  OBVIOUS
<1>2. a \notin P \cap audits /\ IsFiniteSet(P \cap audits)
  BY FS_Subset
<1>3. /\ Cardinality(P \cap audits) \in Nat
      /\ Cardinality((P \cap audits) \cup {a}) = Cardinality(P \cap audits) + 1
  BY <1>2, FS_CardinalityType, FS_AddElement
<1> QED  BY <1>1, <1>3

(* How a row and the audit row written with it agree on a field.           *)
Tells(a, f) == a.action = "created" \/ (a.action = "updated" /\ f \in DOMAIN a.change)

Agrees(a, id, f) ==
  \/ /\ rows[id] = None /\ a.action = "created" /\ a.change[f] = rows'[id][f]
  \/ /\ rows[id] # None /\ a.action = "updated" /\ f \in DOMAIN a.change
     /\ a.change[f].old = rows[id][f] /\ a.change[f].new = rows'[id][f]
  \/ rows[id] # None /\ ~Tells(a, f) /\ rows'[id][f] = rows[id][f]

(* A field accounted for stays so.                                         *)
LEMMA BalanceKept ==
  ASSUME IsFiniteSet(audits), NEW id \in Ids, NEW f, Balanced(id, f), rows[id] # None,
         NEW a, a \notin audits, a.id = id, audits' = audits \cup {a}, Agrees(a, id, f)
  PROVE  Balanced(id, f)'
<1>1. ASSUME NEW v \in Names \cup BOOLEAN
      PROVE  Cardinality({x \in audits' : Reaches(x, id, f, v)})
               = Cardinality({x \in audits' : Leaves(x, id, f, v)})
                   + (IF rows'[id][f] = v THEN 1 ELSE 0)
  <2> DEFINE came == {x \in audits' : Reaches(x, id, f, v)}
             went == {x \in audits' : Leaves(x, id, f, v)}
  <2>1. /\ came = {x \in audits' : x \in came} /\ went = {x \in audits' : x \in went}
        /\ a \in came <=> Reaches(a, id, f, v)
        /\ a \in went <=> Leaves(a, id, f, v)
    OBVIOUS
  <2>2. /\ came \cap audits = {x \in audits : Reaches(x, id, f, v)}
        /\ went \cap audits = {x \in audits : Leaves(x, id, f, v)}
    OBVIOUS
  <2>3. Cardinality(came \cap audits)
          = Cardinality(went \cap audits) + (IF rows[id][f] = v THEN 1 ELSE 0)
    BY <2>2 DEF Balanced
  <2> HIDE DEF came, went
  <2>4. /\ Cardinality(came \cap audits) \in Nat /\ Cardinality(went \cap audits) \in Nat
        /\ Cardinality(came) = Cardinality(came \cap audits)
                                 + (IF Reaches(a, id, f, v) THEN 1 ELSE 0)
        /\ Cardinality(went) = Cardinality(went \cap audits)
                                 + (IF Leaves(a, id, f, v) THEN 1 ELSE 0)
    BY <2>1, OneMore
  <2>5. \/ /\ Reaches(a, id, f, v) <=> rows'[id][f] = v
           /\ Leaves(a, id, f, v) <=> rows[id][f] = v
        \/ /\ ~Reaches(a, id, f, v) /\ ~Leaves(a, id, f, v)
           /\ rows'[id][f] = rows[id][f]
    BY DEF Agrees, Tells, Reaches, Leaves
  <2>6. Cardinality(came) = Cardinality(went) + (IF rows'[id][f] = v THEN 1 ELSE 0)
    BY <2>3, <2>4, <2>5
  <2> QED  BY <2>6 DEF came, went
<1> QED  BY <1>1 DEF Balanced, Reaches, Leaves

(* The first audit row of a datasource accounts for it.                    *)
LEMMA BalanceBegun ==
  ASSUME NEW id \in Ids, NEW f, \A x \in audits : x.id # id,
         NEW a, a.id = id, audits' = audits \cup {a}, a.action = "created",
         a.change[f] = rows'[id][f]
  PROVE  Balanced(id, f)'
<1> SUFFICES ASSUME NEW v \in Names \cup BOOLEAN
             PROVE  Cardinality({x \in audits' : Reaches(x, id, f, v)})
                      = Cardinality({x \in audits' : Leaves(x, id, f, v)})
                          + (IF rows'[id][f] = v THEN 1 ELSE 0)
  BY DEF Balanced, Reaches, Leaves
<1>1. /\ {x \in audits' : Reaches(x, id, f, v)} = IF rows'[id][f] = v THEN {a} ELSE {}
      /\ {x \in audits' : Leaves(x, id, f, v)} = {}
  BY DEF Reaches, Leaves
<1>2. Cardinality({a}) = 1 /\ Cardinality({}) = 0
  BY FS_Singleton, FS_EmptySet
<1> QED  BY <1>1, <1>2

(* What others record about other datasources does not matter to one.      *)
LEMMA OtherBalanceKept ==
  ASSUME NEW i, NEW f, Balanced(i, f), rows'[i] = rows[i],
         NEW a, a.id # i, audits' = audits \cup {a}
  PROVE  Balanced(i, f)'
<1>1. \A v : /\ {x \in audits' : Reaches(x, i, f, v)} = {x \in audits : Reaches(x, i, f, v)}
             /\ {x \in audits' : Leaves(x, i, f, v)} = {x \in audits : Leaves(x, i, f, v)}
  BY DEF Reaches, Leaves
<1> SUFFICES ASSUME NEW v \in Names \cup BOOLEAN
             PROVE  Cardinality({x \in audits' : Reaches(x, i, f, v)})
                      = Cardinality({x \in audits' : Leaves(x, i, f, v)})
                          + (IF rows'[i][f] = v THEN 1 ELSE 0)
  BY DEF Balanced, Reaches, Leaves
<1> QED  BY <1>1 DEF Balanced

(* A step that writes an audit row, and may write the row it is about.     *)
LEMMA TrailExtended ==
  ASSUME TrailInv, NEW id \in Ids, NEW a, a \notin audits, a.id = id,
         audits' = audits \cup {a}, overtaken \subseteq overtaken',
         \A i \in Ids \ {id} : rows'[i] = rows[i], rows'[id] # None,
         \A f \in Fields :
           \/ Agrees(a, id, f)
           \/ Excused(rows'[id], f)
           \/ a.action = "updated" /\ f \in DOMAIN a.change /\ <<a.by, f>> \in overtaken,
         rows'[id].deleted <=> a.action = "deleted" \/ (rows[id] # None /\ rows[id].deleted)
  PROVE  TrailInv'
<1>1. IsFiniteSet(audits) /\ IsFiniteSet(audits')
  BY FS_AddElement DEF TrailInv
<1>2. \A i, f : Disputed(i, f) => Disputed(i, f)'
  BY DEF Disputed
<1>3. ASSUME NEW i \in Ids \ {id}, rows[i] = None
      PROVE  rows'[i] = None /\ \A x \in audits' : x.id # i
  BY <1>3 DEF TrailInv
<1>4. ASSUME NEW i \in Ids \ {id}, rows[i] # None
      PROVE  /\ rows'[i] # None
             /\ \A f \in Fields : (Balanced(i, f) \/ Disputed(i, f) \/ Excused(rows[i], f))'
             /\ rows'[i].deleted <=> Deletion(i)'
  <2>1. Deletion(i)' <=> Deletion(i)
    BY DEF Deletion
  <2>2. rows'[i] = rows[i] /\ a.id # i
    OBVIOUS
  <2>3. \A f : Balanced(i, f) => Balanced(i, f)'
    BY <2>2, OtherBalanceKept
  <2> QED  BY <1>2, <1>4, <2>1, <2>2, <2>3 DEF TrailInv, Excused
<1>5. ASSUME NEW f \in Fields
      PROVE  (Balanced(id, f) \/ Disputed(id, f) \/ Excused(rows[id], f))'
  <2>1. CASE Excused(rows'[id], f)
    BY <2>1
  <2>2. CASE a.action = "updated" /\ f \in DOMAIN a.change /\ <<a.by, f>> \in overtaken
    BY <2>2 DEF Disputed
  <2>3. CASE Agrees(a, id, f) /\ rows[id] = None
    <3>1. \A x \in audits : x.id # id
      BY <2>3 DEF TrailInv
    <3>2. a.action = "created" /\ a.change[f] = rows'[id][f]
      BY <2>3 DEF Agrees
    <3> QED  BY <3>1, <3>2, BalanceBegun
  <2>4. CASE Agrees(a, id, f) /\ rows[id] # None
    <3>1. Balanced(id, f) \/ Disputed(id, f) \/ Excused(rows[id], f)
      BY <2>4 DEF TrailInv
    <3>2. CASE Balanced(id, f)
      BY <1>1, <2>4, <3>2, BalanceKept
    <3>3. CASE Excused(rows[id], f)
      BY <2>4, <3>3 DEF Excused
    <3> QED  BY <1>2, <3>1, <3>2, <3>3
  <2> QED  BY <2>1, <2>2, <2>3, <2>4
<1>6. rows'[id].deleted <=> Deletion(id)'
  <2>1. Deletion(id)' <=> a.action = "deleted" \/ Deletion(id)
    BY DEF Deletion
  <2>2. rows[id] = None => ~Deletion(id)
    BY DEF TrailInv, Deletion
  <2>3. rows[id] # None => (rows[id].deleted <=> Deletion(id))
    BY DEF TrailInv
  <2> QED  BY <2>1, <2>2, <2>3
<1>7. ASSUME NEW i \in Ids
      PROVE  IF rows'[i] = None
               THEN \A x \in audits' : x.id # i
               ELSE /\ \A f \in Fields :
                         (Balanced(i, f) \/ Disputed(i, f) \/ Excused(rows[i], f))'
                    /\ rows'[i].deleted <=> Deletion(i)'
  <2>1. CASE i = id
    BY <1>5, <1>6, <2>1
  <2>2. CASE i # id
    BY <1>3, <1>4, <2>2
  <2> QED  BY <2>1, <2>2
<1> QED  BY <1>1, <1>7 DEF TrailInv

(* A step that writes no row and no audit row.                             *)
LEMMA TrailKept ==
  ASSUME TrailInv, UNCHANGED <<rows, audits, overtaken>>
  PROVE  TrailInv'
<1>1. ASSUME NEW i, NEW f, Balanced(i, f) PROVE Balanced(i, f)'
  <2>1. \A v : /\ {x \in audits' : Reaches(x, i, f, v)} = {x \in audits : Reaches(x, i, f, v)}
               /\ {x \in audits' : Leaves(x, i, f, v)} = {x \in audits : Leaves(x, i, f, v)}
    OBVIOUS
  <2>2. \A v \in Names \cup BOOLEAN :
          Cardinality({x \in audits' : Reaches(x, i, f, v)})
            = Cardinality({x \in audits' : Leaves(x, i, f, v)})
                + (IF rows'[i][f] = v THEN 1 ELSE 0)
    BY <1>1, <2>1 DEF Balanced
  <2> QED  BY <2>2 DEF Balanced, Reaches, Leaves
<1>2. \A i, f : /\ Disputed(i, f)' <=> Disputed(i, f)
                /\ Excused(rows[i], f)' <=> Excused(rows[i], f)
                /\ Deletion(i)' <=> Deletion(i)
  BY DEF Disputed, Excused, Deletion
<1> QED  BY <1>1, <1>2 DEF TrailInv

-----------------------------------------------------------------------------
(* The audit rows: steps.                                                  *)

(* A call about to commit has found its row, and writes its first audit    *)
(* row.                                                                    *)
LEMMA AboutToCommit ==
  ASSUME TenancyInv, OneRowEach, NEW c \in Calls, pc[c] = "commit"
  PROVE  /\ \A id, action, change : Audit(c, id, action, change) \notin audits
         /\ request[c] \in Requests
         /\ request[c].op # "create" =>
              /\ request[c].id \in Ids /\ rows[request[c].id] \in Row(request[c].id)
              /\ rows[request[c].id] # None
<1>1. \A a \in audits : a.by # c
  BY DEF OneRowEach, Uncommitted
<1>2. \A id, action, change : Audit(c, id, action, change).by = c
  BY DEF Audit
<1>3. AtWork(c)
  BY DEF TenancyInv, CallsInv, Busy
<1> QED  BY <1>1, <1>2, <1>3, RequestIds, NoRowAssumption DEF AtWork, Row

LEMMA CreateAccounts ==
  ASSUME TenancyInv, AuditInv, NEW c \in Calls, CommitCreate(c)
  PROVE  TrailInv'
<1> DEFINE a == Audit(c, c, "created", [name |-> loaded[c].name, enabled |-> loaded[c].enabled])
<1>1. /\ pc[c] = "commit" /\ request[c].op = "create" /\ UNCHANGED overtaken
      /\ rows' = [rows EXCEPT ![c] = loaded[c]] /\ audits' = audits \cup {a}
  BY DEF CommitCreate, Record
<1>2. rows[c] = None /\ loaded[c] \in Row(c) /\ ~loaded[c].deleted /\ c \in Ids
  BY <1>1 DEF TenancyInv, CallsInv, AtWork, Busy, Ids
<1>3. rows'[c] = loaded[c] /\ \A i \in Ids \ {c} : rows'[i] = rows[i]
  BY <1>1, <1>2 DEF TenancyInv, TypeInv
<1>4. /\ a.id = c /\ a.action = "created"
      /\ a.change["name"] = loaded[c].name /\ a.change["enabled"] = loaded[c].enabled
  BY DEF Audit
<1>5. loaded[c] # None
  BY <1>2, NoRowAssumption DEF Row
<1>6. a \notin audits
  BY <1>1, AboutToCommit DEF AuditInv
<1> HIDE DEF a
<1>7. \A f \in Fields : Agrees(a, c, f)
  <2>1. loaded[c].name = loaded[c]["name"] /\ loaded[c].enabled = loaded[c]["enabled"]
    OBVIOUS
  <2> QED  BY <1>2, <1>3, <1>4, <2>1 DEF Agrees, Fields
<1> QED  BY <1>1, <1>2, <1>3, <1>4, <1>5, <1>6, <1>7, TrailExtended DEF AuditInv

LEMMA UpdateAccounts ==
  ASSUME TenancyInv, AuditInv, NEW c \in Calls, CommitUpdate(c)
  PROVE  TrailInv'
<1> DEFINE id == request[c].id
           a == Audit(c, id, "updated", Change(c))
           row == Flushed(c, rows[id])
<1>1. pc[c] = "commit" /\ request[c].op = "update"
  BY DEF CommitUpdate
<1>2. /\ request[c] \in Requests /\ id \in Ids /\ rows[id] \in Row(id)
      /\ rows[id] # None /\ a \notin audits
  BY <1>1, AboutToCommit DEF AuditInv
<1>3. \/ UNCHANGED <<rows, audits, overtaken>>
      \/ /\ rows' = [rows EXCEPT ![id] = row]
         /\ audits' = audits \cup {a} /\ overtaken \subseteq overtaken'
  BY DEF CommitUpdate, Record, Overtake
<1>4. CASE UNCHANGED <<rows, audits, overtaken>>
  BY <1>4, TrailKept DEF AuditInv
<1>5. CASE /\ rows' = [rows EXCEPT ![id] = row]
           /\ audits' = audits \cup {a} /\ overtaken \subseteq overtaken'
  <2>1. /\ "name" \in Diff(c) => request[c]["name"] \in Names
        /\ "enabled" \in Diff(c) => request[c]["enabled"] \in BOOLEAN
    BY <1>1, <1>2 DEF Diff, Requests
  <2>2. /\ row \in Row(id) /\ row.deleted = rows[id].deleted
        /\ row.name = IF "name" \in Diff(c) THEN request[c]["name"] ELSE rows[id].name
        /\ row.enabled = IF "enabled" \in Diff(c) THEN request[c]["enabled"] ELSE rows[id].enabled
    BY <1>2, <2>1, FlushedRow
  <2>3. \A f \in Fields : row[f] = IF f \in Diff(c) THEN request[c][f] ELSE rows[id][f]
    BY <2>2 DEF Fields
  <2>4. /\ a.id = id /\ a.by = c /\ a.action = "updated" /\ DOMAIN a.change = Diff(c)
        /\ \A f \in Diff(c) : a.change[f].old = loaded[c][f] /\ a.change[f].new = request[c][f]
    BY DEF Audit, Change
  <2>5. row # None
    BY <2>2, NoRowAssumption DEF Row
  <2>6. \A f \in Fields : Fresh(c, f)
    BY <1>1 DEF AuditInv, LoadedInv, Updating
  <2> HIDE DEF row, a
  <2>7. rows'[id] = row /\ \A i \in Ids \ {id} : rows'[i] = rows[i]
    BY <1>2, <1>5 DEF TenancyInv, TypeInv
  <2>8. ASSUME NEW f \in Fields
        PROVE  \/ Agrees(a, id, f)
               \/ Excused(rows'[id], f)
               \/ a.action = "updated" /\ f \in DOMAIN a.change /\ <<a.by, f>> \in overtaken
    <3>1. CASE f \notin Diff(c)
      BY <1>2, <2>3, <2>4, <2>7, <3>1 DEF Agrees, Tells
    <3>2. CASE f \in Diff(c) /\ loaded[c][f] = rows[id][f]
      BY <1>2, <2>3, <2>4, <2>7, <3>2 DEF Agrees
    <3>3. CASE f \in Diff(c) /\ <<c, f>> \in overtaken
      BY <2>4, <3>3
    <3>4. CASE Excused(rows[id], f)
      BY <2>2, <2>7, <3>4 DEF Excused
    <3> QED  BY <2>6, <3>1, <3>2, <3>3, <3>4 DEF Fresh
  <2>9. rows'[id].deleted <=> a.action = "deleted" \/ (rows[id] # None /\ rows[id].deleted)
    BY <1>2, <2>2, <2>4, <2>7
  <2> HIDE DEF id
  <2> QED  BY <1>2, <1>5, <2>4, <2>5, <2>7, <2>8, <2>9, TrailExtended DEF AuditInv
<1> QED  BY <1>3, <1>4, <1>5

LEMMA DeleteAccounts ==
  ASSUME TenancyInv, AuditInv, NEW c \in Calls, CommitDelete(c)
  PROVE  TrailInv'
<1> DEFINE id == request[c].id
           a == Audit(c, id, "deleted", [name |-> loaded[c].name])
           enabled == rows[id].enabled /\ ~loaded[c].enabled
           row == [rows[id] EXCEPT !.deleted = TRUE, !.enabled = enabled]
<1>1. /\ pc[c] = "commit" /\ request[c].op = "delete" /\ UNCHANGED overtaken
      /\ audits' = audits \cup {a}
  BY DEF CommitDelete, Record
<1>2. /\ request[c] \in Requests /\ id \in Ids /\ rows[id] \in Row(id)
      /\ rows[id] # None /\ a \notin audits
  BY <1>1, AboutToCommit DEF AuditInv
<1>3. rows' = [rows EXCEPT ![id] = row]
  BY <1>2 DEF CommitDelete, TenancyInv, TypeInv
<1>4. row.deleted /\ row["name"] = rows[id]["name"]
  BY <1>2 DEF Row, Rows
<1>5. a.id = id /\ a.action = "deleted" /\ \A f : ~Tells(a, f)
  BY DEF Audit, Tells
<1>6. row # None
  <2>1. row \in Row(id)
    BY <1>2, DeletedRow DEF Row, Rows
  <2> QED  BY <2>1, NoRowAssumption DEF Row
<1> HIDE DEF row, a, id, enabled
<1>7. rows'[id] = row /\ \A i \in Ids \ {id} : rows'[i] = rows[i]
  BY <1>2, <1>3 DEF TenancyInv, TypeInv
<1>8. \A f \in Fields : Agrees(a, id, f) \/ Excused(rows'[id], f)
  BY <1>2, <1>4, <1>5, <1>7 DEF Agrees, Excused, Fields
<1> QED  BY <1>1, <1>2, <1>4, <1>5, <1>6, <1>7, <1>8, TrailExtended DEF AuditInv

(* A test and a policy leave the row alone, and the trail of its fields.   *)
LEMMA OtherAccounts ==
  ASSUME TenancyInv, AuditInv, NEW c \in Calls, CommitTest(c) \/ CommitPolicy(c)
  PROVE  TrailInv'
<1> DEFINE id == request[c].id
<1>1. /\ pc[c] = "commit" /\ request[c].op \in {"test", "policy"}
      /\ UNCHANGED <<rows, overtaken>>
  BY DEF CommitTest, CommitPolicy
<1>2. /\ id \in Ids /\ rows[id] # None
      /\ \A action, change : Audit(c, id, action, change) \notin audits
  BY <1>1, AboutToCommit DEF AuditInv
<1>3. CASE UNCHANGED audits
  BY <1>1, <1>3, TrailKept DEF AuditInv
<1>4. CASE \E action \in {"tested", "policy_created", "policy_updated"} :
             \E change : audits' = audits \cup {Audit(c, id, action, change)}
  <2>1. PICK action \in {"tested", "policy_created", "policy_updated"} :
          \E change : audits' = audits \cup {Audit(c, id, action, change)}
    BY <1>4
  <2>2. PICK change : audits' = audits \cup {Audit(c, id, action, change)}
    BY <2>1
  <2> DEFINE a == Audit(c, id, action, change)
  <2>3. a.id = id /\ a.action # "deleted" /\ \A f : ~Tells(a, f)
    BY DEF Audit, Tells
  <2>4. audits' = audits \cup {a} /\ a \notin audits
    BY <1>2, <2>2
  <2> HIDE DEF a, id
  <2>5. \A f \in Fields : Agrees(a, id, f)
    BY <1>1, <1>2, <2>3 DEF Agrees
  <2> QED  BY <1>1, <1>2, <2>3, <2>4, <2>5, TrailExtended DEF AuditInv
<1> QED  BY <1>3, <1>4 DEF CommitTest, CommitPolicy, Record

LEMMA StepAccounts ==
  ASSUME TenancyInv, AuditInv, NEW c \in Calls, Step(c)
  PROVE  TrailInv'
<1>1. CASE \/ BeginCreate(c) \/ BeginUpdate(c) \/ BeginDelete(c) \/ BeginTest(c)
           \/ BeginPolicy(c) \/ Insert(c) \/ CheckName(c) \/ Probe(c) \/ Publish(c) \/ Abort(c)
  BY <1>1, TrailKept DEF BeginCreate, BeginUpdate, BeginDelete, BeginTest, BeginPolicy,
     Insert, CheckName, Probe, Publish, Abort, dbVars, AuditInv
<1> QED  BY <1>1, CreateAccounts, UpdateAccounts, DeleteAccounts, OtherAccounts DEF Step

(* A step of a call leaves the others where they are.                      *)
LEMMA OthersWait ==
  ASSUME TypeInv, NEW c \in Calls, Step(c)
  PROVE  \A d \in Calls \ {c} :
           pc'[d] = pc[d] /\ request'[d] = request[d] /\ loaded'[d] = loaded[d]
<1>1. CASE \/ BeginCreate(c) \/ BeginUpdate(c) \/ BeginDelete(c) \/ BeginTest(c) \/ BeginPolicy(c)
  BY <1>1 DEF BeginCreate, BeginUpdate, BeginDelete, BeginTest, BeginPolicy, Accept, Load, Goto,
     TypeInv
<1>2. CASE Insert(c) \/ CheckName(c) \/ Probe(c) \/ Publish(c) \/ Abort(c)
  BY <1>2 DEF Insert, CheckName, Probe, Publish, Abort, Goto, TypeInv
<1>3. CASE \/ CommitCreate(c) \/ CommitUpdate(c) \/ CommitDelete(c) \/ CommitTest(c)
           \/ CommitPolicy(c)
  BY <1>3 DEF CommitCreate, CommitUpdate, CommitDelete, CommitTest, CommitPolicy, Goto, TypeInv
<1> QED  BY <1>1, <1>2, <1>3 DEF Step

(* The audit rows are added by commits, one row by the call that commits.  *)
LEMMA StepRecords ==
  ASSUME TypeInv, NEW c \in Calls, Step(c)
  PROVE  \/ UNCHANGED audits
         \/ /\ \E id, action, change : audits' = audits \cup {Audit(c, id, action, change)}
            /\ pc[c] = "commit"
            /\ pc'[c] = "done" \/ (pc'[c] = "publish" /\ request'[c].op = "policy")
<1>1. CASE \/ BeginCreate(c) \/ BeginUpdate(c) \/ BeginDelete(c) \/ BeginTest(c) \/ BeginPolicy(c)
           \/ Insert(c) \/ CheckName(c) \/ Probe(c) \/ Publish(c) \/ Abort(c)
  BY <1>1 DEF BeginCreate, BeginUpdate, BeginDelete, BeginTest, BeginPolicy, Insert, CheckName,
     Probe, Publish, Abort, dbVars
<1>2. CASE CommitCreate(c) \/ CommitUpdate(c) \/ CommitDelete(c) \/ CommitTest(c)
  BY <1>2 DEF CommitCreate, CommitUpdate, CommitDelete, CommitTest, Record, Goto, TypeInv
<1>3. CASE CommitPolicy(c)
  BY <1>3 DEF CommitPolicy, Record, Goto, TypeInv
<1> QED  BY <1>1, <1>2, <1>3 DEF Step

LEMMA StepRecordsOnce ==
  ASSUME TenancyInv, OneRowEach, NEW c \in Calls, Step(c)
  PROVE  OneRowEach'
<1> SUFFICES ASSUME NEW d \in Calls, Uncommitted(d)' PROVE \A a \in audits' : a.by # d
  BY DEF OneRowEach
<1>1. CASE UNCHANGED audits
  <2>1. Uncommitted(d)
    <3>1. CASE d # c
      BY <3>1, OthersWait DEF Uncommitted, TenancyInv
    <3>2. CASE d = c
      <4>1. CASE Publish(c)
        BY <3>2, <4>1 DEF Publish, Goto, Uncommitted, TenancyInv, TypeInv
      <4>2. CASE CommitPolicy(c)
        BY <3>2, <4>2 DEF CommitPolicy, Goto, Uncommitted, TenancyInv, TypeInv
      <4>3. CASE ~Publish(c) /\ ~CommitPolicy(c)
        <5>1. pc[c] \in {"idle", "insert", "check", "probe", "commit"} \/ Abort(c)
          BY <4>3 DEF Step, BeginCreate, BeginUpdate, BeginDelete, BeginTest, BeginPolicy, Accept,
             Insert, CheckName, Probe, CommitCreate, CommitUpdate, CommitDelete, CommitTest
        <5>2. ~Abort(c)
          BY <3>2 DEF Abort, Goto, Uncommitted, TenancyInv, TypeInv
        <5> QED  BY <3>2, <5>1, <5>2 DEF Uncommitted
      <4> QED  BY <4>1, <4>2, <4>3
    <3> QED  BY <3>1, <3>2
  <2> QED  BY <1>1, <2>1 DEF OneRowEach
<1>2. CASE /\ \E id, action, change : audits' = audits \cup {Audit(c, id, action, change)}
           /\ pc[c] = "commit"
           /\ pc'[c] = "done" \/ (pc'[c] = "publish" /\ request'[c].op = "policy")
  <2>1. d # c
    BY <1>2 DEF Uncommitted
  <2>2. Uncommitted(d)
    BY <2>1, OthersWait DEF Uncommitted, TenancyInv
  <2>3. \A id, action, change : Audit(c, id, action, change).by = c
    BY DEF Audit
  <2> QED  BY <1>2, <2>1, <2>2, <2>3 DEF OneRowEach
<1> QED  BY <1>1, <1>2, StepRecords DEF TenancyInv

(* What a step of a call does to a row another one has found: a field that *)
(* changes is one an update has overtaken, or no longer told.              *)
LEMMA FieldsChange ==
  ASSUME TenancyInv, NEW c \in Calls, Step(c), NEW d \in Calls \ {c}, Updating(d),
         NEW f \in Fields
  PROVE  LET id == request[d].id
         IN  /\ \/ rows'[id][f] = rows[id][f]
                \/ <<d, f>> \in overtaken'
                \/ Excused(rows'[id], f)
             /\ rows[id].deleted => rows'[id].deleted
             /\ overtaken \subseteq overtaken'
<1> DEFINE id == request[d].id
<1>1. /\ request[d] \in Requests /\ request[d].op = "update"
      /\ id \in Ids /\ rows[id] \in Row(id)
      /\ rows[id] # None /\ pc[d] \in {"check", "publish", "commit"}
  <2>1. pc[d] \in {"check", "publish", "commit"} /\ request[d].op = "update"
    BY DEF Updating
  <2>2. AtWork(d)
    BY <2>1 DEF TenancyInv, CallsInv, Busy
  <2>3. request[d] \in Requests /\ rows[request[d].id] \in Row(request[d].id)
    BY <2>1, <2>2 DEF AtWork
  <2> QED  BY <2>1, <2>3, RequestIds, NoRowAssumption DEF Row
<1>2. CASE UNCHANGED <<rows, overtaken>>
  BY <1>2
<1>3. CASE CommitCreate(c)
  <2>1. rows[c] = None /\ rows' = [rows EXCEPT ![c] = loaded[c]] /\ UNCHANGED overtaken
    BY <1>3 DEF CommitCreate, TenancyInv, CallsInv, AtWork, Busy
  <2>2. rows'[id] = rows[id]
    BY <1>1, <2>1 DEF TenancyInv, TypeInv
  <2> QED  BY <2>1, <2>2
<1>4. CASE CommitDelete(c)
  <2>1. /\ UNCHANGED overtaken
        /\ rows' = [rows EXCEPT ![request[c].id].deleted = TRUE,
                                ![request[c].id].enabled = @ /\ ~loaded[c].enabled]
    BY <1>4 DEF CommitDelete
  <2>2. rows'[id] = rows[id] \/ (rows'[id].deleted /\ rows'[id]["name"] = rows[id]["name"])
    BY <1>1, <2>1 DEF TenancyInv, TypeInv, Row, Rows
  <2> QED  BY <2>1, <2>2 DEF Excused, Fields
<1>5. CASE CommitUpdate(c)
  <2>1. CASE request[c].id # id
    BY <1>1, <1>5, <2>1 DEF CommitUpdate, Overtake, TenancyInv, TypeInv
  <2>2. CASE /\ request[c].id = id /\ Overtake(c)
             /\ rows' = [rows EXCEPT ![id] = Flushed(c, rows[id])]
    <3>1. /\ "name" \in Diff(c) => request[c]["name"] \in Names
          /\ "enabled" \in Diff(c) => request[c]["enabled"] \in BOOLEAN
      <4>1. AtWork(c) /\ request[c].op = "update"
        BY <1>5 DEF CommitUpdate, TenancyInv, CallsInv, Busy
      <4> QED  BY <4>1 DEF AtWork, Diff, Requests
    <3>2. /\ Flushed(c, rows[id]).deleted = rows[id].deleted
          /\ \A g \in Fields \ Diff(c) : Flushed(c, rows[id])[g] = rows[id][g]
      BY <1>1, <3>1, FlushedRow DEF Fields
    <3>3. rows'[id] = Flushed(c, rows[id])
      BY <1>1, <2>2 DEF TenancyInv, TypeInv
    <3>4. f \in Diff(c) => <<d, f>> \in overtaken'
      BY <1>1, <2>2 DEF Overtake
    <3>5. overtaken \subseteq overtaken'
      BY <2>2 DEF Overtake
    <3> QED  BY <3>2, <3>3, <3>4, <3>5
  <2> QED  BY <1>2, <1>5, <2>1, <2>2 DEF CommitUpdate
<1> QED  BY <1>2, <1>3, <1>4, <1>5 DEF Step, BeginCreate, BeginUpdate, BeginDelete, BeginTest,
     BeginPolicy, Insert, CheckName, Probe, Publish, Abort, CommitTest, CommitPolicy, dbVars

LEMMA StepLoads ==
  ASSUME TenancyInv, LoadedInv, NEW c \in Calls, Step(c)
  PROVE  LoadedInv'
<1> SUFFICES ASSUME NEW d \in Calls
             PROVE  /\ Updating(d)' => \A f \in Fields : Fresh(d, f)'
                    /\ pc'[d] = "probe" => request'[d].op = "test"
  BY DEF LoadedInv
<1>1. CASE d # c
  <2>1. pc'[d] = pc[d] /\ request'[d] = request[d] /\ loaded'[d] = loaded[d]
    BY <1>1, OthersWait DEF TenancyInv
  <2>2. ASSUME Updating(d), NEW f \in Fields PROVE Fresh(d, f)'
    <3>1. Fresh(d, f)
      BY <2>2 DEF LoadedInv
    <3>2. /\ \/ rows'[request[d].id][f] = rows[request[d].id][f]
             \/ <<d, f>> \in overtaken'
             \/ Excused(rows'[request[d].id], f)
          /\ rows[request[d].id].deleted => rows'[request[d].id].deleted
          /\ overtaken \subseteq overtaken'
      BY <1>1, <2>2, FieldsChange
    <3> QED  BY <2>1, <3>1, <3>2 DEF Fresh, Excused
  <2> QED  BY <2>1, <2>2 DEF LoadedInv, Updating
<1>2. CASE d = c
  <2>1. CASE BeginUpdate(c)
    <3>1. PICK r \in Requests : /\ r.op = "update" /\ Accept(c, r)
                                /\ \E found \in {"check", "publish", "done"} : Load(c, r, found)
      BY <2>1 DEF BeginUpdate
    <3>2. UNCHANGED rows /\ request'[c] = r
      BY <2>1, <3>1 DEF BeginUpdate, Accept, TenancyInv, TypeInv, dbVars
    <3>3. pc'[c] \in {"check", "publish", "done", "failed"}
          /\ (pc'[c] # "failed" => loaded'[c] = rows[r.id])
      <4>1. PICK found \in {"check", "publish", "done"} : Load(c, r, found)
        BY <3>1
      <4> QED  BY <4>1 DEF Load, Goto, TenancyInv, TypeInv
    <3> QED  BY <1>2, <3>2, <3>3 DEF Updating, Fresh
  <2>2. CASE BeginCreate(c) \/ BeginDelete(c) \/ BeginPolicy(c) \/ BeginTest(c)
    BY <1>2, <2>2 DEF BeginCreate, BeginDelete, BeginPolicy, BeginTest, Accept, Load, Goto, Updating,
       TenancyInv, TypeInv
  <2>3. CASE Insert(c)
    <3>1. request[c].op = "create" /\ UNCHANGED request
      BY <2>3 DEF Insert, TenancyInv, CallsInv, AtWork, Busy
    <3> QED  BY <1>2, <2>3, <3>1 DEF Insert, Goto, Updating, TenancyInv, TypeInv
  <2>4. CASE CheckName(c) \/ Publish(c)
    <3>1. /\ UNCHANGED <<rows, request, loaded, overtaken>>
          /\ pc[c] \in {"check", "publish"} /\ pc'[c] # "probe"
      BY <2>4 DEF CheckName, Publish, Goto, TenancyInv, TypeInv, dbVars
    <3> QED  BY <1>2, <3>1 DEF LoadedInv, Updating, Fresh
  <2>5. CASE Probe(c)
    <3>1. request[c].op = "test" /\ UNCHANGED request /\ pc'[c] = "publish"
      BY <2>5 DEF Probe, Goto, LoadedInv, TenancyInv, TypeInv
    <3> QED  BY <1>2, <3>1 DEF Updating
  <2>6. CASE CommitPolicy(c)
    <3>1. request[c].op = "policy" /\ UNCHANGED request /\ pc'[c] # "probe"
      BY <2>6 DEF CommitPolicy, Goto, TenancyInv, TypeInv
    <3> QED  BY <1>2, <3>1 DEF Updating
  <2>7. CASE CommitCreate(c) \/ CommitUpdate(c) \/ CommitDelete(c) \/ CommitTest(c) \/ Abort(c)
    <3>1. pc'[c] \in {"done", "failed"}
      BY <2>7 DEF CommitCreate, CommitUpdate, CommitDelete, CommitTest, Abort, Goto,
         TenancyInv, TypeInv
    <3> QED  BY <1>2, <3>1 DEF Updating
  <2> QED  BY <2>1, <2>2, <2>3, <2>4, <2>5, <2>6, <2>7 DEF Step
<1> QED  BY <1>1, <1>2

LEMMA TrailHolds == Spec => []AuditInv
<1>1. TenancyInv /\ AuditInv /\ [Next]_vars => AuditInv'
  <2>1. ASSUME TenancyInv, AuditInv, NEW c \in Calls, Step(c) PROVE AuditInv'
    BY <2>1, StepAccounts, StepRecordsOnce, StepLoads DEF AuditInv
  <2>2. ASSUME AuditInv, UNCHANGED vars PROVE AuditInv'
    <3>1. TrailInv'
      BY <2>2, TrailKept DEF AuditInv, vars, dbVars
    <3>2. OneRowEach' /\ LoadedInv'
      BY <2>2 DEF AuditInv, vars, dbVars, OneRowEach, LoadedInv, Uncommitted, Updating, Fresh,
         Excused
    <3> QED  BY <3>1, <3>2 DEF AuditInv
  <2> QED  BY <2>1, <2>2 DEF Next
<1> QED  BY <1>1, InitAudits, TenancyHolds, PTL DEF Spec

(* The audit rows, in no order, account for every datasource, whatever     *)
(* calls overlap: a field has the one value it was given once more often   *)
(* than it was taken (models.py:361-365), unless an update of that very    *)
(* field was overtaken by another one, and a datasource is deleted exactly *)
(* if an audit row says so.                                                *)
THEOREM TrailAccounts == Spec => []AuditAccounts
<1>1. AuditInv => AuditAccounts
  <2> SUFFICES ASSUME AuditInv, NEW i \in Ids, rows[i] # None
               PROVE  /\ \A f \in {"name", "enabled"} :
                           \/ Balanced(i, f) \/ Disputed(i, f)
                           \/ f = "enabled" /\ rows[i].deleted
                      /\ rows[i].deleted <=> \E a \in audits : a.id = i /\ a.action = "deleted"
    BY DEF AuditAccounts
  <2> QED  BY DEF AuditInv, TrailInv, Fields, Excused, Deletion
<1> QED  BY <1>1, TrailHolds, PTL

-----------------------------------------------------------------------------
(* EventsAudited.  A policy's event follows the commit of its audit row;   *)
(* any other goes out before, by a call that has not succeeded yet.        *)

PolicyEvent(e) == e.type \in {"policy.created", "policy.updated"}

HasAudit(c) == \E a \in audits : a.by = c /\ a.id = Subject(c)

Backed(e) ==
  /\ e.call \in Calls /\ e.id = Subject(e.call)
  /\ pc[e.call] \in {"commit", "done", "failed"}
  /\ PolicyEvent(e) <=> request[e.call].op = "policy"
  /\ PolicyEvent(e) => pc[e.call] # "commit"
  /\ pc[e.call] = "done" \/ PolicyEvent(e) => HasAudit(e.call)

(* A policy call has committed by the time it publishes.                   *)
CommitsFirst(c) ==
  request[c].op = "policy" =>
    pc[c] \notin {"insert", "check", "probe"} /\ (pc[c] = "publish" => HasAudit(c))

EventInv ==
  /\ events \in Seq(Range(events))
  /\ \A e \in Range(events) : Backed(e)
  /\ \A c \in Calls : CommitsFirst(c)

(* What a sequence becomes when an element is appended to it.              *)
LEMMA RangeAppended ==
  ASSUME NEW s, s \in Seq(Range(s)), NEW x
  PROVE  /\ Append(s, x) \in Seq(Range(Append(s, x)))
         /\ Range(Append(s, x)) = Range(s) \cup {x}
<1> DEFINE t == Append(s, x)
<1>1. s \in Seq(Range(s) \cup {x})
  OBVIOUS
<1>2. /\ t \in Seq(Range(s) \cup {x})
      /\ DOMAIN t = DOMAIN s \cup {Len(t)}
      /\ t[Len(t)] = x /\ \A k \in DOMAIN s : t[k] = s[k]
  BY <1>1
<1> HIDE DEF t
<1>3. Range(t) = Range(s) \cup {x}
  <2>1. \A y : /\ y \in Range(t) <=> \E k \in DOMAIN t : t[k] = y
               /\ y \in Range(s) <=> \E k \in DOMAIN s : s[k] = y
    BY DEF Range
  <2>2. \A y : y \in Range(t) <=> y \in Range(s) \/ y = x
    BY <1>2, <2>1
  <2> QED  BY <2>2
<1> QED  BY <1>2, <1>3 DEF t

LEMMA InitEvents == Init => EventInv
<1> SUFFICES ASSUME Init PROVE EventInv
  OBVIOUS
<1>1. events = <<>> /\ events \in Seq(Range(events)) /\ Range(events) = {}
  BY DEF Init, Range
<1>2. \A c \in Calls : pc[c] = "idle"
  BY DEF Init
<1> QED  BY <1>1, <1>2 DEF EventInv, CommitsFirst

(* A step of a call leaves the events of the others backed.                *)
LEMMA OthersStayBacked ==
  ASSUME EventInv, NEW c \in Calls, audits \subseteq audits',
         \A d \in Calls \ {c} : pc'[d] = pc[d] /\ request'[d] = request[d]
  PROVE  /\ \A e \in Range(events) : e.call # c => Backed(e)'
         /\ \A d \in Calls \ {c} : CommitsFirst(d)'
<1>1. \A d \in Calls \ {c} : HasAudit(d) => HasAudit(d)'
  BY DEF HasAudit, Subject
<1>2. ASSUME NEW e \in Range(events), e.call # c PROVE Backed(e)'
  <2>1. Backed(e) /\ e.call \in Calls \ {c}
    BY <1>2 DEF EventInv, Backed
  <2>2. Subject(e.call)' = Subject(e.call)
    BY <2>1 DEF Subject
  <2> QED  BY <1>1, <2>1, <2>2 DEF Backed, PolicyEvent
<1>3. \A d \in Calls \ {c} : CommitsFirst(d)'
  BY <1>1 DEF EventInv, CommitsFirst
<1> QED  BY <1>2, <1>3

(* A call that has not published anything.                                 *)
LEMMA SilentStep ==
  ASSUME EventInv, NEW c \in Calls, audits \subseteq audits', UNCHANGED events,
         \A d \in Calls \ {c} : pc'[d] = pc[d] /\ request'[d] = request[d],
         pc[c] \notin {"commit", "done", "failed"},
         pc'[c] \in {"insert", "check", "probe", "publish"} => request'[c].op # "policy"
  PROVE  EventInv'
<1>1. \A e \in Range(events) : e.call # c
  BY DEF EventInv, Backed
<1>2. CommitsFirst(c)'
  BY DEF CommitsFirst
<1> QED  BY <1>1, <1>2, OthersStayBacked DEF EventInv

(* A call that may have, and goes on with its commit or gives up.          *)
LEMMA CommitsBack ==
  ASSUME EventInv, NEW c \in Calls, audits \subseteq audits', UNCHANGED events,
         \A d \in Calls \ {c} : pc'[d] = pc[d] /\ request'[d] = request[d],
         request'[c] = request[c], pc[c] \in {"publish", "commit"},
         \/ pc'[c] = "failed"
         \/ pc'[c] = "done" /\ request[c].op # "policy" /\ HasAudit(c)'
         \/ pc'[c] = "publish" /\ pc[c] = "commit" /\ request[c].op = "policy" /\ HasAudit(c)'
  PROVE  EventInv'
<1>1. ASSUME NEW e \in Range(events), e.call = c PROVE Backed(e)'
  <2>1. /\ Backed(e) /\ pc[c] = "commit" /\ ~PolicyEvent(e) /\ request[c].op # "policy"
    BY <1>1 DEF EventInv, Backed
  <2>2. Subject(c)' = Subject(c)
    BY DEF Subject
  <2> QED  BY <1>1, <2>1, <2>2 DEF Backed, PolicyEvent
<1>2. CommitsFirst(c)'
  BY DEF CommitsFirst
<1> QED  BY <1>1, <1>2, OthersStayBacked DEF EventInv

(* The event goes out, or is lost.                                         *)
LEMMA PublishBacked ==
  ASSUME TypeInv, CallsInv, EventInv, NEW c \in Calls, Publish(c)
  PROVE  EventInv'
<1>0. PICK e : e = Event(c)
  OBVIOUS
<1>1. /\ pc[c] = "publish" /\ events' \in {events, Append(events, e)}
      /\ UNCHANGED <<audits, request>>
      /\ pc'[c] = IF request[c].op = "policy" THEN "done" ELSE "commit"
      /\ \A d \in Calls \ {c} : pc'[d] = pc[d] /\ request'[d] = request[d]
  BY <1>0 DEF Publish, Goto, TypeInv, dbVars
<1>2. /\ \A x \in Range(events) : Backed(x)'
      /\ \A d \in Calls \ {c} : CommitsFirst(d)'
  <2>1. \A x \in Range(events) : x.call # c
    BY <1>1 DEF EventInv, Backed
  <2> QED  BY <1>1, <2>1, OthersStayBacked
<1>3. e.call = c /\ e.id = Subject(c) /\ (PolicyEvent(e) <=> request[c].op = "policy")
  <2>1. request[c] \in Requests
    BY <1>1 DEF CallsInv, AtWork, Busy
  <2>2. request[c].op \in {"create", "update", "delete", "test", "policy"}
    BY <2>1 DEF Requests
  <2> QED  BY <1>0, <2>2 DEF Event, EventType, PolicyEvent
<1>4. Subject(c)' = Subject(c) /\ (request[c].op = "policy" => HasAudit(c) /\ HasAudit(c)')
  BY <1>1 DEF EventInv, CommitsFirst, HasAudit, Subject
<1>5. Backed(e)'
  BY <1>1, <1>3, <1>4 DEF Backed, PolicyEvent
<1>6. events' \in Seq(Range(events')) /\ Range(events') \subseteq Range(events) \cup {e}
  <2>1. events \in Seq(Range(events))
    BY DEF EventInv
  <2>2. /\ Append(events, e) \in Seq(Range(Append(events, e)))
        /\ Range(Append(events, e)) = Range(events) \cup {e}
    BY <2>1, RangeAppended, Zenon
  <2> QED  BY <1>1, <2>1, <2>2
<1>7. CommitsFirst(c)'
  BY <1>1, <1>4 DEF CommitsFirst
<1> QED  BY <1>2, <1>5, <1>6, <1>7 DEF EventInv

(* A step that writes an audit row about what the call is about.           *)
LEMMA OwnAudit ==
  ASSUME NEW c, NEW action, NEW change, UNCHANGED request, Record(c, Subject(c), action, change)
  PROVE  HasAudit(c)'
<1>1. /\ Audit(c, Subject(c), action, change).by = c
      /\ Audit(c, Subject(c), action, change).id = Subject(c)
  BY DEF Audit
<1>2. Subject(c)' = Subject(c)
  BY DEF Subject
<1> QED  BY <1>1, <1>2 DEF Record, HasAudit

LEMMA StepBacks ==
  ASSUME TypeInv, CallsInv, EventInv, NEW c \in Calls, Step(c)
  PROVE  EventInv'
<1>1. /\ \A d \in Calls \ {c} : pc'[d] = pc[d] /\ request'[d] = request[d]
      /\ audits \subseteq audits'
  BY OthersWait, StepRecords
<1>2. CASE BeginCreate(c) \/ BeginUpdate(c) \/ BeginDelete(c) \/ BeginTest(c) \/ BeginPolicy(c)
  <2>1. UNCHANGED events /\ pc[c] = "idle"
    BY <1>2 DEF BeginCreate, BeginUpdate, BeginDelete, BeginTest, BeginPolicy, Accept
  <2>2. pc'[c] \in {"insert", "check", "probe", "publish"} => request'[c].op # "policy"
    BY <1>2 DEF BeginCreate, BeginUpdate, BeginDelete, BeginTest, BeginPolicy, Accept, Load,
       Goto, TypeInv
  <2> QED  BY <1>1, <2>1, <2>2, SilentStep
<1>3. CASE Insert(c) \/ CheckName(c) \/ Probe(c)
  <2>1. /\ UNCHANGED <<events, request>> /\ pc[c] \in {"insert", "check", "probe"}
    BY <1>3 DEF Insert, CheckName, Probe
  <2>2. request[c].op # "policy"
    BY <2>1 DEF EventInv, CommitsFirst
  <2> QED  BY <1>1, <2>1, <2>2, SilentStep
<1>4. CASE CommitCreate(c) \/ CommitUpdate(c) \/ CommitDelete(c) \/ CommitTest(c)
  <2>1. /\ UNCHANGED <<events, request>> /\ pc[c] = "commit" /\ request[c].op # "policy"
    BY <1>4 DEF CommitCreate, CommitUpdate, CommitDelete, CommitTest
  <2>2. \/ pc'[c] = "failed"
        \/ /\ pc'[c] = "done"
           /\ \E action, change : Record(c, Subject(c), action, change)
    BY <1>4 DEF CommitCreate, CommitUpdate, CommitDelete, CommitTest, Goto, Subject, TypeInv
  <2>3. pc'[c] = "failed" \/ (pc'[c] = "done" /\ HasAudit(c)')
    BY <2>1, <2>2, OwnAudit
  <2> QED  BY <1>1, <2>1, <2>3, CommitsBack
<1>5. CASE CommitPolicy(c)
  <2>1. /\ UNCHANGED <<events, request>> /\ pc[c] = "commit" /\ request[c].op = "policy"
    BY <1>5 DEF CommitPolicy
  <2>2. \/ pc'[c] = "failed"
        \/ /\ pc'[c] = "publish"
           /\ \E action, change : Record(c, Subject(c), action, change)
    BY <1>5 DEF CommitPolicy, Goto, Subject, TypeInv
  <2>3. pc'[c] = "failed" \/ (pc'[c] = "publish" /\ HasAudit(c)')
    BY <2>1, <2>2, OwnAudit
  <2> QED  BY <1>1, <2>1, <2>3, CommitsBack
<1>6. CASE Abort(c)
  <2>1. UNCHANGED <<events, request>> /\ pc'[c] = "failed"
    BY <1>6 DEF Abort, Goto, TypeInv
  <2>2. CASE pc[c] \in {"publish", "commit"}
    BY <1>1, <2>1, <2>2, CommitsBack
  <2>3. CASE pc[c] \in {"check", "insert", "probe"}
    BY <1>1, <2>1, <2>3, SilentStep
  <2> QED  BY <1>6, <2>2, <2>3 DEF Abort
<1> QED  BY <1>1, <1>2, <1>3, <1>4, <1>5, <1>6, PublishBacked DEF Step

(* Every event is backed by an audit row of its call once the call has     *)
(* succeeded, and a policy's event at once (policies.py:287): the          *)
(* transaction that is still open when the event goes out either commits   *)
(* the row or fails the call.                                              *)
THEOREM EventsBacked == Spec => []EventsAudited
<1>1. TenancyInv /\ EventInv /\ [Next]_vars => EventInv'
  <2>1. ASSUME TenancyInv, EventInv, NEW c \in Calls, Step(c) PROVE EventInv'
    BY <2>1, StepBacks DEF TenancyInv
  <2>2. EventInv /\ UNCHANGED vars => EventInv'
    BY DEF vars, dbVars, EventInv, Backed, CommitsFirst, PolicyEvent, HasAudit, Subject
  <2> QED  BY <2>1, <2>2 DEF Next
<1>2. EventInv => EventsAudited
  BY DEF EventInv, Backed, HasAudit, PolicyEvent, EventsAudited
<1> QED  BY <1>1, <1>2, InitEvents, TenancyHolds, PTL DEF Spec

=============================================================================
