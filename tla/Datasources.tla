---------------------------- MODULE Datasources ----------------------------
(***************************************************************************)
(* The datasource registry: create, update, soft delete and connection     *)
(* test (datasource_service.py) and the policy upsert (api/policies.py).   *)
(* Every call runs in a worker thread of some replica and is split where   *)
(* another one may get in between: at its SELECTs, at the publication of   *)
(* its event, and at the flush with the commit that follows it.  Under     *)
(* READ COMMITTED a SELECT sees what is committed.  The session does not   *)
(* autoflush, and a flush writes only the columns whose value differs from *)
(* the one loaded.                                                         *)
(*                                                                         *)
(* Of the columns of a row, "name" stands for itself, as it is unique in   *)
(* the tenant, and "enabled" for every other one a client may change.      *)
(*                                                                         *)
(* The rows about tests and the audit rows have random ids (IdModel) and   *)
(* neither a time nor a number: the two tables are sets, in no order.      *)
(***************************************************************************)
EXTENDS Naturals, Sequences, SequencesExt, FiniteSets

CONSTANTS
  Calls,          \* calls of the REST API, each made once
  Tenants,
  TenantOf,       \* the tenant in the token of each call
  PermissionsOf,  \* the permissions in the token of each call
  Names,
  Kinds,
  Policies,
  First,          \* the id of a datasource created earlier,
  FirstRow,       \* and its tenant, name and kind
  None            \* SQL NULL, a field left out, no row

ASSUME DatasourcesAssumption ==
  /\ TenantOf \in [Calls -> Tenants]
  /\ PermissionsOf \in [Calls -> SUBSET {"write", "test"}]
  /\ First \notin Calls
  /\ FirstRow \in [tenant : Tenants, name : Names, kind : Kinds]
  /\ None \notin Calls \cup {First} \cup Names \cup BOOLEAN \cup Policies

VARIABLES
  rows,     \* table datasources, what is committed of it
  policies, \* table datasource_policies: the policy of each datasource
  tests,    \* table connection_tests
  audits,   \* table datasource_audits
  events,   \* topic datasource.events.v1
  pc,       \* the next step of each call
  request,  \* what it was asked to do
  loaded,   \* the row as its session has loaded or inserted it
  outcome,  \* the result of its probe, or the policy row it has read
  overtaken \* history: updates, with the fields another update changed
            \* after they had loaded the row

dbVars == <<rows, policies, tests, audits>>
vars == <<dbVars, events, pc, request, loaded, outcome, overtaken>>

(* gen_id never repeats an id: that of a new row is named after its call. *)
Ids == Calls \cup {First}

Requests ==
  [op : {"create"}, name : Names, kind : Kinds, enabled : BOOLEAN]
    \cup [op : {"update"}, id : Ids, name : Names \cup {None}, enabled : BOOLEAN \cup {None}]
    \cup [op : {"delete", "test"}, id : Ids]
    \cup [op : {"policy"}, id : Ids, policy : Policies]

(* The associated data a row's credentials are encrypted with.             *)
Aad(tenant, id, kind) == [tenant |-> tenant, id |-> id, kind |-> kind]

NewRow(tenant, id, name, kind, enabled) ==
  [tenant |-> tenant, name |-> name, kind |-> kind, enabled |-> enabled,
   deleted |-> FALSE, aad |-> Aad(tenant, id, kind)]

Rows ==
  [tenant : Tenants, name : Names, kind : Kinds, enabled : BOOLEAN, deleted : BOOLEAN,
   aad : [tenant : Tenants, id : Ids, kind : Kinds]]

ASSUME NoRowAssumption == None \notin Rows

Audit(c, id, action, change) == [by |-> c, id |-> id, action |-> action, change |-> change]

Init ==
  /\ rows = [i \in Ids |-> IF i = First
                             THEN NewRow(FirstRow.tenant, i, FirstRow.name, FirstRow.kind, TRUE)
                             ELSE None]
  /\ policies = [i \in Ids |-> None]
  /\ tests = {}
  /\ audits = {Audit(First, First, "created", [name |-> FirstRow.name, enabled |-> TRUE])}
  /\ events = <<>>
  /\ pc = [c \in Calls |-> "idle"]
  /\ request = [c \in Calls |-> None]
  /\ loaded = [c \in Calls |-> None]
  /\ outcome = [c \in Calls |-> None]
  /\ overtaken = {}

-----------------------------------------------------------------------------
(* What the calls are made of.                                             *)

(* The permission each endpoint demands.                                   *)
Required(op) == IF op = "test" THEN "test" ELSE "write"

(* Mutant of Finds: the tenant is left to the caller.                      *)
Finds_AnyTenant(tenant, id) == rows[id] # None

(* SELECT ... WHERE id = ... AND tenant_id = ...                           *)
Finds(tenant, id) == rows[id] # None /\ rows[id].tenant = tenant

(* A row other than self has the name: what the SELECT before a write      *)
(* asks, and what the unique constraint checks at the flush.               *)
NameTaken(tenant, name, self) ==
  \E i \in Ids \ {self} :
    rows[i] # None /\ rows[i].tenant = tenant /\ rows[i].name = name

(* Another transaction has inserted the name and not ended: whoever writes *)
(* the name has to wait for it.                                            *)
NameHeld(c, name) ==
  \E d \in Calls \ {c} :
    /\ request[d] # None /\ request[d].op = "create"
    /\ pc[d] \in {"publish", "commit"}
    /\ loaded[d].tenant = TenantOf[c] /\ loaded[d].name = name

(* decrypt accepts a row under the associated data it recomputes.          *)
Decrypts(id) == rows[id].aad = Aad(rows[id].tenant, id, rows[id].kind)

(* The fields an update changes, as the diff of the audit row shows them.  *)
Diff(c) ==
  {f \in {"name", "enabled"} :
     request[c][f] # None /\ request[c][f] # loaded[c][f]}

(* The diff of its audit row.                                              *)
Change(c) == [f \in Diff(c) |-> [old |-> loaded[c][f], new |-> request[c][f]]]

(* The commit of c changes the row under the updates that have loaded it.  *)
Overtake(c) ==
  overtaken' = overtaken \cup
    {<<d, f>> : d \in {d \in Calls \ {c} : /\ pc[d] \in {"check", "publish", "commit"}
                                          /\ request[d].op = "update"
                                          /\ request[d].id = request[c].id},
                f \in Diff(c)}

(* What the flush makes of the row: a changed column gets its value, every *)
(* other one is as the database has it.                                    *)
Flushed(c, row) == [f \in DOMAIN row |-> IF f \in Diff(c) THEN request[c][f] ELSE row[f]]

(* A call adds at most one audit row.                                      *)
Record(c, id, action, change) == audits' = audits \cup {Audit(c, id, action, change)}

Goto(c, stage) == pc' = [pc EXCEPT ![c] = stage]

Accept(c, r) ==
  /\ pc[c] = "idle"
  /\ Required(r.op) \in PermissionsOf[c]
  /\ request' = [request EXCEPT ![c] = r]

(* A call about an existing row loads it, or fails with 404.               *)
Load(c, r, found) ==
  IF Finds(TenantOf[c], r.id)
    THEN loaded' = [loaded EXCEPT ![c] = rows[r.id]] /\ Goto(c, found)
    ELSE Goto(c, "failed") /\ UNCHANGED loaded

-----------------------------------------------------------------------------
(* create_datasource                                                       *)

BeginCreate(c) ==
  \E r \in Requests :
    /\ r.op = "create"
    /\ Accept(c, r)
    /\ Goto(c, IF NameTaken(TenantOf[c], r.name, None) THEN "failed" ELSE "insert")
    /\ UNCHANGED <<dbVars, events, loaded, outcome, overtaken>>

(* Mutant of Insert: the credentials stay bound to the placeholder id.     *)
Insert_PlaceholderAad(c) ==
  /\ pc[c] = "insert"
  /\ ~NameHeld(c, request[c].name)
  /\ IF NameTaken(TenantOf[c], request[c].name, None)
       THEN Goto(c, "failed") /\ UNCHANGED loaded
       ELSE /\ loaded' = [loaded EXCEPT ![c] =
                 [NewRow(TenantOf[c], c, request[c].name, request[c].kind, request[c].enabled)
                    EXCEPT !.aad.id = None]]
            /\ Goto(c, "publish")
  /\ UNCHANGED <<dbVars, events, request, outcome, overtaken>>

(* The flush inserts the row, unless the unique constraint refuses; the    *)
(* credentials are then encrypted again with the id, and the audit row is  *)
(* added to the same transaction.                                          *)
Insert(c) ==
  /\ pc[c] = "insert"
  /\ ~NameHeld(c, request[c].name)
  /\ IF NameTaken(TenantOf[c], request[c].name, None)
       THEN Goto(c, "failed") /\ UNCHANGED loaded
       ELSE /\ loaded' = [loaded EXCEPT ![c] =
                 NewRow(TenantOf[c], c, request[c].name, request[c].kind, request[c].enabled)]
            /\ Goto(c, "publish")
  /\ UNCHANGED <<dbVars, events, request, outcome, overtaken>>

CommitCreate(c) ==
  /\ pc[c] = "commit"
  /\ request[c].op = "create"
  /\ rows' = [rows EXCEPT ![c] = loaded[c]]
  /\ Record(c, c, "created", [name |-> loaded[c].name, enabled |-> loaded[c].enabled])
  /\ Goto(c, "done")
  /\ UNCHANGED <<policies, tests, events, request, loaded, outcome, overtaken>>

-----------------------------------------------------------------------------
(* update_datasource                                                       *)

(* Nothing to change, no event and no audit row.                           *)
BeginUpdate(c) ==
  \E r \in Requests :
    /\ r.op = "update"
    /\ Accept(c, r)
    /\ LET row == rows[r.id]
           renames == r.name # None /\ r.name # row.name
           toggles == r.enabled # None /\ r.enabled # row.enabled
       IN  Load(c, r, IF renames THEN "check" ELSE IF toggles THEN "publish" ELSE "done")
    /\ UNCHANGED <<dbVars, events, outcome, overtaken>>

CheckName(c) ==
  /\ pc[c] = "check"
  /\ Goto(c, IF NameTaken(TenantOf[c], request[c].name, request[c].id)
               THEN "failed" ELSE "publish")
  /\ UNCHANGED <<dbVars, events, request, loaded, outcome, overtaken>>

(* Mutant of CommitUpdate: the flush writes every column it has loaded.    *)
CommitUpdate_AllColumns(c) ==
  /\ pc[c] = "commit"
  /\ request[c].op = "update"
  /\ LET id == request[c].id
         renames == "name" \in Diff(c)
     IN  /\ renames => ~NameHeld(c, request[c].name)
         /\ IF renames /\ NameTaken(TenantOf[c], request[c].name, id)
              THEN Goto(c, "failed") /\ UNCHANGED <<rows, audits, overtaken>>
              ELSE /\ rows' = [rows EXCEPT ![id] = Flushed(c, loaded[c])]
                   /\ Record(c, id, "updated", Change(c))
                   /\ Overtake(c)
                   /\ Goto(c, "done")
  /\ UNCHANGED <<policies, tests, events, request, loaded, outcome>>

(* The flush writes the changed columns and the audit row, after the event *)
(* went out; the unique constraint may refuse a new name even now.         *)
CommitUpdate(c) ==
  /\ pc[c] = "commit"
  /\ request[c].op = "update"
  /\ LET id == request[c].id
         renames == "name" \in Diff(c)
     IN  /\ renames => ~NameHeld(c, request[c].name)
         /\ IF renames /\ NameTaken(TenantOf[c], request[c].name, id)
              THEN Goto(c, "failed") /\ UNCHANGED <<rows, audits, overtaken>>
              ELSE /\ rows' = [rows EXCEPT ![id] = Flushed(c, @)]
                   /\ Record(c, id, "updated", Change(c))
                   /\ Overtake(c)
                   /\ Goto(c, "done")
  /\ UNCHANGED <<policies, tests, events, request, loaded, outcome>>

-----------------------------------------------------------------------------
(* soft_delete_datasource                                                  *)

(* A row that is deleted already is returned as it is.                     *)
BeginDelete(c) ==
  \E r \in Requests :
    /\ r.op = "delete"
    /\ Accept(c, r)
    /\ Load(c, r, IF rows[r.id] # None /\ rows[r.id].deleted THEN "done" ELSE "publish")
    /\ UNCHANGED <<dbVars, events, outcome, overtaken>>

(* enabled = 0 is written only if the row was loaded enabled.              *)
CommitDelete(c) ==
  /\ pc[c] = "commit"
  /\ request[c].op = "delete"
  /\ LET id == request[c].id
     IN  /\ rows' = [rows EXCEPT ![id].deleted = TRUE,
                                 ![id].enabled = @ /\ ~loaded[c].enabled]
         /\ Record(c, id, "deleted", [name |-> loaded[c].name])
  /\ Goto(c, "done")
  /\ UNCHANGED <<policies, tests, events, request, loaded, outcome, overtaken>>

-----------------------------------------------------------------------------
(* test_connection                                                         *)

(* A disabled or deleted datasource is not probed, and said to be disabled *)
(* in the transaction that read it; credentials that do not decrypt fail   *)
(* the call.                                                               *)
BeginTest(c) ==
  \E r \in Requests :
    /\ r.op = "test"
    /\ Accept(c, r)
    /\ LET row == rows[r.id]
           off == ~row.enabled \/ row.deleted
       IN  /\ Load(c, r, IF off THEN "publish" ELSE IF Decrypts(r.id) THEN "probe" ELSE "failed")
           /\ outcome' = [outcome EXCEPT ![c] =
                IF Finds(TenantOf[c], r.id) /\ off THEN "disabled" ELSE None]
    /\ UNCHANGED <<dbVars, events, overtaken>>

(* The probe runs between two transactions.                                *)
Probe(c) ==
  /\ pc[c] = "probe"
  /\ \E status \in {"succeeded", "failed"} : outcome' = [outcome EXCEPT ![c] = status]
  /\ Goto(c, "publish")
  /\ UNCHANGED <<dbVars, events, request, loaded, overtaken>>

(* _record_test: a test row and an audit row that says the same.           *)
CommitTest(c) ==
  /\ pc[c] = "commit"
  /\ request[c].op = "test"
  /\ tests' = tests \cup {[by |-> c, id |-> request[c].id, status |-> outcome[c]]}
  /\ Record(c, request[c].id, "tested", [status |-> outcome[c]])
  /\ Goto(c, "done")
  /\ UNCHANGED <<rows, policies, events, request, loaded, outcome, overtaken>>

-----------------------------------------------------------------------------
(* upsert_policy                                                           *)

(* The policy row, if there is one, is loaded beside the datasource.       *)
BeginPolicy(c) ==
  \E r \in Requests :
    /\ r.op = "policy"
    /\ Accept(c, r)
    /\ Load(c, r, "commit")
    /\ outcome' = [outcome EXCEPT ![c] = policies[r.id]]
    /\ UNCHANGED <<dbVars, events, overtaken>>

(* Mutant of CommitPolicy: the event goes out whatever became of the row.  *)
CommitPolicy_PublishesAnyway(c) ==
  /\ pc[c] = "commit"
  /\ request[c].op = "policy"
  /\ LET id == request[c].id
         creates == outcome[c] = None
         policy == request[c].policy
     IN  /\ IF creates /\ policies[id] # None
              THEN UNCHANGED <<policies, audits>>
              ELSE /\ policies' = [policies EXCEPT ![id] = IF policy = outcome[c] THEN @ ELSE policy]
                   /\ Record(c, id, IF creates THEN "policy_created" ELSE "policy_updated",
                             [policy |-> policy])
         /\ Goto(c, "publish")
  /\ UNCHANGED <<rows, tests, events, request, loaded, outcome, overtaken>>

(* The row is inserted if none was loaded, which the unique constraint     *)
(* refuses if there is one by now; else it is updated, if its value        *)
(* differs from the one loaded.  The event follows the commit.             *)
CommitPolicy(c) ==
  /\ pc[c] = "commit"
  /\ request[c].op = "policy"
  /\ LET id == request[c].id
         creates == outcome[c] = None
         policy == request[c].policy
     IN  IF creates /\ policies[id] # None
           THEN Goto(c, "failed") /\ UNCHANGED <<policies, audits>>
           ELSE /\ policies' = [policies EXCEPT ![id] = IF policy = outcome[c] THEN @ ELSE policy]
                /\ Record(c, id, IF creates THEN "policy_created" ELSE "policy_updated",
                          [policy |-> policy])
                /\ Goto(c, "publish")
  /\ UNCHANGED <<rows, tests, events, request, loaded, outcome, overtaken>>

-----------------------------------------------------------------------------
(* What all calls share.                                                   *)

EventType(c) ==
  CASE request[c].op = "create" -> "registered"
    [] request[c].op = "update" -> "updated"
    [] request[c].op = "delete" -> "disabled"
    [] request[c].op = "test"   -> IF outcome[c] = "succeeded" THEN "test.succeeded" ELSE "test.failed"
    [] request[c].op = "policy" -> IF outcome[c] = None THEN "policy.created" ELSE "policy.updated"

Subject(c) == IF request[c].op = "create" THEN c ELSE request[c].id

Event(c) == [id |-> Subject(c), type |-> EventType(c), call |-> c]

(* _publish_event swallows the failures of the broker.  But for policies,  *)
(* the transaction is still open.                                          *)
Publish(c) ==
  /\ pc[c] = "publish"
  /\ events' \in {events, Append(events, Event(c))}
  /\ Goto(c, IF request[c].op = "policy" THEN "done" ELSE "commit")
  /\ UNCHANGED <<dbVars, request, loaded, outcome, overtaken>>

(* A call dies of its replica or its database connection; get_session has  *)
(* its transaction rolled back.                                            *)
Abort(c) ==
  /\ pc[c] \in {"check", "insert", "probe", "publish", "commit"}
  /\ Goto(c, "failed")
  /\ UNCHANGED <<dbVars, events, request, loaded, outcome, overtaken>>

Step(c) ==
  \/ BeginCreate(c) \/ Insert(c) \/ CommitCreate(c)
  \/ BeginUpdate(c) \/ CheckName(c) \/ CommitUpdate(c)
  \/ BeginDelete(c) \/ CommitDelete(c)
  \/ BeginTest(c) \/ Probe(c) \/ CommitTest(c)
  \/ BeginPolicy(c) \/ CommitPolicy(c)
  \/ Publish(c) \/ Abort(c)

Next == \E c \in Calls : Step(c)

Spec == Init /\ [][Next]_vars

-----------------------------------------------------------------------------
(* Properties.                                                             *)

(* The audit rows by which field f of datasource i came to be v, and those *)
(* by which it ceased to be.                                               *)
Reaches(a, i, f, v) ==
  /\ a.id = i
  /\ \/ a.action = "created" /\ a.change[f] = v
     \/ a.action = "updated" /\ f \in DOMAIN a.change /\ a.change[f].new = v

Leaves(a, i, f, v) ==
  a.id = i /\ a.action = "updated" /\ f \in DOMAIN a.change /\ a.change[f].old = v

(* An update of the field has recorded as old what was no longer there.    *)
Disputed(i, f) ==
  \E a \in audits : /\ a.id = i /\ a.action = "updated" /\ f \in DOMAIN a.change
                    /\ <<a.by, f>> \in overtaken

Balanced(i, f) ==
  \A v \in Names \cup BOOLEAN :
    Cardinality({a \in audits : Reaches(a, i, f, v)})
      = Cardinality({a \in audits : Leaves(a, i, f, v)})
          + (IF rows[i][f] = v THEN 1 ELSE 0)

(* The audit rows account for the datasource they are about (models.py:    *)
(* 361-365), although nothing orders them: a field has the one value that  *)
(* was reached once more often than it was left, whatever calls overlap,   *)
(* unless an update recorded a change of the very field another update had *)
(* changed since it loaded the row.  A row is deleted exactly if the audit *)
(* rows say so; what its deletion does to "enabled" they do not say.       *)
AuditAccounts ==
  \A i \in Ids : rows[i] # None =>
    /\ \A f \in {"name", "enabled"} :
         Balanced(i, f) \/ Disputed(i, f) \/ (f = "enabled" /\ rows[i].deleted)
    /\ rows[i].deleted <=> \E a \in audits : a.id = i /\ a.action = "deleted"

(* Every event is backed by an audit row of its call once the call has     *)
(* succeeded, and a policy event at once (policies.py:287): only a call    *)
(* that fails after publishing can announce what never happened.           *)
EventsAudited ==
  \A e \in Range(events) :
    pc[e.call] = "done" \/ e.type \in {"policy.created", "policy.updated"}
      => \E a \in audits : a.by = e.call /\ a.id = e.id

(* The credentials of every committed row decrypt for the tenant, id and   *)
(* kind it is stored under, through creation and every later change        *)
(* (datasource_service.py:283).                                            *)
CredentialsReadable == \A i \in Ids : rows[i] # None => Decrypts(i)

(* A call changes rows and policies of its own tenant only.                *)
OwnRowsOnly ==
  [][\A i \in Ids :
       rows'[i] # rows[i] \/ policies'[i] # policies[i] =>
         \E c \in Calls : pc'[c] # pc[c] /\ TenantOf[c] = rows'[i].tenant]_vars
=============================================================================
