----------------------------- MODULE SchemaSync -----------------------------
(***************************************************************************)
(* Schema snapshots of one datasource: the background job that             *)
(* sync-schema enqueues (api/schemas.py, jobs/sync_schema.py,              *)
(* schema_service.py) and refresh_schema (datasource_service.py).  A run   *)
(* reads the datasource and the earlier fingerprint in one transaction,    *)
(* asks the database for its tables outside any, and deletes the old       *)
(* snapshots and inserts the new one in another.  No constraint keeps the  *)
(* snapshot single: under READ COMMITTED a DELETE takes the rows it saw    *)
(* when it began, waits for those another transaction has deleted, and     *)
(* never sees what that transaction inserted.                              *)
(***************************************************************************)
EXTENDS Naturals, Sequences, SequencesExt

CONSTANTS
  Runs,           \* runs of sync_schema and refresh_schema
  Replicas,       \* replicas of the service, each with a job registry
  ReplicaOf,      \* the replica of each run
  Syncs,          \* those that are jobs; the others are refreshes
  Schemas,        \* what the tables of the database may be at some time
  FingerprintOf,  \* compute_fingerprint: order and row counts do not matter
  None

ASSUME SchemaSyncAssumption ==
  /\ ReplicaOf \in [Runs -> Replicas]
  /\ Syncs \subseteq Runs
  /\ None \notin {FingerprintOf[s] : s \in Schemas} \cup Schemas

VARIABLES
  snapshots,  \* table datasource_schemas, what is committed of it
  audits,     \* table datasource_audits, in the order of commits
  clock,      \* stamps given so far
  jobs,       \* SchemaSyncJobRegistry._jobs
  args,       \* _PENDING_RUN_ARGS
  pc,         \* the next step of each run
  session     \* what each run has read and written so far

dbVars == <<snapshots, audits, clock>>
jobVars == <<jobs, args>>
vars == <<dbVars, jobVars, pc, session>>

Job(status, fingerprint, changed) ==
  [status |-> status, fingerprint |-> fingerprint, changed |-> changed]

Terminal == {"succeeded", "failed"}

(* What a run knows: the fingerprint it found, the tables it got, the rows *)
(* its DELETE saw, and its refreshed_at.  "since" is kept for the          *)
(* properties: the number of snapshots committed before it began.          *)
Fresh == [prior |-> None, tables |-> None, seen |-> {}, at |-> 0, since |-> 0]

Init ==
  /\ snapshots = {}
  /\ audits = <<>>
  /\ clock = 0
  /\ jobs = [r \in Runs |-> None]
  /\ args = {}
  /\ pc = [r \in Runs |-> "idle"]
  /\ session = [r \in Runs |-> Fresh]

-----------------------------------------------------------------------------
(* Rows, and what a reader is shown of them.                               *)

(* Mutant of Newest: the rows are sorted the other way.                    *)
Newest_Ascending(rows) == CHOOSE row \in rows : \A other \in rows : row.at <= other.at

Newest(rows) == CHOOSE row \in rows : \A other \in rows : other.at <= row.at

(* list_schemas and get_cached_schema: ORDER BY refreshed_at DESC LIMIT 1. *)
Shown(rows) == IF rows = {} THEN None ELSE Newest(rows)

ShownFingerprint(rows) == IF rows = {} THEN None ELSE Newest(rows).fingerprint

RowOf(r) ==
  [by |-> r, at |-> session[r].at,
   fingerprint |-> FingerprintOf[session[r].tables], tables |-> session[r].tables]

(* changed: no earlier fingerprint, or another one.                        *)
Changed(r) ==
  session[r].prior = None \/ session[r].prior # FingerprintOf[session[r].tables]

AuditOf(r) ==
  [by |-> r, fingerprint |-> FingerprintOf[session[r].tables],
   changed |-> IF r \in Syncs THEN Changed(r) ELSE None]

Goto(r, stage) == pc' = [pc EXCEPT ![r] = stage]

-----------------------------------------------------------------------------
(* The registry and the arguments of a job.                                *)

(* The endpoint creates the job, and stores its arguments later.           *)
CreateJob(r) ==
  /\ r \in Syncs
  /\ pc[r] = "idle"
  /\ jobs' = [jobs EXCEPT ![r] = Job("pending", None, None)]
  /\ Goto(r, "store")
  /\ UNCHANGED <<dbVars, args, session>>

StoreArgs(r) ==
  /\ pc[r] = "store"
  /\ args' = args \cup {r}
  /\ Goto(r, "queued")
  /\ UNCHANGED <<dbVars, jobs, session>>

(* Mutant of RunJob: the arguments stay for the next call.                *)
RunJob_Get(r) ==
  /\ pc[r] # "store"
  /\ r \in args
  /\ jobs' = [jobs EXCEPT ![r] = [@ EXCEPT !.status = "running"]]
  /\ session' = [session EXCEPT ![r] = Fresh]
  /\ Goto(r, "load")
  /\ UNCHANGED <<dbVars, args>>

(* A task that finds no arguments was taken already, and does nothing:     *)
(* running a job again is a stuttering step.                               *)
RunJob(r) ==
  /\ pc[r] # "store"
  /\ r \in args
  /\ args' = args \ {r}
  /\ jobs' = [jobs EXCEPT ![r].status = "running"]
  /\ session' = [session EXCEPT ![r] = Fresh]
  /\ Goto(r, "load")
  /\ UNCHANGED dbVars

(* What the run ends with: a result for the job, an answer for a caller of *)
(* refresh_schema.                                                         *)
End(r, status, fingerprint, changed) ==
  /\ Goto(r, "ended")
  /\ jobs' = IF r \in Syncs
               THEN [jobs EXCEPT ![r] = Job(status, fingerprint, changed)]
               ELSE jobs

-----------------------------------------------------------------------------
(* The run.                                                                *)

BeginRefresh(r) ==
  /\ r \notin Syncs
  /\ pc[r] = "idle"
  /\ Goto(r, "load")
  /\ UNCHANGED <<dbVars, jobVars, session>>

(* The first transaction; refresh_schema does not look for a snapshot.     *)
Load(r) ==
  /\ pc[r] = "load"
  /\ session' = [session EXCEPT
       ![r].prior = IF r \in Syncs THEN ShownFingerprint(snapshots) ELSE None,
       ![r].since = Len(audits)]
  /\ Goto(r, "introspect")
  /\ UNCHANGED <<dbVars, jobVars>>

Introspect(r) ==
  /\ pc[r] = "introspect"
  /\ \E schema \in Schemas : session' = [session EXCEPT ![r].tables = schema]
  /\ Goto(r, "delete")
  /\ UNCHANGED <<dbVars, jobVars>>

(* A database that fails to answer leaves the snapshot as it is.           *)
IntrospectFails(r) ==
  /\ pc[r] = "introspect"
  /\ End(r, "failed", session[r].prior, FALSE)
  /\ UNCHANGED <<dbVars, args, session>>

BeginDelete(r) ==
  /\ pc[r] = "delete"
  /\ session' = [session EXCEPT ![r].seen = snapshots]
  /\ Goto(r, "deleting")
  /\ UNCHANGED <<dbVars, jobVars>>

(* The DELETE ends once no other transaction holds a row it saw, and takes *)
(* those that are still there; then the new row gets its refreshed_at.     *)
FinishDelete(r) ==
  /\ pc[r] = "deleting"
  /\ \A q \in Runs \ {r} : pc[q] = "commit" => session[q].seen \cap session[r].seen = {}
  /\ clock' = clock + 1
  /\ session' = [session EXCEPT ![r].seen = @ \cap snapshots,
                                ![r].at = clock']
  /\ Goto(r, "commit")
  /\ UNCHANGED <<snapshots, audits, jobVars>>

(* Mutant of Written: only a changed schema is written.                    *)
Written_IfChanged(r) ==
  IF Changed(r) THEN (snapshots \ session[r].seen) \cup {RowOf(r)} ELSE snapshots

(* The snapshots once the transaction of a run is committed.               *)
Written(r) == (snapshots \ session[r].seen) \cup {RowOf(r)}

Commit(r) ==
  /\ pc[r] = "commit"
  /\ snapshots' = Written(r)
  /\ audits' = Append(audits, AuditOf(r))
  /\ Goto(r, "report")
  /\ UNCHANGED <<clock, jobVars, session>>

Report(r) ==
  /\ pc[r] = "report"
  /\ End(r, "succeeded", FingerprintOf[session[r].tables], Changed(r))
  /\ UNCHANGED <<dbVars, args, session>>

(* Mutant of Raise: the exception leaves the task as it is.                *)
Raise_Leaves(r) ==
  /\ pc[r] \in {"load", "introspect", "delete", "deleting", "commit"}
  /\ Goto(r, "ended")
  /\ UNCHANGED <<dbVars, jobVars, session>>

(* Anything else that is raised (credentials, a driver, the service's own  *)
(* database) rolls back the transaction it is raised in and fails the job. *)
Raise(r) ==
  /\ pc[r] \in {"load", "introspect", "delete", "deleting", "commit"}
  /\ End(r, "failed", None, None)
  /\ UNCHANGED <<dbVars, args, session>>

(* The commit succeeds but its answer is lost: the same error.             *)
CommitUnanswered(r) ==
  /\ pc[r] = "commit"
  /\ snapshots' = Written(r)
  /\ audits' = Append(audits, AuditOf(r))
  /\ End(r, "failed", None, None)
  /\ UNCHANGED <<clock, args, session>>

-----------------------------------------------------------------------------
(* A replica dies with its registry, its arguments and its transactions.   *)
Crash(p) ==
  LET gone == {r \in Runs : ReplicaOf[r] = p /\ pc[r] # "idle"}
  IN  /\ gone # {}
      /\ jobs' = [r \in Runs |-> IF r \in gone THEN None ELSE jobs[r]]
      /\ args' = args \ gone
      /\ pc' = [r \in Runs |-> IF r \in gone THEN "lost" ELSE pc[r]]
      /\ UNCHANGED <<dbVars, session>>

Progress(r) ==
  \/ StoreArgs(r) \/ RunJob(r) \/ Load(r) \/ Introspect(r) \/ IntrospectFails(r)
  \/ BeginDelete(r) \/ FinishDelete(r) \/ Commit(r) \/ CommitUnanswered(r)
  \/ Report(r) \/ Raise(r)

Next ==
  \/ \E r \in Runs : CreateJob(r) \/ BeginRefresh(r) \/ Progress(r)
  \/ \E p \in Replicas : Crash(p)

(* A task that was added is run, and a database answers or fails: the      *)
(* service itself sets no limit to an introspection.                       *)
Spec ==
  /\ Init /\ [][Next]_vars
  /\ \A r \in Runs : WF_vars(Progress(r))

-----------------------------------------------------------------------------
(* Properties.                                                             *)

(* What readers are shown never becomes older nor disappears               *)
(* (schema_service.py:634), however many refreshes overlap: a row is       *)
(* deleted only by a transaction that puts a newer one in its place.       *)
ShownNeverOlder ==
  [][snapshots # {} => snapshots' # {} /\ Shown(snapshots').at >= Shown(snapshots).at]_vars

(* A run during which no other one committed leaves one snapshot, its own, *)
(* also over the rows earlier races had left, and its "changed" flag       *)
(* compares with what readers were shown until then                        *)
(* (schema_service.py:549, 558).                                           *)
SoloRunIsExact ==
  [][Len(audits') > Len(audits) =>
       LET audit == Last(audits')
           r == audit.by
       IN  session[r].since = Len(audits) =>
             /\ snapshots' = {RowOf(r)}
             /\ r \in Syncs =>
                  (audit.changed <=> audit.fingerprint # ShownFingerprint(snapshots))]_vars

(* A job that is over stays as it is, and one that succeeded tells of a    *)
(* committed snapshot: what an audit row of its own says.  Deliveries may  *)
(* repeat (sync_schema.py:276).                                            *)
JobsTellTheTruth ==
  [][\A r \in Runs :
       /\ jobs[r] # None /\ jobs[r].status \in Terminal => jobs'[r] \in {jobs[r], None}
       /\ jobs'[r] # None /\ jobs'[r].status = "succeeded" =>
            \E a \in Range(audits') :
              a = [by |-> r, fingerprint |-> jobs'[r].fingerprint, changed |-> jobs'[r].changed]
    ]_vars

(* A job is written about once it is created: it ends, or is lost with its *)
(* replica (sync_schema.py:357 swallows whatever is raised).               *)
JobsEnd ==
  \A r \in Runs :
    jobs[r] # None ~> (jobs[r] = None \/ jobs[r].status \in Terminal)
=============================================================================
