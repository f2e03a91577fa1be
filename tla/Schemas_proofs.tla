--------------------------- MODULE Schemas_proofs ----------------------------
(***************************************************************************)
(* Proofs about the schema of a datasource: how its snapshots are taken    *)
(* and replaced (SchemaSync), for every number of runs and replicas, and   *)
(* what is answered from them and from the database itself (LiveReads),    *)
(* for every number of calls, every kind of datasource and every content   *)
(* of its database.  The two share no state here.                           *)
(***************************************************************************)
EXTENDS SchemaSync, LiveReads, TLAPS

Fingerprints == {FingerprintOf[s] : s \in Schemas}

(* Rows of datasource_schemas, and entries of the registry.                *)
Row == [by : Runs, at : Nat, fingerprint : Fingerprints, tables : Schemas]
Entry == [status : {"pending", "running"} \cup Terminal,
          fingerprint : Fingerprints \cup {None},
          changed : BOOLEAN \cup {None}]
AuditRow == [by : Runs, fingerprint : Fingerprints,
             changed : BOOLEAN \cup {None}]
Session == [prior : Fingerprints \cup {None}, tables : Schemas \cup {None},
            seen : SUBSET Row, at : Nat, since : Nat]

Stages == {"idle", "store", "queued", "load", "introspect", "delete",
           "deleting", "commit", "report", "ended", "lost"}

(* The stages of a run that has the tables it asked for.                   *)
Answered == {"delete", "deleting", "commit", "report"}

RunTypes(r) ==
  /\ jobs[r] \in Entry \cup {None}
  /\ session[r] \in Session
  /\ pc[r] \in Stages
  /\ pc[r] \in Answered => session[r].tables \in Schemas
  /\ pc[r] = "store" \/ r \in args => jobs[r] \in Entry
  /\ r \in args => pc[r] = "queued"

(* The rows a run is about to delete are older than the one it inserts.    *)
SeenOlder(r) ==
  pc[r] = "commit" =>
    /\ session[r].at <= clock
    /\ \A row \in session[r].seen : row.at < session[r].at

(* What a run has read still holds when nobody has committed since.        *)
SoloExact(r) ==
  pc[r] \in {"introspect", "delete", "deleting", "commit"} =>
    /\ session[r].since <= Len(audits)
    /\ session[r].since = Len(audits) =>
         /\ r \in Syncs => session[r].prior = ShownFingerprint(snapshots)
         /\ pc[r] \in {"deleting", "commit"} => session[r].seen = snapshots

Audited(r, fingerprint, changed) ==
  \E n \in DOMAIN audits :
    audits[n] = [by |-> r, fingerprint |-> fingerprint, changed |-> changed]

(* A run reports what it has committed, and ends with it.                  *)
Honest(r) ==
  /\ pc[r] = "report" /\ r \in Syncs =>
       Audited(r, FingerprintOf[session[r].tables], Changed(r))
  /\ jobs[r] # None /\ jobs[r].status \in Terminal => pc[r] = "ended"
  /\ jobs[r] # None /\ jobs[r].status = "succeeded" =>
       Audited(r, jobs[r].fingerprint, jobs[r].changed)

RunInv(r) == RunTypes(r) /\ SeenOlder(r) /\ SoloExact(r) /\ Honest(r)

(* The variables of runs are functions of the run.                         *)
PerRun ==
  /\ jobs = [r \in Runs |-> jobs[r]]
  /\ session = [r \in Runs |-> session[r]]
  /\ pc = [r \in Runs |-> pc[r]]

(* The tables.  There is a newest row: refreshed_at does not decide who    *)
(* commits last, so this takes that a deleted row leaves a newer one.      *)
TableInv ==
  /\ snapshots \subseteq Row
  /\ audits \in Seq(AuditRow)
  /\ clock \in Nat
  /\ \A row \in snapshots : row.at <= clock
  /\ snapshots # {} =>
       \E row \in snapshots : \A other \in snapshots : other.at <= row.at

SyncInv ==
  /\ TableInv
  /\ PerRun
  /\ args \subseteq Runs
  /\ \A r \in Runs : RunInv(r)

LEMMA InitSyncInv == Init => SyncInv
  BY DEF Init, SyncInv, TableInv, PerRun, RunInv, RunTypes, SeenOlder,
         SoloExact, Honest, Fresh, Stages, Answered, Session

-----------------------------------------------------------------------------
(* Rows.                                                                   *)

LEMMA NewestRow ==
  ASSUME TableInv, snapshots # {}
  PROVE  /\ Newest(snapshots) \in snapshots
         /\ \A other \in snapshots : other.at <= Newest(snapshots).at
  BY DEF TableInv, Newest

LEMMA ShownType ==
  ASSUME TableInv
  PROVE  ShownFingerprint(snapshots) \in Fingerprints \cup {None}
  BY NewestRow DEF ShownFingerprint, TableInv, Row

LEMMA RowOfIsRow ==
  ASSUME NEW r \in Runs, RunTypes(r), pc[r] \in Answered
  PROVE  RowOf(r) \in Row /\ RowOf(r).at = session[r].at
  BY DEF RowOf, Row, RunTypes, Session, Fingerprints

-----------------------------------------------------------------------------
(* Steps of one run.                                                       *)

(* A run changes its own entry, stage and session.                         *)
OnlyAt(r) ==
  /\ jobs' = [jobs EXCEPT ![r] = jobs'[r]]
  /\ session' = [session EXCEPT ![r] = session'[r]]
  /\ pc' = [pc EXCEPT ![r] = pc'[r]]
  /\ \A q \in Runs \ {r} : q \in args' <=> q \in args

LEMMA OthersKept ==
  ASSUME SyncInv, NEW r \in Runs, OnlyAt(r)
  PROVE  /\ PerRun'
         /\ \A q \in Runs \ {r} :
              jobs'[q] = jobs[q] /\ session'[q] = session[q] /\ pc'[q] = pc[q]
  BY DEF SyncInv, PerRun, OnlyAt

LEMMA OneRunMoves ==
  ASSUME SyncInv, NEW r \in Runs, OnlyAt(r), RunInv(r)', TableInv',
         args' \subseteq Runs, clock <= clock',
         \/ UNCHANGED <<snapshots, audits>>
         \/ \E a \in AuditRow : audits' = Append(audits, a)
  PROVE  SyncInv'
<1>1. /\ audits \in Seq(AuditRow)
      /\ Len(audits) \in Nat /\ DOMAIN audits = 1 .. Len(audits)
  BY DEF SyncInv, TableInv
<1>2. /\ UNCHANGED <<snapshots, audits>> \/ Len(audits') = Len(audits) + 1
      /\ \A n \in DOMAIN audits : n \in DOMAIN audits' /\ audits'[n] = audits[n]
  <2>1. CASE UNCHANGED audits
    BY <2>1
  <2>2. ASSUME NEW a \in AuditRow, audits' = Append(audits, a)
        PROVE  /\ Len(audits') = Len(audits) + 1
               /\ \A n \in DOMAIN audits : n \in DOMAIN audits' /\ audits'[n] = audits[n]
    <3> DEFINE longer == Append(audits, a)
    <3>1. /\ Len(longer) = Len(audits) + 1
          /\ DOMAIN longer = 1 .. (Len(audits) + 1)
          /\ \A n \in 1 .. Len(audits) : longer[n] = audits[n]
      BY <1>1
    <3>2. audits' = longer
      BY <2>2
    <3> HIDE DEF longer
    <3> QED
      BY <1>1, <3>1, <3>2
  <2> QED
    BY <2>1, <2>2
<1>3. ASSUME NEW q \in Runs \ {r}
      PROVE  RunInv(q)'
  <2>1. /\ jobs'[q] = jobs[q] /\ session'[q] = session[q] /\ pc'[q] = pc[q]
        /\ q \in args' <=> q \in args
    BY OthersKept DEF OnlyAt
  <2>2. RunTypes(q) /\ SeenOlder(q) /\ SoloExact(q) /\ Honest(q)
    BY DEF SyncInv, RunInv
  <2>3. RunTypes(q)'
    BY <2>1, <2>2 DEF RunTypes
  <2>4. SeenOlder(q)'
    BY <2>1, <2>2 DEF SeenOlder, SyncInv, TableInv, RunTypes, Session
  <2>5. SoloExact(q)'
    <3>1. session[q].since \in Nat
      BY <2>2 DEF RunTypes, Session
    <3> QED
      BY <1>1, <1>2, <2>1, <2>2, <3>1 DEF SoloExact
  <2>6. Honest(q)'
    <3>1. \A f, changed : Audited(q, f, changed) => Audited(q, f, changed)'
      BY <1>2 DEF Audited
    <3> QED
      BY <2>1, <2>2, <3>1 DEF Honest, Changed
  <2> QED
    BY <2>3, <2>4, <2>5, <2>6 DEF RunInv
<1> QED
  BY <1>3, OthersKept DEF SyncInv

(* What a step writes at r is found there; what it leaves, it leaves at r. *)
LEMMA WrittenAt ==
  ASSUME SyncInv, NEW r \in Runs
  PROVE  /\ \A j : jobs' = [jobs EXCEPT ![r] = j] => jobs'[r] = j
         /\ \A s : session' = [session EXCEPT ![r] = s] => session'[r] = s
         /\ \A p : pc' = [pc EXCEPT ![r] = p] => pc'[r] = p
         /\ UNCHANGED jobs => jobs' = [jobs EXCEPT ![r] = jobs'[r]]
         /\ UNCHANGED session => session' = [session EXCEPT ![r] = session'[r]]
  BY DEF SyncInv, PerRun

(* The session and entry of a run as each of its steps leaves them.        *)
LEMMA LoadWrites ==
  ASSUME SyncInv, NEW r \in Runs, Load(r)
  PROVE  /\ OnlyAt(r) /\ pc'[r] = "introspect"
         /\ session'[r] =
              [session[r] EXCEPT
                 !.prior = IF r \in Syncs THEN ShownFingerprint(snapshots)
                                          ELSE None,
                 !.since = Len(audits)]
  BY WrittenAt DEF Load, Goto, dbVars, jobVars, OnlyAt, SyncInv, PerRun

LEMMA IntrospectWrites ==
  ASSUME SyncInv, NEW r \in Runs, Introspect(r)
  PROVE  /\ OnlyAt(r) /\ pc'[r] = "delete"
         /\ \E schema \in Schemas :
              session'[r] = [session[r] EXCEPT !.tables = schema]
  BY WrittenAt DEF Introspect, Goto, dbVars, jobVars, OnlyAt, SyncInv, PerRun

LEMMA BeginDeleteWrites ==
  ASSUME SyncInv, NEW r \in Runs, BeginDelete(r)
  PROVE  /\ OnlyAt(r) /\ pc'[r] = "deleting"
         /\ session'[r] = [session[r] EXCEPT !.seen = snapshots]
  BY WrittenAt DEF BeginDelete, Goto, dbVars, jobVars, OnlyAt, SyncInv, PerRun

LEMMA FinishDeleteWrites ==
  ASSUME SyncInv, NEW r \in Runs, FinishDelete(r)
  PROVE  /\ OnlyAt(r) /\ pc'[r] = "commit"
         /\ clock' = clock + 1
         /\ session'[r] = [session[r] EXCEPT !.seen = session[r].seen \cap snapshots,
                                             !.at = clock + 1]
  BY WrittenAt DEF FinishDelete, Goto, jobVars, OnlyAt, SyncInv, PerRun

(* A step of a run that leaves the tables alone, and is not its commit.    *)
LEMMA QuietStep ==
  ASSUME SyncInv, NEW r \in Runs, OnlyAt(r), args' \subseteq Runs,
         UNCHANGED dbVars, RunInv(r)'
  PROVE  SyncInv'
<1>1. TableInv'
  BY DEF dbVars, SyncInv, TableInv
<1>2. clock <= clock'
  BY DEF dbVars, SyncInv, TableInv
<1> QED
  BY <1>1, <1>2, OneRunMoves DEF dbVars

LEMMA JobSteps ==
  ASSUME SyncInv, NEW r \in Runs,
         CreateJob(r) \/ StoreArgs(r) \/ RunJob(r) \/ BeginRefresh(r)
  PROVE  SyncInv'
<1> USE DEF dbVars, jobVars
<1>1. RunTypes(r) /\ Honest(r)
  BY DEF SyncInv, RunInv
<1>2. /\ UNCHANGED <<snapshots, audits, clock>> /\ args' \subseteq Runs
      /\ \A q \in Runs \ {r} : q \in args' <=> q \in args
      /\ pc' = [pc EXCEPT ![r] = pc'[r]]
      /\ pc'[r] \in {"store", "queued", "load"}
  BY WrittenAt DEF CreateJob, StoreArgs, RunJob, BeginRefresh, Goto, SyncInv
<1>3. /\ jobs' = [jobs EXCEPT ![r] = jobs'[r]]
      /\ session' = [session EXCEPT ![r] = session'[r]]
      /\ jobs'[r] = jobs[r] \/ (jobs'[r] \in Entry /\ jobs'[r].status \notin Terminal)
      /\ session'[r] \in Session
      /\ pc'[r] = "store" \/ r \in args' => jobs'[r] \in Entry
      /\ r \in args' => pc'[r] = "queued"
  <2>1. CASE CreateJob(r)
    <3>1. jobs'[r] = Job("pending", None, None) /\ pc'[r] = "store"
      BY <2>1, WrittenAt DEF CreateJob, Goto
    <3>2. jobs'[r] \in Entry /\ jobs'[r].status \notin Terminal
      BY <3>1 DEF Job, Entry, Terminal
    <3> QED
      BY <1>1, <2>1, <3>1, <3>2, WrittenAt DEF CreateJob, RunTypes
  <2>2. CASE StoreArgs(r)
    BY <1>1, <2>2, WrittenAt DEF StoreArgs, RunTypes, Goto
  <2>3. CASE RunJob(r)
    <3>1. jobs[r] \in Entry
      BY <1>1, <2>3 DEF RunJob, RunTypes
    <3>2. /\ jobs' = [jobs EXCEPT ![r] = [jobs[r] EXCEPT !.status = "running"]]
          /\ session' = [session EXCEPT ![r] = Fresh]
          /\ r \notin args'
      BY <2>3 DEF RunJob
    <3>3. jobs'[r] = [jobs[r] EXCEPT !.status = "running"] /\ session'[r] = Fresh
      BY <3>2, WrittenAt
    <3>4. jobs'[r] \in Entry /\ jobs'[r].status \notin Terminal
      BY <3>1, <3>3 DEF Entry, Terminal
    <3>5. session'[r] \in Session
      BY <3>3 DEF Fresh, Session
    <3> QED
      BY <2>3, <3>2, <3>3, <3>4, <3>5, WrittenAt DEF RunJob, Goto
  <2>4. CASE BeginRefresh(r)
    BY <1>1, <2>4, WrittenAt DEF BeginRefresh, RunTypes, Goto
  <2> QED
    BY <2>1, <2>2, <2>3, <2>4
<1>4. pc[r] # "ended"
  BY <1>1 DEF CreateJob, StoreArgs, RunJob, BeginRefresh, RunTypes
<1>5. RunInv(r)'
  <2>1. RunTypes(r)'
    BY <1>1, <1>2, <1>3 DEF RunTypes, Stages, Answered
  <2>2. SeenOlder(r)' /\ SoloExact(r)'
    BY <1>2 DEF SeenOlder, SoloExact
  <2>3. Honest(r)'
    BY <1>1, <1>2, <1>3, <1>4 DEF Honest, Terminal
  <2> QED
    BY <2>1, <2>2, <2>3 DEF RunInv
<1> QED
  BY <1>2, <1>3, <1>5, QuietStep DEF OnlyAt

(* The steps between the first transaction and the second.                 *)
LEMMA LoadStep ==
  ASSUME SyncInv, NEW r \in Runs, Load(r)
  PROVE  SyncInv'
<1>1. RunTypes(r) /\ Honest(r) /\ UNCHANGED <<dbVars, jobVars>> /\ TableInv
  BY DEF Load, SyncInv, RunInv
<1>2. /\ pc[r] = "load" /\ pc'[r] = "introspect" /\ jobs'[r] = jobs[r]
      /\ session'[r] \in Session
      /\ session'[r].since = Len(audits)
      /\ r \in Syncs => session'[r].prior = ShownFingerprint(snapshots)
  <2>1. session[r] \in Session /\ Len(audits) \in Nat
    BY <1>1 DEF RunTypes, TableInv
  <2>2. ShownFingerprint(snapshots) \in Fingerprints \cup {None}
    BY <1>1, ShownType
  <2>3. session'[r] =
          [session[r] EXCEPT
             !.prior = IF r \in Syncs THEN ShownFingerprint(snapshots) ELSE None,
             !.since = Len(audits)]
    BY LoadWrites
  <2>4. /\ session'[r] \in Session
        /\ session'[r].since = Len(audits)
        /\ r \in Syncs => session'[r].prior = ShownFingerprint(snapshots)
    BY <2>1, <2>2, <2>3 DEF Session
  <2> QED
    BY <1>1, <2>4, LoadWrites DEF Load, jobVars
<1>3. RunTypes(r)'
  BY <1>1, <1>2 DEF RunTypes, jobVars, Stages, Answered
<1>4. SeenOlder(r)' /\ SoloExact(r)' /\ Honest(r)'
  <2>1. Len(audits) \in Nat
    BY <1>1 DEF TableInv
  <2> QED
    BY <1>1, <1>2, <2>1 DEF SeenOlder, SoloExact, Honest, dbVars,
       ShownFingerprint, Terminal
<1> QED
  BY <1>1, <1>3, <1>4, LoadWrites, QuietStep DEF RunInv, jobVars, SyncInv

LEMMA IntrospectStep ==
  ASSUME SyncInv, NEW r \in Runs, Introspect(r)
  PROVE  SyncInv'
<1>1. /\ RunTypes(r) /\ SoloExact(r) /\ Honest(r)
      /\ UNCHANGED <<dbVars, jobVars>>
  BY DEF Introspect, SyncInv, RunInv
<1>2. PICK schema \in Schemas :
        session'[r] = [session[r] EXCEPT !.tables = schema]
  BY IntrospectWrites
<1>3. /\ pc[r] = "introspect" /\ pc'[r] = "delete" /\ jobs'[r] = jobs[r]
      /\ session'[r] \in Session /\ session'[r].tables \in Schemas
      /\ session'[r].since = session[r].since
      /\ session'[r].prior = session[r].prior
  BY <1>1, <1>2, IntrospectWrites DEF Introspect, jobVars, RunTypes, Session
<1>4. RunTypes(r)'
  BY <1>1, <1>3 DEF RunTypes, jobVars, Stages, Answered
<1>5. SeenOlder(r)' /\ SoloExact(r)' /\ Honest(r)'
  BY <1>1, <1>3 DEF SeenOlder, SoloExact, Honest, dbVars, ShownFingerprint,
     Terminal
<1> QED
  BY <1>1, <1>4, <1>5, IntrospectWrites, QuietStep DEF RunInv, jobVars, SyncInv

LEMMA BeginDeleteStep ==
  ASSUME SyncInv, NEW r \in Runs, BeginDelete(r)
  PROVE  SyncInv'
<1>1. /\ RunTypes(r) /\ SoloExact(r) /\ Honest(r) /\ TableInv
      /\ UNCHANGED <<dbVars, jobVars>>
  BY DEF BeginDelete, SyncInv, RunInv
<1>2. /\ pc[r] = "delete" /\ pc'[r] = "deleting" /\ jobs'[r] = jobs[r]
      /\ session'[r] \in Session /\ session'[r].tables = session[r].tables
      /\ session'[r].since = session[r].since
      /\ session'[r].prior = session[r].prior
      /\ session'[r].seen = snapshots
  <2>1. session[r] \in Session /\ snapshots \in SUBSET Row
    BY <1>1 DEF RunTypes, TableInv
  <2>2. session'[r] = [session[r] EXCEPT !.seen = snapshots]
    BY BeginDeleteWrites
  <2>3. /\ session'[r] \in Session /\ session'[r].tables = session[r].tables
        /\ session'[r].since = session[r].since
        /\ session'[r].prior = session[r].prior
        /\ session'[r].seen = snapshots
    BY <2>1, <2>2 DEF Session
  <2> QED
    BY <1>1, <2>3, BeginDeleteWrites DEF BeginDelete, jobVars
<1>3. RunTypes(r)'
  BY <1>1, <1>2 DEF RunTypes, jobVars, Stages, Answered
<1>4. SeenOlder(r)' /\ SoloExact(r)' /\ Honest(r)'
  BY <1>1, <1>2 DEF SeenOlder, SoloExact, Honest, dbVars, ShownFingerprint,
     Terminal
<1> QED
  BY <1>1, <1>3, <1>4, BeginDeleteWrites, QuietStep DEF RunInv, jobVars, SyncInv

(* refreshed_at is taken after every row the DELETE saw was written.       *)
LEMMA FinishDeleteStep ==
  ASSUME SyncInv, NEW r \in Runs, FinishDelete(r)
  PROVE  SyncInv'
<1>1. /\ RunTypes(r) /\ SoloExact(r) /\ Honest(r) /\ TableInv
      /\ UNCHANGED <<snapshots, audits, jobVars>>
  BY DEF FinishDelete, SyncInv, RunInv
<1>2. /\ pc[r] = "deleting" /\ pc'[r] = "commit" /\ jobs'[r] = jobs[r]
      /\ session'[r] \in Session /\ session'[r].tables = session[r].tables
      /\ session'[r].since = session[r].since
      /\ session'[r].prior = session[r].prior
      /\ session'[r].seen = session[r].seen \cap snapshots
      /\ session'[r].at = clock + 1 /\ clock' = clock + 1
  <2>1. session[r] \in Session /\ clock + 1 \in Nat
    BY <1>1 DEF RunTypes, TableInv
  <2>2. session[r].seen \cap snapshots \in SUBSET Row
    BY <2>1 DEF Session
  <2>3. /\ session'[r] = [session[r] EXCEPT
                            !.seen = session[r].seen \cap snapshots,
                            !.at = clock + 1]
        /\ clock' = clock + 1 /\ pc'[r] = "commit"
    BY FinishDeleteWrites
  <2>4. /\ session'[r] \in Session /\ session'[r].tables = session[r].tables
        /\ session'[r].since = session[r].since
        /\ session'[r].prior = session[r].prior
        /\ session'[r].seen = session[r].seen \cap snapshots
        /\ session'[r].at = clock + 1
    BY <2>1, <2>2, <2>3 DEF Session
  <2> QED
    BY <1>1, <2>3, <2>4 DEF FinishDelete, jobVars
<1>3. RunTypes(r)'
  BY <1>1, <1>2 DEF RunTypes, jobVars, Stages, Answered
<1>4. \A row \in snapshots : row.at \in Nat /\ row.at <= clock
  BY <1>1 DEF TableInv, Row
<1>5. SeenOlder(r)' /\ SoloExact(r)' /\ Honest(r)'
  <2>1. clock \in Nat
    BY <1>1 DEF TableInv
  <2>2. SeenOlder(r)'
    BY <1>2, <1>4, <2>1 DEF SeenOlder
  <2>3. SoloExact(r)' /\ Honest(r)'
    BY <1>1, <1>2 DEF SoloExact, Honest, ShownFingerprint, Terminal
  <2> QED
    BY <2>2, <2>3
<1>6. TableInv' /\ clock <= clock'
  BY <1>1, <1>2, <1>4 DEF TableInv
<1> QED
  BY <1>1, <1>3, <1>5, <1>6, FinishDeleteWrites, OneRunMoves
     DEF RunInv, jobVars, SyncInv

-----------------------------------------------------------------------------
(* The commit.                                                             *)

(* The tables after a commit.  Every row it deletes is older than the one  *)
(* it inserts, so there is a newest row again, and not an older one.       *)
LEMMA CommitTables ==
  ASSUME SyncInv, NEW r \in Runs, pc[r] = "commit", UNCHANGED clock,
         snapshots' = Written(r), audits' = Append(audits, AuditOf(r))
  PROVE  /\ TableInv'
         /\ AuditOf(r) \in AuditRow
         /\ snapshots' # {}
         /\ snapshots # {} => Shown(snapshots').at >= Shown(snapshots).at
<1>1. /\ TableInv /\ RunTypes(r)
      /\ session[r].at <= clock
      /\ \A row \in session[r].seen : row.at < session[r].at
  BY DEF SyncInv, RunInv, SeenOlder
<1>2. RowOf(r) \in Row /\ RowOf(r).at = session[r].at
  BY <1>1, RowOfIsRow DEF Answered
<1>3. AuditOf(r) \in AuditRow
  <2>1. FingerprintOf[session[r].tables] \in Fingerprints
    BY <1>1 DEF RunTypes, Answered, Fingerprints
  <2>2. Changed(r) \in BOOLEAN
    BY DEF Changed
  <2> QED
    BY <2>1, <2>2 DEF AuditOf, AuditRow
<1>4. /\ snapshots' \subseteq Row /\ audits' \in Seq(AuditRow) /\ clock' \in Nat
      /\ \A row \in snapshots' : row.at <= clock'
      /\ RowOf(r) \in snapshots'
  <2>1. audits' \in Seq(AuditRow)
    BY <1>1, <1>3 DEF TableInv
  <2> QED
    BY <1>1, <1>2, <2>1 DEF TableInv, Written
<1>5. \A row \in snapshots \cup snapshots' : row.at \in Nat
  BY <1>1, <1>4 DEF Row, TableInv
<1>6. \E row \in snapshots' : \A other \in snapshots' : other.at <= row.at
  <2>1. CASE snapshots = {}
    BY <1>2, <1>4, <1>5, <2>1 DEF Written
  <2>2. CASE snapshots # {}
    <3>1. PICK newest \in snapshots : \A other \in snapshots : other.at <= newest.at
      BY <1>1, <2>2 DEF TableInv
    <3>2. CASE newest.at <= RowOf(r).at
      <4>1. \A other \in snapshots' : other.at <= RowOf(r).at
        BY <1>4, <1>5, <3>1, <3>2 DEF Written
      <4> QED
        BY <1>4, <4>1
    <3>3. CASE ~ (newest.at <= RowOf(r).at)
      <4>1. newest \notin session[r].seen
        BY <1>1, <1>2, <1>4, <1>5, <3>3
      <4>2. newest \in snapshots'
        BY <4>1 DEF Written
      <4>3. \A other \in snapshots' : other.at <= newest.at
        BY <1>4, <1>5, <3>1, <3>3 DEF Written
      <4> QED
        BY <4>2, <4>3
    <3> QED
      BY <3>2, <3>3
  <2> QED
    BY <2>1, <2>2
<1>7. TableInv'
  BY <1>4, <1>6 DEF TableInv
<1>8. ASSUME snapshots # {}
      PROVE  Shown(snapshots').at >= Shown(snapshots).at
  <2> DEFINE old == Newest(snapshots)
             new == Newest(snapshots')
  <2>1. old \in snapshots /\ Shown(snapshots) = old
    BY <1>1, <1>8, NewestRow DEF Shown
  <2>2. /\ new \in snapshots' /\ Shown(snapshots') = new
        /\ \A other \in snapshots' : other.at <= new.at
    BY <1>4, <1>6 DEF Newest, Shown
  <2> HIDE DEF old, new
  <2>3. CASE old \in session[r].seen
    BY <1>1, <1>2, <1>4, <1>5, <2>1, <2>2, <2>3
  <2>4. CASE old \notin session[r].seen
    <3>1. old \in snapshots'
      BY <2>1, <2>4 DEF Written
    <3> QED
      BY <1>5, <2>1, <2>2, <3>1
  <2> QED
    BY <2>3, <2>4
<1> QED
  BY <1>3, <1>4, <1>7, <1>8

LEMMA CommitAudits ==
  ASSUME SyncInv, NEW r \in Runs, AuditOf(r) \in AuditRow,
         audits' = Append(audits, AuditOf(r))
  PROVE  /\ Len(audits) \in Nat
         /\ Len(audits') = Len(audits) + 1
         /\ Last(audits') = AuditOf(r)
         /\ Len(audits') \in DOMAIN audits'
<1>1. audits \in Seq(AuditRow) /\ Len(audits) \in Nat
  BY DEF SyncInv, TableInv
<1>2. /\ Len(Append(audits, AuditOf(r))) = Len(audits) + 1
      /\ Append(audits, AuditOf(r))[Len(audits) + 1] = AuditOf(r)
      /\ Len(audits) + 1 \in DOMAIN Append(audits, AuditOf(r))
  BY <1>1
<1> QED
  BY <1>1, <1>2 DEF Last

LEMMA CommitStep ==
  ASSUME SyncInv, NEW r \in Runs, Commit(r)
  PROVE  SyncInv'
<1>1. /\ RunTypes(r) /\ Honest(r)
      /\ UNCHANGED <<clock, jobVars, session>>
      /\ pc[r] = "commit"
  BY DEF Commit, SyncInv, RunInv
<1>2. /\ TableInv' /\ AuditOf(r) \in AuditRow
      /\ audits' = Append(audits, AuditOf(r))
  BY <1>1, CommitTables DEF Commit
<1>3. pc' = [pc EXCEPT ![r] = "report"] /\ pc'[r] = "report"
  BY WrittenAt DEF Commit, Goto
<1>4. RunTypes(r)' /\ SeenOlder(r)' /\ SoloExact(r)'
  BY <1>1, <1>3 DEF RunTypes, SeenOlder, SoloExact, jobVars, Stages, Answered
<1>5. Honest(r)'
  <2>1. /\ Len(audits') \in DOMAIN audits'
        /\ audits'[Len(audits')] = AuditOf(r)
    BY <1>2, CommitAudits DEF Last
  <2>2. r \in Syncs => Audited(r, FingerprintOf[session[r].tables], Changed(r))'
    BY <1>1, <2>1 DEF Audited, AuditOf, Changed
  <2> QED
    BY <1>1, <1>3, <2>2 DEF Honest, jobVars, Terminal
<1>6. OnlyAt(r)
  BY <1>1, <1>3, WrittenAt DEF OnlyAt, jobVars
<1>7. args' \subseteq Runs /\ clock <= clock'
  BY <1>1 DEF jobVars, SyncInv, TableInv
<1> QED
  BY <1>2, <1>4, <1>5, <1>6, <1>7, OneRunMoves DEF RunInv

-----------------------------------------------------------------------------
(* The end of a run.                                                       *)

LEMMA EndStep ==
  ASSUME SyncInv, NEW r \in Runs, NEW status \in Terminal,
         NEW fingerprint \in Fingerprints \cup {None},
         NEW changed \in BOOLEAN \cup {None},
         End(r, status, fingerprint, changed),
         UNCHANGED <<clock, args, session>>, TableInv', r \notin args,
         pc[r] # "ended",
         r \in Syncs /\ status = "succeeded" => Audited(r, fingerprint, changed)',
         \/ UNCHANGED <<snapshots, audits>>
         \/ \E a \in AuditRow : audits' = Append(audits, a)
  PROVE  SyncInv'
<1>1. RunTypes(r) /\ Honest(r)
  BY DEF SyncInv, RunInv
<1>2. pc' = [pc EXCEPT ![r] = "ended"] /\ pc'[r] = "ended"
  BY WrittenAt DEF End, Goto
<1>3. /\ jobs' = [jobs EXCEPT ![r] = jobs'[r]]
      /\ jobs'[r] = jobs[r] \/
           (r \in Syncs /\ jobs'[r] = Job(status, fingerprint, changed))
  BY WrittenAt DEF End
<1>4. Job(status, fingerprint, changed) \in Entry
  BY DEF Job, Entry
<1>5. RunTypes(r)' /\ SeenOlder(r)' /\ SoloExact(r)'
  BY <1>1, <1>2, <1>3, <1>4 DEF RunTypes, SeenOlder, SoloExact, Stages, Answered
<1>6. Honest(r)'
  BY <1>1, <1>2, <1>3 DEF Honest, Job, Terminal
<1>7. OnlyAt(r)
  BY <1>2, <1>3, WrittenAt DEF OnlyAt
<1>8. args' \subseteq Runs /\ clock <= clock'
  BY DEF SyncInv, TableInv
<1> QED
  BY <1>5, <1>6, <1>7, <1>8, OneRunMoves DEF RunInv

LEMMA EndSteps ==
  ASSUME SyncInv, NEW r \in Runs,
         IntrospectFails(r) \/ Raise(r) \/ Report(r) \/ CommitUnanswered(r)
  PROVE  SyncInv'
<1>1. RunTypes(r) /\ Honest(r) /\ TableInv
  BY DEF SyncInv, RunInv
<1>2. /\ r \notin args /\ pc[r] # "ended" /\ UNCHANGED <<clock, args, session>>
  BY <1>1 DEF IntrospectFails, Raise, Report, CommitUnanswered, RunTypes, dbVars
<1>3. CASE IntrospectFails(r)
  <2>1. session[r].prior \in Fingerprints \cup {None}
    BY <1>1 DEF RunTypes, Session
  <2>2. UNCHANGED <<snapshots, audits>> /\ TableInv'
    BY <1>1, <1>3 DEF IntrospectFails, dbVars, TableInv
  <2> QED
    BY <1>2, <1>3, <2>1, <2>2, EndStep DEF IntrospectFails, Terminal
<1>4. CASE Raise(r)
  <2>1. UNCHANGED <<snapshots, audits>> /\ TableInv'
    BY <1>1, <1>4 DEF Raise, dbVars, TableInv
  <2> QED
    BY <1>2, <1>4, <2>1, EndStep DEF Raise, Terminal
<1>5. CASE Report(r)
  <2>1. UNCHANGED <<snapshots, audits>> /\ TableInv'
    BY <1>1, <1>5 DEF Report, dbVars, TableInv
  <2>2. /\ FingerprintOf[session[r].tables] \in Fingerprints
        /\ Changed(r) \in BOOLEAN
    BY <1>1, <1>5 DEF Report, RunTypes, Answered, Fingerprints, Changed
  <2>3. r \in Syncs =>
          Audited(r, FingerprintOf[session[r].tables], Changed(r))
    BY <1>1, <1>5 DEF Report, Honest
  <2>4. \A f, changed : Audited(r, f, changed) => Audited(r, f, changed)'
    BY <2>1 DEF Audited
  <2> QED
    BY <1>2, <1>5, <2>1, <2>2, <2>3, <2>4, EndStep DEF Report, Terminal
<1>6. CASE CommitUnanswered(r)
  <2>1. /\ TableInv' /\ AuditOf(r) \in AuditRow
        /\ audits' = Append(audits, AuditOf(r))
    BY <1>2, <1>6, CommitTables DEF CommitUnanswered
  <2> QED
    BY <1>2, <1>6, <2>1, EndStep DEF CommitUnanswered, Terminal
<1> QED
  BY <1>3, <1>4, <1>5, <1>6

(* A crash loses entries and arguments, and no row.                        *)
LEMMA CrashStep ==
  ASSUME SyncInv, NEW p \in Replicas, Crash(p)
  PROVE  SyncInv'
<1> DEFINE gone == {r \in Runs : ReplicaOf[r] = p /\ pc[r] # "idle"}
<1>1. /\ jobs' = [r \in Runs |-> IF r \in gone THEN None ELSE jobs[r]]
      /\ args' = args \ gone
      /\ pc' = [r \in Runs |-> IF r \in gone THEN "lost" ELSE pc[r]]
      /\ UNCHANGED <<snapshots, audits, clock, session>>
  BY DEF Crash, dbVars
<1> HIDE DEF gone
<1>2. TableInv' /\ PerRun' /\ args' \subseteq Runs
  BY <1>1 DEF SyncInv, TableInv, PerRun
<1>3. ASSUME NEW r \in Runs
      PROVE  RunInv(r)'
  <2>1. RunTypes(r) /\ SeenOlder(r) /\ SoloExact(r) /\ Honest(r)
    BY DEF SyncInv, RunInv
  <2>2. CASE r \in gone
    <3>1. jobs'[r] = None /\ pc'[r] = "lost" /\ r \notin args' /\ session'[r] = session[r]
      BY <1>1, <2>2
    <3> QED
      BY <2>1, <3>1 DEF RunInv, RunTypes, SeenOlder, SoloExact, Honest, Stages,
         Answered
  <2>3. CASE r \notin gone
    <3>1. /\ jobs'[r] = jobs[r] /\ pc'[r] = pc[r] /\ session'[r] = session[r]
          /\ r \in args' <=> r \in args
      BY <1>1, <2>3
    <3>2. RunTypes(r)' /\ SeenOlder(r)'
      BY <1>1, <2>1, <3>1 DEF RunTypes, SeenOlder
    <3>3. SoloExact(r)' /\ Honest(r)'
      BY <1>1, <2>1, <3>1 DEF SoloExact, Honest, Audited, Changed
    <3> QED
      BY <3>2, <3>3 DEF RunInv
  <2> QED
    BY <2>2, <2>3
<1> QED
  BY <1>2, <1>3 DEF SyncInv

-----------------------------------------------------------------------------
LEMMA NextSyncInv == SyncInv /\ [Next]_vars => SyncInv'
<1> SUFFICES ASSUME SyncInv, [Next]_vars PROVE SyncInv'
  OBVIOUS
<1>1. CASE UNCHANGED vars
  BY <1>1 DEF vars, dbVars, jobVars, SyncInv, TableInv, PerRun, RunInv, RunTypes,
     SeenOlder, SoloExact, Honest, Audited, Changed
<1>2. ASSUME NEW r \in Runs, CreateJob(r) \/ BeginRefresh(r) \/ Progress(r)
      PROVE  SyncInv'
  BY <1>2, JobSteps, LoadStep, IntrospectStep, BeginDeleteStep,
     FinishDeleteStep, CommitStep, EndSteps DEF Progress
<1>3. ASSUME NEW p \in Replicas, Crash(p)
      PROVE  SyncInv'
  BY <1>3, CrashStep
<1> QED
  BY <1>1, <1>2, <1>3 DEF Next

(* The tables, the registry and what every run knows of them agree.        *)
THEOREM SyncInvariant == Spec => []SyncInv
<1>1. Init /\ [][Next]_vars => []SyncInv
  BY InitSyncInv, NextSyncInv, PTL
<1> QED
  BY <1>1, PTL DEF Spec

(* Only a commit writes the tables.                                        *)
LEMMA WhoWrites ==
  ASSUME [Next]_vars
  PROVE  \/ UNCHANGED <<snapshots, audits>>
         \/ \E r \in Runs :
              /\ Commit(r) \/ CommitUnanswered(r)
              /\ pc[r] = "commit" /\ UNCHANGED clock
              /\ snapshots' = Written(r)
              /\ audits' = Append(audits, AuditOf(r))
  BY DEF Next, Progress, CreateJob, BeginRefresh, StoreArgs, RunJob, Load,
     Introspect, IntrospectFails, BeginDelete, FinishDelete, Commit,
     CommitUnanswered, Report, Raise, Crash, vars, dbVars

(* However many runs overlap, readers never see an older snapshot, nor     *)
(* none again.                                                             *)
THEOREM NeverOlder == Spec => ShownNeverOlder
<1> DEFINE A == snapshots # {} =>
                  snapshots' # {} /\ Shown(snapshots').at >= Shown(snapshots).at
<1>1. ASSUME SyncInv, [Next]_vars
      PROVE  A
  <2>1. ASSUME snapshots # {}
        PROVE  Shown(snapshots).at \in Nat
    BY <2>1, <1>1, NewestRow DEF Shown, SyncInv, TableInv, Row
  <2>2. CASE UNCHANGED snapshots
    BY <2>1, <2>2
  <2> QED
    BY <1>1, <2>2, WhoWrites, CommitTables
<1>2. Spec => [][A]_vars
  BY <1>1, SyncInvariant, PTL DEF Spec
<1> QED
  BY <1>2 DEF ShownNeverOlder

(* A run that nobody else committed during leaves its own snapshot alone,  *)
(* and its audit compares with what readers were shown until then.         *)
THEOREM SoloExactly == Spec => SoloRunIsExact
<1> DEFINE A == Len(audits') > Len(audits) =>
                  LET audit == Last(audits')
                      r == audit.by
                  IN  session[r].since = Len(audits) =>
                        /\ snapshots' = {RowOf(r)}
                        /\ r \in Syncs =>
                             (audit.changed <=>
                                audit.fingerprint # ShownFingerprint(snapshots))
<1>1. ASSUME SyncInv, [Next]_vars, Len(audits') > Len(audits)
      PROVE  A
  <2>1. PICK r \in Runs :
          /\ pc[r] = "commit" /\ UNCHANGED clock
          /\ snapshots' = Written(r)
          /\ audits' = Append(audits, AuditOf(r))
    <3>1. Len(audits) \in Nat
      BY <1>1 DEF SyncInv, TableInv
    <3>2. ~ UNCHANGED audits
      BY <1>1, <3>1
    <3> QED
      BY <1>1, <3>2, WhoWrites
  <2>2. Last(audits') = AuditOf(r)
    BY <1>1, <2>1, CommitTables, CommitAudits
  <2>3. RunTypes(r) /\ SoloExact(r)
    BY <1>1 DEF SyncInv, RunInv
  <2>4. ASSUME session[r].since = Len(audits)
        PROVE  /\ snapshots' = {RowOf(r)}
               /\ r \in Syncs =>
                    (Changed(r) <=> FingerprintOf[session[r].tables]
                                      # ShownFingerprint(snapshots))
    <3>1. /\ session[r].seen = snapshots
          /\ r \in Syncs => session[r].prior = ShownFingerprint(snapshots)
      BY <2>1, <2>3, <2>4 DEF SoloExact
    <3>2. FingerprintOf[session[r].tables] # None
      BY <2>1, <2>3, SchemaSyncAssumption DEF RunTypes, Answered
    <3> QED
      BY <2>1, <3>1, <3>2 DEF Written, Changed
  <2>5. /\ AuditOf(r).by = r
        /\ AuditOf(r).fingerprint = FingerprintOf[session[r].tables]
        /\ r \in Syncs => AuditOf(r).changed = Changed(r)
    BY DEF AuditOf
  <2> QED
    BY <2>2, <2>4, <2>5
<1>2. Spec => [][A]_vars
  <2>1. SyncInv /\ [Next]_vars => A
    BY <1>1
  <2> QED
    BY <2>1, SyncInvariant, PTL DEF Spec
<1> QED
  BY <1>2 DEF SoloRunIsExact

(* Only a run that has not ended takes a step, and only its own entry of   *)
(* the registry changes.                                                   *)
LEMMA OwnEntry ==
  ASSUME SyncInv, NEW r \in Runs,
         CreateJob(r) \/ BeginRefresh(r) \/ Progress(r)
  PROVE  /\ pc[r] # "ended"
         /\ \A q \in Runs \ {r} : jobs'[q] = jobs[q]
<1>1. RunTypes(r)
  BY DEF SyncInv, RunInv
<1>2. pc[r] # "ended"
  BY <1>1 DEF Progress, CreateJob, BeginRefresh, StoreArgs, RunJob, Load,
     Introspect, IntrospectFails, BeginDelete, FinishDelete, Commit,
     CommitUnanswered, Report, Raise, RunTypes
<1>3. jobs = [q \in Runs |-> jobs[q]]
  BY DEF SyncInv, PerRun
<1>4. UNCHANGED jobs \/ \E j : jobs' = [jobs EXCEPT ![r] = j]
  BY DEF Progress, CreateJob, BeginRefresh, StoreArgs, RunJob, Load,
     Introspect, IntrospectFails, BeginDelete, FinishDelete, Commit,
     CommitUnanswered, Report, Raise, End, jobVars
<1> QED
  BY <1>2, <1>3, <1>4

(* What a job says once it is over stays, and is what it has committed.    *)
THEOREM JobsTruthful == Spec => JobsTellTheTruth
<1> DEFINE A == \A r \in Runs :
                  /\ jobs[r] # None /\ jobs[r].status \in Terminal =>
                       jobs'[r] \in {jobs[r], None}
                  /\ jobs'[r] # None /\ jobs'[r].status = "succeeded" =>
                       \E a \in Range(audits') :
                         a = [by |-> r, fingerprint |-> jobs'[r].fingerprint,
                              changed |-> jobs'[r].changed]
<1>1. ASSUME SyncInv, SyncInv', [Next]_vars
      PROVE  A
  <2> SUFFICES ASSUME NEW r \in Runs
               PROVE  /\ jobs[r] # None /\ jobs[r].status \in Terminal =>
                           jobs'[r] \in {jobs[r], None}
                      /\ jobs'[r] # None /\ jobs'[r].status = "succeeded" =>
                           \E a \in Range(audits') :
                             a = [by |-> r, fingerprint |-> jobs'[r].fingerprint,
                                  changed |-> jobs'[r].changed]
    OBVIOUS
  <2>1. Honest(r) /\ Honest(r)'
    BY <1>1 DEF SyncInv, RunInv
  <2>2. ASSUME jobs[r] # None, jobs[r].status \in Terminal
        PROVE  jobs'[r] \in {jobs[r], None}
    <3>1. pc[r] = "ended"
      BY <2>1, <2>2 DEF Honest
    <3>2. ASSUME NEW q \in Runs, CreateJob(q) \/ BeginRefresh(q) \/ Progress(q)
          PROVE  jobs'[r] = jobs[r]
      BY <1>1, <3>1, <3>2, OwnEntry
    <3>3. ASSUME NEW p \in Replicas, Crash(p)
          PROVE  jobs'[r] \in {jobs[r], None}
      BY <3>3 DEF Crash
    <3> QED
      BY <1>1, <3>2, <3>3 DEF Next, vars, jobVars
  <2>3. ASSUME jobs'[r] # None, jobs'[r].status = "succeeded"
        PROVE  \E a \in Range(audits') :
                 a = [by |-> r, fingerprint |-> jobs'[r].fingerprint,
                      changed |-> jobs'[r].changed]
    BY <2>1, <2>3 DEF Honest, Audited, Range
  <2> QED
    BY <2>2, <2>3
<1>2. Spec => [][A]_vars
  BY <1>1, SyncInvariant, PTL DEF Spec
<1> QED
  BY <1>2 DEF JobsTellTheTruth

-----------------------------------------------------------------------------
(* LiveReads.                                                              *)

Fields == DOMAIN Idle

ShapeInv == DOMAIN calls = Calls /\ \A c \in Calls : DOMAIN calls[c] = Fields

(* A call has at most one connection of its own, and while it queries.     *)
OwnInv ==
  /\ \A k \in abandoned : k[3] # "own"
  /\ \A k \in conns : k[3] = "own" =>
       /\ k[1] \in Calls /\ calls[k[1]].stage = "query"
       /\ k = Connection(k[1], "own")

(* A snapshot that is true to the database as it was.                      *)
Faithful(s) ==
  /\ s.columns \subseteq s.ever
  /\ s.tables \subseteq TablesOf(s.ever)
  /\ \A pair \in s.columns : pair[1] \in s.tables
  /\ datasource.kind # "mongodb" => s.held \subseteq s.columns

StoredInv == snapshot # Nothing => Faithful(snapshot)

(* What an introspection has read so far.                                  *)
IntrospectInv(c) ==
  /\ At(c, "refresh", "open") =>
       calls[c].columns = {} /\ calls[c].tables = {} /\ calls[c].todo = {}
  /\ At(c, "refresh", "query") =>
       /\ calls[c].held \subseteq source /\ source \subseteq calls[c].ever
       /\ calls[c].columns \subseteq calls[c].ever
       /\ calls[c].tables \subseteq TablesOf(calls[c].ever)
       /\ calls[c].todo \subseteq calls[c].tables
       /\ \A pair \in calls[c].columns : pair[1] \in calls[c].tables
       /\ datasource.kind # "mongodb" /\ calls[c].tables # {} =>
            \A pair \in calls[c].held :
              /\ pair[1] \in calls[c].tables
              /\ pair[1] \in calls[c].todo \/ pair \in calls[c].columns
  /\ At(c, "refresh", "store") =>
       Faithful(Snapshot(calls[c].tables, calls[c].columns, calls[c].held, calls[c].ever))

(* A column a suggestion need not name, or names, or may still name.       *)
Settled(c, pair) ==
  \/ pair \in calls[c].flagged
  \/ pair[2] \notin PiiColumns
  \/ pair[1] \in calls[c].judged \cup calls[c].todo
  \/ calls[c].stage # "next" /\ pair[1] = calls[c].table

(* The columns named are of the snapshot, or the model has named them of a *)
(* table that is.                                                          *)
FlaggedInv(c) ==
  \A pair \in calls[c].flagged :
    \/ pair \in calls[c].snapshot.columns
    \/ pair[1] \in calls[c].judged \cap calls[c].snapshot.tables

SuggestInv(c) ==
  calls[c].op = "suggest" /\ calls[c].stage # "ended" =>
    IF calls[c].snapshot = Nothing
    THEN calls[c].stage = "next" /\ calls[c].todo = {}
    ELSE /\ calls[c].stage \in {"next", "open", "query", "classify"}
         /\ Faithful(calls[c].snapshot)
         /\ FlaggedInv(c)
         /\ calls[c].todo \subseteq calls[c].snapshot.tables
         /\ calls[c].stage # "next" => calls[c].table \in calls[c].snapshot.tables
         /\ datasource.kind # "mongodb" =>
              \A pair \in Within(calls[c].snapshot.held, calls[c].asked) :
                Settled(c, pair)

(* What an answer drawn from the snapshot must be like.                    *)
Truthful(c) ==
  /\ NamesWhatWas(calls[c])
  /\ datasource.kind # "mongodb" =>
       \A pair \in Within(calls[c].snapshot.held, calls[c].asked) :
         \/ pair \in calls[c].flagged
         \/ /\ calls[c].op = "suggest"
            /\ pair[2] \notin PiiColumns \/ pair[1] \in calls[c].judged

(* Only suggestions and the DDL look at the snapshot, and no call answers  *)
(* before its end.                                                         *)
AnswerInv(c) ==
  /\ calls[c].out = "ok" => calls[c].stage = "ended"
  /\ calls[c].op \notin {"suggest", "ddl"} => calls[c].snapshot = Nothing
  /\ calls[c].op = "ddl" => calls[c].stage = "ended"
  /\ calls[c].out = "ok" /\ calls[c].snapshot # Nothing => Truthful(c)

CallInv(c) == IntrospectInv(c) /\ SuggestInv(c) /\ AnswerInv(c)

LiveInv ==
  /\ ShapeInv /\ OwnInv /\ StoredInv
  /\ \A c \in Calls : CallInv(c)

-----------------------------------------------------------------------------
LEMMA FieldNames ==
  Fields = {"op", "stage", "out", "table", "todo", "tables", "columns", "held",
            "ever", "snapshot", "asked", "sampling", "client", "sample",
            "flagged", "judged"}
  BY DEF Fields, Idle

LEMMA TablesGrow ==
  ASSUME NEW S, NEW T, S \subseteq T
  PROVE  TablesOf(S) \subseteq TablesOf(T)
  BY DEF TablesOf

LEMMA UpdateSets ==
  ASSUME ShapeInv, NEW c \in Calls, NEW fields, Update(c, fields)
  PROVE  /\ ShapeInv'
         /\ \A d \in Calls \ {c} : calls'[d] = calls[d]
         /\ \A f \in Fields : calls'[c][f] =
              IF f \in DOMAIN fields THEN fields[f] ELSE calls[c][f]
  BY DEF ShapeInv, Update

(* One call moves.                                                         *)
LEMMA OneMoves ==
  ASSUME LiveInv, NEW c \in Calls, NEW fields, Update(c, fields),
         UNCHANGED <<datasource, source>>, StoredInv', OwnInv', CallInv(c)'
  PROVE  LiveInv'
<1>1. ShapeInv' /\ \A d \in Calls \ {c} : calls'[d] = calls[d]
  BY UpdateSets DEF LiveInv
<1>2. ASSUME NEW d \in Calls \ {c} PROVE CallInv(d)'
  <2>1. CallInv(d) /\ calls'[d] = calls[d]
    BY <1>1 DEF LiveInv
  <2> QED
    BY <2>1 DEF CallInv, IntrospectInv, SuggestInv, AnswerInv, Truthful, Faithful, At,
       Settled, FlaggedInv
<1> QED
  BY <1>1, <1>2 DEF LiveInv

(* Its connections.                                                        *)
LEMMA OwnStep ==
  ASSUME LiveInv, NEW c \in Calls, NEW fields, Update(c, fields),
         \A k \in abandoned' : k[3] # "own",
         \A k \in conns' : k[3] = "own" => k \in conns \/ k = Connection(c, "own"),
         \/ calls'[c].stage = "query" /\ calls'[c].table = calls[c].table
         \/ calls[c].stage # "query" /\ conns' = conns
         \/ Connection(c, "own") \notin conns'
  PROVE  OwnInv'
<1>1. \A d \in Calls \ {c} : calls'[d] = calls[d]
  BY UpdateSets DEF LiveInv
<1>2. /\ Connection(c, "own")[1] = c /\ Connection(c, "own")[3] = "own"
      /\ Connection(c, "own") \in conns => calls[c].stage = "query"
  BY DEF Connection, LiveInv, OwnInv
<1> SUFFICES ASSUME NEW k \in conns', k[3] = "own"
             PROVE  /\ k[1] \in Calls /\ calls'[k[1]].stage = "query"
                    /\ k = <<k[1], calls'[k[1]].table, "own">>
  BY DEF OwnInv, Connection
<1>3. k \in conns => /\ k[1] \in Calls /\ calls[k[1]].stage = "query"
                     /\ k = <<k[1], calls[k[1]].table, "own">>
  BY DEF LiveInv, OwnInv, Connection
<1>4. k[1] = c => /\ k = Connection(c, "own")
                  /\ calls'[c].stage = "query" /\ calls'[c].table = calls[c].table
  BY <1>2, <1>3 DEF Connection
<1>5. k[1] # c => k \in conns
  BY <1>2
<1> QED
  BY <1>1, <1>3, <1>4, <1>5 DEF Connection

LEMMA InitLiveInv == LiveInit => LiveInv
<1> SUFFICES ASSUME LiveInit PROVE LiveInv
  OBVIOUS
<1>1. \A c \in Calls : calls[c] = Idle
  BY DEF LiveInit
<1>2. ShapeInv /\ OwnInv
  BY <1>1 DEF LiveInit, ShapeInv, OwnInv, Fields
<1>3. StoredInv
  <2>1. \A pair \in source : pair[1] \in TablesOf(source)
    BY DEF TablesOf
  <2> QED
    BY <2>1 DEF LiveInit, StoredInv, Earlier, Snapshot, Faithful
<1>4. ASSUME NEW c \in Calls PROVE CallInv(c)
  <2>1. /\ calls[c].op = Nothing /\ calls[c].stage = "idle"
        /\ calls[c].out = Nothing /\ calls[c].snapshot = Nothing
    BY <1>1 DEF Idle
  <2>2. Nothing \notin {"suggest", "ddl", "refresh", "ok"}
    BY LiveReadsAssumption DEF Operations
  <2> QED
    BY <2>1, <2>2 DEF CallInv, IntrospectInv, SuggestInv, AnswerInv, Truthful, At
<1> QED
  BY <1>2, <1>3, <1>4 DEF LiveInv

(* What a call that has not begun is like.                                 *)
LEMMA BeginSets ==
  ASSUME LiveInv, NEW c \in Calls, NEW fields, Begin(c, fields)
  PROVE  /\ Update(c, fields) /\ calls[c] = Idle /\ calls[c].stage = "idle"
         /\ \A f \in Fields : calls'[c][f] =
              IF f \in DOMAIN fields THEN fields[f] ELSE Idle[f]
<1>1. Update(c, fields) /\ calls[c] = Idle
  BY DEF Begin
<1>2. calls[c].stage = "idle"
  BY <1>1 DEF Idle
<1> QED
  BY <1>1, <1>2, UpdateSets DEF LiveInv

(* The end of a call.                                                      *)
LEMMA FinishSets ==
  ASSUME LiveInv, NEW c \in Calls, NEW out, Finish(c, out)
  PROVE  /\ calls'[c].stage = "ended" /\ calls'[c].out = out
         /\ calls'[c].op = calls[c].op /\ calls'[c].snapshot = calls[c].snapshot
         /\ calls'[c].flagged = calls[c].flagged /\ calls'[c].asked = calls[c].asked
         /\ calls'[c].judged = calls[c].judged
<1> DEFINE fields ==
       [stage |-> "ended", out |-> out, table |-> Nothing, todo |-> {},
        tables |-> {}, columns |-> {}, held |-> {}, ever |-> {},
        sampling |-> FALSE, sample |-> "empty"]
<1>1. Update(c, fields)
  BY DEF Finish
<1>2. \A f \in Fields : calls'[c][f] =
        IF f \in DOMAIN fields THEN fields[f] ELSE calls[c][f]
  <2> HIDE DEF fields
  <2> QED
    BY <1>1, UpdateSets DEF LiveInv
<1> QED
  BY <1>2, FieldNames

LEMMA FinishKeeps ==
  ASSUME LiveInv, NEW c \in Calls, NEW out, Finish(c, out),
         out = "ok" /\ calls[c].snapshot # Nothing => Truthful(c),
         \A k \in abandoned' : k[3] # "own",
         conns' \subseteq conns \cup {Connection(c, how) : how \in {"admin", "unstarted"}},
         \/ calls[c].stage # "query" /\ conns' = conns
         \/ Connection(c, "own") \notin conns',
         UNCHANGED <<datasource, source>>, StoredInv'
  PROVE  LiveInv'
<1>1. /\ calls'[c].stage = "ended" /\ calls'[c].out = out
      /\ calls'[c].op = calls[c].op /\ calls'[c].snapshot = calls[c].snapshot
  BY FinishSets
<1>2. CallInv(c)'
  <2>1. AnswerInv(c)
    BY DEF LiveInv, CallInv
  <2>2. Truthful(c) => Truthful(c)'
    BY FinishSets DEF Truthful, NamesWhatWas
  <2> QED
    BY <1>1, <2>1, <2>2 DEF CallInv, IntrospectInv, SuggestInv, AnswerInv, At
<1>3. PICK fields : Update(c, fields)
  BY DEF Finish
<1>4. \A how : Connection(c, how)[3] = how
  BY DEF Connection
<1>5. OwnInv'
  BY <1>3, <1>4, OwnStep
<1> QED
  BY <1>2, <1>3, <1>5, OneMoves

(* The snapshot and what was there when it was taken do not change.        *)
LEMMA SnapshotStays ==
  ASSUME LiveInv, UNCHANGED <<datasource, snapshot>>
  PROVE  StoredInv'
  BY DEF LiveInv, StoredInv, Faithful

-----------------------------------------------------------------------------
(* The environment.                                                        *)

LEMMA AlterKeeps ==
  ASSUME LiveInv, Alter
  PROVE  LiveInv'
<1>1. PICK shape :
        /\ source' = shape
        /\ calls' = [c \in Calls |->
             [calls[c] EXCEPT !.held = @ \cap shape,
                              !.ever = IF At(c, "refresh", "query")
                                       THEN @ \cup shape ELSE @]]
        /\ UNCHANGED <<datasource, snapshot, conns, abandoned>>
  BY DEF Alter
<1>2. ShapeInv'
  BY <1>1 DEF LiveInv, ShapeInv
<1>3. ASSUME NEW c \in Calls
      PROVE  /\ calls'[c].held = calls[c].held \cap shape
             /\ calls'[c].ever = IF At(c, "refresh", "query")
                                 THEN calls[c].ever \cup shape ELSE calls[c].ever
             /\ \A f \in Fields \ {"held", "ever"} : calls'[c][f] = calls[c][f]
  <2>1. DOMAIN calls[c] = Fields
    BY DEF LiveInv, ShapeInv
  <2> QED
    BY <1>1, <2>1, FieldNames
<1>4. ASSUME NEW c \in Calls
      PROVE  /\ calls'[c].op = calls[c].op /\ calls'[c].stage = calls[c].stage
             /\ calls'[c].out = calls[c].out /\ calls'[c].table = calls[c].table
             /\ calls'[c].todo = calls[c].todo /\ calls'[c].tables = calls[c].tables
             /\ calls'[c].columns = calls[c].columns
             /\ calls'[c].snapshot = calls[c].snapshot
             /\ calls'[c].asked = calls[c].asked
             /\ calls'[c].flagged = calls[c].flagged
             /\ calls'[c].judged = calls[c].judged
  BY <1>3, FieldNames
<1>5. OwnInv'
  <2>1. \A c \in Calls : calls'[c].stage = calls[c].stage
                       /\ Connection(c, "own")' = Connection(c, "own")
    BY <1>4 DEF Connection
  <2> QED
    BY <1>1, <2>1 DEF LiveInv, OwnInv
<1>6. StoredInv'
  BY <1>1, SnapshotStays
<1>7. ASSUME NEW c \in Calls PROVE CallInv(c)'
  <2>1. CallInv(c)
    BY DEF LiveInv
  <2>2. IntrospectInv(c)'
    <3>1. At(c, "refresh", "query") =>
            calls'[c].held \subseteq shape /\ shape \subseteq calls'[c].ever
            /\ calls[c].ever \subseteq calls'[c].ever
      BY <1>3
    <3>2. calls'[c].held \subseteq calls[c].held
      BY <1>3
    <3>3. ~At(c, "refresh", "query") => calls'[c].ever = calls[c].ever
      BY <1>3
    <3>4. CASE At(c, "refresh", "query")
      <4>1. TablesOf(calls[c].ever) \subseteq TablesOf(calls'[c].ever)
        BY <3>1, <3>4, TablesGrow
      <4> QED
        BY <1>1, <1>4, <2>1, <3>1, <3>2, <3>4, <4>1 DEF CallInv, IntrospectInv, At
    <3>5. CASE At(c, "refresh", "store")
      <4>1. calls'[c].ever = calls[c].ever
        BY <3>3, <3>5 DEF At
      <4> QED
        BY <1>1, <1>4, <2>1, <3>2, <3>5, <4>1
           DEF CallInv, IntrospectInv, At, Faithful, Snapshot
    <3>6. CASE ~At(c, "refresh", "query") /\ ~At(c, "refresh", "store")
      BY <1>4, <2>1, <3>6 DEF CallInv, IntrospectInv, At
    <3> QED
      BY <3>4, <3>5, <3>6
  <2>3. SuggestInv(c)'
    <3>1. \A pair : Settled(c, pair) => Settled(c, pair)'
      BY <1>4 DEF Settled
    <3>2. /\ calls'[c].op = calls[c].op /\ calls'[c].stage = calls[c].stage
          /\ calls'[c].todo = calls[c].todo /\ calls'[c].asked = calls[c].asked
          /\ calls'[c].snapshot = calls[c].snapshot
          /\ calls'[c].flagged = calls[c].flagged /\ calls'[c].judged = calls[c].judged
          /\ calls'[c].table = calls[c].table /\ UNCHANGED datasource
      BY <1>1, <1>4
    <3> QED
      BY <2>1, <3>1, <3>2 DEF CallInv, SuggestInv, FlaggedInv, Faithful
  <2>4. AnswerInv(c)'
    BY <1>1, <1>4, <2>1 DEF CallInv, AnswerInv, Truthful, NamesWhatWas
  <2> QED
    BY <2>2, <2>3, <2>4 DEF CallInv
<1> QED
  BY <1>2, <1>5, <1>6, <1>7 DEF LiveInv

(* A step that moves no call.                                              *)
LEMMA CallsRest ==
  ASSUME LiveInv, UNCHANGED <<datasource, source, snapshot, calls>>,
         abandoned' \subseteq abandoned, conns' \subseteq conns \cup abandoned
  PROVE  LiveInv'
<1>1. ShapeInv' /\ StoredInv'
  BY SnapshotStays DEF LiveInv, ShapeInv
<1>2. OwnInv'
  BY DEF LiveInv, OwnInv, Connection
<1>3. ASSUME NEW c \in Calls PROVE CallInv(c)'
  <2>1. CallInv(c)
    BY DEF LiveInv
  <2> QED
    BY <2>1 DEF CallInv, IntrospectInv, SuggestInv, AnswerInv, Truthful, Faithful, At,
       Settled, FlaggedInv
<1> QED
  BY <1>1, <1>2, <1>3 DEF LiveInv

LEMMA ThreadKeeps ==
  ASSUME LiveInv, ThreadFinishes
  PROVE  LiveInv'
  BY CallsRest DEF ThreadFinishes, Unsaid

-----------------------------------------------------------------------------
(* Giving up.                                                              *)

LEMMA GiveUpKeeps ==
  ASSUME LiveInv, NEW c \in Calls, GiveUp(c), UNCHANGED Unsaid,
         calls[c].stage \in {"open", "query"} \/ calls[c].op # "suggest",
         \A k \in abandoned' : k[3] # "own",
         conns' \subseteq conns,
         \/ calls[c].stage # "query" /\ conns' = conns
         \/ Connection(c, "own") \notin conns'
  PROVE  LiveInv'
<1>1. StoredInv' /\ UNCHANGED <<datasource, source>>
  BY SnapshotStays DEF Unsaid
<1>2. CASE calls[c].op # "suggest"
  <2>1. Finish(c, "failed")
    BY <1>2 DEF GiveUp
  <2> QED
    BY <1>1, <2>1, FinishKeeps
<1>3. CASE calls[c].op = "suggest"
  <2> DEFINE fields == [stage |-> "classify", sample |-> "empty"]
  <2>1. Update(c, fields)
    BY <1>3 DEF GiveUp
  <2>2. \A f \in Fields : calls'[c][f] =
          IF f \in DOMAIN fields THEN fields[f] ELSE calls[c][f]
    <3> HIDE DEF fields
    <3> QED
      BY <2>1, UpdateSets DEF LiveInv
  <2>3. /\ calls'[c].stage = "classify" /\ calls'[c].op = calls[c].op
        /\ calls'[c].out = calls[c].out /\ calls'[c].table = calls[c].table
        /\ calls'[c].todo = calls[c].todo /\ calls'[c].snapshot = calls[c].snapshot
        /\ calls'[c].asked = calls[c].asked /\ calls'[c].flagged = calls[c].flagged
        /\ calls'[c].judged = calls[c].judged
    BY <2>2, FieldNames
  <2>4. CallInv(c) /\ calls[c].stage \in {"open", "query"}
    BY <1>3 DEF LiveInv
  <2>5. SuggestInv(c)'
    BY <1>1, <1>3, <2>3, <2>4 DEF CallInv, SuggestInv, FlaggedInv, Settled, Faithful
  <2>6. AnswerInv(c)' /\ IntrospectInv(c)'
    BY <1>3, <2>3, <2>4 DEF CallInv, AnswerInv, IntrospectInv, At
  <2>7. OwnInv'
    <3> HIDE DEF fields
    <3> QED
      BY <2>1, OwnStep
  <2> HIDE DEF fields
  <2> QED
    BY <1>1, <2>1, <2>5, <2>6, <2>7, OneMoves DEF CallInv
<1> QED
  BY <1>2, <1>3

-----------------------------------------------------------------------------
(* Connections are opened and used.                                        *)

LEMMA OpenSucceedsKeeps ==
  ASSUME LiveInv, NEW c \in Calls, OpenSucceeds(c)
  PROVE  LiveInv'
<1>1. /\ calls[c].stage = "open" /\ UNCHANGED Unsaid /\ UNCHANGED abandoned
      /\ conns' = conns \cup {Connection(c, "own")}
  BY DEF OpenSucceeds
<1>2. StoredInv' /\ UNCHANGED <<datasource, source>> /\ CallInv(c)
  BY <1>1, SnapshotStays DEF Unsaid, LiveInv
<1>3. CASE calls[c].op = "refresh"
  <2> DEFINE fields == [stage |-> "query", held |-> source, ever |-> source]
  <2>1. Update(c, fields)
    BY <1>3 DEF OpenSucceeds
  <2>2. \A f \in Fields : calls'[c][f] =
          IF f \in DOMAIN fields THEN fields[f] ELSE calls[c][f]
    <3> HIDE DEF fields
    <3> QED
      BY <2>1, UpdateSets DEF LiveInv
  <2>3. /\ calls'[c].stage = "query" /\ calls'[c].op = "refresh"
        /\ calls'[c].held = source /\ calls'[c].ever = source
        /\ calls'[c].out = calls[c].out /\ calls'[c].table = calls[c].table
        /\ calls'[c].columns = calls[c].columns /\ calls'[c].tables = calls[c].tables
        /\ calls'[c].todo = calls[c].todo
        /\ calls'[c].snapshot = calls[c].snapshot
    BY <1>3, <2>2, FieldNames
  <2>4. CallInv(c)'
    BY <1>1, <1>2, <1>3, <2>3
       DEF CallInv, IntrospectInv, SuggestInv, AnswerInv, At
  <2> HIDE DEF fields
  <2>5. OwnInv'
    BY <1>1, <2>1, <2>3, OwnStep DEF LiveInv, OwnInv
  <2> QED
    BY <1>2, <2>1, <2>4, <2>5, OneMoves
<1>4. CASE calls[c].op # "refresh"
  <2> DEFINE fields == [stage |-> "query"]
  <2>1. Update(c, fields)
    BY <1>4 DEF OpenSucceeds
  <2>2. \A f \in Fields : calls'[c][f] =
          IF f \in DOMAIN fields THEN fields[f] ELSE calls[c][f]
    <3> HIDE DEF fields
    <3> QED
      BY <2>1, UpdateSets DEF LiveInv
  <2>3. /\ calls'[c].stage = "query" /\ calls'[c].op = calls[c].op
        /\ calls'[c].out = calls[c].out /\ calls'[c].table = calls[c].table
        /\ calls'[c].todo = calls[c].todo /\ calls'[c].snapshot = calls[c].snapshot
        /\ calls'[c].asked = calls[c].asked /\ calls'[c].flagged = calls[c].flagged
        /\ calls'[c].judged = calls[c].judged
    BY <2>2, FieldNames
  <2>4. SuggestInv(c)'
    BY <1>1, <1>2, <2>3 DEF CallInv, SuggestInv, FlaggedInv, Settled, Faithful
  <2>5. AnswerInv(c)' /\ IntrospectInv(c)'
    BY <1>1, <1>2, <1>4, <2>3 DEF CallInv, IntrospectInv, AnswerInv, At
  <2> HIDE DEF fields
  <2>6. OwnInv'
    BY <1>1, <2>1, <2>3, OwnStep DEF LiveInv, OwnInv
  <2> QED
    BY <1>2, <2>1, <2>4, <2>5, <2>6, OneMoves DEF CallInv
<1> QED
  BY <1>3, <1>4

LEMMA OpenGivesUpKeeps ==
  ASSUME LiveInv, NEW c \in Calls, OpenFails(c) \/ OpenTimesOut(c)
  PROVE  LiveInv'
<1>1. /\ GiveUp(c) /\ UNCHANGED Unsaid /\ calls[c].stage \in {"open", "admin"}
      /\ \A k \in abandoned' : k \in abandoned \/ k = Connection(c, "late")
  BY DEF OpenFails, OpenTimesOut
<1>2. calls[c].stage = "open" \/ calls[c].op # "suggest"
  BY <1>1 DEF LiveInv, CallInv, SuggestInv
<1>3. \A k \in abandoned' : k[3] # "own"
  BY <1>1 DEF LiveInv, OwnInv, Connection
<1>4. CASE conns' = conns
  BY <1>1, <1>2, <1>3, <1>4, GiveUpKeeps
<1>5. CASE calls[c].op = "topic_schema" /\ conns' = conns \cup {Connection(c, "unstarted")}
  <2>1. Finish(c, "failed") /\ StoredInv' /\ UNCHANGED <<datasource, source>>
    BY <1>1, <1>5, SnapshotStays DEF GiveUp, Unsaid
  <2>2. Connection(c, "own") \notin conns'
    BY <1>1, <1>5 DEF LiveInv, OwnInv, Connection
  <2> QED
    BY <1>3, <1>5, <2>1, <2>2, FinishKeeps
<1> QED
  BY <1>4, <1>5 DEF OpenFails, OpenTimesOut

LEMMA StatementFailsKeeps ==
  ASSUME LiveInv, NEW c \in Calls, StatementFails(c)
  PROVE  LiveInv'
<1>1. /\ calls[c].stage = "query" /\ GiveUp(c) /\ UNCHANGED Unsaid
      /\ UNCHANGED abandoned /\ conns' = conns \ {Connection(c, "own")}
  BY DEF StatementFails, CloseAnd
<1> QED
  BY <1>1, GiveUpKeeps DEF LiveInv, OwnInv

(* Calls that have looked at no snapshot answer.                           *)
LEMMA AnswerKeeps ==
  ASSUME LiveInv, NEW c \in Calls,
         Probe(c) \/ UseAdmin(c) \/ SampleTopic(c) \/ Store(c)
  PROVE  LiveInv'
<1>1. PICK out : Finish(c, out)
  BY DEF Probe, UseAdmin, SampleTopic, Store
<1>2. UNCHANGED <<datasource, source, abandoned>>
  BY DEF Probe, UseAdmin, SampleTopic, Store, Unsaid
<1>3. CASE Probe(c) \/ SampleTopic(c)
  <2>1. /\ calls[c].op \in {"test", "topic_schema"} /\ UNCHANGED snapshot
        /\ conns' = conns \ {Connection(c, "own")}
    BY <1>3 DEF Probe, SampleTopic, At, Unsaid
  <2>2. calls[c].snapshot = Nothing
    BY <2>1 DEF LiveInv, CallInv, AnswerInv
  <2>3. StoredInv'
    BY <1>2, <2>1, SnapshotStays
  <2> QED
    BY <1>1, <1>2, <2>1, <2>2, <2>3, FinishKeeps DEF LiveInv, OwnInv
<1>4. CASE UseAdmin(c)
  <2>1. /\ calls[c].stage = "admin" /\ UNCHANGED snapshot
        /\ conns' = conns \cup {Connection(c, "admin")}
    BY <1>4 DEF UseAdmin, Unsaid
  <2>2. calls[c].op \notin {"suggest", "ddl"}
    BY <2>1 DEF LiveInv, CallInv, AnswerInv, SuggestInv
  <2>3. calls[c].snapshot = Nothing
    BY <2>2 DEF LiveInv, CallInv, AnswerInv
  <2>4. StoredInv'
    BY <1>2, <2>1, SnapshotStays
  <2>5. Connection(c, "own") \notin conns'
    BY <2>1 DEF LiveInv, OwnInv, Connection
  <2> QED
    BY <1>1, <1>2, <2>1, <2>3, <2>4, <2>5, FinishKeeps DEF LiveInv, OwnInv
<1>5. CASE Store(c)
  <2>1. /\ calls[c].op = "refresh" /\ calls[c].stage = "store" /\ conns' = conns
        /\ \/ UNCHANGED snapshot
           \/ snapshot' = Snapshot(calls[c].tables, calls[c].columns,
                                   calls[c].held, calls[c].ever)
    BY <1>5 DEF Store, At
  <2>2. calls[c].snapshot = Nothing
    BY <2>1 DEF LiveInv, CallInv, AnswerInv
  <2>3. Faithful(Snapshot(calls[c].tables, calls[c].columns, calls[c].held, calls[c].ever))
    BY <2>1 DEF LiveInv, CallInv, IntrospectInv, At
  <2>4. StoredInv'
    BY <1>2, <2>1, <2>3, SnapshotStays DEF StoredInv, Faithful
  <2> QED
    BY <1>1, <1>2, <2>1, <2>2, <2>4, FinishKeeps DEF LiveInv, OwnInv
<1> QED
  BY <1>3, <1>4, <1>5

LEMMA AskRegistryKeeps ==
  ASSUME LiveInv, NEW c \in Calls, AskRegistry(c)
  PROVE  LiveInv'
<1>1. /\ calls[c].op = "topic_schema" /\ calls[c].stage = "registry"
      /\ UNCHANGED Unsaid /\ UNCHANGED <<conns, abandoned>>
  BY DEF AskRegistry, At
<1>2. StoredInv' /\ UNCHANGED <<datasource, source>> /\ CallInv(c)
  BY <1>1, SnapshotStays DEF Unsaid, LiveInv
<1>3. calls[c].snapshot = Nothing
  BY <1>1, <1>2 DEF CallInv, AnswerInv
<1>4. ASSUME NEW out, Finish(c, out) PROVE LiveInv'
  BY <1>1, <1>2, <1>3, <1>4, FinishKeeps DEF LiveInv, OwnInv
<1>5. ASSUME Update(c, [stage |-> "open"]) PROVE LiveInv'
  <2> DEFINE fields == [stage |-> "open"]
  <2>1. \A f \in Fields : calls'[c][f] =
          IF f \in DOMAIN fields THEN fields[f] ELSE calls[c][f]
    <3>1. Update(c, fields)
      BY <1>5
    <3> HIDE DEF fields
    <3> QED
      BY <3>1, UpdateSets DEF LiveInv
  <2>2. /\ calls'[c].stage = "open" /\ calls'[c].op = calls[c].op
        /\ calls'[c].out = calls[c].out /\ calls'[c].snapshot = calls[c].snapshot
    BY <2>1, FieldNames
  <2>3. CallInv(c)'
    BY <1>1, <1>2, <1>3, <2>2
       DEF CallInv, IntrospectInv, SuggestInv, AnswerInv, At
  <2>4. OwnInv'
    BY <1>1, <1>5, OwnStep DEF LiveInv, OwnInv
  <2> QED
    BY <1>2, <1>5, <2>3, <2>4, OneMoves
<1> QED
  BY <1>4, <1>5 DEF AskRegistry

-----------------------------------------------------------------------------
(* Calls begin.                                                            *)

(* A call that is about to look at the database, or is refused.            *)
LEMMA PlainBeginKeeps ==
  ASSUME LiveInv, NEW c \in Calls, NEW fields, Begin(c, fields),
         UNCHANGED Unsaid, UNCHANGED <<conns, abandoned>>,
         fields.op \notin {"suggest", "ddl"},
         fields.stage \in {"admin", "open", "registry", "ended"},
         {"op", "stage"} \subseteq DOMAIN fields,
         DOMAIN fields \subseteq {"op", "stage", "table", "out"},
         "out" \in DOMAIN fields => fields.out # "ok"
  PROVE  LiveInv'
<1>1. /\ Update(c, fields) /\ calls[c].stage = "idle"
      /\ \A f \in Fields : calls'[c][f] =
           IF f \in DOMAIN fields THEN fields[f] ELSE Idle[f]
  BY BeginSets
<1>2. /\ calls'[c].op = fields.op /\ calls'[c].stage = fields.stage
      /\ calls'[c].out # "ok" /\ calls'[c].snapshot = Nothing
      /\ calls'[c].columns = {} /\ calls'[c].tables = {} /\ calls'[c].todo = {}
  BY <1>1, FieldNames, LiveReadsAssumption DEF Idle
<1>3. StoredInv' /\ UNCHANGED <<datasource, source>>
  BY SnapshotStays DEF Unsaid
<1>4. CallInv(c)'
  BY <1>2 DEF CallInv, IntrospectInv, SuggestInv, AnswerInv, At
<1>5. OwnInv'
  BY <1>1, OwnStep DEF LiveInv, OwnInv
<1> QED
  BY <1>1, <1>3, <1>4, <1>5, OneMoves

LEMMA BeginKeeps ==
  ASSUME LiveInv, NEW c \in Calls,
         \/ BeginTest(c) \/ BeginPreview(c) \/ BeginIntrospection(c)
         \/ BeginListTopics(c) \/ BeginTopicSchema(c)
  PROVE  LiveInv'
<1>1. UNCHANGED Unsaid /\ UNCHANGED <<conns, abandoned>>
  BY DEF BeginTest, BeginPreview, BeginIntrospection, BeginListTopics,
     BeginTopicSchema
<1>2. Nothing # "ok"
  BY LiveReadsAssumption
<1>3. ASSUME NEW op \in {"test", "list_topics"}, NEW stage \in {"admin", "open"},
             Begin(c, [op |-> op, stage |-> stage])
      PROVE  LiveInv'
  <2> DEFINE fields == [op |-> op, stage |-> stage]
  <2>1. /\ fields.op = op /\ fields.stage = stage /\ DOMAIN fields = {"op", "stage"}
        /\ Begin(c, fields)
    BY <1>3
  <2> HIDE DEF fields
  <2> QED
    BY <1>1, <2>1, PlainBeginKeeps
<1>4. CASE BeginTest(c) \/ BeginListTopics(c)
  BY <1>3, <1>4 DEF BeginTest, BeginListTopics
<1>5. CASE BeginPreview(c)
  <2> DEFINE stage == IF CanPreview THEN "open" ELSE "ended"
             out == IF CanPreview THEN Nothing ELSE "failed"
  <2>1. PICK table \in Tables :
          Begin(c, [op |-> "preview", table |-> table, stage |-> stage, out |-> out])
    BY <1>5 DEF BeginPreview
  <2> DEFINE fields ==
         [op |-> "preview", table |-> table, stage |-> stage, out |-> out]
  <2>2. /\ fields.op = "preview" /\ fields.stage = stage /\ fields.out # "ok"
        /\ DOMAIN fields = {"op", "table", "stage", "out"} /\ Begin(c, fields)
    BY <1>2, <2>1
  <2> HIDE DEF fields
  <2> QED
    BY <1>1, <2>2, PlainBeginKeeps
<1>6. CASE BeginIntrospection(c)
  <2>1. PICK stage \in {"open", "ended"}, out \in {Nothing, "failed"} :
          Begin(c, [op |-> "refresh", stage |-> stage, out |-> out])
    BY <1>6 DEF BeginIntrospection
  <2> DEFINE fields == [op |-> "refresh", stage |-> stage, out |-> out]
  <2>2. /\ fields.op = "refresh" /\ fields.stage = stage /\ fields.out # "ok"
        /\ DOMAIN fields = {"op", "stage", "out"} /\ Begin(c, fields)
    BY <1>2, <2>1
  <2> HIDE DEF fields
  <2> QED
    BY <1>1, <2>2, PlainBeginKeeps
<1>7. CASE BeginTopicSchema(c)
  <2>1. PICK topic \in Tables, stage \in {"registry", "open"} :
          Begin(c, [op |-> "topic_schema", stage |-> stage, table |-> topic])
    BY <1>7 DEF BeginTopicSchema
  <2> DEFINE fields == [op |-> "topic_schema", stage |-> stage, table |-> topic]
  <2>2. /\ fields.op = "topic_schema" /\ fields.stage = stage
        /\ DOMAIN fields = {"op", "stage", "table"} /\ Begin(c, fields)
    BY <2>1
  <2> HIDE DEF fields
  <2> QED
    BY <1>1, <2>2, PlainBeginKeeps
<1> QED
  BY <1>4, <1>5, <1>6, <1>7

LEMMA RenderDdlKeeps ==
  ASSUME LiveInv, NEW c \in Calls, RenderDdl(c)
  PROVE  LiveInv'
<1>1. PICK table \in Tables :
        LET found == /\ snapshot # Nothing
                     /\ table \in snapshot.tables \/ snapshot.tables = {}
        IN Begin(c, [op |-> "ddl", stage |-> "ended", asked |-> {table},
                     out |-> IF found THEN "ok" ELSE "failed",
                     snapshot |-> IF found THEN snapshot ELSE Nothing,
                     flagged |-> IF found THEN Within(snapshot.columns, {table})
                                          ELSE {}])
  BY DEF RenderDdl
<1>2. PICK out, s, flagged :
        /\ Begin(c, [op |-> "ddl", stage |-> "ended", asked |-> {table},
                     out |-> out, snapshot |-> s, flagged |-> flagged])
        /\ s # Nothing => s = snapshot /\ flagged = Within(snapshot.columns, {table})
  BY <1>1
<1> DEFINE fields == [op |-> "ddl", stage |-> "ended", asked |-> {table},
                      out |-> out, snapshot |-> s, flagged |-> flagged]
<1>3. /\ Update(c, fields) /\ calls[c].stage = "idle"
      /\ \A f \in Fields : calls'[c][f] =
           IF f \in DOMAIN fields THEN fields[f] ELSE Idle[f]
  <2>1. Begin(c, fields)
    BY <1>2
  <2> HIDE DEF fields
  <2> QED
    BY <2>1, BeginSets
<1>4. /\ calls'[c].op = "ddl" /\ calls'[c].stage = "ended" /\ calls'[c].asked = {table}
      /\ calls'[c].snapshot = s /\ calls'[c].flagged = flagged
  BY <1>3, FieldNames
<1> HIDE DEF fields
<1>5. UNCHANGED Unsaid /\ UNCHANGED <<conns, abandoned>>
  BY DEF RenderDdl
<1>6. StoredInv' /\ UNCHANGED <<datasource, source>>
  BY <1>5, SnapshotStays DEF Unsaid
<1>7. s # Nothing => Truthful(c)'
  <2>1. s # Nothing => Faithful(s) /\ flagged = Within(s.columns, {table})
    BY <1>2 DEF LiveInv, StoredInv
  <2> QED
    BY <1>4, <1>6, <2>1 DEF Truthful, NamesWhatWas, Faithful, Within
<1>8. CallInv(c)'
  BY <1>4, <1>7 DEF CallInv, IntrospectInv, SuggestInv, AnswerInv, At
<1>9. OwnInv'
  BY <1>3, <1>5, OwnStep DEF LiveInv, OwnInv
<1> QED
  BY <1>3, <1>6, <1>8, <1>9, OneMoves

-----------------------------------------------------------------------------
(* Introspection.                                                          *)

(* A statement of an introspection, which may be the last.                 *)
LEMMA ReadKeeps ==
  ASSUME LiveInv, NEW c \in Calls, NEW fields, Update(c, fields),
         At(c, "refresh", "query"), UNCHANGED <<Unsaid, abandoned>>,
         IntrospectInv(c)', OwnInv',
         DOMAIN fields \subseteq {"stage", "todo", "tables", "columns"},
         "stage" \in DOMAIN fields => fields.stage = "store"
  PROVE  LiveInv'
<1>1. \A f \in Fields : calls'[c][f] =
        IF f \in DOMAIN fields THEN fields[f] ELSE calls[c][f]
  BY UpdateSets DEF LiveInv
<1>2. /\ calls'[c].op = "refresh" /\ calls'[c].stage \in {"query", "store"}
      /\ calls'[c].out = calls[c].out /\ calls'[c].snapshot = calls[c].snapshot
  BY <1>1, FieldNames DEF At
<1>3. SuggestInv(c)' /\ AnswerInv(c)'
  BY <1>2 DEF LiveInv, CallInv, SuggestInv, AnswerInv, At
<1>4. StoredInv' /\ UNCHANGED <<datasource, source>>
  BY SnapshotStays DEF Unsaid
<1> QED
  BY <1>3, <1>4, OneMoves DEF CallInv

(* The list of tables, or columns of some of them.                         *)
LEMMA CollectKeeps ==
  ASSUME LiveInv, NEW c \in Calls, At(c, "refresh", "query"),
         UNCHANGED <<Unsaid, abandoned, conns>>, NEW fields, Update(c, fields),
         DOMAIN fields \subseteq {"todo", "tables", "columns"},
         calls'[c].columns \subseteq calls[c].ever,
         calls'[c].tables \subseteq TablesOf(calls[c].ever),
         calls'[c].todo \subseteq calls'[c].tables,
         \A pair \in calls'[c].columns : pair[1] \in calls'[c].tables,
         datasource.kind # "mongodb" /\ calls'[c].tables # {} =>
           \A pair \in calls[c].held :
             /\ pair[1] \in calls'[c].tables
             /\ pair[1] \in calls'[c].todo \/ pair \in calls'[c].columns
  PROVE  LiveInv'
<1>1. \A f \in Fields : calls'[c][f] =
        IF f \in DOMAIN fields THEN fields[f] ELSE calls[c][f]
  BY UpdateSets DEF LiveInv
<1>2. /\ calls'[c].op = "refresh" /\ calls'[c].stage = "query"
      /\ calls'[c].table = calls[c].table
      /\ calls'[c].held = calls[c].held /\ calls'[c].ever = calls[c].ever
  BY <1>1, FieldNames DEF At
<1>3. IntrospectInv(c)'
  BY <1>2 DEF LiveInv, CallInv, IntrospectInv, At, Unsaid
<1>4. OwnInv'
  BY <1>2, OwnStep DEF LiveInv, OwnInv
<1> QED
  BY <1>3, <1>4, ReadKeeps

(* The last statement; the connection is closed behind it.                 *)
LEMMA CloseKeeps ==
  ASSUME LiveInv, NEW c \in Calls, At(c, "refresh", "query"),
         UNCHANGED <<Unsaid, abandoned>>, CloseAnd(c, [stage |-> "store"]),
         calls[c].tables = {} => source = {},
         calls[c].tables # {} => calls[c].todo = {}
  PROVE  LiveInv'
<1>1. conns' = conns \ {Connection(c, "own")}
  BY DEF CloseAnd
<1>2. CASE GiveUp(c)
  BY <1>1, <1>2, GiveUpKeeps DEF At, LiveInv, OwnInv
<1>3. CASE Update(c, [stage |-> "store"])
  <2> DEFINE fields == [stage |-> "store"]
  <2>1. Update(c, fields) /\ DOMAIN fields = {"stage"} /\ fields.stage = "store"
    BY <1>3
  <2> HIDE DEF fields
  <2>2. \A f \in Fields : calls'[c][f] = IF f = "stage" THEN "store" ELSE calls[c][f]
    BY <2>1, UpdateSets DEF LiveInv
  <2>3. /\ calls'[c].stage = "store" /\ calls'[c].tables = calls[c].tables
        /\ calls'[c].columns = calls[c].columns /\ calls'[c].held = calls[c].held
        /\ calls'[c].ever = calls[c].ever
    BY <2>2, FieldNames
  <2>4. Faithful(Snapshot(calls[c].tables, calls[c].columns, calls[c].held, calls[c].ever))
    BY DEF LiveInv, CallInv, IntrospectInv, At, Faithful, Snapshot
  <2>5. IntrospectInv(c)'
    BY <2>3, <2>4 DEF IntrospectInv, At, Faithful, Snapshot, Unsaid
  <2>6. OwnInv'
    BY <1>1, <2>1, OwnStep DEF LiveInv, OwnInv
  <2> QED
    BY <2>1, <2>5, <2>6, ReadKeeps
<1> QED
  BY <1>2, <1>3 DEF CloseAnd

LEMMA ListTablesKeeps ==
  ASSUME LiveInv, NEW c \in Calls, At(c, "refresh", "query"),
         UNCHANGED <<Unsaid, abandoned>>, ListTables(c)
  PROVE  LiveInv'
<1>1. CASE source = {}
  BY <1>1, CloseKeeps DEF ListTables
<1>2. CASE source # {}
  <2> DEFINE fields == [tables |-> TablesOf(source), todo |-> TablesOf(source)]
  <2>1. Update(c, fields) /\ UNCHANGED conns /\ calls[c].tables = {}
    BY <1>2 DEF ListTables
  <2>2. /\ DOMAIN fields = {"tables", "todo"}
        /\ fields.tables = TablesOf(source) /\ fields.todo = TablesOf(source)
    OBVIOUS
  <2> HIDE DEF fields
  <2>3. \A f \in Fields : calls'[c][f] =
          IF f \in DOMAIN fields THEN fields[f] ELSE calls[c][f]
    BY <2>1, UpdateSets DEF LiveInv
  <2>4. /\ calls'[c].tables = TablesOf(source) /\ calls'[c].todo = TablesOf(source)
        /\ calls'[c].columns = calls[c].columns
    BY <2>2, <2>3, FieldNames
  <2>5. \A pair \in source : pair[1] \in TablesOf(source)
    BY DEF TablesOf
  <2>6. /\ calls[c].held \subseteq source /\ calls[c].columns \subseteq calls[c].ever
        /\ source \subseteq calls[c].ever
        /\ \A pair \in calls[c].columns : pair[1] \in calls[c].tables
    BY DEF LiveInv, CallInv, IntrospectInv
  <2>7. TablesOf(source) \subseteq TablesOf(calls[c].ever)
    BY <2>6, TablesGrow
  <2> QED
    BY <2>1, <2>2, <2>4, <2>5, <2>6, <2>7, CollectKeeps
<1> QED
  BY <1>1, <1>2

LEMMA InBatchesKeeps ==
  ASSUME LiveInv, NEW c \in Calls, At(c, "refresh", "query"), InBatches(c)
  PROVE  LiveInv'
<1>1. UNCHANGED <<Unsaid, abandoned>>
  BY DEF InBatches
<1>2. CASE ListTables(c)
  BY <1>1, <1>2, ListTablesKeeps
<1>3. CASE ReadColumns(c)
  <2> DEFINE fields ==
         [todo |-> {}, columns |-> Within(source, calls[c].tables)]
  <2>1. Update(c, fields) /\ UNCHANGED conns
    BY <1>3 DEF ReadColumns
  <2>2. /\ DOMAIN fields = {"todo", "columns"} /\ fields.todo = {}
        /\ fields.columns = Within(source, calls[c].tables)
    OBVIOUS
  <2> HIDE DEF fields
  <2>3. \A f \in Fields : calls'[c][f] =
          IF f \in DOMAIN fields THEN fields[f] ELSE calls[c][f]
    BY <2>1, UpdateSets DEF LiveInv
  <2>4. /\ calls'[c].tables = calls[c].tables /\ calls'[c].todo = {}
        /\ calls'[c].columns = Within(source, calls[c].tables)
    BY <2>2, <2>3, FieldNames
  <2>5. /\ calls[c].held \subseteq source /\ source \subseteq calls[c].ever
        /\ calls[c].tables \subseteq TablesOf(calls[c].ever)
        /\ datasource.kind # "mongodb" /\ calls[c].tables # {} =>
             \A pair \in calls[c].held : pair[1] \in calls[c].tables
    BY DEF LiveInv, CallInv, IntrospectInv
  <2> QED
    BY <1>1, <2>1, <2>2, <2>4, <2>5, CollectKeeps DEF Within
<1>4. CASE ReadDetails(c)
  BY <1>1, <1>4, CloseKeeps DEF ReadDetails
<1> QED
  BY <1>2, <1>3, <1>4 DEF InBatches

(* One table at a time.                                                    *)
LEMMA TableByTable ==
  ASSUME LiveInv, NEW c \in Calls, At(c, "refresh", "query"),
         UNCHANGED <<Unsaid, abandoned, conns>>,
         NEW table, table \in calls[c].todo,
         NEW found, found \subseteq Within(source, {table}),
         datasource.kind # "mongodb" => found = Within(source, {table}),
         Update(c, [todo |-> calls[c].todo \ {table},
                    columns |-> calls[c].columns \cup found])
  PROVE  LiveInv'
<1> DEFINE fields == [todo |-> calls[c].todo \ {table},
                      columns |-> calls[c].columns \cup found]
<1>1. /\ Update(c, fields) /\ DOMAIN fields = {"todo", "columns"}
      /\ fields.todo = calls[c].todo \ {table}
      /\ fields.columns = calls[c].columns \cup found
  OBVIOUS
<1> HIDE DEF fields
<1>2. \A f \in Fields : calls'[c][f] =
        IF f \in DOMAIN fields THEN fields[f] ELSE calls[c][f]
  BY <1>1, UpdateSets DEF LiveInv
<1>3. /\ calls'[c].tables = calls[c].tables
      /\ calls'[c].todo = calls[c].todo \ {table}
      /\ calls'[c].columns = calls[c].columns \cup found
  BY <1>1, <1>2, FieldNames
<1>4. /\ calls[c].held \subseteq source /\ source \subseteq calls[c].ever
      /\ calls[c].columns \subseteq calls[c].ever
      /\ calls[c].tables \subseteq TablesOf(calls[c].ever)
      /\ calls[c].todo \subseteq calls[c].tables
      /\ \A pair \in calls[c].columns : pair[1] \in calls[c].tables
      /\ datasource.kind # "mongodb" /\ calls[c].tables # {} =>
           \A pair \in calls[c].held :
             /\ pair[1] \in calls[c].tables
             /\ pair[1] \in calls[c].todo \/ pair \in calls[c].columns
  BY DEF LiveInv, CallInv, IntrospectInv
<1> QED
  BY <1>1, <1>3, <1>4, CollectKeeps DEF Within

LEMMA IntrospectKeeps ==
  ASSUME LiveInv, NEW c \in Calls,
         \/ PostgresSchema(c) \/ MysqlSchema(c) \/ OracleSchema(c)
         \/ DorisSchema(c) \/ HiveSchema(c) \/ MongoSchema(c)
  PROVE  LiveInv'
<1>1. At(c, "refresh", "query")
  BY DEF PostgresSchema, MysqlSchema, OracleSchema, DorisSchema, HiveSchema,
     MongoSchema, Reading
<1>2. CASE InBatches(c)
  BY <1>1, <1>2, InBatchesKeeps
<1>3. CASE HiveSchema(c) \/ MongoSchema(c)
  <2>1. UNCHANGED <<Unsaid, abandoned>>
    BY <1>3 DEF HiveSchema, MongoSchema
  <2>2. CASE ListTables(c)
    BY <1>1, <2>1, <2>2, ListTablesKeeps
  <2>3. CASE /\ calls[c].tables # {} /\ calls[c].todo = {}
             /\ CloseAnd(c, [stage |-> "store"])
    BY <1>1, <2>1, <2>3, CloseKeeps
  <2>4. ASSUME NEW table, table \in calls[c].todo, UNCHANGED conns,
               \/ HiveTable(c, table)
               \/ datasource.kind = "mongodb" /\ MongoCollection(c, table)
        PROVE  LiveInv'
    <3>1. PICK found :
            /\ found \subseteq Within(source, {table})
            /\ datasource.kind # "mongodb" => found = Within(source, {table})
            /\ Update(c, [todo |-> calls[c].todo \ {table},
                          columns |-> calls[c].columns \cup found])
      BY <2>4 DEF HiveTable, MongoCollection
    <3> QED
      BY <1>1, <2>1, <2>4, <3>1, TableByTable
  <2> QED
    BY <1>3, <2>2, <2>3, <2>4 DEF HiveSchema, MongoSchema, Reading
<1> QED
  BY <1>2, <1>3 DEF PostgresSchema, MysqlSchema, OracleSchema, DorisSchema

-----------------------------------------------------------------------------
(* Rows of a table.                                                        *)

LEMMA ReadRowsKeeps ==
  ASSUME LiveInv, NEW c \in Calls, ReadRows(c)
  PROVE  LiveInv'
<1>1. /\ calls[c].op \in {"preview", "suggest"} /\ calls[c].stage = "query"
      /\ conns' = conns \ {Connection(c, "own")} /\ UNCHANGED <<Unsaid, abandoned>>
  BY DEF ReadRows
<1>2. StoredInv' /\ UNCHANGED <<datasource, source, abandoned>> /\ CallInv(c)
  BY <1>1, SnapshotStays DEF Unsaid, LiveInv
<1>3. CASE calls[c].op = "preview"
  <2>1. Finish(c, "ok")
    BY <1>3 DEF ReadRows
  <2>2. calls[c].snapshot = Nothing
    BY <1>2, <1>3 DEF CallInv, AnswerInv
  <2> QED
    BY <1>1, <1>2, <2>1, <2>2, FinishKeeps DEF LiveInv, OwnInv
<1>4. CASE calls[c].op = "suggest"
  <2>1. PICK rows : Update(c, [stage |-> "classify", sample |-> rows])
    BY <1>4 DEF ReadRows
  <2> DEFINE fields == [stage |-> "classify", sample |-> rows]
  <2>2. \A f \in Fields : calls'[c][f] =
          IF f \in DOMAIN fields THEN fields[f] ELSE calls[c][f]
    <3>1. Update(c, fields)
      BY <2>1
    <3> HIDE DEF fields
    <3> QED
      BY <3>1, UpdateSets DEF LiveInv
  <2>3. /\ calls'[c].stage = "classify" /\ calls'[c].op = calls[c].op
        /\ calls'[c].out = calls[c].out /\ calls'[c].table = calls[c].table
        /\ calls'[c].todo = calls[c].todo /\ calls'[c].snapshot = calls[c].snapshot
        /\ calls'[c].asked = calls[c].asked /\ calls'[c].flagged = calls[c].flagged
        /\ calls'[c].judged = calls[c].judged
    BY <2>2, FieldNames
  <2>4. SuggestInv(c)'
    BY <1>1, <1>2, <1>4, <2>3 DEF CallInv, SuggestInv, FlaggedInv, Settled, Faithful
  <2>5. AnswerInv(c)' /\ IntrospectInv(c)'
    BY <1>1, <1>2, <1>4, <2>3 DEF CallInv, AnswerInv, IntrospectInv, At
  <2>6. Update(c, fields)
    BY <2>1
  <2> HIDE DEF fields
  <2>7. OwnInv'
    BY <1>1, <2>6, OwnStep DEF LiveInv, OwnInv
  <2> QED
    BY <1>2, <2>4, <2>5, <2>6, <2>7, OneMoves DEF CallInv
<1> QED
  BY <1>1, <1>3, <1>4

-----------------------------------------------------------------------------
(* Suggestions.                                                            *)

LEMMA BeginSuggestKeeps ==
  ASSUME LiveInv, NEW c \in Calls, BeginSuggest(c)
  PROVE  LiveInv'
<1>1. PICK whitelist \in SUBSET Tables, sampling \in BOOLEAN,
           client \in {"rules", "gateway"} :
        Begin(c, [op |-> "suggest", stage |-> "next", client |-> client,
                  sampling |-> sampling, snapshot |-> snapshot,
                  asked |-> Wanted(Tables, whitelist),
                  todo |-> IF snapshot = Nothing THEN {}
                           ELSE Wanted(snapshot.tables, whitelist)])
  BY DEF BeginSuggest
<1> DEFINE fields ==
       [op |-> "suggest", stage |-> "next", client |-> client,
        sampling |-> sampling, snapshot |-> snapshot,
        asked |-> Wanted(Tables, whitelist),
        todo |-> IF snapshot = Nothing THEN {}
                 ELSE Wanted(snapshot.tables, whitelist)]
<1>2. /\ Update(c, fields) /\ calls[c].stage = "idle"
      /\ \A f \in Fields : calls'[c][f] =
           IF f \in DOMAIN fields THEN fields[f] ELSE Idle[f]
  <2>1. Begin(c, fields)
    BY <1>1
  <2> HIDE DEF fields
  <2> QED
    BY <2>1, BeginSets
<1>3. /\ calls'[c].op = "suggest" /\ calls'[c].stage = "next"
      /\ calls'[c].out = Nothing /\ calls'[c].snapshot = snapshot
      /\ calls'[c].asked = Wanted(Tables, whitelist)
      /\ calls'[c].todo = IF snapshot = Nothing THEN {}
                          ELSE Wanted(snapshot.tables, whitelist)
      /\ calls'[c].flagged = {}
  BY <1>2, FieldNames DEF Idle
<1> HIDE DEF fields
<1>4. UNCHANGED Unsaid /\ UNCHANGED <<conns, abandoned>>
  BY DEF BeginSuggest
<1>5. StoredInv' /\ UNCHANGED <<datasource, source>>
  BY <1>4, SnapshotStays DEF Unsaid
<1>6. SuggestInv(c)'
  <2>1. snapshot # Nothing => Faithful(snapshot)
    BY DEF LiveInv, StoredInv
  <2>2. CASE snapshot = Nothing
    BY <1>3, <2>2 DEF SuggestInv
  <2>3. CASE snapshot # Nothing
    <3>1. Faithful(snapshot)'
      BY <1>4, <2>1, <2>3 DEF Faithful, Unsaid
    <3>2. ASSUME datasource.kind # "mongodb",
                 NEW pair \in Within(snapshot.held, Wanted(Tables, whitelist))
          PROVE  pair[1] \in Wanted(snapshot.tables, whitelist)
      BY <2>1, <2>3, <3>2 DEF Faithful, Within, Wanted
    <3>3. datasource.kind # "mongodb" =>
            \A pair \in Within(snapshot.held, Wanted(Tables, whitelist)) :
              Settled(c, pair)'
      BY <1>3, <2>3, <3>2 DEF Settled
    <3>4. calls'[c].todo \subseteq snapshot.tables /\ FlaggedInv(c)'
      BY <1>3, <2>3 DEF Wanted, FlaggedInv
    <3> QED
      BY <1>3, <1>4, <1>5, <2>3, <3>1, <3>3, <3>4 DEF SuggestInv, Faithful, Unsaid
  <2> QED
    BY <2>2, <2>3
<1>7. AnswerInv(c)' /\ IntrospectInv(c)'
  BY <1>3, LiveReadsAssumption DEF AnswerInv, IntrospectInv, At
<1>8. OwnInv'
  BY <1>2, <1>4, OwnStep DEF LiveInv, OwnInv
<1> QED
  BY <1>2, <1>5, <1>6, <1>7, <1>8, OneMoves DEF CallInv

(* A step of a suggestion, without a connection.                           *)
LEMMA SuggestKeeps ==
  ASSUME LiveInv, NEW c \in Calls, NEW fields, Update(c, fields),
         calls[c].op = "suggest", calls[c].stage \in {"next", "classify"},
         UNCHANGED <<Unsaid, conns, abandoned>>,
         DOMAIN fields \subseteq
           {"stage", "table", "todo", "sample", "flagged", "judged"},
         SuggestInv(c)'
  PROVE  LiveInv'
<1>1. \A f \in Fields : calls'[c][f] =
        IF f \in DOMAIN fields THEN fields[f] ELSE calls[c][f]
  BY UpdateSets DEF LiveInv
<1>2. /\ calls'[c].op = "suggest" /\ calls'[c].out = calls[c].out
      /\ calls'[c].snapshot = calls[c].snapshot
  BY <1>1, FieldNames
<1>3. calls[c].out # "ok"
  BY DEF LiveInv, CallInv, AnswerInv
<1>4. AnswerInv(c)' /\ IntrospectInv(c)'
  BY <1>2, <1>3 DEF AnswerInv, IntrospectInv, At
<1>5. StoredInv' /\ UNCHANGED <<datasource, source>>
  BY SnapshotStays DEF Unsaid
<1>6. OwnInv'
  BY OwnStep DEF LiveInv, OwnInv
<1> QED
  BY <1>4, <1>5, <1>6, OneMoves DEF CallInv

LEMMA NextTableKeeps ==
  ASSUME LiveInv, NEW c \in Calls, NextTable(c)
  PROVE  LiveInv'
<1>1. /\ calls[c].op = "suggest" /\ calls[c].stage = "next"
      /\ UNCHANGED <<Unsaid, conns, abandoned>>
  BY DEF NextTable, At
<1>2. PICK table \in calls[c].todo, stage \in {"open", "classify"} :
        Update(c, [table |-> table, todo |-> calls[c].todo \ {table},
                   sample |-> "empty", stage |-> stage])
  BY DEF NextTable
<1> DEFINE fields == [table |-> table, todo |-> calls[c].todo \ {table},
                      sample |-> "empty", stage |-> stage]
<1>3. /\ Update(c, fields)
      /\ DOMAIN fields = {"table", "todo", "sample", "stage"}
      /\ fields.table = table /\ fields.todo = calls[c].todo \ {table}
      /\ fields.stage = stage
  BY <1>2
<1> HIDE DEF fields
<1>4. \A f \in Fields : calls'[c][f] =
        IF f \in DOMAIN fields THEN fields[f] ELSE calls[c][f]
  BY <1>3, UpdateSets DEF LiveInv
<1>5. /\ calls'[c].op = "suggest" /\ calls'[c].stage = stage
      /\ calls'[c].table = table /\ calls'[c].todo = calls[c].todo \ {table}
      /\ calls'[c].snapshot = calls[c].snapshot
      /\ calls'[c].asked = calls[c].asked /\ calls'[c].flagged = calls[c].flagged
      /\ calls'[c].judged = calls[c].judged
  BY <1>1, <1>3, <1>4, FieldNames
<1>6. SuggestInv(c) /\ calls[c].todo # {}
  BY <1>2 DEF LiveInv, CallInv
<1>7. \A pair : Settled(c, pair) => Settled(c, pair)'
  BY <1>1, <1>5 DEF Settled
<1>8. SuggestInv(c)'
  BY <1>1, <1>2, <1>5, <1>6, <1>7 DEF SuggestInv, FlaggedInv, Faithful, Unsaid
<1> QED
  BY <1>1, <1>3, <1>8, SuggestKeeps

(* The table at hand has been classified: by its names, or by the model.   *)
LEMMA ClassifyKeeps ==
  ASSUME LiveInv, NEW c \in Calls, At(c, "suggest", "classify"),
         UNCHANGED <<Unsaid, conns, abandoned>>,
         NEW named, NEW fields, Update(c, fields),
         DOMAIN fields \subseteq {"stage", "flagged", "judged"},
         calls'[c].stage = "next", calls'[c].flagged = calls[c].flagged \cup named,
         \/ /\ calls'[c].judged = calls[c].judged \cup {calls[c].table}
            /\ \A pair \in named : pair[1] = calls[c].table
         \/ /\ calls'[c].judged = calls[c].judged /\ named \subseteq ColumnsOf(c)
            /\ \A pair \in ColumnsOf(c) : pair[2] \in PiiColumns => pair \in named
  PROVE  LiveInv'
<1>1. \A f \in Fields : calls'[c][f] =
        IF f \in DOMAIN fields THEN fields[f] ELSE calls[c][f]
  BY UpdateSets DEF LiveInv
<1>2. /\ calls'[c].op = "suggest" /\ calls'[c].todo = calls[c].todo
      /\ calls'[c].snapshot = calls[c].snapshot /\ calls'[c].asked = calls[c].asked
  BY <1>1, FieldNames DEF At
<1>3. /\ calls[c].snapshot # Nothing /\ Faithful(calls[c].snapshot)
      /\ FlaggedInv(c) /\ calls[c].todo \subseteq calls[c].snapshot.tables
      /\ calls[c].table \in calls[c].snapshot.tables
      /\ datasource.kind # "mongodb" =>
           \A pair \in Within(calls[c].snapshot.held, calls[c].asked) :
             Settled(c, pair)
  BY DEF LiveInv, CallInv, SuggestInv, At
<1>4. FlaggedInv(c)'
  BY <1>2, <1>3 DEF FlaggedInv, ColumnsOf, Within
<1>5. ASSUME datasource.kind # "mongodb",
             NEW pair \in Within(calls[c].snapshot.held, calls[c].asked)
      PROVE  Settled(c, pair)'
  <2>1. pair \in calls[c].snapshot.columns
    BY <1>3, <1>5 DEF Faithful, Within
  <2>2. CASE pair[1] = calls[c].table
    <3>1. pair \in ColumnsOf(c)
      BY <2>1, <2>2 DEF ColumnsOf, Within
    <3> QED
      BY <2>2, <3>1 DEF Settled
  <2>3. CASE pair[1] # calls[c].table
    <3>1. Settled(c, pair)
      BY <1>3, <1>5
    <3> QED
      BY <1>2, <2>3, <3>1 DEF Settled
  <2> QED
    BY <2>2, <2>3
<1>6. SuggestInv(c)'
  BY <1>2, <1>3, <1>4, <1>5 DEF SuggestInv, Faithful, Unsaid
<1> QED
  BY <1>6, SuggestKeeps DEF At

LEMMA ClassifyByRulesKeeps ==
  ASSUME LiveInv, NEW c \in Calls, ClassifyByRules(c)
  PROVE  LiveInv'
<1> DEFINE fields == [stage |-> "next", flagged |-> calls[c].flagged \cup ByRules(c)]
<1>1. /\ Update(c, fields) /\ DOMAIN fields = {"stage", "flagged"}
      /\ fields.stage = "next" /\ fields.flagged = calls[c].flagged \cup ByRules(c)
      /\ At(c, "suggest", "classify") /\ UNCHANGED <<Unsaid, conns, abandoned>>
  BY DEF ClassifyByRules
<1> HIDE DEF fields
<1>2. \A f \in Fields : calls'[c][f] =
        IF f \in DOMAIN fields THEN fields[f] ELSE calls[c][f]
  BY <1>1, UpdateSets DEF LiveInv
<1>3. /\ calls'[c].stage = "next" /\ calls'[c].judged = calls[c].judged
      /\ calls'[c].flagged = calls[c].flagged \cup ByRules(c)
  BY <1>1, <1>2, FieldNames
<1>4. /\ ByRules(c) \subseteq ColumnsOf(c)
      /\ \A pair \in ColumnsOf(c) : pair[2] \in PiiColumns => pair \in ByRules(c)
  BY DEF ByRules
<1> QED
  BY <1>1, <1>3, <1>4, ClassifyKeeps

LEMMA ClassifyByGatewayKeeps ==
  ASSUME LiveInv, NEW c \in Calls, ClassifyByGateway(c)
  PROVE  LiveInv'
<1>1. At(c, "suggest", "classify") /\ UNCHANGED <<Unsaid, conns, abandoned>>
  BY DEF ClassifyByGateway
<1>2. CASE Finish(c, "failed")
  <2>1. StoredInv' /\ UNCHANGED <<datasource, source>>
    BY <1>1, SnapshotStays DEF Unsaid
  <2> QED
    BY <1>1, <1>2, <2>1, FinishKeeps DEF LiveInv, OwnInv, At
<1>3. ASSUME NEW named \in Parsed(c),
             Update(c, [stage |-> "next", flagged |-> calls[c].flagged \cup named,
                        judged |-> calls[c].judged \cup {calls[c].table}])
      PROVE  LiveInv'
  <2> DEFINE fields == [stage |-> "next", flagged |-> calls[c].flagged \cup named,
                        judged |-> calls[c].judged \cup {calls[c].table}]
  <2>1. /\ Update(c, fields) /\ DOMAIN fields = {"stage", "flagged", "judged"}
        /\ fields.stage = "next" /\ fields.flagged = calls[c].flagged \cup named
        /\ fields.judged = calls[c].judged \cup {calls[c].table}
    BY <1>3
  <2> HIDE DEF fields
  <2>2. \A f \in Fields : calls'[c][f] =
          IF f \in DOMAIN fields THEN fields[f] ELSE calls[c][f]
    BY <2>1, UpdateSets DEF LiveInv
  <2>3. /\ calls'[c].stage = "next"
        /\ calls'[c].flagged = calls[c].flagged \cup named
        /\ calls'[c].judged = calls[c].judged \cup {calls[c].table}
    BY <2>1, <2>2, FieldNames
  <2>4. \A pair \in named : pair[1] = calls[c].table
    BY DEF Parsed
  <2> QED
    BY <1>1, <2>1, <2>3, <2>4, ClassifyKeeps
<1> QED
  BY <1>2, <1>3 DEF ClassifyByGateway

(* Nothing is left to classify: every column is settled for good.          *)
LEMMA AnswerSuggestionsKeeps ==
  ASSUME LiveInv, NEW c \in Calls, AnswerSuggestions(c)
  PROVE  LiveInv'
<1>1. /\ calls[c].op = "suggest" /\ calls[c].stage = "next" /\ calls[c].todo = {}
      /\ Finish(c, "ok") /\ UNCHANGED <<Unsaid, conns, abandoned>>
  BY DEF AnswerSuggestions, At
<1>2. calls[c].snapshot # Nothing => Truthful(c)
  <2>1. SuggestInv(c)
    BY DEF LiveInv, CallInv
  <2>2. FlaggedInv(c) /\ Faithful(calls[c].snapshot) => NamesWhatWas(calls[c])
    BY DEF FlaggedInv, Faithful, NamesWhatWas
  <2> QED
    BY <1>1, <2>1, <2>2 DEF SuggestInv, Settled, Truthful
<1>3. StoredInv' /\ UNCHANGED <<datasource, source>>
  BY <1>1, SnapshotStays DEF Unsaid
<1> QED
  BY <1>1, <1>2, <1>3, FinishKeeps DEF LiveInv, OwnInv

-----------------------------------------------------------------------------
LEMMA NextLiveInv ==
  ASSUME LiveInv, [LiveNext]_liveVars
  PROVE  LiveInv'
<1>1. CASE Alter
  BY <1>1, AlterKeeps
<1>2. CASE ThreadFinishes
  BY <1>2, ThreadKeeps
<1>3. CASE UNCHANGED liveVars
  BY <1>3, CallsRest DEF liveVars
<1>4. ASSUME NEW c \in Calls,
             \/ OpenSucceeds(c) \/ OpenFails(c) \/ OpenTimesOut(c) \/ StatementFails(c)
             \/ BeginTest(c) \/ Probe(c)
             \/ BeginPreview(c) \/ ReadRows(c)
             \/ BeginIntrospection(c) \/ Store(c)
             \/ PostgresSchema(c) \/ MysqlSchema(c) \/ OracleSchema(c)
             \/ DorisSchema(c) \/ HiveSchema(c) \/ MongoSchema(c)
             \/ RenderDdl(c)
             \/ BeginSuggest(c) \/ NextTable(c) \/ AnswerSuggestions(c)
             \/ ClassifyByRules(c) \/ ClassifyByGateway(c)
             \/ BeginListTopics(c) \/ UseAdmin(c)
             \/ BeginTopicSchema(c) \/ AskRegistry(c) \/ SampleTopic(c)
      PROVE  LiveInv'
  BY <1>4, OpenSucceedsKeeps, OpenGivesUpKeeps, StatementFailsKeeps, BeginKeeps,
     AnswerKeeps, ReadRowsKeeps, IntrospectKeeps, RenderDdlKeeps,
     BeginSuggestKeeps, NextTableKeeps, AnswerSuggestionsKeeps,
     ClassifyByRulesKeeps, ClassifyByGatewayKeeps, AskRegistryKeeps
<1> QED
  BY <1>1, <1>2, <1>3, <1>4 DEF LiveNext

(* The inductive invariant of LiveReads: every call's connection is open   *)
(* only while it queries, a snapshot holds what was there throughout its   *)
(* introspection, and a suggestion still owes no column it may forget.     *)
THEOREM LiveInvariant == LiveSpec => []LiveInv
<1>1. LiveInit => LiveInv
  BY InitLiveInv
<1>2. LiveInv /\ [LiveNext]_liveVars => LiveInv'
  BY NextLiveInv
<1> QED
  BY <1>1, <1>2, PTL DEF LiveSpec

(* No call leaves its own connection open, whatever failed on its way      *)
(* (the finally blocks of the connectors).                                 *)
THEOREM ConnectionsReturned == LiveSpec => []OwnConnectionsReturned
<1>1. LiveInv => OwnConnectionsReturned
  BY DEF LiveInv, OwnInv, OwnConnectionsReturned
<1> QED
  BY <1>1, LiveInvariant, PTL

(* The DDL and the PII suggestions are true to the database as it was      *)
(* while their snapshot was taken (get_table_ddl, suggest_pii), but for    *)
(* the names a language model made up for a table that was there.          *)
THEOREM AnswersStayTrue == LiveSpec => []AnswersTrueToSource
<1>1. LiveInv => AnswersTrueToSource
  BY DEF LiveInv, CallInv, AnswerInv, Truthful, AnswersTrueToSource
<1> QED
  BY <1>1, LiveInvariant, PTL

=============================================================================
