# TLA+ models of the AI Data Platform

TLA+ specifications of the platform's services, checked with TLC on small instances and
proved with TLAPS for every value of the constants: the event bus and its audit consumer,
the chat path of the agent gateway, the sessions and the access control of IAM, the
datasource registry and its snapshots, notifications, and the API gateway. Paths of the form
`consumer.py:164` are relative to the service or library the section is about; every
definition that models code is listed, with the lines it models, in `PROJECT.json` under
`map`.

## 1. The system

Six services (five Python, one Go gateway) over PostgreSQL, Kafka and Redis, and a set of
shared Python libraries. What follows is the inventory: the state each part keeps, its
operations, whom it talks to, what is hard about it and what makes it correct.

### Event bus: `libs/python/aidp_events`

* **Publisher** (`producer.py`). State: a process-wide Kafka transport (`_started`, the
  producer). Operation: `publish_event`, which starts the transport if need be, tries to
  send 1 + `max_retries` times, and forwards the envelope to `<topic>.dlq` when all
  attempts fail. *Hard:* a send can be stored and reported as failed; calls of one process
  race to start the transport; the forward can fail as well. *Correct when:* a call that
  returns has preserved its event, and retries duplicate it no more often than the budget
  says.
* **Consumer** (`consumer.py` over `kafka_transport.py`). State: per process the records
  fetched and not yet processed, the fetch position and the attempt counter; in the broker
  the log, the group's committed offset, the assignment, the dead-letter topic.
  Operations: `consume_events` (the loop), `_process_record` (parse, attempts, back-off),
  `_send_to_dlq`, and the generator `KafkaTransport._consume`, which commits a record when
  the loop asks for the next one. *Hard:* crashes and rebalances at every await, two
  members holding the same records, a commit that fails after being recorded, a task that
  dies of an unhandled exception. *Correct when:* no record below the committed offset is
  unsettled (handled or dead-lettered), nothing is dead-lettered before its budget is
  spent, and no record blocks the ones behind it.
* Envelope, in-memory transport and test helpers: no behaviour of their own.

### Audit service: `services/audit`

`run_consumer` buffers envelopes in an `AuditBatch`; the batch is written by `flush_batch`
when it is full (inside the handler), when it is old enough (the `_enqueue_loop` task) or
on the way out. State: the batch, the flusher task, three tables (`audit_events`,
`audit_payloads`, `security_events`). It composes the event consumer (its handler is the
buffer) with the database shared by all processes of the group. *Hard:* the same event
flushed by two processes, a failing third insert, a flusher that dies, cancellation with a
half-full batch. *Correct when:* the three tables agree, and every committed event is in
the database or lost by a step one can name. The query API is read-only.

### Agent gateway: `services/agent-gateway`

* **Router** (`router.py`, `api/endpoints.py`). State: a circuit breaker per provider
  (`state`, `consecutive_failures`, `opened_at`, `total_successes`), shared by all
  requests. Operations: `resolve`, `route_and_call`, `route_and_stream`, the `/models`
  endpoint, which evaluates breakers too. *Hard:* requests overlap at every provider call,
  so breakers change between the computation of a failover chain and its use, and outcomes
  arrive late. *Correct when:* breaker fields agree with each other, no call reaches a
  provider that is cooling off, failover exhausts the chain in price order.
* **Registry and providers** (`providers/`). State: the catalogue, indexed by model and by
  tier, written at start-up. A call turns what the upstream does (status, timeout, events
  of a stream in any order) into chunks, a usage block, or one of two errors. *Hard:* the
  model is chosen before the provider that will answer; the usage block may come before or
  after the `finish_reason`, or not at all. *Correct when:* what was used is billed.
* **Metering** (`metering.py`). State: a bounded queue, a worker task. Operations:
  `record` (never waits), `start`, `stop`; the lifespan of the application wraps them.
  *Hard:* a full queue, `stop` with records queued before or behind the sentinel, a
  shutdown while streams are open. *Correct when:* what the endpoint meters is written to
  the sink, or was refused by a full queue.
* The MCP server and its tools answer each request over a client that is an in-process
  stub.

### IAM: `services/iam`

* **Sessions** (`auth_service.py`, `user_service.py`). State: `users`, `sessions`.
  Operations: `authenticate` + `issue_token_pair` (login), `refresh_tokens`,
  `revoke_session` (logout), `update_user`, `delete_user`, `reset_password`. *Hard:* READ
  COMMITTED reads that are stale when used, row locks, rollbacks that undo a revocation.
  *Correct when:* a revoked refresh token buys nothing, rotation is all or nothing, a
  reset leaves behind as little as possible.
* **Users, roles, bindings** (`user_service.py`, `rbac.py`, `api/roles.py`). State:
  `tenants`, `users`, `roles`, `user_role_bindings`. Operations: `register_tenant`,
  `create_user`, `update_user`, `delete_user`, `list_users`, `create_role`, `bind_role`,
  `unbind_role`, the permission check, `/me`, and the scopes frozen into each access
  token. *Hard:* check-then-insert without an effective unique constraint (NULL
  `scope_id`), a DELETE that misses rows committed after it began, two paths that answer
  the same question. *Correct when:* nothing crosses a tenant, the two paths agree, nobody
  is told of a permission that was gone before he asked.
* Endpoints call synchronous database code from `async def` handlers, so calls of one
  process are serial; the replicas (`replicaCount: 2` in the chart) interleave statement
  by statement.

### Datasource: `services/datasource`

* **Registry** (`datasource_service.py`, `api/policies.py`). State: `datasources`
  (enabled, soft-deleted, credentials bound to tenant, id and kind), `connection_tests`,
  `datasource_policies`, `datasource_audits`, and the topic `datasource.events.v1`.
  Operations: create, read, list, update, soft-delete, test, `upsert_policy`. Handlers are
  synchronous, so calls interleave within a replica as well. *Hard:* events published
  before the flush, or after the commit; a row changed between the SELECT and the flush; a
  flush that writes changed columns only; audit rows that carry neither a time nor a
  number. *Correct when:* the audit rows account for what happened, events of successful
  calls are backed by them, credentials stay readable, tenants stay apart.
* **Snapshots** (`schema_service.py`, `jobs/sync_schema.py`). State: `datasource_schemas`;
  in each process a registry of jobs and of their arguments. Operations: `refresh_schema`,
  the job (enqueue, run, report), reads. *Hard:* introspection runs between two
  transactions and is overtaken by others; no constraint keeps the snapshot single; jobs
  die with their process. *Correct when:* readers never go back in time, a finished job
  tells the truth.
* **Connectors** (`connectors/*.py`) and what is read through them: tests, introspection,
  previews, DDL, Kafka topics, PII suggestions (`pii_service.py`). State: the connections
  open at the database. *Hard:* statements of one introspection see different states of
  the database; any of them fails; a timeout abandons a thread that goes on. *Correct
  when:* connections are given back, answers are true to the database the snapshot was
  taken of.
* The gRPC server hands a decrypted connection to other services.

### Notify: `services/notify`

State: `notification_channels`, `notification_templates`, `notification_logs`, a
connection pool, one event loop. Operations: `dispatch` (select channel and template by
locale, render, send with retries, log), creation of channels and templates. *Hard:* a
transaction and its connection stay open across attempts and pauses while a check-out
blocks the loop; a crash or a failed commit after delivery; a transient error after
delivery. *Correct when:* the log of a send is its timeline or nothing, what is logged as
sent was delivered, every call ends.

### Gateway: `services/gateway` (Go)

State: one Redis token bucket per key, updated by a Lua script. Operations: trace, auth,
rate-limit, route. *Hard:* clocks that step back and catch up, buckets that expire, tokens
that are doubles, keys that two identities share, scripts that ran although their answer
was lost and are sent again, Redis failing open. *Correct when:* nobody takes more than its
budget, and nobody with a key of its own is refused below it; public paths reach their
service.

### Shared libraries and the web front end

`aidp_db` (session commit/rollback, tenant filter, pool), `aidp_auth` (JWT), `aidp_common`
(configuration, errors, logging) and `web` keep no protocol state of their own;
`get_session`'s commit-or-rollback is part of every transaction that is modelled, the
tenant filter of `IamAccess`, the pool of `NotifyDispatch`.

### How they interact

IAM and datasource publish events, and the audit service consumes events (`EventBus`,
`AuditConsumer`). Every service trusts the access token IAM issues and the gateway checks
(`IamAccess`, `Gateway`). Within the datasource service, jobs and refreshes write the
snapshots (`SchemaSync`) that previews, DDL and suggestions read (`LiveReads`), for the
rows of the registry (`Datasources`). Within the agent gateway, an answer goes from the
router through the provider to metering (`AgentGateway`). Apart from these, services share
no state.

## 2. Modules

| module | models | state ↔ code |
|---|---|---|
| `AtLeastOnce` | the promise of the bus to a consumer group (abstract) | `settled` offsets, `acked` prefix; no process, retry or failure |
| `EventConsumer` | `consume_events` over the Kafka transport, a group of processes, one partition | `cur..last` the records a generator holds, `position` the fetch position, `attempt` the loop counter, `phase` the await a task is at; `log`, `dlq`, `committed`, `owner` the broker |
| `EventPublisher` | `publish_event` | `stage`, `tries` per call; `started` of the shared transport |
| `EventBus` | publisher + consumer group | extends `EventConsumer`, instantiates `EventPublisher` over the same `log` |
| `AuditConsumer` | `run_consumer`, `_enqueue_loop`, `flush_batch`, three tables | extends `EventConsumer`; `batch`, `flusher`, and `flush`, the flush in progress with what its SELECT saw |
| `AgentRouter` | `Router`, `_Breaker`, chat and models endpoints | breaker fields per provider; per request `primary`, `calling`, the `rest` of the chain |
| `Metering` | `MeteringDispatcher` (state and actions, no specification of its own) | `queue`, `worker`, `item`, `service` (lifespan) |
| `AgentGateway` | the chat path: catalogue, `resolve`, provider calls, endpoint, metering, lifespan | extends `AgentRouter`, instantiates `Metering`; `wire` is what `_stream_chat` has seen of each stream |
| `IamSessions` | refresh-token sessions of one user | committed rows `sessions`, `revoked`, `status`; locks `userLock`, `rowLock`; `pc` the next statement of each call |
| `IamAccess` | users, roles and bindings of all tenants, tokens, permission checks | rows `codes`, `users`, `roles`, `bindings`; `tokens`; `doomed` the rows a DELETE has marked; `view` what a call found |
| `Datasources` | datasource registry, policies, audit trail, events | rows `rows`, `policies`, `tests`, `audits`; `loaded` the ORM object of each session |
| `SchemaSync` | snapshots of one datasource, jobs, refreshes | `snapshots`, `audits`; `jobs` and `args` the registries; `session` what a run has read |
| `LiveReads` | connectors and what is answered from the database or its snapshot | `source` the database's columns, `snapshot`, `conns`, `abandoned`; `calls` what each call has read |
| `NotifyDispatch` | `dispatch`, channels, templates, connection pool, event loop | `rows`, `logs`; `pool` who holds a connection, `loop` who blocks the loop, `journal` the uncommitted log |
| `Gateway` | middleware stack and token bucket | `buckets` in Redis; `reply`, `status` per request; `time`, `back`, `regained` the clocks |
| `EventFlow_proofs` | theorems about `EventConsumer`, `EventBus` and `AuditConsumer` | |
| `AgentGateway_proofs` | theorems about `AgentRouter` and `AgentGateway` | |
| `Schemas_proofs` | theorems about `SchemaSync` and `LiveReads` | |
| `IamSessions_proofs`, `IamAccess_proofs`, `Datasources_proofs`, `NotifyDispatch_proofs`, `Gateway_proofs` | theorems about the module they are named after | |
| `MC*` | instances for TLC | |

### What an action is

* **Event bus, audit, router, metering** run on asyncio: an action is what a task does
  between two awaits at which another task may change what it uses. Deliveries, broker
  answers, handler results and faults are nondeterministic.
* `flush_batch` has no await, so nothing of its own process runs inside it; other
  processes do, between its SELECT and its COMMIT, so it is two actions.
* **IAM** calls are split at each statement; statements that are followed by the commit
  with nothing in between are one action. Locks are those PostgreSQL takes: an UPDATE
  locks its rows until the end of the transaction, the foreign-key check of an INSERT does
  not conflict with them.
* **Datasources** calls run in worker threads and are split at their SELECTs, the
  publication of their event, and the flush with the commit behind it. The session does
  not autoflush, and the flush writes the columns that differ from those loaded: `Diff`.
  `datasource_audits` and `connection_tests` have random ids and nothing else to order
  them by, so they are sets. `overtaken` is history: the updates whose loaded value of a
  field another update has replaced by the time they record it.
* **SchemaSync**: load, introspect, DELETE, INSERT with commit, and report are separate. A
  DELETE takes the rows committed when it began, waits for those another transaction has
  deleted (`BeginDelete`, `FinishDelete`), and does not see what that one inserted.
* **LiveReads**: an action is a statement sent to the database, or a group of them that
  reads one state, or the step that turns what was read into an answer. Each may fail; the
  environment alters the database between any two. Each driver has its own order
  (`PostgresSchema`, `MysqlSchema`, ...).
* **NotifyDispatch**: a send is a coroutine, and a step of it ends at an await or at a
  check-out, which blocks the loop; no coroutine moves while `loop` is set. Creations run
  in threads.
* **Gateway**: the Lua script is one action (Redis runs it alone), its answer another.

### Abstractions

* A record, event or usage record is a model value; parsing is whether it belongs to
  `Events` or to `Poison`.
* One topic partition: members that do not own it are idle; ordering across partitions is
  not promised by the code.
* Back-off delays and batch age are left out: time passes at any moment. The router and
  the gateway have clocks, because cool-offs and budgets are about them.
* `KafkaTransport._consume` commits through `record.topic_partition`
  (`kafka_transport.py:234`), an attribute the test double defines; the model takes the
  commit to be of the record's own partition, as in the tests. The Kafka client itself is
  external.
* The candidates of every request of `AgentRouter` are all its `Providers`, and prices are
  a strict order (`Rank`), as `_sort_key` breaks ties by name; `AgentGateway` assumes both
  of its catalogue (`GatewayAssumption`), and lets providers fail to list the resolved
  model.
* A session is named after the call that issued it, and its refresh token stands for it:
  Argon2 matching is equality. Other rows, too, bear the name of the call that inserted
  them, and a tenant of `IamAccess` stands for its administrator and admin role.
* A cipher is the pair of what it is bound to and its plain text. `name` and `enabled`
  stand for the columns of a datasource: the one that is unique and the ones that are not.
* A schema is a model value for `SchemaSync`, where only order and fingerprint count, and
  a set of table/column pairs for `LiveReads`. What looks like PII is a constant there.
* A locale is a sequence of subtags with the separator they were written with, because the
  code treats "en-US" and "en_US" differently. Rendered text is left out.
* A path of `Gateway` is the sequence of its segments; a token is the claims in it. The
  claims that name an identity are sequences of characters, because the key of a bucket is
  their concatenation with a colon (`Spelling`).
* Tokens of `Gateway` are counted in shares of which `PerSecond` make one, so that refills
  are exact. The script computes with doubles, whose errors are far less than a share: all
  they can change is whether a token that is just complete is enough. The flag `short` of a
  bucket says that its number is a little less, and may be set at any refill but one of whole
  seconds on whole tokens (`Rounded`). A number that is a little more buys nothing, since a
  token that is not complete lacks a share.
* The clock of `SchemaSync` is one for all replicas and strictly grows. `refreshed_at` is
  `datetime.now` of the host that runs the refresh (schema_service.py:570), so the model
  assumes that the clocks of the hosts agree; see §5.
* The answer of the language model in `LiveReads` is any set of columns that can be named
  (`Parsed`), whether they were ever there or not. The list of suggestions in the code bears
  no table; the model keeps with each entry the table it was made for.
* History variables (`handled`, `dropped`, `attempted`, `tried`, `skipped`, `epoch`,
  `born`, `crossed`, `stale`, `spent`, `ever`, `always`, `before`, and the fields `held`
  and `ever` of `LiveReads`) are never read by a guard.
* Definitions named `X_...` after an operator `X`, commented "Mutant of X", are plausible
  bugs of the code behind `X`. No specification uses them; each one, put in the place of
  `X`, makes a property of a run fail, which shows that the property depends on that code.

## 3. Properties, runs and bounds

`CHECK_DEADLOCK FALSE` everywhere, because every instance stops: the log is full, the
calls are made, the fault budget is spent.

| run | asks | bounds |
|---|---|---|
| `consumer` | at-least-once, gaps, retry headers, refinement of `AtLeastOnce`, progress | 2 members, 3 records (good or poison), 2 attempts, fetches of up to 2, 2 faults |
| `audit` | tables agree, committed events accounted for, progress | 2 processes, batch of 2, one orphan and one security event, each possibly twice on the topic, 2 faults, 1 database failure |
| `bus` | what publish-and-consume together promise | 2 publish calls with 1 retry, 1 member, 1 record of another producer, 1 fault |
| `chat` | breakers, failover, billing through a shutdown | 3 providers, 3 requests (by task, by model, streamed by model), threshold 2, cool-off 1, 2 clock readings, queue of 1 |
| `iam` | rotation, revocation, reset, lock order | 3 calls of any kind |
| `iam_access` | tenants, the two paths of authorisation, stale answers, double bindings | 3 calls from a menu, 2 tenants, 1 member |
| `datasources` | audit trail, events, credentials, tenants | 3 calls (2 of one tenant, 1 of another), 2 names, 1 earlier row |
| `schema_sync` | snapshots and jobs | 3 runs (2 jobs of one replica, 1 refresh of another), 3 schemas with 2 fingerprints, crashes |
| `live_reads` | connections, truth of answers | 7 kinds of datasource, 2 calls, 2 tables, 2 columns (one of PII), 4 contents, 1 alteration |
| `notify` | logs, deliveries, knots of pool and loop | 3 sends with up to 2 attempts, 2 creations of the same template, pool of 2 |
| `gateway` | token buckets | 3 requests of 3 identities, 2 of which share a key; 2 tokens a second, bucket of 2, half-second ticks, 5 clock readings, clock set back by 1 and caught up, 1 repeated script |
| `gateway_login` | one claim of the README that the code does not keep | 1 request |

Why these are enough:

* *Event bus, audit.* Two members are what a rebalance needs, and a third could only
  repeat what the second does to the first; three records give a fetch of two with a
  record behind it; two faults give a crash in the recovery from another. Two processes
  flushing an event twice each is what the database can tell apart; a batch of two is the
  smallest that is not always full.
* *Chat.* Two requests open a breaker while the third, whose chain was computed before,
  fails over to it; half-open needs one cool-off, hence two clock readings. The request by
  task resolves to a model that only the cheapest provider lists. A queue of one is full
  with a record in the worker's hands after two of three answers, also when the sentinel
  comes.
* *IAM.* A login or refresh that crosses a reset, with a call to exploit what survives, is
  three calls; two resets and a login are what a lock cycle needs. (With four calls the
  `iam` run has 2.9 million states and passes as well; it is not kept because of its
  length.) Of bindings: two that race and one that sweeps or looks; the menu has every
  operation, each beside those it can disturb, and a second tenant to leak into.
* *Datasources.* A rename and a creation race for a name, an update and a deletion for a
  row, two updates for a field, while a call of another tenant tries the same ids. A fourth
  call could only lose to the same checks.
* *Schema sync.* Three runs are the least with which a DELETE waits for a transaction and
  misses the row of a third; two fingerprints of three schemas have a change that the
  fingerprint does not show.
* *Live reads.* One alteration falls between any two statements; two tables make a partial
  introspection, and a dropped table next to an altered one. Two calls are one that writes
  the snapshot or visits the database, and one that reads the snapshot, possibly taken
  earlier.
* *Notify.* Two sends that hold the pool of two and a third call that blocks the loop make
  the knot that only `pool_timeout` undoes; two attempts make the pause between them.
* *Gateway.* Two requests of an identity and a repeated script are one more than a bucket
  holds. Five clock readings let a bucket refill in part, refill whole, and expire, before
  and after the clock is set back; half a second is the least that gains part of what a
  second does. Users "b:c" of tenant "a" and "c" of tenant "a:b" have the same key; user "c"
  of tenant "a" has one of its own.

### What the passing runs show

* **`CommittedSettled`, `NoGapBehindPosition`, `ImplementsDelivery`** — with
  `auto_offset_reset = "earliest"` the group keeps the at-least-once promise through
  crashes, rebalances, refused commits and failed forwards. The refinement maps `settled`
  to the offsets handled or dead-lettered and `acked` to the committed offset (0 while
  there is none). The committed offset may go *back* (a member that regains the partition
  commits records it still holds): the abstract specification allows this, see §5.
* **`DeadLetterJustified`** — the retry count in a dead letter is 0 for a record that does
  not parse and exactly `max_retries` otherwise.
* **`EventuallySettled`, `EventuallyDurable`, `PublishedIsSettled`** — progress, up to the
  ways the code really stops: every consume task dead, or (audit) a flusher that died.
* **`TablesAgree`** — whatever processes interleave, `audit_payloads` mirrors
  `audit_events`, and `security_events` is exactly its security part.
* **`CommittedAccountedFor`** — a committed event is durable, in some batch, or was lost
  by one of four steps: crash, start over an undrained batch, failed final flush,
  roll-back on a security conflict.
* **`CopiesBounded`, `PublishedNotLost`** — retries may duplicate an event, but it is on
  the topic at most `max_retries + 1` times; and from the return of `publish_event` on it is
  not lost between the services.
* **`BreakerConsistent`, `NoCallDuringCooldown`, `FailedOnlyWhenExhausted`** — the
  breaker's fields agree under late outcomes; a stale failover chain never leads to a
  provider that is cooling off; a request gives up on failover only after trying or
  finding open every provider.
* **`UsageReachesSink`, `MeteredIsWritten`** — the usage of an answered call is on its way
  to the sink, and has been there when the gateway has stopped, in whatever order the
  usage block and the `finish_reason` came; only a full queue or a client that leaves may
  lose it. What is metered is written in the end, although `stop()` may never return (§5).
* **`RotationAtomic`, `TokenSpentOnce`, `SurvivorsOverlapped`, `CallsEnd`** (iam) — a
  rotation and its revocation commit together or not at all; two calls that succeed with
  one refresh token overlapped; the sessions that survive a reset all go back to a login or
  refresh that overlapped its bulk UPDATE; no lock cycle.
* **`WithinTenant`, `PathsAgree`** — bindings, tokens and answers name what exists in
  their tenant; the scopes frozen into a token allow what a live check, at that moment,
  would decide.
* **`ViewsCurrent`, `DuplicatesOverlapped`, `UnbindSweeps`** — under READ COMMITTED an
  answer contains what was true all along the call and nothing that was not true at some
  time of it; a user is bound twice by overlapping calls only, and `unbind_role` leaves
  only bindings of calls it overlapped.
* **`AuditAccounts`, `EventsAudited`** — the audit rows account for the present rows without
  any order among them: the value a field has is the one it came to once more often than it
  left it, and a row is deleted if they say so. Not accounted for are a field of which an
  update recorded an old value that another one had replaced, and the silent disabling of a
  deleted row (with `Disputed` taken as false TLC finds the former). An event of a call that
  succeeded is backed by an audit row. Failed calls announce what never happened, and the
  property says that only they do.
* **`CredentialsReadable`, `OwnRowsOnly`** — credentials decrypt under the tenant, id and
  kind of their row through every overlap; no call changes a row of another tenant.
* **`ShownNeverOlder`, `SoloRunIsExact`** — several snapshots may coexist, and an older
  introspection may be stored last, but readers never see an older *row*, nor none again;
  a run that nothing overlaps leaves exactly its own row and tells truly whether it
  changed.
* **`JobsTellTheTruth`, `JobsEnd`** — a finished job stays as it is, and one that
  succeeded tells of a committed snapshot; every job ends or dies with its replica.
* **`OwnConnectionsReturned`, `AnswersTrueToSource`** — whichever statement fails, a call
  gives back the connections it got, three kinds apart (§5). DDL and suggestions name only
  columns the database had at some moment of the introspection, and leave out none it had
  throughout; except that suggestions may name whatever the language model named when it was
  asked about a table that was there.
* **`LogTellsTimeline`, `SentReached`, `CallsEnd`** (notify) — the committed log of a send
  is its whole timeline or nothing; what is logged as sent was delivered, redirects apart;
  every call ends although sends hold the pool while another blocks their loop.
* **`WithinBudget`, `RefusedOverBudget`** — over any period an identity takes no more than
  a full bucket and what it gains while Redis's clock runs, through expiry, lost answers and
  a clock set back; what that clock catches up it runs twice, and gains twice (§5). An
  identity whose key no other has is refused only when its own requests have used up the
  bucket and its refill, or all of it but a token that is just complete and rounded down.
  `WithinBudget` counts the runs of the script: a request let through because Redis did not
  answer is not one, and the code says so.

### Fairness

* `EventConsumer`: weak fairness of each member's progress (start, assignment, fetch,
  handler, commit). A handler returns or raises after a finite time, the coordinator
  assigns a free partition, the orchestrator restarts a stopped process. A dead task is
  *not* restarted: nothing in `main.py` does.
* `AuditConsumer`: the same, and the event loop runs the flusher and the steps of a flush.
  Which of its outcomes a flush has is not subject to fairness.
* `EventBus`: `publish_event` calls run to their end, and the above.
* `IamSessions`: a call whose next statement can run executes it.
* `AgentGateway`: the worker takes and writes records (every sink has a timeout), and
  `stop` returns once the worker has. Requests are not assumed to end: a stream has no
  limit of its own.
* `SchemaSync`: a task that was added is run, and a database answers or fails in the end.
  The service sets no limit to an introspection, so `JobsEnd` rests on the database for
  that.
* `NotifyDispatch`: threads and the loop are scheduled, and `pool_timeout` and the time
  limits of the channels pass.
* `Datasources`, `IamAccess`, `LiveReads`, `Gateway` have no liveness property: nothing
  waits for a call in them, locks apart, and the statements of a connector have no time
  limit.

## 4. Proofs

`tlapm` checks each module below to the last leaf. Assumptions are the named `ASSUME`s of
the modules (sets disjoint, `MaxRetries` and `MaxPoll` positive, ...); the bounds
`MaxLog`, `MaxFaults` and `MaxTime` are arbitrary naturals, and nothing is assumed finite.
Each module first proves that its state stays well formed: the type invariant
(`TypeCorrect`), or an inductive invariant that has the types among its conjuncts, on which
the other theorems rest.

**`EventFlow_proofs`, the group.** `TypeCorrect` needs one more fact than `TypeOK`: a task
that is busy holds one of the records it fetched (`BusyInBatch`). `DeadLettersJustified`
adds that a task that is forwarding either holds a record that does not parse with a count
of 0 or has spent its budget. `AtLeastOnceDelivery` and `NoGaps` share an inductive
invariant (for `OffsetReset = "earliest"`; with `"latest"` they are false, see §5).
`CommittedSettled` alone is not inductive, because `Commit` writes `cur + 1`: one has to
know that everything a member has already passed, below `cur`, is settled, that what lies
between `cur` and `position` is what it holds, and that a task that is committing has
settled `cur`; an assignment re-establishes this because `StartPosition` is the committed
offset. `Refinement` proves that every step is a step of `AtLeastOnce` or leaves `log`,
`settled` and `acked` unchanged: the only steps that move `acked` are commits, whose
prefix the invariant shows settled.

**`EventFlow_proofs`, the bus** (`CopiesBounded`; `PublishedNotLost` for `OffsetReset =
"earliest"`). A step of the bus is one of a member, or appends a record, or leaves topic and
group alone (`StepKinds`). `EventBus` extends `EventConsumer`, so what is proved of a
member's steps is cited as it stands; the appends of a publisher are not steps of the group,
since a publisher does not stop at `MaxLog`, and `AppendKeeps...` shows that a longer log
disturbs nothing the group relies on. `ReturnedStored` adds that a call that returned has
stored its event on the topic or among the dead letters, and `CopiesKept` that a dead letter
of the group holds the record it names. `CopiesBounded` needs `AttemptsLeft`: a call that
may still send has at most one copy on the topic for each failed attempt, and no more of
these than `MaxPublishRetries`; an append makes one more copy of its record and of no other
(`AppendCopies`).

**`EventFlow_proofs`, the audit processes** (`TablesAgree`; `CommittedAccountedFor` and
the refinement `AuditImplementsDelivery` for `OffsetReset = "earliest"`). Behind its batches
and tables, the audit consumer is a consumer group (`BehaviourOfGroup`), so what is proved
of the group holds here: the processes implement `AtLeastOnce`, and a committed event is
settled. What is left is about the audit service alone: an event whose handler call has
returned stays in a table, in a batch, or among those lost by one of the four named steps
(`HandledAccounted`), for which a flush in progress relies on the rows its SELECT found
(`FlushSound`). `TablesAgree` does not need the group: it is inductive.

**`AgentGateway_proofs`, the router.** The three properties of the router that the `chat`
run checks, and `ChainWalkedByPrice` (`CheapestFirst`: a chain is walked from the cheapest
to the dearest and no provider is called twice), for any set of providers and requests,
finite or not. The invariant adds `ChainInv`: a request in flight has called a provider, and
while it may still fail over, the providers it has called, the ones it found open and the
rest of its chain are all the providers there are, and the rest is dearer than anything
called. `BreakerConsistent` is inductive given types; it is the reason for two lemmas on
what recording a failure or success does to a breaker. That the head of a chain exists
(`CheapestIsLeast`) rests on the well-foundedness of < on the naturals, since prices are
ranks.

**`AgentGateway_proofs`, the whole chat path.** A step of the gateway is, for the router's
variables, a step of the router, one that only names the provider to be billed, or none
(`GatewayStepsRouter`); so what is proved of the router holds of the gateway. `UsageNotLost`
(`UsageReachesSink`) relates four things that change one at a time: `WireInv` says that the
last chunk of an answer carries the usage if there was one, and that `[DONE]` comes after
it; `LifespanInv` that only a serving gateway has requests under way; `WorkerInv` that there
is a worker from the start to the end of `stop()`, that it returns with an empty queue, and
that nothing is behind the sentinel. Hence no usage is put into a queue that nobody empties.
Assumed is that the sentinel is no record (`_SHUTDOWN_SENTINEL` is an object of its own).

**`IamSessions_proofs`.** The three safety properties of the `iam` run, for any number of
calls. `StageInv` ties stages to kinds of call, `LockInv` says that a rotation holds the
lock of its own row only. `SpendingInv` adds to `TokenSpentOnce` that a call still using a
token another one has spent is on record as its rival: it found the session active before
the other committed, as it can no longer be found. `SurvivorsOverlapped` is not inductive:
when a bulk revocation commits, one must know that every active session has crossed it, or
is locked by it (`BulkInv`), and that a call about to issue an old session has crossed too
(`IssuersCrossed`). A refresh that holds a row and then rolls back is why "locked by it" has
to be established after a wait, row by row.

**`IamAccess_proofs`.** The five properties of the `iam_access` run, for any number of
calls, tenants and members, from one invariant, `AccessInv`. `TablesInv` says that all rows
but the first bear the names of calls that are done, and that every tenant has its role
"admin" with the wildcard; `RowsInv` that bindings and tokens stay in a tenant and that the
code "admin" goes with the wildcard. `FoundInv` is about time: what a call has looked up is
still so when it commits, because rows are added and keep their tenant (`Grow`). `RaceInv`
is about who overlaps whom: when `bind_role` has passed its pre-check, every other binding
of the pair is due to a call that had not ended when it began; when an `unbind_role` has
marked its rows, those that it missed are. `ViewInv` ties the history of a call to what it
would see now, between `always` and `ever`. `PathsAgree` depends on the unique key of roles:
`Insert` refuses a second "admin" because the first was there when its tenant was
(`LookUpKeeps`). Steps that only read, or that write nothing another call sees, are dealt
with at once (`QuietStep`), and so are commits (`CommitKeeps`). Assumed are that ids are
unique over the tables (`AccessAssumption`) and the shape of requests, which pydantic has
validated (`RequestAssumption`).

**`Datasources_proofs`** (`CredentialsReadable`, `OwnRowsOnly`). `TenancyInv` says that
the rows of the table decrypt under their own tenant, id and kind, and `AtWork` that a call
that is past its look-up has found its row and is of the row's tenant. The look-up may be
long ago: the fact stays true because no step removes a row or changes its tenant, and a
row that is being created is in nobody's reach before its commit. What the flush writes
(`FlushedRow`, `DeletedRow`) merges two versions of a row that agree on what the cipher is
bound to.

**`Datasources_proofs`, the trail** (`AuditAccounts`, `EventsAudited`). `TrailInv` is the
account itself, together with the fact that a row that does not exist yet has no audit
rows. It is inductive with two more: a call writes one audit row, with its commit
(`OneRowEach`), so that each adds one to the sums (`OneMore`); and what an update has
loaded of a field is what is there, or another update has overtaken it, or the row is
deleted (`LoadedInv`, `FieldsChange`). A step then adds the same to both sides of the sum
of the field it writes (`BalanceKept`) and nothing to any other (`OtherBalanceKept`).
`EventInv` ties an event to its call: an event of a call at work is
about the row the call is about, so the commit that ends it with success writes the audit
row that backs it; a policy call has committed before it publishes (`CommitsFirst`).

**`Schemas_proofs`, the snapshots** (`ShownNeverOlder`, `SoloRunIsExact`,
`JobsTellTheTruth`). The commit deletes the rows its DELETE saw and inserts one; readers see
the newest. The row inserted gets its stamp after the DELETE has ended, so it is newer than
all that are deleted (`SeenOlder`): hence the newest row is replaced by a newer one or
stays, and there is a newest row again (`CommitTables`). `SoloExact` keeps what a run has
read true for as long as the audit table, which every commit makes longer, has the length it
had when the run began; for all other runs a commit makes it vacuous. `Honest` ties a report
to an audit row that was committed before.

**`Schemas_proofs`, the reads** (`OwnConnectionsReturned`, `AnswersTrueToSource`), for every
driver, number of calls and content of the database. `LiveInv` says that a call has at most
one connection of its own, and only while it queries (`OwnInv`), and follows a column from
the database to the answer. While an introspection queries, the columns that were there at
every moment of it (`held`) are in the database now, and what is there now is in `ever`. A
table is still to do, or all its columns of `held` have been read; so at the end `held` is
part of what is stored (`IntrospectInv`, `Faithful`), except for MongoDB, which stores what
its samples showed. An alteration keeps this because it takes from `held` and adds to
`ever`. A suggestion owes each of those columns an answer until its table has been
classified (`Settled`); with no table left, the answer is what it should be. What it names
beyond the columns that were there is of a table the language model was asked about. The
drivers share their lemmas as they share their steps: list the tables, read some columns
(`CollectKeeps`), close (`CloseKeeps`). `AlterKeeps` is about the environment.

**`NotifyDispatch_proofs`** (`LogTellsTimeline`, `SentReached`). The journal of a send at
work holds its attempts so far, numbered and to be retried, fewer than its budget
(`JournalInv`); its recipient got the message no more often than that (`ReceivedInv`), and
at least once if the latest answer says so (`ReplyInv`). The commit turns the journal and
one more row into the log; failures and crashes empty the journal and leave what was
received. The proof shows for each step that it keeps this of the send it moves
(`...Send`), and once that it writes nothing of another (`OthersKept`).

**`Gateway_proofs`** (`WithinBudget`, `RefusedOverBudget`, `KeysApart`), for every rate,
burst and number of replicas. Neither property is inductive. `NeverAbove`: since any of its
runs, what an identity has taken together with what its bucket would hold now is at most a
full bucket and what it gained while Redis's clock ran, catching up included (`Ran`); a run
takes one cost off the second term and adds it to the first. It needs no key of one's own:
whoever shares the bucket only takes from it. `NeverBelow` does: what a bucket holds after
its last run is at least what a full bucket, with the gain by Redis's clock, would be left
with by the runs since one of them, and more than that if the number stored is short. The
account starts anew only with a run that found the bucket cut off at full. An expired bucket
is a full one, since the time to live suffices to fill it (`Ttl * Rate >= Full`, proved from
the rounding in `ratelimit.go`). A clock that is set back makes a bucket gain less, which
keeps the first and is why the second is by Redis's clock. `KeysApart` says who has a key of
its own: identities whose tenants hold no colon never share one, because the first colon of
the key then ends the tenant. Assumed is that no value of Redis is confused with its
absence, besides the rates of the configuration (`GatewayAssumption`).

Only model-checked: everything under fairness, as liveness is out of the prover's reach
(`MeteredIsWritten` among it).

## 5. Where the code and its documentation differ

One claim is shown false by a run (`findings` in `PROJECT.json`): the gateway's README
says that `/api/v1/auth/login` is served by the IAM service, but the router knows no
prefix "auth" and answers 404 (`gateway_login`).

Others are visible in the models, whose actions follow the code, and have no run of their
own.

*Event bus and audit.*

* consumer.py:6-8 promises re-delivery after a crash; with the default
  `auto_offset_reset="latest"` a group that has committed nothing restarts at the end, and
  the record being handled is lost (`StartPosition`).
* `consume_events` "runs until cancelled" (consumer.py:226), but dies of a failed
  dead-letter forward or a refused commit (`ForwardFails`, `CommitRefused`).
* The committed offset can go back after a partition is lost and regained (`Commit` after
  `Rebalance`), against consumer.py:343-344.
* A transport that cannot be started makes `publish_event` raise without a dead letter
  (`StartTransportFails`), against producer.py:113-115.
* Audit's consumer.py:16-18 says the batch boundary is the commit boundary; offsets are
  committed as envelopes are buffered.
* "Every `audit.*` topic" (consumer.py:4) is one topic: the first of `AIDP_AUDIT_TOPICS`,
  or else "audit" (consumer.py:717). IAM publishes to "iam.audit" and the datasource
  service to "datasource.events.v1"; by default no audit process reads either.
  `AuditConsumer` is about the topic it does read.
* A conflict on `security_events` rolls back the audit and payload rows of the whole
  batch, and the batch is cleared (consumer.py:508).
* A timed flush that raises ends the flusher for good (`TimedFlushRaises`): later partial
  batches are neither flushed by age nor drained on exit (consumer.py:636).

*Agent gateway.*

* A failed half-open probe does not re-open the breaker, half-open providers are not put
  last, a late success ends a cool-off, a stream counts as two successes, an answer
  without a terminal chunk does not fail over, and a client's 4xx counts against the
  provider (`RecordFailure`, `Route`, `RecordSuccess`, `StreamEnds`, `Truncate`, `Reject`;
  router.py:17-22, 261-264, 347-349).
* After a failover the response and the usage record name the primary (schemas.py:92-93).
* A request by tier or task is given the default model of the cheapest provider, and
  failover sends that model to providers that do not list it, which refuse it
  (`UpstreamRefuses`): with the default catalogue, where no model is shared, failover
  within a tier cannot succeed (router.py:10-13). `DefaultModel` compares input prices and
  `SortKey` output prices.
* `_stream_chat` sends usage only with a chunk that follows it; an upstream that puts its
  usage last and sends no `finish_reason` is not metered (`Carried`).
* `stop()` on a full queue loses the sentinel, and waits for a worker that waits for more
  (metering.py:366-372).

*IAM.*

* Two refreshes of a token can both succeed (`MarkOld`), where auth_service.py:796-798 has
  the second one fail: it does if it looks the session up after the first has committed, as
  `TokenSpentOnce` says, but not if it only waits for the row, which it updates by key.
* A password reset does leave a window (user_service.py:605-606): `SurvivorsOverlapped`
  says exactly which sessions get through.
* `bind_role` answers with "freshly refreshed roles and scopes", but reads the scopes
  through another session, which does not see the binding just made.
* "At most one binding" per user, role and scope (models.py:392) does not hold of two
  racing calls, as the unique constraint does not apply to NULL scopes; hence
  `DuplicatesOverlapped`.
* The permission check ignores the status of the user, and nothing that issues a token
  looks at `expires_at` of a binding (nothing sets it either). `list_users` counts the
  users of all tenants (user_service.py:358).

*Datasource.*

* Update and soft-delete publish their event before the flush that may fail (`Publish`
  before `CommitUpdate`); a policy's event comes after the commit and may be lost.
* `connection_tests` and `datasource_audits` store no time: models.py:300 describes a
  `created_at` the class does not have, and the rows have random ids. The changes of a
  datasource can be summed up (`AuditAccounts`) but not put in order, so that "replay"
  (models.py:361-365) has to mean a single row. The migration gives both tables a
  `created_at` that is NOT NULL and has no default (0001_initial.py:202, 256), which no
  insert of the service supplies: on a migrated database those inserts fail, and with them
  every call that records something. The model is of the tables as the ORM declares them
  and the tests create them.
* An update can re-enable a deleted row; a deleted row keeps its name for ever; reads do
  not leave deleted rows out.
* Nothing keeps the snapshot of a datasource single, and a slow introspection replaces a
  newer one. Rows are ordered by the clock of the host that wrote them: with clocks that
  disagree, of two rows the one committed later may have the earlier stamp, so that readers
  keep to the other. `ShownNeverOlder` is about hosts whose clocks agree.
* `_parse_pii_response` sees the answer of the language model and not the table, and keeps
  every name in it (pii_service.py:793-836; test_pii_service.py:477-479 keeps an invented
  one), so `suggest_pii` may suggest columns the database never had (`Parsed`).
* Kafka's admin client is opened into a local variable, so that the close at the end finds
  nothing: each probe or listing leaves one open (kafka.py:192; `UseAdmin`). A consumer
  whose `start()` fails is not stopped, as the `try` begins behind it (kafka.py:410-415;
  `OpenFails`). A connection that a thread gets after its `wait_for` has expired is never
  closed (`ThreadFinishes`). These are the connections `OwnConnectionsReturned` is not
  about.
* hive.py treats a failed estimate as none "rather than fail the whole sync", but catches
  only its own error type: what the driver raises fails the introspection.
* A PII-looking value flags every column of the table that no name rule matched
  (`ByRules`); `suggest_pii` answers with nothing when there is no snapshot, where its
  documentation promises an introspection; a MongoDB collection whose sample fails is
  stored without fields (`MongoCollection`).

*Notify and gateway.*

* The log of a send is rolled back with its transaction although messages have gone out
  (models.py:177), and a failed look-up of a channel is not logged (models.py:191). A
  redirect counts as sent, and a lost answer makes a duplicate.
* Templates are looked up by hyphenated prefixes only: one stored under "en_US" is never
  found (`LocalePrefixes`).
* The rate limiter means to withstand a Redis that briefly runs backwards
  (ratelimit.go:68-69). While it is behind, a call writes the lower time (line 85), and when
  it has caught up the same period refills the bucket again: at one token a second and a
  bucket of two that is drained at 5 s, a call that is refused while the clock reads 3 s
  makes two more tokens once it reads 5 s again, in no real time (`CatchUp`; `WithinBudget`
  counts what the clock ran).
* "A noisy user in tenant A must not be able to deplete tenant B's budget"
  (ratelimit.go:168-169) holds of identities whose keys differ. The key joins the claims
  with a colon (line 179), which the claims, never verified, may hold: user "b:c" of tenant
  "a" and user "c" of tenant "a:b" drain one bucket (`Spelling`, `KeysApart`).
* Tokens are doubles (ratelimit.go:72-73): at 100 a second, ten refills of a tenth make
  0.9999999999999999, and a token that is complete is refused (`Rounded`).
* The gateway wants a claim "sub" that IAM's tokens do not have (they have "user_id"), so
  every token IAM issues is answered with 401 (`HasIdentity`). It strips the service's
  prefix from paths that the services serve in full (`Route`), and the order of
  middlewares in ratelimit.go:102-108 is not that of main.go.

## 6. Not modelled, and the plan

1. *Done:* every service has a model: the event bus with the audit pipeline, the chat path
   of the agent gateway, IAM's sessions and access control, the datasource registry,
   snapshots and live reads, notifications, the gateway; every safety property of a run
   is a theorem (§4).
2. A specification that composes `IamAccess` and `Gateway` (a token revoked at IAM and
   still accepted at the gateway until it expires) needs a clock in both; they meet, for
   now, in the claims of a token.

Left out of the modelled parts, and why:

* *Event publishing from datasource handlers.* Each publish runs an event loop of its own
  while the shared producer belongs to the first (policies.py:456): whether the client
  library then works is the library's business; the model takes a publish to succeed or
  fail.
* *Connectors.* Keys, indexes, row estimates and the parsing of topic schemas: they are
  stored with the tables, and no answer of the service but a plain copy depends on them.
  The gRPC server is one read and one decryption.
* *Providers.* The arithmetic of costs, the keys per tenant (which no call reads) and
  `unregister` (which nothing calls). *Metering.* `drain()` and the schemas of the sinks.
* *IAM.* `revoke_all_sessions_for_user`, which nothing calls, and the audit events, which
  are published after the call and whose failure is logged.
* *Notify.* Rendered text, the building of messages, HTTP and SMTP.
* *Gateway.* Tracing, configuration, start-up.

Left out for good: the MCP server and its tools (stateless, over a stub), the audit query
API and its encryption, JWT encoding, hashing, configuration, logging, migrations, the web
front end and the command-line tools: I/O or stateless computation.
