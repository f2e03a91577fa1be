----------------------------- MODULE LiveReads -----------------------------
(***************************************************************************)
(* What the datasource service reads from a registered database, and what  *)
(* it answers from it: the connection test, the introspection behind a     *)
(* schema refresh, the table preview, the DDL and the PII suggestions      *)
(* drawn from the stored snapshot, and Kafka's topics (connectors/*.py,    *)
(* schema_service.py, pii_service.py, api/schemas.py, api/policies.py).    *)
(* A connector opens a connection for each operation and closes it when    *)
(* the operation ends; the database is altered by others meanwhile.        *)
(* Whose datasource it is, and how snapshots race, is the business of      *)
(* Datasources and SchemaSync: here a snapshot replaces the earlier one.   *)
(***************************************************************************)
EXTENDS Naturals

CONSTANTS
  Calls,       \* calls of the service
  Menu,        \* the operations each call may be of
  Tables,      \* tables, collections or topics
  Columns,     \* names of columns, those a model makes up included
  PiiColumns,  \* those one of _PII_NAME_PATTERNS matches
  Shapes,      \* what the database may hold: sets of <<table, column>>
  Kinds,       \* kinds of datasource considered
  MaxAlters,   \* bound on the changes others make to the database
  Nothing

Threaded == {"hive", "mongodb", "doris"}  \* drivers called through to_thread

Operations ==
  {"test", "preview", "refresh", "ddl", "suggest", "list_topics", "topic_schema"}

ASSUME LiveReadsAssumption ==
  /\ PiiColumns \subseteq Columns
  /\ Shapes \subseteq SUBSET (Tables \X Columns)
  /\ Kinds \subseteq Threaded \cup {"postgresql", "mysql", "oracle", "kafka"}
  /\ MaxAlters \in Nat
  /\ Menu \in [Calls -> SUBSET Operations]
  /\ Nothing \notin Operations \cup {"ok"}

VARIABLES
  datasource,  \* its kind, and whether its connection names a database
  source,      \* the columns the database has now
  alters,      \* changes made so far
  snapshot,    \* the newest row of datasource_schemas
  calls,       \* what each call is doing, and what it has read
  conns,       \* connections open at the database
  abandoned    \* connections that given-up threads are still opening

liveVars == <<datasource, source, alters, snapshot, calls, conns, abandoned>>

(* get_schema: Kafka has none, the others need a database unless they have *)
(* a default one.                                                          *)
CanIntrospect ==
  CASE datasource.kind = "kafka" -> FALSE
    [] datasource.kind \in {"hive", "oracle"} -> TRUE
    [] OTHER -> datasource.database

TablesOf(pairs) == {pair[1] : pair \in pairs}
Within(pairs, tables) == {pair \in pairs : pair[1] \in tables}

(* A call.  "held" and "ever" are kept for the properties: the columns the *)
(* database had at every moment, and at some moment, of an introspection.  *)
Idle ==
  [op |-> Nothing, stage |-> "idle", out |-> Nothing, table |-> Nothing,
   todo |-> {}, tables |-> {}, columns |-> {}, held |-> {}, ever |-> {},
   snapshot |-> Nothing, asked |-> {}, sampling |-> FALSE, client |-> "rules",
   sample |-> "empty", flagged |-> {}, judged |-> {}]

Snapshot(tables, columns, held, ever) ==
  [tables |-> tables, columns |-> columns, held |-> held, ever |-> ever]

(* There may be a snapshot already, taken before anybody altered the       *)
(* database; Kafka has none.                                               *)
Earlier ==
  {Nothing} \cup
  (IF CanIntrospect THEN {Snapshot(TablesOf(source), source, source, source)} ELSE {})

LiveInit ==
  /\ datasource \in [kind : Kinds, database : BOOLEAN]
  /\ source \in Shapes
  /\ alters = 0
  /\ snapshot \in Earlier
  /\ calls = [c \in Calls |-> Idle]
  /\ conns = {}
  /\ abandoned = {}

(* Fields of a call are set, the others stay.                              *)
Update(c, fields) ==
  calls' = [calls EXCEPT ![c] =
              [f \in DOMAIN @ |-> IF f \in DOMAIN fields THEN fields[f] ELSE @[f]]]

At(c, op, stage) == calls[c].op = op /\ calls[c].stage = stage

Begin(c, fields) ==
  /\ calls[c] = Idle
  /\ fields.op \in Menu[c]
  /\ Update(c, fields)

Unsaid == <<datasource, source, alters, snapshot>>

(* Somebody creates, alters or drops tables of the database.               *)
Alter ==
  /\ alters < MaxAlters
  /\ \E shape \in Shapes \ {source} :
       /\ source' = shape
       /\ calls' = [c \in Calls |->
            [calls[c] EXCEPT !.held = @ \cap shape,
                             !.ever = IF At(c, "refresh", "query") THEN @ \cup shape ELSE @]]
  /\ alters' = alters + 1
  /\ UNCHANGED <<datasource, snapshot, conns, abandoned>>

-----------------------------------------------------------------------------
(* Opening and closing a connection.  A connection is <<call, table, how>>:*)
(* the call's own, a Kafka admin client, a Kafka consumer that did not     *)
(* start, or one a thread opened too late.                                 *)

Connection(c, how) == <<c, calls[c].table, how>>

(* The call is over: what it read on the way is forgotten, except what its *)
(* answer is made of.                                                      *)
Finish(c, out) ==
  Update(c, [stage |-> "ended", out |-> out, table |-> Nothing, todo |-> {},
             tables |-> {}, columns |-> {}, held |-> {}, ever |-> {},
             sampling |-> FALSE, sample |-> "empty"])

(* Mutant of GiveUp: a table without a sample is skipped.                  *)
GiveUp_Skips(c) ==
  IF calls[c].op = "suggest" THEN Update(c, [stage |-> "next", sample |-> "empty"])
  ELSE Finish(c, "failed")

(* A connector's operation raised: suggest_pii goes on without a sample,   *)
(* every other caller fails (test answers ok = False).                     *)
GiveUp(c) ==
  IF calls[c].op = "suggest" THEN Update(c, [stage |-> "classify", sample |-> "empty"])
  ELSE Finish(c, "failed")

OpenSucceeds(c) ==
  /\ calls[c].stage = "open"
  /\ conns' = conns \cup {Connection(c, "own")}
  /\ Update(c, IF calls[c].op = "refresh"
                 THEN [stage |-> "query", held |-> source, ever |-> source]
                 ELSE [stage |-> "query"])
  /\ UNCHANGED <<Unsaid, abandoned>>

(* A consumer is started before the try whose finally stops it.            *)
OpenFails(c) ==
  /\ calls[c].stage \in {"open", "admin"}
  /\ \/ UNCHANGED conns
     \/ calls[c].op = "topic_schema" /\ conns' = conns \cup {Connection(c, "unstarted")}
  /\ GiveUp(c)
  /\ UNCHANGED <<Unsaid, abandoned>>

(* wait_for: an asynchronous driver's attempt is cancelled, a thread goes  *)
(* on.  Kafka's clients are started without a time limit.                  *)
OpenTimesOut(c) ==
  /\ calls[c].stage = "open"
  /\ datasource.kind # "kafka"
  /\ abandoned' = abandoned \cup
       (IF datasource.kind \in Threaded THEN {Connection(c, "late")} ELSE {})
  /\ GiveUp(c)
  /\ UNCHANGED <<Unsaid, conns>>

(* The abandoned thread gets its connection, which nobody will close, or   *)
(* an error.                                                               *)
ThreadFinishes ==
  /\ \E connection \in abandoned :
       /\ abandoned' = abandoned \ {connection}
       /\ \/ conns' = conns \cup {connection}
          \/ UNCHANGED conns
  /\ UNCHANGED <<Unsaid, calls>>

(* The finally block; "result" is Nothing when the statements failed.      *)
CloseAnd(c, result) ==
  /\ conns' = conns \ {Connection(c, "own")}
  /\ IF result = Nothing THEN GiveUp(c) ELSE Update(c, result)

(* Mutant of StatementFails: the connection is closed on success only.     *)
StatementFails_Leaves(c) ==
  /\ calls[c].stage = "query"
  /\ datasource.kind = "mongodb" /\ calls[c].op = "refresh" => calls[c].tables = {}
  /\ GiveUp(c)
  /\ UNCHANGED <<Unsaid, conns, abandoned>>

(* A statement fails.  MongoDB's inference swallows the failures of its    *)
(* samples and counts; a failing estimate of Hive fails the introspection, *)
(* since only a ConnectorError is taken for "no estimate".                 *)
StatementFails(c) ==
  /\ calls[c].stage = "query"
  /\ datasource.kind = "mongodb" /\ calls[c].op = "refresh" => calls[c].tables = {}
  /\ CloseAnd(c, Nothing)
  /\ UNCHANGED <<Unsaid, abandoned>>

-----------------------------------------------------------------------------
(* Connection test and preview.                                            *)

BeginTest(c) ==
  /\ Begin(c, [op |-> "test",
               stage |-> IF datasource.kind = "kafka" THEN "admin" ELSE "open"])
  /\ UNCHANGED <<Unsaid, conns, abandoned>>

Probe(c) ==
  /\ At(c, "test", "query")
  /\ conns' = conns \ {Connection(c, "own")}
  /\ Finish(c, "ok")
  /\ UNCHANGED <<Unsaid, abandoned>>

(* Kafka cannot preview, MongoDB not without a database: both raise before *)
(* anything is opened.                                                     *)
CanPreview == /\ datasource.kind # "kafka"
              /\ datasource.kind = "mongodb" => datasource.database

BeginPreview(c) ==
  /\ \E table \in Tables :
       Begin(c, [op |-> "preview", table |-> table,
                 stage |-> IF CanPreview THEN "open" ELSE "ended",
                 out |-> IF CanPreview THEN Nothing ELSE "failed"])
  /\ UNCHANGED <<Unsaid, conns, abandoned>>

(* The rows of a sample are told apart by what _match_values makes of them.*)
(* A collection that is not there is empty; a missing table is an error.   *)
Rows(table) ==
  IF table \in TablesOf(source) THEN {"empty", "plain", "pii"}
  ELSE IF datasource.kind = "mongodb" THEN {"empty"} ELSE {}

ReadRows(c) ==
  /\ calls[c].op \in {"preview", "suggest"}
  /\ calls[c].stage = "query"
  /\ \E rows \in Rows(calls[c].table) :
       /\ conns' = conns \ {Connection(c, "own")}
       /\ IF calls[c].op = "preview" THEN Finish(c, "ok")
          ELSE Update(c, [stage |-> "classify", sample |-> rows])
  /\ UNCHANGED <<Unsaid, abandoned>>

-----------------------------------------------------------------------------
(* Introspection: get_schema of each driver, called by refresh_schema and  *)
(* sync_schema.                                                            *)

BeginIntrospection(c) ==
  /\ Begin(c, [op |-> "refresh", stage |-> IF CanIntrospect THEN "open" ELSE "ended",
               out |-> IF CanIntrospect THEN Nothing ELSE "failed"])
  /\ UNCHANGED <<Unsaid, conns, abandoned>>

Reading(c, kind) == At(c, "refresh", "query") /\ datasource.kind = kind

(* The first statement lists the tables; without any, the result is empty. *)
ListTables(c) ==
  /\ calls[c].tables = {}
  /\ IF source = {}
       THEN CloseAnd(c, [stage |-> "store"])
       ELSE /\ Update(c, [tables |-> TablesOf(source), todo |-> TablesOf(source)])
            /\ UNCHANGED conns

(* One statement reads the columns of all the tables listed, which may     *)
(* have changed since.                                                     *)
ReadColumns(c) ==
  /\ calls[c].todo # {}
  /\ Update(c, [todo |-> {}, columns |-> Within(source, calls[c].tables)])
  /\ UNCHANGED conns

(* The keys, the indexes and the row counts, which nothing below tells     *)
(* apart.                                                                  *)
ReadDetails(c) ==
  /\ calls[c].tables # {}
  /\ calls[c].todo = {}
  /\ CloseAnd(c, [stage |-> "store"])

InBatches(c) ==
  /\ ListTables(c) \/ ReadColumns(c) \/ ReadDetails(c)
  /\ UNCHANGED <<Unsaid, abandoned>>

PostgresSchema(c) == Reading(c, "postgresql") /\ InBatches(c)
MysqlSchema(c) == Reading(c, "mysql") /\ InBatches(c)
OracleSchema(c) == Reading(c, "oracle") /\ InBatches(c)

(* Doris runs the same statements on one thread (_collect_introspection).  *)
DorisSchema(c) == Reading(c, "doris") /\ InBatches(c)

(* Mutant of HiveTable: a table that cannot be described is left out.      *)
HiveTable_SkipsFailing(c, table) ==
  \/ Update(c, [todo |-> calls[c].todo \ {table},
                columns |-> calls[c].columns \cup Within(source, {table})])
  \/ Update(c, [todo |-> calls[c].todo \ {table}])

(* DESCRIBE and DESCRIBE FORMATTED of a table that is still there.         *)
HiveTable(c, table) ==
  /\ table \in TablesOf(source)
  /\ Update(c, [todo |-> calls[c].todo \ {table},
                columns |-> calls[c].columns \cup Within(source, {table})])

HiveSchema(c) ==
  /\ Reading(c, "hive")
  /\ \/ ListTables(c)
     \/ \E table \in calls[c].todo : HiveTable(c, table) /\ UNCHANGED conns
     \/ /\ calls[c].tables # {} /\ calls[c].todo = {}
        /\ CloseAnd(c, [stage |-> "store"])
  /\ UNCHANGED <<Unsaid, abandoned>>

(* The fields of the first documents of a collection; none when the sample *)
(* fails or the collection is gone.                                        *)
MongoCollection(c, table) ==
  \E fields \in {Within(source, {table}), {}} :
    Update(c, [todo |-> calls[c].todo \ {table}, columns |-> calls[c].columns \cup fields])

MongoSchema(c) ==
  /\ Reading(c, "mongodb")
  /\ \/ ListTables(c)
     \/ \E table \in calls[c].todo : MongoCollection(c, table) /\ UNCHANGED conns
     \/ /\ calls[c].tables # {} /\ calls[c].todo = {}
        /\ CloseAnd(c, [stage |-> "store"])
  /\ UNCHANGED <<Unsaid, abandoned>>

(* The second transaction of a refresh; it may fail to commit.             *)
Store(c) ==
  /\ At(c, "refresh", "store")
  /\ \/ /\ snapshot' = Snapshot(calls[c].tables, calls[c].columns,
                                 calls[c].held, calls[c].ever)
        /\ Finish(c, "ok")
     \/ UNCHANGED snapshot /\ Finish(c, "failed")
  /\ UNCHANGED <<datasource, source, alters, conns, abandoned>>

-----------------------------------------------------------------------------
(* The DDL of a table, from the snapshot.                                  *)

(* get_table_ddl: no snapshot, or one without the table, is a 404; one     *)
(* without tables renders nothing.                                         *)
RenderDdl(c) ==
  /\ \E table \in Tables :
       LET found == /\ snapshot # Nothing
                    /\ table \in snapshot.tables \/ snapshot.tables = {}
       IN Begin(c, [op |-> "ddl", stage |-> "ended", asked |-> {table},
                    out |-> IF found THEN "ok" ELSE "failed",
                    snapshot |-> IF found THEN snapshot ELSE Nothing,
                    flagged |-> IF found THEN Within(snapshot.columns, {table}) ELSE {}])
  /\ UNCHANGED <<Unsaid, conns, abandoned>>

-----------------------------------------------------------------------------
(* suggest_pii.                                                            *)

(* _filter_tables: no whitelist, or an empty one, is every table.          *)
Wanted(tables, whitelist) == IF whitelist = {} THEN tables ELSE tables \cap whitelist

(* The snapshot is read once; without one there is nothing to suggest.     *)
BeginSuggest(c) ==
  /\ \E whitelist \in SUBSET Tables, sampling \in BOOLEAN, client \in {"rules", "gateway"} :
       Begin(c, [op |-> "suggest", stage |-> "next", client |-> client,
                 sampling |-> sampling, snapshot |-> snapshot,
                 asked |-> Wanted(Tables, whitelist),
                 todo |-> IF snapshot = Nothing THEN {}
                          ELSE Wanted(snapshot.tables, whitelist)])
  /\ UNCHANGED <<Unsaid, conns, abandoned>>

ColumnsOf(c) == Within(calls[c].snapshot.columns, {calls[c].table})

(* A table without columns is not sampled.                                 *)
NextTable(c) ==
  /\ At(c, "suggest", "next")
  /\ \E table \in calls[c].todo :
       Update(c, [table |-> table, todo |-> calls[c].todo \ {table}, sample |-> "empty",
                  stage |-> IF /\ calls[c].sampling
                               /\ Within(calls[c].snapshot.columns, {table}) # {}
                              THEN "open" ELSE "classify"])
  /\ UNCHANGED <<Unsaid, conns, abandoned>>

(* RuleBasedPIIClient: a column is flagged for its name, and every other   *)
(* column as soon as one value of the sample, of any column, looks like PII*)
ByRules(c) ==
  {pair \in ColumnsOf(c) : pair[2] \in PiiColumns \/ calls[c].sample = "pii"}

ClassifyByRules(c) ==
  /\ At(c, "suggest", "classify")
  /\ Update(c, [stage |-> "next", flagged |-> calls[c].flagged \cup ByRules(c)])
  /\ UNCHANGED <<Unsaid, conns, abandoned>>

(* What _parse_pii_response makes of the text of an answer: whatever names *)
(* it has, whether the table has such columns or not, and none of a text   *)
(* that is not a JSON array.  They are kept with the table they were asked *)
(* for.                                                                    *)
Parsed(c) == SUBSET ({calls[c].table} \X Columns)

(* AgentGatewayPIIClient: an answer of another form than a completion      *)
(* fails the call; every error of the request falls back to the rules.     *)
ClassifyByGateway(c) ==
  /\ At(c, "suggest", "classify")
  /\ calls[c].client = "gateway"
  /\ \/ \E named \in Parsed(c) :
          Update(c, [stage |-> "next", flagged |-> calls[c].flagged \cup named,
                     judged |-> calls[c].judged \cup {calls[c].table}])
     \/ Finish(c, "failed")
  /\ UNCHANGED <<Unsaid, conns, abandoned>>

AnswerSuggestions(c) ==
  /\ At(c, "suggest", "next")
  /\ calls[c].todo = {}
  /\ Finish(c, "ok")
  /\ UNCHANGED <<Unsaid, conns, abandoned>>

-----------------------------------------------------------------------------
(* Kafka.                                                                  *)

BeginListTopics(c) ==
  /\ datasource.kind = "kafka"
  /\ Begin(c, [op |-> "list_topics", stage |-> "admin"])
  /\ UNCHANGED <<Unsaid, conns, abandoned>>

(* The admin client is started and asked for the topics.  _close_admin     *)
(* looks for it in self._admin, where nobody has put it: it stays open.    *)
UseAdmin(c) ==
  /\ calls[c].stage = "admin"
  /\ conns' = conns \cup {Connection(c, "admin")}
  /\ \E out \in {"ok", "failed"} : Finish(c, out)
  /\ UNCHANGED <<Unsaid, abandoned>>

BeginTopicSchema(c) ==
  /\ datasource.kind = "kafka"
  /\ \E topic \in Tables, stage \in {"registry", "open"} :
       Begin(c, [op |-> "topic_schema", stage |-> stage, table |-> topic])
  /\ UNCHANGED <<Unsaid, conns, abandoned>>

(* The registry answers, fails, or does not know the subject: then, and    *)
(* without a registry, a consumer takes a sample of the topic.             *)
AskRegistry(c) ==
  /\ At(c, "topic_schema", "registry")
  /\ \/ \E out \in {"ok", "failed"} : Finish(c, out)
     \/ Update(c, [stage |-> "open"])
  /\ UNCHANGED <<Unsaid, conns, abandoned>>

SampleTopic(c) ==
  /\ At(c, "topic_schema", "query")
  /\ conns' = conns \ {Connection(c, "own")}
  /\ Finish(c, "ok")
  /\ UNCHANGED <<Unsaid, abandoned>>

-----------------------------------------------------------------------------
LiveNext ==
  \/ Alter
  \/ ThreadFinishes
  \/ \E c \in Calls :
       \/ OpenSucceeds(c) \/ OpenFails(c) \/ OpenTimesOut(c) \/ StatementFails(c)
       \/ BeginTest(c) \/ Probe(c)
       \/ BeginPreview(c) \/ ReadRows(c)
       \/ BeginIntrospection(c) \/ Store(c)
       \/ PostgresSchema(c) \/ MysqlSchema(c) \/ OracleSchema(c)
       \/ DorisSchema(c) \/ HiveSchema(c) \/ MongoSchema(c)
       \/ RenderDdl(c)
       \/ BeginSuggest(c) \/ NextTable(c) \/ AnswerSuggestions(c)
       \/ ClassifyByRules(c) \/ ClassifyByGateway(c)
       \/ BeginListTopics(c) \/ UseAdmin(c)
       \/ BeginTopicSchema(c) \/ AskRegistry(c) \/ SampleTopic(c)

LiveSpec == LiveInit /\ [][LiveNext]_liveVars

-----------------------------------------------------------------------------
(* Properties.                                                             *)

(* A connection a call got does not outlive the call, whichever statement  *)
(* failed and however many tables it had gone through (base.py: the driver *)
(* opens and closes per operation).  Three kinds of connection do, and are *)
(* not "own": one a thread gets after its wait_for expired, Kafka's admin  *)
(* client, and what a consumer of Kafka has opened before its start failed.*)
OwnConnectionsReturned ==
  \A c \in Calls : calls[c].stage = "ended" =>
    \A connection \in conns : connection[1] = c => connection[3] # "own"

(* The columns an answer names were there at some moment, except those the *)
(* model has named, of a table that was.                                   *)
NamesWhatWas(call) ==
  \A pair \in call.flagged :
    pair \in call.snapshot.ever \/ pair[1] \in call.judged \cap TablesOf(call.snapshot.ever)

(* An answer made from the snapshot is true to the database as it was      *)
(* while that snapshot was taken, whatever was altered during the          *)
(* introspection or since, and whichever samples failed: it names only     *)
(* columns that were there at some moment, unless the model has judged     *)
(* their table, the DDL of a table has every column that was there         *)
(* throughout, and a suggestion names each of those whose name is that of  *)
(* PII unless the model has judged its table.  MongoDB is excepted from    *)
(* the latter two: its failed samples are stored as collections without    *)
(* fields.                                                                 *)
AnswersTrueToSource ==
  \A c \in Calls : calls[c].out = "ok" /\ calls[c].snapshot # Nothing =>
    LET call == calls[c]
        throughout == Within(call.snapshot.held, call.asked)
    IN /\ NamesWhatWas(call)
       /\ datasource.kind # "mongodb" =>
            \A pair \in throughout :
              \/ pair \in call.flagged
              \/ call.op = "suggest" /\ (pair[2] \notin PiiColumns \/ pair[1] \in call.judged)

=============================================================================
