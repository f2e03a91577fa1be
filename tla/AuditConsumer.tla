--------------------------- MODULE AuditConsumer ---------------------------
(***************************************************************************)
(* The audit service's consumer (run_consumer): consume_events drives a    *)
(* handler that only buffers envelopes in an AuditBatch, and the batch is  *)
(* written to the database when it is full, by the handler, or when it is  *)
(* old enough, by a background flusher task.  The members of the consumer  *)
(* group (EventConsumer, which this module extends) are processes that     *)
(* share the database.                                                     *)
(*                                                                         *)
(* flush_batch never suspends, so within its process it is atomic: no      *)
(* other task of the process runs between its SELECT and its COMMIT.       *)
(* Transactions of other processes do run in between.                      *)
(***************************************************************************)
EXTENDS EventConsumer

CONSTANTS
  SecurityEvents,  \* envelopes whose event_type is in SECURITY_EVENT_TYPES
  Orphans,         \* envelopes whose tenant has no row in the tenants table
  FlushBatchSize,  \* flush_batch_size
  MaxDbFailures    \* bound: flush_batch calls the database fails

ASSUME AuditAssumption ==
  /\ SecurityEvents \subseteq Events
  /\ Orphans \subseteq Events
  /\ FlushBatchSize \in Nat \ {0}
  /\ MaxDbFailures \in Nat

VARIABLES
  batch,         \* AuditBatch.envelopes of each process
  flusher,       \* the _enqueue_loop task of each process
  flush,         \* the flush_batch call a process is executing
  auditRows,     \* audit_events, by event id
  payloadRows,   \* audit_payloads, by event id
  securityRows,  \* security_events, by audit_event_id
  dropped,       \* history: events a batch lost without storing them
  dbFailures     \* how much of MaxDbFailures is used up

dbVars == <<auditRows, payloadRows, securityRows>>
auditVars == <<vars, batch, flusher, flush, dbVars, dropped, dbFailures>>

Buffered(c) == {batch[c][i] : i \in DOMAIN batch[c]}

(* No flush_batch call in progress: the event loop of the process runs.    *)
NoFlush == [by |-> "nobody", seen |-> {}]
LoopFree(c) == flush[c] = NoFlush

-----------------------------------------------------------------------------
AuditInit ==
  /\ Init
  /\ batch = [c \in Consumers |-> <<>>]
  /\ flusher = [c \in Consumers |-> "done"]
  /\ flush = [c \in Consumers |-> NoFlush]
  /\ auditRows = {}
  /\ payloadRows = {}
  /\ securityRows = {}
  /\ dropped = {}
  /\ dbFailures = 0

(* Start of flush_batch: which of the batch's events have a row already.   *)
BeginFlush(c, who, events) ==
  flush' = [flush EXCEPT ![c] =
              [by |-> who, seen |-> {e \in auditRows : e \in events}]]

(* The batch is given up, and with it the events nobody stored.            *)
DropBatch(c) ==
  /\ batch' = [batch EXCEPT ![c] = <<>>]
  /\ dropped' = dropped \cup (Buffered(c) \ auditRows)

-----------------------------------------------------------------------------
(* The process and its consume loop.                                       *)

(* run_consumer: an empty batch, the flusher task, then consume_events.    *)
StartProcess(c) ==
  /\ flusher[c] # "running"
  /\ \/ Start(c) /\ flusher' = [flusher EXCEPT ![c] = "running"]
     \/ StartFails(c) /\ flusher' = [flusher EXCEPT ![c] = "done"]
  /\ DropBatch(c)
  /\ UNCHANGED <<flush, dbVars, dbFailures>>

(* The steps of consume_events that do not involve the handler; the ones   *)
(* that end the task leave the flusher and the batch to the finally block. *)
ConsumeStep(c) ==
  /\ LoopFree(c)
  /\ \/ Assign(c)
     \/ Rebalance(c)
     \/ Fetch(c)
     \/ Yield(c)
     \/ ForwardToDlq(c)
     \/ ForwardFails(c)
     \/ Commit(c)
     \/ CommitRefused(c)
     \/ CommitFails(c)
     \/ Cancel(c)
  /\ UNCHANGED <<batch, flusher, flush, dbVars, dropped, dbFailures>>

CrashProcess(c) ==
  /\ Crash(c)
  /\ DropBatch(c)
  /\ flusher' = [flusher EXCEPT ![c] = "done"]
  /\ flush' = [flush EXCEPT ![c] = NoFlush]
  /\ UNCHANGED <<dbVars, dbFailures>>

-----------------------------------------------------------------------------
(* _default_handler: buffer the envelope; a full batch is flushed inside   *)
(* the handler call, otherwise the call returns at once.                   *)
HandleEnvelope(c) ==
  LET added == Append(batch[c], log[cur[c] + 1])
  IN /\ LoopFree(c)
     /\ phase[c] = "handling"
     /\ batch' = [batch EXCEPT ![c] = added]
     /\ IF Len(added) < FlushBatchSize
          THEN HandlerReturns(c) /\ UNCHANGED flush
          ELSE /\ BeginFlush(c, "handler", {added[i] : i \in DOMAIN added})
               /\ UNCHANGED vars
     /\ UNCHANGED <<flusher, dbVars, dropped, dbFailures>>

(* Mutant of TimedFlush: the age of the batch is not looked at.            *)
TimedFlush_OnlyFull(c) ==
  /\ LoopFree(c)
  /\ phase[c] \in Running
  /\ flusher[c] = "running"
  /\ Len(batch[c]) >= FlushBatchSize
  /\ BeginFlush(c, "timer", Buffered(c))
  /\ UNCHANGED <<vars, batch, flusher, dbVars, dropped, dbFailures>>

(* _enqueue_loop wakes up and finds the batch old enough, or full.         *)
TimedFlush(c) ==
  /\ LoopFree(c)
  /\ phase[c] \in Running
  /\ flusher[c] = "running"
  /\ batch[c] # <<>>
  /\ BeginFlush(c, "timer", Buffered(c))
  /\ UNCHANGED <<vars, batch, flusher, dbVars, dropped, dbFailures>>

(* The finally block of run_consumer, once consume_events has raised or    *)
(* has been cancelled: cancel the flusher, which drains what is buffered.  *)
Drain(c) ==
  /\ LoopFree(c)
  /\ phase[c] \in {"stopped", "dead"}
  /\ flusher[c] = "running"
  /\ IF batch[c] = <<>>
       THEN flusher' = [flusher EXCEPT ![c] = "done"] /\ UNCHANGED flush
       ELSE BeginFlush(c, "drain", Buffered(c)) /\ UNCHANGED flusher
  /\ UNCHANGED <<vars, batch, dbVars, dropped, dbFailures>>

-----------------------------------------------------------------------------
(* flush_batch.                                                            *)

(* The envelopes the SELECT did not find, and those of them to promote.    *)
Fresh(c) == Buffered(c) \ flush[c].seen
Promoted(c) == Fresh(c) \cap SecurityEvents

(* The session adds one security_events row per fresh list item: a row     *)
(* another process has committed since, or an envelope buffered twice,     *)
(* violates uq_security_events_tenant_event.                               *)
SecurityConflict(c) ==
  \/ Promoted(c) \cap securityRows # {}
  \/ \E i, j \in DOMAIN batch[c] :
       i # j /\ batch[c][i] = batch[c][j] /\ batch[c][i] \in Promoted(c)

(* flush_batch raises UpstreamError: a foreign key no tenants row satisfies *)
(* or a database failure.  Nothing is written.                             *)
FlushRaises(c) ==
  /\ \/ Fresh(c) \cap Orphans # {} /\ UNCHANGED dbFailures
     \/ dbFailures < MaxDbFailures /\ dbFailures' = dbFailures + 1
  /\ flush' = [flush EXCEPT ![c] = NoFlush]
  /\ UNCHANGED dbVars

(* Mutant of FlushReturns: a security conflict rolls back to a savepoint   *)
(* before the third insert, and the other two commit.                      *)
FlushReturns_Savepoint(c) ==
  /\ Fresh(c) \cap Orphans = {}
  /\ auditRows' = auditRows \cup Fresh(c)
  /\ payloadRows' = payloadRows \cup Fresh(c)
  /\ IF SecurityConflict(c)
       THEN UNCHANGED securityRows
       ELSE securityRows' = securityRows \cup Promoted(c)
  /\ batch' = [batch EXCEPT ![c] = <<>>]
  /\ flush' = [flush EXCEPT ![c] = NoFlush]
  /\ UNCHANGED <<dropped, dbFailures>>

(* flush_batch returns and its caller clears the batch.  The three inserts *)
(* commit together, except that a security conflict rolls the session,     *)
(* hence all three of them, back.                                          *)
FlushReturns(c) ==
  /\ Fresh(c) \cap Orphans = {}
  /\ IF SecurityConflict(c)
       THEN DropBatch(c) /\ UNCHANGED dbVars
       ELSE /\ auditRows' = auditRows \cup Fresh(c)
            /\ payloadRows' = payloadRows \cup Fresh(c)
            /\ securityRows' = securityRows \cup Promoted(c)
            /\ batch' = [batch EXCEPT ![c] = <<>>]
            /\ UNCHANGED dropped
  /\ flush' = [flush EXCEPT ![c] = NoFlush]
  /\ UNCHANGED dbFailures

HandlerFlushReturns(c) ==
  /\ flush[c].by = "handler"
  /\ FlushReturns(c)
  /\ HandlerReturns(c)
  /\ UNCHANGED flusher

(* The handler call raises, and consume_events calls it again or gives the *)
(* record up; either way the batch keeps the envelope.                     *)
HandlerFlushRaises(c) ==
  /\ flush[c].by = "handler"
  /\ FlushRaises(c)
  /\ HandlerRaises(c)
  /\ UNCHANGED <<batch, flusher, dropped>>

TimedFlushReturns(c) ==
  /\ flush[c].by = "timer"
  /\ FlushReturns(c)
  /\ UNCHANGED <<vars, flusher>>

(* Mutant of TimedFlushRaises: the batch is cleared in a finally block.    *)
TimedFlushRaises_Clears(c) ==
  /\ flush[c].by = "timer"
  /\ FlushRaises(c)
  /\ flusher' = [flusher EXCEPT ![c] = "died"]
  /\ batch' = [batch EXCEPT ![c] = <<>>]
  /\ UNCHANGED <<vars, dropped>>

(* Nothing in _enqueue_loop catches it: the flusher task ends.             *)
TimedFlushRaises(c) ==
  /\ flush[c].by = "timer"
  /\ FlushRaises(c)
  /\ flusher' = [flusher EXCEPT ![c] = "died"]
  /\ UNCHANGED <<vars, batch, dropped>>

(* The final flush clears the batch whether or not it succeeded.           *)
FinalFlush(c) ==
  /\ flush[c].by = "drain"
  /\ \/ FlushReturns(c)
     \/ FlushRaises(c) /\ DropBatch(c)
  /\ flusher' = [flusher EXCEPT ![c] = "done"]
  /\ UNCHANGED vars

-----------------------------------------------------------------------------
AuditProduce(r) ==
  Produce(r) /\ UNCHANGED <<batch, flusher, flush, dbVars, dropped, dbFailures>>

Process(c) ==
  \/ StartProcess(c)
  \/ ConsumeStep(c)
  \/ CrashProcess(c)
  \/ HandleEnvelope(c)
  \/ HandlerFlushReturns(c)
  \/ HandlerFlushRaises(c)
  \/ TimedFlush(c)
  \/ TimedFlushReturns(c)
  \/ TimedFlushRaises(c)
  \/ Drain(c)
  \/ FinalFlush(c)

AuditNext ==
  \/ \E r \in Records : AuditProduce(r)
  \/ \E c \in Consumers : Process(c)

(* The event loop of a live process runs its ready tasks: the consume      *)
(* task, and the flusher whenever a batch has grown old.                   *)
AuditFairness ==
  \A c \in Consumers :
    /\ WF_auditVars(StartProcess(c))
    /\ WF_auditVars(ConsumeStep(c))
    /\ WF_auditVars(HandleEnvelope(c))
    /\ WF_auditVars(TimedFlush(c))
    /\ WF_auditVars(Drain(c))
    /\ WF_auditVars(\/ HandlerFlushReturns(c) \/ HandlerFlushRaises(c)
               \/ TimedFlushReturns(c) \/ TimedFlushRaises(c)
               \/ FinalFlush(c))

AuditSpec == AuditInit /\ [][AuditNext]_auditVars

FairAuditSpec == AuditSpec /\ AuditFairness

-----------------------------------------------------------------------------
(* The three tables agree, whichever processes flushed the same events in  *)
(* whichever order: every audit event has its payload, and exactly the     *)
(* audit events of a security type are on the security dashboard.          *)
TablesAgree ==
  /\ payloadRows = auditRows
  /\ securityRows = auditRows \cap SecurityEvents

Durable(o) == log[o + 1] \in auditRows \/ \E d \in dlq : d.at = o

(* Every committed record is in the database, on the dead-letter topic or  *)
(* in the batch of a process, or was dropped by one of the four steps that *)
(* drop a batch: a crash, a start over a batch no flusher drained, a final *)
(* flush that raises, a roll-back on a security conflict.  Cancellation,   *)
(* handler retries, rebalances, failed commits and forwards, and failed    *)
(* size-based or timed flushes lose nothing.                               *)
CommittedAccountedFor ==
  \A o \in Offsets : o < committed =>
    \/ Durable(o)
    \/ log[o + 1] \in dropped
    \/ \E c \in Consumers : log[o + 1] \in Buffered(c)

(* Every record is in the database or on the dead-letter topic in the end, *)
(* unless it was dropped, or every consume task of the group has died, or  *)
(* a flusher task has died of a flush that raised.                         *)
EventuallyDurable ==
  \A o \in 0 .. MaxLog - 1 :
    o < Len(log) ~> \/ /\ o < Len(log)
                       /\ Durable(o) \/ log[o + 1] \in dropped
                    \/ \A c \in Consumers : phase[c] = "dead"
                    \/ \E c \in Consumers : flusher[c] = "died"
=============================================================================
