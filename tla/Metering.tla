------------------------------ MODULE Metering -----------------------------
(***************************************************************************)
(* The agent gateway's MeteringDispatcher: request handlers put usage      *)
(* records on a bounded queue without ever waiting, one worker task takes  *)
(* them off and writes them to the sink, and stop() ends the worker with a *)
(* sentinel.  record(), start() and stop() run on the event loop between   *)
(* two suspensions of the worker, which suspends on an empty queue and in  *)
(* every write.                                                            *)
(***************************************************************************)
EXTENDS Integers, Sequences

CONSTANTS
  QueueSize,  \* queue_size
  Sentinel    \* _SHUTDOWN_SENTINEL

VARIABLES
  queue,       \* _queue
  worker,      \* the _worker task: none, getting, writing or returned
  item,        \* the record the worker is writing, or Sentinel
  service,     \* lifespan of the gateway: idle, serving, stopping or stopped
  detached,    \* records written by a task of their own
  dropped,     \* records refused by a full queue
  attempted    \* history: records the worker has handed to the sink

vars == <<queue, worker, item, service, detached, dropped, attempted>>

Init ==
  /\ queue = <<>>
  /\ worker = "none"
  /\ item = Sentinel
  /\ service = "idle"
  /\ detached = {}
  /\ dropped = {}
  /\ attempted = {}

Full == Len(queue) >= QueueSize

-----------------------------------------------------------------------------
(* start() and stop() of the lifespan.                                     *)

Start ==
  /\ service = "idle"
  /\ worker = "none"
  /\ worker' = "getting"
  /\ service' = "serving"
  /\ UNCHANGED <<queue, item, detached, dropped, attempted>>

(* stop() up to its await: the sentinel is not enqueued when the queue is  *)
(* full.                                                                   *)
Stop ==
  /\ service = "serving"
  /\ service' = "stopping"
  /\ queue' = IF Full THEN queue ELSE Append(queue, Sentinel)
  /\ UNCHANGED <<worker, item, detached, dropped, attempted>>

(* The worker task has ended: stop() returns.                              *)
StopReturns ==
  /\ service = "stopping"
  /\ worker = "returned"
  /\ service' = "stopped"
  /\ worker' = "none"
  /\ UNCHANGED <<queue, item, detached, dropped, attempted>>

-----------------------------------------------------------------------------
(* record(): without a worker the write gets a task of its own, a full     *)
(* queue drops the record, and no branch waits.                            *)
Record(r) ==
  /\ \/ /\ worker = "none"
        /\ detached' = detached \cup {r}
        /\ UNCHANGED <<queue, dropped>>
     \/ /\ worker # "none" /\ ~Full
        /\ queue' = Append(queue, r)
        /\ UNCHANGED <<detached, dropped>>
     \/ /\ worker # "none" /\ Full
        /\ dropped' = dropped \cup {r}
        /\ UNCHANGED <<queue, detached>>
  /\ UNCHANGED <<worker, item, service, attempted>>

-----------------------------------------------------------------------------
(* The worker.                                                             *)

Get ==
  /\ worker = "getting"
  /\ queue # <<>>
  /\ queue' = Tail(queue)
  /\ IF Head(queue) = Sentinel
       THEN worker' = "returned" /\ UNCHANGED item
       ELSE worker' = "writing" /\ item' = Head(queue)
  /\ UNCHANGED <<service, detached, dropped, attempted>>

(* A sink is tried once: the ClickHouse one logs what fails and returns,   *)
(* and the worker logs what the others raise.                              *)
Tried(record) == attempted' = attempted \cup {record}

Write ==
  /\ worker = "writing"
  /\ Tried(item)
  /\ worker' = "getting"
  /\ item' = Sentinel
  /\ UNCHANGED <<queue, service, detached, dropped>>

Worker == Get \/ Write
=============================================================================
