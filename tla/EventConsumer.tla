--------------------------- MODULE EventConsumer ---------------------------
(***************************************************************************)
(* consume_events of aidp_events, running over the Kafka transport: the    *)
(* processes of one consumer group read one partition of a topic, call a   *)
(* handler for each record with an in-process retry budget, forward what   *)
(* they cannot process to the dead-letter topic, and let the transport     *)
(* commit the offset when the consumer asks for the following record.      *)
(*                                                                         *)
(* The broker (log, dead-letter topic, committed offset, assignment of the *)
(* partition) is external and modelled by what the code relies on.  What   *)
(* the handler does is left to the modules that compose this one: here it  *)
(* may return or raise at every call.  Offsets count from 0, as in Kafka;  *)
(* the record at offset o is log[o + 1].                                   *)
(***************************************************************************)
EXTENDS Integers, Sequences

CONSTANTS
  Consumers,    \* processes of the group, each running one consume_events task
  Events,       \* record values that parse as an envelope
  Poison,       \* record values EventEnvelope.model_validate_json rejects
  MaxRetries,   \* max_retries of consume_events
  MaxPoll,      \* max_poll_records of the Kafka consumer
  OffsetReset,  \* auto_offset_reset
  MaxLog,       \* bound: records ever appended to the topic
  MaxFaults,    \* bound: crashes, shutdowns, rebalances and broker failures
  NoOne         \* the partition is assigned to nobody

ASSUME ConsumerAssumption ==
  /\ Events \cap Poison = {}
  /\ MaxRetries \in Nat \ {0}
  /\ MaxPoll \in Nat \ {0}
  /\ OffsetReset \in {"earliest", "latest"}
  /\ MaxLog \in Nat
  /\ MaxFaults \in Nat
  /\ NoOne \notin Consumers

NoOffset == -1

Records == Events \cup Poison

VARIABLES
  log,        \* the topic's partition
  dlq,        \* the dead-letter topic: value, diagnostic headers (as a set)
  committed,  \* the group's committed offset: the next to read, or NoOffset
  owner,      \* the group member the partition is assigned to
  phase,      \* where each consume_events task is
  position,   \* next offset getmany will return to each member
  cur,        \* offset of the record being processed, or the next to yield
  last,       \* end (exclusive) of the records of the last getmany
  attempt,    \* the attempt loop's counter for the current record
  handled,    \* history: offsets for which a handler call has returned
  faults      \* how much of MaxFaults is used up

topicVars  == <<log, dlq>>
memberVars == <<phase, position, cur, last, attempt>>
vars == <<log, dlq, committed, owner, phase, position, cur, last, attempt,
          handled, faults>>

Offsets == 0 .. Len(log) - 1

(* The task is inside consume_events and its Kafka consumer is started.    *)
Running == {"polling", "handling", "forwarding", "committing"}

Phases == Running \cup {"down", "stopped", "dead"}

(* The entry _send_to_dlq writes for the record at offset o: its value and *)
(* the x-original-topic (here the offset) and x-retry-count headers.       *)
DeadLetter(o, n) == [rec |-> log[o + 1], at |-> o, retries |-> n]

(* A record has been dealt with once its handler returned or a copy of it  *)
(* is on the dead-letter topic.                                            *)
Settled(o) == o \in handled \/ \E d \in dlq : d.at = o

-----------------------------------------------------------------------------
Init ==
  /\ log = <<>>
  /\ dlq = {}
  /\ committed = NoOffset
  /\ owner = NoOne
  /\ phase = [c \in Consumers |-> "down"]
  /\ position = [c \in Consumers |-> 0]
  /\ cur = [c \in Consumers |-> 0]
  /\ last = [c \in Consumers |-> 0]
  /\ attempt = [c \in Consumers |-> 0]
  /\ handled = {}
  /\ faults = 0

Fault == faults < MaxFaults /\ faults' = faults + 1

(* A producer appends a record.                                            *)
Produce(r) ==
  /\ Len(log) < MaxLog
  /\ log' = Append(log, r)
  /\ UNCHANGED <<dlq, committed, owner, memberVars, handled, faults>>

-----------------------------------------------------------------------------
(* Group membership.                                                       *)

(* The process starts and calls consume_events: no record is buffered.     *)
Start(c) ==
  /\ phase[c] \in {"down", "stopped"}
  /\ phase' = [phase EXCEPT ![c] = "polling"]
  /\ position' = [position EXCEPT ![c] = 0]
  /\ cur' = [cur EXCEPT ![c] = 0]
  /\ last' = [last EXCEPT ![c] = 0]
  /\ attempt' = [attempt EXCEPT ![c] = 0]
  /\ UNCHANGED <<topicVars, committed, owner, handled, faults>>

(* The broker is unreachable when the Kafka client is started: the         *)
(* exception leaves consume_events before anything was consumed.           *)
StartFails(c) ==
  /\ phase[c] \in {"down", "stopped"}
  /\ Fault
  /\ phase' = [phase EXCEPT ![c] = "dead"]
  /\ UNCHANGED <<topicVars, committed, owner, position, cur, last, attempt,
                 handled>>

(* Mutant of StartPosition: auto_offset_reset is not passed on.            *)
StartPosition_Latest == IF committed # NoOffset THEN committed ELSE Len(log)

(* Where a newly assigned member reads from: the committed offset, or what *)
(* auto_offset_reset says while the group has committed nothing.           *)
StartPosition ==
  IF committed # NoOffset THEN committed
  ELSE IF OffsetReset = "earliest" THEN 0
  ELSE Len(log)

Take(c) ==
  /\ phase[c] \in Running
  /\ owner' = c
  /\ position' = [position EXCEPT ![c] = StartPosition]
  /\ UNCHANGED <<topicVars, committed, phase, cur, last, attempt, handled>>

(* The coordinator assigns the free partition to a member.                 *)
Assign(c) == owner = NoOne /\ Take(c) /\ UNCHANGED faults

(* The coordinator moves the partition away from a member that is still    *)
(* running: the records that member already fetched stay in its memory.    *)
Rebalance(c) == owner \notin {NoOne, c} /\ Take(c) /\ Fault

(* consumer.stop() or the end of the session gives the partition back.     *)
Leave(c) == owner' = IF owner = c THEN NoOne ELSE owner

-----------------------------------------------------------------------------
(* One pass of the consume loop.                                           *)

(* Mutant of Fetch: the next getmany does not wait for the records of the  *)
(* previous one to be yielded.                                             *)
Fetch_DropsBuffered(c) ==
  /\ phase[c] = "polling"
  /\ owner = c
  /\ \E n \in 1 .. MaxPoll :
       /\ position[c] + n <= Len(log)
       /\ cur' = [cur EXCEPT ![c] = position[c]]
       /\ last' = [last EXCEPT ![c] = position[c] + n]
       /\ position' = [position EXCEPT ![c] = position[c] + n]
  /\ UNCHANGED <<topicVars, committed, owner, phase, attempt, handled, faults>>

(* getmany: only when every record of the previous call has been yielded.  *)
Fetch(c) ==
  /\ phase[c] = "polling"
  /\ cur[c] = last[c]
  /\ owner = c
  /\ \E n \in 1 .. MaxPoll :
       /\ position[c] + n <= Len(log)
       /\ cur' = [cur EXCEPT ![c] = position[c]]
       /\ last' = [last EXCEPT ![c] = position[c] + n]
       /\ position' = [position EXCEPT ![c] = position[c] + n]
  /\ UNCHANGED <<topicVars, committed, owner, phase, attempt, handled, faults>>

(* Mutant of Yield: a record that does not parse keeps the attempt count   *)
(* of the record before it.                                                *)
Yield_KeepsAttempt(c) ==
  /\ phase[c] = "polling"
  /\ cur[c] < last[c]
  /\ LET parses == log[cur[c] + 1] \in Events
     IN /\ phase' = [phase EXCEPT ![c] =
                       IF parses THEN "handling" ELSE "forwarding"]
        /\ attempt' = [attempt EXCEPT ![c] = IF parses THEN 1 ELSE attempt[c]]
  /\ UNCHANGED <<topicVars, committed, owner, position, cur, last, handled,
                 faults>>

(* The record is yielded and parsed: a poison pill goes straight to the    *)
(* dead-letter topic with a retry count of 0, an envelope to the handler.  *)
Yield(c) ==
  /\ phase[c] = "polling"
  /\ cur[c] < last[c]
  /\ LET parses == log[cur[c] + 1] \in Events
     IN /\ phase' = [phase EXCEPT ![c] =
                       IF parses THEN "handling" ELSE "forwarding"]
        /\ attempt' = [attempt EXCEPT ![c] = IF parses THEN 1 ELSE 0]
  /\ UNCHANGED <<topicVars, committed, owner, position, cur, last, handled,
                 faults>>

HandlerReturns(c) ==
  /\ phase[c] = "handling"
  /\ handled' = handled \cup {cur[c]}
  /\ phase' = [phase EXCEPT ![c] = "committing"]
  /\ UNCHANGED <<topicVars, committed, owner, position, cur, last, attempt,
                 faults>>

(* The handler raised: back off and call it again, or give up on it.       *)
HandlerRaises(c) ==
  /\ phase[c] = "handling"
  /\ IF attempt[c] < MaxRetries
       THEN /\ attempt' = [attempt EXCEPT ![c] = attempt[c] + 1]
            /\ UNCHANGED phase
       ELSE /\ phase' = [phase EXCEPT ![c] = "forwarding"]
            /\ UNCHANGED attempt
  /\ UNCHANGED <<topicVars, committed, owner, position, cur, last, handled,
                 faults>>

ForwardToDlq(c) ==
  /\ phase[c] = "forwarding"
  /\ dlq' = dlq \cup {DeadLetter(cur[c], attempt[c])}
  /\ phase' = [phase EXCEPT ![c] = "committing"]
  /\ UNCHANGED <<log, committed, owner, position, cur, last, attempt, handled,
                 faults>>

(* Mutant of Die: the Kafka consumer of the dead task is not stopped.      *)
Die_KeepsPartition(c) ==
  phase' = [phase EXCEPT ![c] = "dead"] /\ UNCHANGED owner

(* The task ends with an exception nobody catches: the Kafka consumer is   *)
(* stopped by the generator's finally block and nothing restarts the task. *)
Die(c) == Leave(c) /\ phase' = [phase EXCEPT ![c] = "dead"]

(* Mutant of ForwardFails: the failure is logged and swallowed.            *)
ForwardFails_Swallowed(c) ==
  /\ phase[c] = "forwarding"
  /\ Fault
  /\ phase' = [phase EXCEPT ![c] = "committing"]
  /\ UNCHANGED <<topicVars, committed, owner, position, cur, last, attempt,
                 handled>>

(* The forward raises, whether or not the broker had stored the record.    *)
ForwardFails(c) ==
  /\ phase[c] = "forwarding"
  /\ Fault
  /\ \/ dlq' = dlq \cup {DeadLetter(cur[c], attempt[c])}
     \/ UNCHANGED dlq
  /\ Die(c)
  /\ UNCHANGED <<log, committed, position, cur, last, attempt, handled>>

(* Mutant of Commit: every record of the fetched batch is committed.       *)
Commit_WholeBatch(c) ==
  /\ phase[c] = "committing"
  /\ owner = c
  /\ committed' = last[c]
  /\ cur' = [cur EXCEPT ![c] = cur[c] + 1]
  /\ phase' = [phase EXCEPT ![c] = "polling"]
  /\ UNCHANGED <<topicVars, owner, position, last, attempt, handled, faults>>

(* _process_record returned, the loop asks the generator for the next      *)
(* record and the generator commits the one it had yielded.                *)
Commit(c) ==
  /\ phase[c] = "committing"
  /\ owner = c
  /\ committed' = cur[c] + 1
  /\ cur' = [cur EXCEPT ![c] = cur[c] + 1]
  /\ phase' = [phase EXCEPT ![c] = "polling"]
  /\ UNCHANGED <<topicVars, owner, position, last, attempt, handled, faults>>

(* The member no longer owns the partition: commit raises.                 *)
CommitRefused(c) ==
  /\ phase[c] = "committing"
  /\ owner # c
  /\ Die(c)
  /\ UNCHANGED <<topicVars, committed, position, cur, last, attempt, handled,
                 faults>>

(* The broker fails during the commit, before or after recording it.       *)
CommitFails(c) ==
  /\ phase[c] = "committing"
  /\ owner = c
  /\ Fault
  /\ \/ committed' = cur[c] + 1
     \/ UNCHANGED committed
  /\ Die(c)
  /\ UNCHANGED <<topicVars, position, cur, last, attempt, handled>>

-----------------------------------------------------------------------------
(* The process is killed: what the member had in memory is gone.           *)
Crash(c) ==
  /\ phase[c] # "down"
  /\ Fault
  /\ Leave(c)
  /\ phase' = [phase EXCEPT ![c] = "down"]
  /\ UNCHANGED <<topicVars, committed, position, cur, last, attempt, handled>>

(* The lifespan cancels the task, at whichever await it is suspended.      *)
Cancel(c) ==
  /\ phase[c] \in Running
  /\ Fault
  /\ Leave(c)
  /\ phase' = [phase EXCEPT ![c] = "stopped"]
  /\ UNCHANGED <<topicVars, committed, position, cur, last, attempt, handled>>

(* What a member does when nothing goes wrong outside its handler.         *)
Progress(c) ==
  \/ Start(c)
  \/ Assign(c)
  \/ Fetch(c)
  \/ Yield(c)
  \/ HandlerReturns(c)
  \/ HandlerRaises(c)
  \/ ForwardToDlq(c)
  \/ Commit(c)
  \/ CommitRefused(c)

Disturbance(c) ==
  \/ StartFails(c)
  \/ Rebalance(c)
  \/ ForwardFails(c)
  \/ CommitFails(c)
  \/ Crash(c)
  \/ Cancel(c)

Next ==
  \/ \E r \in Records : Produce(r)
  \/ \E c \in Consumers : Progress(c) \/ Disturbance(c)

Fairness == \A c \in Consumers : WF_vars(Progress(c))

Spec == Init /\ [][Next]_vars

FairSpec == Spec /\ Fairness

-----------------------------------------------------------------------------
(* The state stays well formed: the buffered records of every member are a *)
(* segment of the log and offsets never pass its end.                      *)
TypeOK ==
  /\ log \in Seq(Records)
  /\ dlq \subseteq [rec : Records, at : Offsets, retries : 0 .. MaxRetries]
  /\ committed \in -1 .. Len(log)
  /\ owner \in Consumers \cup {NoOne}
  /\ phase \in [Consumers -> Phases]
  /\ position \in [Consumers -> 0 .. Len(log)]
  /\ cur \in [Consumers -> 0 .. Len(log)]
  /\ last \in [Consumers -> 0 .. Len(log)]
  /\ attempt \in [Consumers -> 0 .. MaxRetries]
  /\ handled \subseteq Offsets
  /\ faults \in 0 .. MaxFaults
  /\ \A c \in Consumers : cur[c] <= last[c]

(* At-least-once (consumer.py:6-8): below the committed offset there is no *)
(* record that was neither handled nor dead-lettered, whatever crashes,    *)
(* rebalances, retries and failed forwards the group has been through.     *)
CommittedSettled ==
  \A o \in Offsets : o < committed => Settled(o)

(* A record that was fetched and is not settled is still ahead of the      *)
(* committed offset or in the memory of the member that will settle it, so *)
(* a member never leaves a gap behind the position it fetches from.        *)
NoGapBehindPosition ==
  \A c \in Consumers : \A o \in Offsets :
    o < position[c] => Settled(o) \/ o \in cur[c] .. last[c] - 1

(* The retry budget (consumer.py:9-12): only an envelope whose last        *)
(* permitted attempt failed, or a record that does not parse, is           *)
(* dead-lettered, and the x-retry-count header says which.                 *)
DeadLetterJustified ==
  \A d \in dlq :
    d.retries = IF log[d.at + 1] \in Poison THEN 0 ELSE MaxRetries

(* Every record is settled in the end, unless every task of the group has  *)
(* died: one unprocessable record never blocks the ones behind it.         *)
EventuallySettled ==
  \A o \in 0 .. MaxLog - 1 :
    o < Len(log) ~> \/ Settled(o)
                    \/ \A c \in Consumers : phase[c] = "dead"

(* The members, crashes and retries above implement the promise of         *)
(* AtLeastOnce: no step of theirs acknowledges an unsettled record.        *)
Delivery == INSTANCE AtLeastOnce WITH
  settled <- {o \in Offsets : Settled(o)},
  acked   <- IF committed = NoOffset THEN 0 ELSE committed

ImplementsDelivery == Delivery!Spec
=============================================================================
