------------------------------ MODULE EventBus -----------------------------
(***************************************************************************)
(* The event bus end to end: the publish_event calls of a service          *)
(* (EventPublisher), the topic, and the consumer group of another service  *)
(* that reads it (EventConsumer, which this module extends).  Producers    *)
(* outside the platform library may append records that do not parse.      *)
(***************************************************************************)
EXTENDS EventConsumer, FiniteSets

CONSTANT MaxPublishRetries  \* max_retries of publish_event

ASSUME PublisherAssumption == MaxPublishRetries \in Nat

VARIABLES
  parked, stage, tries, started  \* of EventPublisher

publisherVars == <<parked, stage, tries, started>>
groupVars == <<dlq, committed, owner, phase, position, cur, last, attempt,
               handled, faults>>
busVars == <<log, publisherVars, groupVars>>

Publisher == INSTANCE EventPublisher

BusInit == Init /\ Publisher!Init

Publish == Publisher!Next /\ UNCHANGED groupVars

Consume ==
  /\ \E c \in Consumers : Progress(c) \/ Disturbance(c)
  /\ UNCHANGED publisherVars

Pollute == (\E r \in Poison : Produce(r)) /\ UNCHANGED publisherVars

BusNext == Publish \/ Consume \/ Pollute

(* publish_event calls run to their end; members of the group progress.    *)
BusFairness ==
  /\ \A e \in Events : WF_busVars(Publisher!Advance(e) /\ UNCHANGED groupVars)
  /\ \A c \in Consumers : WF_busVars(Progress(c) /\ UNCHANGED publisherVars)

BusSpec == BusInit /\ [][BusNext]_busVars

FairBusSpec == BusSpec /\ BusFairness

-----------------------------------------------------------------------------
Copies(e) == {i \in DOMAIN log : log[i] = e}

(* producer.py:101-102: one initial attempt and max_retries more.  Every   *)
(* attempt may have reached the broker, the failed ones included, so an    *)
(* event may be on the topic several times, but never more often than its  *)
(* one call may try, whatever other calls and restarts do.                 *)
CopiesBounded ==
  \A e \in Events : Cardinality(Copies(e)) <= MaxPublishRetries + 1

DeadLettered(e) == e \in parked \/ \E d \in dlq : d.rec = e

(* An event whose publish_event call returned is never lost between the    *)
(* two services: it is dead-lettered, or a copy of it was handled, or one  *)
(* is on the topic at an offset the group has yet to commit.               *)
PublishedNotLost ==
  \A e \in Events : stage[e] = "returned" =>
    \/ DeadLettered(e)
    \/ \E o \in Offsets : log[o + 1] = e /\ (o \in handled \/ committed <= o)

(* An event whose publish_event call returned is handled or dead-lettered  *)
(* in the end, unless every consume task of the group has died.            *)
PublishedIsSettled ==
  \A e \in Events :
    stage[e] = "returned" ~>
      \/ DeadLettered(e)
      \/ \E o \in Offsets : log[o + 1] = e /\ o \in handled
      \/ \A c \in Consumers : phase[c] = "dead"
=============================================================================
