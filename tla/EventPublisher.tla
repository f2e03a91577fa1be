--------------------------- MODULE EventPublisher --------------------------
(***************************************************************************)
(* publish_event of aidp_events: every call builds an envelope with an     *)
(* event id of its own and sends it with retries; when every attempt has   *)
(* failed the envelope is forwarded to the dead-letter topic.  The calls   *)
(* of one process run concurrently and share its Kafka transport, which    *)
(* the first of them starts.                                               *)
(*                                                                         *)
(* A send that raises may or may not have reached the broker: the record   *)
(* can be stored and its acknowledgement lost or late.                     *)
(***************************************************************************)
EXTENDS Integers, Sequences

CONSTANTS
  Events,            \* event ids, one per publish_event call
  MaxPublishRetries  \* max_retries of publish_event

VARIABLES
  log,      \* the topic
  parked,   \* events publish_event has put on the dead-letter topic
  stage,    \* where each publish_event call is
  tries,    \* attempts of each call that have failed
  started   \* the transport's _started flag

vars == <<log, parked, stage, tries, started>>

InFlight == {"starting", "sending", "forwarding"}

Init ==
  /\ log = <<>>
  /\ parked = {}
  /\ stage = [e \in Events |-> "idle"]
  /\ tries = [e \in Events |-> 0]
  /\ started = FALSE

(* The call builds the envelope; the transport may have to be started.     *)
Call(e) ==
  /\ stage[e] = "idle"
  /\ stage' = [stage EXCEPT ![e] = IF started THEN "sending" ELSE "starting"]
  /\ UNCHANGED <<log, parked, tries, started>>

StartTransport(e) ==
  /\ stage[e] = "starting"
  /\ started' = TRUE
  /\ stage' = [stage EXCEPT ![e] = "sending"]
  /\ UNCHANGED <<log, parked, tries>>

(* start() is outside the retry loop: its exception leaves publish_event.  *)
(* Another call may have started the transport meanwhile: then it returns. *)
StartTransportFails(e) ==
  /\ stage[e] = "starting"
  /\ ~started
  /\ stage' = [stage EXCEPT ![e] = "raised"]
  /\ UNCHANGED <<log, parked, tries, started>>

Send(e) ==
  /\ stage[e] = "sending"
  /\ log' = Append(log, e)
  /\ stage' = [stage EXCEPT ![e] = "returned"]
  /\ UNCHANGED <<parked, tries, started>>

(* Mutant of SendFails: one attempt more than max_retries + 1.             *)
SendFails_OnceMore(e) ==
  /\ stage[e] = "sending"
  /\ \/ log' = Append(log, e)
     \/ UNCHANGED log
  /\ tries' = [tries EXCEPT ![e] = tries[e] + 1]
  /\ stage' = [stage EXCEPT ![e] =
                 IF tries[e] <= MaxPublishRetries THEN "sending"
                                                  ELSE "forwarding"]
  /\ UNCHANGED <<parked, started>>

SendFails(e) ==
  /\ stage[e] = "sending"
  /\ \/ log' = Append(log, e)
     \/ UNCHANGED log
  /\ tries' = [tries EXCEPT ![e] = tries[e] + 1]
  /\ stage' = [stage EXCEPT ![e] =
                 IF tries[e] < MaxPublishRetries THEN "sending"
                                                 ELSE "forwarding"]
  /\ UNCHANGED <<parked, started>>

Forward(e) ==
  /\ stage[e] = "forwarding"
  /\ parked' = parked \cup {e}
  /\ stage' = [stage EXCEPT ![e] = "returned"]
  /\ UNCHANGED <<log, tries, started>>

(* Mutant of ForwardFails: the failure is logged and swallowed.            *)
ForwardFails_Swallowed(e) ==
  /\ stage[e] = "forwarding"
  /\ stage' = [stage EXCEPT ![e] = "returned"]
  /\ UNCHANGED <<log, parked, tries, started>>

ForwardFails(e) ==
  /\ stage[e] = "forwarding"
  /\ \/ parked' = parked \cup {e}
     \/ UNCHANGED parked
  /\ stage' = [stage EXCEPT ![e] = "raised"]
  /\ UNCHANGED <<log, tries, started>>

(* The process is killed, and with it every call in progress.              *)
Kill ==
  /\ started \/ \E e \in Events : stage[e] \in InFlight
  /\ stage' = [e \in Events |->
                 IF stage[e] \in InFlight THEN "killed" ELSE stage[e]]
  /\ started' = FALSE
  /\ UNCHANGED <<log, parked, tries>>

Advance(e) ==
  \/ StartTransport(e) \/ StartTransportFails(e)
  \/ Send(e) \/ SendFails(e)
  \/ Forward(e) \/ ForwardFails(e)

Next ==
  \/ \E e \in Events : Call(e) \/ Advance(e)
  \/ Kill

Spec == Init /\ [][Next]_vars
=============================================================================
