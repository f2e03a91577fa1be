---------------------------- MODULE AtLeastOnce ----------------------------
(***************************************************************************)
(* What the event bus promises a consumer group (consumer.py:3-12), with   *)
(* no process, fetch, retry or failure in it: records are appended, each   *)
(* record may be settled (handled, or parked on the dead-letter topic),    *)
(* and the group may acknowledge a prefix of the topic only when every     *)
(* record of that prefix is settled.  A settled record stays settled, and  *)
(* may be delivered again: the acknowledged prefix may even shrink.        *)
(***************************************************************************)
EXTENDS Integers, Sequences

CONSTANT Records

VARIABLES
  log,      \* the records, in order
  settled,  \* offsets of the settled records
  acked     \* the first offset that is not acknowledged

vars == <<log, settled, acked>>

Init ==
  /\ log = <<>>
  /\ settled = {}
  /\ acked = 0

Publish ==
  /\ \E r \in Records : log' = Append(log, r)
  /\ UNCHANGED <<settled, acked>>

Settle ==
  /\ \E o \in 0 .. Len(log) - 1 : settled' = settled \cup {o}
  /\ UNCHANGED <<log, acked>>

Acknowledge ==
  /\ \E n \in 0 .. Len(log) :
       /\ 0 .. n - 1 \subseteq settled
       /\ acked' = n
  /\ UNCHANGED <<log, settled>>

Next == Publish \/ Settle \/ Acknowledge

Spec == Init /\ [][Next]_vars
=============================================================================
