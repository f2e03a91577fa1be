--------------------------- MODULE EventFlow_proofs --------------------------
(***************************************************************************)
(* Theorems about the consumer group (EventConsumer), the event bus end to *)
(* end (EventBus) and the audit service that reads it (AuditConsumer), for *)
(* every number of processes, retry budget, fetch and batch size.  The     *)
(* bounds MaxLog, MaxFaults and MaxDbFailures only limit how far the       *)
(* behaviours go: they are arbitrary here.                                 *)
(*                                                                         *)
(* The last two systems extend the first: they restrict when its handler   *)
(* returns or raises, or who else appends to its topic.  So they share its *)
(* state, and the lemmas about its steps carry over to them.               *)
(***************************************************************************)
EXTENDS EventBus, AuditConsumer, FiniteSetTheorems, TLAPS

(* The task holds a record that was yielded to it.                         *)
Busy(c) == phase[c] \in {"handling", "forwarding", "committing"}

(* TypeOK is not inductive: that a dead letter has an offset of the log    *)
(* needs the record in progress to be one of those the member fetched.     *)
BusyInBatch == \A c \in Consumers : Busy(c) => cur[c] < last[c]

TypeInv == TypeOK /\ BusyInBatch

-----------------------------------------------------------------------------
(* The well-formedness of the state is inductive.                          *)

LEMMA InitTypeInv == Init => TypeInv
  BY ConsumerAssumption
  DEF Init, TypeInv, TypeOK, BusyInBatch, Busy, Offsets, Phases, Running,
      NoOffset, Records

(* A member takes part in the loop: everything that happens to the record  *)
(* it has in hand.                                                         *)
LEMMA ProgressTypeInv ==
  ASSUME TypeInv, NEW c \in Consumers, Progress(c)
  PROVE  TypeInv'
<1> USE ConsumerAssumption
    DEF TypeInv, TypeOK, BusyInBatch, Busy, Offsets, Phases, Running, Records,
        topicVars, NoOffset
<1>1. CASE Start(c)
  BY <1>1 DEF Start
<1>2. CASE Assign(c)
  BY <1>2 DEF Assign, Take, StartPosition
<1>3. CASE Fetch(c)
  <2>1. PICK n \in 1 .. MaxPoll :
          /\ position[c] + n <= Len(log)
          /\ cur' = [cur EXCEPT ![c] = position[c]]
          /\ last' = [last EXCEPT ![c] = position[c] + n]
          /\ position' = [position EXCEPT ![c] = position[c] + n]
    BY <1>3 DEF Fetch
  <2>2. /\ phase[c] = "polling"
        /\ UNCHANGED <<topicVars, committed, owner, phase, attempt, handled, faults>>
    BY <1>3 DEF Fetch
  <2>3. position[c] + n \in 0 .. Len(log) /\ position[c] <= position[c] + n
    BY <2>1
  <2>4. /\ cur' \in [Consumers -> 0 .. Len(log)] /\ last' \in [Consumers -> 0 .. Len(log)]
        /\ position' \in [Consumers -> 0 .. Len(log)]
    BY <2>1, <2>3
  <2>5. /\ cur'[c] <= last'[c]
        /\ \A m \in Consumers \ {c} : cur'[m] = cur[m] /\ last'[m] = last[m]
    BY <2>1, <2>3
  <2> QED  BY <2>2, <2>4, <2>5
<1>4. CASE Yield(c)
  BY <1>4 DEF Yield
<1>5. CASE HandlerReturns(c)
  <2>1. cur[c] \in Offsets
    BY <1>5 DEF HandlerReturns
  <2>2. handled' \subseteq Offsets'
    BY <1>5, <2>1 DEF HandlerReturns
  <2>3. /\ phase' \in [Consumers -> Phases]
        /\ \A m \in Consumers : Busy(m)' => cur[m] < last[m]
    BY <1>5 DEF HandlerReturns
  <2> QED
    BY <1>5, <2>2, <2>3 DEF HandlerReturns
<1>6. CASE HandlerRaises(c)
  <2>1. CASE attempt[c] < MaxRetries
    <3>1. /\ attempt' = [attempt EXCEPT ![c] = attempt[c] + 1]
          /\ UNCHANGED <<topicVars, committed, owner, phase, position, cur, last,
                         handled, faults>>
      BY <1>6, <2>1 DEF HandlerRaises
    <3>2. attempt' \in [Consumers -> 0 .. MaxRetries]
      BY <2>1, <3>1
    <3> QED
      BY <3>1, <3>2
  <2>2. CASE ~(attempt[c] < MaxRetries)
    <3>1. /\ phase' \in [Consumers -> Phases]
          /\ \A m \in Consumers : Busy(m)' => cur[m] < last[m]
      BY <1>6, <2>2 DEF HandlerRaises
    <3> QED
      BY <1>6, <2>2, <3>1 DEF HandlerRaises
  <2> QED
    BY <2>1, <2>2
<1>7. CASE ForwardToDlq(c)
  <2>1. DeadLetter(cur[c], attempt[c]) \in
          [rec : Records, at : Offsets, retries : 0 .. MaxRetries]
    BY <1>7 DEF ForwardToDlq, DeadLetter
  <2> QED
    BY <1>7, <2>1 DEF ForwardToDlq
<1>8. CASE Commit(c)
  BY <1>8 DEF Commit
<1>9. CASE CommitRefused(c)
  BY <1>9 DEF CommitRefused, Die, Leave
<1> QED
  BY <1>1, <1>2, <1>3, <1>4, <1>5, <1>6, <1>7, <1>8, <1>9 DEF Progress

LEMMA DisturbanceTypeInv ==
  ASSUME TypeInv, NEW c \in Consumers, Disturbance(c)
  PROVE  TypeInv'
<1> USE ConsumerAssumption
    DEF TypeInv, TypeOK, BusyInBatch, Busy, Offsets, Phases, Running, Records,
        topicVars, NoOffset, Leave, Fault
<1>1. CASE StartFails(c)
  BY <1>1 DEF StartFails
<1>2. CASE Rebalance(c)
  BY <1>2 DEF Rebalance, Take, StartPosition
<1>3. CASE ForwardFails(c)
  <2>1. DeadLetter(cur[c], attempt[c]) \in
          [rec : Records, at : Offsets, retries : 0 .. MaxRetries]
    BY <1>3 DEF ForwardFails, DeadLetter
  <2>2. dlq' \subseteq dlq \cup {DeadLetter(cur[c], attempt[c])}
    BY <1>3 DEF ForwardFails
  <2>3. dlq' \subseteq
          [rec : Records, at : Offsets, retries : 0 .. MaxRetries]
    BY <2>1, <2>2
  <2>4. /\ phase' \in [Consumers -> Phases]
        /\ \A m \in Consumers : Busy(m)' => cur[m] < last[m]
    BY <1>3 DEF ForwardFails, Die
  <2>5. /\ owner' \in Consumers \cup {NoOne}
        /\ faults' \in 0 .. MaxFaults
    BY <1>3 DEF ForwardFails, Die
  <2>6. UNCHANGED <<log, committed, position, cur, last, attempt, handled>>
    BY <1>3 DEF ForwardFails
  <2> QED
    BY <2>3, <2>4, <2>5, <2>6
<1>4. CASE CommitFails(c)
  BY <1>4 DEF CommitFails, Die
<1>5. CASE Crash(c)
  BY <1>5 DEF Crash
<1>6. CASE Cancel(c)
  BY <1>6 DEF Cancel
<1> QED
  BY <1>1, <1>2, <1>3, <1>4, <1>5, <1>6 DEF Disturbance

LEMMA ProduceTypeInv ==
  ASSUME TypeInv, NEW r \in Records, Produce(r)
  PROVE  TypeInv'
  BY ConsumerAssumption
  DEF TypeInv, TypeOK, BusyInBatch, Busy, Offsets, Produce, memberVars

LEMMA NextTypeInv == TypeInv /\ [Next]_vars => TypeInv'
<1> SUFFICES ASSUME TypeInv, [Next]_vars
             PROVE  TypeInv'
  OBVIOUS
<1>1. CASE UNCHANGED vars
  BY <1>1 DEF TypeInv, TypeOK, BusyInBatch, Busy, Offsets, vars
<1>2. CASE \E r \in Records : Produce(r)
  BY <1>2, ProduceTypeInv
<1>3. CASE \E c \in Consumers : Progress(c) \/ Disturbance(c)
  BY <1>3, ProgressTypeInv, DisturbanceTypeInv
<1> QED
  BY <1>1, <1>2, <1>3 DEF Next

LEMMA TypeInvariant == Spec => []TypeInv
  BY InitTypeInv, NextTypeInv, PTL DEF Spec

(* The state is well formed: no fetched batch, position or offset the code *)
(* computes ever points past the end of the topic.                         *)
THEOREM TypeCorrect == Spec => []TypeOK
  BY TypeInvariant, PTL DEF TypeInv

-----------------------------------------------------------------------------
(* DeadLetterJustified: the retry count and the record a task carries to   *)
(* the dead-letter topic are settled one or more steps before the forward. *)

(* What the retry count says of the record in hand.                        *)
CountJustified(c) ==
  /\ phase[c] = "handling" => log[cur[c] + 1] \in Events
  /\ phase[c] = "forwarding" =>
       attempt[c] = IF log[cur[c] + 1] \in Poison THEN 0 ELSE MaxRetries

CountInv == DeadLetterJustified /\ \A c \in Consumers : CountJustified(c)

LEMMA InitCountInv == Init => CountInv
  BY DEF Init, CountInv, CountJustified, DeadLetterJustified

(* The entry a forward writes is justified when the count in hand is.      *)
LEMMA ForwardJustified ==
  ASSUME TypeInv, CountInv, NEW c \in Consumers, phase[c] = "forwarding",
         UNCHANGED log,
         dlq' \subseteq dlq \cup {DeadLetter(cur[c], attempt[c])}
  PROVE  DeadLetterJustified'
  BY DEF CountInv, CountJustified, DeadLetterJustified, DeadLetter

LEMMA ProgressCountInv ==
  ASSUME TypeInv, CountInv, NEW c \in Consumers, Progress(c)
  PROVE  CountInv'
<1> USE ConsumerAssumption
    DEF TypeInv, TypeOK, BusyInBatch, Busy, Offsets, CountInv, CountJustified,
        topicVars, Running, Records
<1>1. CASE Start(c)
  BY <1>1 DEF Start, DeadLetterJustified
<1>2. CASE Assign(c)
  BY <1>2 DEF Assign, Take, DeadLetterJustified
<1>3. CASE Fetch(c)
  BY <1>3 DEF Fetch, DeadLetterJustified
<1>4. CASE Yield(c)
  <2>1. UNCHANGED <<log, dlq, cur>>
    BY <1>4 DEF Yield
  <2>2. /\ \A m \in Consumers \ {c} : phase'[m] = phase[m] /\ attempt'[m] = attempt[m]
        /\ phase'[c] = IF log[cur[c] + 1] \in Events THEN "handling" ELSE "forwarding"
        /\ attempt'[c] = IF log[cur[c] + 1] \in Events THEN 1 ELSE 0
    BY <1>4 DEF Yield
  <2>3. log[cur[c] + 1] \in Events \cup Poison /\ Events \cap Poison = {}
    BY <1>4 DEF Yield
  <2>4. DeadLetterJustified'
    BY <2>1 DEF DeadLetterJustified
  <2> QED
    BY <2>1, <2>2, <2>3, <2>4
<1>5. CASE HandlerReturns(c)
  BY <1>5 DEF HandlerReturns, DeadLetterJustified
<1>6. CASE HandlerRaises(c)
  <2>1. UNCHANGED <<log, dlq, cur>> /\ phase[c] = "handling"
    BY <1>6 DEF HandlerRaises
  <2>2. /\ \A m \in Consumers \ {c} : phase'[m] = phase[m] /\ attempt'[m] = attempt[m]
        /\ phase'[c] # "handling" => phase'[c] = "forwarding" /\ attempt'[c] = MaxRetries
    BY <1>6 DEF HandlerRaises
  <2>3. DeadLetterJustified'
    BY <2>1 DEF DeadLetterJustified
  <2> QED
    BY <2>1, <2>2, <2>3
<1>7. CASE ForwardToDlq(c)
  <2>1. DeadLetterJustified'
    BY <1>7, ForwardJustified DEF ForwardToDlq
  <2> QED
    BY <1>7, <2>1 DEF ForwardToDlq
<1>8. CASE Commit(c)
  BY <1>8 DEF Commit, DeadLetterJustified
<1>9. CASE CommitRefused(c)
  BY <1>9 DEF CommitRefused, Die, DeadLetterJustified
<1> QED
  BY <1>1, <1>2, <1>3, <1>4, <1>5, <1>6, <1>7, <1>8, <1>9 DEF Progress

LEMMA DisturbanceCountInv ==
  ASSUME TypeInv, CountInv, NEW c \in Consumers, Disturbance(c)
  PROVE  CountInv'
<1> USE DEF TypeInv, TypeOK, CountInv, CountJustified, topicVars
<1>1. CASE StartFails(c)
  BY <1>1 DEF StartFails, DeadLetterJustified
<1>2. CASE Rebalance(c)
  BY <1>2 DEF Rebalance, Take, DeadLetterJustified
<1>3. CASE ForwardFails(c)
  <2>1. DeadLetterJustified'
    BY <1>3, ForwardJustified DEF ForwardFails
  <2> QED
    BY <1>3, <2>1 DEF ForwardFails, Die
<1>4. CASE CommitFails(c)
  BY <1>4 DEF CommitFails, Die, DeadLetterJustified
<1>5. CASE Crash(c)
  BY <1>5 DEF Crash, DeadLetterJustified
<1>6. CASE Cancel(c)
  BY <1>6 DEF Cancel, DeadLetterJustified
<1> QED
  BY <1>1, <1>2, <1>3, <1>4, <1>5, <1>6 DEF Disturbance

LEMMA ProduceCountInv ==
  ASSUME TypeInv, CountInv, NEW r \in Records, Produce(r)
  PROVE  CountInv'
<1>1. \A o \in Offsets : log'[o + 1] = log[o + 1]
  BY DEF Produce, TypeInv, TypeOK, Offsets
<1>2. \A c \in Consumers : Busy(c) => cur[c] \in Offsets
  BY DEF TypeInv, TypeOK, BusyInBatch, Offsets
<1>3. \A d \in dlq : d.at \in Offsets
  BY DEF TypeInv, TypeOK
<1> QED
  BY <1>1, <1>2, <1>3
  DEF Produce, memberVars, CountInv, CountJustified, DeadLetterJustified, Busy

LEMMA NextCountInv == TypeInv /\ CountInv /\ [Next]_vars => CountInv'
<1> SUFFICES ASSUME TypeInv, CountInv, [Next]_vars
             PROVE  CountInv'
  OBVIOUS
<1>1. CASE UNCHANGED vars
  BY <1>1 DEF CountInv, CountJustified, DeadLetterJustified, vars
<1>2. CASE \E r \in Records : Produce(r)
  BY <1>2, ProduceCountInv
<1>3. CASE \E c \in Consumers : Progress(c) \/ Disturbance(c)
  BY <1>3, ProgressCountInv, DisturbanceCountInv
<1> QED
  BY <1>1, <1>2, <1>3 DEF Next

(* Only an envelope whose last permitted attempt failed, or a record that  *)
(* does not parse, is dead-lettered, under the retry count that says so:   *)
(* for every retry budget, fetch size and number of processes.             *)
THEOREM DeadLettersJustified == Spec => []DeadLetterJustified
<1>1. Spec => []CountInv
  BY InitCountInv, NextCountInv, TypeInvariant, PTL DEF Spec
<1> QED
  BY <1>1, PTL DEF CountInv

-----------------------------------------------------------------------------
(* CommittedSettled, for a group that starts from the earliest record.     *)
(*                                                                         *)
(* It is not inductive.  A member commits the offset it has in hand, so    *)
(* everything below that offset must be settled, in the memory of members  *)
(* that lost the partition too: they go on with what they fetched, and may *)
(* own the partition again when they commit.  What is below the position   *)
(* of a member is settled or still in its batch, because it was below the  *)
(* committed offset when the partition was assigned.                       *)

SettledBelowCur(c) == \A o \in Offsets : o < cur[c] => Settled(o)

SettledInHand(c) == phase[c] = "committing" => Settled(cur[c])

DeliveryInv ==
  /\ CommittedSettled
  /\ NoGapBehindPosition
  /\ \A c \in Consumers : SettledBelowCur(c) /\ SettledInHand(c)

LEMMA InitDeliveryInv == Init => DeliveryInv
  BY DEF Init, DeliveryInv, CommittedSettled, NoGapBehindPosition,
         SettledBelowCur, SettledInHand, Offsets, NoOffset

(* A settled record stays settled.                                         *)
LEMMA SettledMonotone ==
  ASSUME handled \subseteq handled', dlq \subseteq dlq', NEW o, Settled(o)
  PROVE  Settled(o)'
  BY DEF Settled

(* A stored dead letter settles the record it is a copy of.                *)
LEMMA ForwardSettles ==
  ASSUME NEW c \in Consumers, UNCHANGED cur,
         DeadLetter(cur[c], attempt[c]) \in dlq'
  PROVE  Settled(cur[c])'
<1>1. DeadLetter(cur[c], attempt[c]).at = cur[c]
  BY DEF DeadLetter
<1> HIDE DEF DeadLetter
<1> QED
  BY <1>1 DEF Settled

(* A step that leaves the log, the committed offset and every member's     *)
(* cursors alone keeps the invariant, whatever it settles, if the record   *)
(* of a task that is about to commit is settled.                           *)
LEMMA CursorsUntouched ==
  ASSUME TypeInv, DeliveryInv, handled \subseteq handled', dlq \subseteq dlq',
         UNCHANGED <<log, committed, position, cur, last>>,
         \A c \in Consumers :
           phase'[c] = "committing" => phase[c] = "committing"
                                       \/ Settled(cur[c])'
  PROVE  DeliveryInv'
<1>1. \A o : Settled(o) => Settled(o)'
  BY SettledMonotone
<1> QED
  BY <1>1
  DEF DeliveryInv, CommittedSettled, NoGapBehindPosition, SettledBelowCur,
      SettledInHand, Offsets

(* A member is assigned the partition: what is below its new position is   *)
(* below the committed offset.                                             *)
LEMMA TakeDeliveryInv ==
  ASSUME OffsetReset = "earliest", TypeInv, DeliveryInv,
         NEW c \in Consumers, Take(c)
  PROVE  DeliveryInv'
<1>1. \A o : Settled(o)' <=> Settled(o)
  BY DEF Take, Settled, topicVars
<1>2. \A o \in Offsets : o < StartPosition => Settled(o)
  BY DEF StartPosition, DeliveryInv, CommittedSettled, Offsets, TypeInv, TypeOK
<1>3. NoGapBehindPosition'
  BY <1>1, <1>2
  DEF Take, topicVars, TypeInv, TypeOK, DeliveryInv, NoGapBehindPosition,
      Offsets
<1> QED
  BY <1>1, <1>3
  DEF Take, topicVars, DeliveryInv, CommittedSettled, SettledBelowCur,
      SettledInHand, Offsets

LEMMA FetchDeliveryInv ==
  ASSUME TypeInv, DeliveryInv, NEW c \in Consumers, Fetch(c)
  PROVE  DeliveryInv'
<1> USE ConsumerAssumption
    DEF TypeInv, TypeOK, DeliveryInv, Offsets, topicVars
<1>1. \A o : Settled(o)' <=> Settled(o)
  BY DEF Fetch, Settled
<1>2. \A o \in Offsets : o < position[c] => Settled(o)
  BY DEF Fetch, NoGapBehindPosition
<1>3. CommittedSettled'
  BY <1>1 DEF Fetch, CommittedSettled
<1>4. NoGapBehindPosition'
  BY <1>1, <1>2 DEF Fetch, NoGapBehindPosition
<1>5. \A m \in Consumers : SettledBelowCur(m)'
  BY <1>1, <1>2 DEF Fetch, SettledBelowCur
<1>6. \A m \in Consumers : SettledInHand(m)'
  BY <1>1 DEF Fetch, SettledInHand
<1> QED
  BY <1>3, <1>4, <1>5, <1>6

(* The commit of the record in hand, recorded by the broker.               *)
LEMMA CommittedStaysSettled ==
  ASSUME TypeInv, DeliveryInv, NEW c \in Consumers, phase[c] = "committing",
         UNCHANGED <<log, handled, dlq>>,
         committed' = committed \/ committed' = cur[c] + 1
  PROVE  CommittedSettled'
<1>1. \A o \in Offsets : o < cur[c] + 1 => Settled(o)
  BY DEF TypeInv, TypeOK, DeliveryInv, SettledBelowCur, SettledInHand, Offsets
<1> QED
  BY <1>1 DEF DeliveryInv, CommittedSettled, Offsets, Settled

LEMMA CommitDeliveryInv ==
  ASSUME TypeInv, DeliveryInv, NEW c \in Consumers, Commit(c)
  PROVE  DeliveryInv'
<1> USE DEF TypeInv, TypeOK, DeliveryInv, Offsets, topicVars
<1>1. \A o : Settled(o)' <=> Settled(o)
  BY DEF Commit, Settled
<1>2. CommittedSettled'
  BY CommittedStaysSettled DEF Commit
<1>3. Settled(cur[c])
  BY DEF Commit, SettledInHand
<1>4. NoGapBehindPosition'
  BY <1>1, <1>3 DEF Commit, NoGapBehindPosition
<1>5. \A m \in Consumers : SettledBelowCur(m)'
  BY <1>1, <1>3 DEF Commit, SettledBelowCur
<1>6. \A m \in Consumers : SettledInHand(m)'
  BY <1>1 DEF Commit, SettledInHand
<1> QED
  BY <1>2, <1>4, <1>5, <1>6

LEMMA CommitFailsDeliveryInv ==
  ASSUME TypeInv, DeliveryInv, NEW c \in Consumers, CommitFails(c)
  PROVE  DeliveryInv'
<1>1. \A o : Settled(o)' <=> Settled(o)
  BY DEF CommitFails, Settled, topicVars
<1>2. CommittedSettled'
  BY CommittedStaysSettled DEF CommitFails, topicVars
<1>3. NoGapBehindPosition'
  BY <1>1
  DEF CommitFails, topicVars, DeliveryInv, NoGapBehindPosition, Offsets
<1>4. \A m \in Consumers : SettledBelowCur(m)' /\ SettledInHand(m)'
  BY <1>1
  DEF CommitFails, Die, topicVars, DeliveryInv, SettledBelowCur,
      SettledInHand, Offsets, TypeInv, TypeOK
<1> QED
  BY <1>2, <1>3, <1>4 DEF DeliveryInv

LEMMA ProgressDeliveryInv ==
  ASSUME OffsetReset = "earliest", TypeInv, DeliveryInv,
         NEW c \in Consumers, Progress(c)
  PROVE  DeliveryInv'
<1> USE DEF TypeInv, TypeOK, topicVars
<1>1. CASE Start(c)
  <2>1. \A o : Settled(o)' <=> Settled(o)
    BY <1>1 DEF Start, Settled
  <2> QED
    BY <1>1, <2>1
    DEF Start, DeliveryInv, CommittedSettled, NoGapBehindPosition,
        SettledBelowCur, SettledInHand, Offsets
<1>2. CASE Assign(c)
  BY <1>2, TakeDeliveryInv DEF Assign
<1>3. CASE Fetch(c)
  BY <1>3, FetchDeliveryInv
<1>4. CASE Yield(c)
  BY <1>4, CursorsUntouched DEF Yield
<1>5. CASE HandlerReturns(c)
  <2>1. Settled(cur[c])'
    BY <1>5 DEF HandlerReturns, Settled
  <2> QED
    BY <1>5, <2>1, CursorsUntouched DEF HandlerReturns
<1>6. CASE HandlerRaises(c)
  BY <1>6, CursorsUntouched DEF HandlerRaises
<1>7. CASE ForwardToDlq(c)
  <2>1. Settled(cur[c])'
    BY <1>7, ForwardSettles DEF ForwardToDlq
  <2> QED
    BY <1>7, <2>1, CursorsUntouched DEF ForwardToDlq
<1>8. CASE Commit(c)
  BY <1>8, CommitDeliveryInv
<1>9. CASE CommitRefused(c)
  BY <1>9, CursorsUntouched DEF CommitRefused, Die
<1> QED
  BY <1>1, <1>2, <1>3, <1>4, <1>5, <1>6, <1>7, <1>8, <1>9 DEF Progress

LEMMA DisturbanceDeliveryInv ==
  ASSUME OffsetReset = "earliest", TypeInv, DeliveryInv,
         NEW c \in Consumers, Disturbance(c)
  PROVE  DeliveryInv'
<1> USE DEF TypeInv, TypeOK, topicVars
<1>1. CASE StartFails(c)
  BY <1>1, CursorsUntouched DEF StartFails
<1>2. CASE Rebalance(c)
  BY <1>2, TakeDeliveryInv DEF Rebalance
<1>3. CASE ForwardFails(c)
  BY <1>3, CursorsUntouched DEF ForwardFails, Die
<1>4. CASE CommitFails(c)
  BY <1>4, CommitFailsDeliveryInv
<1>5. CASE Crash(c)
  BY <1>5, CursorsUntouched DEF Crash
<1>6. CASE Cancel(c)
  BY <1>6, CursorsUntouched DEF Cancel
<1> QED
  BY <1>1, <1>2, <1>3, <1>4, <1>5, <1>6 DEF Disturbance

LEMMA ProduceDeliveryInv ==
  ASSUME TypeInv, DeliveryInv, NEW r \in Records, Produce(r)
  PROVE  DeliveryInv'
<1>1. \A o : Settled(o)' <=> Settled(o)
  BY DEF Produce, Settled
<1>2. Offsets' = Offsets \cup {Len(log)}
  BY DEF Produce, Offsets, TypeInv, TypeOK
<1> QED
  BY <1>1, <1>2
  DEF Produce, memberVars, TypeInv, TypeOK, DeliveryInv, CommittedSettled,
      NoGapBehindPosition, SettledBelowCur, SettledInHand

LEMMA NextDeliveryInv ==
  ASSUME OffsetReset = "earliest"
  PROVE  TypeInv /\ DeliveryInv /\ [Next]_vars => DeliveryInv'
<1> SUFFICES ASSUME TypeInv, DeliveryInv, [Next]_vars
             PROVE  DeliveryInv'
  OBVIOUS
<1>1. CASE UNCHANGED vars
  BY <1>1, CursorsUntouched DEF vars
<1>2. CASE \E r \in Records : Produce(r)
  BY <1>2, ProduceDeliveryInv
<1>3. CASE \E c \in Consumers : Progress(c) \/ Disturbance(c)
  BY <1>3, ProgressDeliveryInv, DisturbanceDeliveryInv
<1> QED
  BY <1>1, <1>2, <1>3 DEF Next

LEMMA DeliveryInvariant ==
  ASSUME OffsetReset = "earliest"
  PROVE  Spec => []DeliveryInv
  BY InitDeliveryInv, NextDeliveryInv, TypeInvariant, PTL DEF Spec

(* At-least-once: no crash, rebalance, retry or failure, however many of   *)
(* them there are, moves the committed offset past an unsettled record.    *)
THEOREM AtLeastOnceDelivery ==
  ASSUME OffsetReset = "earliest"
  PROVE  Spec => []CommittedSettled
  BY DeliveryInvariant, PTL DEF DeliveryInv

(* No member leaves an unsettled record behind its fetch position, unless  *)
(* the record is in the batch it has fetched.                              *)
THEOREM NoGaps ==
  ASSUME OffsetReset = "earliest"
  PROVE  Spec => []NoGapBehindPosition
  BY DeliveryInvariant, PTL DEF DeliveryInv

-----------------------------------------------------------------------------
(* The members implement AtLeastOnce.                                      *)

settledBar == {o \in Offsets : Settled(o)}
ackedBar == IF committed = NoOffset THEN 0 ELSE committed

(* A step that settles nothing but the record in hand, if that, and leaves *)
(* the topic and the committed offset alone is a Settle or a stutter.      *)
LEMMA SettlesAtMost ==
  ASSUME NEW o \in Offsets, UNCHANGED <<log, committed>>,
         \A p \in Offsets : Settled(p)' => Settled(p) \/ p = o,
         \A p : Settled(p) => Settled(p)'
  PROVE  Delivery!Settle \/ UNCHANGED <<log, settledBar, ackedBar>>
<1>1. Offsets' = Offsets /\ ackedBar' = ackedBar
  BY DEF Offsets, ackedBar
<1>2. CASE Settled(o)'
  <2>1. settledBar' = settledBar \cup {o}
    BY <1>1, <1>2 DEF settledBar
  <2> QED
    BY <1>1, <2>1 DEF Delivery!Settle, settledBar, ackedBar, Offsets
<1>3. CASE ~Settled(o)'
  <2>1. settledBar' = settledBar
    BY <1>1, <1>3 DEF settledBar
  <2> QED
    BY <1>1, <2>1
<1> QED
  BY <1>2, <1>3

(* The broker records a commit, of the record in hand: an Acknowledge.     *)
LEMMA CommitAcknowledges ==
  ASSUME TypeInv, DeliveryInv, NEW c \in Consumers, phase[c] = "committing",
         UNCHANGED <<log, handled, dlq>>, committed' = cur[c] + 1
  PROVE  Delivery!Acknowledge
<1>1. settledBar' = settledBar
  BY DEF settledBar, Settled, Offsets
<1>2. cur[c] + 1 \in 0 .. Len(log)
  BY DEF TypeInv, TypeOK, BusyInBatch, Busy
<1>3. 0 .. (cur[c] + 1) - 1 \subseteq settledBar
  <2>1. SUFFICES ASSUME NEW o \in 0 .. (cur[c] + 1) - 1
                 PROVE  o \in Offsets /\ Settled(o)
    BY DEF settledBar
  <2>2. o \in Offsets /\ (o < cur[c] \/ o = cur[c])
    BY <1>2 DEF Offsets, TypeInv, TypeOK
  <2> QED
    BY <2>2 DEF DeliveryInv, SettledBelowCur, SettledInHand
<1>4. ackedBar' = cur[c] + 1
  BY <1>2 DEF ackedBar, NoOffset
<1>5. Delivery!Acknowledge <=>
        /\ \E n \in 0 .. Len(log) :
             0 .. n - 1 \subseteq settledBar /\ ackedBar' = n
        /\ UNCHANGED <<log, settledBar>>
  BY DEF Delivery!Acknowledge, settledBar, ackedBar
<1> QED
  BY <1>1, <1>2, <1>3, <1>4, <1>5

LEMMA ProgressRefines ==
  ASSUME TypeInv, DeliveryInv, NEW c \in Consumers, Progress(c)
  PROVE  Delivery!Next \/ UNCHANGED <<log, settledBar, ackedBar>>
<1> USE DEF Delivery!Next
<1>1. ASSUME UNCHANGED <<log, dlq, handled, committed>>
      PROVE  UNCHANGED <<log, settledBar, ackedBar>>
  BY <1>1 DEF settledBar, ackedBar, Offsets, Settled
<1>2. Busy(c) => cur[c] \in Offsets
  BY DEF TypeInv, TypeOK, BusyInBatch, Offsets
<1>3. CASE HandlerReturns(c)
  BY <1>2, <1>3, SettlesAtMost DEF HandlerReturns, Busy, Settled, topicVars
<1>4. CASE ForwardToDlq(c)
  <2>1. DeadLetter(cur[c], attempt[c]).at = cur[c]
    BY DEF DeadLetter
  <2> QED
    BY <1>2, <1>4, <2>1, SettlesAtMost DEF ForwardToDlq, Busy, Settled
<1>5. CASE Commit(c)
  BY <1>5, CommitAcknowledges DEF Commit, topicVars
<1>6. CASE \/ Start(c) \/ Assign(c) \/ Fetch(c) \/ Yield(c)
           \/ HandlerRaises(c) \/ CommitRefused(c)
  BY <1>1, <1>6
  DEF Start, Assign, Take, Fetch, Yield, HandlerRaises, CommitRefused,
      topicVars
<1> QED
  BY <1>3, <1>4, <1>5, <1>6 DEF Progress

LEMMA DisturbanceRefines ==
  ASSUME TypeInv, DeliveryInv, NEW c \in Consumers, Disturbance(c)
  PROVE  Delivery!Next \/ UNCHANGED <<log, settledBar, ackedBar>>
<1> USE DEF Delivery!Next
<1>1. ASSUME UNCHANGED <<log, dlq, handled, committed>>
      PROVE  UNCHANGED <<log, settledBar, ackedBar>>
  BY <1>1 DEF settledBar, ackedBar, Offsets, Settled
<1>2. CASE ForwardFails(c)
  <2>1. cur[c] \in Offsets
    BY <1>2 DEF ForwardFails, TypeInv, TypeOK, BusyInBatch, Busy, Offsets
  <2>2. DeadLetter(cur[c], attempt[c]).at = cur[c]
    BY DEF DeadLetter
  <2> QED
    BY <1>2, <2>1, <2>2, SettlesAtMost DEF ForwardFails, Settled
<1>3. CASE CommitFails(c)
  BY <1>1, <1>3, CommitAcknowledges DEF CommitFails, topicVars
<1>4. CASE StartFails(c) \/ Rebalance(c) \/ Crash(c) \/ Cancel(c)
  BY <1>1, <1>4 DEF StartFails, Rebalance, Take, Crash, Cancel, topicVars
<1> QED
  BY <1>2, <1>3, <1>4 DEF Disturbance

(* A record is appended unsettled, so the settled offsets do not change.   *)
LEMMA ProduceRefines ==
  ASSUME TypeInv, NEW r \in Records, Produce(r)
  PROVE  Delivery!Publish
<1>1. ~Settled(Len(log))
  BY DEF TypeInv, TypeOK, Offsets, Settled
<1>2. \A o : Settled(o)' <=> Settled(o)
  BY DEF Produce, Settled
<1>3. Offsets' = Offsets \cup {Len(log)}
  BY DEF Produce, Offsets, TypeInv, TypeOK
<1>4. settledBar' = settledBar
  BY <1>1, <1>2, <1>3 DEF settledBar
<1> QED
  BY <1>4 DEF Produce, Delivery!Publish, settledBar

LEMMA StepRefines ==
  TypeInv /\ DeliveryInv /\ [Next]_vars => [Delivery!Next]_(Delivery!vars)
<1> SUFFICES ASSUME TypeInv, DeliveryInv, [Next]_vars
             PROVE  Delivery!Next \/ UNCHANGED <<log, settledBar, ackedBar>>
  BY DEF Delivery!vars, settledBar, ackedBar
<1>1. CASE UNCHANGED vars
  BY <1>1 DEF vars, settledBar, ackedBar, Offsets, Settled
<1>2. CASE \E r \in Records : Produce(r)
  BY <1>2, ProduceRefines DEF Delivery!Next
<1>3. CASE \E c \in Consumers : Progress(c) \/ Disturbance(c)
  BY <1>3, ProgressRefines, DisturbanceRefines
<1> QED
  BY <1>1, <1>2, <1>3 DEF Next

(* The group of consume_events tasks implements the promise of the bus:    *)
(* it acknowledges settled prefixes of the topic only.                     *)
THEOREM Refinement ==
  ASSUME OffsetReset = "earliest"
  PROVE  Spec => ImplementsDelivery
<1>1. Init => Delivery!Init
  BY DEF Init, Delivery!Init, Offsets, NoOffset
<1> QED
  BY <1>1, StepRefines, TypeInvariant, DeliveryInvariant, PTL
  DEF Spec, Delivery!Spec, ImplementsDelivery

-----------------------------------------------------------------------------
(* Steps.                                                                  *)

(* A record is appended to the topic, and the group is not involved.       *)
Appended(r) == log' = Append(log, r) /\ UNCHANGED groupVars

(* Every step is one of the members', one that appends, or one that leaves *)
(* topic and group alone.                                                  *)
LEMMA StepKinds ==
  ASSUME [BusNext]_busVars
  PROVE  \/ UNCHANGED <<log, groupVars>>
         \/ \E r \in Records : Appended(r)
         \/ \E c \in Consumers : Progress(c) \/ Disturbance(c)
<1>1. CASE UNCHANGED busVars
  BY <1>1 DEF busVars
<1>2. CASE Publish
  BY <1>2 DEF Publish, Publisher!Next, Publisher!Call, Publisher!Advance,
     Publisher!StartTransport, Publisher!StartTransportFails, Publisher!Send,
     Publisher!SendFails, Publisher!Forward, Publisher!ForwardFails,
     Publisher!Kill, Appended, Records
<1>3. CASE Consume
  BY <1>3 DEF Consume
<1>4. CASE Pollute
  BY <1>4 DEF Pollute, Produce, memberVars, Appended, groupVars, Records
<1> QED
  BY <1>1, <1>2, <1>3, <1>4 DEF BusNext

-----------------------------------------------------------------------------
(* The group, with a topic that anybody may append to.                     *)

LEMMA AppendKeepsTypes ==
  ASSUME TypeInv, NEW r \in Records, Appended(r)
  PROVE  TypeInv'
  BY DEF Appended, groupVars, Records, TypeInv, TypeOK, BusyInBatch, Busy,
     Offsets

(* The new record is behind every cursor, so nothing has to settle it yet. *)
LEMMA AppendKeepsDelivery ==
  ASSUME TypeInv, DeliveryInv, NEW r \in Records, Appended(r)
  PROVE  DeliveryInv'
<1>1. \A o : Settled(o)' <=> Settled(o)
  BY DEF Appended, groupVars, Settled
<1>2. Offsets' = Offsets \cup {Len(log)}
  BY DEF Appended, Offsets, TypeInv, TypeOK
<1> QED
  BY <1>1, <1>2
  DEF Appended, groupVars, TypeInv, TypeOK, DeliveryInv, CommittedSettled,
     NoGapBehindPosition, SettledBelowCur, SettledInHand

LEMMA GroupInit ==
  BusInit => TypeInv /\ DeliveryInv
<1>1. BusInit => Init
  BY DEF BusInit, Init, NoOffset
<1> QED
  BY <1>1, InitTypeInv, InitDeliveryInv

LEMMA TypesKept ==
  TypeInv /\ [BusNext]_busVars => TypeInv'
<1> SUFFICES ASSUME TypeInv, [BusNext]_busVars
             PROVE  TypeInv'
  OBVIOUS
<1>1. CASE UNCHANGED <<log, groupVars>>
  <2>1. UNCHANGED vars
    BY <1>1 DEF groupVars, vars
  <2> QED
    BY <2>1, NextTypeInv
<1>2. CASE \E r \in Records : Appended(r)
  BY <1>2, AppendKeepsTypes
<1>3. CASE \E c \in Consumers : Progress(c) \/ Disturbance(c)
  <2>1. Next
    BY <1>3 DEF Next
  <2> QED
    BY <2>1, NextTypeInv
<1> QED
  BY <1>1, <1>2, <1>3, StepKinds

LEMMA DeliveryKept ==
  ASSUME OffsetReset = "earliest"
  PROVE  TypeInv /\ DeliveryInv /\ [BusNext]_busVars
           => DeliveryInv'
<1> SUFFICES ASSUME TypeInv, DeliveryInv, [BusNext]_busVars
             PROVE  DeliveryInv'
  OBVIOUS
<1>1. CASE UNCHANGED <<log, groupVars>>
  <2>1. UNCHANGED vars
    BY <1>1 DEF groupVars, vars
  <2> QED
    BY <2>1, NextDeliveryInv
<1>2. CASE \E r \in Records : Appended(r)
  BY <1>2, AppendKeepsDelivery
<1>3. CASE \E c \in Consumers : Progress(c) \/ Disturbance(c)
  <2>1. Next
    BY <1>3 DEF Next
  <2> QED
    BY <2>1, NextDeliveryInv
<1> QED
  BY <1>1, <1>2, <1>3, StepKinds

-----------------------------------------------------------------------------
(* The dead-letter topic holds copies of the records it refers to.         *)

CopiesKept == \A d \in dlq : d.rec = log[d.at + 1]

(* All a member's step may do to the topics.                               *)
LEMMA MemberWrites ==
  ASSUME NEW c \in Consumers, Progress(c) \/ Disturbance(c)
  PROVE  /\ UNCHANGED log
         /\ dlq' \subseteq dlq \cup {DeadLetter(cur[c], attempt[c])}
<1> USE DEF topicVars
<1>1. CASE Progress(c)
  BY <1>1 DEF Progress, Start, Assign, Take, Fetch, Yield, HandlerReturns,
     HandlerRaises, ForwardToDlq, Commit, CommitRefused
<1>2. CASE Disturbance(c)
  BY <1>2 DEF Disturbance, StartFails, Rebalance, Take, ForwardFails,
     CommitFails, Crash, Cancel
<1> QED
  BY <1>1, <1>2

LEMMA CopiesStayKept ==
  TypeInv /\ CopiesKept /\ [BusNext]_busVars => CopiesKept'
<1> SUFFICES ASSUME TypeInv, CopiesKept, [BusNext]_busVars
             PROVE  CopiesKept'
  OBVIOUS
<1>1. CASE UNCHANGED <<log, groupVars>>
  BY <1>1 DEF groupVars, CopiesKept
<1>2. ASSUME NEW r \in Records, Appended(r)
      PROVE  CopiesKept'
  <2>1. \A o \in Offsets : log'[o + 1] = log[o + 1]
    BY <1>2 DEF Appended, TypeInv, TypeOK, Offsets
  <2>2. \A d \in dlq : d.at \in Offsets
    BY DEF TypeInv, TypeOK
  <2> QED
    BY <1>2, <2>1, <2>2 DEF Appended, groupVars, CopiesKept
<1>3. ASSUME NEW c \in Consumers, Progress(c) \/ Disturbance(c)
      PROVE  CopiesKept'
  BY <1>3, MemberWrites DEF CopiesKept, DeadLetter
<1> QED
  BY <1>1, <1>2, <1>3, StepKinds

-----------------------------------------------------------------------------
(* The publishers.                                                         *)

PublisherTypes ==
  /\ stage \in [Events -> {"idle", "starting", "sending", "forwarding",
                           "returned", "raised", "killed"}]
  /\ tries \in [Events -> Nat]

(* A call returns only after a send or a forward that succeeded.           *)
ReturnedStored ==
  \A e \in Events : stage[e] = "returned" =>
    e \in parked \/ \E o \in Offsets : log[o + 1] = e

PublisherInv == PublisherTypes /\ ReturnedStored

(* Appending takes no record off the topic and puts one there.             *)
LEMMA AppendStores ==
  ASSUME TypeInv, NEW r \in Records, log' = Append(log, r)
  PROVE  /\ \E o \in Offsets' : log'[o + 1] = r
         /\ \A o \in Offsets :
              o \in Offsets' /\ log'[o + 1] = log[o + 1]
<1>1. log \in Seq(Records) /\ Len(log) \in Nat
  BY DEF TypeInv, TypeOK, Records
<1>2. Len(log') = Len(log) + 1 /\ log'[Len(log) + 1] = r
  BY <1>1
<1>3. Len(log) \in Offsets'
  BY <1>1, <1>2 DEF Offsets
<1> QED
  BY <1>1, <1>2, <1>3 DEF Offsets

LEMMA PublisherInvKept ==
  TypeInv /\ PublisherInv /\ [BusNext]_busVars => PublisherInv'
<1> SUFFICES ASSUME TypeInv, PublisherInv, [BusNext]_busVars
             PROVE  PublisherInv'
  OBVIOUS
<1> USE DEF PublisherInv, PublisherTypes
<1>1. CASE UNCHANGED <<log, publisherVars>>
  BY <1>1 DEF publisherVars, ReturnedStored, Offsets
<1>2. ASSUME NEW e \in Events, Publisher!Call(e) \/ Publisher!Advance(e)
      PROVE  PublisherInv'
  <2>1. PublisherTypes'
    BY <1>2, PublisherAssumption
       DEF Publisher!Call, Publisher!Advance, Publisher!StartTransport,
          Publisher!StartTransportFails, Publisher!Send, Publisher!SendFails,
          Publisher!Forward, Publisher!ForwardFails
  <2>2. e \in Records
    BY DEF Records
  <2>3. CASE Publisher!Send(e)
    <3>1. /\ \E o \in Offsets' : log'[o + 1] = e
          /\ \A o \in Offsets :
               o \in Offsets' /\ log'[o + 1] = log[o + 1]
      BY <2>2, <2>3, AppendStores DEF Publisher!Send
    <3>2. \A f \in Events : stage'[f] = "returned" => stage[f] = "returned" \/ f = e
      BY <2>3 DEF Publisher!Send
    <3>3. ASSUME NEW f \in Events, stage'[f] = "returned"
          PROVE  f \in parked' \/ \E o \in Offsets' : log'[o + 1] = f
      <4>1. CASE f = e
        BY <3>1, <4>1
      <4>2. CASE f # e
        <5>1. f \in parked \/ \E o \in Offsets : log[o + 1] = f
          BY <3>2, <3>3, <4>2 DEF ReturnedStored
        <5> QED
          BY <2>3, <3>1, <5>1 DEF Publisher!Send
      <4> QED
        BY <4>1, <4>2
    <3> QED
      BY <2>1, <3>3 DEF ReturnedStored
  <2>4. CASE Publisher!SendFails(e)
    <3>1. \A f \in Events : stage'[f] = "returned" => stage[f] = "returned"
      BY <2>4 DEF Publisher!SendFails
    <3>2. CASE log' = Append(log, e)
      <4>1. \A o \in Offsets :
              o \in Offsets' /\ log'[o + 1] = log[o + 1]
        BY <2>2, <3>2, AppendStores
      <4> QED
        BY <2>1, <2>4, <3>1, <4>1 DEF Publisher!SendFails, ReturnedStored
    <3>3. CASE UNCHANGED log
      BY <2>1, <2>4, <3>1, <3>3 DEF Publisher!SendFails, ReturnedStored,
         Offsets
    <3> QED
      BY <2>4, <3>2, <3>3 DEF Publisher!SendFails
  <2>5. CASE \/ Publisher!Call(e) \/ Publisher!StartTransport(e)
             \/ Publisher!StartTransportFails(e) \/ Publisher!Forward(e)
             \/ Publisher!ForwardFails(e)
    BY <2>1, <2>5
       DEF Publisher!Call, Publisher!StartTransport,
          Publisher!StartTransportFails, Publisher!Forward,
          Publisher!ForwardFails, ReturnedStored, Offsets
  <2> QED
    BY <1>2, <2>3, <2>4, <2>5 DEF Publisher!Advance
<1>3. CASE Publisher!Kill
  BY <1>3 DEF Publisher!Kill, ReturnedStored, Offsets
<1>4. CASE Consume
  <2>1. UNCHANGED log
    BY <1>4, MemberWrites DEF Consume
  <2> QED
    BY <1>1, <1>4, <2>1 DEF Consume
<1>5. CASE Pollute
  <2>1. PICK r \in Poison : log' = Append(log, r)
    BY <1>5 DEF Pollute, Produce
  <2>2. r \in Records
    BY DEF Records
  <2> QED
    BY <1>5, <2>1, <2>2, AppendStores DEF Pollute, publisherVars,
       ReturnedStored
<1> QED
  BY <1>1, <1>2, <1>3, <1>4, <1>5 DEF BusNext, Publish, Publisher!Next, busVars

-----------------------------------------------------------------------------
(* Duplicates.                                                             *)

LEMMA CopiesFinite ==
  ASSUME TypeInv, NEW e
  PROVE  IsFiniteSet(Copies(e)) /\ Cardinality(Copies(e)) \in Nat
<1>1. Len(log) \in Nat /\ DOMAIN log = 1 .. Len(log)
  BY DEF TypeInv, TypeOK
<1>2. IsFiniteSet(1 .. Len(log))
  BY <1>1, FS_Interval
<1>3. Copies(e) \in SUBSET (1 .. Len(log))
  BY <1>1 DEF Copies
<1>4. IsFiniteSet(Copies(e))
  BY <1>2, <1>3, FS_Subset
<1> QED
  BY <1>4, FS_CardinalityType

(* Appending an event makes one more copy of it, and of no other.          *)
LEMMA AppendCopies ==
  ASSUME TypeInv, NEW r \in Records, NEW e, log' = Append(log, r)
  PROVE  Cardinality(Copies(e)') =
           IF r = e THEN Cardinality(Copies(e)) + 1 ELSE Cardinality(Copies(e))
<1>1. log \in Seq(Records) /\ Len(log) \in Nat
  BY DEF TypeInv, TypeOK, Records
<1>2. /\ DOMAIN log' = DOMAIN log \cup {Len(log) + 1}
      /\ log'[Len(log) + 1] = r
      /\ \A i \in DOMAIN log : log'[i] = log[i]
      /\ Len(log) + 1 \notin DOMAIN log
  BY <1>1
<1>3. CASE r # e
  BY <1>2, <1>3 DEF Copies
<1>4. CASE r = e
  <2>1. /\ Copies(e)' = Copies(e) \cup {Len(log) + 1}
        /\ Len(log) + 1 \notin Copies(e)
    BY <1>2, <1>4 DEF Copies
  <2>2. IsFiniteSet(Copies(e))
    BY CopiesFinite
  <2> QED
    BY <1>4, <2>1, <2>2, FS_AddElement
<1> QED
  BY <1>3, <1>4

(* CopiesBounded is not inductive: a call that may still send has to have  *)
(* an attempt left, and at most one copy for each attempt that failed.     *)
MaySend(e) == stage[e] \in {"idle", "starting", "sending"}

AttemptsLeft(e) ==
  MaySend(e) => /\ tries[e] <= MaxPublishRetries
                /\ Cardinality(Copies(e)) <= tries[e]

CopiesInv == CopiesBounded /\ \A e \in Events : AttemptsLeft(e)

LEMMA CopiesBoundKept ==
  TypeInv /\ PublisherInv /\ CopiesInv /\ [BusNext]_busVars => CopiesInv'
<1> SUFFICES ASSUME TypeInv, PublisherInv, CopiesInv,
                    [BusNext]_busVars, NEW f \in Events
             PROVE  /\ Cardinality(Copies(f)') <= MaxPublishRetries + 1
                    /\ AttemptsLeft(f)'
  BY DEF CopiesInv, CopiesBounded
<1>1. /\ Cardinality(Copies(f)) <= MaxPublishRetries + 1
      /\ Cardinality(Copies(f)) \in Nat
      /\ AttemptsLeft(f)
      /\ MaxPublishRetries \in Nat
  BY CopiesFinite, PublisherAssumption DEF CopiesInv, CopiesBounded
<1>2. ASSUME UNCHANGED log, MaySend(f)' => MaySend(f) /\ tries'[f] = tries[f]
      PROVE  /\ Cardinality(Copies(f)') <= MaxPublishRetries + 1
             /\ AttemptsLeft(f)'
  <2>1. Copies(f)' = Copies(f)
    BY <1>2 DEF Copies
  <2> QED
    BY <1>1, <1>2, <2>1 DEF AttemptsLeft
<1>3. ASSUME NEW e \in Events, Publisher!Call(e) \/ Publisher!Advance(e)
      PROVE  /\ Cardinality(Copies(f)') <= MaxPublishRetries + 1
             /\ AttemptsLeft(f)'
  <2> USE DEF PublisherInv, PublisherTypes
  <2>1. e \in Records
    BY DEF Records
  <2>2. CASE /\ Publisher!Send(e) \/ Publisher!SendFails(e)
             /\ f = e
    <3>1. MaySend(e) /\ tries[e] \in Nat
      BY <2>2 DEF Publisher!Send, Publisher!SendFails, MaySend
    <3>2. /\ tries[e] <= MaxPublishRetries
          /\ Cardinality(Copies(e)) <= tries[e]
      BY <1>1, <2>2, <3>1 DEF AttemptsLeft
    <3>3. Cardinality(Copies(e)') <= Cardinality(Copies(e)) + 1
      <4>1. CASE log' = Append(log, e)
        BY <1>1, <2>1, <2>2, <4>1, AppendCopies
      <4>2. CASE UNCHANGED log
        <5>1. Copies(e)' = Copies(e)
          BY <4>2 DEF Copies
        <5> QED
          BY <1>1, <2>2, <5>1
      <4> QED
        BY <2>2, <4>1, <4>2 DEF Publisher!Send, Publisher!SendFails
    <3>4. Cardinality(Copies(e)') \in Nat
      <4>1. CASE log' = Append(log, e)
        BY <1>1, <2>1, <2>2, <4>1, AppendCopies
      <4>2. CASE UNCHANGED log
        BY <1>1, <2>2, <4>2 DEF Copies
      <4> QED
        BY <2>2, <4>1, <4>2 DEF Publisher!Send, Publisher!SendFails
    <3>5. MaySend(e)' => /\ tries'[e] = tries[e] + 1
                         /\ tries[e] < MaxPublishRetries
      BY <2>2, <3>1 DEF Publisher!Send, Publisher!SendFails, MaySend
    <3> QED
      BY <1>1, <2>2, <3>1, <3>2, <3>3, <3>4, <3>5 DEF AttemptsLeft
  <2>3. CASE /\ Publisher!Send(e) \/ Publisher!SendFails(e)
             /\ f # e
    <3>1. Cardinality(Copies(f)') = Cardinality(Copies(f))
      <4>1. CASE log' = Append(log, e)
        BY <2>1, <2>3, <4>1, AppendCopies
      <4>2. CASE UNCHANGED log
        BY <4>2 DEF Copies
      <4> QED
        BY <2>3, <4>1, <4>2 DEF Publisher!Send, Publisher!SendFails
    <3>2. stage'[f] = stage[f] /\ tries'[f] = tries[f]
      BY <2>3 DEF Publisher!Send, Publisher!SendFails
    <3> QED
      BY <1>1, <3>1, <3>2 DEF AttemptsLeft, MaySend
  <2>4. CASE \/ Publisher!Call(e) \/ Publisher!StartTransport(e)
             \/ Publisher!StartTransportFails(e) \/ Publisher!Forward(e)
             \/ Publisher!ForwardFails(e)
    BY <1>2, <2>4
       DEF Publisher!Call, Publisher!StartTransport,
          Publisher!StartTransportFails, Publisher!Forward,
          Publisher!ForwardFails, MaySend
  <2> QED
    BY <1>3, <2>2, <2>3, <2>4 DEF Publisher!Advance
<1>4. CASE Publisher!Kill \/ Consume \/ UNCHANGED busVars
  <2>1. UNCHANGED log
    BY <1>4, MemberWrites DEF Publisher!Kill, Consume, busVars
  <2>2. MaySend(f)' => MaySend(f) /\ tries'[f] = tries[f]
    BY <1>4 DEF Publisher!Kill, Consume, busVars, publisherVars, MaySend,
       Publisher!InFlight, PublisherInv, PublisherTypes
  <2> QED
    BY <1>2, <2>1, <2>2
<1>5. CASE Pollute
  <2>1. PICK r \in Poison : log' = Append(log, r) /\ UNCHANGED publisherVars
    BY <1>5 DEF Pollute, Produce
  <2>2. r \in Records /\ r # f
    BY ConsumerAssumption DEF Records
  <2>3. Cardinality(Copies(f)') = Cardinality(Copies(f))
    BY <2>1, <2>2, AppendCopies
  <2> QED
    BY <1>1, <2>1, <2>3 DEF publisherVars, AttemptsLeft, MaySend
<1> QED
  BY <1>3, <1>4, <1>5 DEF BusNext, Publish, Publisher!Next

-----------------------------------------------------------------------------
(* Theorems.                                                               *)

LEMMA BusInvariant ==
  BusSpec => [](TypeInv /\ PublisherInv /\ CopiesKept)
<1>1. BusInit => PublisherInv /\ CopiesKept
  BY DEF BusInit, Publisher!Init, Init, PublisherInv, PublisherTypes,
     ReturnedStored, CopiesKept
<1> QED
  BY <1>1, GroupInit, TypesKept, PublisherInvKept, CopiesStayKept, PTL
     DEF BusSpec

(* An event is on the topic at most max_retries + 1 times, for every retry *)
(* budget: whatever the group or other calls do, and whichever of its      *)
(* failed attempts had reached the broker (producer.py:101-102).           *)
THEOREM DuplicatesBounded == BusSpec => []CopiesBounded
<1>1. BusInit => CopiesInv
  <2>1. BusInit => \A e : Copies(e) = {}
    BY DEF BusInit, Init, Copies
  <2>2. Cardinality({}) = 0 /\ MaxPublishRetries \in Nat
    BY FS_EmptySet, PublisherAssumption
  <2>3. ASSUME BusInit, NEW e \in Events
        PROVE  tries[e] = 0
    BY <2>3 DEF BusInit, Publisher!Init
  <2>4. ASSUME BusInit, NEW e \in Events
        PROVE  /\ Cardinality(Copies(e)) <= MaxPublishRetries + 1
               /\ AttemptsLeft(e)
    <3>1. Cardinality(Copies(e)) = 0
      BY <2>1, <2>2, <2>4
    <3> QED
      BY <2>2, <3>1, <2>3, <2>4 DEF AttemptsLeft
  <2> QED
    BY <2>4 DEF CopiesInv, CopiesBounded
<1>2. CopiesInv => CopiesBounded
  BY DEF CopiesInv
<1> QED
  BY <1>1, <1>2, CopiesBoundKept, BusInvariant, PTL DEF BusSpec

(* An event whose publish_event call returned is dead-lettered, handled or *)
(* ahead of the committed offset, wherever the two services fail, restart  *)
(* or retry.  The group has to read from the earliest record.              *)
THEOREM NotLostBetweenServices ==
  ASSUME OffsetReset = "earliest"
  PROVE  BusSpec => []PublishedNotLost
<1>1. BusSpec => []DeliveryInv
  BY GroupInit, DeliveryKept, BusInvariant, PTL DEF BusSpec
<1>2. TypeInv /\ PublisherInv /\ CopiesKept /\ DeliveryInv
        => PublishedNotLost
  <2> SUFFICES ASSUME TypeInv, PublisherInv, CopiesKept,
                      DeliveryInv, NEW e \in Events,
                      stage[e] = "returned", ~DeadLettered(e)
               PROVE  \E o \in Offsets :
                        log[o + 1] = e /\ (o \in handled \/ committed <= o)
    BY DEF PublishedNotLost
  <2>1. PICK o \in Offsets : log[o + 1] = e
    BY DEF PublisherInv, ReturnedStored, DeadLettered
  <2>2. CASE o < committed
    <3>1. Settled(o)
      BY <2>2 DEF DeliveryInv, CommittedSettled
    <3>2. o \in handled
      BY <2>1, <3>1 DEF Settled, CopiesKept, DeadLettered
    <3> QED
      BY <2>1, <3>2 DEF Offsets
  <2>3. CASE ~(o < committed)
    <3>1. committed <= o
      BY <2>3 DEF TypeInv, TypeOK, Offsets
    <3> QED
      BY <2>1, <3>1 DEF Offsets
  <2> QED
    BY <2>2, <2>3
<1> QED
  BY <1>1, <1>2, BusInvariant, PTL

-----------------------------------------------------------------------------
(* A step of the audit service is a step of the consumer group, or none.   *)

LEMMA ProcessStepOfGroup ==
  ASSUME NEW c \in Consumers, Process(c)
  PROVE  Progress(c) \/ Disturbance(c) \/ UNCHANGED vars
<1> USE DEF Progress, Disturbance, topicVars, Fault, Leave
<1>1. CASE StartProcess(c)
  BY <1>1 DEF StartProcess, Start, StartFails
<1>2. CASE ConsumeStep(c)
  BY <1>2 DEF ConsumeStep
<1>3. CASE CrashProcess(c)
  BY <1>3 DEF CrashProcess, Crash
<1>4. CASE HandleEnvelope(c) \/ HandlerFlushReturns(c)
  BY <1>4 DEF HandleEnvelope, HandlerFlushReturns, HandlerReturns
<1>5. CASE HandlerFlushRaises(c)
  BY <1>5 DEF HandlerFlushRaises, HandlerRaises
<1>6. CASE \/ TimedFlush(c) \/ TimedFlushReturns(c) \/ TimedFlushRaises(c)
           \/ Drain(c) \/ FinalFlush(c)
  BY <1>6 DEF TimedFlush, TimedFlushReturns, TimedFlushRaises, Drain,
     FinalFlush
<1> QED
  BY <1>1, <1>2, <1>3, <1>4, <1>5, <1>6 DEF Process

LEMMA StepOfGroup == [AuditNext]_auditVars => [Next]_vars
<1> SUFFICES ASSUME [AuditNext]_auditVars
             PROVE  Next \/ UNCHANGED vars
  OBVIOUS
<1>1. CASE UNCHANGED auditVars
  BY <1>1 DEF auditVars
<1>2. CASE \E r \in Records : AuditProduce(r)
  BY <1>2 DEF AuditProduce, Next
<1>3. CASE \E c \in Consumers : Process(c)
  BY <1>3, ProcessStepOfGroup DEF Next
<1> QED
  BY <1>1, <1>2, <1>3 DEF AuditNext

LEMMA BehaviourOfGroup == AuditSpec => Spec
<1>1. AuditInit => Init
  BY DEF AuditInit
<1> QED
  BY <1>1, StepOfGroup, PTL DEF AuditSpec, Spec

(* The processes of the audit service consume as the abstract promise of   *)
(* the bus allows: whatever their batches, flushers and database do, what  *)
(* their group acknowledges is settled (consumer.py:650-731).  The group   *)
(* has to read from the earliest record.                                   *)
THEOREM AuditImplementsDelivery ==
  ASSUME OffsetReset = "earliest"
  PROVE  AuditSpec => ImplementsDelivery
<1>1. Spec => ImplementsDelivery
  BY Refinement
<1> QED
  BY <1>1, BehaviourOfGroup, PTL

LEMMA GroupTypeInvariant == AuditSpec => []TypeInv
  BY BehaviourOfGroup, TypeInvariant, PTL

LEMMA GroupDelivers ==
  ASSUME OffsetReset = "earliest"
  PROVE  AuditSpec => []CommittedSettled
<1>1. Spec => []CommittedSettled
  BY AtLeastOnceDelivery
<1> QED
  BY <1>1, BehaviourOfGroup, PTL

-----------------------------------------------------------------------------
(* The tables agree: already inductive, since whatever flush_batch writes  *)
(* it writes to all three of them in one transaction.                      *)

LEMMA FlushKeepsTables ==
  ASSUME TablesAgree, NEW c, FlushReturns(c)
  PROVE  TablesAgree'
<1>1. CASE SecurityConflict(c)
  BY <1>1 DEF FlushReturns, dbVars, TablesAgree
<1>2. CASE ~SecurityConflict(c)
  BY <1>2 DEF FlushReturns, TablesAgree, Promoted
<1> QED
  BY <1>1, <1>2

(* However the flushes of any number of processes are ordered, and however *)
(* often an event is flushed, every audit event has its payload and the    *)
(* security dashboard has exactly those of a security type                 *)
(* (flush_batch, consumer.py:428-510).                                     *)
THEOREM TablesStayInStep == AuditSpec => []TablesAgree
<1>1. AuditInit => TablesAgree
  BY DEF AuditInit, TablesAgree
<1>2. TablesAgree /\ [AuditNext]_auditVars => TablesAgree'
  <2> SUFFICES ASSUME TablesAgree, [AuditNext]_auditVars
               PROVE  TablesAgree'
    OBVIOUS
  <2>1. CASE UNCHANGED dbVars
    BY <2>1 DEF dbVars, TablesAgree
  <2>2. CASE \E c \in Consumers : FlushReturns(c)
    BY <2>2, FlushKeepsTables
  <2>3. UNCHANGED dbVars \/ \E c \in Consumers : FlushReturns(c)
    BY DEF AuditNext, auditVars, AuditProduce, Process, StartProcess,
       ConsumeStep, CrashProcess, HandleEnvelope, HandlerFlushReturns,
       HandlerFlushRaises, TimedFlush, TimedFlushReturns, TimedFlushRaises,
       Drain, FinalFlush, FlushRaises
  <2> QED
    BY <2>1, <2>2, <2>3
<1> QED
  BY <1>1, <1>2, PTL DEF AuditSpec

-----------------------------------------------------------------------------
(* CommittedAccountedFor.  A committed record is settled, says the group:  *)
(* dead-lettered, or a handler call has returned for it.  What is left to  *)
(* show is about the audit service alone: the events whose handler call    *)
(* returned stay accounted for, though the call only buffered them.        *)

Accounted(e) ==
  \/ e \in auditRows
  \/ e \in dropped
  \/ \E c \in Consumers : e \in Buffered(c)

HandledAccounted == \A o \in handled : Accounted(log[o + 1])

(* What a flush in progress relies on: the rows its SELECT found are still *)
(* there, and the record its handler call is about is in the batch.        *)
FlushSound(c) ==
  /\ flush[c].seen \subseteq auditRows
  /\ flush[c].by = "handler" =>
       phase[c] = "handling" /\ log[cur[c] + 1] \in Buffered(c)

(* The two variables of processes are functions of the process, and a      *)
(* batch is a sequence of records.                                         *)
BatchesWellFormed ==
  /\ batch \in [Consumers -> Seq(Records)]
  /\ flush = [c \in Consumers |-> flush[c]]

AuditInv ==
  /\ BatchesWellFormed
  /\ HandledAccounted
  /\ \A c \in Consumers : FlushSound(c)

(* A step changes the variables of processes at c, if anywhere.            *)
OnlyAt(c) ==
  /\ batch' = [batch EXCEPT ![c] = batch'[c]]
  /\ flush' = [flush EXCEPT ![c] = flush'[c]]
  /\ phase' = [phase EXCEPT ![c] = phase'[c]]
  /\ cur' = [cur EXCEPT ![c] = cur'[c]]

LEMMA InitAuditInv == AuditInit => AuditInv
  BY DEF AuditInit, Init, AuditInv, BatchesWellFormed, HandledAccounted,
     FlushSound, NoFlush

(* The record in hand is one of the log.                                   *)
LEMMA InHand ==
  ASSUME TypeInv, NEW c \in Consumers, phase[c] = "handling"
  PROVE  cur[c] \in Offsets /\ log[cur[c] + 1] \in Records
<1>1. cur[c] \in Offsets
  BY DEF TypeInv, TypeOK, BusyInBatch, Busy, Offsets
<1> QED
  BY <1>1 DEF TypeInv, TypeOK, Offsets

(* A step of one process keeps the invariant if what it takes out of its   *)
(* batch is stored or dropped, what it adds to handled is accounted for,   *)
(* and the flush it may have begun is sound.                               *)
LEMMA OneProcessMoves ==
  ASSUME TypeInv, AuditInv, NEW c \in Consumers, OnlyAt(c),
         UNCHANGED log,
         auditRows \subseteq auditRows', dropped \subseteq dropped',
         batch'[c] \in Seq(Records),
         Buffered(c) \subseteq auditRows' \cup dropped' \cup Buffered(c)',
         \A o \in handled' \ handled : Accounted(log[o + 1])',
         FlushSound(c)'
  PROVE  AuditInv'
<1>1. \A d \in Consumers \ {c} :
        /\ batch'[d] = batch[d] /\ flush'[d] = flush[d]
        /\ phase'[d] = phase[d] /\ cur'[d] = cur[d]
  BY DEF OnlyAt, AuditInv, BatchesWellFormed, TypeInv, TypeOK
<1>2. \A d \in Consumers \ {c} : Buffered(d)' = Buffered(d)
  BY <1>1 DEF Buffered
<1>3. ASSUME NEW e, Accounted(e)
      PROVE  Accounted(e)'
  BY <1>2, <1>3 DEF Accounted
<1>4. HandledAccounted'
  BY <1>3 DEF AuditInv, HandledAccounted
<1>5. ASSUME NEW d \in Consumers \ {c}
      PROVE  FlushSound(d)'
  BY <1>1, <1>2 DEF AuditInv, FlushSound
<1>6. BatchesWellFormed'
  BY <1>1 DEF OnlyAt, AuditInv, BatchesWellFormed
<1> QED
  BY <1>4, <1>5, <1>6 DEF AuditInv

(* Everything a step may leave alone it changes only at c.                 *)
LEMMA KeptElsewhere ==
  ASSUME TypeInv, AuditInv, NEW c \in Consumers
  PROVE  /\ UNCHANGED batch => batch' = [batch EXCEPT ![c] = batch'[c]]
         /\ UNCHANGED flush => flush' = [flush EXCEPT ![c] = flush'[c]]
         /\ UNCHANGED phase => phase' = [phase EXCEPT ![c] = phase'[c]]
         /\ UNCHANGED cur => cur' = [cur EXCEPT ![c] = cur'[c]]
         /\ batch[c] \in Seq(Records)
  BY DEF AuditInv, BatchesWellFormed, TypeInv, TypeOK

(* What a step writes at c is found there.                                 *)
LEMMA WrittenAt ==
  ASSUME TypeInv, AuditInv, NEW c \in Consumers
  PROVE  /\ \A b : batch' = [batch EXCEPT ![c] = b] => batch'[c] = b
         /\ \A f : flush' = [flush EXCEPT ![c] = f] => flush'[c] = f
         /\ \A p : phase' = [phase EXCEPT ![c] = p] => phase'[c] = p
         /\ \A n : cur' = [cur EXCEPT ![c] = n] => cur'[c] = n
  BY DEF AuditInv, BatchesWellFormed, TypeInv, TypeOK

(* Giving a batch up drops what is in no table.                            *)
LEMMA DropAccounts ==
  ASSUME NEW c \in Consumers, DropBatch(c), UNCHANGED auditRows
  PROVE  /\ batch' = [batch EXCEPT ![c] = <<>>]
         /\ dropped \subseteq dropped'
         /\ Buffered(c) \subseteq auditRows' \cup dropped'
  BY DEF DropBatch

(* A flush that returns leaves the batch empty, and its events stored, by  *)
(* itself or by who its SELECT saw before it, or dropped.                  *)
LEMMA FlushAccounts ==
  ASSUME NEW c \in Consumers, FlushSound(c), FlushReturns(c)
  PROVE  /\ batch' = [batch EXCEPT ![c] = <<>>]
         /\ flush' = [flush EXCEPT ![c] = NoFlush]
         /\ auditRows \subseteq auditRows' /\ dropped \subseteq dropped'
         /\ Buffered(c) \subseteq auditRows' \cup dropped'
<1>1. CASE SecurityConflict(c)
  BY <1>1, DropAccounts DEF FlushReturns, dbVars
<1>2. CASE ~SecurityConflict(c)
  BY <1>2 DEF FlushReturns, Fresh, FlushSound
<1> QED
  BY <1>1, <1>2 DEF FlushReturns

(* Between flushes there is nothing for a flush to rely on.                *)
LEMMA NoFlushSound ==
  ASSUME NEW c \in Consumers, flush'[c] = NoFlush
  PROVE  FlushSound(c)'
  BY DEF FlushSound, NoFlush

LEMMA StartKeepsAccounts ==
  ASSUME TypeInv, AuditInv, NEW c \in Consumers, StartProcess(c)
  PROVE  AuditInv'
<1>1. /\ UNCHANGED <<log, handled, flush, auditRows>>
      /\ phase[c] # "handling"
  BY DEF StartProcess, Start, StartFails, topicVars, dbVars
<1>2. /\ batch' = [batch EXCEPT ![c] = <<>>]
      /\ dropped \subseteq dropped'
      /\ Buffered(c) \subseteq auditRows' \cup dropped'
  BY <1>1, DropAccounts DEF StartProcess
<1>3. OnlyAt(c) /\ batch'[c] = <<>>
  BY <1>1, <1>2, KeptElsewhere, WrittenAt
     DEF OnlyAt, StartProcess, Start, StartFails
<1>4. FlushSound(c)'
  BY <1>1 DEF AuditInv, FlushSound
<1>5. batch'[c] \in Seq(Records)
  BY <1>3
<1> QED
  BY <1>1, <1>2, <1>3, <1>4, <1>5, OneProcessMoves

LEMMA CrashKeepsAccounts ==
  ASSUME TypeInv, AuditInv, NEW c \in Consumers, CrashProcess(c)
  PROVE  AuditInv'
<1>1. UNCHANGED <<log, handled, cur, auditRows>>
  BY DEF CrashProcess, Crash, topicVars, dbVars
<1>2. /\ batch' = [batch EXCEPT ![c] = <<>>]
      /\ dropped \subseteq dropped'
      /\ Buffered(c) \subseteq auditRows' \cup dropped'
  BY <1>1, DropAccounts DEF CrashProcess
<1>3. OnlyAt(c) /\ batch'[c] = <<>> /\ flush'[c] = NoFlush
  BY <1>1, <1>2, KeptElsewhere, WrittenAt DEF OnlyAt, CrashProcess, Crash
<1>4. batch'[c] \in Seq(Records) /\ FlushSound(c)'
  BY <1>3, NoFlushSound
<1> QED
  BY <1>1, <1>2, <1>3, <1>4, OneProcessMoves

(* What the group does outside its handler leaves handled and the batches  *)
(* alone, and happens between flushes of the process.                      *)
LEMMA ConsumeKeepsAccounts ==
  ASSUME TypeInv, AuditInv, NEW c \in Consumers, ConsumeStep(c)
  PROVE  AuditInv'
<1> USE DEF topicVars, Take, Die
<1>1. /\ UNCHANGED <<log, handled, batch, flush, auditRows, dropped>>
      /\ flush[c] = NoFlush
  BY DEF ConsumeStep, LoopFree, dbVars, Assign, Rebalance, Fetch, Yield,
     ForwardToDlq, ForwardFails, Commit, CommitRefused, CommitFails, Cancel
<1>2. /\ phase' = [phase EXCEPT ![c] = phase'[c]]
      /\ cur' = [cur EXCEPT ![c] = cur'[c]]
  <2>1. CASE Assign(c) \/ Rebalance(c)
    BY <2>1, KeptElsewhere DEF Assign, Rebalance
  <2>2. CASE Fetch(c)
    BY <2>2, KeptElsewhere, WrittenAt DEF Fetch
  <2>3. CASE Yield(c)
    BY <2>3, KeptElsewhere, WrittenAt DEF Yield
  <2>4. CASE ForwardToDlq(c) \/ ForwardFails(c) \/ Cancel(c)
    BY <2>4, KeptElsewhere, WrittenAt
       DEF ForwardToDlq, ForwardFails, Cancel
  <2>5. CASE Commit(c) \/ CommitRefused(c) \/ CommitFails(c)
    BY <2>5, KeptElsewhere, WrittenAt
       DEF Commit, CommitRefused, CommitFails
  <2> QED
    BY <2>1, <2>2, <2>3, <2>4, <2>5 DEF ConsumeStep
<1>3. OnlyAt(c)
  BY <1>1, <1>2, KeptElsewhere DEF OnlyAt
<1>4. batch'[c] \in Seq(Records) /\ Buffered(c)' = Buffered(c)
  BY <1>1, KeptElsewhere DEF Buffered
<1> QED
  BY <1>1, <1>3, <1>4, NoFlushSound, OneProcessMoves

(* The handler call: it only buffers the envelope, which is enough for the *)
(* group to take the record as handled when it returns.                    *)
LEMMA HandleKeepsAccounts ==
  ASSUME TypeInv, AuditInv, NEW c \in Consumers, HandleEnvelope(c)
  PROVE  AuditInv'
<1> DEFINE e == log[cur[c] + 1]
           added == Append(batch[c], e)
<1>1. /\ phase[c] = "handling" /\ flush[c] = NoFlush
      /\ e \in Records
      /\ batch[c] \in Seq(Records)
      /\ batch' = [batch EXCEPT ![c] = added]
      /\ UNCHANGED <<log, cur, auditRows, dropped>>
  BY InHand, KeptElsewhere DEF HandleEnvelope, LoopFree, dbVars, vars,
     HandlerReturns, topicVars
<1>2. /\ added \in Seq(Records)
      /\ {added[i] : i \in DOMAIN added} = Buffered(c) \cup {e}
  <2>1. /\ Len(added) = Len(batch[c]) + 1
        /\ \A i \in 1 .. Len(batch[c]) : added[i] = batch[c][i]
        /\ added[Len(batch[c]) + 1] = e
        /\ added \in Seq(Records)
    BY <1>1
  <2> QED
    BY <1>1, <2>1 DEF Buffered
<1>3. \/ HandlerReturns(c) /\ UNCHANGED flush
      \/ BeginFlush(c, "handler", Buffered(c) \cup {e}) /\ UNCHANGED vars
  BY <1>2 DEF HandleEnvelope
<1> HIDE DEF added
<1>4. batch'[c] = added /\ Buffered(c)' = Buffered(c) \cup {e}
  <2>1. batch'[c] = added
    BY <1>1, WrittenAt
  <2> QED
    BY <1>2, <2>1 DEF Buffered
<1>5. OnlyAt(c)
  BY <1>1, <1>3, <1>4, KeptElsewhere, WrittenAt
     DEF OnlyAt, HandlerReturns, BeginFlush, vars
<1>6. /\ FlushSound(c)'
      /\ \A o \in handled' \ handled : Accounted(log[o + 1])'
  <2>1. CASE HandlerReturns(c) /\ UNCHANGED flush
    <3>1. handled' = handled \cup {cur[c]} /\ flush'[c] = NoFlush
      BY <1>1, <2>1 DEF HandlerReturns
    <3> QED
      BY <1>1, <1>4, <3>1, NoFlushSound DEF Accounted
  <2>2. CASE BeginFlush(c, "handler", Buffered(c) \cup {e}) /\ UNCHANGED vars
    <3>1. /\ flush'[c] = [by |-> "handler",
                          seen |-> {x \in auditRows : x \in Buffered(c) \cup {e}}]
          /\ UNCHANGED <<handled, phase>>
      BY <2>2, WrittenAt DEF BeginFlush, vars
    <3> QED
      BY <1>1, <1>4, <3>1 DEF FlushSound
  <2> QED
    BY <1>3, <2>1, <2>2
<1> QED
  BY <1>1, <1>2, <1>4, <1>5, <1>6, OneProcessMoves

(* The flusher task and the finally block start a flush.                   *)
LEMMA BeginKeepsAccounts ==
  ASSUME TypeInv, AuditInv, NEW c \in Consumers, NEW who,
         who # "handler", flush[c] = NoFlush,
         BeginFlush(c, who, Buffered(c)) \/ UNCHANGED flush,
         UNCHANGED <<vars, batch, dbVars, dropped>>
  PROVE  AuditInv'
<1> USE DEF vars, dbVars
<1>1. /\ OnlyAt(c) /\ batch'[c] \in Seq(Records)
      /\ Buffered(c)' = Buffered(c)
  BY KeptElsewhere, WrittenAt DEF OnlyAt, BeginFlush, Buffered
<1>2. FlushSound(c)'
  <2>1. CASE UNCHANGED flush
    BY <2>1, NoFlushSound
  <2>2. CASE BeginFlush(c, who, Buffered(c))
    <3>1. flush'[c] = [by |-> who,
                       seen |-> {x \in auditRows : x \in Buffered(c)}]
      BY <2>2, WrittenAt DEF BeginFlush
    <3> QED
      BY <3>1 DEF FlushSound
  <2> QED
    BY <2>1, <2>2
<1> QED
  BY <1>1, <1>2, OneProcessMoves

(* A flush ends.                                                           *)
LEMMA FlushKeepsAccounts ==
  ASSUME TypeInv, AuditInv, NEW c \in Consumers,
         \/ HandlerFlushReturns(c) \/ HandlerFlushRaises(c)
         \/ TimedFlushReturns(c) \/ TimedFlushRaises(c) \/ FinalFlush(c)
  PROVE  AuditInv'
<1> USE DEF vars, dbVars
<1>1. FlushSound(c)
  BY DEF AuditInv
<1>2. UNCHANGED <<log, cur>>
  BY DEF HandlerFlushReturns, HandlerFlushRaises, TimedFlushReturns,
     TimedFlushRaises, FinalFlush, HandlerReturns, HandlerRaises, topicVars
<1>3. phase' = [phase EXCEPT ![c] = phase'[c]]
  BY KeptElsewhere, WrittenAt
     DEF HandlerFlushReturns, HandlerFlushRaises, TimedFlushReturns,
        TimedFlushRaises, FinalFlush, HandlerReturns, HandlerRaises
<1>4. \/ FlushReturns(c)
      \/ FlushRaises(c) /\ (UNCHANGED <<batch, dropped>> \/ DropBatch(c))
  BY DEF HandlerFlushReturns, HandlerFlushRaises, TimedFlushReturns,
     TimedFlushRaises, FinalFlush
<1>5. /\ flush' = [flush EXCEPT ![c] = NoFlush]
      /\ UNCHANGED batch \/ batch' = [batch EXCEPT ![c] = <<>>]
      /\ auditRows \subseteq auditRows' /\ dropped \subseteq dropped'
      /\ UNCHANGED batch \/ Buffered(c) \subseteq auditRows' \cup dropped'
  <2>1. CASE FlushReturns(c)
    BY <1>1, <2>1, FlushAccounts
  <2>2. CASE FlushRaises(c) /\ UNCHANGED <<batch, dropped>>
    BY <2>2 DEF FlushRaises
  <2>3. CASE FlushRaises(c) /\ DropBatch(c)
    BY <2>3, DropAccounts DEF FlushRaises
  <2> QED
    BY <1>4, <2>1, <2>2, <2>3
<1>6. /\ OnlyAt(c) /\ flush'[c] = NoFlush
      /\ batch'[c] \in Seq(Records)
  <2>1. /\ batch' = [batch EXCEPT ![c] = batch'[c]]
        /\ batch'[c] \in Seq(Records)
    <3>1. CASE UNCHANGED batch
      BY <3>1, KeptElsewhere
    <3>2. CASE batch' = [batch EXCEPT ![c] = <<>>]
      <4>1. batch'[c] = <<>>
        BY <3>2, WrittenAt
      <4>2. batch'[c] \in Seq(Records)
        BY <4>1
      <4> QED
        BY <3>2, <4>1, <4>2
    <3> QED
      BY <1>5, <3>1, <3>2
  <2>2. flush' = [flush EXCEPT ![c] = flush'[c]] /\ flush'[c] = NoFlush
    BY <1>5, WrittenAt
  <2>3. cur' = [cur EXCEPT ![c] = cur'[c]]
    BY <1>2, KeptElsewhere
  <2> QED
    BY <1>3, <2>1, <2>2, <2>3 DEF OnlyAt
<1>7. Buffered(c) \subseteq auditRows' \cup dropped' \cup Buffered(c)'
  BY <1>5 DEF Buffered
<1>8. \A o \in handled' \ handled : Accounted(log[o + 1])'
  <2>1. CASE HandlerFlushReturns(c)
    <3>1. handled' = handled \cup {cur[c]} /\ log[cur[c] + 1] \in Buffered(c)
      BY <1>1, <2>1 DEF HandlerFlushReturns, HandlerReturns, FlushSound
    <3>2. log[cur[c] + 1] \in auditRows' \cup dropped'
      BY <1>1, <2>1, <3>1, FlushAccounts DEF HandlerFlushReturns
    <3> QED
      BY <1>2, <3>1, <3>2 DEF Accounted
  <2>2. CASE ~HandlerFlushReturns(c)
    BY <2>2 DEF HandlerFlushRaises, TimedFlushReturns, TimedFlushRaises,
       FinalFlush, HandlerRaises
  <2> QED
    BY <2>1, <2>2
<1> QED
  BY <1>2, <1>5, <1>6, <1>7, <1>8, NoFlushSound, OneProcessMoves

(* A record is appended: nothing that is in the log moves.                 *)
LEMMA ProduceKeepsAccounts ==
  ASSUME TypeInv, AuditInv, NEW r \in Records, AuditProduce(r)
  PROVE  AuditInv'
<1>1. \A o \in Offsets : log'[o + 1] = log[o + 1]
  BY DEF AuditProduce, Produce, TypeInv, TypeOK, Offsets
<1>2. handled \subseteq Offsets
  BY DEF TypeInv, TypeOK
<1>3. UNCHANGED <<handled, phase, cur, batch, flush, auditRows, dropped>>
  BY DEF AuditProduce, Produce, memberVars, dbVars
<1>4. HandledAccounted'
  BY <1>1, <1>2, <1>3 DEF AuditInv, HandledAccounted, Accounted, Buffered
<1>5. ASSUME NEW c \in Consumers
      PROVE  FlushSound(c)'
  BY <1>1, <1>3, InHand DEF AuditInv, FlushSound, Buffered
<1>6. BatchesWellFormed'
  BY <1>3 DEF AuditInv, BatchesWellFormed
<1> QED
  BY <1>4, <1>5, <1>6 DEF AuditInv

LEMMA NextAuditInv == TypeInv /\ AuditInv /\ [AuditNext]_auditVars => AuditInv'
<1> SUFFICES ASSUME TypeInv, AuditInv, [AuditNext]_auditVars
             PROVE  AuditInv'
  OBVIOUS
<1>1. CASE UNCHANGED auditVars
  BY <1>1 DEF auditVars, vars, dbVars, AuditInv, BatchesWellFormed,
     HandledAccounted, Accounted, FlushSound, Buffered
<1>2. CASE \E r \in Records : AuditProduce(r)
  BY <1>2, ProduceKeepsAccounts
<1>3. ASSUME NEW c \in Consumers, Process(c)
      PROVE  AuditInv'
  <2>1. CASE StartProcess(c) \/ CrashProcess(c) \/ ConsumeStep(c)
    BY <2>1, StartKeepsAccounts, CrashKeepsAccounts, ConsumeKeepsAccounts
  <2>2. CASE HandleEnvelope(c)
    BY <2>2, HandleKeepsAccounts
  <2>3. CASE TimedFlush(c)
    BY <2>3, BeginKeepsAccounts DEF TimedFlush, LoopFree
  <2>4. CASE Drain(c)
    BY <2>4, BeginKeepsAccounts DEF Drain, LoopFree
  <2>5. CASE \/ HandlerFlushReturns(c) \/ HandlerFlushRaises(c)
             \/ TimedFlushReturns(c) \/ TimedFlushRaises(c) \/ FinalFlush(c)
    BY <2>5, FlushKeepsAccounts
  <2> QED
    BY <1>3, <2>1, <2>2, <2>3, <2>4, <2>5 DEF Process
<1> QED
  BY <1>1, <1>2, <1>3 DEF AuditNext

(* What an event was committed for is never lost silently: it is stored,   *)
(* dead-lettered, still in the batch of a process, or in a batch one of    *)
(* the four dropping steps gave up (consumer.py:598-735).  The group has   *)
(* to read from the earliest record, as run_consumer does by default       *)
(* (consumer.py:658).                                                      *)
THEOREM CommittedStayAccountedFor ==
  ASSUME OffsetReset = "earliest"
  PROVE  AuditSpec => []CommittedAccountedFor
<1>1. AuditSpec => []AuditInv
  BY InitAuditInv, NextAuditInv, GroupTypeInvariant, PTL DEF AuditSpec
<1>2. AuditInv /\ CommittedSettled => CommittedAccountedFor
  BY DEF AuditInv, HandledAccounted, Accounted, CommittedAccountedFor,
     Durable, Offsets, CommittedSettled, Settled
<1> QED
  BY <1>1, <1>2, GroupDelivers, PTL
=============================================================================
