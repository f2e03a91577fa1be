------------------------ MODULE NotifyDispatch_proofs ------------------------
(***************************************************************************)
(* Proofs about NotifyDispatch, for every number of calls, connections,    *)
(* channels, templates and retries.                                        *)
(***************************************************************************)
EXTENDS NotifyDispatch, TLAPS

Answers == {"ok", "redirect", "refused", "busy", "unreachable", "lost", "invalid"}

(* The stages of a send, and those in which it has its connection.         *)
AtWork == {"sending", "answered", "sleeping"}
SendStages == {"idle", "checkout"} \cup AtWork \cup Ended

(* The rows a send logs: all of the channel and the template it has chosen.*)
LogRow(c) ==
  {[attempt |-> k, status |-> s, id |-> chosen[c].id, locale |-> chosen[c].locale] :
     k \in Nat, s \in {"queued", "sent", "failed"}}

RequestInv(c) ==
  IF pc[c] = "idle" THEN request[c] = None
  ELSE request[c] # None /\ request[c].retries \in Nat \ {0}

(* No message without an attempt, and none beyond the budget.              *)
ReceivedInv(c) ==
  /\ received[c] \in Nat
  /\ pc[c] \in {"idle", "checkout", "rejected"} => received[c] = 0
  /\ pc[c] # "idle" => received[c] <= request[c].retries
  /\ pc[c] \in AtWork =>
       received[c] <= Len(journal[c]) + (IF pc[c] = "answered" THEN 1 ELSE 0)

(* The open transaction holds the attempts made so far, all to be retried. *)
JournalInv(c) ==
  /\ journal[c] \in Seq(LogRow(c))
  /\ pc[c] \notin AtWork => journal[c] = <<>>
  /\ pc[c] \in AtWork => Len(journal[c]) < request[c].retries
  /\ \A k \in 1..Len(journal[c]) :
       journal[c][k].attempt = k /\ journal[c][k].status = "queued"

ReplyInv(c) ==
  pc[c] = "answered" =>
    /\ reply[c] \in Answers
    /\ Reaches(reply[c]) => received[c] > 0

Timeline(c, n) ==
  /\ logs[c] \in Seq(LogRow(c))
  /\ n = Len(logs[c])
  /\ n \in 1..request[c].retries
  /\ \A k \in 1..n :
       logs[c][k].attempt = k /\ (logs[c][k].status = "queued" <=> k < n)
  /\ logs[c][n].status = "failed" /\ n < request[c].retries =>
       reply[c] \in {"refused", "invalid"}
  /\ logs[c][n].status = "sent" /\ reply[c] # "redirect" => received[c] > 0
  /\ received[c] <= n

LogInv(c) ==
  /\ pc[c] # "done" => logs[c] = <<>>
  /\ pc[c] = "done" => Timeline(c, Len(logs[c]))

SendInv(c) ==
  /\ pc[c] \in SendStages
  /\ RequestInv(c) /\ ReceivedInv(c) /\ JournalInv(c) /\ ReplyInv(c) /\ LogInv(c)

(* The variables of calls are functions of the call.                       *)
PerCall ==
  /\ pc = [c \in Calls |-> pc[c]] /\ request = [c \in Calls |-> request[c]]
  /\ chosen = [c \in Sends |-> chosen[c]] /\ journal = [c \in Sends |-> journal[c]]
  /\ reply = [c \in Sends |-> reply[c]] /\ received = [c \in Sends |-> received[c]]
  /\ logs = [c \in Sends |-> logs[c]]

DispatchInv == PerCall /\ \A c \in Sends : SendInv(c)

LEMMA InitDispatch == Init => DispatchInv
  BY DEF Init, DispatchInv, PerCall, Calls, SendInv, RequestInv, ReceivedInv,
         JournalInv, ReplyInv, LogInv, SendStages, AtWork

-----------------------------------------------------------------------------
(* What a step leaves alone.                                               *)

Kept(c) ==
  /\ pc'[c] = pc[c] /\ request'[c] = request[c] /\ chosen'[c] = chosen[c]
  /\ journal'[c] = journal[c] /\ reply'[c] = reply[c]
  /\ received'[c] = received[c] /\ logs'[c] = logs[c]

LEMMA KeptSend ==
  ASSUME NEW c \in Sends, SendInv(c), Kept(c)
  PROVE  SendInv(c)'
<1>1. LogRow(c)' = LogRow(c)
  BY DEF LogRow, Kept
<1>2. pc'[c] \in SendStages /\ RequestInv(c)'
  BY DEF SendInv, Kept, RequestInv
<1>3. ReceivedInv(c)'
  BY DEF SendInv, Kept, ReceivedInv
<1>4. JournalInv(c)'
  BY <1>1 DEF SendInv, Kept, JournalInv
<1>5. ReplyInv(c)'
  BY DEF SendInv, Kept, ReplyInv
<1>6. ASSUME NEW n, Timeline(c, n)  PROVE  Timeline(c, n)'
  BY <1>1, <1>6 DEF Kept, Timeline
<1>7. LogInv(c)'
  BY <1>6 DEF SendInv, Kept, LogInv
<1> QED
  BY <1>2, <1>3, <1>4, <1>5, <1>7 DEF SendInv

(* A call writes nothing of another.                                       *)
LEMMA OthersKept ==
  ASSUME DispatchInv, NEW c \in Calls, Arrive(c) \/ Progress(c)
  PROVE  PerCall' /\ \A q \in Sends \ {c} : Kept(q)
<1> USE DEF callVars, Goto, Calls
<1>1. PerCall
  BY DEF DispatchInv
<1>2. CASE Arrive(c)
  BY <1>1, <1>2 DEF Arrive, PerCall, Kept
<1>3. CASE Block(c) \/ TimeOut(c) \/ Wake(c)
  BY <1>1, <1>3 DEF Block, TimeOut, Wake, PerCall, Kept
<1>4. CASE Select(c)
  BY <1>1, <1>4 DEF Select, PerCall, Kept
<1>5. CASE Transport(c)
  BY <1>1, <1>5 DEF Transport, PerCall, Kept
<1>6. CASE Retry(c)
  BY <1>1, <1>6 DEF Retry, PerCall, Kept
<1>7. CASE Finish(c)
  BY <1>1, <1>7 DEF Finish, PerCall, Kept
<1>8. CASE Check(c) \/ Insert(c)
  BY <1>1, <1>8 DEF Check, Insert, PerCall, Kept
<1>9. CASE Fail(c)
  BY <1>1, <1>9 DEF Fail, PerCall, Kept
<1> QED
  BY <1>2, <1>3, <1>4, <1>5, <1>6, <1>7, <1>8, <1>9 DEF Progress

(* Where a step writes, it leaves what it wrote.                           *)
LEMMA WrittenAt ==
  ASSUME DispatchInv, NEW c \in Sends
  PROVE  /\ \A x : pc' = [pc EXCEPT ![c] = x] => pc'[c] = x
         /\ \A x : request' = [request EXCEPT ![c] = x] => request'[c] = x
         /\ \A x : chosen' = [chosen EXCEPT ![c] = x] => chosen'[c] = x
         /\ \A x : journal' = [journal EXCEPT ![c] = x] => journal'[c] = x
         /\ \A x : reply' = [reply EXCEPT ![c] = x] => reply'[c] = x
         /\ \A x : received' = [received EXCEPT ![c] = x] => received'[c] = x
         /\ \A x : logs' = [logs EXCEPT ![c] = x] => logs'[c] = x
  BY DEF DispatchInv, PerCall, Calls

-----------------------------------------------------------------------------
(* Answers and their verdicts.                                             *)

LEMMA RepliesAreAnswers ==
  ASSUME NEW type
  PROVE  Replies(type) \subseteq Answers
  BY DEF Replies, Answers

LEMMA VerdictOf ==
  ASSUME NEW answer \in Answers
  PROVE  /\ Verdict(answer) = "sent" => answer = "redirect" \/ Reaches(answer)
         /\ Verdict(answer) \notin {"sent", "transient"} =>
              answer \in {"refused", "invalid"}
  BY DEF Verdict, Reaches, Answers

(* The log of a send with one more attempt.                                *)
LEMMA Attempted ==
  ASSUME NEW c \in Sends, JournalInv(c), NEW status \in {"queued", "sent", "failed"}
  PROVE  LET n == Len(journal[c]) + 1
             log == Attempt(c, status)
         IN  /\ log \in Seq(LogRow(c)) /\ Len(log) = n
             /\ \A k \in 1..n : log[k].attempt = k
             /\ \A k \in 1..Len(journal[c]) : log[k].status = "queued"
             /\ log[n].status = status
<1> DEFINE n == Len(journal[c]) + 1
           row == [attempt |-> n, status |-> status,
                   id |-> chosen[c].id, locale |-> chosen[c].locale]
<1>1. journal[c] \in Seq(LogRow(c)) /\ n \in Nat
  BY DEF JournalInv
<1>2. row \in LogRow(c) /\ row.attempt = n /\ row.status = status
  BY <1>1 DEF LogRow
<1>3. Attempt(c, status) = Append(journal[c], row)
  BY DEF Attempt
<1> HIDE DEF row
<1>4. /\ Append(journal[c], row) \in Seq(LogRow(c))
      /\ Len(Append(journal[c], row)) = n
      /\ Append(journal[c], row)[n] = row
      /\ \A k \in 1..Len(journal[c]) : Append(journal[c], row)[k] = journal[c][k]
  BY <1>1, <1>2
<1>5. \A k \in 1..n : k = n \/ k \in 1..Len(journal[c])
  BY <1>1
<1> QED
  BY <1>1, <1>2, <1>3, <1>4, <1>5 DEF JournalInv

-----------------------------------------------------------------------------
(* The steps of a send.                                                    *)

LEMMA ArriveSend ==
  ASSUME DispatchInv, NEW c \in Sends, Arrive(c)
  PROVE  SendInv(c)'
<1>1. SendInv(c)
  BY DEF DispatchInv
<1>2. /\ pc[c] = "idle" /\ pc'[c] = "checkout"
      /\ request'[c] \in Requests[c]
      /\ chosen'[c] = chosen[c] /\ journal'[c] = journal[c]
      /\ received'[c] = received[c] /\ logs'[c] = logs[c]
  BY WrittenAt DEF Arrive, Goto
<1>3. request'[c] # None /\ request'[c].retries \in Nat \ {0}
  BY <1>2, NotifyAssumption
<1> QED
  BY <1>1, <1>2, <1>3 DEF SendInv, RequestInv, ReceivedInv, JournalInv, ReplyInv,
     LogInv, LogRow, SendStages, AtWork

LEMMA WaitingSend ==
  ASSUME DispatchInv, NEW c \in Sends, Block(c) \/ TimeOut(c) \/ Select(c)
  PROVE  SendInv(c)'
<1>1. SendInv(c)
  BY DEF DispatchInv
<1>2. /\ pc[c] = "checkout" /\ pc'[c] \in {"checkout", "failed", "sending", "rejected"}
      /\ request'[c] = request[c] /\ journal'[c] = journal[c]
      /\ received'[c] = received[c] /\ logs'[c] = logs[c]
  BY WrittenAt DEF Block, TimeOut, Select, Proceeds, Goto, callVars
<1>3. journal[c] = <<>> /\ logs[c] = <<>> /\ received[c] = 0
      /\ request[c] # None /\ request[c].retries \in Nat \ {0}
  BY <1>1, <1>2 DEF SendInv, RequestInv, ReceivedInv, JournalInv, LogInv, AtWork
<1> QED
  BY <1>2, <1>3 DEF SendInv, RequestInv, ReceivedInv, JournalInv, ReplyInv,
     LogInv, SendStages, AtWork, Ended

LEMMA TransportSend ==
  ASSUME DispatchInv, NEW c \in Sends, Transport(c)
  PROVE  SendInv(c)'
<1>1. SendInv(c)
  BY DEF DispatchInv
<1>2. PICK answer \in Answers :
        /\ reply' = [reply EXCEPT ![c] = answer]
        /\ received' = [received EXCEPT
             ![c] = received[c] + IF Reaches(answer) THEN 1 ELSE 0]
  BY RepliesAreAnswers DEF Transport
<1>3. /\ pc[c] = "sending" /\ pc'[c] = "answered" /\ reply'[c] = answer
      /\ received'[c] = received[c] + IF Reaches(answer) THEN 1 ELSE 0
      /\ request'[c] = request[c] /\ chosen'[c] = chosen[c]
      /\ journal'[c] = journal[c] /\ logs'[c] = logs[c]
  BY <1>2, WrittenAt DEF Transport, Goto
<1>4. /\ Len(journal[c]) \in Nat /\ Len(journal[c]) < request[c].retries
      /\ received[c] \in Nat /\ received[c] <= Len(journal[c])
      /\ request[c].retries \in Nat
  BY <1>1, <1>3 DEF SendInv, RequestInv, ReceivedInv, JournalInv, AtWork
<1>5. ReceivedInv(c)' /\ ReplyInv(c)'
  BY <1>3, <1>4 DEF ReceivedInv, ReplyInv, AtWork
<1>6. RequestInv(c)' /\ JournalInv(c)' /\ LogInv(c)' /\ pc'[c] \in SendStages
  BY <1>1, <1>3 DEF SendInv, RequestInv, JournalInv, LogInv, LogRow, AtWork,
     SendStages
<1> QED
  BY <1>5, <1>6 DEF SendInv

LEMMA RetrySend ==
  ASSUME DispatchInv, NEW c \in Sends, Retry(c)
  PROVE  SendInv(c)'
<1>1. SendInv(c)
  BY DEF DispatchInv
<1>2. /\ pc[c] = "answered" /\ pc'[c] = "sleeping" /\ ~ IsFinal(c)
      /\ journal'[c] = Attempt(c, "queued")
      /\ request'[c] = request[c] /\ chosen'[c] = chosen[c]
      /\ received'[c] = received[c] /\ logs'[c] = logs[c]
  BY WrittenAt DEF Retry, Goto
<1> DEFINE n == Len(journal[c])
<1>3. /\ n \in Nat /\ n < request[c].retries /\ request[c].retries \in Nat
      /\ received[c] \in Nat /\ received[c] <= n + 1
      /\ received[c] <= request[c].retries
  BY <1>1, <1>2 DEF SendInv, RequestInv, ReceivedInv, JournalInv, AtWork
<1>4. /\ journal'[c] \in Seq(LogRow(c)) /\ Len(journal'[c]) = n + 1
      /\ \A k \in 1 .. n + 1 : journal'[c][k].attempt = k
      /\ \A k \in 1 .. n : journal'[c][k].status = "queued"
      /\ journal'[c][n + 1].status = "queued"
  BY <1>1, <1>2, Attempted DEF SendInv
<1>5. n + 1 < request[c].retries
  BY <1>2, <1>3 DEF IsFinal
<1>6. LogRow(c)' = LogRow(c)
  BY <1>2 DEF LogRow
<1>7. JournalInv(c)'
  <2>1. \A k \in 1 .. n + 1 : k \in 1 .. n \/ k = n + 1
    BY <1>3
  <2> QED
    BY <1>2, <1>4, <1>5, <1>6, <2>1 DEF JournalInv, AtWork
<1>8. ReceivedInv(c)'
  BY <1>2, <1>3, <1>4 DEF ReceivedInv, AtWork
<1> QED
  BY <1>1, <1>2, <1>7, <1>8 DEF SendInv, RequestInv, ReplyInv, LogInv, AtWork,
     SendStages

(* What is committed is the journal and the last attempt.                  *)
LEMMA FinishSend ==
  ASSUME DispatchInv, NEW c \in Sends, Finish(c)
  PROVE  SendInv(c)'
<1>1. SendInv(c)
  BY DEF DispatchInv
<1> DEFINE n == Len(journal[c]) + 1
           status == IF Verdict(reply[c]) = "sent" THEN "sent" ELSE "failed"
<1>2. /\ pc[c] = "answered" /\ pc'[c] = "done"
      /\ Verdict(reply[c]) # "transient" \/ IsFinal(c)
      /\ logs'[c] = Attempt(c, status) /\ journal'[c] = <<>>
      /\ request'[c] = request[c] /\ chosen'[c] = chosen[c]
      /\ received'[c] = received[c] /\ reply'[c] = reply[c]
  BY WrittenAt DEF Finish, Goto
<1>3. /\ n \in Nat \ {0} /\ n <= request[c].retries /\ request[c].retries \in Nat \ {0}
      /\ received[c] \in Nat /\ received[c] <= n
      /\ received[c] <= request[c].retries
      /\ reply[c] \in Answers /\ (Reaches(reply[c]) => received[c] > 0)
      /\ request[c] # None
  BY <1>1, <1>2 DEF SendInv, RequestInv, ReceivedInv, JournalInv, ReplyInv, AtWork
<1>4. /\ logs'[c] \in Seq(LogRow(c)) /\ Len(logs'[c]) = n
      /\ \A k \in 1..n : logs'[c][k].attempt = k
      /\ \A k \in 1..Len(journal[c]) : logs'[c][k].status = "queued"
      /\ logs'[c][n].status = status
  BY <1>1, <1>2, Attempted DEF SendInv
<1>5. \A k \in 1..n : logs'[c][k].status = "queued" <=> k < n
  <2>1. \A k \in 1..n : (k < n => k \in 1..Len(journal[c])) /\ (~ (k < n) => k = n)
    BY <1>1 DEF SendInv, JournalInv
  <2> QED
    BY <1>3, <1>4, <2>1
<1>6. /\ status = "failed" /\ n < request[c].retries => reply[c] \in {"refused", "invalid"}
      /\ status = "sent" /\ reply[c] # "redirect" => received[c] > 0
  <2>1. IsFinal(c) <=> n = request[c].retries
    BY DEF IsFinal
  <2> QED
    BY <1>2, <1>3, <2>1, VerdictOf
<1> HIDE DEF n, status
<1>7. LogRow(c)' = LogRow(c)
  BY <1>2 DEF LogRow
<1>8. LogInv(c)'
  BY <1>2, <1>3, <1>4, <1>5, <1>6, <1>7 DEF LogInv, Timeline
<1> QED
  BY <1>2, <1>3, <1>8 DEF SendInv, RequestInv, ReceivedInv, JournalInv, ReplyInv,
     AtWork, SendStages, Ended

LEMMA WakeSend ==
  ASSUME DispatchInv, NEW c \in Sends, Wake(c)
  PROVE  SendInv(c)'
<1>1. SendInv(c)
  BY DEF DispatchInv
<1>2. /\ pc[c] = "sleeping" /\ pc'[c] = "sending" /\ UNCHANGED <<logs, callVars>>
  BY WrittenAt DEF Wake, Goto
<1>3. LogRow(c)' = LogRow(c)
  BY <1>2 DEF LogRow, callVars
<1> QED
  BY <1>1, <1>2, <1>3 DEF SendInv, RequestInv, ReceivedInv, JournalInv, ReplyInv,
     LogInv, AtWork, SendStages, callVars

(* A send that fails or dies keeps what its recipient got, and nothing of  *)
(* its log.                                                                *)
LEMMA EndedSend ==
  ASSUME NEW c \in Sends, SendInv(c), pc[c] \notin {"idle", "done"},
         pc'[c] \in {"failed", "lost"}, journal'[c] = <<>>,
         UNCHANGED <<logs, request, received>>
  PROVE  SendInv(c)'
  BY DEF SendInv, RequestInv, ReceivedInv, JournalInv, ReplyInv, LogInv, AtWork,
     SendStages, Ended

LEMMA FailSend ==
  ASSUME DispatchInv, NEW c \in Sends, Fail(c)
  PROVE  SendInv(c)'
<1>1. SendInv(c)
  BY DEF DispatchInv
<1>2. /\ pc[c] \notin {"idle", "done"} /\ pc'[c] = "failed" /\ journal'[c] = <<>>
      /\ UNCHANGED <<logs, request, received>>
  BY WrittenAt DEF Fail, Goto
<1> QED
  BY <1>1, <1>2, EndedSend

LEMMA CrashSend ==
  ASSUME DispatchInv, NEW c \in Sends, Crash
  PROVE  SendInv(c)'
<1>1. SendInv(c)
  BY DEF DispatchInv
<1>2. /\ journal'[c] = <<>> /\ UNCHANGED <<logs, request, chosen, received>>
      /\ pc'[c] = IF pc[c] \in Ended \cup {"idle"} THEN pc[c] ELSE "lost"
      /\ reply'[c] = IF pc[c] = "done" THEN reply[c] ELSE None
  BY DEF Crash, Calls
<1>3. CASE pc[c] \in Ended \cup {"idle"}
  <2>1. pc'[c] = pc[c] /\ journal'[c] = journal[c]
    BY <1>1, <1>2, <1>3 DEF SendInv, JournalInv, Ended, AtWork
  <2>2. LogRow(c)' = LogRow(c)
    BY <1>2 DEF LogRow
  <2>3. RequestInv(c)' /\ ReceivedInv(c)' /\ JournalInv(c)' /\ ReplyInv(c)'
    BY <1>1, <1>2, <1>3, <2>1, <2>2 DEF SendInv, RequestInv, ReceivedInv,
       JournalInv, ReplyInv, Ended
  <2>4. LogInv(c)'
    BY <1>1, <1>2, <2>1, <2>2 DEF SendInv, LogInv, Timeline
  <2> QED
    BY <1>1, <2>1, <2>3, <2>4 DEF SendInv
<1>4. CASE pc[c] \notin Ended \cup {"idle"}
  BY <1>1, <1>2, <1>4, EndedSend DEF Ended
<1> QED
  BY <1>3, <1>4

-----------------------------------------------------------------------------
LEMMA NextDispatch == DispatchInv /\ [Next]_vars => DispatchInv'
<1> SUFFICES ASSUME DispatchInv, [Next]_vars PROVE DispatchInv'
  OBVIOUS
<1>1. CASE UNCHANGED vars
  <2>1. PerCall' /\ \A q \in Sends : Kept(q)
    BY <1>1 DEF vars, callVars, DispatchInv, PerCall, Kept
  <2> QED
    BY <2>1, KeptSend DEF DispatchInv
<1>2. ASSUME NEW c \in Calls, Arrive(c) \/ Progress(c)
      PROVE  DispatchInv'
  <2>1. PerCall' /\ \A q \in Sends \ {c} : SendInv(q)'
    BY <1>2, OthersKept, KeptSend DEF DispatchInv
  <2>2. ASSUME c \in Sends
        PROVE  SendInv(c)'
    <3>1. ~ Check(c)
      BY <2>2, NotifyAssumption DEF Check
    <3>2. ~ Insert(c)
      BY <2>2 DEF Insert, DispatchInv, SendInv, SendStages, AtWork, Ended
    <3> QED
      BY <1>2, <2>2, <3>1, <3>2, ArriveSend, WaitingSend, TransportSend,
         RetrySend, FinishSend, WakeSend, FailSend DEF Progress
  <2> QED
    BY <2>1, <2>2 DEF DispatchInv
<1>3. ASSUME Crash
      PROVE  DispatchInv'
  <2>1. PerCall'
    BY <1>3 DEF Crash, DispatchInv, PerCall
  <2> QED
    BY <1>3, <2>1, CrashSend DEF DispatchInv
<1> QED
  BY <1>1, <1>2, <1>3 DEF Next

LEMMA DispatchHolds == Spec => []DispatchInv
<1>1. Init /\ [][Next]_vars => []DispatchInv
  BY InitDispatch, NextDispatch, PTL
<1> QED
  BY <1>1, PTL DEF Spec

(* The committed log of every send is its whole timeline, or nothing.      *)
THEOREM LogComplete == Spec => []LogTellsTimeline
<1>1. ASSUME DispatchInv, NEW c \in Sends, pc[c] = "done"
      PROVE  LET n == Len(logs[c])
             IN  /\ n \in 1..request[c].retries
                 /\ \A k \in 1..n :
                      /\ logs[c][k].attempt = k
                      /\ logs[c][k].status = "queued" <=> k < n
                      /\ logs[c][k].id = logs[c][1].id
                      /\ logs[c][k].locale = logs[c][1].locale
                 /\ logs[c][n].status = "failed" /\ n < request[c].retries =>
                      reply[c] \in {"refused", "invalid"}
  <2>1. Timeline(c, Len(logs[c])) /\ request[c].retries \in Nat
    BY <1>1 DEF DispatchInv, SendInv, LogInv, RequestInv
  <2>2. \A k \in 1..Len(logs[c]) : logs[c][k] \in LogRow(c)
    BY <2>1 DEF Timeline
  <2>3. 1 \in 1..Len(logs[c])
    BY <2>1 DEF Timeline
  <2>4. \A row \in LogRow(c) : row.id = chosen[c].id /\ row.locale = chosen[c].locale
    BY DEF LogRow
  <2> QED
    BY <2>1, <2>2, <2>3, <2>4 DEF Timeline
<1>2. DispatchInv => LogTellsTimeline
  BY <1>1 DEF LogTellsTimeline, DispatchInv, SendInv, LogInv
<1> QED
  BY <1>2, DispatchHolds, PTL

(* What is logged as sent was received, and nothing more often than it was *)
(* tried, whichever attempts are lost with their transaction.              *)
THEOREM SentWasReceived == Spec => []SentReached
<1>1. ASSUME DispatchInv, NEW c \in Sends
      PROVE  /\ logs[c] # <<>> /\ Last(logs[c]).status = "sent" /\ reply[c] # "redirect"
                  => received[c] > 0
             /\ pc[c] = "done" => received[c] <= Len(logs[c])
             /\ received[c] <= (IF request[c] = None THEN 0 ELSE request[c].retries)
  <2>1. RequestInv(c) /\ ReceivedInv(c) /\ LogInv(c)
    BY <1>1 DEF DispatchInv, SendInv
  <2> QED
    BY <2>1 DEF RequestInv, ReceivedInv, LogInv, Timeline, Last
<1>2. DispatchInv => SentReached
  BY <1>1 DEF SentReached
<1> QED
  BY <1>2, DispatchHolds, PTL
=============================================================================
