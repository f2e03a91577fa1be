--------------------------- MODULE NotifyDispatch ---------------------------
(***************************************************************************)
(* The notification service: send (dispatcher.py, renderer.py, channels/)  *)
(* and the creation of channels and templates (api/send.py,                *)
(* api/templates.py), for one tenant and one template code.                *)
(*                                                                         *)
(* A send is a coroutine.  It selects its channel and its template in a    *)
(* transaction that stays open, with its connection, across every attempt  *)
(* and every pause; the log rows of the attempts are committed at its end. *)
(* Its database calls are synchronous: when the pool is empty, checking a  *)
(* connection out blocks the event loop, and no coroutine goes on until a  *)
(* worker thread returns a connection or pool_timeout has passed.          *)
(* Creations run in worker threads.                                        *)
(***************************************************************************)
EXTENDS Naturals, Sequences, SequencesExt

CONSTANTS
  Sends,        \* calls of POST /send, each made once
  Creates,      \* calls of POST /channels and POST /templates
  Earlier,      \* ids of rows created earlier,
  EarlierRows,  \* and the rows
  Requests,     \* what each call may ask for
  Locales,      \* locale tags, see Locale
  PoolSize,     \* pool_size + max_overflow
  None

Calls == Sends \cup Creates
Ids == Creates \cup Earlier
Types == {"email", "feishu", "webhook", "sms"}

(* A locale tag is its parts, and what stands between them.                *)
Locale(parts, separator) == [parts |-> parts, separator |-> separator]
Default == Locale(<<"default">>, "-")

ChannelRow(type, name, enabled) ==
  [table |-> "channels", type |-> type, name |-> name, enabled |-> enabled]
TemplateRow(locale) == [table |-> "templates", locale |-> locale]

ASSUME NotifyAssumption ==
  /\ PoolSize \in Nat \ {0}
  /\ Sends \cap Creates = {} /\ Earlier \cap Calls = {}
  /\ Default \in Locales
  /\ DOMAIN EarlierRows = Earlier
  /\ \A c \in Sends : \A q \in Requests[c] :
       q.type \in Types /\ q.id \in Ids \cup {None} /\ q.locale \in Locales /\ q.retries \in Nat \ {0}
  /\ \A c \in Sends : None \notin Requests[c]

VARIABLES
  rows,     \* tables notification_channels and notification_templates
  logs,     \* table notification_logs: what is committed of each send
  pool,     \* the calls that hold a connection
  loop,     \* the send that blocks the event loop
  pc,       \* the next step of each call
  request,  \* what it was asked to do
  chosen,   \* the channel and the template of each send
  journal,  \* the log rows in the open transaction of each send
  reply,    \* what came of its latest attempt
  received  \* how many times its recipient got the message

callVars == <<request, chosen, journal, reply, received>>
vars == <<rows, logs, pool, loop, pc, callVars>>

Init ==
  /\ rows = [i \in Ids |-> IF i \in Earlier THEN EarlierRows[i] ELSE None]
  /\ logs = [c \in Sends |-> <<>>]
  /\ pool = {}
  /\ loop = None
  /\ pc = [c \in Calls |-> "idle"]
  /\ request = [c \in Calls |-> None]
  /\ chosen = [c \in Sends |-> None]
  /\ journal = [c \in Sends |-> <<>>]
  /\ reply = [c \in Sends |-> None]
  /\ received = [c \in Sends |-> 0]

-----------------------------------------------------------------------------
(* The channels: what may come of an attempt, and what a channel makes of  *)
(* it.                                                                     *)

(* "lost": the recipient got the message, the sender no answer.  "invalid":*)
(* no attempt is possible with this configuration or body.  SMS is a stub. *)
Replies(type) ==
  CASE type = "sms"   -> {"invalid"}
    [] type = "email" -> {"ok", "busy", "unreachable", "lost", "invalid"}
    [] OTHER          -> {"ok", "redirect", "refused", "busy", "unreachable", "lost", "invalid"}

(* Mutant of Verdict: an answer that did not come is taken for success.    *)
Verdict_LostIsSent(answer) ==
  CASE answer \in {"ok", "redirect", "unreachable", "lost"}  -> "sent"
    [] answer \in {"refused", "invalid"}                    -> "permanent"
    [] answer = "busy"                                       -> "transient"

(* No error but 4xx, 5xx and those of the connection is looked for: HTTP   *)
(* 3xx passes for success.  SMTP replies 4xx and 5xx are both transient.   *)
Verdict(answer) ==
  CASE answer \in {"ok", "redirect"}                 -> "sent"
    [] answer \in {"refused", "invalid"}             -> "permanent"
    [] answer \in {"busy", "unreachable", "lost"}    -> "transient"

Reaches(answer) == answer \in {"ok", "lost"}

-----------------------------------------------------------------------------
(* Selection.                                                              *)

Channels == {i \in Ids : rows[i] # None /\ rows[i].table = "channels"}
Templates == {i \in Ids : rows[i] # None /\ rows[i].table = "templates"}

(* _select_channel: the row asked for, or the enabled one of the lowest id,*)
(* and ids are random.                                                     *)
Eligible(q) ==
  {i \in Channels :
     rows[i].type = q.type /\ rows[i].enabled /\ q.id \in {None, i}}

(* _locale_prefixes: ever shorter prefixes, all written with hyphens.      *)
LocalePrefixes(locale) ==
  [k \in 1..Len(locale.parts) |->
     Locale(SubSeq(locale.parts, 1, Len(locale.parts) + 1 - k), "-")]

Candidates(locale) ==
  IF Default \in Range(LocalePrefixes(locale)) THEN LocalePrefixes(locale)
  ELSE Append(LocalePrefixes(locale), Default)

(* select_template: the rows of the first candidate that has one.          *)
Matching(locale) ==
  LET stored == {rows[i].locale : i \in Templates}
      hits == {k \in DOMAIN Candidates(locale) : Candidates(locale)[k] \in stored}
  IN  IF hits = {} THEN {}
      ELSE {i \in Templates :
              rows[i].locale = Candidates(locale)[CHOOSE k \in hits : \A j \in hits : k <= j]}

-----------------------------------------------------------------------------
(* Connections and the event loop.                                         *)

Goto(c, stage) == pc' = [pc EXCEPT ![c] = stage]

Free == Cardinality(pool) < PoolSize

LoopIsFree == loop = None

(* Whether a call gets to its database work: a send needs the loop.        *)
Proceeds(c) == pc[c] = "checkout" /\ Free /\ (c \in Sends => loop \in {None, c})

(* The loop is free again once the send that blocked it has a connection,  *)
(* or has none to wait for.                                                *)
Unblock(c) == loop' = IF loop = c THEN None ELSE loop

Arrive(c) ==
  /\ pc[c] = "idle"
  /\ LoopIsFree
  /\ \E q \in Requests[c] : request' = [request EXCEPT ![c] = q]
  /\ Goto(c, "checkout")
  /\ UNCHANGED <<rows, logs, pool, loop, chosen, journal, reply, received>>

Block(c) ==
  /\ c \in Sends
  /\ pc[c] = "checkout"
  /\ LoopIsFree
  /\ ~Free
  /\ loop' = c
  /\ UNCHANGED <<rows, logs, pool, pc, callVars>>

(* Mutant of TimeOut: pool_timeout is not set.                             *)
TimeOut_Never(c) == FALSE /\ UNCHANGED vars

(* pool_timeout passes: a thread gives up by itself, the loop too.         *)
TimeOut(c) ==
  /\ pc[c] = "checkout"
  /\ ~Free
  /\ c \in Sends => loop = c
  /\ Unblock(c)
  /\ Goto(c, "failed")
  /\ UNCHANGED <<rows, logs, pool, callVars>>

-----------------------------------------------------------------------------
(* dispatch                                                                *)

Select(c) ==
  /\ c \in Sends
  /\ Proceeds(c)
  /\ Unblock(c)
  /\ \/ \E i \in Eligible(request[c]), t \in Matching(request[c].locale) :
          /\ chosen' = [chosen EXCEPT ![c] =
               [id |-> i, type |-> rows[i].type, locale |-> rows[t].locale]]
          /\ pool' = pool \cup {c}
          /\ Goto(c, "sending")
     \/ /\ Eligible(request[c]) = {} \/ Matching(request[c].locale) = {}
        /\ Goto(c, "rejected")
        /\ UNCHANGED <<pool, chosen>>
  /\ UNCHANGED <<rows, logs, request, journal, reply, received>>

(* The recipient and the network, for which the loop is not needed; every  *)
(* transport has a timeout.                                                *)
Transport(c) ==
  /\ pc[c] = "sending"
  /\ \E answer \in Replies(chosen[c].type) :
       /\ reply' = [reply EXCEPT ![c] = answer]
       /\ received' = [received EXCEPT ![c] = @ + IF Reaches(answer) THEN 1 ELSE 0]
  /\ Goto(c, "answered")
  /\ UNCHANGED <<rows, logs, pool, loop, request, chosen, journal>>

Attempt(c, status) ==
  Append(journal[c], [attempt |-> Len(journal[c]) + 1, status |-> status,
                      id |-> chosen[c].id, locale |-> chosen[c].locale])

(* Mutant of IsFinal: the attempts are counted from 0.                     *)
IsFinal_FromZero(c) == Len(journal[c]) + 2 >= request[c].retries

IsFinal(c) == Len(journal[c]) + 1 = request[c].retries

Retry(c) ==
  /\ pc[c] = "answered"
  /\ LoopIsFree
  /\ Verdict(reply[c]) = "transient" /\ ~IsFinal(c)
  /\ journal' = [journal EXCEPT ![c] = Attempt(c, "queued")]
  /\ reply' = [reply EXCEPT ![c] = None]
  /\ Goto(c, "sleeping")
  /\ UNCHANGED <<rows, logs, pool, loop, request, chosen, received>>

(* The last row is flushed and everything committed in one go.             *)
Finish(c) ==
  /\ pc[c] = "answered"
  /\ LoopIsFree
  /\ Verdict(reply[c]) # "transient" \/ IsFinal(c)
  /\ logs' = [logs EXCEPT ![c] =
       Attempt(c, IF Verdict(reply[c]) = "sent" THEN "sent" ELSE "failed")]
  /\ journal' = [journal EXCEPT ![c] = <<>>]
  /\ pool' = pool \ {c}
  /\ Goto(c, "done")
  /\ UNCHANGED <<rows, loop, request, chosen, reply, received>>

Wake(c) ==
  /\ pc[c] = "sleeping"
  /\ LoopIsFree
  /\ Goto(c, "sending")
  /\ UNCHANGED <<rows, logs, pool, loop, callVars>>

-----------------------------------------------------------------------------
(* create_channel and create_template                                      *)

(* What the unique constraints compare.                                    *)
Key(row) ==
  IF row.table = "channels" THEN <<row.table, row.type, row.name>>
  ELSE <<row.table, row.locale>>

KeyTaken(row) == \E i \in Ids : rows[i] # None /\ Key(rows[i]) = Key(row)

Check(c) ==
  /\ c \in Creates
  /\ Proceeds(c)
  /\ IF KeyTaken(request[c])
       THEN Goto(c, "rejected") /\ UNCHANGED pool
       ELSE Goto(c, "insert") /\ pool' = pool \cup {c}
  /\ UNCHANGED <<rows, logs, loop, callVars>>

(* The flush, which the unique constraint may refuse, and the commit.      *)
Insert(c) ==
  /\ pc[c] = "insert"
  /\ IF KeyTaken(request[c])
       THEN Goto(c, "failed") /\ UNCHANGED rows
       ELSE rows' = [rows EXCEPT ![c] = request[c]] /\ Goto(c, "done")
  /\ pool' = pool \ {c}
  /\ UNCHANGED <<logs, loop, callVars>>

-----------------------------------------------------------------------------
(* Failures.                                                               *)

(* A flush or a commit raises: get_session rolls back, and all the log     *)
(* rows of a send are gone, whatever it has sent.                          *)
Fail(c) ==
  /\ pc[c] \in {"answered", "insert"}
  /\ c \in Sends => LoopIsFree
  /\ journal' = [d \in Sends |-> IF d = c THEN <<>> ELSE journal[d]]
  /\ reply' = [d \in Sends |-> IF d = c THEN None ELSE reply[d]]
  /\ pool' = pool \ {c}
  /\ Goto(c, "failed")
  /\ UNCHANGED <<rows, logs, loop, request, chosen, received>>

Ended == {"done", "rejected", "failed", "lost"}

(* The process dies, with every transaction that was open.                 *)
Crash ==
  /\ \E c \in Calls : pc[c] \notin Ended \cup {"idle"}
  /\ pc' = [c \in Calls |-> IF pc[c] \in Ended \cup {"idle"} THEN pc[c] ELSE "lost"]
  /\ journal' = [c \in Sends |-> <<>>]
  /\ reply' = [c \in Sends |-> IF pc[c] = "done" THEN reply[c] ELSE None]
  /\ pool' = {}
  /\ loop' = None
  /\ UNCHANGED <<rows, logs, request, chosen, received>>

Progress(c) ==
  \/ Block(c) \/ TimeOut(c) \/ Select(c) \/ Transport(c) \/ Retry(c) \/ Finish(c) \/ Wake(c)
  \/ Check(c) \/ Insert(c) \/ Fail(c)

Next == (\E c \in Calls : Arrive(c) \/ Progress(c)) \/ Crash

(* Threads and the loop are scheduled, and timeouts pass.                  *)
Spec == Init /\ [][Next]_vars /\ \A c \in Calls : WF_vars(Progress(c))

-----------------------------------------------------------------------------
(* Properties.                                                             *)

(* The committed log of a send is its whole timeline or nothing at all     *)
(* (models.py:177): attempts counted from 1 and never beyond the budget,   *)
(* all but the last to be retried, and a transient failure not given up    *)
(* before the budget is spent.                                             *)
LogTellsTimeline ==
  \A c \in Sends :
    LET n == Len(logs[c])
    IN  IF pc[c] # "done" THEN logs[c] = <<>>
        ELSE /\ n \in 1..request[c].retries
             /\ \A k \in 1..n :
                  /\ logs[c][k].attempt = k
                  /\ logs[c][k].status = "queued" <=> k < n
                  /\ logs[c][k].id = logs[c][1].id /\ logs[c][k].locale = logs[c][1].locale
             /\ logs[c][n].status = "failed" /\ n < request[c].retries =>
                  reply[c] \in {"refused", "invalid"}

(* A notification logged as sent has reached its recipient, but for an HTTP*)
(* redirect, which nobody follows (webhook.py:143); and no recipient gets  *)
(* it more often than there were attempts, committed or not.               *)
SentReached ==
  \A c \in Sends :
    /\ logs[c] # <<>> /\ Last(logs[c]).status = "sent" /\ reply[c] # "redirect"
         => received[c] > 0
    /\ pc[c] = "done" => received[c] <= Len(logs[c])
    /\ received[c] <= (IF request[c] = None THEN 0 ELSE request[c].retries)

(* Every call ends, although sends that hold all the connections cannot    *)
(* return one while another send blocks their loop: only pool_timeout      *)
(* undoes the knot (session.py:59).                                        *)
CallsEnd == \A c \in Calls : pc[c] = "checkout" ~> pc[c] \in Ended
=============================================================================
