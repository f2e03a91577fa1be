---------------------------- MODULE IamSessions ----------------------------
(***************************************************************************)
(* The refresh-token sessions of one user: login, refresh and logout       *)
(* (auth_service.py), and the password reset, soft delete and status       *)
(* change of an administrator (user_service.py).  Every call is a          *)
(* transaction or two; the replicas of the service interleave them at each *)
(* statement, under READ COMMITTED: a SELECT sees what is committed, an    *)
(* UPDATE waits for the row's lock, which is held until the end of the     *)
(* transaction, and a bulk UPDATE picks its rows when it starts and tests  *)
(* its WHERE clause again on every row it had to wait for.                 *)
(*                                                                         *)
(* A call issues at most one session, which bears the name of the call.    *)
(* The refresh token of a session is known to clients once it is committed *)
(* and stands for the session.                                             *)
(***************************************************************************)
EXTENDS Integers

CONSTANTS
  Calls,  \* calls of the service, each made once
  First,  \* the session register_tenant issued to the user
  Free    \* a lock nobody holds

ASSUME SessionsAssumption ==
  /\ First \notin Calls
  /\ Free \notin Calls

VARIABLES
  status,    \* users.status
  sessions,  \* committed rows of the sessions table
  revoked,   \* those whose revoked_at is set
  userLock,  \* the call that holds the lock of the users row
  rowLock,   \* the call that holds the lock of each sessions row
  op,        \* what each call does
  pc,        \* where it is
  token,     \* the session whose refresh token it presents
  pending,   \* rows its bulk UPDATE has yet to look at
  epoch,     \* history: password resets and deletes committed so far
  born,      \* history: epoch of the login each session goes back to
  crossed,   \* history: logins and refreshes, with the sessions that go back
             \* to them, that overlapped a bulk UPDATE
  rivals     \* history: for each call that revoked the token it presented,
             \* the calls that had presented the same token by then

dbVars == <<status, sessions, revoked>>
lockVars == <<userLock, rowLock>>
callVars == <<op, pc, token, pending>>
historyVars == <<epoch, born, crossed, rivals>>
vars == <<dbVars, lockVars, callVars, historyVars>>

Ids == Calls \cup {First}

Ops == {"none", "login", "refresh", "logout", "reset", "delete", "status"}

(* Stages at which a call has work left to do, and at which it has ended.  *)
Open == {"verified", "authenticated", "found", "marked", "issuing",
         "called", "locked", "revoking"}
Ended == {"done", "refused", "aborted"}

Init ==
  /\ status = "active"
  /\ sessions = {First}
  /\ revoked = {}
  /\ userLock = Free
  /\ rowLock = [s \in Ids |-> Free]
  /\ op = [c \in Calls |-> "none"]
  /\ pc = [c \in Calls |-> "idle"]
  /\ token = [c \in Calls |-> First]
  /\ pending = [c \in Calls |-> {}]
  /\ epoch = 0
  /\ born = [s \in Ids |-> 0]
  /\ crossed = {}
  /\ rivals = [c \in Calls |-> {}]

Active == sessions \ revoked

Goto(c, stage) == pc' = [pc EXCEPT ![c] = stage]

(* The end of a transaction gives its row locks back.                      *)
Unlock(c) ==
  /\ userLock' = IF userLock = c THEN Free ELSE userLock
  /\ rowLock' = [s \in Ids |-> IF rowLock[s] = c THEN Free ELSE rowLock[s]]

(* The rows a transaction has updated are the ones it holds the lock of.   *)
Marked(c) == {s \in Ids : rowLock[s] = c}

(* Mutant of Rollback: the session is not closed.                          *)
Rollback_NotClosed(c, stage) == Goto(c, stage) /\ UNCHANGED <<dbVars, lockVars>>

(* get_session rolls back and closes the session on an exception.          *)
Rollback(c, stage) == Unlock(c) /\ Goto(c, stage) /\ UNCHANGED dbVars

BulkRunning == \E d \in Calls : pc[d] = "revoking"

-----------------------------------------------------------------------------
(* login: authenticate, then issue_token_pair.                             *)

(* authenticate reads the user and checks its status and the password.     *)
Login(c) ==
  /\ pc[c] = "idle"
  /\ op' = [op EXCEPT ![c] = "login"]
  /\ \/ status = "active" /\ Goto(c, "verified")
     \/ Goto(c, "refused")
  /\ born' = [born EXCEPT ![c] = epoch]
  /\ crossed' = IF BulkRunning THEN crossed \cup {c} ELSE crossed
  /\ UNCHANGED <<dbVars, lockVars, token, pending, epoch, rivals>>

(* The UPDATE of last_login_at waits for the users row; the commit follows *)
(* with no statement in between.                                           *)
TouchUser(c) ==
  /\ pc[c] = "verified"
  /\ userLock = Free
  /\ Goto(c, "authenticated")
  /\ UNCHANGED <<dbVars, lockVars, op, token, pending, historyVars>>

(* issue_token_pair, in a transaction of its own, asks nothing but whether *)
(* the users row exists.                                                   *)
IssuePair(c) ==
  /\ pc[c] = "authenticated"
  /\ sessions' = sessions \cup {c}
  /\ Goto(c, "done")
  /\ UNCHANGED <<status, revoked, lockVars, op, token, pending, historyVars>>

-----------------------------------------------------------------------------
(* refresh and logout.                                                     *)

(* Mutant of Present: the SELECT does not ask for revoked_at IS NULL.      *)
Present_AnySession(c, s) ==
  /\ pc[c] = "idle"
  /\ s \in sessions
  /\ token' = [token EXCEPT ![c] = s]
  /\ Goto(c, "found")

(* Find the active session the presented token belongs to.                 *)
Present(c, s) ==
  /\ pc[c] = "idle"
  /\ s \in sessions
  /\ token' = [token EXCEPT ![c] = s]
  /\ Goto(c, IF s \in Active THEN "found" ELSE "refused")

(* A refresh or logout that found its session active and is going on.      *)
Using(c) == pc[c] \in {"found", "marked", "issuing"}

(* c revokes the token it presented: whoever else is using it is noted.    *)
NoteRivals(c) ==
  rivals' = [rivals EXCEPT ![c] = {d \in Calls \ {c} : /\ Using(d)
                                                      /\ token[d] = token[c]}]

Refresh(c, s) ==
  /\ Present(c, s)
  /\ op' = [op EXCEPT ![c] = "refresh"]
  /\ born' = [born EXCEPT ![c] = born[s]]
  /\ crossed' = IF BulkRunning \/ s \in crossed THEN crossed \cup {c}
                                                ELSE crossed
  /\ UNCHANGED <<dbVars, lockVars, pending, epoch, rivals>>

(* The UPDATE of the old session goes by primary key: it succeeds even if  *)
(* the row it waited for has been revoked meanwhile.                       *)
MarkOld(c) ==
  /\ pc[c] = "found" /\ op[c] = "refresh"
  /\ rowLock[token[c]] = Free
  /\ rowLock' = [rowLock EXCEPT ![token[c]] = c]
  /\ Goto(c, "marked")
  /\ UNCHANGED <<dbVars, userLock, op, token, pending, historyVars>>

(* The session found has expired: it is marked revoked, and the exception  *)
(* raised next rolls the mark back.                                        *)
RefreshExpired(c) ==
  /\ pc[c] = "found" /\ op[c] = "refresh"
  /\ rowLock[token[c]] = Free
  /\ Rollback(c, "refused")
  /\ UNCHANGED <<op, token, pending, historyVars>>

(* The user is read again: one that is not active is refused, which rolls  *)
(* the revocation back.                                                    *)
ReloadUser(c) ==
  /\ pc[c] = "marked"
  /\ IF status = "active"
       THEN Goto(c, "issuing") /\ UNCHANGED <<dbVars, lockVars>>
       ELSE Rollback(c, "refused")
  /\ UNCHANGED <<op, token, pending, historyVars>>

(* Mutant of RefreshCommit: the old session is left to a later commit.     *)
RefreshCommit_KeepsOld(c) ==
  /\ pc[c] = "issuing"
  /\ sessions' = sessions \cup {c}
  /\ NoteRivals(c)
  /\ Unlock(c)
  /\ Goto(c, "done")
  /\ UNCHANGED <<status, revoked, op, token, pending, epoch, born, crossed>>

(* The new session is inserted and the rotation commits.                   *)
RefreshCommit(c) ==
  /\ pc[c] = "issuing"
  /\ sessions' = sessions \cup {c}
  /\ revoked' = revoked \cup Marked(c)
  /\ NoteRivals(c)
  /\ Unlock(c)
  /\ Goto(c, "done")
  /\ UNCHANGED <<status, op, token, pending, epoch, born, crossed>>

Logout(c, s) ==
  /\ Present(c, s)
  /\ op' = [op EXCEPT ![c] = "logout"]
  /\ UNCHANGED <<dbVars, lockVars, pending, epoch, born, crossed,
                 rivals>>

(* revoke_session's UPDATE and commit, with no statement in between.       *)
RevokeSession(c) ==
  /\ pc[c] = "found" /\ op[c] = "logout"
  /\ rowLock[token[c]] = Free
  /\ revoked' = revoked \cup {token[c]}
  /\ NoteRivals(c)
  /\ Goto(c, "done")
  /\ UNCHANGED <<status, sessions, lockVars, op, token, pending, epoch, born,
                 crossed>>

-----------------------------------------------------------------------------
(* Administration: reset_password, delete_user, update_user.               *)

Administer(c, what) ==
  /\ pc[c] = "idle"
  /\ op' = [op EXCEPT ![c] = what]
  /\ Goto(c, "called")
  /\ UNCHANGED <<dbVars, lockVars, token, pending, historyVars>>

(* update_user with a new status: one UPDATE, reads, commit.  No session   *)
(* is revoked.                                                             *)
UpdateStatus(c) ==
  /\ pc[c] = "called" /\ op[c] = "status"
  /\ userLock = Free
  /\ status' \in {"active", "disabled"}
  /\ Goto(c, "done")
  /\ UNCHANGED <<sessions, revoked, lockVars, op, token, pending, historyVars>>

(* Mutant of LockUser: the users row is updated after the sessions.        *)
LockUser_Last(c) ==
  /\ pc[c] = "called" /\ op[c] \in {"reset", "delete"}
  /\ Goto(c, "locked")
  /\ UNCHANGED <<dbVars, lockVars, op, token, pending, historyVars>>

(* The UPDATE of the users row: the new password hash, or the disabling.   *)
LockUser(c) ==
  /\ pc[c] = "called" /\ op[c] \in {"reset", "delete"}
  /\ userLock = Free
  /\ userLock' = c
  /\ Goto(c, "locked")
  /\ UNCHANGED <<dbVars, rowLock, op, token, pending, historyVars>>

(* _revoke_all_user_sessions starts: its rows are the active sessions.     *)
RevokeAll(c) ==
  /\ pc[c] = "locked"
  /\ pending' = [pending EXCEPT ![c] = Active]
  /\ Goto(c, "revoking")
  /\ crossed' = crossed \cup {d \in Calls : /\ op[d] \in {"login", "refresh"}
                                            /\ pc[d] \in Open}
  /\ UNCHANGED <<dbVars, lockVars, op, token, epoch, born, rivals>>

(* Mutant of RevokeRow: rows another transaction has locked are skipped.   *)
RevokeRow_SkipLocked(c, s) ==
  /\ pc[c] = "revoking"
  /\ s \in pending[c]
  /\ rowLock' = IF s \in Active /\ rowLock[s] = Free
                  THEN [rowLock EXCEPT ![s] = c] ELSE rowLock
  /\ pending' = [pending EXCEPT ![c] = @ \ {s}]
  /\ UNCHANGED <<dbVars, userLock, op, pc, token, historyVars>>

(* It reaches a row, waits for its lock, and skips it if it is no longer   *)
(* active.                                                                 *)
RevokeRow(c, s) ==
  /\ pc[c] = "revoking"
  /\ s \in pending[c]
  /\ rowLock[s] = Free
  /\ rowLock' = IF s \in Active THEN [rowLock EXCEPT ![s] = c] ELSE rowLock
  /\ pending' = [pending EXCEPT ![c] = @ \ {s}]
  /\ UNCHANGED <<dbVars, userLock, op, pc, token, historyVars>>

BulkCommit(c) ==
  /\ pc[c] = "revoking"
  /\ pending[c] = {}
  /\ revoked' = revoked \cup Marked(c)
  /\ status' = IF op[c] = "delete" THEN "disabled" ELSE status
  /\ epoch' = epoch + 1
  /\ Unlock(c)
  /\ Goto(c, "done")
  /\ UNCHANGED <<sessions, op, token, pending, born, crossed, rivals>>

-----------------------------------------------------------------------------
(* The replica dies or the database fails the call: its transaction rolls  *)
(* back, and a login that was between two does not issue its session.      *)
Abort(c) ==
  /\ pc[c] \in Open
  /\ Rollback(c, "aborted")
  /\ UNCHANGED <<op, token, pending, historyVars>>

Begin(c) ==
  \/ Login(c)
  \/ \E s \in Ids : Refresh(c, s) \/ Logout(c, s)
  \/ \E what \in {"reset", "delete", "status"} : Administer(c, what)

(* The next statement of a call.                                           *)
Statement(c) ==
  \/ TouchUser(c)
  \/ IssuePair(c)
  \/ MarkOld(c)
  \/ RefreshExpired(c)
  \/ ReloadUser(c)
  \/ RefreshCommit(c)
  \/ RevokeSession(c)
  \/ UpdateStatus(c)
  \/ LockUser(c)
  \/ RevokeAll(c)
  \/ \E s \in Ids : RevokeRow(c, s)
  \/ BulkCommit(c)

Next == \E c \in Calls : Begin(c) \/ Statement(c) \/ Abort(c)

(* A call that can execute its next statement does.                        *)
Fairness == \A c \in Calls : WF_vars(Statement(c))

Spec == Init /\ [][Next]_vars

FairSpec == Spec /\ Fairness

-----------------------------------------------------------------------------
(* The state stays well formed: only committed rows are ever locked, and   *)
(* only by a call that has not ended.                                      *)
TypeOK ==
  /\ status \in {"active", "disabled"}
  /\ sessions \subseteq Ids
  /\ revoked \subseteq sessions
  /\ userLock \in Calls \cup {Free}
  /\ rowLock \in [Ids -> Calls \cup {Free}]
  /\ op \in [Calls -> Ops]
  /\ pc \in [Calls -> Open \cup Ended \cup {"idle"}]
  /\ token \in [Calls -> Ids]
  /\ pending \in [Calls -> SUBSET Ids]
  /\ epoch \in Nat
  /\ born \in [Ids -> 0 .. epoch]
  /\ crossed \subseteq Calls
  /\ rivals \in [Calls -> SUBSET Calls]
  /\ \A s \in Ids : rowLock[s] # Free =>
       s \in sessions /\ pc[rowLock[s]] \in Open

(* Rotation is all or nothing (auth_service.py:793-796): a session that    *)
(* came from a refresh has replaced a revoked one, and a session is        *)
(* revoked by a call that committed, never by one that was rolled back.    *)
RotationAtomic ==
  /\ \A c \in sessions \cap Calls : op[c] = "refresh" => token[c] \in revoked
  /\ \A s \in revoked : \E c \in Calls :
       /\ pc[c] = "done"
       /\ \/ op[c] \in {"refresh", "logout"} /\ token[c] = s
          \/ op[c] \in {"reset", "delete"}

(* A refresh token is used up by the first refresh or logout that commits  *)
(* (auth_service.py:790-798): two calls that succeed with the same token   *)
(* overlapped, in that one had found its session active before the other   *)
(* committed.  Nothing stronger holds: the UPDATE of the loser, which goes *)
(* by primary key, waits for the lock and then rotates the token again.    *)
Spent(c) == op[c] \in {"refresh", "logout"} /\ pc[c] = "done"

TokenSpentOnce ==
  \A c, d \in Calls :
    /\ c # d /\ token[c] = token[d]
    /\ Spent(c) /\ Spent(d)
    => c \in rivals[d] \/ d \in rivals[c]

(* What a password reset or a delete leaves behind (user_service.py:       *)
(* 603-606): an active session that goes back to a login from before it    *)
(* also goes back to a login or refresh that overlapped the bulk           *)
(* revocation; no other session survives.                                  *)
SurvivorsOverlapped ==
  \A s \in Active : born[s] < epoch => s \in crossed

(* Row locks are always taken in an order in which no calls wait for each  *)
(* other: every call ends.                                                 *)
CallsEnd == \A c \in Calls : pc[c] \in Open ~> pc[c] \in Ended
=============================================================================
