------------------------- MODULE IamSessions_proofs ------------------------
(***************************************************************************)
(* Proofs about IamSessions, for any number of calls.                      *)
(***************************************************************************)
EXTENDS IamSessions, TLAPS

(* What a call may be doing at each stage.                                 *)
StageInv ==
  \A c \in Calls :
    /\ pc[c] \in {"verified", "authenticated"} => op[c] = "login"
    /\ pc[c] = "found" => op[c] \in {"refresh", "logout"}
    /\ pc[c] \in {"marked", "issuing"} => op[c] = "refresh"
    /\ pc[c] = "called" => op[c] \in {"reset", "delete", "status"}
    /\ pc[c] \in {"locked", "revoking"} => op[c] \in {"reset", "delete"}
    /\ pc[c] \in {"found", "marked", "issuing"} => token[c] \in sessions
    /\ pending[c] \subseteq sessions
    /\ c \in sessions => pc[c] = "done"

(* Only rotations and bulk revocations hold row locks, and a rotation      *)
(* holds the lock of its own row and of no other.                          *)
LockInv ==
  /\ \A s \in Ids : rowLock[s] # Free =>
       pc[rowLock[s]] \in {"marked", "issuing", "revoking"}
  /\ \A c \in Calls : pc[c] \in {"marked", "issuing"} =>
       \A s \in Ids : rowLock[s] = c <=> s = token[c]

TypeInv == TypeOK /\ StageInv /\ LockInv

-----------------------------------------------------------------------------
LEMMA InitTypeInv == Init => TypeInv
  BY SessionsAssumption
  DEF Init, TypeInv, TypeOK, StageInv, LockInv, Ids, Ops, Open, Ended

(* The end of a transaction: its locks are free, the others are held.      *)
LEMMA Unlocked ==
  ASSUME TypeInv, NEW c \in Calls, Unlock(c)
  PROVE  /\ userLock' \in Calls \cup {Free}
         /\ rowLock' \in [Ids -> Calls \cup {Free}]
         /\ \A s \in Ids :
              rowLock'[s] = IF rowLock[s] = c THEN Free ELSE rowLock[s]
  BY SessionsAssumption DEF TypeInv, TypeOK, Unlock

LEMMA BeginTypeInv ==
  ASSUME TypeInv, NEW c \in Calls, Begin(c)
  PROVE  TypeInv'
<1> USE SessionsAssumption
    DEF TypeInv, TypeOK, StageInv, LockInv, Ids, Ops, Open, Ended, Goto,
        dbVars, lockVars, callVars, historyVars
<1>1. CASE Login(c)
  BY <1>1 DEF Login
<1>2. ASSUME NEW s \in Ids, Refresh(c, s)
      PROVE  TypeInv'
  BY <1>2 DEF Refresh, Present, Active
<1>3. ASSUME NEW s \in Ids, Logout(c, s)
      PROVE  TypeInv'
  BY <1>3 DEF Logout, Present, Active
<1>4. ASSUME NEW what \in {"reset", "delete", "status"}, Administer(c, what)
      PROVE  TypeInv'
  BY <1>4 DEF Administer
<1> QED
  BY <1>1, <1>2, <1>3, <1>4 DEF Begin

LEMMA RollbackTypeInv ==
  ASSUME TypeInv, NEW c \in Calls, NEW stage \in Ended,
         pc[c] \in Open, Rollback(c, stage),
         UNCHANGED <<op, token, pending, historyVars>>
  PROVE  TypeInv'
  BY Unlocked, SessionsAssumption
  DEF TypeInv, TypeOK, StageInv, LockInv, Ids, Ops, Open, Ended, Goto,
      Rollback, dbVars, historyVars

LEMMA StatementTypeInv ==
  ASSUME TypeInv, NEW c \in Calls, Statement(c)
  PROVE  TypeInv'
<1> USE SessionsAssumption
    DEF TypeInv, TypeOK, StageInv, LockInv, Ids, Ops, Open, Ended, Goto,
        dbVars, lockVars, callVars, historyVars
<1>1. CASE TouchUser(c)
  BY <1>1 DEF TouchUser
<1>2. CASE IssuePair(c)
  BY <1>2 DEF IssuePair
<1>3. CASE MarkOld(c)
  BY <1>3 DEF MarkOld
<1>4. CASE RefreshExpired(c)
  BY <1>4, RollbackTypeInv DEF RefreshExpired
<1>5. CASE ReloadUser(c)
  BY <1>5, RollbackTypeInv DEF ReloadUser
<1>6. CASE RefreshCommit(c)
  BY <1>6, Unlocked DEF RefreshCommit, Marked, NoteRivals
<1>7. CASE RevokeSession(c)
  BY <1>7 DEF RevokeSession, NoteRivals
<1>8. CASE UpdateStatus(c)
  BY <1>8 DEF UpdateStatus
<1>9. CASE LockUser(c)
  BY <1>9 DEF LockUser
<1>10. CASE RevokeAll(c)
  BY <1>10 DEF RevokeAll, Active
<1>11. ASSUME NEW s \in Ids, RevokeRow(c, s)
       PROVE  TypeInv'
  BY <1>11 DEF RevokeRow
<1>12. CASE BulkCommit(c)
  BY <1>12, Unlocked DEF BulkCommit, Marked
<1> QED
  BY <1>1, <1>2, <1>3, <1>4, <1>5, <1>6, <1>7, <1>8, <1>9, <1>10, <1>11,
     <1>12 DEF Statement

LEMMA NextTypeInv == TypeInv /\ [Next]_vars => TypeInv'
<1> SUFFICES ASSUME TypeInv, [Next]_vars PROVE TypeInv'
  OBVIOUS
<1>1. ASSUME NEW c \in Calls, Begin(c) PROVE TypeInv'
  BY <1>1, BeginTypeInv
<1>2. ASSUME NEW c \in Calls, Statement(c) PROVE TypeInv'
  BY <1>2, StatementTypeInv
<1>3. ASSUME NEW c \in Calls, Abort(c) PROVE TypeInv'
  BY <1>3, RollbackTypeInv DEF Abort, Ended
<1>4. CASE UNCHANGED vars
  BY <1>4
  DEF vars, dbVars, lockVars, callVars, historyVars, TypeInv, TypeOK,
      StageInv, LockInv
<1> QED
  BY <1>1, <1>2, <1>3, <1>4 DEF Next

-----------------------------------------------------------------------------
(* Rotation and revocation.                                                *)

(* TokenSpentOnce is not inductive: a call that was found to be using a    *)
(* token somebody spent meanwhile has to be on record as his rival.        *)
SpendingInv ==
  /\ TokenSpentOnce
  /\ \A c \in Calls : Spent(c) => token[c] \in revoked
  /\ \A c, d \in Calls :
       Using(c) /\ Spent(d) /\ token[c] = token[d] => c \in rivals[d]

SafetyInv == TypeInv /\ RotationAtomic /\ SpendingInv

LEMMA InitSafetyInv == Init => SafetyInv
  BY InitTypeInv, SessionsAssumption
  DEF Init, SafetyInv, RotationAtomic, SpendingInv, TokenSpentOnce, Spent,
      Using

LEMMA BeginSafety ==
  ASSUME SafetyInv, NEW c \in Calls, Begin(c)
  PROVE  RotationAtomic' /\ SpendingInv'
<1> USE SessionsAssumption
    DEF SafetyInv, TypeInv, TypeOK, StageInv, RotationAtomic,
        SpendingInv, TokenSpentOnce, Spent, Using, Ids, Goto, dbVars, lockVars, historyVars
<1>1. CASE Login(c)
  BY <1>1 DEF Login
<1>2. ASSUME NEW s \in Ids, Refresh(c, s)
      PROVE  RotationAtomic' /\ SpendingInv'
  BY <1>2 DEF Refresh, Present, Active
<1>3. ASSUME NEW s \in Ids, Logout(c, s)
      PROVE  RotationAtomic' /\ SpendingInv'
  BY <1>3 DEF Logout, Present, Active
<1>4. ASSUME NEW what \in {"reset", "delete", "status"}, Administer(c, what)
      PROVE  RotationAtomic' /\ SpendingInv'
  BY <1>4 DEF Administer
<1> QED
  BY <1>1, <1>2, <1>3, <1>4 DEF Begin

LEMMA RollbackSafety ==
  ASSUME SafetyInv, NEW c \in Calls, NEW stage \in {"refused", "aborted"},
         pc[c] \in Open, Rollback(c, stage),
         UNCHANGED <<op, token, pending, historyVars>>
  PROVE  RotationAtomic' /\ SpendingInv'
  BY SessionsAssumption
  DEF SafetyInv, TypeInv, TypeOK, StageInv, RotationAtomic, Open, Ended, Ids,
      SpendingInv, TokenSpentOnce, Spent, Using, Goto, Rollback, dbVars, historyVars

LEMMA StatementSafety ==
  ASSUME SafetyInv, NEW c \in Calls, Statement(c)
  PROVE  RotationAtomic' /\ SpendingInv'
<1> USE SessionsAssumption
    DEF SafetyInv, TypeInv, TypeOK, StageInv, LockInv, RotationAtomic,
        SpendingInv, TokenSpentOnce, Spent, Using, Ids, Open, Ended, Goto, dbVars, lockVars,
        historyVars
<1>1. CASE TouchUser(c)
  BY <1>1 DEF TouchUser
<1>2. CASE IssuePair(c)
  BY <1>2 DEF IssuePair
<1>3. CASE MarkOld(c)
  BY <1>3 DEF MarkOld
<1>4. CASE RefreshExpired(c)
  BY <1>4, RollbackSafety DEF RefreshExpired
<1>5. CASE ReloadUser(c)
  BY <1>5, RollbackSafety DEF ReloadUser
<1>6. CASE RefreshCommit(c)
  <2>1. Marked(c) = {token[c]} /\ op[c] = "refresh"
    BY <1>6 DEF RefreshCommit, Marked
  <2> QED
    BY <1>6, <2>1 DEF RefreshCommit, NoteRivals
<1>7. CASE RevokeSession(c)
  BY <1>7 DEF RevokeSession, NoteRivals
<1>8. CASE UpdateStatus(c)
  BY <1>8 DEF UpdateStatus
<1>9. CASE LockUser(c)
  BY <1>9 DEF LockUser
<1>10. CASE RevokeAll(c)
  BY <1>10 DEF RevokeAll
<1>11. ASSUME NEW s \in Ids, RevokeRow(c, s)
       PROVE  RotationAtomic' /\ SpendingInv'
  BY <1>11 DEF RevokeRow
<1>12. CASE BulkCommit(c)
  BY <1>12 DEF BulkCommit, Marked
<1> QED
  BY <1>1, <1>2, <1>3, <1>4, <1>5, <1>6, <1>7, <1>8, <1>9, <1>10, <1>11,
     <1>12 DEF Statement

LEMMA NextSafetyInv == SafetyInv /\ [Next]_vars => SafetyInv'
<1> SUFFICES ASSUME SafetyInv, [Next]_vars PROVE SafetyInv'
  OBVIOUS
<1>1. TypeInv'
  BY NextTypeInv DEF SafetyInv
<1>2. ASSUME NEW c \in Calls, Begin(c)
      PROVE  RotationAtomic' /\ SpendingInv'
  BY <1>2, BeginSafety
<1>3. ASSUME NEW c \in Calls, Statement(c)
      PROVE  RotationAtomic' /\ SpendingInv'
  BY <1>3, StatementSafety
<1>4. ASSUME NEW c \in Calls, Abort(c)
      PROVE  RotationAtomic' /\ SpendingInv'
  BY <1>4, RollbackSafety DEF Abort, Ended
<1>5. ASSUME UNCHANGED vars
      PROVE  RotationAtomic' /\ SpendingInv'
  BY <1>5
  DEF vars, dbVars, lockVars, callVars, historyVars, SafetyInv,
      RotationAtomic, SpendingInv, TokenSpentOnce, Spent, Using
<1> QED
  BY <1>1, <1>2, <1>3, <1>4, <1>5 DEF Next, SafetyInv

LEMMA SafetyInvariance == Spec => []SafetyInv
  BY InitSafetyInv, NextSafetyInv, PTL DEF Spec

-----------------------------------------------------------------------------
(* What survives a bulk revocation.                                        *)

(* Calls that are about to issue a session.                                *)
Issuing(c) ==
  /\ op[c] \in {"login", "refresh"}
  /\ pc[c] \in Open

(* While a bulk UPDATE runs, whoever is about to issue a session has       *)
(* crossed it, and every active session has crossed one too, or is still   *)
(* to be looked at, or is locked by the UPDATE.                            *)
BulkInv ==
  \A b \in Calls : pc[b] = "revoking" =>
    /\ \A c \in Calls : Issuing(c) => c \in crossed
    /\ \A s \in Active : s \in crossed \/ s \in pending[b] \/ rowLock[s] = b

IssuersCrossed ==
  \A c \in Calls : Issuing(c) /\ born[c] < epoch => c \in crossed

Survival == SurvivorsOverlapped /\ IssuersCrossed /\ BulkInv

LEMMA InitSurvival == Init => Survival
  BY SessionsAssumption
  DEF Init, Survival, SurvivorsOverlapped, IssuersCrossed, BulkInv, Issuing,
      Active, Open, Ids

LEMMA BeginSurvival ==
  ASSUME SafetyInv, Survival, NEW c \in Calls, Begin(c)
  PROVE  Survival'
<1> USE SessionsAssumption
    DEF SafetyInv, TypeInv, TypeOK, StageInv, Survival, SurvivorsOverlapped,
        IssuersCrossed, BulkInv, Issuing, Active, BulkRunning, Ids, Open,
        Ended, Goto, dbVars, lockVars, historyVars
<1>1. CASE Login(c)
  BY <1>1 DEF Login
<1>2. ASSUME NEW s \in Ids, Refresh(c, s)
      PROVE  Survival'
  BY <1>2 DEF Refresh, Present
<1>3. ASSUME NEW s \in Ids, Logout(c, s)
      PROVE  Survival'
  BY <1>3 DEF Logout, Present
<1>4. ASSUME NEW what \in {"reset", "delete", "status"}, Administer(c, what)
      PROVE  Survival'
  BY <1>4 DEF Administer
<1> QED
  BY <1>1, <1>2, <1>3, <1>4 DEF Begin

LEMMA RollbackSurvival ==
  ASSUME SafetyInv, Survival, NEW c \in Calls, NEW stage \in Ended,
         pc[c] \in Open, Rollback(c, stage),
         UNCHANGED <<op, token, pending, historyVars>>
  PROVE  Survival'
  BY Unlocked, SessionsAssumption
  DEF SafetyInv, TypeInv, TypeOK, Survival, SurvivorsOverlapped, Active,
      IssuersCrossed, BulkInv, Issuing, Open, Ended, Ids, Goto, Rollback,
      dbVars, historyVars

LEMMA StatementSurvival ==
  ASSUME SafetyInv, Survival, NEW c \in Calls, Statement(c)
  PROVE  Survival'
<1> USE SessionsAssumption
    DEF SafetyInv, TypeInv, TypeOK, StageInv, LockInv, Survival,
        SurvivorsOverlapped, IssuersCrossed, BulkInv, Issuing, Active, Ids,
        Open, Ended, Goto, dbVars, lockVars, historyVars
<1>1. CASE TouchUser(c)
  BY <1>1 DEF TouchUser
<1>2. CASE IssuePair(c)
  BY <1>2 DEF IssuePair
<1>3. CASE MarkOld(c)
  BY <1>3 DEF MarkOld
<1>4. CASE RefreshExpired(c)
  BY <1>4, RollbackSurvival DEF RefreshExpired
<1>5. CASE ReloadUser(c)
  BY <1>5, RollbackSurvival DEF ReloadUser
<1>6. CASE RefreshCommit(c)
  BY <1>6, Unlocked DEF RefreshCommit, NoteRivals
<1>7. CASE RevokeSession(c)
  BY <1>7 DEF RevokeSession, NoteRivals
<1>8. CASE UpdateStatus(c)
  BY <1>8 DEF UpdateStatus
<1>9. CASE LockUser(c)
  BY <1>9 DEF LockUser
<1>10. CASE RevokeAll(c)
  BY <1>10 DEF RevokeAll
<1>11. ASSUME NEW s \in Ids, RevokeRow(c, s)
       PROVE  Survival'
  BY <1>11 DEF RevokeRow
<1>12. CASE BulkCommit(c)
  BY <1>12, Unlocked DEF BulkCommit, Marked
<1> QED
  BY <1>1, <1>2, <1>3, <1>4, <1>5, <1>6, <1>7, <1>8, <1>9, <1>10, <1>11,
     <1>12 DEF Statement

LEMMA NextSurvival == SafetyInv /\ Survival /\ [Next]_vars => Survival'
<1> SUFFICES ASSUME SafetyInv, Survival, [Next]_vars PROVE Survival'
  OBVIOUS
<1>1. ASSUME NEW c \in Calls, Begin(c) PROVE Survival'
  BY <1>1, BeginSurvival
<1>2. ASSUME NEW c \in Calls, Statement(c) PROVE Survival'
  BY <1>2, StatementSurvival
<1>3. ASSUME NEW c \in Calls, Abort(c) PROVE Survival'
  BY <1>3, RollbackSurvival DEF Abort, Ended
<1>4. CASE UNCHANGED vars
  BY <1>4
  DEF vars, dbVars, lockVars, callVars, historyVars, Survival, BulkInv,
      SurvivorsOverlapped, IssuersCrossed, Issuing, Active
<1> QED
  BY <1>1, <1>2, <1>3, <1>4 DEF Next

-----------------------------------------------------------------------------
(* The theorems.                                                           *)

(* The state stays well formed, and no ended call holds a row lock.        *)
THEOREM TypeCorrect == Spec => []TypeOK
  BY SafetyInvariance, PTL DEF SafetyInv, TypeInv

(* A rotation commits with the revocation of the session it replaces or    *)
(* not at all, and a call that was rolled back has revoked nothing.        *)
THEOREM RotationsAtomic == Spec => []RotationAtomic
  BY SafetyInvariance, PTL DEF SafetyInv

(* Two calls that succeed with one refresh token overlapped: once a refresh *)
(* or logout has committed, no call that presents its token later succeeds. *)
THEOREM TokensSpentOnce == Spec => []TokenSpentOnce
  BY SafetyInvariance, PTL DEF SafetyInv, SpendingInv

(* The sessions that survive a reset or a delete are those of logins and   *)
(* refreshes that overlapped its bulk UPDATE, and what came of them.       *)
THEOREM OnlyOverlappingSurvive == Spec => []SurvivorsOverlapped
<1>1. Spec => []Survival
  BY SafetyInvariance, InitSurvival, NextSurvival, PTL DEF Spec
<1> QED
  BY <1>1, PTL DEF Survival
=============================================================================
