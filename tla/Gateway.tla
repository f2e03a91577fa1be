------------------------------- MODULE Gateway -----------------------------
(***************************************************************************)
(* The API gateway: a request passes authentication, the rate limiter and  *)
(* the router, on one of several replicas (main.go: trace, auth, ratelimit,*)
(* router; tracing changes nothing here).  The replicas share nothing but  *)
(* the token buckets in Redis, which a Lua script reads and writes in one  *)
(* step.  A call of the script may never reach Redis, or its answer may be *)
(* lost; the client library may then run it again.                         *)
(*                                                                         *)
(* A path is the sequence of its segments.  Time is counted in ticks, of   *)
(* which PerSecond make a second, and tokens in shares of a token, of      *)
(* which PerSecond make a token: the bucket gains Rate shares a tick.  The *)
(* script computes with doubles.  Their errors are far smaller than a      *)
(* share, so all that can be told from them is whether a bucket is a       *)
(* little short of its shares.                                             *)
(***************************************************************************)
EXTENDS Integers, Sequences, SequencesExt

CONSTANTS
  Requests,  \* requests of clients
  Asks,      \* what each request may ask: its path and its bearer token
  Upstreams, \* the service behind each path prefix
  Serves,    \* the path prefixes each service answers
  Rate,      \* AIDP_RATE_LIMIT_RPS
  Burst,     \* AIDP_RATE_LIMIT_BURST
  PerSecond,
  MaxTime,   \* bound on the clock
  MaxBack,   \* bound on how far Redis's clock is set back in all
  MaxRetries, \* bound on the times the client library sends the script again
  None

ASSUME GatewayAssumption ==
  /\ Rate \in Nat \ {0} /\ Burst \in Nat /\ Burst >= Rate
  /\ PerSecond \in Nat \ {0}
  /\ None \notin BOOLEAN
  /\ None \notin [tokens : Int, short : BOOLEAN, ts : Int, expires : Int]

VARIABLES
  pc,      \* where each request is
  ask,     \* what it asks
  status,  \* the answer to the client, None before
  reply,   \* what the script returned for it, None when it is not known
  buckets, \* the buckets in Redis: shares, whether the number stored is a
           \* little less, time of the last run, expiry
  time,    \* the time that has passed
  back,    \* how far Redis's clock is behind
  regained, \* how much it has caught up again
  retries, \* how often the client library has sent the script again
  spent    \* history: the runs of the script that took a token for each identity

requestVars == <<pc, ask, status, reply>>
clockVars == <<time, back, regained>>
vars == <<requestVars, buckets, clockVars, retries, spent>>

-----------------------------------------------------------------------------
(* Paths and tokens.                                                       *)

Api == <<"api", "v1">>

PublicPaths == {<<"healthz">>, <<"readyz">>, Api \o <<"auth", "login">>}

IsPublic(path) == \E p \in PublicPaths : IsPrefix(p, path)

(* The first segment after /api/v1, if there is one.                       *)
MatchPrefix(path) ==
  IF IsPrefix(Api, path) /\ Len(path) > Len(Api) THEN path[Len(Api) + 1]
                                                 ELSE None

(* What the service is asked: the path after the prefix.                   *)
Stripped(path) == SubSeq(path, Len(Api) + 2, Len(path))

Claim(token, name) == IF name \in DOMAIN token THEN token[name] ELSE None

(* The identity of a request: the claims sub and tenant_id of its token,   *)
(* whose signature is not looked at.                                       *)
HasIdentity(a) ==
  /\ a.token # None
  /\ Claim(a.token, "sub") # None
  /\ Claim(a.token, "tenant_id") # None

Identity(a) == <<a.token.tenant_id, a.token.sub>>

(* A claim is the sequence of its characters.  The key is written          *)
(* rl:<tenant>:<sub>, and a claim may hold a colon.                        *)
Spelling(id) == id[1] \o <<":">> \o id[2]

(* Mutant of BucketKey: the bucket is that of the user, of any tenant.     *)
BucketKey_UserOnly(a) == a.token.sub

(* Authentication lets nobody through without an identity but on public    *)
(* paths, which are not limited: the buckets of addresses are never used.  *)
BucketKey(a) == Spelling(Identity(a))

Identified == {a \in UNION {Asks[r] : r \in Requests} : HasIdentity(a)}
Identities == {Identity(a) : a \in Identified}
Keys == {BucketKey(a) : a \in Identified}

-----------------------------------------------------------------------------
(* The script.                                                             *)

Cost == PerSecond
Full == Burst * PerSecond

(* What the clock of Redis shows.                                          *)
Clock == time - back

(* ceil(burst / rate) + 1 seconds.                                         *)
Ttl == (((Burst + Rate - 1) \div Rate) + 1) * PerSecond

(* Mutant of Exists: a bucket written ahead of the clock counts as stale.  *)
Exists_NotAhead(key) ==
  /\ buckets[key] # None
  /\ buckets[key].ts <= Clock /\ Clock < buckets[key].expires

Exists(key) == buckets[key] # None /\ Clock < buckets[key].expires

(* A clock that runs back refills nothing.                                 *)
Elapsed(key) == Max({0, Clock - buckets[key].ts})

Refilled(key) == buckets[key].tokens + Elapsed(key) * Rate

Tokens(key) == IF Exists(key) THEN Min({Full, Refilled(key)}) ELSE Full

(* Whether the number the script computes may be short of these tokens: a  *)
(* full bucket is not, whole tokens and whole seconds add up exactly, and  *)
(* without a refill the number stays.                                      *)
Rounded(key) ==
  LET b == buckets[key]
      exact == b.tokens % Cost = 0 /\ ~b.short /\ Elapsed(key) % PerSecond = 0
  IN CASE ~Exists(key) \/ Refilled(key) > Full -> {FALSE}
       [] OTHER -> IF Elapsed(key) = 0 THEN {b.short}
                   ELSE IF exact THEN {FALSE} ELSE BOOLEAN

(* tokens >= cost, of doubles.                                             *)
Enough(tokens, short) == tokens > Cost \/ (tokens = Cost /\ ~short)

-----------------------------------------------------------------------------
Init ==
  /\ pc = [r \in Requests |-> "idle"]
  /\ ask = [r \in Requests |-> None]
  /\ status = [r \in Requests |-> None]
  /\ reply = [r \in Requests |-> None]
  /\ buckets = [k \in Keys |-> None]
  /\ time = 0
  /\ back = 0
  /\ regained = 0
  /\ retries = 0
  /\ spent = [i \in Identities |-> <<>>]

Goto(r, stage) == pc' = [pc EXCEPT ![r] = stage]

Finish(r, code) ==
  /\ Goto(r, "done")
  /\ status' = [status EXCEPT ![r] = code]

(* Auth, and the test for public paths of the limiter.                     *)
Arrive(r) ==
  /\ pc[r] = "idle"
  /\ \E a \in Asks[r] :
       /\ ask' = [ask EXCEPT ![r] = a]
       /\ \/ IsPublic(a.path) /\ Goto(r, "routing") /\ UNCHANGED status
          \/ /\ ~IsPublic(a.path) /\ HasIdentity(a)
             /\ Goto(r, "limiting") /\ UNCHANGED status
          \/ /\ ~IsPublic(a.path) /\ ~HasIdentity(a)
             /\ Finish(r, "unauthorized")
  /\ UNCHANGED <<reply, buckets, clockVars, retries, spent>>

(* How far the clock of Redis has run, what it ran twice included.         *)
Ran == time + regained

(* Redis runs the script.                                                  *)
RunScript(r) ==
  /\ pc[r] = "limiting"
  /\ LET k == BucketKey(ask[r])
     IN \E short \in Rounded(k) :
          LET allowed == Enough(Tokens(k), short)
          IN /\ buckets' = [buckets EXCEPT ![k] =
                   [tokens |-> Tokens(k) - (IF allowed THEN Cost ELSE 0),
                    short |-> short, ts |-> Clock, expires |-> Clock + Ttl]]
             /\ reply' = [reply EXCEPT ![r] = allowed]
             /\ spent' = IF allowed
                         THEN [spent EXCEPT ![Identity(ask[r])] =
                                 Append(@, [ran |-> Ran, clock |-> Clock])]
                         ELSE spent
  /\ Goto(r, "replying")
  /\ UNCHANGED <<ask, status, clockVars, retries>>

(* The connection fails before the answer arrives, and the client library  *)
(* sends the script once more.                                             *)
RunAgain(r) ==
  /\ pc[r] = "replying"
  /\ retries < MaxRetries
  /\ retries' = retries + 1
  /\ Goto(r, "limiting")
  /\ reply' = [reply EXCEPT ![r] = None]
  /\ UNCHANGED <<ask, status, buckets, clockVars, spent>>

(* The call of the script is over.                                         *)
Leave(r) ==
  /\ reply' = [reply EXCEPT ![r] = None]
  /\ UNCHANGED <<ask, buckets, clockVars, retries, spent>>

(* No answer in time, or no Redis: the request passes.                     *)
FailOpen(r) ==
  /\ pc[r] \in {"limiting", "replying"}
  /\ Goto(r, "routing")
  /\ Leave(r)
  /\ UNCHANGED status

Reply(r) ==
  /\ pc[r] = "replying"
  /\ \/ reply[r] /\ Goto(r, "routing") /\ UNCHANGED status
     \/ ~reply[r] /\ Finish(r, "rate_limited")
  /\ Leave(r)

(* The router: no proxy for the prefix, or the service, which answers the  *)
(* paths it serves, unless it cannot be reached.                           *)
Route(r) ==
  /\ pc[r] = "routing"
  /\ LET prefix == MatchPrefix(ask[r].path)
     IN IF prefix \in DOMAIN Upstreams
        THEN \/ Finish(r, "upstream_error")
             \/ Finish(r, IF \E p \in Serves[Upstreams[prefix]] :
                               IsPrefix(p, Stripped(ask[r].path))
                          THEN "answered" ELSE "not_found")
        ELSE Finish(r, "not_found")
  /\ UNCHANGED <<ask, reply, buckets, clockVars, retries, spent>>

Tick ==
  /\ time < MaxTime
  /\ time' = time + 1
  /\ UNCHANGED <<requestVars, buckets, back, regained, retries, spent>>

(* Redis's clock is set back, and catches up again.                        *)
SetBack ==
  /\ back + regained < MaxBack
  /\ back' = back + 1
  /\ UNCHANGED <<requestVars, buckets, time, regained, retries, spent>>

CatchUp ==
  /\ back > 0
  /\ back' = back - 1
  /\ regained' = regained + 1
  /\ UNCHANGED <<requestVars, buckets, time, retries, spent>>

Pass(r) == Arrive(r) \/ RunScript(r) \/ RunAgain(r) \/ FailOpen(r) \/ Reply(r)
             \/ Route(r)

Next == Tick \/ SetBack \/ CatchUp \/ \E r \in Requests : Pass(r)

Spec == Init /\ [][Next]_vars

-----------------------------------------------------------------------------
(* In no period does an identity take more tokens than a full bucket and   *)
(* what it gains while Redis's clock runs that far, however its requests   *)
(* interleave on the replicas and whether its bucket expired meanwhile     *)
(* (ratelimit.go:41-91).  What a clock set back catches up is run twice.   *)
WithinBudget ==
  \A id \in Identities :
    LET s == spent[id]
    IN \A i, j \in DOMAIN s : i <= j =>
         (j - i + 1) * Cost <= Full + (s[j].ran - s[i].ran) * Rate

(* No other identity has the key of this one.                              *)
Distinct(id) ==
  \A other \in Identities : Spelling(other) = Spelling(id) => other = id

(* With one token more the identity would have taken, since some run, more *)
(* than a full bucket, and no less than that and what it gained by Redis's *)
(* clock: a token that is just complete may be refused for its rounding.   *)
OverBudget(id) ==
  LET s == spent[id]
  IN \E i \in DOMAIN s :
       LET beyond == (Len(s) - i + 2) * Cost - Full
       IN beyond > 0 /\ beyond >= (Clock - s[i].clock) * Rate

(* A request whose identity has a key of its own is refused for nothing    *)
(* but what that identity has taken (ratelimit.go:70-83,165-169), whoever  *)
(* else is being limited.                                                  *)
RefusedOverBudget ==
  [][\A r \in Requests :
       pc[r] = "limiting" /\ reply'[r] = FALSE /\ Distinct(Identity(ask[r])) =>
         OverBudget(Identity(ask[r]))]_vars

(* A caller without a token can log in: a request for the public path of   *)
(* login is answered by the service that serves it, or that service cannot *)
(* be reached.                                                             *)
LoginReachesIam ==
  \A r \in Requests :
    status[r] # None /\ ask[r].path = Api \o <<"auth", "login">> =>
      status[r] \in {"answered", "upstream_error"}
=============================================================================
