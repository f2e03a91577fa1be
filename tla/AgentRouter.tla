---------------------------- MODULE AgentRouter ----------------------------
(***************************************************************************)
(* The agent gateway's Router: every chat request resolves to the callable *)
(* providers, cheapest first, and walks that failover chain; a circuit     *)
(* breaker per provider, shared by all requests of the process, decides    *)
(* which providers are callable.  Requests interleave at every call of a   *)
(* provider, which is the only place where they suspend.                   *)
(*                                                                         *)
(* Providers are the candidates of every request, whether it names a model *)
(* or a tier: other providers never meet these.                            *)
(***************************************************************************)
EXTENDS Integers, FiniteSets

CONSTANTS
  Providers,   \* the providers of the requested model or tier
  Rank,        \* position of each in the order of _sort_key, cheapest first
  Requests,    \* chat-completions calls
  Streamed,    \* those with "stream": true
  Threshold,   \* failure_threshold
  Cooldown,    \* cooldown_seconds
  MaxTime,     \* bound: clock readings
  NoProvider

ASSUME RouterAssumption ==
  /\ Rank \in [Providers -> Nat]
  /\ \A p, q \in Providers : Rank[p] = Rank[q] => p = q
  /\ Streamed \subseteq Requests
  /\ Threshold \in Nat \ {0}
  /\ Cooldown \in Nat
  /\ MaxTime \in Nat
  /\ NoProvider \notin Providers

Never == -1

VARIABLES
  now,        \* time.time()
  state,      \* _Breaker.state of each provider
  failures,   \* _Breaker.consecutive_failures
  openedAt,   \* _Breaker.opened_at, or Never
  successes,  \* _Breaker.total_successes
  stage,      \* where each request is
  primary,    \* decision.primary of each request
  calling,    \* the provider each request has called last
  rest,       \* the providers of its failover chain that come after it
  billed,     \* provider named in its response and in its usage record
  tried,      \* history: providers each request has called
  skipped     \* history: providers it found open, at resolve or at their turn

breakerVars == <<state, failures, openedAt, successes>>
requestVars == <<stage, primary, calling, rest, billed, tried, skipped>>
vars == <<now, breakerVars, requestVars>>

States == {"closed", "open", "half_open"}
InFlight == {"calling", "streaming"}

Init ==
  /\ now = 0
  /\ state = [p \in Providers |-> "closed"]
  /\ failures = [p \in Providers |-> 0]
  /\ openedAt = [p \in Providers |-> Never]
  /\ successes = [p \in Providers |-> 0]
  /\ stage = [r \in Requests |-> "idle"]
  /\ primary = [r \in Requests |-> NoProvider]
  /\ calling = [r \in Requests |-> NoProvider]
  /\ rest = [r \in Requests |-> {}]
  /\ billed = [r \in Requests |-> NoProvider]
  /\ tried = [r \in Requests |-> {}]
  /\ skipped = [r \in Requests |-> {}]

-----------------------------------------------------------------------------
(* The breaker.                                                            *)

(* What evaluate() makes of a breaker that is in state s.                  *)
Evaluated(p, s) ==
  IF s = "open" /\ now - openedAt[p] >= Cooldown THEN "half_open" ELSE s

(* Mutant of RecordSuccess: the failure count is kept.                     *)
RecordSuccess_KeepsCount(p, times) ==
  /\ state' = [state EXCEPT ![p] = "closed"]
  /\ openedAt' = [openedAt EXCEPT ![p] = Never]
  /\ successes' = [successes EXCEPT ![p] = successes[p] + times]
  /\ UNCHANGED failures

RecordSuccess(p, times) ==
  /\ failures' = [failures EXCEPT ![p] = 0]
  /\ openedAt' = [openedAt EXCEPT ![p] = Never]
  /\ state' = [state EXCEPT ![p] = "closed"]
  /\ successes' = [successes EXCEPT ![p] = successes[p] + times]

(* The failure that trips the breaker: only from the closed state.         *)
Trips(p) == state[p] = "closed" /\ failures[p] + 1 >= Threshold

StateAfterFailure(p) == IF Trips(p) THEN "open" ELSE state[p]

RecordFailure(p) ==
  /\ failures' = [failures EXCEPT ![p] = failures[p] + 1]
  /\ openedAt' = [openedAt EXCEPT ![p] = IF Trips(p) THEN now ELSE openedAt[p]]
  /\ UNCHANGED successes

-----------------------------------------------------------------------------
(* Routing.                                                                *)

Cheapest(S) == CHOOSE p \in S : \A q \in S : Rank[p] <= Rank[q]

After(S, p) == {q \in S : Rank[q] > Rank[p]}

(* The request calls the first provider of the chain that is callable, and *)
(* has given up when there is none.  ready is the callable part of the     *)
(* chain.                                                                  *)
CallFirst(r, chain, ready) ==
  IF ready = {}
    THEN /\ stage' = [stage EXCEPT ![r] = "failed"]
         /\ skipped' = [skipped EXCEPT ![r] = skipped[r] \cup chain]
         /\ UNCHANGED <<calling, rest, tried>>
    ELSE LET p == Cheapest(ready)
         IN /\ stage' = [stage EXCEPT ![r] = "calling"]
            /\ calling' = [calling EXCEPT ![r] = p]
            /\ rest' = [rest EXCEPT ![r] = After(chain, p)]
            /\ tried' = [tried EXCEPT ![r] = tried[r] \cup {p}]
            /\ skipped' = [skipped EXCEPT ![r] =
                 skipped[r] \cup (chain \ (After(chain, p) \cup {p}))]

(* resolve(), which evaluates every candidate and leaves the open ones     *)
(* out, and the call of the primary.                                       *)
Route(r) ==
  LET ready == {p \in Providers : Evaluated(p, state[p]) # "open"}
  IN /\ stage[r] = "idle"
     /\ state' = [p \in Providers |-> Evaluated(p, state[p])]
     /\ IF ready = {}
          THEN /\ stage' = [stage EXCEPT ![r] = "failed"]
               /\ skipped' = [skipped EXCEPT ![r] = Providers]
               /\ UNCHANGED <<primary, calling, rest, tried>>
          ELSE LET p == Cheapest(ready)
               IN /\ stage' = [stage EXCEPT ![r] = "calling"]
                  /\ primary' = [primary EXCEPT ![r] = p]
                  /\ calling' = [calling EXCEPT ![r] = p]
                  /\ rest' = [rest EXCEPT ![r] = ready \ {p}]
                  /\ tried' = [tried EXCEPT ![r] = {p}]
                  /\ skipped' = [skipped EXCEPT ![r] = Providers \ ready]
     /\ UNCHANGED <<now, failures, openedAt, successes, billed>>

(* Mutant of Failover: the chain is not looked up in the breakers again.   *)
Failover_StaleChain(r) ==
  /\ stage[r] = "calling"
  /\ RecordFailure(calling[r])
  /\ state' = [state EXCEPT ![calling[r]] = StateAfterFailure(calling[r])]
  /\ CallFirst(r, rest[r], rest[r])
  /\ UNCHANGED <<now, primary, billed>>

(* Mutant of Failover: an open provider ends the walk of the chain.        *)
Failover_StopsAtOpen(r) ==
  LET callable == {p \in rest[r] : Evaluated(p, state[p]) # "open"}
      blocked == rest[r] # {} /\ Cheapest(rest[r]) \notin callable
      ready == IF blocked THEN {} ELSE callable
  IN /\ stage[r] = "calling"
     /\ RecordFailure(calling[r])
     /\ state' = [state EXCEPT ![calling[r]] = StateAfterFailure(calling[r])]
     /\ IF blocked
          THEN /\ stage' = [stage EXCEPT ![r] = "failed"]
               /\ skipped' = [skipped EXCEPT ![r] =
                    skipped[r] \cup {Cheapest(rest[r])}]
               /\ UNCHANGED <<calling, rest, tried>>
          ELSE CallFirst(r, rest[r], ready)
     /\ UNCHANGED <<now, primary, billed>>

(* The provider times out, answers 5xx or 429, or ends the stream before   *)
(* its first chunk: its failure is recorded, and the next provider of the  *)
(* chain whose breaker is not open, any more or yet, is called.            *)
(* evaluate() leaves the ones passed over as they are, which is open.      *)
Failover(r) ==
  LET ready == {p \in rest[r] : Evaluated(p, state[p]) # "open"}
      failed == [state EXCEPT ![calling[r]] = StateAfterFailure(calling[r])]
  IN /\ stage[r] = "calling"
     /\ RecordFailure(calling[r])
     /\ state' = IF ready = {}
                   THEN failed
                   ELSE LET p == Cheapest(ready)
                        IN [failed EXCEPT ![p] = Evaluated(p, @)]
     /\ CallFirst(r, rest[r], ready)
     /\ UNCHANGED <<now, primary, billed>>

(* The whole answer has arrived; the endpoint meters it and returns it     *)
(* under the name of decision.primary.                                     *)
Answer(r) ==
  /\ stage[r] = "calling"
  /\ r \notin Streamed
  /\ RecordSuccess(calling[r], 1)
  /\ stage' = [stage EXCEPT ![r] = "answered"]
  /\ billed' = [billed EXCEPT ![r] = primary[r]]
  /\ UNCHANGED <<now, primary, calling, rest, tried, skipped>>

(* The first chunk of a stream commits the request to this provider.       *)
FirstChunk(r) ==
  /\ stage[r] = "calling"
  /\ r \in Streamed
  /\ stage' = [stage EXCEPT ![r] = "streaming"]
  /\ UNCHANGED <<now, breakerVars, primary, calling, rest, billed, tried,
                 skipped>>

(* The stream ends: _drive records a success in its try block and another  *)
(* in its else block.  The stream is metered if it carried a usage block.  *)
StreamEnds(r) ==
  /\ stage[r] = "streaming"
  /\ RecordSuccess(calling[r], 2)
  /\ stage' = [stage EXCEPT ![r] = "answered"]
  /\ \/ billed' = [billed EXCEPT ![r] = primary[r]]
     \/ UNCHANGED billed
  /\ UNCHANGED <<now, primary, calling, rest, tried, skipped>>

(* A permanent error of the call, or any provider error in mid-stream: the *)
(* failure is recorded and the request ends without failover.              *)
Reject(r) ==
  /\ stage[r] \in InFlight
  /\ RecordFailure(calling[r])
  /\ state' = [state EXCEPT ![calling[r]] = StateAfterFailure(calling[r])]
  /\ stage' = [stage EXCEPT ![r] = "rejected"]
  /\ UNCHANGED <<now, primary, calling, rest, billed, tried, skipped>>

(* The answer ends without a terminal chunk: route_and_call raises a plain *)
(* ProviderError, which its own handler treats as a permanent error.       *)
Truncate(r) ==
  /\ stage[r] = "calling"
  /\ r \notin Streamed
  /\ RecordFailure(calling[r])
  /\ state' = [state EXCEPT ![calling[r]] = StateAfterFailure(calling[r])]
  /\ stage' = [stage EXCEPT ![r] = "truncated"]
  /\ UNCHANGED <<now, primary, calling, rest, billed, tried, skipped>>

(* The client goes away, or an exception that is no ProviderError escapes: *)
(* nothing is recorded.                                                    *)
Abandon(r) ==
  /\ stage[r] \in InFlight
  /\ stage' = [stage EXCEPT ![r] = "abandoned"]
  /\ UNCHANGED <<now, breakerVars, primary, calling, rest, billed, tried,
                 skipped>>

(* GET /v1/models reads health_for(p) of every provider.                   *)
ListModels ==
  /\ state' = [p \in Providers |-> Evaluated(p, state[p])]
  /\ UNCHANGED <<now, failures, openedAt, successes, requestVars>>

Tick ==
  /\ now < MaxTime
  /\ now' = now + 1
  /\ UNCHANGED <<breakerVars, requestVars>>

Serve(r) ==
  \/ Route(r)
  \/ Failover(r)
  \/ Answer(r)
  \/ FirstChunk(r)
  \/ StreamEnds(r)
  \/ Reject(r)
  \/ Truncate(r)
  \/ Abandon(r)

Next == Tick \/ ListModels \/ \E r \in Requests : Serve(r)

Spec == Init /\ [][Next]_vars

-----------------------------------------------------------------------------
(* The state stays well formed.                                            *)
TypeOK ==
  /\ now \in 0 .. MaxTime
  /\ state \in [Providers -> States]
  /\ failures \in [Providers -> Nat]
  /\ openedAt \in [Providers -> {Never} \cup 0 .. MaxTime]
  /\ successes \in [Providers -> Nat]
  /\ stage \in [Requests -> InFlight \cup {"idle", "answered", "failed",
                                           "rejected", "truncated",
                                           "abandoned"}]
  /\ primary \in [Requests -> Providers \cup {NoProvider}]
  /\ calling \in [Requests -> Providers \cup {NoProvider}]
  /\ rest \in [Requests -> SUBSET Providers]
  /\ billed \in [Requests -> Providers \cup {NoProvider}]
  /\ tried \in [Requests -> SUBSET Providers]
  /\ skipped \in [Requests -> SUBSET Providers]

(* Late successes and failures of overlapping requests leave the three     *)
(* fields of a breaker consistent: a closed one is short of the threshold  *)
(* and has no opened_at, another one has reached it and knows since when.  *)
BreakerConsistent ==
  \A p \in Providers :
    IF state[p] = "closed"
      THEN failures[p] < Threshold /\ openedAt[p] = Never
      ELSE failures[p] >= Threshold /\ openedAt[p] \in 0 .. now

(* router.py:17-20: no request sends a call to a provider that is cooling  *)
(* off, even when its failover chain was computed before the breaker       *)
(* opened.                                                                 *)
NoCallDuringCooldown ==
  [][\A r \in Requests : \A p \in tried'[r] \ tried[r] :
       ~(state[p] = "open" /\ now - openedAt[p] < Cooldown)]_vars

(* A request gives up on failover only when it has called, or found open,  *)
(* every provider that could have answered it.                             *)
FailedOnlyWhenExhausted ==
  \A r \in Requests :
    stage[r] = "failed" => tried[r] \cup skipped[r] = Providers

(* A request never calls a provider twice, and walks the chain from the    *)
(* cheapest provider to the dearest.                                       *)
CheapestFirst ==
  [][\A r \in Requests : \A p \in tried'[r] \ tried[r] :
       \A q \in tried[r] : Rank[q] < Rank[p]]_vars
=============================================================================
