------------------------ MODULE AgentGateway_proofs ------------------------
(***************************************************************************)
(* Proofs about AgentRouter, and about AgentGateway, which extends it, for *)
(* every set of providers and requests, finite or not, every threshold and *)
(* cool-off, every catalogue and every size of the metering queue.         *)
(* MaxTime only limits how far the clock goes.                             *)
(***************************************************************************)
EXTENDS AgentGateway, TLAPS, WellFoundedInduction

-----------------------------------------------------------------------------
(* The head of a failover chain.                                           *)

(* A set of ranks has a least one.                                         *)
LEMMA LeastRank ==
  ASSUME NEW T \in SUBSET Nat, T # {}
  PROVE  \E x \in T : \A y \in T : x <= y
<1>1. IsWellFoundedOn({ss \in Nat \X Nat : ss[1] < ss[2]}, Nat)
  BY NatLessThanWellFounded DEF OpToRel
<1>2. PICK x \in T :
        \A y \in T : ~(<<y, x>> \in {ss \in Nat \X Nat : ss[1] < ss[2]})
  BY <1>1, WFMin
<1>3. ASSUME NEW y \in T PROVE x <= y
  <2>1. ~(<<y, x>> \in {ss \in Nat \X Nat : ss[1] < ss[2]})
    BY <1>2
  <2>2. x \in Nat /\ y \in Nat
    OBVIOUS
  <2>3. ~(y < x)
    BY <2>1, <2>2
  <2> QED
    BY <2>2, <2>3
<1> QED
  BY <1>3

(* Cheapest chooses a provider of the set, and the only one of its price.  *)
LEMMA CheapestIsLeast ==
  ASSUME NEW S \in SUBSET Providers, S # {}
  PROVE  /\ Cheapest(S) \in S
         /\ \A q \in S : q # Cheapest(S) => Rank[Cheapest(S)] < Rank[q]
<1> DEFINE T == {Rank[p] : p \in S}
<1>1. T \in SUBSET Nat /\ T # {}
  BY RouterAssumption
<1>2. \E x \in T : \A y \in T : x <= y
  <2> HIDE DEF T
  <2> QED
    BY <1>1, LeastRank
<1>3. \E p \in S : \A q \in S : Rank[p] <= Rank[q]
  BY <1>2
<1>4. Cheapest(S) \in S /\ \A q \in S : Rank[Cheapest(S)] <= Rank[q]
  BY <1>3 DEF Cheapest
<1>5. ASSUME NEW q \in S, q # Cheapest(S) PROVE Rank[Cheapest(S)] < Rank[q]
  BY <1>4, <1>5, RouterAssumption
<1> QED
  BY <1>4, <1>5

-----------------------------------------------------------------------------
(* The inductive invariant.                                                *)

(* A request in flight has called a provider; before that, nothing.  As    *)
(* long as it may fail over, the providers it has neither called nor found *)
(* open make up the rest of its chain, and all of them are dearer than the *)
(* ones it has called.                                                     *)
ChainInv ==
  \A r \in Requests :
    /\ stage[r] \in InFlight => calling[r] \in Providers
    /\ stage[r] = "idle" => tried[r] = {}
    /\ stage[r] = "calling" =>
         /\ tried[r] \cup skipped[r] \cup rest[r] = Providers
         /\ \A q \in tried[r] : \A p \in rest[r] : Rank[q] < Rank[p]

RouterInv == TypeOK /\ BreakerConsistent /\ ChainInv /\ FailedOnlyWhenExhausted

LEMMA InitRouterInv == Init => RouterInv
  BY RouterAssumption
  DEF Init, RouterInv, TypeOK, BreakerConsistent, ChainInv,
      FailedOnlyWhenExhausted, InFlight, States, Never

(* Evaluating a breaker changes its state, at most, from open to half-open.*)
LEMMA EvaluatedState ==
  ASSUME NEW p, NEW s \in States
  PROVE  /\ Evaluated(p, s) \in States
         /\ Evaluated(p, s) = "closed" <=> s = "closed"
  BY DEF Evaluated, States

(* The states of the breakers once the failure of a call is recorded.      *)
AfterFailure(p) == [state EXCEPT ![p] = StateAfterFailure(p)]

(* The failure of a call leaves every breaker well formed and consistent.  *)
LEMMA FailureRecorded ==
  ASSUME TypeOK, BreakerConsistent, now' = now,
         NEW p \in Providers, RecordFailure(p)
  PROVE  /\ AfterFailure(p) \in [Providers -> States]
         /\ failures' \in [Providers -> Nat]
         /\ openedAt' \in [Providers -> {Never} \cup 0 .. MaxTime]
         /\ successes' \in [Providers -> Nat]
         /\ \A q \in Providers :
              IF AfterFailure(p)[q] = "closed"
                THEN failures'[q] < Threshold /\ openedAt'[q] = Never
                ELSE failures'[q] >= Threshold /\ openedAt'[q] \in 0 .. now
<1> USE RouterAssumption DEF TypeOK, BreakerConsistent, RecordFailure, States
<1>1. CASE Trips(p)
  <2>1. /\ failures' = [failures EXCEPT ![p] = failures[p] + 1]
        /\ openedAt' = [openedAt EXCEPT ![p] = now]
        /\ AfterFailure(p) = [state EXCEPT ![p] = "open"]
        /\ failures[p] + 1 >= Threshold
    BY <1>1 DEF AfterFailure, StateAfterFailure, Trips
  <2>2. successes' \in [Providers -> Nat]
    OBVIOUS
  <2>3. ASSUME NEW q \in Providers
        PROVE  IF AfterFailure(p)[q] = "closed"
                 THEN failures'[q] < Threshold /\ openedAt'[q] = Never
                 ELSE failures'[q] >= Threshold /\ openedAt'[q] \in 0 .. now
    <3>1. CASE q = p
      BY <2>1, <3>1
    <3>2. CASE q # p
      BY <2>1, <3>2
    <3> QED
      BY <3>1, <3>2
  <2>4. /\ AfterFailure(p) \in [Providers -> States]
        /\ failures' \in [Providers -> Nat]
        /\ openedAt' \in [Providers -> {Never} \cup 0 .. MaxTime]
    BY <2>1
  <2> QED
    BY <2>2, <2>3, <2>4
<1>2. CASE ~Trips(p)
  <2>1. /\ failures' = [failures EXCEPT ![p] = failures[p] + 1]
        /\ openedAt' = [openedAt EXCEPT ![p] = openedAt[p]]
        /\ AfterFailure(p) = [state EXCEPT ![p] = state[p]]
    BY <1>2 DEF AfterFailure, StateAfterFailure
  <2>2. /\ openedAt' = openedAt /\ AfterFailure(p) = state
        /\ state[p] = "closed" => failures[p] + 1 < Threshold
    BY <1>2, <2>1 DEF Trips
  <2>3. ASSUME NEW q \in Providers
        PROVE  IF AfterFailure(p)[q] = "closed"
                 THEN failures'[q] < Threshold /\ openedAt'[q] = Never
                 ELSE failures'[q] >= Threshold /\ openedAt'[q] \in 0 .. now
    <3>1. CASE q = p
      BY <2>1, <2>2, <3>1
    <3>2. CASE q # p
      BY <2>1, <2>2, <3>2
    <3> QED
      BY <3>1, <3>2
  <2>4. successes' \in [Providers -> Nat] /\ failures' \in [Providers -> Nat]
    BY <2>1
  <2> QED
    BY <2>2, <2>3, <2>4
<1> QED
  BY <1>1, <1>2

(* So does its success.                                                    *)
LEMMA SuccessRecorded ==
  ASSUME TypeOK, BreakerConsistent, now' = now,
         NEW p \in Providers, NEW n \in Nat, RecordSuccess(p, n)
  PROVE  /\ state' \in [Providers -> States]
         /\ failures' \in [Providers -> Nat]
         /\ openedAt' \in [Providers -> {Never} \cup 0 .. MaxTime]
         /\ successes' \in [Providers -> Nat]
         /\ BreakerConsistent'
  BY RouterAssumption
  DEF TypeOK, BreakerConsistent, RecordSuccess, States

-----------------------------------------------------------------------------
(* Every action preserves the invariant.                                   *)

(* resolve() and the call of the primary.                                  *)
LEMMA RouteInv ==
  ASSUME RouterInv, NEW r \in Requests, Route(r)
  PROVE  RouterInv'
<1> DEFINE ready == {p \in Providers : Evaluated(p, state[p]) # "open"}
<1> USE DEF RouterInv
<1>1. /\ state' \in [Providers -> States]
      /\ BreakerConsistent'
  BY EvaluatedState DEF Route, TypeOK, BreakerConsistent
<1>2. CASE ready = {}
  <2>1. /\ stage' = [stage EXCEPT ![r] = "failed"]
        /\ skipped' = [skipped EXCEPT ![r] = Providers]
        /\ UNCHANGED <<now, failures, openedAt, successes, primary, calling,
                       rest, billed, tried>>
    BY <1>2 DEF Route
  <2>2. TypeOK'
    BY <1>1, <2>1 DEF TypeOK
  <2> QED
    BY <1>1, <2>1, <2>2
    DEF TypeOK, ChainInv, FailedOnlyWhenExhausted, InFlight
<1>3. CASE ready # {}
  <2> DEFINE p == Cheapest(ready)
  <2>1. /\ p \in ready
        /\ \A q \in ready : q # p => Rank[p] < Rank[q]
    BY <1>3, CheapestIsLeast
  <2>2. /\ stage[r] = "idle"
        /\ stage' = [stage EXCEPT ![r] = "calling"]
        /\ primary' = [primary EXCEPT ![r] = p]
        /\ calling' = [calling EXCEPT ![r] = p]
        /\ rest' = [rest EXCEPT ![r] = ready \ {p}]
        /\ tried' = [tried EXCEPT ![r] = {p}]
        /\ skipped' = [skipped EXCEPT ![r] = Providers \ ready]
        /\ UNCHANGED <<now, failures, openedAt, successes, billed>>
    BY <1>3 DEF Route
  <2>3. ready \subseteq Providers
    OBVIOUS
  <2> HIDE DEF p, ready
  <2>4. TypeOK'
    BY <1>1, <2>1, <2>2, <2>3 DEF TypeOK, InFlight
  <2>5. ChainInv'
    BY <2>1, <2>2, <2>3 DEF TypeOK, ChainInv, InFlight
  <2> QED
    BY <1>1, <2>2, <2>4, <2>5 DEF TypeOK, FailedOnlyWhenExhausted
<1> QED
  BY <1>2, <1>3

(* The breakers evaluated by a failover stay consistent: a step towards    *)
(* the consistency of the whole state.                                     *)
LEMMA FailoverBreakers ==
  ASSUME RouterInv, NEW r \in Requests, Failover(r)
  PROVE  /\ state' \in [Providers -> States]
         /\ failures' \in [Providers -> Nat]
         /\ openedAt' \in [Providers -> {Never} \cup 0 .. MaxTime]
         /\ successes' \in [Providers -> Nat]
         /\ BreakerConsistent'
<1> DEFINE ready == {p \in rest[r] : Evaluated(p, state[p]) # "open"}
<1> DEFINE failed == AfterFailure(calling[r])
<1> USE DEF RouterInv
<1>1. calling[r] \in Providers /\ now' = now
  BY DEF Failover, ChainInv, InFlight
<1>2. /\ failed \in [Providers -> States]
      /\ failures' \in [Providers -> Nat]
      /\ openedAt' \in [Providers -> {Never} \cup 0 .. MaxTime]
      /\ successes' \in [Providers -> Nat]
      /\ \A q \in Providers :
           IF failed[q] = "closed"
             THEN failures'[q] < Threshold /\ openedAt'[q] = Never
             ELSE failures'[q] >= Threshold /\ openedAt'[q] \in 0 .. now
  BY <1>1, FailureRecorded DEF Failover
<1>3. CASE ready = {}
  <2>1. state' = failed
    BY <1>3 DEF Failover, AfterFailure
  <2> QED
    BY <1>1, <1>2, <2>1 DEF BreakerConsistent
<1>4. CASE ready # {}
  <2> DEFINE p == Cheapest(ready)
  <2>1. p \in Providers
    <3>1. ready \in SUBSET Providers
      BY DEF TypeOK
    <3> HIDE DEF ready
    <3> QED
      BY <1>4, <3>1, CheapestIsLeast
  <2>2. state' = [failed EXCEPT ![p] = Evaluated(p, failed[p])]
    BY <1>4 DEF Failover, AfterFailure
  <2> HIDE DEF p, failed
  <2>3. /\ Evaluated(p, failed[p]) \in States
        /\ Evaluated(p, failed[p]) = "closed" <=> failed[p] = "closed"
    BY <1>2, <2>1, EvaluatedState
  <2>4. state' \in [Providers -> States]
    BY <1>2, <2>1, <2>2, <2>3
  <2>5. \A q \in Providers : state'[q] = "closed" <=> failed[q] = "closed"
    BY <1>2, <2>1, <2>2, <2>3
  <2> QED
    BY <1>1, <1>2, <2>4, <2>5 DEF BreakerConsistent
<1> QED
  BY <1>3, <1>4

LEMMA FailoverInv ==
  ASSUME RouterInv, NEW r \in Requests, Failover(r)
  PROVE  RouterInv'
<1> DEFINE ready == {p \in rest[r] : Evaluated(p, state[p]) # "open"}
<1> USE DEF RouterInv
<1>1. /\ stage[r] = "calling"
      /\ CallFirst(r, rest[r], ready)
      /\ UNCHANGED <<now, primary, billed>>
  BY DEF Failover
<1>2. CASE ready = {}
  <2>1. /\ stage' = [stage EXCEPT ![r] = "failed"]
        /\ skipped' = [skipped EXCEPT ![r] = skipped[r] \cup rest[r]]
        /\ UNCHANGED <<calling, rest, tried>>
    BY <1>1, <1>2 DEF CallFirst
  <2>2. TypeOK'
    BY <1>1, <2>1, FailoverBreakers DEF TypeOK
  <2>3. ChainInv' /\ FailedOnlyWhenExhausted'
    BY <1>1, <2>1 DEF TypeOK, ChainInv, FailedOnlyWhenExhausted, InFlight
  <2> QED
    BY <2>2, <2>3, FailoverBreakers
<1>3. CASE ready # {}
  <2> DEFINE p == Cheapest(ready)
  <2>1. p \in ready
    BY <1>3, CheapestIsLeast DEF TypeOK
  <2>2. p \in rest[r] /\ rest[r] \subseteq Providers
    BY <2>1 DEF TypeOK
  <2>3. /\ stage' = [stage EXCEPT ![r] = "calling"]
        /\ calling' = [calling EXCEPT ![r] = p]
        /\ rest' = [rest EXCEPT ![r] = After(rest[r], p)]
        /\ tried' = [tried EXCEPT ![r] = tried[r] \cup {p}]
        /\ skipped' = [skipped EXCEPT ![r] =
             skipped[r] \cup (rest[r] \ (After(rest[r], p) \cup {p}))]
    BY <1>1, <1>3 DEF CallFirst
  <2>4. After(rest[r], p) = {q \in rest[r] : Rank[q] > Rank[p]}
    BY DEF After
  <2> HIDE DEF p, ready
  <2>5. TypeOK'
    BY <1>1, <2>2, <2>3, <2>4, FailoverBreakers DEF TypeOK, InFlight
  <2>6. ChainInv'
    <3> SUFFICES ASSUME NEW q \in Requests
                 PROVE  /\ stage'[q] \in InFlight => calling'[q] \in Providers
                        /\ stage'[q] = "idle" => tried'[q] = {}
                        /\ stage'[q] = "calling" =>
                             /\ tried'[q] \cup skipped'[q] \cup rest'[q]
                                  = Providers
                             /\ \A a \in tried'[q] : \A b \in rest'[q] :
                                  Rank[a] < Rank[b]
      BY DEF ChainInv
    <3>1. CASE q # r
      BY <2>3, <3>1 DEF TypeOK, ChainInv
    <3>2. CASE q = r
      <4>1. /\ tried[r] \cup skipped[r] \cup rest[r] = Providers
            /\ \A a \in tried[r] : \A b \in rest[r] : Rank[a] < Rank[b]
        BY <1>1 DEF ChainInv
      <4>2. /\ stage'[r] = "calling" /\ calling'[r] = p
            /\ rest'[r] = After(rest[r], p)
            /\ tried'[r] = tried[r] \cup {p}
            /\ skipped'[r] =
                 skipped[r] \cup (rest[r] \ (After(rest[r], p) \cup {p}))
        BY <2>3 DEF TypeOK
      <4>3. tried'[r] \cup skipped'[r] \cup rest'[r] = Providers
        BY <2>2, <2>4, <4>1, <4>2
      <4>4. \A a \in tried'[r] : \A b \in rest'[r] : Rank[a] < Rank[b]
        BY <2>2, <2>4, <4>1, <4>2, RouterAssumption
      <4> QED
        BY <2>2, <3>2, <4>2, <4>3, <4>4 DEF InFlight
    <3> QED
      BY <3>1, <3>2
  <2>7. FailedOnlyWhenExhausted'
    BY <2>3 DEF TypeOK, FailedOnlyWhenExhausted
  <2> QED
    BY <2>5, <2>6, <2>7, FailoverBreakers
<1> QED
  BY <1>2, <1>3

(* Outcomes that end a request: a success, or a failure without failover.  *)
LEMMA SuccessInv ==
  ASSUME RouterInv, NEW r \in Requests, Answer(r) \/ StreamEnds(r)
  PROVE  RouterInv'
<1> USE DEF RouterInv
<1>1. /\ calling[r] \in Providers /\ now' = now
      /\ \E n \in Nat : RecordSuccess(calling[r], n)
  BY DEF Answer, StreamEnds, ChainInv, InFlight
<1>2. /\ state' \in [Providers -> States]
      /\ failures' \in [Providers -> Nat]
      /\ openedAt' \in [Providers -> {Never} \cup 0 .. MaxTime]
      /\ successes' \in [Providers -> Nat]
      /\ BreakerConsistent'
  BY <1>1, SuccessRecorded
<1>3. /\ stage' = [stage EXCEPT ![r] = "answered"]
      /\ billed' \in {billed, [billed EXCEPT ![r] = primary[r]]}
      /\ UNCHANGED <<now, primary, calling, rest, tried, skipped>>
  BY DEF Answer, StreamEnds
<1>4. TypeOK'
  BY <1>2, <1>3 DEF TypeOK
<1> QED
  BY <1>2, <1>3, <1>4 DEF TypeOK, ChainInv, FailedOnlyWhenExhausted, InFlight

LEMMA RejectionInv ==
  ASSUME RouterInv, NEW r \in Requests, Reject(r) \/ Truncate(r)
  PROVE  RouterInv'
<1> USE DEF RouterInv
<1>1. /\ calling[r] \in Providers /\ now' = now
      /\ RecordFailure(calling[r])
      /\ state' = AfterFailure(calling[r])
  BY DEF Reject, Truncate, ChainInv, InFlight, AfterFailure
<1>2. /\ state' \in [Providers -> States]
      /\ failures' \in [Providers -> Nat]
      /\ openedAt' \in [Providers -> {Never} \cup 0 .. MaxTime]
      /\ successes' \in [Providers -> Nat]
      /\ BreakerConsistent'
  BY <1>1, FailureRecorded DEF BreakerConsistent
<1>3. /\ stage' \in {[stage EXCEPT ![r] = "rejected"],
                     [stage EXCEPT ![r] = "truncated"]}
      /\ UNCHANGED <<now, primary, calling, rest, billed, tried, skipped>>
  BY DEF Reject, Truncate
<1>4. TypeOK'
  BY <1>2, <1>3 DEF TypeOK
<1> QED
  BY <1>2, <1>3, <1>4 DEF TypeOK, ChainInv, FailedOnlyWhenExhausted, InFlight

(* Steps that leave the outcomes recorded in the breakers alone.           *)
LEMMA OtherInv ==
  ASSUME RouterInv,
         Tick \/ ListModels \/ \E r \in Requests : FirstChunk(r) \/ Abandon(r)
  PROVE  RouterInv'
<1> USE DEF RouterInv, requestVars, breakerVars
<1>1. CASE Tick
  BY <1>1, RouterAssumption
  DEF Tick, TypeOK, BreakerConsistent, ChainInv, FailedOnlyWhenExhausted
<1>2. CASE ListModels
  BY <1>2, EvaluatedState
  DEF ListModels, TypeOK, BreakerConsistent, ChainInv, FailedOnlyWhenExhausted
<1>3. ASSUME NEW r \in Requests, FirstChunk(r) \/ Abandon(r)
      PROVE  RouterInv'
  BY <1>3
  DEF FirstChunk, Abandon, TypeOK, BreakerConsistent, ChainInv,
      FailedOnlyWhenExhausted, InFlight
<1> QED
  BY <1>1, <1>2, <1>3

LEMMA StutterInv == RouterInv /\ UNCHANGED vars => RouterInv'
  BY DEF vars, requestVars, breakerVars, RouterInv, TypeOK, BreakerConsistent,
         ChainInv, FailedOnlyWhenExhausted

LEMMA NextInv == RouterInv /\ [Next]_vars => RouterInv'
  BY RouteInv, FailoverInv, SuccessInv, RejectionInv, OtherInv, StutterInv
  DEF Next, Serve

LEMMA Invariance == Spec => []RouterInv
  BY InitRouterInv, NextInv, PTL DEF Spec

-----------------------------------------------------------------------------
(* The theorems about the router.                                          *)

(* The state of the router stays well formed for any number of providers   *)
(* and requests.                                                           *)
THEOREM TypeCorrect == Spec => []TypeOK
  BY Invariance, PTL DEF RouterInv

(* Outcomes of overlapping requests, recorded in any order, never leave    *)
(* the fields of a breaker in disagreement.                                *)
THEOREM BreakersConsistent == Spec => []BreakerConsistent
  BY Invariance, PTL DEF RouterInv

(* A request that gives up has called, or found open, every provider.      *)
THEOREM FailoverExhaustive == Spec => []FailedOnlyWhenExhausted
  BY Invariance, PTL DEF RouterInv

(* The provider a step calls: the cheapest of those found callable.        *)
LEMMA CalledProvider ==
  ASSUME RouterInv, [Next]_vars, NEW r \in Requests,
         NEW p \in tried'[r] \ tried[r]
  PROVE  /\ p \in Providers
         /\ Evaluated(p, state[p]) # "open"
         /\ \A q \in tried[r] : Rank[q] < Rank[p]
<1> USE DEF RouterInv
<1>1. CASE Route(r)
  <2> DEFINE ready == {q \in Providers : Evaluated(q, state[q]) # "open"}
  <2>1. ready # {} /\ tried' = [tried EXCEPT ![r] = {Cheapest(ready)}]
    BY <1>1 DEF Route
  <2>2. Cheapest(ready) \in ready
    BY <2>1, CheapestIsLeast
  <2>3. p = Cheapest(ready)
    BY <2>1 DEF TypeOK
  <2>4. tried[r] = {}
    BY <1>1 DEF Route, ChainInv
  <2> QED
    BY <2>2, <2>3, <2>4
<1>2. CASE Failover(r)
  <2> DEFINE ready == {q \in rest[r] : Evaluated(q, state[q]) # "open"}
  <2>1. CallFirst(r, rest[r], ready) /\ stage[r] = "calling"
    BY <1>2 DEF Failover
  <2>2. /\ ready # {}
        /\ tried' = [tried EXCEPT ![r] = tried[r] \cup {Cheapest(ready)}]
    BY <2>1 DEF CallFirst
  <2>3. Cheapest(ready) \in ready
    BY <2>2, CheapestIsLeast DEF TypeOK
  <2>4. p = Cheapest(ready)
    BY <2>2 DEF TypeOK
  <2> QED
    BY <2>1, <2>3, <2>4 DEF TypeOK, ChainInv
<1>3. CASE \E s \in Requests \ {r} : Route(s) \/ Failover(s)
  <2>1. tried'[r] = tried[r]
    BY <1>3 DEF Route, Failover, CallFirst, TypeOK
  <2> QED
    BY <2>1
<1>4. CASE ~\E s \in Requests : Route(s) \/ Failover(s)
  <2>1. tried' = tried
    BY <1>4
    DEF Next, Serve, vars, requestVars, Answer, StreamEnds, FirstChunk, Reject,
        Truncate, Abandon, Tick, ListModels
  <2> QED
    BY <2>1
<1> QED
  BY <1>1, <1>2, <1>3, <1>4

LEMMA CallAllowed ==
  ASSUME RouterInv, [Next]_vars, NEW r \in Requests,
         NEW p \in tried'[r] \ tried[r]
  PROVE  ~(state[p] = "open" /\ now - openedAt[p] < Cooldown)
<1> SUFFICES ASSUME state[p] = "open", now - openedAt[p] < Cooldown
             PROVE  FALSE
  OBVIOUS
<1>1. p \in Providers /\ Evaluated(p, state[p]) # "open"
  BY CalledProvider
<1>2. now \in Int /\ openedAt[p] \in Int
  BY <1>1, RouterAssumption DEF RouterInv, TypeOK, Never
<1> QED
  BY <1>1, <1>2, RouterAssumption DEF Evaluated

(* No step sends a call to a provider that is cooling off, whenever the    *)
(* failover chain was computed.                                            *)
THEOREM CoolingProvidersNotCalled == Spec => NoCallDuringCooldown
<1> DEFINE A == \A r \in Requests : \A p \in tried'[r] \ tried[r] :
                  ~(state[p] = "open" /\ now - openedAt[p] < Cooldown)
<1>1. ASSUME RouterInv, [Next]_vars PROVE A
  BY <1>1, CallAllowed
<1>2. ASSUME RouterInv, [Next]_vars PROVE [A]_vars
  BY <1>1, <1>2
<1> HIDE DEF A
<1>3. Spec => [][A]_vars
  BY <1>2, Invariance, PTL DEF Spec
<1> QED
  BY <1>3 DEF A, NoCallDuringCooldown

(* A request walks its chain by price and calls no provider twice.         *)
THEOREM ChainWalkedByPrice == Spec => CheapestFirst
<1> DEFINE A == \A r \in Requests : \A p \in tried'[r] \ tried[r] :
                  \A q \in tried[r] : Rank[q] < Rank[p]
<1>1. ASSUME RouterInv, [Next]_vars PROVE [A]_vars
  BY <1>1, CalledProvider
<1> HIDE DEF A
<1>2. Spec => [][A]_vars
  BY <1>1, Invariance, PTL DEF Spec
<1> QED
  BY <1>2 DEF A, CheapestFirst
-----------------------------------------------------------------------------
(* The router inside the gateway.  Every step of the gateway is a step of  *)
(* the router, none of it, or the metering of a stream, which names the    *)
(* provider in billed.                                                     *)

Bills ==
  \E r \in Requests :
    /\ billed' = [billed EXCEPT ![r] = primary[r]]
    /\ UNCHANGED <<now, breakerVars, stage, primary, calling, rest, tried, skipped>>

LEMMA GatewayStepsRouter ==
  ASSUME [GatewayNext]_gatewayVars
  PROVE  [Next]_vars \/ Bills
<1>1. CASE StartUp \/ ShutDown \/ ShutDownReturns \/ Work
  BY <1>1 DEF StartUp, ShutDown, ShutDownReturns, Work
<1>2. CASE Models \/ Clock
  BY <1>2 DEF Models, Clock, Next
<1>3. ASSUME NEW r \in Requests,
             Hears(r) \/ Continues(r) \/ LeavesAtDone(r)
      PROVE  UNCHANGED vars
  BY <1>3 DEF Hears, Continues, LeavesAtDone
<1>4. ASSUME NEW r \in Requests, Closes(r)
      PROVE  UNCHANGED vars \/ Bills
  <2>1. CASE wire[r].last
    BY <1>4, <2>1 DEF Closes, Bills
  <2>2. CASE ~wire[r].last
    BY <1>4, <2>2 DEF Closes, vars, requestVars
  <2> QED
    BY <2>1, <2>2
<1>5. ASSUME NEW r \in Requests,
             \/ Accept(r) \/ UpstreamFails(r) \/ UpstreamRefuses(r) \/ Breaks(r)
             \/ Answers(r) \/ AnswersNothing(r) \/ Opens(r) \/ Ends(r)
      PROVE  Serve(r)
  BY <1>5 DEF Accept, UpstreamFails, UpstreamRefuses, Breaks, Answers,
              AnswersNothing, Opens, Ends, Serve
<1>6. CASE UNCHANGED gatewayVars
  BY <1>6 DEF gatewayVars
<1> QED
  BY <1>1, <1>2, <1>3, <1>4, <1>5, <1>6 DEF GatewayNext, Chat, Next

LEMMA BillsInv ==
  ASSUME RouterInv, Bills
  PROVE  RouterInv'
<1> USE DEF RouterInv, Bills, breakerVars
<1>1. TypeOK'
  BY DEF TypeOK
<1> QED
  BY <1>1 DEF BreakerConsistent, ChainInv, FailedOnlyWhenExhausted

LEMMA RouterInGateway == GatewaySpec => []RouterInv
<1>1. GatewayInit => RouterInv
  BY InitRouterInv DEF GatewayInit
<1>2. RouterInv /\ [GatewayNext]_gatewayVars => RouterInv'
  BY GatewayStepsRouter, NextInv, BillsInv
<1> QED
  BY <1>1, <1>2, PTL DEF GatewaySpec

(* Billing a stream, or any other step of the gateway around the router,   *)
(* takes nothing away from what holds of breakers and failover.            *)
THEOREM GatewayKeepsRouter ==
  GatewaySpec => [](BreakerConsistent /\ FailedOnlyWhenExhausted)
  BY RouterInGateway, PTL DEF RouterInv

(* No request of the gateway calls a provider that is cooling off.         *)
THEOREM GatewayRespectsCooldown == GatewaySpec => NoCallDuringCooldown
<1> DEFINE A == \A r \in Requests : \A p \in tried'[r] \ tried[r] :
                  ~(state[p] = "open" /\ now - openedAt[p] < Cooldown)
<1>1. ASSUME RouterInv, [GatewayNext]_gatewayVars PROVE [A]_vars
  <2>1. CASE Bills
    BY <2>1 DEF Bills
  <2>2. CASE [Next]_vars
    BY <1>1, <2>2, CallAllowed
  <2> QED
    BY <1>1, <2>1, <2>2, GatewayStepsRouter
<1> HIDE DEF A
<1>2. GatewaySpec => [][A]_vars
  BY <1>1, RouterInGateway, PTL DEF GatewaySpec
<1> QED
  BY <1>2 DEF A, NoCallDuringCooldown

-----------------------------------------------------------------------------
(* UsageReachesSink: between the last chunk of an answer and the write of  *)
(* its usage lie the end of the stream, the queue and the worker, and the  *)
(* lifespan may end the worker at any time after the last request.         *)

Wires == [finish : BOOLEAN, usage : BOOLEAN, last : BOOLEAN, sent : BOOLEAN,
          left : BOOLEAN]

(* [DONE] comes after the answer, and the last chunk of an answer carries  *)
(* the usage when there was one, whichever came first.                     *)
WireInv ==
  /\ wire \in [Requests -> Wires]
  /\ \A r \in Requests :
       /\ stage[r] = "streaming" => r \in Streamed
       /\ wire[r].sent => stage[r] = "answered" /\ r \in Streamed
       /\ stage[r] = "answered" /\ r \in Streamed /\ wire[r].finish /\ wire[r].usage
            => wire[r].last

(* Only a gateway that serves has requests under way.                      *)
LifespanInv ==
  /\ service \in {"idle", "serving", "stopping", "stopped"}
  /\ \A r \in Requests : stage[r] \in InFlight \/ Closing(r) => service = "serving"

(* There is a worker from the start to the end of stop(), and nothing is   *)
(* behind the sentinel that ends it.                                       *)
WorkerInv ==
  /\ queue \in Seq(Requests \cup {Sentinel})
  /\ item \in Requests \cup {Sentinel}
  /\ item # Sentinel => worker = "writing"
  /\ service = "serving" => worker \in {"getting", "writing"}
  /\ service \in {"idle", "stopped"} => worker = "none"
  /\ worker = "returned" => queue = <<>>
  /\ \A k \in 1..Len(queue) :
       queue[k] = Sentinel => k = Len(queue) /\ service \notin {"idle", "serving"}

UsageInv == WireInv /\ LifespanInv /\ WorkerInv /\ UsageReachesSink

LEMMA InitUsageInv == GatewayInit => UsageInv
<1> SUFFICES ASSUME GatewayInit PROVE UsageInv
  OBVIOUS
<1>1. \A r \in Requests : stage[r] = "idle"
  BY DEF GatewayInit, Init
<1>2. WireInv
  BY <1>1 DEF GatewayInit, WireInv, Wires, Silent
<1>3. LifespanInv /\ UsageReachesSink
  BY <1>1 DEF GatewayInit, Meter!Init, LifespanInv, InFlight, Closing, UsageReachesSink
<1>4. WorkerInv
  BY DEF GatewayInit, Meter!Init, WorkerInv
<1> QED  BY <1>1, <1>2, <1>3, <1>4 DEF UsageInv

(* What is in a queue.                                                     *)
LEMMA QueueContents ==
  ASSUME NEW S, NEW q \in Seq(S), NEW x \in S
  PROVE  /\ ToSet(Append(q, x)) = ToSet(q) \cup {x}
         /\ q # <<>> => Head(q) \in S /\ ToSet(q) = {Head(q)} \cup ToSet(Tail(q))
<1> DEFINE a == Append(q, x)
<1>1. ToSet(a) = ToSet(q) \cup {x}
  <2>1. /\ DOMAIN a = DOMAIN q \cup {Len(q) + 1} /\ a[Len(q) + 1] = x
        /\ \A k \in DOMAIN q : a[k] = q[k]
    OBVIOUS
  <2> HIDE DEF a
  <2> QED  BY <2>1 DEF ToSet
<1>2. CASE q # <<>>
  <2>1. Head(q) = q[1] /\ 1 \in DOMAIN q /\ Head(q) \in S
    BY <1>2
  <2>2. \A k \in DOMAIN Tail(q) : Tail(q)[k] = q[k + 1] /\ k + 1 \in DOMAIN q
    BY <1>2
  <2>3. \A k \in DOMAIN q : k # 1 => k - 1 \in DOMAIN Tail(q) /\ Tail(q)[k - 1] = q[k]
    BY <1>2
  <2>4. ToSet(q) \subseteq {Head(q)} \cup ToSet(Tail(q))
    BY <2>1, <2>3 DEF ToSet
  <2>5. {Head(q)} \cup ToSet(Tail(q)) \subseteq ToSet(q)
    BY <2>1, <2>2 DEF ToSet
  <2> QED  BY <1>1, <2>1, <2>4, <2>5
<1> QED  BY <1>1, <1>2

-----------------------------------------------------------------------------
(* The worker and the lifespan.                                            *)

(* What the steps of this section leave alone.                             *)
LEMMA RequestsKept ==
  ASSUME UsageInv, UNCHANGED <<vars, wire>>
  PROVE  /\ WireInv'
         /\ UNCHANGED stage /\ \A r \in Requests : Closing(r)' <=> Closing(r)
  BY DEF UsageInv, vars, requestVars, breakerVars, WireInv, Closing

(* Usage on its way stays so, unless the step ends the service.            *)
LEMMA UsageKept ==
  ASSUME UsageInv, UNCHANGED <<stage, wire>>, service' # "stopped",
         \A r \in Requests :
           r \in attempted \cup dropped \cup ToSet(queue) \cup {item} =>
           r \in attempted' \cup dropped' \cup ToSet(queue') \cup {item'}
  PROVE  UsageReachesSink'
<1>1. ASSUME NEW r \in Requests, r \notin attempted' \cup dropped' \cup ToSet(queue') \cup {item'}
      PROVE  r \notin attempted \cup dropped \cup
                        (IF service = "stopped" THEN {} ELSE ToSet(queue) \cup {item})
  BY <1>1
<1> QED  BY <1>1 DEF UsageInv, UsageReachesSink

LEMMA WorkUsage ==
  ASSUME UsageInv, Work
  PROVE  UsageInv'
<1> USE DEF UsageInv
<1>1. UNCHANGED <<vars, wire, service, detached, dropped>>
  BY DEF Work, Meter!Worker, Meter!Get, Meter!Write
<1>2. WireInv' /\ LifespanInv'
  BY <1>1, RequestsKept DEF LifespanInv
<1>3. worker \in {"getting", "writing"} /\ service # "stopped"
  BY DEF Work, Meter!Worker, Meter!Get, Meter!Write, WorkerInv
<1>4. CASE Meter!Get
  <2>1. /\ queue # <<>> /\ queue' = Tail(queue) /\ item = Sentinel
        /\ attempted' = attempted /\ worker = "getting"
    BY <1>4 DEF Meter!Get, WorkerInv
  <2>2. /\ Head(queue) \in Requests \cup {Sentinel}
        /\ ToSet(queue) = {Head(queue)} \cup ToSet(Tail(queue))
    BY <2>1, QueueContents DEF WorkerInv
  <2>3. /\ Head(queue) = queue[1] /\ 1 \in 1..Len(queue)
        /\ queue' \in Seq(Requests \cup {Sentinel}) /\ Len(queue') = Len(queue) - 1
        /\ \A k \in 1..Len(queue') : queue'[k] = queue[k + 1] /\ k + 1 \in 1..Len(queue)
    BY <2>1 DEF WorkerInv
  <2>4. CASE Head(queue) = Sentinel
    <3>1. worker' = "returned" /\ item' = item
      BY <1>4, <2>4 DEF Meter!Get
    <3>2. queue' = <<>> /\ service # "serving"
      BY <2>3, <2>4 DEF WorkerInv
    <3>3. WorkerInv'
      BY <1>1, <1>3, <2>1, <3>1, <3>2 DEF WorkerInv
    <3>4. UsageReachesSink'
      BY <1>1, <1>3, <2>1, <2>2, <2>4, <3>1, UsageKept, GatewayAssumption
      DEF vars, requestVars
    <3> QED  BY <1>2, <3>3, <3>4
  <2>5. CASE Head(queue) # Sentinel
    <3>1. worker' = "writing" /\ item' = Head(queue)
      BY <1>4, <2>5 DEF Meter!Get
    <3>2. /\ item' \in Requests \cup {Sentinel} /\ worker \in {"getting", "writing"}
          /\ service \notin {"idle", "stopped"}
      BY <1>3, <2>1, <2>2, <3>1 DEF WorkerInv
    <3>3. \A k \in 1..Len(queue') :
            queue'[k] = Sentinel => k = Len(queue') /\ service' \notin {"idle", "serving"}
      BY <1>1, <2>3 DEF WorkerInv
    <3>4. WorkerInv'
      BY <1>1, <2>3, <3>1, <3>2, <3>3 DEF WorkerInv
    <3>5. UsageReachesSink'
      BY <1>1, <1>3, <2>1, <2>2, <3>1, UsageKept, GatewayAssumption
      DEF vars, requestVars
    <3> QED  BY <1>2, <3>4, <3>5
  <2> QED  BY <2>4, <2>5
<1>5. CASE Meter!Write
  <2>1. /\ worker' = "getting" /\ item' = Sentinel /\ queue' = queue
        /\ attempted' = attempted \cup {item}
    BY <1>5 DEF Meter!Write, Meter!Tried
  <2>2. WorkerInv'
    BY <1>1, <1>3, <2>1 DEF WorkerInv
  <2>3. UsageReachesSink'
    BY <1>1, <1>3, <2>1, UsageKept DEF vars, requestVars
  <2> QED  BY <1>2, <2>2, <2>3
<1> QED  BY <1>4, <1>5 DEF Work, Meter!Worker

LEMMA LifespanUsage ==
  ASSUME UsageInv, StartUp \/ ShutDown \/ ShutDownReturns
  PROVE  UsageInv'
<1> USE DEF UsageInv
<1>1. UNCHANGED <<vars, wire, item, dropped, attempted>>
  BY DEF StartUp, ShutDown, ShutDownReturns, Meter!Start, Meter!Stop, Meter!StopReturns
<1>2. /\ WireInv' /\ UNCHANGED stage
      /\ \A r \in Requests : Closing(r)' <=> Closing(r)
  BY <1>1, RequestsKept
<1>3. CASE StartUp
  <2>1. service = "idle" /\ service' = "serving" /\ worker' = "getting" /\ queue' = queue
    BY <1>3 DEF StartUp, Meter!Start
  <2>2. LifespanInv'
    BY <1>2, <2>1 DEF LifespanInv
  <2>3. WorkerInv'
    BY <1>1, <2>1 DEF WorkerInv
  <2>4. UsageReachesSink'
    BY <1>1, <1>2, <2>1, UsageKept
  <2> QED  BY <1>2, <2>2, <2>3, <2>4
<1>4. CASE ShutDown
  <2>1. /\ service = "serving" /\ service' = "stopping" /\ worker' = worker
        /\ \A r \in Requests : stage[r] \notin InFlight /\ ~Closing(r)
        /\ queue' \in {queue, Append(queue, Sentinel)}
    BY <1>4 DEF ShutDown, Meter!Stop
  <2>2. LifespanInv'
    BY <1>2, <2>1 DEF LifespanInv
  <2>3. ASSUME queue' = Append(queue, Sentinel)
        PROVE  WorkerInv' /\ ToSet(queue) \subseteq ToSet(queue')
    <3>1. /\ queue' \in Seq(Requests \cup {Sentinel}) /\ Len(queue') = Len(queue) + 1
          /\ \A k \in 1..Len(queue) : queue'[k] = queue[k] /\ queue[k] # Sentinel
      BY <2>1, <2>3 DEF WorkerInv
    <3>2. ToSet(queue') = ToSet(queue) \cup {Sentinel}
      BY <2>3, QueueContents DEF WorkerInv
    <3>3. WorkerInv'
      BY <1>1, <2>1, <3>1 DEF WorkerInv
    <3> QED  BY <3>2, <3>3
  <2>4. WorkerInv' /\ ToSet(queue) \subseteq ToSet(queue')
    <3>1. CASE queue' = queue
      BY <1>1, <2>1, <3>1 DEF WorkerInv
    <3> QED  BY <2>1, <2>3, <3>1
  <2>5. UsageReachesSink'
    BY <1>1, <1>2, <2>1, <2>4, UsageKept
  <2> QED  BY <1>2, <2>2, <2>4, <2>5
<1>5. CASE ShutDownReturns
  <2>1. /\ service = "stopping" /\ service' = "stopped"
        /\ worker = "returned" /\ worker' = "none" /\ queue' = queue
    BY <1>5 DEF ShutDownReturns, Meter!StopReturns
  <2>2. LifespanInv'
    BY <1>2, <2>1 DEF LifespanInv
  <2>3. WorkerInv' /\ queue = <<>> /\ item = Sentinel
    BY <1>1, <2>1 DEF WorkerInv
  <2>4. ToSet(queue) = {}
    BY <2>3 DEF ToSet
  <2>5. UsageReachesSink'
    BY <1>1, <1>2, <2>1, <2>3, <2>4, GatewayAssumption DEF UsageReachesSink
  <2> QED  BY <1>2, <2>2, <2>3, <2>5
<1> QED  BY <1>3, <1>4, <1>5

-----------------------------------------------------------------------------
(* The requests.                                                           *)

(* A usage record is dropped or gets behind the others: there is a worker. *)
LEMMA RecordUsage ==
  ASSUME UsageInv, service = "serving", NEW r \in Requests, Meter!Record(r)
  PROVE  /\ WorkerInv' /\ UNCHANGED <<service, item, attempted>>
         /\ dropped \subseteq dropped' /\ ToSet(queue) \subseteq ToSet(queue')
         /\ r \in dropped' \cup ToSet(queue')
<1>1. /\ UNCHANGED <<worker, service, item, attempted>>
      /\ \/ dropped' = dropped /\ queue' = Append(queue, r)
         \/ dropped' = dropped \cup {r} /\ queue' = queue
  BY DEF Meter!Record, UsageInv, WorkerInv
<1>2. CASE queue' = Append(queue, r)
  <2>1. /\ queue' \in Seq(Requests \cup {Sentinel}) /\ Len(queue') = Len(queue) + 1
        /\ queue'[Len(queue) + 1] = r
        /\ \A k \in 1..Len(queue) : queue'[k] = queue[k] /\ queue[k] # Sentinel
    BY <1>2 DEF UsageInv, WorkerInv
  <2>2. ToSet(queue') = ToSet(queue) \cup {r}
    BY <1>2, QueueContents DEF UsageInv, WorkerInv
  <2>3. worker \in {"getting", "writing"}
    BY DEF UsageInv, WorkerInv
  <2>4. \A k \in 1..Len(queue') : queue'[k] # Sentinel
    BY <2>1, GatewayAssumption DEF UsageInv, WorkerInv
  <2>5. WorkerInv'
    BY <1>1, <2>1, <2>3, <2>4 DEF UsageInv, WorkerInv
  <2> QED  BY <1>1, <2>2, <2>5
<1>3. CASE dropped' = dropped \cup {r} /\ queue' = queue
  BY <1>1, <1>3 DEF UsageInv, WorkerInv
<1> QED  BY <1>1, <1>2, <1>3

(* A step of one request, of which the others know nothing.                *)
LEMMA RequestStep ==
  ASSUME UsageInv, service = "serving", NEW r \in Requests, NEW stage2, NEW w \in Wires,
         \A q \in Requests : stage'[q] = IF q = r THEN stage2 ELSE stage[q],
         wire' = [wire EXCEPT ![r] = w],
         stage2 = "streaming" => r \in Streamed,
         w.sent => stage2 = "answered" /\ r \in Streamed,
         stage2 = "answered" /\ r \in Streamed /\ w.finish /\ w.usage => w.last,
         \/ UNCHANGED meterVars
         \/ Meter!Record(r),
         stage2 = "answered" /\ (r \notin Streamed \/ (w.sent /\ ~w.left /\ w.finish /\ w.usage))
           => Meter!Record(r)
  PROVE  UsageInv'
<1> USE DEF UsageInv
<1>1. /\ WorkerInv' /\ UNCHANGED <<service, item, attempted>>
      /\ dropped \subseteq dropped' /\ ToSet(queue) \subseteq ToSet(queue')
      /\ Meter!Record(r) => r \in dropped' \cup ToSet(queue')
  <2>1. CASE UNCHANGED meterVars /\ ~Meter!Record(r)
    BY <2>1 DEF meterVars, WorkerInv
  <2>2. CASE Meter!Record(r)
    BY <2>2, RecordUsage
  <2> QED  BY <2>1, <2>2
<1>2. wire' \in [Requests -> Wires] /\ wire'[r] = w /\ \A q \in Requests \ {r} : wire'[q] = wire[q]
  BY DEF WireInv
<1>3. WireInv'
  BY <1>2 DEF WireInv
<1>4. LifespanInv'
  BY <1>1 DEF LifespanInv
<1>5. UsageReachesSink'
  <2> SUFFICES ASSUME NEW q \in Requests, stage'[q] = "answered",
                      \/ q \notin Streamed
                      \/ wire'[q].sent /\ ~wire'[q].left /\ wire'[q].finish /\ wire'[q].usage
               PROVE  q \in attempted' \cup dropped' \cup ToSet(queue') \cup {item'}
    BY <1>1 DEF UsageReachesSink
  <2>1. CASE q = r
    BY <1>1, <1>2, <2>1
  <2>2. CASE q # r
    BY <1>1, <1>2, <2>2 DEF UsageReachesSink
  <2> QED  BY <2>1, <2>2
<1> QED  BY <1>1, <1>3, <1>4, <1>5

(* An event leaves a record of what was heard.                             *)
LEMMA HeardWire ==
  ASSUME NEW w \in Wires, NEW e \in Events
  PROVE  Heard(w, e) \in Wires /\ Heard(w, e).sent = w.sent
BY DEF Heard, Absorbed, Wires, Events

LEMMA EndedWire ==
  ASSUME NEW w \in Wires
  PROVE  /\ [w EXCEPT !.last = Carried(w)] \in Wires
         /\ [w EXCEPT !.last = Carried(w)].sent = w.sent
         /\ LET v == [w EXCEPT !.last = Carried(w)] IN v.finish /\ v.usage => v.last
BY DEF Carried, Wires

LEMMA SentWire ==
  ASSUME NEW w \in Wires
  PROVE  LET done == [w EXCEPT !.sent = TRUE]
             left == [w EXCEPT !.sent = TRUE, !.left = TRUE]
         IN  /\ done \in Wires /\ left \in Wires /\ left.left
             /\ \A v \in {done, left} :
                  v.finish = w.finish /\ v.usage = w.usage /\ v.last = w.last
BY DEF Wires

(* Steps at which a request is not answered, before and after.             *)
LEMMA UnansweredUsage ==
  ASSUME TypeOK, UsageInv, NEW r \in Requests,
         \/ Accept(r) \/ UpstreamFails(r) \/ UpstreamRefuses(r) \/ Breaks(r)
         \/ AnswersNothing(r) \/ Opens(r) \/ Hears(r) \/ Continues(r)
  PROVE  UsageInv'
<1> USE DEF InFlight
<1>1. stage \in [Requests -> InFlight \cup {"idle", "answered", "failed", "rejected",
                                            "truncated", "abandoned"}]
  BY DEF TypeOK
<1>2. wire \in [Requests -> Wires] /\ wire[r] \in Wires
  BY DEF UsageInv, WireInv
<1>3. /\ UNCHANGED meterVars /\ service = "serving" /\ stage[r] # "answered"
      /\ \E x : /\ x # "answered" /\ (x = "streaming" => r \in Streamed)
                /\ stage' = [stage EXCEPT ![r] = x]
  <2>1. CASE Accept(r)
    BY <1>1, <2>1 DEF Accept, Route
  <2>2. CASE UpstreamFails(r)
    BY <1>1, <2>2 DEF UpstreamFails, Failover, CallFirst, UsageInv, LifespanInv
  <2>3. CASE UpstreamRefuses(r) \/ AnswersNothing(r)
    BY <1>1, <2>3 DEF UpstreamRefuses, AnswersNothing, Reject, Truncate, UsageInv, LifespanInv
  <2>4. CASE Breaks(r) \/ Opens(r)
    BY <1>1, <2>4 DEF Breaks, Opens, Abandon, FirstChunk, UsageInv, LifespanInv
  <2>5. CASE Hears(r) \/ Continues(r)
    <3>1. stage' = [stage EXCEPT ![r] = stage[r]]
      BY <1>1, <2>5 DEF Hears, Continues, vars, requestVars
    <3> QED
      BY <1>1, <2>5, <3>1 DEF Hears, Continues, UsageInv, LifespanInv, WireInv
  <2> QED  BY <2>1, <2>2, <2>3, <2>4, <2>5
<1>4. ~wire[r].sent
  BY <1>3 DEF UsageInv, WireInv
<1>5. \E w \in Wires : ~w.sent /\ wire' = [wire EXCEPT ![r] = w]
  <2>1. wire = [wire EXCEPT ![r] = wire[r]]
    BY <1>2
  <2>2. Silent \in Wires /\ ~Silent.sent
    BY DEF Silent, Wires
  <2>3. \A e \in Events : Heard(wire[r], e) \in Wires /\ ~Heard(wire[r], e).sent
    BY <1>2, <1>4, HeardWire
  <2>4. CASE UNCHANGED wire
    BY <1>2, <1>4, <2>1, <2>4
  <2>5. CASE wire' = [wire EXCEPT ![r] = Silent]
    BY <2>2, <2>5
  <2>6. CASE \E e \in Events : wire' = [wire EXCEPT ![r] = Heard(wire[r], e)]
    BY <2>3, <2>6
  <2> QED
    BY <2>4, <2>5, <2>6
    DEF Accept, UpstreamFails, UpstreamRefuses, Breaks, AnswersNothing, Opens, Hears, Continues
<1>6. PICK x : /\ x # "answered" /\ (x = "streaming" => r \in Streamed)
               /\ stage' = [stage EXCEPT ![r] = x]
  BY <1>3
<1>7. PICK w \in Wires : ~w.sent /\ wire' = [wire EXCEPT ![r] = w]
  BY <1>5
<1>8. \A q \in Requests : stage'[q] = IF q = r THEN x ELSE stage[q]
  BY <1>1, <1>6
<1> QED  BY <1>3, <1>6, <1>7, <1>8, RequestStep

(* An answer, the end of a stream, and its [DONE].                         *)
LEMMA AnsweredUsage ==
  ASSUME TypeOK, UsageInv, NEW r \in Requests,
         Answers(r) \/ Ends(r) \/ Closes(r) \/ LeavesAtDone(r)
  PROVE  UsageInv'
<1>1. stage \in [Requests -> InFlight \cup {"idle", "answered", "failed", "rejected",
                                            "truncated", "abandoned"}]
  BY DEF TypeOK
<1>2. wire \in [Requests -> Wires] /\ wire[r] \in Wires
  BY DEF UsageInv, WireInv
<1>3. service = "serving"
  BY DEF Answers, Ends, Closes, LeavesAtDone, Answer, StreamEnds, InFlight, UsageInv,
         LifespanInv
<1>4. \A q \in Requests : stage'[q] = IF q = r THEN "answered" ELSE stage[q]
  BY <1>1 DEF Answers, Ends, Closes, LeavesAtDone, Answer, StreamEnds, Closing, vars,
              requestVars
<1>5. CASE Answers(r)
  <2>1. r \notin Streamed /\ Meter!Record(r) /\ wire' = [wire EXCEPT ![r] = wire[r]]
    BY <1>2, <1>5 DEF Answers, Answer
  <2>2. ~wire[r].sent
    BY <2>1 DEF UsageInv, WireInv
  <2> QED  BY <1>2, <1>3, <1>4, <2>1, <2>2, RequestStep
<1>6. CASE Ends(r)
  <2> DEFINE w == [wire[r] EXCEPT !.last = Carried(wire[r])]
  <2>1. stage[r] = "streaming" /\ wire' = [wire EXCEPT ![r] = w] /\ UNCHANGED meterVars
    BY <1>6 DEF Ends, StreamEnds
  <2>2. ~wire[r].sent
    BY <2>1 DEF UsageInv, WireInv
  <2>3. w \in Wires /\ ~w.sent /\ (w.finish /\ w.usage => w.last)
    BY <1>2, <2>2, EndedWire
  <2>4. r \in Streamed
    BY <2>1 DEF UsageInv, WireInv
  <2> HIDE DEF w
  <2> QED  BY <1>3, <1>4, <2>1, <2>3, <2>4, RequestStep
<1>7. CASE Closes(r) \/ LeavesAtDone(r)
  <2> DEFINE done == [wire[r] EXCEPT !.sent = TRUE]
             left == [wire[r] EXCEPT !.sent = TRUE, !.left = TRUE]
  <2>1. Closing(r) /\ r \in Streamed /\ (wire[r].finish /\ wire[r].usage => wire[r].last)
    BY <1>7 DEF Closes, LeavesAtDone, Closing, UsageInv, WireInv
  <2>2. /\ done \in Wires /\ left \in Wires /\ left.left
        /\ \A v \in {done, left} : /\ v.finish = wire[r].finish /\ v.usage = wire[r].usage
                                   /\ v.last = wire[r].last
    BY <1>2, SentWire
  <2>3. CASE Closes(r)
    <3>1. /\ wire' = [wire EXCEPT ![r] = done]
          /\ IF wire[r].last THEN Meter!Record(r) ELSE UNCHANGED meterVars
      BY <2>3 DEF Closes
    <3> HIDE DEF done, left
    <3> QED  BY <1>3, <1>4, <2>1, <2>2, <3>1, RequestStep
  <2>4. CASE LeavesAtDone(r)
    <3>1. wire' = [wire EXCEPT ![r] = left] /\ UNCHANGED meterVars
      BY <2>4 DEF LeavesAtDone
    <3> HIDE DEF done, left
    <3> QED  BY <1>3, <1>4, <2>1, <2>2, <3>1, RequestStep
  <2> QED  BY <1>7, <2>3, <2>4
<1> QED  BY <1>5, <1>6, <1>7

LEMMA UsageInvariance == GatewaySpec => []UsageInv
<1>1. ASSUME RouterInv, UsageInv, [GatewayNext]_gatewayVars
      PROVE  UsageInv'
  <2>1. CASE Models \/ Clock \/ UNCHANGED gatewayVars
    <3>1. UNCHANGED <<stage, wire, meterVars>>
      BY <2>1 DEF Models, Clock, ListModels, Tick, gatewayVars, vars, requestVars
    <3>2. WireInv' /\ LifespanInv'
      BY <1>1, <3>1 DEF UsageInv, WireInv, LifespanInv, Closing, meterVars
    <3>3. WorkerInv' /\ UsageReachesSink'
      BY <1>1, <3>1 DEF UsageInv, WorkerInv, UsageReachesSink, meterVars
    <3> QED  BY <3>2, <3>3 DEF UsageInv
  <2>2. CASE \E r \in Requests : Chat(r)
    BY <1>1, <2>2, UnansweredUsage, AnsweredUsage DEF Chat, RouterInv
  <2>3. CASE StartUp \/ ShutDown \/ ShutDownReturns \/ Work
    BY <1>1, <2>3, LifespanUsage, WorkUsage
  <2> QED  BY <1>1, <2>1, <2>2, <2>3 DEF GatewayNext
<1> QED  BY <1>1, InitUsageInv, RouterInGateway, PTL DEF GatewaySpec

(* The usage of every answered call is on its way to the sink or has been  *)
(* there, whatever the order of finish_reason and usage block in a stream, *)
(* and for any number of requests when the gateway is shut down; only a    *)
(* full queue or a client that leaves early may lose it.                   *)
THEOREM UsageNotLost == GatewaySpec => []UsageReachesSink
  BY UsageInvariance, PTL DEF UsageInv
=============================================================================
