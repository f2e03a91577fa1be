---------------------------- MODULE Gateway_proofs ---------------------------
(***************************************************************************)
(* Theorems about the rate limiter of the API gateway, for any number of   *)
(* requests, replicas and identities, every rate and burst, and however    *)
(* time passes.  The bounds MaxTime, MaxBack and MaxRetries only limit how *)
(* far the behaviours go: they are arbitrary here.                         *)
(***************************************************************************)
EXTENDS Gateway, SequenceTheorems, TLAPS

Stages == {"idle", "limiting", "replying", "routing", "done"}

Buckets == [tokens : 0 .. Full, short : BOOLEAN, ts : Int, expires : Int]

Moments == [ran : Nat, clock : Int]

(* The state is well formed, and a request that is at the limiter has an   *)
(* identity.                                                               *)
TypeInv ==
  /\ pc \in [Requests -> Stages]
  /\ ask \in [Requests -> {None} \cup UNION {Asks[r] : r \in Requests}]
  /\ reply \in [Requests -> BOOLEAN \cup {None}]
  /\ buckets \in [Keys -> Buckets \cup {None}]
  /\ time \in Nat /\ back \in Nat /\ regained \in Nat
  /\ spent \in [Identities -> Seq(Moments)]

AtLimiter ==
  \A r \in Requests :
    /\ pc[r] \in {"limiting", "replying"} => ask[r] \in Identified
    /\ pc[r] # "replying" => reply[r] = None

(* A bucket expires when it would be full again, or later.                 *)
Lasting ==
  \A k \in Keys : buckets[k] # None => buckets[k].expires = buckets[k].ts + Ttl

(* What an identity has taken since any of its runs, and what its bucket   *)
(* holds now, is no more than a full bucket and what that has gained.      *)
NeverAbove ==
  \A id \in Identities : \A i \in DOMAIN spent[id] :
    (Len(spent[id]) - i + 1) * Cost + Tokens(Spelling(id))
      <= Full + (Ran - spent[id][i].ran) * Rate

(* What a bucket held after its last run, and what was taken by the runs   *)
(* since some earlier one, is a full bucket and what that has gained by    *)
(* Redis's clock, or more, and more than full if its number is short.      *)
Accrued(taken, i, tokens, short, at) ==
  LET beyond == (tokens + (Len(taken) - i + 1) * Cost) - Full
  IN /\ beyond >= 0
     /\ beyond >= (at - taken[i].clock) * Rate
     /\ short => beyond > 0

NeverBelow ==
  \A id \in Identities : Distinct(id) /\ buckets[Spelling(id)] # None =>
    LET b == buckets[Spelling(id)]
    IN \E i \in DOMAIN spent[id] : Accrued(spent[id], i, b.tokens, b.short, b.ts)

GatewayInv ==
  /\ TypeInv /\ AtLimiter /\ Lasting /\ NeverAbove /\ NeverBelow /\ WithinBudget

-----------------------------------------------------------------------------
(* Tokens.                                                                 *)

LEMMA Quantities ==
  /\ Cost \in Nat \ {0} /\ Full \in Nat /\ Full >= Cost /\ Rate \in Nat \ {0}
  /\ Ttl \in Nat \ {0} /\ Ttl * Rate >= Full
<1> DEFINE q == (Burst + Rate - 1) \div Rate
<1>1. /\ Rate \in Nat \ {0} /\ Burst \in Nat \ {0} /\ PerSecond \in Nat \ {0}
      /\ Burst + Rate - 1 \in Nat
  BY GatewayAssumption
<1>2. q \in Nat /\ Burst + Rate - 1 < (q + 1) * Rate
  BY <1>1
<1> HIDE DEF q
<1>3. Burst <= (q + 1) * Rate
  BY <1>1, <1>2
<1>4. Burst * PerSecond <= ((q + 1) * Rate) * PerSecond
  BY <1>1, <1>2, <1>3
<1>5. ((q + 1) * Rate) * PerSecond = ((q + 1) * PerSecond) * Rate
  BY <1>1, <1>2
<1>6. Burst * PerSecond \in Nat /\ PerSecond <= Burst * PerSecond
  BY <1>1
<1>7. (q + 1) * PerSecond \in Nat \ {0}
  BY <1>1, <1>2
<1>8. Ttl = (q + 1) * PerSecond
  BY DEF Ttl, q
<1> QED
  BY <1>1, <1>4, <1>5, <1>6, <1>7, <1>8 DEF Cost, Full

LEMMA Products == \A a \in Int : a * Cost \in Int /\ a * Rate \in Int
  BY Quantities

(* What the script makes of a bucket after a while.                        *)
RefilledBy(tokens, elapsed) ==
  Min({Full, tokens + Max({0, elapsed}) * Rate})

LEMMA RefilledIs ==
  ASSUME NEW t \in 0 .. Full, NEW e \in Int
  PROVE  /\ RefilledBy(t, e) \in 0 .. Full
         /\ e <= 0 => RefilledBy(t, e) = t
         /\ e >= 0 => e * Rate \in Nat
         /\ e >= 0 /\ t + e * Rate <= Full => RefilledBy(t, e) = t + e * Rate
         /\ e >= 0 /\ t + e * Rate >= Full => RefilledBy(t, e) = Full
<1> DEFINE m == Max({0, e})
           p == m * Rate
<1>1. m \in Nat /\ (e >= 0 => m = e) /\ (e <= 0 => m = 0)
  BY DEF Max
<1>2. p \in Nat /\ (e >= 0 => p = e * Rate) /\ (e <= 0 => p = 0)
  BY <1>1, Quantities
<1> HIDE DEF p, m
<1>3. /\ t + p <= Full => Min({Full, t + p}) = t + p
      /\ t + p >= Full => Min({Full, t + p}) = Full
  BY <1>2, Quantities DEF Min
<1>4. RefilledBy(t, e) = Min({Full, t + p})
  BY DEF RefilledBy, p, m
<1> QED
  BY <1>2, <1>3, <1>4, Quantities

LEMMA RefilledMore ==
  ASSUME NEW t \in 0 .. Full, NEW e \in Int
  PROVE  /\ RefilledBy(t, e + 1) <= RefilledBy(t, e) + Rate
         /\ RefilledBy(t, e - 1) <= RefilledBy(t, e)
<1>1. \A d \in Int : (d + 1) * Rate = d * Rate + Rate
  BY Quantities
<1>2. /\ (e + 1) * Rate = e * Rate + Rate /\ e * Rate = (e - 1) * Rate + Rate
      /\ e * Rate \in Int /\ (e - 1) * Rate \in Int /\ (e + 1) * Rate \in Int
  BY <1>1, Quantities
<1>3. e + 1 \in Int /\ e - 1 \in Int
  OBVIOUS
<1>4. /\ RefilledBy(t, e) \in 0 .. Full /\ RefilledBy(t, e + 1) \in 0 .. Full
      /\ RefilledBy(t, e - 1) \in 0 .. Full
  BY <1>3, RefilledIs
<1>5. CASE e >= 1
  <2>1. /\ t + e * Rate <= Full => RefilledBy(t, e) = t + e * Rate
        /\ t + e * Rate >= Full => RefilledBy(t, e) = Full
    BY <1>5, RefilledIs
  <2>2. /\ t + (e + 1) * Rate <= Full => RefilledBy(t, e + 1) = t + (e + 1) * Rate
        /\ t + (e + 1) * Rate >= Full => RefilledBy(t, e + 1) = Full
    BY <1>3, <1>5, RefilledIs
  <2>3. /\ t + (e - 1) * Rate <= Full => RefilledBy(t, e - 1) = t + (e - 1) * Rate
        /\ t + (e - 1) * Rate >= Full => RefilledBy(t, e - 1) = Full
    BY <1>3, <1>5, RefilledIs
  <2> QED
    BY <1>2, <1>4, <2>1, <2>2, <2>3, Quantities
<1>6. CASE e <= -1
  <2>1. RefilledBy(t, e) = t /\ RefilledBy(t, e + 1) = t /\ RefilledBy(t, e - 1) = t
    BY <1>3, <1>6, RefilledIs
  <2> QED
    BY <2>1, Quantities
<1>7. CASE e = 0
  <2>1. RefilledBy(t, e) = t /\ RefilledBy(t, e - 1) = t
    BY <1>3, <1>7, RefilledIs
  <2>2. e * Rate = 0 /\ (e + 1) * Rate = Rate
    BY <1>2, <1>7, Quantities
  <2>3. RefilledBy(t, e + 1) <= t + Rate
    BY <1>3, <1>7, <2>2, RefilledIs, Quantities
  <2> QED
    BY <2>1, <2>3, Quantities
<1> QED
  BY <1>5, <1>6, <1>7

(* What the script finds in a bucket, now and after a step.                *)
LEMMA TokensAre ==
  ASSUME NEW k \in Keys
  PROVE  /\ Tokens(k) = IF Exists(k)
              THEN RefilledBy(buckets[k].tokens, Clock - buckets[k].ts) ELSE Full
         /\ Tokens(k)' = IF Exists(k)'
              THEN RefilledBy(buckets'[k].tokens, Clock' - buckets'[k].ts) ELSE Full
  BY DEF Tokens, Refilled, Elapsed, RefilledBy

LEMMA TokensFit ==
  ASSUME TypeInv, NEW k \in Keys
  PROVE  /\ Tokens(k) \in 0 .. Full
         /\ Exists(k) => buckets[k] \in Buckets
<1>1. Exists(k) => /\ buckets[k] \in Buckets /\ buckets[k].tokens \in 0 .. Full
                   /\ Clock - buckets[k].ts \in Int
  BY DEF Exists, TypeInv, Buckets, Clock
<1>2. Exists(k) =>
        RefilledBy(buckets[k].tokens, Clock - buckets[k].ts) \in 0 .. Full
  BY <1>1, RefilledIs
<1> QED
  BY <1>1, <1>2, TokensAre, Quantities

LEMMA TokensFitAfter ==
  ASSUME TypeInv', NEW k \in Keys
  PROVE  Tokens(k)' \in 0 .. Full
<1>1. Exists(k)' => /\ buckets'[k].tokens \in 0 .. Full
                    /\ Clock' - buckets'[k].ts \in Int
  BY DEF Exists, TypeInv, Buckets, Clock
<1>2. Exists(k)' =>
        RefilledBy(buckets'[k].tokens, Clock' - buckets'[k].ts) \in 0 .. Full
  BY <1>1, RefilledIs
<1> QED
  BY <1>2, TokensAre, Quantities

LEMMA ElapsedIs ==
  ASSUME TypeInv, NEW k \in Keys, Exists(k)
  PROVE  /\ buckets[k].tokens \in 0 .. Full /\ buckets[k].short \in BOOLEAN
         /\ buckets[k].ts \in Int
         /\ Elapsed(k) \in Nat /\ Elapsed(k) >= Clock - buckets[k].ts
         /\ Elapsed(k) * Rate \in Nat /\ Refilled(k) \in Int
<1> DEFINE d == Clock - buckets[k].ts
<1>1. /\ buckets[k].tokens \in 0 .. Full /\ buckets[k].short \in BOOLEAN
      /\ buckets[k].ts \in Int
  BY TokensFit DEF Buckets
<1>2. d \in Int /\ Elapsed(k) = Max({0, d})
  BY <1>1 DEF TypeInv, Clock, Elapsed
<1> HIDE DEF d
<1>3. Max({0, d}) \in Nat /\ Max({0, d}) >= d
  BY <1>2 DEF Max
<1>4. Elapsed(k) * Rate \in Nat
  BY <1>2, <1>3, Quantities
<1>5. Refilled(k) \in Int
  BY <1>1, <1>4, Quantities DEF Refilled
<1> QED
  BY <1>1, <1>2, <1>3, <1>4, <1>5 DEF d

(* An identity has a bucket.                                               *)
LEMMA OwnBucket ==
  /\ \A a \in Identified : BucketKey(a) = Spelling(Identity(a))
                             /\ Identity(a) \in Identities
  /\ \A id \in Identities : Spelling(id) \in Keys
  BY DEF BucketKey, Keys, Identities

LEMMA RoundedIs ==
  ASSUME TypeInv, NEW k \in Keys, NEW short \in Rounded(k)
  PROVE  /\ short \in BOOLEAN
         /\ short => Exists(k)
         /\ Exists(k) /\ Refilled(k) > Full => ~short
         /\ Exists(k) /\ Elapsed(k) = 0 => ~short \/ buckets[k].short
<1>1. Exists(k) => buckets[k] \in Buckets
  BY TokensFit
<1>2. Exists(k) => buckets[k].short \in BOOLEAN
  BY <1>1 DEF Buckets
<1> QED
  BY <1>2 DEF Rounded

-----------------------------------------------------------------------------
(* Steps that leave the script alone.                                      *)

LEMMA ClockTypeInv ==
  ASSUME TypeInv, Tick \/ SetBack \/ CatchUp
  PROVE  TypeInv' /\ UNCHANGED <<pc, ask, reply, buckets, spent>>
<1>1. /\ UNCHANGED <<pc, ask, reply, buckets, spent>>
      /\ time' \in {time, time + 1} /\ regained' \in {regained, regained + 1}
      /\ back' \in {back, back + 1} \/ (back > 0 /\ back' = back - 1)
  BY DEF Tick, SetBack, CatchUp, requestVars
<1>2. time' \in Nat /\ back' \in Nat /\ regained' \in Nat
  BY <1>1 DEF TypeInv
<1> QED
  BY <1>1, <1>2 DEF TypeInv

(* Time passes, or Redis's clock is set back or catches up: a bucket gains *)
(* no more than what that clock's running yields, its expiry included.     *)
LEMMA ClockMoves ==
  ASSUME TypeInv, Lasting, Tick \/ SetBack \/ CatchUp, NEW k \in Keys
  PROVE  Tokens(k)' + Ran * Rate <= Tokens(k) + Ran' * Rate
<1>1. buckets' = buckets
  BY DEF Tick, SetBack, CatchUp
<1>2. /\ Tokens(k) \in 0 .. Full /\ Tokens(k)' \in 0 .. Full
      /\ ~Exists(k) => Tokens(k) = Full
  <2>1. Exists(k)' => /\ buckets'[k].tokens \in 0 .. Full
                      /\ Clock' - buckets'[k].ts \in Int
    BY <1>1 DEF Exists, TypeInv, Buckets, Clock, Tick, SetBack, CatchUp
  <2>2. Exists(k)' =>
          RefilledBy(buckets'[k].tokens, Clock' - buckets'[k].ts) \in 0 .. Full
    BY <2>1, RefilledIs
  <2> QED
    BY <2>2, TokensAre, TokensFit, Quantities
<1>3. /\ Clock \in Int /\ Clock' \in Int /\ Ran \in Nat /\ Ran' \in Nat
      /\ \/ Clock' = Clock + 1 /\ Ran' = Ran + 1
         \/ Clock' = Clock - 1 /\ Ran' = Ran
  <2>1. time \in Nat /\ back \in Nat /\ regained \in Nat
    BY DEF TypeInv
  <2>2. CASE Tick
    BY <2>1, <2>2 DEF Clock, Ran, Tick
  <2>3. CASE SetBack
    BY <2>1, <2>3 DEF Clock, Ran, SetBack
  <2>4. CASE CatchUp
    BY <2>1, <2>4 DEF Clock, Ran, CatchUp
  <2> QED
    BY <2>2, <2>3, <2>4
<1>4. Ran * Rate \in Nat /\ (Ran + 1) * Rate = Ran * Rate + Rate
  BY <1>3, Quantities
<1>5. CASE ~Exists(k)
  BY <1>2, <1>3, <1>4, <1>5, Quantities
<1>6. CASE Exists(k)
  <2> DEFINE b == buckets[k]
             e == Clock - b.ts
  <2>1. b \in Buckets /\ Tokens(k) = RefilledBy(b.tokens, e) /\ b.expires = b.ts + Ttl
    BY <1>6, TokensAre, TokensFit DEF Lasting, Exists
  <2>2. b.tokens \in 0 .. Full /\ b.ts \in Int /\ e \in Int
    BY <2>1, <1>3 DEF Buckets
  <2>3. Exists(k)' <=> Clock' < b.ts + Ttl
    BY <1>1, <1>6, <2>1 DEF Exists
  <2>4. Exists(k) /\ Clock < b.ts + Ttl
    BY <1>6, <2>1 DEF Exists
  <2>5. Exists(k)' => Tokens(k)' = RefilledBy(b.tokens, Clock' - b.ts)
    BY <1>1, TokensAre
  <2> HIDE DEF b, e
  <2>6. CASE Clock' = Clock - 1 /\ Ran' = Ran
    <3>1. Exists(k)'
      BY <2>2, <2>3, <2>4, <2>6, <1>3, Quantities
    <3>2. Clock' - b.ts = e - 1
      BY <2>6, <2>2, <1>3 DEF e
    <3>3. RefilledBy(b.tokens, e - 1) <= RefilledBy(b.tokens, e)
      BY <2>2, RefilledMore
    <3>4. Tokens(k)' <= Tokens(k)
      BY <3>1, <3>2, <3>3, <2>1, <2>5
    <3> QED
      BY <3>4, <2>6, <1>2, <1>4
  <2>7. CASE Clock' = Clock + 1 /\ Ran' = Ran + 1
    <3>1. Clock' - b.ts = e + 1
      BY <2>7, <2>2, <1>3 DEF e
    <3>2. CASE Exists(k)'
      <4>1. RefilledBy(b.tokens, e + 1) <= RefilledBy(b.tokens, e) + Rate
        BY <2>2, RefilledMore
      <4>2. Tokens(k)' <= Tokens(k) + Rate
        BY <3>1, <3>2, <4>1, <2>1, <2>5
      <4> QED
        BY <4>2, <2>7, <1>2, <1>4, Quantities
    <3>3. CASE ~Exists(k)'
      <4>1. e = Ttl - 1
        BY <3>3, <2>2, <2>3, <2>4, <2>7, <1>3, Quantities DEF e
      <4>2. RefilledBy(b.tokens, Ttl) = Full
        BY <2>2, RefilledIs, Quantities
      <4>3. RefilledBy(b.tokens, e + 1) <= RefilledBy(b.tokens, e) + Rate
        BY <2>2, RefilledMore
      <4>4. e + 1 = Ttl
        BY <4>1, Quantities
      <4> QED
        BY <4>2, <4>3, <4>4, <1>2, <1>4, <2>1, <2>7, Quantities
    <3> QED
      BY <3>2, <3>3
  <2> QED
    BY <1>3, <2>6, <2>7
<1> QED
  BY <1>5, <1>6

-----------------------------------------------------------------------------
(* The script.                                                             *)

(* What a run of the script does: the bucket of the identity is written,   *)
(* by the clock of this moment, and a token is taken if there is one.      *)
Left(k, short) == Tokens(k) - (IF Enough(Tokens(k), short) THEN Cost ELSE 0)

Row(k, short) ==
  [tokens |-> Left(k, short), short |-> short, ts |-> Clock,
   expires |-> Clock + Ttl]

Moment == [ran |-> Ran, clock |-> Clock]

Writes(r, id, k, short) ==
  /\ Left(k, short) \in 0 .. Full /\ Row(k, short) \in Buckets
  /\ buckets' = [buckets EXCEPT ![k] = Row(k, short)]
  /\ Tokens(k)' = Left(k, short)
  /\ \A key \in Keys \ {k} : Tokens(key)' = Tokens(key)
  /\ spent' = IF Enough(Tokens(k), short)
              THEN [spent EXCEPT ![id] = Append(@, Moment)] ELSE spent
  /\ reply' = [reply EXCEPT ![r] = Enough(Tokens(k), short)]
  /\ UNCHANGED clockVars

LEMMA EnoughIs ==
  ASSUME NEW t \in 0 .. Full, NEW short \in BOOLEAN
  PROVE  /\ Enough(t, short) \in BOOLEAN
         /\ Enough(t, short) => t >= Cost
         /\ ~Enough(t, short) => t < Cost \/ (t = Cost /\ short)
         /\ t - (IF Enough(t, short) THEN Cost ELSE 0) \in 0 .. Full
  BY Quantities DEF Enough

LEMMA ScriptWrites ==
  ASSUME TypeInv, AtLimiter, NEW r \in Requests, RunScript(r)
  PROVE  LET id == Identity(ask[r])
             k == Spelling(id)
         IN /\ id \in Identities /\ k \in Keys
            /\ Tokens(k) \in 0 .. Full
            /\ \E short \in Rounded(k) : short \in BOOLEAN /\ Writes(r, id, k, short)
<1>1. PICK id : id = Identity(ask[r])
  OBVIOUS
<1>2. PICK k : k = Spelling(id)
  OBVIOUS
<1>3. ask[r] \in Identified
  BY DEF AtLimiter, RunScript
<1>4. BucketKey(ask[r]) = k /\ id \in Identities /\ k \in Keys
  BY <1>1, <1>2, <1>3, OwnBucket
<1>5. PICK short \in Rounded(k) :
        /\ buckets' = [buckets EXCEPT ![k] = Row(k, short)]
        /\ reply' = [reply EXCEPT ![r] = Enough(Tokens(k), short)]
        /\ spent' = IF Enough(Tokens(k), short)
                    THEN [spent EXCEPT ![id] = Append(@, Moment)] ELSE spent
  BY <1>1, <1>4 DEF RunScript, Row, Left, Moment
<1>6. Tokens(k) \in 0 .. Full /\ short \in BOOLEAN /\ UNCHANGED clockVars
  BY <1>4, TokensFit, RoundedIs DEF RunScript
<1>7. Left(k, short) \in 0 .. Full
  BY <1>6, EnoughIs DEF Left
<1>8. Clock \in Int /\ Clock' = Clock
  BY <1>6 DEF Clock, clockVars, TypeInv
<1>9. Row(k, short) \in Buckets
  BY <1>6, <1>7, <1>8, Quantities DEF Row, Buckets
<1>10. buckets'[k] = Row(k, short) /\ \A key \in Keys \ {k} : buckets'[key] = buckets[key]
  BY <1>4, <1>5 DEF TypeInv
<1>11. Tokens(k)' = Left(k, short)
  <2>1. Row(k, short) # None
    <3>1. Row(k, short) \in [tokens : Int, short : BOOLEAN, ts : Int, expires : Int]
      BY <1>6, <1>7, <1>8, Quantities DEF Row
    <3> QED
      BY <3>1, GatewayAssumption
  <2>2. /\ buckets'[k].tokens = Left(k, short) /\ buckets'[k].ts = Clock
        /\ buckets'[k].expires = Clock + Ttl
    BY <1>10 DEF Row
  <2>3. Exists(k)'
    BY <1>8, <1>10, <2>1, <2>2, Quantities DEF Exists
  <2>4. Tokens(k)' = RefilledBy(Left(k, short), Clock - Clock)
    BY <1>4, <1>8, <2>2, <2>3, TokensAre
  <2>5. RefilledBy(Left(k, short), Clock - Clock) = Left(k, short)
    BY <1>7, <1>8, RefilledIs
  <2> QED
    BY <2>4, <2>5
<1>12. \A key \in Keys \ {k} : Tokens(key)' = Tokens(key)
  BY <1>8, <1>10, TokensAre DEF Exists
<1>13. Writes(r, id, k, short)
  BY <1>5, <1>6, <1>7, <1>9, <1>11, <1>12 DEF Writes
<1> QED
  BY <1>1, <1>2, <1>4, <1>6, <1>13

-----------------------------------------------------------------------------
(* The invariant.                                                          *)

LEMMA InitGatewayInv == Init => GatewayInv
<1> SUFFICES ASSUME Init PROVE GatewayInv
  OBVIOUS
<1>1. TypeInv /\ AtLimiter
  BY DEF Init, TypeInv, AtLimiter, Stages
<1>2. \A id \in Identities : DOMAIN spent[id] = {}
  BY DEF Init
<1>3. \A k \in Keys : buckets[k] = None
  BY DEF Init
<1> QED
  BY <1>1, <1>2, <1>3, OwnBucket
     DEF GatewayInv, Lasting, NeverAbove, NeverBelow, WithinBudget

(* Every step but the script's and the clock's is one of a request alone.  *)
Errand(r) == Arrive(r) \/ RunAgain(r) \/ FailOpen(r) \/ Reply(r) \/ Route(r)

LEMMA ErrandTypeInv ==
  ASSUME TypeInv, AtLimiter, NEW r \in Requests, Errand(r)
  PROVE  /\ TypeInv' /\ AtLimiter' /\ UNCHANGED <<buckets, clockVars, spent>>
         /\ pc[r] = "limiting" => reply'[r] = None
<1> USE DEF TypeInv, AtLimiter, Stages, clockVars
<1>1. CASE Arrive(r)
  <2>1. PICK a \in Asks[r] :
          /\ ask' = [ask EXCEPT ![r] = a]
          /\ \/ IsPublic(a.path) /\ Goto(r, "routing")
             \/ HasIdentity(a) /\ Goto(r, "limiting")
             \/ Goto(r, "done")
    BY <1>1 DEF Arrive, Finish
  <2>2. HasIdentity(a) => a \in Identified
    BY DEF Identified
  <2>3. pc[r] = "idle" /\ UNCHANGED <<reply, buckets, time, back, regained, spent>>
    BY <1>1 DEF Arrive
  <2> QED
    BY <2>1, <2>2, <2>3 DEF Goto
<1>2. CASE RunAgain(r)
  BY <1>2 DEF RunAgain, Goto
<1>3. CASE FailOpen(r)
  BY <1>3 DEF FailOpen, Leave, Goto
<1>4. CASE Reply(r)
  BY <1>4 DEF Reply, Leave, Goto, Finish
<1>5. CASE Route(r)
  <2>1. Goto(r, "done") /\ pc[r] = "routing"
        /\ UNCHANGED <<ask, reply, buckets, time, back, regained, spent>>
    BY <1>5 DEF Route, Finish
  <2> QED
    BY <2>1 DEF Goto
<1> QED
  BY <1>1, <1>2, <1>3, <1>4, <1>5 DEF Errand

LEMMA MomentIs == TypeInv => Moment \in Moments /\ Clock \in Int /\ Ran \in Nat
  BY DEF TypeInv, Moment, Moments, Clock, Ran

LEMMA ScriptTypeInv ==
  ASSUME TypeInv, AtLimiter, Lasting, NEW r \in Requests, RunScript(r)
  PROVE  TypeInv' /\ AtLimiter' /\ Lasting'
<1>1. PICK id, k, short : /\ id \in Identities /\ k \in Keys /\ short \in BOOLEAN
                          /\ Tokens(k) \in 0 .. Full /\ Writes(r, id, k, short)
  BY ScriptWrites
<1>2. /\ buckets' = [buckets EXCEPT ![k] = Row(k, short)] /\ Row(k, short) \in Buckets
      /\ \/ spent' = [spent EXCEPT ![id] = Append(@, Moment)]
         \/ spent' = spent
      /\ reply' = [reply EXCEPT ![r] = Enough(Tokens(k), short)]
      /\ UNCHANGED clockVars
  BY <1>1 DEF Writes
<1>3. buckets' \in [Keys -> Buckets \cup {None}]
  BY <1>1, <1>2 DEF TypeInv
<1>4. spent' \in [Identities -> Seq(Moments)]
  <2>1. Append(spent[id], Moment) \in Seq(Moments)
    BY <1>1, MomentIs DEF TypeInv
  <2> QED
    BY <1>2, <2>1 DEF TypeInv
<1>5. reply' \in [Requests -> BOOLEAN \cup {None}]
  <2>1. Enough(Tokens(k), short) \in BOOLEAN
    BY <1>1, EnoughIs
  <2> QED
    BY <1>2, <2>1 DEF TypeInv
<1>6. pc[r] = "limiting" /\ pc' = [pc EXCEPT ![r] = "replying"] /\ ask' = ask
  BY DEF RunScript, Goto
<1>7. TypeInv'
  BY <1>2, <1>3, <1>4, <1>5, <1>6 DEF TypeInv, clockVars, Stages
<1>8. AtLimiter'
  BY <1>2, <1>6 DEF AtLimiter, TypeInv
<1>9. Lasting'
  <2>1. Row(k, short).expires = Row(k, short).ts + Ttl
    BY DEF Row
  <2> QED
    BY <1>1, <1>2, <2>1 DEF Lasting, TypeInv
<1> QED
  BY <1>7, <1>8, <1>9

-----------------------------------------------------------------------------
(* The budget.                                                             *)

LEMMA TakenAre ==
  ASSUME TypeInv, NEW id \in Identities
  PROVE  /\ Len(spent[id]) \in Nat
         /\ \A i \in DOMAIN spent[id] :
              /\ i \in 1 .. Len(spent[id])
              /\ spent[id][i].ran \in Nat /\ spent[id][i].clock \in Int
              /\ (Len(spent[id]) - i + 1) * Cost \in Int
              /\ (Ran - spent[id][i].ran) * Rate \in Int
              /\ (Clock - spent[id][i].clock) * Rate \in Int
<1>1. spent[id] \in Seq(Moments)
  BY DEF TypeInv
<1>2. ASSUME NEW i \in DOMAIN spent[id]
      PROVE  i \in 1 .. Len(spent[id]) /\ spent[id][i] \in Moments
  BY <1>1
<1>3. Len(spent[id]) \in Nat
  BY <1>1
<1>4. ASSUME NEW i \in DOMAIN spent[id]
      PROVE  (Len(spent[id]) - i + 1) * Cost \in Int
  <2>1. Len(spent[id]) - i + 1 \in Int
    BY <1>2, <1>3
  <2> QED
    BY <2>1, Products
<1>5. ASSUME NEW i \in DOMAIN spent[id]
      PROVE  /\ spent[id][i].ran \in Nat /\ spent[id][i].clock \in Int
             /\ (Ran - spent[id][i].ran) * Rate \in Int
             /\ (Clock - spent[id][i].clock) * Rate \in Int
  <2>1. spent[id][i].ran \in Nat /\ spent[id][i].clock \in Int
    BY <1>2 DEF Moments
  <2>2. Ran - spent[id][i].ran \in Int /\ Clock - spent[id][i].clock \in Int
    BY <2>1, MomentIs
  <2> QED
    BY <2>1, <2>2, Products
<1> QED
  BY <1>2, <1>3, <1>4, <1>5

(* A run that takes a token appends to what the identity has taken.        *)
LEMMA SpentGrows ==
  ASSUME TypeInv, NEW id \in Identities,
         spent' = [spent EXCEPT ![id] = Append(@, Moment)]
  PROVE  /\ Len(spent[id]) \in Nat /\ Len(spent'[id]) = Len(spent[id]) + 1
         /\ DOMAIN spent'[id] = DOMAIN spent[id] \cup {Len(spent[id]) + 1}
         /\ spent'[id][Len(spent[id]) + 1].ran = Ran
         /\ spent'[id][Len(spent[id]) + 1].clock = Clock
         /\ \A i \in DOMAIN spent[id] : /\ i \in 1 .. Len(spent[id])
                                        /\ spent'[id][i] = spent[id][i]
         /\ \A x \in Identities \ {id} : spent'[x] = spent[x]
<1>1. Moment \in Moments /\ spent[id] \in Seq(Moments)
  BY MomentIs DEF TypeInv
<1>2. spent'[id] = Append(spent[id], Moment)
  BY DEF TypeInv
<1>3. \A x \in Identities \ {id} : spent'[x] = spent[x]
  BY DEF TypeInv
<1>4. Moment.ran = Ran /\ Moment.clock = Clock
  BY DEF Moment
<1>5. /\ Len(spent[id]) \in Nat /\ Len(spent'[id]) = Len(spent[id]) + 1
      /\ DOMAIN spent'[id] = DOMAIN spent[id] \cup {Len(spent[id]) + 1}
      /\ spent'[id][Len(spent[id]) + 1] = Moment
      /\ \A i \in DOMAIN spent[id] : /\ i \in 1 .. Len(spent[id])
                                     /\ spent'[id][i] = spent[id][i]
  BY <1>1, <1>2
<1> QED
  BY <1>3, <1>4, <1>5

LEMMA TakenWithin ==
  ASSUME NEW n \in Nat, NEW i \in 1 .. n, NEW t \in Int
  PROVE  /\ ((n + 1) - i + 1) * Cost + (t - Cost) = (n - i + 1) * Cost + t
         /\ (t - Cost) + ((n + 1) - i + 1) * Cost = t + (n - i + 1) * Cost
         /\ (n - i + 1) * Cost \in Nat
<1>1. ((n + 1) - i + 1) * Cost = (n - i + 1) * Cost + Cost
  BY Quantities
<1>2. (n - i + 1) * Cost \in Nat
  BY Quantities
<1> QED
  BY <1>1, <1>2, Quantities

LEMMA ScriptNeverAbove ==
  ASSUME TypeInv, AtLimiter, NeverAbove, NEW r \in Requests, RunScript(r)
  PROVE  NeverAbove'
<1>1. PICK id, short :
        /\ id \in Identities /\ Spelling(id) \in Keys /\ short \in BOOLEAN
        /\ Tokens(Spelling(id)) \in 0 .. Full /\ Writes(r, id, Spelling(id), short)
  BY ScriptWrites
<1> DEFINE k == Spelling(id)
           n == Len(spent[id])
<1>2. /\ Tokens(k)' = Left(k, short) /\ Left(k, short) \in 0 .. Full
      /\ \A key \in Keys \ {k} : Tokens(key)' = Tokens(key)
      /\ spent' = IF Enough(Tokens(k), short)
                  THEN [spent EXCEPT ![id] = Append(@, Moment)] ELSE spent
      /\ Ran' = Ran
  BY <1>1 DEF Writes, clockVars, Ran
<1>3. Ran \in Nat
  BY MomentIs
<1>4. Left(k, short) <= Tokens(k)
  BY <1>1, Quantities DEF Left
<1>5. \A x \in Identities : Tokens(Spelling(x))' <= Tokens(Spelling(x))
        /\ Tokens(Spelling(x)) \in 0 .. Full /\ Tokens(Spelling(x))' \in 0 .. Full
  BY <1>1, <1>2, <1>4, OwnBucket, TokensFit, Quantities
<1>6. ASSUME NEW x \in Identities, NEW i \in DOMAIN spent[x]
      PROVE  (Len(spent[x]) - i + 1) * Cost + Tokens(Spelling(x))'
               <= Full + (Ran - spent[x][i].ran) * Rate
  <2> DEFINE p == (Len(spent[x]) - i + 1) * Cost
             g == (Ran - spent[x][i].ran) * Rate
  <2>1. p + Tokens(Spelling(x)) <= Full + g
    BY DEF NeverAbove
  <2>2. p \in Int /\ g \in Int
    BY TakenAre
  <2> HIDE DEF p, g
  <2>3. p + Tokens(Spelling(x))' <= Full + g
    BY <1>5, <2>1, <2>2, Quantities
  <2> QED
    BY <2>3 DEF p, g
<1>7. CASE Enough(Tokens(k), short)
  <2>1. /\ n \in Nat /\ Len(spent'[id]) = n + 1
        /\ DOMAIN spent'[id] = DOMAIN spent[id] \cup {n + 1}
        /\ spent'[id][n + 1].ran = Ran
        /\ \A i \in DOMAIN spent[id] : i \in 1 .. n /\ spent'[id][i] = spent[id][i]
        /\ \A x \in Identities \ {id} : spent'[x] = spent[x]
    <3>1. spent' = [spent EXCEPT ![id] = Append(@, Moment)]
      BY <1>2, <1>7
    <3> QED
      BY <1>1, <3>1, SpentGrows
  <2>2. Tokens(k)' = Tokens(k) - Cost /\ Tokens(k) >= Cost
    BY <1>1, <1>2, <1>7, EnoughIs DEF Left
  <2>3. ASSUME NEW x \in Identities, NEW i \in DOMAIN spent'[x]
        PROVE  (Len(spent'[x]) - i + 1) * Cost + Tokens(Spelling(x))'
                 <= Full + (Ran - spent'[x][i].ran) * Rate
    <3>1. CASE x # id
      BY <3>1, <1>6, <2>1, <2>3
    <3>2. CASE x = id /\ i \in DOMAIN spent[id]
      <4>1. (n - i + 1) * Cost + Tokens(k)
              <= Full + (Ran - spent[id][i].ran) * Rate
        BY <3>2, <1>1 DEF NeverAbove
      <4>2. ((n + 1) - i + 1) * Cost + (Tokens(k) - Cost)
              = (n - i + 1) * Cost + Tokens(k)
        <5>1. i \in 1 .. n /\ n \in Nat /\ Tokens(k) \in Int
          BY <3>2, <2>1, <1>1, Quantities
        <5> HIDE DEF n, k
        <5> QED
          BY <5>1, TakenWithin
      <4> QED
        BY <3>2, <4>1, <4>2, <2>1, <2>2
    <3>3. CASE x = id /\ i = n + 1
      <4>1. ((n + 1) - (n + 1) + 1) * Cost = Cost
        BY <2>1, Quantities
      <4>2. (Ran - Ran) * Rate = 0
        BY <1>3, Quantities
      <4>3. Cost + (Tokens(k) - Cost) <= Full + 0
        BY <1>1, Quantities
      <4> QED
        BY <3>3, <4>1, <4>2, <4>3, <2>1, <2>2
    <3> QED
      BY <2>1, <2>3, <3>1, <3>2, <3>3
  <2> QED
    BY <2>3, <1>2 DEF NeverAbove
<1>8. CASE ~Enough(Tokens(k), short)
  BY <1>2, <1>6, <1>8 DEF NeverAbove
<1> QED
  BY <1>7, <1>8

LEMMA ClockNeverAbove ==
  ASSUME TypeInv, Lasting, NeverAbove, Tick \/ SetBack \/ CatchUp
  PROVE  NeverAbove'
<1>1. spent' = spent /\ Ran' \in Nat /\ Ran \in Nat
  <2>1. spent' = spent
    BY DEF Tick, SetBack, CatchUp
  <2>2. TypeInv'
    BY ClockTypeInv
  <2>3. Ran' \in Nat
    BY <2>2 DEF TypeInv, Ran
  <2> QED
    BY <2>1, <2>3, MomentIs
<1>2. ASSUME NEW id \in Identities, NEW i \in DOMAIN spent[id]
      PROVE  (Len(spent[id]) - i + 1) * Cost + Tokens(Spelling(id))'
               <= Full + (Ran' - spent[id][i].ran) * Rate
  <2> DEFINE s == spent[id][i].ran
             p == (Len(spent[id]) - i + 1) * Cost
             k == Spelling(id)
  <2>1. k \in Keys
    BY OwnBucket
  <2> HIDE DEF k
  <2>2. Tokens(k)' + Ran * Rate <= Tokens(k) + Ran' * Rate
    BY <2>1, ClockMoves
  <2>3. p + Tokens(k) <= Full + (Ran - s) * Rate
    BY DEF NeverAbove, k
  <2>4. s \in Nat /\ p \in Int
    BY TakenAre
  <2>5. Tokens(k) \in Nat /\ Tokens(k)' \in Int
    <3>1. Tokens(k) \in 0 .. Full
      BY <2>1, TokensFit
    <3>2. Tokens(k)' \in 0 .. Full
      BY <2>1, ClockTypeInv, TokensFitAfter
    <3> QED
      BY <3>1, <3>2, Quantities
  <2> HIDE DEF s, p
  <2>6. /\ (Ran - s) * Rate = Ran * Rate - s * Rate
        /\ (Ran' - s) * Rate = Ran' * Rate - s * Rate
        /\ Ran * Rate \in Int /\ Ran' * Rate \in Int /\ s * Rate \in Int
    BY <1>1, <2>4, Quantities
  <2>7. p + Tokens(k)' <= Full + (Ran' - s) * Rate
    BY <2>2, <2>3, <2>4, <2>5, <2>6, Quantities
  <2> QED
    BY <2>7 DEF s, p, k
<1> QED
  BY <1>1, <1>2 DEF NeverAbove

(* A bucket that is not cut off at full has kept what it had accrued, and  *)
(* gained no less than Redis's clock has run since.                        *)
LEMMA FoundAccrued ==
  ASSUME TypeInv, NeverBelow, NEW id \in Identities, Distinct(id),
         Exists(Spelling(id)), Refilled(Spelling(id)) <= Full,
         NEW short \in Rounded(Spelling(id))
  PROVE  \E i \in DOMAIN spent[id] :
           Accrued(spent[id], i, Tokens(Spelling(id)), short, Clock)
<1>1. PICK k : k = Spelling(id) /\ k \in Keys
  BY OwnBucket
<1> DEFINE b == buckets[k]
           e == Elapsed(k)
           g == e * Rate
<1>2. b # None
  BY <1>1 DEF Exists
<1>3. /\ b.tokens \in 0 .. Full /\ b.short \in BOOLEAN /\ b.ts \in Int
      /\ Clock \in Int
  BY <1>1, ElapsedIs, MomentIs
<1>4. e \in Nat /\ e >= Clock - b.ts
  BY <1>1, ElapsedIs
<1>5. /\ g \in Nat /\ (e > 0 => g > 0) /\ (e = 0 => g = 0)
      /\ (Clock - b.ts) * Rate <= g /\ (Clock - b.ts) * Rate \in Int
  <2>1. Clock - b.ts \in Int
    BY <1>3
  <2> HIDE DEF e, b
  <2> QED
    BY <1>4, <2>1, Quantities
<1>6. Tokens(k) = b.tokens + g
  <2>1. Tokens(k) = Min({Full, b.tokens + g}) /\ b.tokens + g <= Full
    BY <1>1 DEF Tokens, Refilled
  <2> HIDE DEF b, g
  <2> QED
    BY <1>3, <1>5, <2>1, Quantities DEF Min
<1>7. PICK i \in DOMAIN spent[id] : Accrued(spent[id], i, b.tokens, b.short, b.ts)
  BY <1>1, <1>2 DEF NeverBelow
<1> DEFINE p == (Len(spent[id]) - i + 1) * Cost
           x == spent[id][i].clock
<1>8. p \in Int /\ x \in Int
  BY TakenAre
<1>9. /\ (b.tokens + p) - Full >= 0
      /\ (b.tokens + p) - Full >= (b.ts - x) * Rate
      /\ b.short => (b.tokens + p) - Full > 0
  BY <1>7 DEF Accrued
<1>10. short \in BOOLEAN /\ (short => e > 0 \/ b.short)
  BY <1>1, <1>3, <1>4, RoundedIs
<1> HIDE DEF p, x, g, e, b
<1>11. /\ (Clock - x) * Rate = (b.ts - x) * Rate + (Clock - b.ts) * Rate
       /\ (b.ts - x) * Rate \in Int
  BY <1>3, <1>8, Quantities
<1>12. /\ (Tokens(k) + p) - Full >= 0
       /\ (Tokens(k) + p) - Full >= (Clock - x) * Rate
       /\ short => (Tokens(k) + p) - Full > 0
  <2>1. (Tokens(k) + p) - Full = ((b.tokens + p) - Full) + g
    BY <1>3, <1>5, <1>6, <1>8, Quantities
  <2>2. (b.tokens + p) - Full \in Int
    BY <1>3, <1>8, Quantities
  <2>3. (Tokens(k) + p) - Full >= 0
    BY <1>5, <1>9, <2>1, <2>2
  <2>4. (Tokens(k) + p) - Full >= (Clock - x) * Rate
    BY <1>5, <1>9, <1>11, <2>1, <2>2
  <2>5. ASSUME short PROVE (Tokens(k) + p) - Full > 0
    BY <1>5, <1>9, <1>10, <1>4, <2>1, <2>2, <2>5
  <2> QED
    BY <2>3, <2>4, <2>5
<1> QED
  BY <1>1, <1>12 DEF Accrued, p, x

(* A script that is refused found a bucket that was not cut off at full.   *)
LEMMA FoundShort ==
  ASSUME TypeInv, NEW k \in Keys, NEW short \in Rounded(k),
         ~Enough(Tokens(k), short) \/ (Exists(k) /\ Refilled(k) <= Full)
  PROVE  Exists(k) /\ Refilled(k) <= Full
<1>1. CASE ~Enough(Tokens(k), short)
  <2>1. short \in BOOLEAN /\ Tokens(k) \in 0 .. Full
    BY RoundedIs, TokensFit
  <2>2. Tokens(k) < Cost \/ (Tokens(k) = Cost /\ short)
    BY <1>1, <2>1, EnoughIs
  <2>3. Exists(k)
    BY <2>1, <2>2, RoundedIs, Quantities DEF Tokens
  <2>4. Refilled(k) \in Int
    BY <2>3, ElapsedIs
  <2>5. ASSUME Refilled(k) > Full PROVE FALSE
    <3>1. Tokens(k) = Full
      BY <2>3, <2>4, <2>5, Quantities DEF Tokens, Min
    <3>2. ~short
      BY <2>3, <2>5, RoundedIs
    <3> QED
      BY <2>2, <3>1, <3>2, Quantities
  <2> QED
    BY <2>3, <2>4, <2>5, Quantities
<1> QED
  BY <1>1

LEMMA ScriptNeverBelow ==
  ASSUME TypeInv, AtLimiter, NeverBelow, NEW r \in Requests, RunScript(r)
  PROVE  NeverBelow'
<1>1. PICK id, k : /\ id = Identity(ask[r]) /\ k = Spelling(id)
                   /\ id \in Identities /\ k \in Keys /\ Tokens(k) \in 0 .. Full
                   /\ \E short \in Rounded(k) :
                        short \in BOOLEAN /\ Writes(r, id, k, short)
  BY ScriptWrites
<1>2. PICK short \in Rounded(k) : short \in BOOLEAN /\ Writes(r, id, k, short)
  BY <1>1
<1> DEFINE n == Len(spent[id])
<1>3. /\ buckets' = [buckets EXCEPT ![k] = Row(k, short)]
      /\ spent' = IF Enough(Tokens(k), short)
                  THEN [spent EXCEPT ![id] = Append(@, Moment)] ELSE spent
      /\ Left(k, short) \in 0 .. Full
  BY <1>2 DEF Writes
<1>4. /\ buckets'[k].tokens = Left(k, short) /\ buckets'[k].short = short
      /\ buckets'[k].ts = Clock
      /\ \A key \in Keys \ {k} : buckets'[key] = buckets[key]
  BY <1>1, <1>3 DEF TypeInv, Row
<1>5. \A x \in Identities \ {id} : spent'[x] = spent[x]
  BY <1>3 DEF TypeInv
<1>6. ASSUME Distinct(id)
      PROVE  \E i \in DOMAIN spent'[id] :
               Accrued(spent'[id], i, Left(k, short), short, Clock)
  <2>1. CASE Enough(Tokens(k), short)
    <3>1. /\ n \in Nat /\ Len(spent'[id]) = n + 1
          /\ DOMAIN spent'[id] = DOMAIN spent[id] \cup {n + 1}
          /\ spent'[id][n + 1].clock = Clock
          /\ \A i \in DOMAIN spent[id] : i \in 1 .. n /\ spent'[id][i] = spent[id][i]
      <4>1. spent' = [spent EXCEPT ![id] = Append(@, Moment)]
        BY <1>3, <2>1
      <4> QED
        BY <1>1, <4>1, SpentGrows
    <3>2. Left(k, short) = Tokens(k) - Cost
      BY <2>1 DEF Left
    <3>3. CASE ~(Exists(k) /\ Refilled(k) <= Full)
      <4>1. Tokens(k) = Full /\ ~short
        <5>1. CASE ~Exists(k)
          BY <1>1, <1>2, <5>1, RoundedIs DEF Tokens
        <5>2. CASE Exists(k)
          <6>1. Refilled(k) \in Int
            BY <1>1, <5>2, ElapsedIs
          <6>2. Refilled(k) > Full
            BY <3>3, <5>2, <6>1, Quantities
          <6>3. Tokens(k) = Full
            BY <5>2, <6>1, <6>2, Quantities DEF Tokens, Min
          <6> QED
            BY <1>1, <1>2, <5>2, <6>2, <6>3, RoundedIs
        <5> QED
          BY <5>1, <5>2
      <4>2. ((n + 1) - (n + 1) + 1) * Cost = Cost
        BY <3>1, Quantities
      <4>3. (Clock - Clock) * Rate = 0
        BY MomentIs, Quantities
      <4>4. (Left(k, short) + Cost) - Full = 0
        BY <3>2, <4>1, Quantities
      <4>5. Accrued(spent'[id], n + 1, Left(k, short), short, Clock)
        BY <3>1, <4>1, <4>2, <4>3, <4>4 DEF Accrued
      <4> QED
        BY <3>1, <4>5
    <3>4. CASE Exists(k) /\ Refilled(k) <= Full
      <4>1. PICK i \in DOMAIN spent[id] :
              Accrued(spent[id], i, Tokens(k), short, Clock)
        BY <1>1, <1>2, <1>6, <3>4, FoundAccrued
      <4>2. (Tokens(k) - Cost) + ((n + 1) - i + 1) * Cost
              = Tokens(k) + (n - i + 1) * Cost
        <5>1. i \in 1 .. n /\ n \in Nat /\ Tokens(k) \in Int
          BY <3>1, <1>1, Quantities
        <5> HIDE DEF n
        <5> QED
          BY <5>1, TakenWithin
      <4>3. ((Tokens(k) - Cost) + ((n + 1) - i + 1) * Cost) - Full
              = (Tokens(k) + (n - i + 1) * Cost) - Full
        BY <4>2
      <4>4. Accrued(spent'[id], i, Left(k, short), short, Clock)
        BY <3>1, <3>2, <4>1, <4>3 DEF Accrued
      <4> QED
        BY <3>1, <4>4
    <3> QED
      BY <3>3, <3>4
  <2>2. CASE ~Enough(Tokens(k), short)
    <3>1. Left(k, short) = Tokens(k) /\ spent' = spent
      BY <1>1, <1>3, <2>2, Quantities DEF Left
    <3>2. Exists(k) /\ Refilled(k) <= Full
      BY <1>1, <1>2, <2>2, FoundShort
    <3> QED
      BY <1>1, <1>2, <1>6, <3>1, <3>2, FoundAccrued
  <2> QED
    BY <2>1, <2>2
<1>7. ASSUME NEW x \in Identities, x # id, Distinct(x)
      PROVE  Spelling(x) # k /\ Spelling(x) \in Keys
  BY <1>1, <1>7, OwnBucket DEF Distinct
<1> QED
  BY <1>1, <1>4, <1>5, <1>6, <1>7 DEF NeverBelow

LEMMA ScriptWithinBudget ==
  ASSUME TypeInv, AtLimiter, NeverAbove, WithinBudget, NEW r \in Requests,
         RunScript(r)
  PROVE  WithinBudget'
<1>1. PICK id, short :
        /\ id \in Identities /\ Spelling(id) \in Keys /\ short \in BOOLEAN
        /\ Tokens(Spelling(id)) \in 0 .. Full /\ Writes(r, id, Spelling(id), short)
  BY ScriptWrites
<1> DEFINE k == Spelling(id)
           n == Len(spent[id])
<1>2. spent' = IF Enough(Tokens(k), short)
               THEN [spent EXCEPT ![id] = Append(@, Moment)] ELSE spent
  BY <1>1 DEF Writes
<1>3. CASE Enough(Tokens(k), short)
  <2>1. /\ n \in Nat /\ Len(spent'[id]) = n + 1
        /\ DOMAIN spent'[id] = DOMAIN spent[id] \cup {n + 1}
        /\ spent'[id][n + 1].ran = Ran
        /\ \A i \in DOMAIN spent[id] : i \in 1 .. n /\ spent'[id][i] = spent[id][i]
        /\ \A x \in Identities \ {id} : spent'[x] = spent[x]
    <3>1. spent' = [spent EXCEPT ![id] = Append(@, Moment)]
      BY <1>2, <1>3
    <3> QED
      BY <1>1, <3>1, SpentGrows
  <2>2. Tokens(k) >= Cost
    BY <1>1, <1>3, EnoughIs
  <2>3. ASSUME NEW x \in Identities,
               NEW i \in DOMAIN spent'[x], NEW j \in DOMAIN spent'[x], i <= j
        PROVE  (j - i + 1) * Cost
                 <= Full + (spent'[x][j].ran - spent'[x][i].ran) * Rate
    <3>1. CASE x # id \/ j \in DOMAIN spent[id]
      <4>1. i \in DOMAIN spent[x] /\ j \in DOMAIN spent[x]
            /\ spent'[x][i] = spent[x][i] /\ spent'[x][j] = spent[x][j]
        BY <2>1, <2>3, <3>1
      <4> QED
        BY <2>3, <4>1 DEF WithinBudget
    <3>2. CASE x = id /\ j = n + 1 /\ i \in DOMAIN spent[id]
      <4> DEFINE p == (n - i + 1) * Cost
                 g == (Ran - spent[id][i].ran) * Rate
      <4>1. p + Tokens(k) <= Full + g
        BY <3>2, <1>1 DEF NeverAbove
      <4>2. i \in 1 .. n /\ n \in Nat /\ p \in Int /\ g \in Int
        BY <3>2, <1>1, TakenAre
      <4>3. ((n + 1) - i + 1) * Cost = p + Cost
        <5> HIDE DEF n
        <5> QED
          BY <4>2, Quantities
      <4> HIDE DEF p, g
      <4>4. p + Cost <= Full + g
        BY <1>1, <2>2, <4>1, <4>2, Quantities
      <4> QED
        BY <3>2, <4>3, <4>4, <2>1 DEF g
    <3>3. CASE x = id /\ j = n + 1 /\ i = n + 1
      <4>1. ((n + 1) - (n + 1) + 1) * Cost = Cost
        BY <2>1, Quantities
      <4>2. (Ran - Ran) * Rate = 0
        BY MomentIs, Quantities
      <4> QED
        BY <3>3, <4>1, <4>2, <2>1, Quantities
    <3> QED
      BY <2>1, <2>3, <3>1, <3>2, <3>3
  <2>4. WithinBudget' = \A x \in Identities : \A i, j \in DOMAIN spent'[x] : i <= j =>
          (j - i + 1) * Cost <= Full + (spent'[x][j].ran - spent'[x][i].ran) * Rate
    BY DEF WithinBudget
  <2> QED
    BY <2>3, <2>4
<1>4. CASE ~Enough(Tokens(k), short)
  BY <1>2, <1>4 DEF WithinBudget
<1> QED
  BY <1>3, <1>4

-----------------------------------------------------------------------------
(* Theorems.                                                               *)

(* A step that touches neither buckets nor clock nor history.              *)
LEMMA BudgetKept ==
  ASSUME GatewayInv, TypeInv', AtLimiter', UNCHANGED <<buckets, clockVars, spent>>
  PROVE  GatewayInv'
<1>1. \A k \in Keys : Tokens(k)' = Tokens(k)
  BY TokensAre DEF Exists, Clock, clockVars
<1>2. Ran' = Ran
  BY DEF Ran, clockVars
<1>3. NeverAbove'
  BY <1>1, <1>2, OwnBucket DEF GatewayInv, NeverAbove
<1> QED
  BY <1>3 DEF GatewayInv, Lasting, NeverBelow, WithinBudget

LEMMA NextGatewayInv == GatewayInv /\ [Next]_vars => GatewayInv'
<1> SUFFICES ASSUME GatewayInv, [Next]_vars PROVE GatewayInv'
  OBVIOUS
<1>1. TypeInv /\ AtLimiter /\ Lasting /\ NeverAbove /\ NeverBelow /\ WithinBudget
  BY DEF GatewayInv
<1>2. CASE UNCHANGED vars
  <2>1. UNCHANGED <<pc, ask, reply, buckets, time, back, regained, spent>>
    BY <1>2 DEF vars, requestVars, clockVars
  <2>2. TypeInv'
    BY <1>1, <2>1 DEF TypeInv
  <2>3. AtLimiter'
    BY <1>1, <2>1 DEF AtLimiter
  <2>4. UNCHANGED <<buckets, clockVars, spent>>
    BY <2>1 DEF clockVars
  <2> QED
    BY <2>2, <2>3, <2>4, BudgetKept
<1>3. CASE Tick \/ SetBack \/ CatchUp
  <2>1. TypeInv' /\ UNCHANGED <<pc, ask, reply, buckets, spent>>
    BY <1>1, <1>3, ClockTypeInv
  <2>2. NeverAbove'
    BY <1>1, <1>3, ClockNeverAbove
  <2> QED
    BY <1>1, <2>1, <2>2
       DEF GatewayInv, AtLimiter, Lasting, NeverBelow, WithinBudget
<1>4. ASSUME NEW r \in Requests, RunScript(r) PROVE GatewayInv'
  BY <1>1, <1>4, ScriptTypeInv, ScriptNeverAbove, ScriptNeverBelow,
     ScriptWithinBudget DEF GatewayInv
<1>5. ASSUME NEW r \in Requests, Errand(r) PROVE GatewayInv'
  BY <1>1, <1>5, ErrandTypeInv, BudgetKept
<1> QED
  BY <1>2, <1>3, <1>4, <1>5 DEF Next, Pass, Errand

LEMMA GatewayInvariant == Spec => []GatewayInv
  BY InitGatewayInv, NextGatewayInv, PTL DEF Spec

(* Nobody takes more, in any period, than a full bucket and what that      *)
(* gains while Redis's clock runs that far (ratelimit.go:41-91): however   *)
(* the requests of an identity interleave, are answered late or run twice, *)
(* whether its bucket expired meanwhile, and when Redis's clock is set     *)
(* back and catches up, what it runs twice being gained twice.             *)
THEOREM BudgetKeptByAll == Spec => []WithinBudget
<1>1. GatewayInv => WithinBudget
  BY DEF GatewayInv
<1> QED
  BY <1>1, GatewayInvariant, PTL

LEMMA RefusalJustified ==
  ASSUME GatewayInv, [Next]_vars, NEW r \in Requests,
         pc[r] = "limiting", reply'[r] = FALSE, Distinct(Identity(ask[r]))
  PROVE  OverBudget(Identity(ask[r]))
<1>1. reply[r] = None /\ None # FALSE /\ r \in DOMAIN reply /\ reply'[r] # reply[r]
  BY GatewayAssumption DEF GatewayInv, AtLimiter, TypeInv
<1>2. RunScript(r)
  <2>1. CASE UNCHANGED vars \/ Tick \/ SetBack \/ CatchUp
    BY <1>1, <2>1 DEF vars, requestVars, Tick, SetBack, CatchUp
  <2>2. ASSUME NEW x \in Requests, Errand(x) PROVE FALSE
    <3>1. x = r
      BY <1>1, <2>2 DEF Errand, Arrive, RunAgain, FailOpen, Reply, Route, Leave
    <3> QED
      BY <1>1, <2>2, <3>1, ErrandTypeInv DEF GatewayInv
  <2>3. ASSUME NEW x \in Requests, RunScript(x), x # r PROVE FALSE
    BY <1>1, <2>3 DEF RunScript
  <2> QED
    BY <2>1, <2>2, <2>3 DEF Next, Pass, Errand
<1>3. PICK id, k : /\ id = Identity(ask[r]) /\ k = Spelling(id)
                   /\ id \in Identities /\ k \in Keys /\ Tokens(k) \in 0 .. Full
                   /\ \E short \in Rounded(k) :
                        short \in BOOLEAN /\ Writes(r, id, k, short)
  BY <1>2, ScriptWrites DEF GatewayInv
<1>4. PICK short \in Rounded(k) : short \in BOOLEAN /\ Writes(r, id, k, short)
  BY <1>3
<1>5. ~Enough(Tokens(k), short)
  <2>1. reply' = [reply EXCEPT ![r] = Enough(Tokens(k), short)]
    BY <1>4 DEF Writes
  <2> QED
    BY <1>1, <2>1
<1>6. Tokens(k) < Cost \/ (Tokens(k) = Cost /\ short)
  BY <1>3, <1>4, <1>5, EnoughIs
<1>7. Exists(k) /\ Refilled(k) <= Full
  BY <1>3, <1>4, <1>5, FoundShort DEF GatewayInv
<1>8. PICK i \in DOMAIN spent[id] : Accrued(spent[id], i, Tokens(k), short, Clock)
  BY <1>3, <1>4, <1>7, FoundAccrued DEF GatewayInv
<1> DEFINE n == Len(spent[id])
           p == (n - i + 1) * Cost
           g == (Clock - spent[id][i].clock) * Rate
<1>9. n \in Nat /\ i \in 1 .. n /\ p \in Int /\ g \in Int
  BY <1>3, TakenAre DEF GatewayInv
<1>10. /\ (Tokens(k) + p) - Full >= 0 /\ (Tokens(k) + p) - Full >= g
       /\ short => (Tokens(k) + p) - Full > 0
  BY <1>8 DEF Accrued
<1>11. (n - i + 2) * Cost = p + Cost
  <2> HIDE DEF n
  <2> QED
    BY <1>9, Quantities
<1> HIDE DEF p, g
<1>12. (p + Cost) - Full > 0 /\ (p + Cost) - Full >= g
  BY <1>3, <1>6, <1>9, <1>10, Quantities
<1> QED
  BY <1>3, <1>11, <1>12 DEF OverBudget, g

(* Nobody with a key of its own is refused below its budget                *)
(* (ratelimit.go:70-83,165-169): a request gets its 429 for what its own   *)
(* identity has taken, whoever else is limited on whichever replica.       *)
THEOREM RefusalsEarned == Spec => RefusedOverBudget
<1>1. GatewayInv /\ [Next]_vars =>
        \A r \in Requests :
          pc[r] = "limiting" /\ reply'[r] = FALSE /\ Distinct(Identity(ask[r]))
            => OverBudget(Identity(ask[r]))
  BY RefusalJustified
<1> QED
  BY <1>1, GatewayInvariant, PTL DEF Spec, RefusedOverBudget

(* The characters of a key.                                                *)
Joins(s, a, b) ==
  /\ Len(s) = Len(a) + 1 + Len(b)
  /\ \A i \in 1 .. Len(a) : s[i] = a[i]
  /\ s[Len(a) + 1] = ":"
  /\ \A i \in 1 .. Len(b) : s[Len(a) + 1 + i] = b[i]

LEMMA Spelled ==
  ASSUME NEW Chars, ":" \in Chars, NEW x,
         x[1] \in Seq(Chars), x[2] \in Seq(Chars)
  PROVE  Joins(Spelling(x), x[1], x[2])
<1>1. PICK a, b : a = x[1] /\ b = x[2]
  OBVIOUS
<1>2. a \in Seq(Chars) /\ b \in Seq(Chars)
  BY <1>1
<1> DEFINE h == a \o <<":">>
<1>3. <<":">> \in Seq(Chars) /\ Len(<<":">>) = 1 /\ <<":">>[1] = ":"
  OBVIOUS
<1>4. Len(a) \in Nat /\ Len(b) \in Nat
  BY <1>2
<1>5. h \in Seq(Chars) /\ Len(h) = Len(a) + 1
  BY <1>2, <1>3
<1>6. \A i \in 1 .. Len(a) : h[i] = a[i]
  BY <1>2, <1>3, <1>4
<1>7. h[Len(a) + 1] = ":"
  BY <1>2, <1>3, <1>4
<1> HIDE DEF h
<1>8. /\ Len(h \o b) = Len(h) + Len(b)
      /\ \A i \in 1 .. Len(h) + Len(b) :
           (h \o b)[i] = IF i <= Len(h) THEN h[i] ELSE b[i - Len(h)]
  BY <1>2, <1>5, ConcatProperties, Zenon
<1> DEFINE s == h \o b
<1> HIDE DEF s
<1>9. /\ Len(s) = Len(a) + 1 + Len(b)
      /\ \A i \in 1 .. Len(a) + 1 + Len(b) :
           s[i] = IF i <= Len(a) + 1 THEN h[i] ELSE b[i - (Len(a) + 1)]
  BY <1>5, <1>8, Zenon DEF s
<1>10. \A i \in 1 .. Len(a) : s[i] = a[i]
  BY <1>4, <1>6, <1>9
<1>11. s[Len(a) + 1] = ":"
  BY <1>4, <1>7, <1>9
<1>12. \A i \in 1 .. Len(b) : s[Len(a) + 1 + i] = b[i]
  BY <1>4, <1>9
<1>13. Joins(s, a, b)
  BY <1>9, <1>10, <1>11, <1>12 DEF Joins
<1>14. Spelling(x) = s
  BY <1>1 DEF Spelling, s, h
<1> QED
  BY <1>1, <1>13, <1>14

(* Keys that are spelled alike, of which the tenants have no colon, are    *)
(* spelled from the same parts.                                            *)
LEMMA ColonParts ==
  ASSUME NEW Chars, ":" \in Chars, NEW x, NEW y,
         x[1] \in Seq(Chars), x[2] \in Seq(Chars),
         y[1] \in Seq(Chars), y[2] \in Seq(Chars), Spelling(x) = Spelling(y),
         \A i \in DOMAIN x[1] : x[1][i] # ":", \A i \in DOMAIN y[1] : y[1][i] # ":"
  PROVE  x[1] = y[1] /\ x[2] = y[2]
<1>1. PICK a, b, c, d, s : /\ a = x[1] /\ b = x[2] /\ c = y[1] /\ d = y[2]
                           /\ s = Spelling(x)
  OBVIOUS
<1>2. /\ a \in Seq(Chars) /\ b \in Seq(Chars)
      /\ c \in Seq(Chars) /\ d \in Seq(Chars)
      /\ \A i \in DOMAIN a : a[i] # ":"
      /\ \A i \in DOMAIN c : c[i] # ":"
  BY <1>1
<1>3. Joins(s, a, b) /\ Joins(s, c, d)
  <2>1. Joins(Spelling(x), x[1], x[2])
    BY Spelled
  <2>2. Joins(Spelling(y), y[1], y[2])
    BY Spelled
  <2> QED
    BY <1>1, <2>1, <2>2
<1>4. /\ Len(s) = Len(a) + 1 + Len(b) /\ Len(s) = Len(c) + 1 + Len(d)
      /\ \A i \in 1 .. Len(a) : s[i] = a[i]
      /\ \A i \in 1 .. Len(c) : s[i] = c[i]
      /\ s[Len(a) + 1] = ":" /\ s[Len(c) + 1] = ":"
      /\ \A i \in 1 .. Len(b) : s[Len(a) + 1 + i] = b[i]
      /\ \A i \in 1 .. Len(d) : s[Len(c) + 1 + i] = d[i]
  BY <1>3 DEF Joins
<1>5. PICK la, lb, lc, ld : /\ la = Len(a) /\ lb = Len(b)
                            /\ lc = Len(c) /\ ld = Len(d)
  OBVIOUS
<1>6. /\ la \in Nat /\ lb \in Nat /\ lc \in Nat /\ ld \in Nat
      /\ DOMAIN a = 1 .. la /\ DOMAIN c = 1 .. lc
  BY <1>2, <1>5
<1>7. la = lc
  <2>1. ~(la < lc)
    <3>1. la < lc => la + 1 \in 1 .. lc
      BY <1>6
    <3> QED
      BY <3>1, <1>2, <1>4, <1>5, <1>6
  <2>2. ~(lc < la)
    <3>1. lc < la => lc + 1 \in 1 .. la
      BY <1>6
    <3> QED
      BY <3>1, <1>2, <1>4, <1>5, <1>6
  <2> QED
    BY <1>6, <2>1, <2>2
<1>8. lb = ld
  <2>1. la + 1 + lb = lc + 1 + ld
    BY <1>4, <1>5
  <2> QED
    BY <1>6, <1>7, <2>1
<1>9. \A i \in 1 .. la : a[i] = c[i]
  BY <1>4, <1>5, <1>7
<1>10. \A i \in 1 .. lb : b[i] = d[i]
  BY <1>4, <1>5, <1>7, <1>8
<1>11. a = c
  <2>1. a \in Seq(Chars) /\ c \in Seq(Chars) /\ Len(a) = Len(c)
        /\ \A i \in 1 .. Len(a) : a[i] = c[i]
    BY <1>2, <1>5, <1>7, <1>9
  <2> QED
    BY <2>1
<1>12. b = d
  <2>1. b \in Seq(Chars) /\ d \in Seq(Chars) /\ Len(b) = Len(d)
        /\ \A i \in 1 .. Len(b) : b[i] = d[i]
    BY <1>2, <1>5, <1>8, <1>10
  <2> QED
    BY <2>1
<1> QED
  BY <1>1, <1>11, <1>12

(* Two keys are spelled alike only if a tenant has a colon in its name     *)
(* (ratelimit.go:179): if none has, as none IAM has made, every identity   *)
(* has a key of its own, whatever the names of the users.                  *)
THEOREM KeysApart ==
  ASSUME NEW Chars, ":" \in Chars,
         \A id \in Identities :
           /\ id[1] \in Seq(Chars) /\ id[2] \in Seq(Chars)
           /\ \A i \in DOMAIN id[1] : id[1][i] # ":"
  PROVE  \A id \in Identities : Distinct(id)
<1> SUFFICES ASSUME NEW x \in Identities, NEW y \in Identities,
                    Spelling(x) = Spelling(y)
             PROVE  x = y
  BY DEF Distinct
<1>1. x = <<x[1], x[2]>> /\ y = <<y[1], y[2]>>
  BY DEF Identities, Identity
<1>2. x[1] = y[1] /\ x[2] = y[2]
  BY ColonParts
<1> QED
  BY <1>1, <1>2
=============================================================================
