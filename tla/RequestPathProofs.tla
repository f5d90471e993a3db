-------------------------- MODULE RequestPathProofs --------------------------
(***************************************************************************)
(* What a request meets on its way.  The gateway keeps its types, its      *)
(* breakers count failures exactly, and its limiter gives each client no   *)
(* more than one bucket would, for any requests, clients, backends,        *)
(* thresholds, rates and intervals.  The caches of the services behind it  *)
(* hold nothing older than an entry's life and a request's time, for any   *)
(* readers and writers, lives and losses.  The two share no state.         *)
(***************************************************************************)
EXTENDS Gateway, ReadCaches, TLAPS

\* A client that was unseen for some ticks has regained that many of its
\* tokens, so that forgetting it gives it none.
Regained(bucket) ==
  bucket.tokens = Burst \/ bucket.tokens >= Rate * bucket.idle
Limiters(map) ==
  /\ map \in [Clients -> Buckets \cup {Unknown}]
  /\ \A c \in Clients : map[c] # Unknown => Regained(map[c])

\* A breaker and the failures since the last success.
Counts(cb, n) ==
  /\ cb \in Breakers /\ n \in 0..FailureThreshold
  /\ cb.state = "CLOSED" => cb.consecutiveFails = n /\ n < FailureThreshold

Inv == /\ Limiters(clients)
       /\ breaker \in [Backends -> Breakers]
       /\ streak \in [Backends -> 0..FailureThreshold]
       /\ \A b \in Backends : Counts(breaker[b], streak[b])
       /\ request \in [Requests -> InFlight \cup {Idle}]
       /\ healthy \in [Backends -> BOOLEAN]

-----------------------------------------------------------------------------
(* The limiter *)

LEMMA UnknownIsNoBucket ==
  /\ Unknown \notin Buckets /\ NewBucket \in Buckets
  /\ NewBucket.tokens = Burst /\ NewBucket.idle = 0 /\ Unknown.tokens = Burst
  BY LimiterAssumption DEF Unknown, Buckets, NewBucket

\* Looking a client up costs it nothing.
LEMMA SeenHolds ==
  ASSUME NEW map, Limiters(map), NEW c \in Clients
  PROVE  /\ Limiters(Seen(map, c))
         /\ Seen(map, c)[c] \in Buckets /\ Seen(map, c)[c].idle = 0
         /\ \A d \in Clients : Seen(map, c)[d].tokens = map[d].tokens
<1>1. CASE map[c] = Unknown
  <2>1. Seen(map, c) = [map EXCEPT ![c] = NewBucket]
    BY <1>1 DEF Seen
  <2>2. Regained(NewBucket)
    BY UnknownIsNoBucket DEF Regained
  <2> QED
    BY <1>1, <2>1, <2>2, UnknownIsNoBucket DEF Limiters
<1>2. CASE map[c] # Unknown
  <2>1. map[c] \in Buckets
    BY <1>2 DEF Limiters
  <2> DEFINE seen == [map[c] EXCEPT !.idle = 0]
  <2>2. Seen(map, c) = [map EXCEPT ![c] = seen]
    BY <1>2, UnknownIsNoBucket DEF Seen
  <2>3. /\ seen \in Buckets /\ seen.idle = 0
        /\ seen.tokens = map[c].tokens
    BY <2>1, LimiterAssumption DEF Buckets
  <2>4. Regained(seen)
    BY <2>3, LimiterAssumption DEF Regained, Buckets
  <2> QED
    BY <2>1, <2>2, <2>3, <2>4 DEF Limiters
<1> QED
  BY <1>1, <1>2

LEMMA TokenTakenHolds ==
  ASSUME NEW map, Limiters(map), NEW c \in Clients,
         map[c] \in Buckets, map[c].idle = 0, Allows(map, c)
  PROVE  /\ Limiters(TokenTaken(map, c))
         /\ map[c].tokens > 0
         /\ TokenTaken(map, c)[c].tokens = map[c].tokens - 1
         /\ \A d \in Clients \ {c} : TokenTaken(map, c)[d] = map[d]
<1> DEFINE taken == [map[c] EXCEPT !.tokens = @ - 1]
<1>1. TokenTaken(map, c) = [map EXCEPT ![c] = taken]
  BY DEF TokenTaken, Limiters
<1>2. map[c].tokens \in 0..Burst /\ map[c].tokens > 0
  BY DEF Allows, Buckets
<1>3. /\ taken \in Buckets /\ taken.idle = 0
      /\ taken.tokens = map[c].tokens - 1
  BY <1>2, LimiterAssumption DEF Buckets
<1>4. Regained(taken)
  BY <1>2, <1>3, LimiterAssumption DEF Regained
<1> QED
  BY <1>1, <1>2, <1>3, <1>4 DEF Limiters

LEMMA RefilledHolds ==
  ASSUME NEW bucket \in Buckets, Regained(bucket)
  PROVE  /\ Refilled(bucket) \in Buckets /\ Regained(Refilled(bucket))
         /\ Refilled(bucket).tokens = IF bucket.tokens + Rate > Burst THEN Burst
                                      ELSE bucket.tokens + Rate
<1> DEFINE t == bucket.tokens
           i == bucket.idle
<1>1. t \in 0..Burst /\ i \in 0..(IdleLimit + 1)
  BY DEF Buckets
<1>2. Rate * (i + 1) = Rate * i + Rate /\ Rate * i \in Nat
  BY <1>1, LimiterAssumption
<1>3. /\ Refilled(bucket).tokens = IF t + Rate > Burst THEN Burst ELSE t + Rate
      /\ Refilled(bucket).idle = IF i > IdleLimit THEN i ELSE i + 1
  BY DEF Refilled
<1>4. Refilled(bucket) \in Buckets
  BY <1>1, LimiterAssumption DEF Refilled, Buckets
<1>5. Regained(Refilled(bucket))
  BY <1>1, <1>2, <1>3, LimiterAssumption DEF Regained
<1> QED
  BY <1>3, <1>4, <1>5

LEMMA ElapsedHolds ==
  ASSUME NEW map, Limiters(map)
  PROVE  /\ Limiters(Elapsed(map))
         /\ \A c \in Clients :
              Elapsed(map)[c].tokens = IF map[c].tokens + Rate > Burst THEN Burst
                                       ELSE map[c].tokens + Rate
<1>1. ASSUME NEW c \in Clients
      PROVE  /\ Elapsed(map)[c] \in Buckets \cup {Unknown}
             /\ Elapsed(map)[c] # Unknown => Regained(Elapsed(map)[c])
             /\ Elapsed(map)[c].tokens = IF map[c].tokens + Rate > Burst THEN Burst
                                         ELSE map[c].tokens + Rate
  <2>1. CASE map[c] = Unknown
    <3>1. Elapsed(map)[c] = Unknown
      BY <2>1 DEF Elapsed
    <3> QED
      BY <2>1, <3>1, UnknownIsNoBucket, LimiterAssumption
  <2>2. CASE map[c] # Unknown
    <3>1. Elapsed(map)[c] = Refilled(map[c])
      BY <2>2 DEF Elapsed
    <3>2. map[c] \in Buckets /\ Regained(map[c])
      BY <2>2 DEF Limiters
    <3> QED
      BY <3>1, <3>2, RefilledHolds
  <2> QED
    BY <2>1, <2>2
<1>2. Elapsed(map) \in [Clients -> Buckets \cup {Unknown}]
  BY <1>1 DEF Elapsed
<1> QED
  BY <1>1, <1>2 DEF Limiters

\* Who is forgotten has a full bucket.
LEMMA EvictedHolds ==
  ASSUME NEW map, Limiters(map)
  PROVE  /\ Limiters(Evicted(map))
         /\ \A c \in Clients : Evicted(map)[c].tokens = map[c].tokens
<1>1. ASSUME NEW c \in Clients, map[c] # Unknown, map[c].idle > IdleLimit
      PROVE  map[c].tokens = Burst
  <2>1. map[c] \in Buckets /\ Regained(map[c])
    BY <1>1 DEF Limiters
  <2>2. map[c].tokens \in 0..Burst /\ map[c].idle = IdleLimit + 1
    BY <1>1, <2>1, LimiterAssumption DEF Buckets
  <2> QED
    BY <2>1, <2>2, LimiterAssumption DEF Regained
<1>2. \A c \in Clients : Evicted(map)[c] \in {map[c], Unknown}
                         /\ Evicted(map)[c].tokens = map[c].tokens
  BY <1>1, UnknownIsNoBucket DEF Evicted
<1>3. Evicted(map) \in [Clients -> Buckets \cup {Unknown}]
  BY <1>2 DEF Evicted, Limiters
<1> QED
  BY <1>2, <1>3 DEF Limiters

-----------------------------------------------------------------------------
(* The breaker *)

LEMMA NewCounts == Counts(NewBreaker, 0)
  BY BreakerAssumption DEF Counts, Breakers, NewBreaker

LEMMA AgedCounts ==
  ASSUME NEW cb, NEW n, Counts(cb, n) PROVE Counts(Aged(cb), n)
  BY BreakerAssumption DEF Counts, Breakers, Aged, Capped

LEMMA MovedHolds ==
  ASSUME NEW cb \in Breakers, NEW to \in {"CLOSED", "HALF_OPEN", "OPEN"}
  PROVE  /\ Moved(cb, to) \in Breakers /\ Moved(cb, to).state = to
         /\ Moved(cb, to).consecutiveFails = cb.consecutiveFails
<1> DEFINE there == [cb EXCEPT !.state = to]
<1>1. there \in Breakers
  BY DEF Breakers
<1>2. Moved(cb, to) = [there EXCEPT !.age = 0]
  BY DEF Moved
<1>3. 0 \in 0..(RecoveryInterval + 1)
  BY BreakerAssumption
<1>4. there.state = to /\ there.consecutiveFails = cb.consecutiveFails
  BY DEF Breakers
<1> HIDE DEF there
<1> QED
  BY <1>1, <1>2, <1>3, <1>4 DEF Breakers

LEMMA TrialCounts ==
  ASSUME NEW cb, NEW n, Counts(cb, n) PROVE Counts(TrialTaken(cb), n)
  BY MovedHolds DEF Counts, TrialTaken

LEMMA SuccessCounts ==
  ASSUME NEW cb, NEW n, Counts(cb, n) PROVE Counts(HandleSuccess(cb), 0)
<1>1. cb.state \in {"CLOSED", "HALF_OPEN", "OPEN"}
  BY DEF Counts, Breakers
<1>2. CASE cb.state = "HALF_OPEN"
  <2> DEFINE moved == Moved(cb, "CLOSED")
  <2>1. HandleSuccess(cb) = [moved EXCEPT !.consecutiveFails = 0]
    BY <1>2 DEF HandleSuccess
  <2>2. moved \in Breakers
    BY MovedHolds DEF Counts
  <2> QED
    BY <2>1, <2>2, BreakerAssumption DEF Counts, Breakers
<1>3. CASE cb.state = "CLOSED"
  BY <1>3, BreakerAssumption DEF Counts, Breakers, HandleSuccess
<1>4. CASE cb.state = "OPEN"
  BY <1>4, BreakerAssumption DEF Counts, Breakers, HandleSuccess
<1> QED
  BY <1>1, <1>2, <1>3, <1>4

LEMMA FailureCounts ==
  ASSUME NEW cb, NEW n, Counts(cb, n)
  PROVE  Counts(HandleFailure(cb), Capped(n + 1, FailureThreshold))
<1> DEFINE failed == [cb EXCEPT !.consecutiveFails =
                        Capped(@ + 1, FailureThreshold)]
<1>1. /\ failed \in Breakers /\ failed.state = cb.state
      /\ failed.consecutiveFails = Capped(cb.consecutiveFails + 1, FailureThreshold)
      /\ Capped(n + 1, FailureThreshold) \in 0..FailureThreshold
  BY BreakerAssumption DEF Counts, Breakers, Capped
<1>2. CASE \/ cb.state = "HALF_OPEN"
           \/ cb.state = "CLOSED" /\ failed.consecutiveFails >= FailureThreshold
  <2>1. HandleFailure(cb) = Moved(failed, "OPEN")
    BY <1>2 DEF HandleFailure
  <2> QED
    BY <1>1, <2>1, MovedHolds DEF Counts
<1>3. CASE ~(\/ cb.state = "HALF_OPEN"
             \/ cb.state = "CLOSED" /\ failed.consecutiveFails >= FailureThreshold)
  <2>1. HandleFailure(cb) = failed
    BY <1>3 DEF HandleFailure
  <2>2. cb.state = "CLOSED" => cb.consecutiveFails = n /\ n < FailureThreshold
    BY DEF Counts
  <2>3. cb.state = "CLOSED" =>
          /\ failed.consecutiveFails = Capped(n + 1, FailureThreshold)
          /\ Capped(n + 1, FailureThreshold) < FailureThreshold
    <3>1. failed.consecutiveFails \in 0..FailureThreshold
      BY <1>1 DEF Breakers
    <3> QED
      BY <1>1, <1>3, <2>2, <3>1, BreakerAssumption
  <2> QED
    BY <1>1, <2>1, <2>3 DEF Counts
<1> QED
  BY <1>2, <1>3

-----------------------------------------------------------------------------
(* The steps of the gateway *)

LEMMA InvInit == Init => Inv
<1> SUFFICES ASSUME Init PROVE Inv
  OBVIOUS
<1>1. Limiters(clients)
  BY DEF Init, Limiters
<1>2. /\ breaker \in [Backends -> Breakers]
      /\ streak \in [Backends -> 0..FailureThreshold]
      /\ \A b \in Backends : Counts(breaker[b], streak[b])
  BY NewCounts DEF Init, Counts
<1>3. /\ request \in [Requests -> InFlight \cup {Idle}]
      /\ healthy \in [Backends -> BOOLEAN]
  BY DEF Init
<1> QED
  BY <1>1, <1>2, <1>3 DEF Inv

\* A request that is somewhere in the gateway has a backend.
LEMMA Routes ==
  ASSUME Inv, NEW r \in Requests, request[r].at \in {"admit", "trial", "calling"}
  PROVE  request[r] \in InFlight /\ request[r].backend \in Backends
  BY DEF Inv, InFlight, Idle

LEMMA ArriveStep == ASSUME Inv, NEW r \in Requests, Arrive(r) PROVE Inv'
<1>0. Limiters(clients)
  BY DEF Inv
<1>1. ASSUME NEW c \in Clients, Limited(r, c) PROVE Inv'
  BY <1>0, <1>1, SeenHolds DEF Limited, Inv
<1>2. ASSUME NEW c \in Clients, Allows(Seen(clients, c), c)
      PROVE  Limiters(TokenTaken(Seen(clients, c), c))
  BY <1>0, <1>2, SeenHolds, TokenTakenHolds
<1>3. ASSUME NEW c \in Clients, Unrouted(r, c) PROVE Inv'
  BY <1>2, <1>3 DEF Unrouted, Inv
<1>4. ASSUME NEW c \in Clients, NEW b \in Backends, Routed(r, c, b) PROVE Inv'
  <2>1. request' \in [Requests -> InFlight \cup {Idle}]
    BY <1>4 DEF Routed, Enters, Inv, InFlight
  <2> QED
    BY <1>2, <1>4, <2>1 DEF Routed, Inv
<1> QED
  BY <1>1, <1>3, <1>4 DEF Arrive

LEMMA ProceedStep == ASSUME Inv, NEW r \in Requests, Proceed(r) PROVE Inv'
<1> DEFINE b == request[r].backend
<1>0. /\ request[r] \in InFlight /\ b \in Backends
      /\ healthy[b] \in BOOLEAN /\ Counts(breaker[b], streak[b])
  <2>1. request[r].at \in {"admit", "trial", "calling"}
    BY DEF Proceed, FailFast, AskForTrial, TakeTrial, PassThrough, Succeed, Fail,
           Abort
  <2> QED
    BY <2>1, Routes DEF Inv
<1>1. ASSUME NEW next \in InFlight \cup {Idle},
             request' = [request EXCEPT ![r] = next]
      PROVE  request' \in [Requests -> InFlight \cup {Idle}]
  BY <1>1 DEF Inv
<1>2. Starts(r) => request' \in [Requests -> InFlight \cup {Idle}]
  <2> SUFFICES ASSUME Starts(r)
               PROVE  request' \in [Requests -> InFlight \cup {Idle}]
    OBVIOUS
  <2>1. [request[r] EXCEPT !.at = "calling", !.sound = healthy[b]] \in InFlight
    BY <1>0 DEF InFlight
  <2> QED
    BY <1>1, <2>1 DEF Starts
<1>3. ASSUME NEW cb, NEW n, Counts(cb, n),
             breaker' = [breaker EXCEPT ![b] = cb],
             streak' = [streak EXCEPT ![b] = n]
      PROVE  /\ breaker' \in [Backends -> Breakers]
             /\ streak' \in [Backends -> 0..FailureThreshold]
             /\ \A d \in Backends : Counts(breaker'[d], streak'[d])
  BY <1>0, <1>3 DEF Inv, Counts
<1>4. CASE FailFast(r)
  BY <1>1, <1>4 DEF FailFast, Inv
<1>5. CASE AskForTrial(r)
  <2>1. [request[r] EXCEPT !.at = "trial"] \in InFlight
    BY <1>0 DEF InFlight
  <2>2. request' = [request EXCEPT ![r] = [request[r] EXCEPT !.at = "trial"]]
    BY <1>5 DEF AskForTrial
  <2> QED
    BY <1>1, <1>5, <2>1, <2>2 DEF AskForTrial, Inv
<1>6. CASE TakeTrial(r)
  <2>1. Counts(TrialTaken(breaker[b]), streak[b])
    BY <1>0, TrialCounts
  <2>2. breaker' = [breaker EXCEPT ![b] = TrialTaken(breaker[b])]
    BY <1>6 DEF TakeTrial
  <2>3. streak' = [streak EXCEPT ![b] = streak[b]]
    BY <1>6 DEF TakeTrial, Inv
  <2>4. /\ breaker' \in [Backends -> Breakers]
        /\ streak' \in [Backends -> 0..FailureThreshold]
        /\ \A d \in Backends : Counts(breaker'[d], streak'[d])
    BY <1>3, <2>1, <2>2, <2>3
  <2> QED
    BY <1>2, <1>6, <2>4 DEF TakeTrial, Inv
<1>7. CASE PassThrough(r)
  BY <1>2, <1>7 DEF PassThrough, Inv
<1>8. CASE Succeed(r)
  <2>1. Counts(HandleSuccess(breaker[b]), 0)
    BY <1>0, SuccessCounts
  <2>2. /\ breaker' = [breaker EXCEPT ![b] = HandleSuccess(breaker[b])]
        /\ streak' = [streak EXCEPT ![b] = 0]
    BY <1>8 DEF Succeed
  <2> QED
    BY <1>1, <1>3, <1>8, <2>1, <2>2 DEF Succeed, Inv
<1>9. CASE Fail(r)
  <2>1. Counts(HandleFailure(breaker[b]), Capped(streak[b] + 1, FailureThreshold))
    BY <1>0, FailureCounts
  <2>2. /\ breaker' = [breaker EXCEPT ![b] = HandleFailure(breaker[b])]
        /\ streak' = [streak EXCEPT ![b] = Capped(streak[b] + 1, FailureThreshold)]
    BY <1>9 DEF Fail
  <2> QED
    BY <1>1, <1>3, <1>9, <2>1, <2>2 DEF Fail, Inv
<1>10. CASE Abort(r)
  BY <1>1, <1>10 DEF Abort, Inv
<1> QED
  BY <1>4, <1>5, <1>6, <1>7, <1>8, <1>9, <1>10 DEF Proceed

LEMMA BackendStep ==
  ASSUME Inv, NEW b \in Backends, Heal(b) \/ Break(b) PROVE Inv'
<1>1. CASE Heal(b)
  BY <1>1 DEF Heal, Inv
<1>2. CASE Break(b)
  <2>1. ASSUME NEW r \in Requests PROVE request'[r] \in InFlight \cup {Idle}
    <3>1. request[r] \in InFlight \cup {Idle}
      BY DEF Inv
    <3>2. request[r] \in InFlight =>
            [request[r] EXCEPT !.sound = FALSE] \in InFlight
      BY DEF InFlight
    <3> QED
      BY <1>2, <3>1, <3>2 DEF Break
  <2>2. request' \in [Requests -> InFlight \cup {Idle}]
    BY <1>2, <2>1 DEF Break
  <2> QED
    BY <1>2, <2>2 DEF Break, Inv
<1> QED
  BY <1>1, <1>2

LEMMA TickStep == Inv /\ Tick => Inv'
<1> SUFFICES ASSUME Inv, Tick PROVE Inv'
  OBVIOUS
<1>1. Limiters(clients')
  BY ElapsedHolds DEF Inv, Tick
<1>2. \A b \in Backends : Counts(breaker'[b], streak'[b])
  BY AgedCounts DEF Inv, Tick
<1>3. breaker' \in [Backends -> Breakers]
  BY <1>2 DEF Tick, Counts
<1> QED
  BY <1>1, <1>2, <1>3 DEF Inv, Tick

LEMMA InvNext == Inv /\ [Next]_vars => Inv'
<1> SUFFICES ASSUME Inv, [Next]_vars PROVE Inv'
  OBVIOUS
<1>1. CASE Cleanup
  BY <1>1, EvictedHolds DEF Cleanup, Inv
<1>2. CASE UNCHANGED vars
  BY <1>2 DEF vars, Inv
<1> QED
  BY <1>1, <1>2, ArriveStep, ProceedStep, BackendStep, TickStep DEF Next

-----------------------------------------------------------------------------
\* The clients, breakers, requests and backends keep their types.
THEOREM TypeCorrect == Spec => []TypeOK
<1>1. Inv => TypeOK
  BY DEF Inv, Limiters, TypeOK
<1> QED
  BY InvInit, InvNext, <1>1, PTL DEF Spec

\* A closed breaker counts the failures in a row exactly, whatever answers come
\* late.
THEOREM CountsFailures == Spec => []ClosedCountsFailures
<1>1. Inv => ClosedCountsFailures
  BY DEF Inv, Counts, ClosedCountsFailures
<1> QED
  BY InvInit, InvNext, <1>1, PTL DEF Spec

-----------------------------------------------------------------------------
(* The limiter implements one bucket per client *)

LEMMA IdealInit == Init => Ideal!Init
  BY UnknownIsNoBucket DEF Init, Ideal!Init, Tokens

LEMMA IdealNext == Inv /\ [Next]_vars => [Ideal!Next]_Tokens
<1> SUFFICES ASSUME Inv, [Next]_vars PROVE Ideal!Next \/ UNCHANGED Tokens
  OBVIOUS
<1>0. Limiters(clients)
  BY DEF Inv
<1>1. ASSUME \A c \in Clients : clients'[c].tokens = clients[c].tokens
      PROVE  UNCHANGED Tokens
  BY <1>1 DEF Tokens
<1>2. ASSUME NEW r \in Requests, NEW c \in Clients, Limited(r, c)
      PROVE  UNCHANGED Tokens
  BY <1>0, <1>1, <1>2, SeenHolds DEF Limited
<1>3. ASSUME NEW c \in Clients, Allows(Seen(clients, c), c),
             clients' = TokenTaken(Seen(clients, c), c)
      PROVE  Ideal!Next
  <2> DEFINE seen == Seen(clients, c)
  <2>1. /\ Limiters(seen) /\ seen[c] \in Buckets /\ seen[c].idle = 0
        /\ \A d \in Clients : seen[d].tokens = clients[d].tokens
    BY <1>0, SeenHolds
  <2>2. /\ seen[c].tokens > 0 /\ clients'[c].tokens = seen[c].tokens - 1
        /\ \A d \in Clients \ {c} : clients'[d] = seen[d]
    BY <1>3, <2>1, TokenTakenHolds
  <2>3. /\ Tokens[c] > 0
        /\ Tokens' = [Tokens EXCEPT ![c] = @ - 1]
    BY <2>1, <2>2 DEF Tokens
  <2> QED
    BY <2>3 DEF Ideal!Next, Ideal!Admit
<1>4. CASE Cleanup
  BY <1>0, <1>1, <1>4, EvictedHolds DEF Cleanup
<1>5. CASE Tick
  <2>1. \A c \in Clients : clients'[c].tokens =
           IF clients[c].tokens + Rate > Burst THEN Burst
           ELSE clients[c].tokens + Rate
    BY <1>0, <1>5, ElapsedHolds DEF Tick
  <2> QED
    BY <2>1 DEF Tokens, Ideal!Next, Ideal!Refill
<1>6. ASSUME UNCHANGED clients PROVE UNCHANGED Tokens
  BY <1>6 DEF Tokens
<1>7. ASSUME NEW r \in Requests, Arrive(r) PROVE Ideal!Next \/ UNCHANGED Tokens
  BY <1>2, <1>3, <1>7 DEF Arrive, Unrouted, Routed
<1>8. ASSUME NEW r \in Requests, Proceed(r) PROVE UNCHANGED Tokens
  BY <1>6, <1>8 DEF Proceed, FailFast, AskForTrial, TakeTrial, PassThrough,
     Succeed, Fail, Abort
<1>9. ASSUME NEW b \in Backends, Heal(b) \/ Break(b) PROVE UNCHANGED Tokens
  BY <1>6, <1>9 DEF Heal, Break
<1> QED
  BY <1>4, <1>5, <1>6, <1>7, <1>8, <1>9 DEF Next, vars

\* The map of limiters, cleaned in the background, implements one everlasting
\* bucket per client.
THEOREM LimiterImplementsBuckets == Spec => LimitsEachClient
  BY InvInit, InvNext, IdealInit, IdealNext, PTL DEF Spec, LimitsEachClient,
     Ideal!Spec

-----------------------------------------------------------------------------
(* The read-through caches behind the gateway *)

Handlings == [at : Steps, copy : SUBSET Values(kind), age : 0..Delay]

\* What a reader is about to fill in was the record's when the reader took it,
\* and what an order's saga assigns is seen from then on.
Honest(r) ==
  /\ At(r, "fill") => /\ handler[r].copy # {}
                      /\ \A v \in handler[r].copy : past[v] <= handler[r].age
  /\ At(r, "assign") => /\ kind = "order"
                        /\ handler[r].copy \subseteq {"CONFIRMED", "FAILED"}
                        /\ \A v \in handler[r].copy \cup {Torn} : past[v] = 0
  /\ At(r, "update") => kind = "payment"

\* Inductive: the three invariants of ReadCaches, and honest handlers.
CacheInv == /\ CacheTypeOK /\ handler \in [Handlers -> Handlings]
            /\ \A r \in Handlers : Honest(r)
            /\ BoundedStaleness /\ ChangesInvalidate

LEMMA ValuesOfKinds ==
  /\ kind = "item" => Values(kind) = 0..Units
  /\ kind = "payment" => Values(kind) = {"SUCCEEDED", "FAILED", "REFUNDED"}
  /\ kind = "order" => Values(kind) = {"PENDING", "CONFIRMED", "FAILED", Torn}
  BY DEF Values

LEMMA CacheInvInit == CacheInit => CacheInv
<1> SUFFICES ASSUME CacheInit PROVE CacheInv
  OBVIOUS
<1> USE CacheAssumption
<1>1. /\ stored \in Values(kind) /\ kind \in Kinds
      /\ kind = "order" => stored # Torn
  <2>1. kind \in Kinds
    BY DEF CacheInit
  <2>2. CASE kind = "item"
    BY <2>2, ValuesOfKinds DEF CacheInit
  <2>3. CASE kind = "payment"
    BY <2>3, ValuesOfKinds DEF CacheInit
  <2>4. CASE kind = "order"
    BY <2>4, ValuesOfKinds DEF CacheInit, Torn
  <2> QED
    BY <2>1, <2>2, <2>3, <2>4 DEF Kinds
<1>2. /\ entry \subseteq Values(kind) /\ life \in 0..TTL
      /\ (life = 0) = (entry = {})
      /\ \A v \in entry : v = stored
  BY <1>1 DEF CacheInit
<1>3. /\ handler \in [Handlers -> Handlings]
      /\ \A r \in Handlers : At(r, "idle") /\ handler[r].copy = {}
                             /\ handler[r].age = 0
  BY DEF CacheInit, Handlings, Steps, At
<1>4. past \in [Values(kind) -> 0..LongAgo] /\ past[stored] = 0
  BY <1>1 DEF CacheInit, LongAgo
<1>5. CacheTypeOK
  <2>1. lost \in 0..MaxLost /\ blamed \in BOOLEAN
    <3>1. lost = 0 /\ blamed = FALSE /\ MaxLost \in Nat
      BY DEF CacheInit
    <3>2. lost \in 0..MaxLost
      BY <3>1
    <3>3. blamed \in BOOLEAN
      BY <3>1
    <3> QED
      BY <3>2, <3>3
  <2>2. \A r \in Handlers : /\ handler[r].at \in Steps
                            /\ handler[r].copy \subseteq Values(kind)
                            /\ handler[r].age \in 0..Delay
    BY <1>3 DEF Handlings
  <2> QED
    BY <1>1, <1>2, <1>4, <2>1, <2>2 DEF CacheTypeOK
<1>6. \A r \in Handlers : Honest(r)
  BY <1>3 DEF Honest, At
<1>7. BoundedStaleness
  <2> SUFFICES ASSUME NEW v \in entry PROVE past[v] + life <= TTL + Delay
    BY DEF BoundedStaleness
  <2>1. past[v] = 0
    BY <1>2, <1>4
  <2> QED
    BY <1>2, <2>1
<1>8. ChangesInvalidate
  <2>1. entry = {} \/ entry = {stored}
    BY DEF CacheInit
  <2> QED
    BY <2>1 DEF ChangesInvalidate
<1> QED
  BY <1>3, <1>5, <1>6, <1>7, <1>8 DEF CacheInv
-----------------------------------------------------------------------------
(* Steps that change one reader's place only *)

\* A step of r that changes neither the record nor the cache: all that matters
\* is where r is then, and with what copy.
LEMMA MovesOnly ==
  ASSUME CacheInv, NEW r \in Handlers, NEW new \in Handlings,
         handler' = [handler EXCEPT ![r] = new],
         UNCHANGED <<record, entry, life, blamed>>, lost' \in 0..MaxLost,
         new.at = "delete" \/ ~At(r, "delete"),
         Honest(r)'
  PROVE  CacheInv'
<1>1. /\ handler' \in [Handlers -> Handlings] /\ handler'[r] = new
      /\ \A q \in Handlers \ {r} : handler'[q] = handler[q]
      /\ UNCHANGED <<kind, stored, past, entry, life, blamed>>
  BY DEF CacheInv, record
<1>2. UNCHANGED <<Values(kind), Handlings>>
  BY <1>1 DEF Values, Handlings
<1>3. CacheTypeOK'
  BY <1>1, <1>2 DEF CacheInv, CacheTypeOK, Handlings
<1>4. \A q \in Handlers : Honest(q)'
  BY <1>1 DEF CacheInv, Honest, At
<1>5. BoundedStaleness'
  BY <1>1 DEF CacheInv, BoundedStaleness
<1>6. ChangesInvalidate'
  BY <1>1 DEF CacheInv, ChangesInvalidate, At
<1> QED
  BY <1>1, <1>2, <1>3, <1>4, <1>5, <1>6 DEF CacheInv
\* Going on with the copy a reader has, and with another one.
LEMMA GoingOn ==
  ASSUME CacheInv, NEW r \in Handlers, NEW step \in Steps, Go(r, step),
         NEW new, new = [handler[r] EXCEPT !.at = step]
  PROVE  /\ new \in Handlings /\ handler' = [handler EXCEPT ![r] = new]
         /\ new.at = step
<1>1. handler \in [Handlers -> Handlings] /\ handler[r] \in Handlings
  BY DEF CacheInv
<1> QED
  BY <1>1 DEF Go, Handlings

\* What a read finds was the record's this very tick.
LEMMA VisibleIsFresh ==
  ASSUME CacheInv, NEW v \in Visible
  PROVE  v \in Values(kind) /\ past[v] = 0
<1>1. CASE v = stored
  BY <1>1 DEF CacheInv, CacheTypeOK
<1>2. CASE v # stored
  <2>1. PICK w \in Handlers : At(w, "assign") /\ v \in handler[w].copy \cup {Torn}
    BY <1>2 DEF Visible
  <2>2. /\ kind = "order" /\ past[v] = 0
        /\ handler[w].copy \subseteq {"CONFIRMED", "FAILED"}
    BY <2>1 DEF CacheInv, Honest
  <2> QED
    BY <2>1, <2>2, ValuesOfKinds
<1> QED
  BY <1>1, <1>2

\* The reads, and the check of a refund.
LEMMA ReadsHold ==
  ASSUME CacheInv, NEW r \in Handlers,
         Hit(r) \/ Miss(r) \/ Load(r) \/ Close(r) \/ CheckRefund(r)
  PROVE  CacheInv'
<1>1. /\ handler \in [Handlers -> Handlings] /\ handler[r] \in Handlings
      /\ lost \in 0..MaxLost /\ entry \subseteq Values(kind) /\ Honest(r)
      /\ {"answered", "load", "fill", "update"} \subseteq Steps
  BY DEF CacheInv, CacheTypeOK, Steps
<1>2. CASE Hit(r)
  <2>1. PICK v \in entry : GoWith(r, "answered", v)
    BY <1>2 DEF Hit
  <2> DEFINE new == [handler[r] EXCEPT !.at = "answered", !.copy = {v}]
  <2>2. /\ new \in Handlings /\ new.at = "answered"
        /\ handler' = [handler EXCEPT ![r] = new]
    <3>1. v \in Values(kind)
      BY <1>1
    <3> QED
      BY <1>1, <2>1, <3>1 DEF GoWith, Handlings
  <2> HIDE DEF new
  <2>3. Honest(r)'
    BY <1>1, <2>2 DEF Honest, At
  <2> QED
    BY <1>1, <1>2, <2>2, <2>3, MovesOnly DEF Hit, redis, At
<1>3. CASE Miss(r)
  <2> DEFINE new == [handler[r] EXCEPT !.at = "load"]
  <2>1. /\ new \in Handlings /\ new.at = "load"
        /\ handler' = [handler EXCEPT ![r] = new]
    BY <1>1, <1>3, GoingOn DEF Miss
  <2> HIDE DEF new
  <2>2. Honest(r)'
    BY <1>1, <2>1 DEF Honest, At
  <2>3. lost' \in 0..MaxLost
    BY <1>1, <1>3, CacheAssumption DEF Miss, Lose
  <2> QED
    BY <1>1, <1>3, <2>1, <2>2, <2>3, MovesOnly DEF Miss, At
<1>4. CASE Load(r)
  <2>1. PICK v \in Visible : GoWith(r, "fill", v)
    BY <1>4 DEF Load
  <2>2. v \in Values(kind) /\ past[v] = 0
    BY VisibleIsFresh
  <2> DEFINE new == [handler[r] EXCEPT !.at = "fill", !.copy = {v}]
  <2>3. /\ new \in Handlings /\ handler' = [handler EXCEPT ![r] = new]
        /\ new.at = "fill" /\ new.copy = {v} /\ new.age \in 0..Delay
    <3>1. /\ new \in Handlings /\ handler' = [handler EXCEPT ![r] = new]
          /\ new.at = "fill" /\ new.copy = {v} /\ new.age = handler[r].age
      BY <1>1, <2>1, <2>2 DEF GoWith, Handlings
    <3> QED
      BY <1>1, <3>1 DEF Handlings
  <2> HIDE DEF new
  <2>4. Honest(r)'
    <3>1. handler'[r] = new /\ past' = past
      BY <1>1, <1>4, <2>3 DEF Load, record
    <3> QED
      BY <2>2, <2>3, <3>1, CacheAssumption DEF Honest, At
  <2> QED
    BY <1>1, <1>4, <2>3, <2>4, MovesOnly DEF Load, redis, At
<1>5. CASE Close(r)
  <2> DEFINE new == [at |-> "idle", copy |-> {}, age |-> 0]
  <2>1. /\ new \in Handlings /\ new.at = "idle"
        /\ handler' = [handler EXCEPT ![r] = new]
    BY <1>5, CacheAssumption DEF Close, Handlings, Steps
  <2> HIDE DEF new
  <2>2. Honest(r)'
    BY <1>1, <2>1 DEF Honest, At
  <2> QED
    BY <1>1, <1>5, <2>1, <2>2, MovesOnly DEF Close, redis, At
<1>6. CASE CheckRefund(r) /\ stored = "SUCCEEDED"
  <2> DEFINE new == [handler[r] EXCEPT !.at = "update"]
  <2>1. /\ new \in Handlings /\ new.at = "update"
        /\ handler' = [handler EXCEPT ![r] = new]
    BY <1>1, <1>6, GoingOn DEF CheckRefund
  <2> HIDE DEF new
  <2>2. Honest(r)'
    BY <1>1, <1>6, <2>1 DEF Honest, At, CheckRefund, record
  <2> QED
    BY <1>1, <1>6, <2>1, <2>2, MovesOnly DEF CheckRefund, redis, At
<1>7. CASE CheckRefund(r) /\ stored # "SUCCEEDED"
  <2>1. handler' = [handler EXCEPT ![r] = handler[r]]
        /\ UNCHANGED <<record, redis, handler>>
    BY <1>1, <1>7 DEF CheckRefund
  <2>2. Honest(r)' /\ ~At(r, "delete")
    BY <1>1, <1>7, <2>1 DEF Honest, At, CheckRefund, record
  <2> QED
    BY <1>1, <2>1, <2>2, MovesOnly DEF redis
<1> QED
  BY <1>2, <1>3, <1>4, <1>5, <1>6, <1>7
-----------------------------------------------------------------------------
(* Steps that change the record, and steps that change the entry *)

\* A writer's step leaves the entry alone.  Values only get fresher by it, and
\* it ends with the entry still to be deleted, unless the record is an order.
LEMMA WritesHold ==
  ASSUME CacheInv, NEW r \in Handlers, NEW new \in Handlings,
         NEW values,
         handler' = [handler EXCEPT ![r] = new],
         UNCHANGED <<kind, entry, life, lost, blamed>>, Since(values),
         stored' \in Values(kind), kind = "order" => stored' # Torn,
         stored' \in values \/ stored' = stored,
         new.at = "delete" \/ kind = "order",
         Honest(r)'
  PROVE  CacheInv'
<1>1. /\ handler' \in [Handlers -> Handlings] /\ handler'[r] = new
      /\ \A q \in Handlers \ {r} : handler'[q] = handler[q]
      /\ handler \in [Handlers -> Handlings]
  BY DEF CacheInv
<1>2. UNCHANGED <<Values(kind), Handlings>>
  BY DEF Values, Handlings
<1>3. /\ past \in [Values(kind) -> 0..LongAgo] /\ past[stored] = 0
      /\ LongAgo \in Nat
  BY CacheAssumption DEF CacheInv, CacheTypeOK, LongAgo
<1>4. /\ past' \in [Values(kind) -> 0..LongAgo]
      /\ \A v \in Values(kind) : past'[v] = 0 \/ past'[v] = past[v]
      /\ past'[stored'] = 0
  BY <1>3 DEF Since
<1>5. CacheTypeOK'
  BY <1>1, <1>2, <1>4 DEF CacheInv, CacheTypeOK, Handlings
<1>6. \A q \in Handlers : Honest(q)'
  <2> SUFFICES ASSUME NEW q \in Handlers, q # r PROVE Honest(q)'
    OBVIOUS
  <2>1. /\ Honest(q) /\ handler'[q] = handler[q] /\ handler[q] \in Handlings
        /\ kind' = kind
    BY <1>1 DEF CacheInv
  <2>2. At(q, "fill") =>
          \A v \in handler[q].copy : past'[v] <= handler[q].age
    BY <1>3, <1>4, <2>1 DEF Honest, Handlings
  <2>3. At(q, "assign") =>
          \A v \in handler[q].copy \cup {Torn} : past'[v] = 0
    <3>1. kind = "order" => Torn \in Values(kind)
      BY ValuesOfKinds
    <3> QED
      BY <1>4, <2>1, <3>1 DEF Honest, Handlings
  <2> QED
    BY <2>1, <2>2, <2>3 DEF Honest, At
<1>7. BoundedStaleness'
  <2>1. \A v \in entry : past'[v] <= past[v]
    BY <1>3, <1>4 DEF CacheInv, CacheTypeOK
  <2>2. TTL \in Nat /\ Delay \in Nat /\ life \in Nat
        /\ \A v \in entry : past[v] \in Nat /\ past'[v] \in Nat
    BY <1>3, <1>4, CacheAssumption DEF CacheInv, CacheTypeOK
  <2> QED
    BY <2>1, <2>2 DEF CacheInv, BoundedStaleness
<1>8. ChangesInvalidate'
  BY <1>1 DEF ChangesInvalidate, At
<1> QED
  BY <1>1, <1>2, <1>5, <1>6, <1>7, <1>8 DEF CacheInv

LEMMA ChangesHold ==
  ASSUME CacheInv, NEW r \in Handlers,
         \/ Reserve(r) \/ Release(r) \/ UpdateStatus(r)
         \/ Assign(r) \/ UpdateOrder(r)
  PROVE  CacheInv'
<1>1. /\ handler \in [Handlers -> Handlings] /\ handler[r] \in Handlings
      /\ stored \in Values(kind) /\ Honest(r)
      /\ {"answered", "delete", "assign"} \subseteq Steps
  BY DEF CacheInv, CacheTypeOK, Steps
<1>2. CASE Reserve(r) \/ Release(r) \/ UpdateStatus(r)
  <2> DEFINE new == [handler[r] EXCEPT !.at = "delete"]
  <2>1. PICK v : BecomesStored(v) /\ Go(r, "delete") /\ UNCHANGED redis
                 /\ v \in Values(kind) /\ kind # "order"
    <3>1. CASE Reserve(r)
      <4>1. kind = "item" /\ stored \in 0..Units /\ stored < Units /\ Units \in Nat
        BY <1>1, <3>1, ValuesOfKinds, CacheAssumption DEF Reserve
      <4>2. stored + 1 \in Values(kind)
        BY <4>1, ValuesOfKinds
      <4> QED
        BY <3>1, <4>1, <4>2 DEF Reserve
    <3>2. CASE Release(r)
      <4>1. kind = "item" /\ stored \in 0..Units /\ Units \in Nat
        BY <1>1, <3>2, ValuesOfKinds, CacheAssumption DEF Release
      <4>2. (IF stored = 0 THEN 0 ELSE stored - 1) \in Values(kind)
        BY <4>1, ValuesOfKinds
      <4> QED
        BY <3>2, <4>1, <4>2 DEF Release
    <3>3. CASE UpdateStatus(r)
      <4>1. kind = "payment"
        BY <1>1, <3>3 DEF UpdateStatus, Honest
      <4> QED
        BY <3>3, <4>1, ValuesOfKinds DEF UpdateStatus
    <3> QED
      BY <1>2, <3>1, <3>2, <3>3
  <2>2. /\ new \in Handlings /\ new.at = "delete"
        /\ handler' = [handler EXCEPT ![r] = new]
    BY <1>1, <2>1, GoingOn
  <2> HIDE DEF new
  <2>3. Honest(r)'
    BY <1>1, <2>2 DEF Honest, At
  <2>4. /\ UNCHANGED <<kind, entry, life, lost, blamed>> /\ Since({v})
        /\ stored' = v
    BY <2>1 DEF BecomesStored, redis
  <2> QED
    BY <2>1, <2>2, <2>3, <2>4, WritesHold
<1>3. CASE Assign(r)
  <2>1. PICK status \in {"CONFIRMED", "FAILED"} :
          GoWith(r, "assign", status) /\ Since({status, Torn})
    BY <1>3 DEF Assign
  <2>2. kind = "order" /\ UNCHANGED <<kind, stored, entry, life, lost, blamed>>
    BY <1>3 DEF Assign, redis
  <2>3. /\ status \in Values(kind) /\ Torn \in Values(kind)
        /\ kind = "order" => stored # Torn
    BY <2>2, ValuesOfKinds DEF CacheInv, CacheTypeOK
  <2> DEFINE new == [handler[r] EXCEPT !.at = "assign", !.copy = {status}]
  <2>4. /\ new \in Handlings /\ handler' = [handler EXCEPT ![r] = new]
        /\ new.at = "assign" /\ new.copy = {status}
    BY <1>1, <2>1, <2>3 DEF GoWith, Handlings
  <2> HIDE DEF new
  <2>5. past'[status] = 0 /\ past'[Torn] = 0
    BY <2>1, <2>3 DEF Since
  <2>6. Honest(r)'
    <3>1. handler'[r] = new /\ kind' = "order"
      BY <1>1, <2>2, <2>4
    <3> QED
      BY <2>4, <2>5, <3>1 DEF Honest, At
  <2> QED
    BY <1>1, <2>1, <2>2, <2>3, <2>4, <2>6, WritesHold
<1>4. CASE UpdateOrder(r)
  <2>1. PICK status \in handler[r].copy : BecomesStored(status)
    BY <1>4 DEF UpdateOrder
  <2>2. kind = "order" /\ status \in {"CONFIRMED", "FAILED"}
    BY <1>1, <1>4, <2>1 DEF UpdateOrder, Honest
  <2>3. status \in Values(kind) /\ status # Torn
    BY <2>2, ValuesOfKinds DEF Torn
  <2> DEFINE new == [handler[r] EXCEPT !.at = "answered"]
  <2>4. /\ new \in Handlings /\ new.at = "answered"
        /\ handler' = [handler EXCEPT ![r] = new]
    BY <1>1, <1>4, GoingOn DEF UpdateOrder
  <2> HIDE DEF new
  <2>5. Honest(r)'
    BY <1>1, <2>4 DEF Honest, At
  <2>6. /\ UNCHANGED <<kind, entry, life, lost, blamed>> /\ Since({status})
        /\ stored' = status
    BY <1>4, <2>1 DEF UpdateOrder, BecomesStored, redis
  <2> QED
    BY <2>2, <2>3, <2>4, <2>5, <2>6, WritesHold
<1> QED
  BY <1>2, <1>3, <1>4
\* A reader fills the entry with what it read, or a writer deletes it: what the
\* entry is then must be young enough and, if it is not the record, be blamed.
LEMMA EntryHolds ==
  ASSUME CacheInv, NEW r \in Handlers, NEW new \in Handlings,
         handler' = [handler EXCEPT ![r] = new], new.at = "answered",
         UNCHANGED <<kind, stored, past>>,
         entry' \subseteq Values(kind), life' \in 0..TTL, lost' \in 0..MaxLost,
         life' = 0 <=> entry' = {}, blamed' \in BOOLEAN,
         \A v \in entry' : past[v] + life' <= TTL + Delay,
         entry' \in {{}, {stored}} \/ blamed'
  PROVE  CacheInv'
<1>1. /\ handler' \in [Handlers -> Handlings] /\ handler'[r] = new
      /\ \A q \in Handlers \ {r} : handler'[q] = handler[q]
  BY DEF CacheInv
<1>2. UNCHANGED <<Values(kind), Handlings>>
  BY DEF Values, Handlings
<1>3. CacheTypeOK'
  BY <1>1, <1>2 DEF CacheInv, CacheTypeOK, Handlings
<1>4. \A q \in Handlers : Honest(q)'
  BY <1>1 DEF CacheInv, Honest, At
<1>5. BoundedStaleness' /\ ChangesInvalidate'
  BY DEF BoundedStaleness, ChangesInvalidate
<1> QED
  BY <1>1, <1>2, <1>3, <1>4, <1>5 DEF CacheInv

LEMMA FillHolds ==
  ASSUME CacheInv, NEW r \in Handlers, Fill(r)
  PROVE  CacheInv'
<1> DEFINE new == [handler[r] EXCEPT !.at = "answered"]
<1>1. /\ handler[r] \in Handlings /\ lost \in 0..MaxLost /\ Honest(r)
      /\ "answered" \in Steps /\ Go(r, "answered") /\ At(r, "fill")
  BY DEF CacheInv, CacheTypeOK, Steps, Fill
<1>2. /\ new \in Handlings /\ new.at = "answered"
      /\ handler' = [handler EXCEPT ![r] = new]
  BY <1>1, GoingOn
<1> HIDE DEF new
<1>3. UNCHANGED <<kind, stored, past>>
  BY DEF Fill, record
<1>4. CASE /\ entry' = handler[r].copy /\ life' = TTL
           /\ blamed' = (handler[r].copy # {stored}) /\ UNCHANGED lost
  <2>1. /\ handler[r].copy \subseteq Values(kind) /\ handler[r].copy # {}
        /\ handler[r].age \in 0..Delay
        /\ \A v \in handler[r].copy : past[v] <= handler[r].age
    BY <1>1 DEF Handlings, Honest
  <2>2. \A v \in entry' : past[v] + life' <= TTL + Delay
    <3>1. \A v \in Values(kind) : past[v] \in Nat
      BY DEF CacheInv, CacheTypeOK, LongAgo
    <3>2. TTL \in Nat /\ Delay \in Nat
      BY CacheAssumption
    <3> QED
      BY <1>4, <2>1, <3>1, <3>2
  <2>3. life' \in 0..TTL /\ life' # 0
    BY <1>4, CacheAssumption
  <2>4. blamed' \in BOOLEAN /\ (entry' \in {{}, {stored}} \/ blamed')
    BY <1>4
  <2>5. entry' \subseteq Values(kind) /\ entry' # {} /\ lost' \in 0..MaxLost
    BY <1>1, <1>4, <2>1
  <2> QED
    BY <1>2, <1>3, <2>2, <2>3, <2>4, <2>5, EntryHolds
<1>5. CASE Lose /\ UNCHANGED <<entry, life, blamed>>
  <2>1. lost' \in 0..MaxLost
    BY <1>1, <1>5, CacheAssumption DEF Lose
  <2>2. Honest(r)' /\ ~At(r, "delete")
    BY <1>1, <1>2 DEF Honest, At, CacheInv
  <2> QED
    BY <1>2, <1>3, <1>5, <2>1, <2>2, MovesOnly DEF record
<1> QED
  BY <1>4, <1>5 DEF Fill

LEMMA DeleteHolds ==
  ASSUME CacheInv, NEW r \in Handlers, Delete(r)
  PROVE  CacheInv'
<1> DEFINE new == [handler[r] EXCEPT !.at = "answered"]
<1>1. /\ handler[r] \in Handlings /\ lost \in 0..MaxLost
      /\ "answered" \in Steps /\ Go(r, "answered")
  BY DEF CacheInv, CacheTypeOK, Steps, Delete
<1>2. /\ new \in Handlings /\ new.at = "answered"
      /\ handler' = [handler EXCEPT ![r] = new]
  BY <1>1, GoingOn
<1> HIDE DEF new
<1>3. UNCHANGED <<kind, stored, past>>
  BY DEF Delete, record
<1>4. CASE entry' = {} /\ life' = 0 /\ blamed' = FALSE /\ UNCHANGED lost
  <2>1. /\ entry' \subseteq Values(kind) /\ lost' \in 0..MaxLost
        /\ life' = 0 <=> entry' = {}
        /\ \A v \in entry' : past[v] + life' <= TTL + Delay
        /\ entry' \in {{}, {stored}}
    BY <1>1, <1>4
  <2>2. life' \in 0..TTL
    BY <1>4, CacheAssumption
  <2>3. blamed' \in BOOLEAN
    BY <1>4
  <2> QED
    BY <1>2, <1>3, <2>1, <2>2, <2>3, EntryHolds
<1>5. CASE Lose /\ blamed' = (entry # {}) /\ UNCHANGED <<entry, life>>
  <2>1. lost' \in 0..MaxLost
    BY <1>1, <1>5, CacheAssumption DEF Lose
  <2>2. /\ entry' \subseteq Values(kind) /\ life' \in 0..TTL
        /\ \A v \in entry' : past[v] + life' <= TTL + Delay
    BY <1>5 DEF CacheInv, CacheTypeOK, BoundedStaleness
  <2>3. life' = 0 <=> entry' = {}
    BY <1>5 DEF CacheInv, CacheTypeOK
  <2>4. blamed' \in BOOLEAN /\ (entry' \in {{}, {stored}} \/ blamed')
    BY <1>5
  <2> QED
    BY <1>2, <1>3, <2>1, <2>2, <2>3, <2>4, EntryHolds
<1> QED
  BY <1>4, <1>5 DEF Delete

-----------------------------------------------------------------------------
(* Time *)

\* A tick ages the copies as much as the values they are copies of.
LEMMA TickHolds ==
  ASSUME CacheInv, CacheTick
  PROVE  CacheInv'
<1>1. /\ handler \in [Handlers -> Handlings] /\ CacheTypeOK
      /\ UNCHANGED <<kind, stored, lost>>
      /\ TTL \in Nat /\ Delay \in Nat /\ MaxLost \in Nat
  BY CacheAssumption DEF CacheInv, CacheTick
<1>2. UNCHANGED <<Values(kind), Handlings>>
  BY <1>1 DEF Values, Handlings
<1>3. \A r \in Handlers :
        /\ handler'[r] \in Handlings
        /\ handler'[r].at = handler[r].at /\ handler'[r].copy = handler[r].copy
        /\ handler[r].age \in 0..Delay
        /\ ~At(r, "idle") => handler'[r].age = handler[r].age + 1
  <2> SUFFICES ASSUME NEW r \in Handlers
               PROVE  /\ handler'[r] \in Handlings
                      /\ handler'[r].at = handler[r].at
                      /\ handler'[r].copy = handler[r].copy
                      /\ handler[r].age \in 0..Delay
                      /\ ~At(r, "idle") => handler'[r].age = handler[r].age + 1
    OBVIOUS
  <2>1. handler[r] \in Handlings /\ (At(r, "idle") \/ handler[r].age < Delay)
    BY <1>1 DEF CacheTick
  <2>2. handler'[r] = IF At(r, "idle") THEN handler[r]
                      ELSE [handler[r] EXCEPT !.age = @ + 1]
    BY DEF CacheTick
  <2> QED
    BY <1>1, <2>1, <2>2 DEF Handlings
<1>4. handler' \in [Handlers -> Handlings]
  BY <1>3 DEF CacheTick
<1>5. /\ past \in [Values(kind) -> 0..LongAgo] /\ LongAgo \in Nat
      /\ \A v \in Values(kind) : past[v] \in 0..LongAgo
      /\ LongAgo = TTL + Delay + 1
  BY <1>1 DEF CacheTypeOK, LongAgo
<1>6. \A v \in Values(kind) :
        /\ past'[v] \in 0..LongAgo /\ past'[v] <= past[v] + 1
        /\ v \in Visible => past'[v] = 0
  <2> SUFFICES ASSUME NEW v \in Values(kind)
               PROVE  /\ past'[v] \in 0..LongAgo /\ past'[v] <= past[v] + 1
                      /\ v \in Visible => past'[v] = 0
    OBVIOUS
  <2>1. past'[v] = CASE v \in Visible -> 0
                     [] v \notin Visible /\ past[v] = LongAgo -> LongAgo
                     [] OTHER -> past[v] + 1
    BY DEF CacheTick
  <2>2. CASE v \in Visible
    BY <1>5, <2>1, <2>2
  <2>3. CASE v \notin Visible /\ past[v] = LongAgo
    BY <1>5, <2>1, <2>3
  <2>4. CASE v \notin Visible /\ past[v] # LongAgo
    BY <1>5, <2>1, <2>4
  <2> QED
    BY <2>2, <2>3, <2>4
<1>7. past' \in [Values(kind) -> 0..LongAgo] /\ past'[stored] = 0
  <2>1. stored \in Visible /\ stored \in Values(kind)
    BY <1>1 DEF Visible, CacheTypeOK
  <2>2. past' = [v \in Values(kind) |-> past'[v]]
    BY DEF CacheTick
  <2> QED
    BY <1>6, <2>1, <2>2
<1>8. /\ life \in 0..TTL /\ life' \in 0..TTL /\ (life # 0 => life' = life - 1)
      /\ life = 0 => life' = 0
      /\ entry' = IF life' = 0 THEN {} ELSE entry
      /\ life = 0 <=> entry = {}
  BY <1>1 DEF CacheTick, CacheTypeOK
<1>9. life' = 0 <=> entry' = {}
  BY <1>8
<1>10. blamed' \in BOOLEAN /\ (life' # 0 => blamed' = blamed)
  BY <1>1 DEF CacheTick, CacheTypeOK
<1>11. CacheTypeOK'
  BY <1>1, <1>2, <1>3, <1>7, <1>8, <1>9, <1>10 DEF CacheTypeOK, Handlings
<1>12. \A r \in Handlers : Honest(r)'
  <2> SUFFICES ASSUME NEW r \in Handlers PROVE Honest(r)'
    OBVIOUS
  <2>1. /\ Honest(r) /\ handler[r] \in Handlings
        /\ handler'[r].at = handler[r].at /\ handler'[r].copy = handler[r].copy
        /\ ~At(r, "idle") => handler'[r].age = handler[r].age + 1
        /\ handler[r].copy \subseteq Values(kind) /\ handler[r].age \in Nat
    BY <1>1, <1>3 DEF CacheInv, Handlings
  <2>2. At(r, "fill") =>
          \A v \in handler[r].copy : past'[v] <= handler[r].age + 1
    <3> SUFFICES ASSUME At(r, "fill"), NEW v \in handler[r].copy
                 PROVE  past'[v] <= handler[r].age + 1
      OBVIOUS
    <3>1. v \in Values(kind) /\ past[v] <= handler[r].age
      BY <2>1 DEF Honest
    <3>2. past[v] \in Nat /\ past'[v] \in Nat /\ past'[v] <= past[v] + 1
      BY <1>5, <1>6, <3>1
    <3> QED
      BY <2>1, <3>1, <3>2
  <2>3. At(r, "assign") =>
          \A v \in handler[r].copy \cup {Torn} : past'[v] = 0
    <3> SUFFICES ASSUME At(r, "assign"), NEW v \in handler[r].copy \cup {Torn}
                 PROVE  past'[v] = 0
      OBVIOUS
    <3>1. v \in Visible
      BY DEF Visible
    <3> QED
      BY <1>6, <3>1, VisibleIsFresh
  <2>4. At(r, "fill") => ~At(r, "idle")
    BY DEF At
  <2> QED
    BY <1>1, <2>1, <2>2, <2>3, <2>4 DEF Honest, At
<1>13. BoundedStaleness'
  <2> SUFFICES ASSUME NEW v \in entry' PROVE past'[v] + life' <= TTL + Delay
    BY DEF BoundedStaleness
  <2>1. /\ life' # 0 /\ v \in entry /\ v \in Values(kind)
        /\ past[v] + life <= TTL + Delay
    BY <1>1, <1>8 DEF CacheInv, BoundedStaleness, CacheTypeOK
  <2>2. life \in Nat /\ life' = life - 1
        /\ past[v] \in Nat /\ past'[v] \in Nat /\ past'[v] <= past[v] + 1
    BY <1>5, <1>6, <1>8, <2>1
  <2> QED
    BY <1>1, <2>1, <2>2
<1>14. ChangesInvalidate'
  <2> SUFFICES ASSUME kind # "order", \A r \in Handlers : ~At(r, "delete"),
                      entry' # {}
               PROVE  entry' \in {{}, {stored}} \/ blamed'
    BY <1>1, <1>3 DEF ChangesInvalidate, At
  <2>1. life' # 0 /\ entry' = entry
    BY <1>8
  <2>2. entry \in {{}, {stored}} \/ blamed
    BY DEF CacheInv, ChangesInvalidate
  <2> QED
    BY <1>10, <2>1, <2>2
<1> QED
  BY <1>2, <1>4, <1>11, <1>12, <1>13, <1>14 DEF CacheInv

LEMMA CacheInvNext == CacheInv /\ [CacheNext]_cacheVars => CacheInv'
<1> SUFFICES ASSUME CacheInv, [CacheNext]_cacheVars PROVE CacheInv'
  OBVIOUS
<1>1. CASE \E r \in Handlers : Handle(r)
  <2>1. PICK r \in Handlers : Handle(r)
    BY <1>1
  <2> QED
    BY <2>1, ReadsHold, ChangesHold, FillHolds, DeleteHolds DEF Handle
<1>2. CASE CacheTick
  BY <1>2, TickHolds
<1>3. CASE UNCHANGED cacheVars
  <2>1. UNCHANGED <<kind, stored, entry, life, handler, lost, past, blamed>>
    BY <1>3 DEF cacheVars
  <2>2. UNCHANGED <<Values(kind), Handlings>>
    BY <2>1 DEF Values, Handlings
  <2> QED
    BY <2>1, <2>2 DEF CacheInv, CacheTypeOK, Honest, At, BoundedStaleness,
       ChangesInvalidate
<1> QED
  BY <1>1, <1>2, <1>3 DEF CacheNext

\* The caches and the handlers of requests keep their types: an entry has a
\* life exactly while it is there, and the record itself is never torn.
THEOREM EntriesAreTyped ==
  CacheSpec => []CacheTypeOK
<1>1. CacheInit => CacheInv
  BY CacheInvInit
<1>2. CacheInv /\ [CacheNext]_cacheVars => CacheInv'
  BY CacheInvNext
<1>3. CacheInv => CacheTypeOK
  BY DEF CacheInv
<1> QED
  BY <1>1, <1>2, <1>3, PTL DEF CacheSpec

\* Whatever is read from an entry was the record's at most TTL + Delay ticks
\* before the entry ends, whoever reads and writes in between, and whichever
\* commands Redis loses.
THEOREM EntriesAreYoung ==
  CacheSpec => []BoundedStaleness
<1>1. CacheInit => CacheInv
  BY CacheInvInit
<1>2. CacheInv /\ [CacheNext]_cacheVars => CacheInv'
  BY CacheInvNext
<1>3. CacheInv => BoundedStaleness
  BY DEF CacheInv
<1> QED
  BY <1>1, <1>2, <1>3, PTL DEF CacheSpec

\* Once the changes of an item or a payment have deleted its entry, one that
\* differs from the record is a late reader's or one Redis was not told of.
THEOREM ChangesAreSeen ==
  CacheSpec => []ChangesInvalidate
<1>1. CacheInit => CacheInv
  BY CacheInvInit
<1>2. CacheInv /\ [CacheNext]_cacheVars => CacheInv'
  BY CacheInvNext
<1>3. CacheInv => ChangesInvalidate
  BY DEF CacheInv
<1> QED
  BY <1>1, <1>2, <1>3, PTL DEF CacheSpec
=============================================================================
