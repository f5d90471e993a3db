----------------------------- MODULE OrderSaga -----------------------------
(***************************************************************************)
(* CreateOrder of the order service (order-service/service/service.go),    *)
(* the inventory and payment services it calls, and the HTTP client in     *)
(* between (internal/shared/httpclient): every call passes the breaker of  *)
(* its service, is repeated when no answer comes, and may be carried out   *)
(* long after its caller has given it up.  Redis holds the idempotency     *)
(* keys.  The sagas run concurrently; one is one POST /orders.             *)
(***************************************************************************)
EXTENDS CircuitBreaker, Inventory, Integers, Sequences, FiniteSets, Functions

CONSTANTS
  Sagas,
  Keys, NoKey,   \* the idempotency keys, and a request without one
  Carts,         \* what may be ordered: sequences of items and quantities
  MaxAttempts,   \* retry.MaxAttempts, the attempts of a call
  MaxFaults      \* bound on faults, for model checking

ASSUME SagaAssumption ==
  /\ IsFiniteSet(Sagas) /\ NoKey \notin Keys
  /\ MaxAttempts \in Nat \ {0} /\ MaxFaults \in Nat
  /\ Carts \subseteq Seq([item : Items, quantity : Nat \ {0}])
  /\ << >> \notin Carts

VARIABLES
  request,      \* the key and the cart of each saga
  saga,         \* where each saga stands
  order,        \* the status of each saga's order in the repository
  idempotency,  \* Redis: each key's value
  reserved,     \* the inventory: units reserved of each item
  network,      \* requests sent and not (yet) carried out
  breaker,      \* the breakers of the order service's two clients
  cancelled,    \* the sagas whose client went away
  held,         \* units reserved less units released for each saga (history)
  charged,      \* successful payments of each saga (history)
  excused,      \* the sagas whose calls met a fault (history)
  redisFailed,  \* the sagas a Redis command failed for (history)
  faults        \* faults so far (bounded)

server == <<reserved, held, charged>>
history == <<excused, redisFailed, faults>>
vars == <<request, saga, order, idempotency, network, breaker, cancelled,
          server, history>>

Clients == {"inventory", "payment"}
CallPhases == {"reserve", "pay", "release"}
Ended == {"refused", "replayed", "confirmed", "failed"}
Phases == {"submit", "lookup", "persist", "confirm", "cache", "fail", "forget"}
            \cup CallPhases \cup Ended

\* n counts the items reserved, released the items given back; attempt is 0
\* between calls.
SagaStates == [phase : Phases, n : Nat, released : Nat, attempt : 0..MaxAttempts]
Messages == [saga : Sagas, op : CallPhases, nth : Nat, attempt : 1..MaxAttempts]

TypeOK ==
  /\ request \in [Sagas -> [key : Keys \cup {NoKey}, cart : Carts]]
  /\ saga \in [Sagas -> SagaStates]
  /\ \A s \in Sagas : /\ saga[s].n <= Len(request[s].cart)
                      /\ saga[s].released <= saga[s].n
  /\ order \in [Sagas -> {"none", "PENDING", "CONFIRMED", "FAILED"}]
  /\ idempotency \in [Keys -> {"absent", "PROCESSING", "RESPONSE"}]
  /\ \A i \in Items : reserved[i] \in 0..Stock[i]
  /\ network \subseteq Messages
  /\ breaker \in [Clients -> Breakers]
  /\ cancelled \subseteq Sagas
  /\ held \in [Sagas -> [Items -> Int]]
  /\ charged \in [Sagas -> 0..MaxAttempts]
  /\ excused \subseteq Sagas /\ redisFailed \subseteq Sagas
  /\ faults \in 0..MaxFaults

Init ==
  /\ request \in [Sagas -> [key : Keys \cup {NoKey}, cart : Carts]]
  /\ saga = [s \in Sagas |->
               [phase |-> "submit", n |-> 0, released |-> 0, attempt |-> 0]]
  /\ order = [s \in Sagas |-> "none"]
  /\ idempotency = [k \in Keys |-> "absent"]
  /\ reserved = NothingReserved
  /\ network = {}
  /\ breaker = [c \in Clients |-> NewBreaker]
  /\ cancelled = {}
  /\ held = [s \in Sagas |-> [i \in Items |-> 0]]
  /\ charged = [s \in Sagas |-> 0]
  /\ excused = {} /\ redisFailed = {} /\ faults = 0

Key(s) == request[s].key
Cart(s) == request[s].cart
Running(s) == saga[s].phase \notin Ended
At(s, phase) == saga[s].phase = phase /\ saga[s].attempt = 0
Continue(s, phase) == saga' = [saga EXCEPT ![s].phase = phase]

Fault == faults < MaxFaults /\ faults' = faults + 1

-----------------------------------------------------------------------------
(* Redis *)

RedisAnswers(s) == s \notin cancelled /\ UNCHANGED history

\* Every command fails once the request's context is cancelled.
RedisFails(s) ==
  /\ IF s \in cancelled THEN UNCHANGED faults ELSE Fault
  /\ redisFailed' = redisFailed \cup {s}
  /\ UNCHANGED excused

NoCallMade == UNCHANGED <<request, network, breaker, cancelled, server>>

SubmitWithoutKey(s) ==
  /\ At(s, "submit")
  /\ Key(s) = NoKey
  /\ Continue(s, "persist")
  /\ UNCHANGED <<order, idempotency, history>> /\ NoCallMade

\* A plausible mistake, for the checks of the properties: an answered key
\* is taken over.
AcquireUnlessProcessing(s) ==
  /\ At(s, "submit") /\ Key(s) # NoKey
  /\ RedisAnswers(s)
  /\ idempotency[Key(s)] # "PROCESSING"
  /\ idempotency' = [idempotency EXCEPT ![Key(s)] = "PROCESSING"]
  /\ Continue(s, "persist")
  /\ UNCHANGED order /\ NoCallMade

Acquire(s) ==
  /\ At(s, "submit") /\ Key(s) # NoKey
  /\ RedisAnswers(s)
  /\ idempotency[Key(s)] = "absent"
  /\ idempotency' = [idempotency EXCEPT ![Key(s)] = "PROCESSING"]
  /\ Continue(s, "persist")
  /\ UNCHANGED order /\ NoCallMade

KeyIsTaken(s) ==
  /\ At(s, "submit") /\ Key(s) # NoKey
  /\ RedisAnswers(s)
  /\ idempotency[Key(s)] # "absent"
  /\ Continue(s, "lookup")
  /\ UNCHANGED <<order, idempotency>> /\ NoCallMade

\* The saga goes on as if it had the key, which it may delete later.
SubmitUnchecked(s) ==
  /\ At(s, "submit") /\ Key(s) # NoKey
  /\ RedisFails(s)
  /\ Continue(s, "persist")
  /\ UNCHANGED <<order, idempotency>> /\ NoCallMade

\* Only a cached response is an answer; a key in process, one deleted since,
\* and an error are all refused as duplicates.
Lookup(s) ==
  /\ At(s, "lookup")
  /\ \/ /\ RedisAnswers(s)
        /\ Continue(s, IF idempotency[Key(s)] = "RESPONSE" THEN "replayed"
                       ELSE "refused")
     \/ RedisFails(s) /\ Continue(s, "refused")
  /\ UNCHANGED <<order, idempotency>> /\ NoCallMade

Forget(s) ==
  /\ At(s, "forget")
  /\ \/ /\ Key(s) = NoKey
        /\ UNCHANGED <<idempotency, history>>
     \/ /\ Key(s) # NoKey /\ RedisAnswers(s)
        /\ idempotency' = [idempotency EXCEPT ![Key(s)] = "absent"]
     \/ /\ Key(s) # NoKey /\ RedisFails(s)
        /\ UNCHANGED idempotency
  /\ Continue(s, "failed")
  /\ UNCHANGED order /\ NoCallMade

CacheResponse(s) ==
  /\ At(s, "cache")
  /\ \/ /\ Key(s) = NoKey
        /\ UNCHANGED <<idempotency, history>>
     \/ /\ Key(s) # NoKey /\ RedisAnswers(s)
        /\ idempotency' = [idempotency EXCEPT ![Key(s)] = "RESPONSE"]
     \/ /\ Key(s) # NoKey /\ RedisFails(s)
        /\ UNCHANGED idempotency
  /\ Continue(s, "confirmed")
  /\ UNCHANGED order /\ NoCallMade

\* A plausible mistake, for the checks of the properties: only a response
\* has a time to live.
ExpireResponse(k) ==
  /\ idempotency[k] = "RESPONSE"
  /\ idempotency' = [idempotency EXCEPT ![k] = "absent"]
  /\ UNCHANGED <<saga, order, history>> /\ NoCallMade

\* The ten minutes of a key nobody works on any more are over.
Expire(k) ==
  /\ idempotency[k] = "PROCESSING"
  /\ \A s \in Sagas : Key(s) = k => saga[s].phase = "submit" \/ ~Running(s)
  /\ idempotency' = [idempotency EXCEPT ![k] = "absent"]
  /\ UNCHANGED <<saga, order, history>> /\ NoCallMade

-----------------------------------------------------------------------------
(* The order *)

Persist(s) ==
  /\ At(s, "persist")
  /\ order' = [order EXCEPT ![s] = "PENDING"]
  /\ Continue(s, "reserve")
  /\ UNCHANGED <<idempotency, history>> /\ NoCallMade

\* Order ids are clock readings: another order may have this one.
PersistClashes(s) ==
  /\ At(s, "persist")
  /\ \E t \in Sagas : order[t] # "none"
  /\ Continue(s, "forget")
  /\ UNCHANGED <<order, idempotency, history>> /\ NoCallMade

Confirm(s) ==
  /\ At(s, "confirm")
  /\ order' = [order EXCEPT ![s] = "CONFIRMED"]
  /\ Continue(s, "cache")
  /\ UNCHANGED <<idempotency, history>> /\ NoCallMade

FailOrder(s) ==
  /\ At(s, "fail")
  /\ order' = [order EXCEPT ![s] = "FAILED"]
  /\ Continue(s, "forget")
  /\ UNCHANGED <<idempotency, history>> /\ NoCallMade

-----------------------------------------------------------------------------
(* A call of the saga, from PostJSON to its return *)

Client(s) == IF saga[s].phase = "pay" THEN "payment" ELSE "inventory"
Nth(s) == CASE saga[s].phase = "reserve" -> saga[s].n + 1
            [] saga[s].phase = "release" -> saga[s].released + 1
            [] OTHER -> 0
Message(s, attempt) ==
  [saga |-> s, op |-> saga[s].phase, nth |-> Nth(s), attempt |-> attempt]

AtCall(s) == saga[s].phase \in CallPhases /\ saga[s].attempt = 0
Awaiting(s) == saga[s].attempt > 0

\* releaseReservedItems, which has nothing to do for an empty list.
GivesUp(state) ==
  [state EXCEPT !.attempt = 0,
                !.phase = IF state.n = 0 THEN "fail" ELSE "release"]

\* A plausible mistake, for the checks of the properties: the last item is
\* left out of the compensation.
AfterReleaseButLast(state) ==
  [state EXCEPT !.attempt = 0, !.released = @ + 1,
                !.phase = IF state.released + 2 >= state.n THEN "fail" ELSE @]

\* Another: a release is repeated for as long as it may not have worked.
AfterReleaseRepeated(state) == [state EXCEPT !.attempt = 0]

\* What a release answers is only logged.
AfterRelease(state) ==
  [state EXCEPT !.attempt = 0, !.released = @ + 1,
                !.phase = IF state.released + 1 = state.n THEN "fail" ELSE @]

\* A plausible mistake, for the checks of the properties: any 200 of the
\* payment service confirms the order.
AfterCallByStatus(s, answer) ==
  LET state == saga[s]
  IN  CASE state.phase = "release" -> AfterRelease(state)
        [] state.phase # "release" /\ answer \notin {"done", "declined"} ->
             GivesUp(state)
        [] state.phase = "reserve" /\ answer = "done" ->
             [state EXCEPT !.attempt = 0, !.n = @ + 1,
                           !.phase = IF state.n + 1 = Len(Cart(s)) THEN "pay"
                                     ELSE @]
        [] OTHER -> [state EXCEPT !.attempt = 0, !.phase = "confirm"]

\* The saga after its call came back: "done" is a 200 (of the payment service,
\* one that says SUCCEEDED), everything else an error or another answer.
AfterCall(s, answer) ==
  LET state == saga[s]
  IN  CASE state.phase = "release" -> AfterRelease(state)
        [] state.phase # "release" /\ answer # "done" -> GivesUp(state)
        [] state.phase = "reserve" /\ answer = "done" ->
             [state EXCEPT !.attempt = 0, !.n = @ + 1,
                           !.phase = IF state.n + 1 = Len(Cart(s)) THEN "pay"
                                     ELSE @]
        [] OTHER -> [state EXCEPT !.attempt = 0, !.phase = "confirm"]

Returns(s, answer) == saga' = [saga EXCEPT ![s] = AfterCall(s, answer)]
Recorded(s, outcome(_)) ==
  breaker' = [breaker EXCEPT ![Client(s)] = outcome(@)]

Excuse(s) == excused' = excused \cup {s} /\ UNCHANGED redisFailed

Send(s) ==
  /\ AtCall(s) /\ s \notin cancelled
  /\ ~Rejects(breaker[Client(s)])
  /\ breaker' = [breaker EXCEPT ![Client(s)] =
                   IF TrialIsDue(@) THEN TrialTaken(@) ELSE @]
  /\ network' = network \cup {Message(s, 1)}
  /\ saga' = [saga EXCEPT ![s].attempt = 1]
  /\ UNCHANGED <<request, order, idempotency, cancelled, server, history>>

\* The circuit is open: the saga's call fails although nothing it did failed.
Rejected(s) ==
  /\ AtCall(s)
  /\ Rejects(breaker[Client(s)])
  /\ Returns(s, "error")
  /\ Excuse(s)
  /\ UNCHANGED <<request, order, idempotency, network, breaker, cancelled,
                 server, faults>>

\* No answer within the client's time-out, or a broken connection; one fault
\* may cost a call several of its attempts.
TimesOut(s) ==
  /\ Awaiting(s) /\ s \notin cancelled
  /\ IF saga[s].attempt = 1 THEN Fault ELSE UNCHANGED faults
  /\ Excuse(s)

\* The same request is sent again, whatever has become of the first.
Resend(s) ==
  /\ TimesOut(s)
  /\ saga[s].attempt < MaxAttempts
  /\ network' = network \cup {Message(s, saga[s].attempt + 1)}
  /\ saga' = [saga EXCEPT ![s].attempt = @ + 1]
  /\ UNCHANGED <<request, order, idempotency, breaker, cancelled, server>>

AttemptsExhausted(s) ==
  /\ TimesOut(s)
  /\ saga[s].attempt = MaxAttempts
  /\ Returns(s, "error")
  /\ Recorded(s, HandleFailure)
  /\ UNCHANGED <<request, order, idempotency, network, cancelled, server>>

\* The context is cancelled: a call under way returns, a new one is not sent,
\* and both count as failures of the service.
CallCancelled(s) ==
  /\ s \in cancelled
  /\ \/ Awaiting(s)
     \/ AtCall(s) /\ ~Rejects(breaker[Client(s)])
  /\ Returns(s, "error")
  /\ breaker' = [breaker EXCEPT ![Client(s)] =
                   IF AtCall(s) /\ TrialIsDue(@) THEN HandleFailure(TrialTaken(@))
                   ELSE HandleFailure(@)]
  /\ UNCHANGED <<request, order, idempotency, network, cancelled, server,
                 history>>

Cancel(s) ==
  /\ Running(s) /\ s \notin cancelled
  /\ Fault /\ Excuse(s)
  /\ cancelled' = cancelled \cup {s}
  /\ UNCHANGED <<request, saga, order, idempotency, network, breaker, server>>

-----------------------------------------------------------------------------
(* The services carry out a request; its caller may wait for it no more *)

Awaits(m) == Awaiting(m.saga) /\ m = Message(m.saga, saga[m.saga].attempt)

Answer(m, answer, outcome(_)) ==
  /\ network' = network \ {m}
  /\ IF Awaits(m) THEN Returns(m.saga, answer) /\ Recorded(m.saga, outcome)
     ELSE UNCHANGED <<saga, breaker>>
  /\ UNCHANGED <<request, order, idempotency, cancelled>>

Line(m) == Cart(m.saga)[m.nth]

ServeReserve(m) ==
  /\ m.op = "reserve"
  /\ IF HasAvailable(reserved, Line(m).item, Line(m).quantity)
     THEN /\ reserved' = Reserve(reserved, Line(m).item, Line(m).quantity)
          /\ held' = [held EXCEPT ![m.saga][Line(m).item] = @ + Line(m).quantity]
          /\ Answer(m, "done", HandleSuccess)
     ELSE /\ UNCHANGED <<reserved, held>>
          /\ Answer(m, "conflict", HandleSuccess)
  /\ UNCHANGED <<charged, history>>

ServeRelease(m) ==
  /\ m.op = "release"
  /\ reserved' = Release(reserved, Line(m).item, Line(m).quantity)
  /\ held' = [held EXCEPT ![m.saga][Line(m).item] = @ - Line(m).quantity]
  /\ Answer(m, "done", HandleSuccess)
  /\ UNCHANGED <<charged, history>>

\* A declined payment, too, is answered with 200.
ServePayment(m) ==
  /\ m.op = "pay"
  /\ \/ /\ charged' = [charged EXCEPT ![m.saga] = @ + 1]
        /\ Answer(m, "done", HandleSuccess)
     \/ UNCHANGED charged /\ Answer(m, "declined", HandleSuccess)
  /\ UNCHANGED <<reserved, held, history>>

\* The service answers 500 before the handler runs (middleware.go, Chaos, or
\* a panic); the client takes that for an answer and does not retry.
ServeError(m) ==
  /\ Awaits(m)
  /\ Fault /\ Excuse(m.saga)
  /\ Answer(m, "error", HandleFailure)
  /\ UNCHANGED server

Serve(m) == ServeReserve(m) \/ ServeRelease(m) \/ ServePayment(m)

Tick == /\ breaker' = [c \in Clients |-> Aged(breaker[c])]
        /\ breaker' # breaker
        /\ UNCHANGED <<request, saga, order, idempotency, network, cancelled,
                       server, history>>

-----------------------------------------------------------------------------
Proceed(s) ==
  \/ SubmitWithoutKey(s) \/ Acquire(s) \/ KeyIsTaken(s) \/ SubmitUnchecked(s)
  \/ Lookup(s) \/ Persist(s) \/ PersistClashes(s) \/ Confirm(s)
  \/ CacheResponse(s) \/ FailOrder(s) \/ Forget(s)
  \/ Send(s) \/ Rejected(s) \/ CallCancelled(s)

Disturb(s) == Resend(s) \/ AttemptsExhausted(s) \/ Cancel(s)

Next == \/ \E s \in Sagas : Proceed(s) \/ Disturb(s)
        \/ \E m \in network : Serve(m) \/ ServeError(m)
        \/ \E k \in Keys : Expire(k)
        \/ Tick

\* A saga takes its steps, a request that is waited for is answered unless a
\* fault intervenes, and Redis forgets keys in time.
ServeAwaited(s) == \E m \in network : m.saga = s /\ Awaits(m) /\ Serve(m)

Spec == /\ Init /\ [][Next]_vars
        /\ \A s \in Sagas : WF_vars(Proceed(s)) /\ WF_vars(ServeAwaited(s))
        /\ \A k \in Keys : WF_vars(Expire(k))

-----------------------------------------------------------------------------
Units(s, i) ==
  [n \in DOMAIN Cart(s) |->
     IF Cart(s)[n].item = i THEN Cart(s)[n].quantity ELSE 0]
Wanted(s) == [i \in Items |-> SumFunction(Units(s, i))]

\* The saga implements the ledger of orders: one whose calls met no fault
\* collects, pays and is confirmed, or gives everything back uncharged,
\* whatever happens to the orders around it (service.go:177-292, 360-392).
Entries == [s \in Sagas |-> [status |-> order[s], held |-> held[s],
                             charged |-> charged[s]]]
Ledger == INSTANCE OrderLedger WITH Orders <- Sagas, entry <- Entries,
            wanted <- [s \in Sagas |-> Wanted(s)]
KeepsTheBooks == Ledger!Spec

\* As long as no call meets a fault, what is sold is reserved and exists, and
\* nothing else stays reserved once every saga has ended: concurrent sagas
\* for the last units neither oversell nor lock them (repository.go:60-102).
SoldOf(i) == SumFunctionOnSet([s \in Sagas |-> Wanted(s)[i]],
                              {s \in Sagas : order[s] = "CONFIRMED"})
StockIsSoldOnce ==
  excused = {} =>
    \A i \in Items :
      /\ SoldOf(i) <= reserved[i] /\ reserved[i] <= Stock[i]
      /\ (\A s \in Sagas : ~Running(s)) => SoldOf(i) = reserved[i]

\* Of the requests with one key at most one has its order confirmed, lost
\* answers, retries and failed attempts before it included, unless a Redis
\* command failed for one of them (service.go:103-130, 310-316).
OneOrderPerKey ==
  \A k \in Keys :
    LET mine == {s \in Sagas : Key(s) = k}
    IN  mine \cap redisFailed = {} =>
          Cardinality({s \in mine : order[s] = "CONFIRMED"}) <= 1

\* Every request is answered, although its calls may time out, be rejected
\* or be cancelled, and its compensation may fail (service.go:89-320).
EveryRequestEnds == \A s \in Sagas : <>(~Running(s))

\* No key stays in process for ever: its saga answers it or deletes it, and
\* where that fails Redis forgets it (service.go:110, 169, 314).
KeysAreFreed ==
  \A k \in Keys : (idempotency[k] = "PROCESSING") ~> (idempotency[k] # "PROCESSING")

\* errors.go:133-134 says the duplicate check "Prevents double-charging on
\* network retries": at most one payment per idempotency key.
ChargedOncePerKey ==
  \A k \in Keys :
    LET mine == {s \in Sagas : Key(s) = k}
    IN  SumFunctionOnSet(charged, mine) <= 1

=============================================================================
