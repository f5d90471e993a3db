------------------------------ MODULE Gateway ------------------------------
(***************************************************************************)
(* The API gateway: every request passes the rate limiter of its client    *)
(* (limiter.go, LimitHandler), is routed by its prefix, and is proxied     *)
(* behind the circuit breaker of its route (gateway.go, ServeHTTP).  All   *)
(* requests run at once; the breaker holds its lock neither between the    *)
(* two halves of allowRequest nor during the proxied call, so results come *)
(* back in any order and long after the circuit has changed.               *)
(***************************************************************************)
EXTENDS CircuitBreaker, RateLimiter

CONSTANTS Requests,  \* the requests that can be in the gateway at once
          Backends   \* the routes, each with a breaker of its own

VARIABLES clients,   \* RateLimiter.clients
          breaker,   \* the breaker of each route
          request,   \* where each request stands
          healthy,   \* does the backend of a route answer as it should?
          streak     \* failures recorded since the last success (history)

vars == <<clients, breaker, request, healthy, streak>>

\* A call is sound when its backend has been healthy since it began.
InFlight == [at : {"admit", "trial", "calling"}, backend : Backends,
             sound : BOOLEAN]
Idle == [at |-> "idle"]

TypeOK ==
  /\ clients \in [Clients -> Buckets \cup {Unknown}]
  /\ breaker \in [Backends -> Breakers]
  /\ request \in [Requests -> InFlight \cup {Idle}]
  /\ healthy \in [Backends -> BOOLEAN]
  /\ streak \in [Backends -> 0..FailureThreshold]

Init ==
  /\ clients = [c \in Clients |-> Unknown]
  /\ breaker = [b \in Backends |-> NewBreaker]
  /\ request = [r \in Requests |-> Idle]
  /\ healthy = [b \in Backends |-> TRUE]
  /\ streak = [b \in Backends |-> 0]

-----------------------------------------------------------------------------
(* A request *)

Enters(r, b) ==
  request' = [request EXCEPT ![r] =
                [at |-> "admit", backend |-> b, sound |-> FALSE]]

Limited(r, c) ==
  /\ request[r] = Idle
  /\ ~Allows(Seen(clients, c), c)
  /\ clients' = Seen(clients, c)
  /\ UNCHANGED <<breaker, request, healthy, streak>>

Routed(r, c, b) ==
  /\ request[r] = Idle
  /\ Allows(Seen(clients, c), c)
  /\ clients' = TokenTaken(Seen(clients, c), c)
  /\ Enters(r, b)
  /\ UNCHANGED <<breaker, healthy, streak>>

\* No prefix matches: the token is spent all the same.
Unrouted(r, c) ==
  /\ request[r] = Idle
  /\ Allows(Seen(clients, c), c)
  /\ clients' = TokenTaken(Seen(clients, c), c)
  /\ UNCHANGED <<breaker, request, healthy, streak>>

Starts(r) ==
  request' = [request EXCEPT ![r].at = "calling",
                             ![r].sound = healthy[request[r].backend]]

FailFast(r) ==
  /\ request[r].at = "admit"
  /\ Rejects(breaker[request[r].backend])
  /\ request' = [request EXCEPT ![r] = Idle]
  /\ UNCHANGED <<clients, breaker, healthy, streak>>

AskForTrial(r) ==
  /\ request[r].at = "admit"
  /\ TrialIsDue(breaker[request[r].backend])
  /\ request' = [request EXCEPT ![r].at = "trial"]
  /\ UNCHANGED <<clients, breaker, healthy, streak>>

TakeTrial(r) ==
  /\ request[r].at = "trial"
  /\ breaker' = [breaker EXCEPT ![request[r].backend] = TrialTaken(@)]
  /\ Starts(r)
  /\ UNCHANGED <<clients, healthy, streak>>

PassThrough(r) ==
  /\ request[r].at = "admit"
  /\ breaker[request[r].backend].state # "OPEN"
  /\ Starts(r)
  /\ UNCHANGED <<clients, breaker, healthy, streak>>

\* The backend answered with anything but 502 and 503.
Succeed(r) ==
  LET b == request[r].backend
  IN /\ request[r].at = "calling"
     /\ breaker' = [breaker EXCEPT ![b] = HandleSuccess(@)]
     /\ streak' = [streak EXCEPT ![b] = 0]
     /\ request' = [request EXCEPT ![r] = Idle]
     /\ UNCHANGED <<clients, healthy>>

\* It answered 502 or 503, or the proxy could not reach it or gave up.
Fail(r) ==
  LET b == request[r].backend
  IN /\ request[r].at = "calling"
     /\ ~request[r].sound
     /\ breaker' = [breaker EXCEPT ![b] = HandleFailure(@)]
     /\ streak' = [streak EXCEPT ![b] = Capped(@ + 1, FailureThreshold)]
     /\ request' = [request EXCEPT ![r] = Idle]
     /\ UNCHANGED <<clients, healthy>>

\* The connection broke while the answer was copied: the proxy panics with
\* http.ErrAbortHandler and the breaker never hears of the call.
Abort(r) ==
  /\ request[r].at = "calling"
  /\ ~request[r].sound
  /\ request' = [request EXCEPT ![r] = Idle]
  /\ UNCHANGED <<clients, breaker, healthy, streak>>

-----------------------------------------------------------------------------
(* The limiter's cleaner, the backends and time *)

Cleanup == /\ clients' = Evicted(clients)
           /\ UNCHANGED <<breaker, request, healthy, streak>>

Heal(b) == /\ ~healthy[b]
           /\ healthy' = [healthy EXCEPT ![b] = TRUE]
           /\ UNCHANGED <<clients, breaker, request, streak>>

\* Whatever the backend was about to answer may now fail.
Break(b) ==
  /\ healthy[b]
  /\ healthy' = [healthy EXCEPT ![b] = FALSE]
  /\ request' = [r \in Requests |->
                   IF request[r] # Idle /\ request[r].backend = b
                   THEN [request[r] EXCEPT !.sound = FALSE]
                   ELSE request[r]]
  /\ UNCHANGED <<clients, breaker, streak>>

Tick == /\ clients' = Elapsed(clients)
        /\ breaker' = [b \in Backends |-> Aged(breaker[b])]
        /\ UNCHANGED <<request, healthy, streak>>

Arrive(r) == \E c \in Clients : \/ Limited(r, c)
                                \/ Unrouted(r, c)
                                \/ \E b \in Backends : Routed(r, c, b)

Proceed(r) == \/ FailFast(r)
              \/ AskForTrial(r)
              \/ TakeTrial(r)
              \/ PassThrough(r)
              \/ Succeed(r)
              \/ Fail(r)
              \/ Abort(r)

Next == \/ \E r \in Requests : Arrive(r) \/ Proceed(r)
        \/ \E b \in Backends : Heal(b) \/ Break(b)
        \/ Cleanup
        \/ Tick

\* Requests are served to their end (the server's time-outs see to it), time
\* passes, and every route keeps being asked for by clients that get through.
Spec ==
  /\ Init /\ [][Next]_vars
  /\ WF_vars(Tick)
  /\ \A r \in Requests : WF_vars(Proceed(r))
  /\ \A b \in Backends :
       SF_vars(\E r \in Requests, c \in Clients : Routed(r, c, b))

-----------------------------------------------------------------------------
\* A closed circuit knows exactly how many calls have failed in a row, and
\* they are fewer than the threshold: calls that were let through before the
\* circuit opened and answer late, in any order, neither open it early nor
\* keep it closed on a failing backend (breaker.go:149-173).
ClosedCountsFailures ==
  \A b \in Backends :
    breaker[b].state = "CLOSED" =>
      breaker[b].consecutiveFails = streak[b] /\ streak[b] < FailureThreshold

\* Once a backend stays healthy and clients keep asking for it, its circuit
\* closes and stays closed: no late failure, stale read of allowRequest or
\* aborted trial leaves a route half-open or open for good (breaker.go:119-146).
HealedBackendIsServed ==
  \A b \in Backends :
    <>[]healthy[b] => <>[](breaker[b].state = "CLOSED")

\* Forgetting idle clients never gives one more than a single bucket would:
\* the map of limiters, cleaned in the background (limiter.go:75-106),
\* implements one everlasting bucket per client.
Tokens == [c \in Clients |-> clients[c].tokens]
Ideal == INSTANCE TokenBuckets WITH tokens <- Tokens
LimitsEachClient == Ideal!Spec

=============================================================================
