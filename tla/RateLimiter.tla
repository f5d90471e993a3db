---------------------------- MODULE RateLimiter ----------------------------
(***************************************************************************)
(* The per-client rate limiter of internal/shared/limiter/limiter.go as    *)
(* operators on its map of clients.  The token bucket of golang.org/x/time *)
(* refills from the time that has elapsed when it is next asked; here it   *)
(* refills at every tick, which is the same to whoever asks.               *)
(***************************************************************************)
EXTENDS Naturals

CONSTANTS Clients,    \* the addresses requests come from
          Burst,      \* the size of a bucket
          Rate,       \* the tokens a bucket gains per tick
          IdleLimit   \* a client unseen for longer is forgotten

\* A bucket is full again before its client is forgotten: an hour against
\* the two seconds of the defaults (20 tokens at 10 per second).
ASSUME LimiterAssumption == /\ Burst \in Nat \ {0} /\ Rate \in Nat \ {0}
                            /\ IdleLimit \in Nat
                            /\ Rate * (IdleLimit + 1) >= Burst

Buckets == [tokens : 0..Burst, idle : 0..(IdleLimit + 1)]

\* A client the map does not hold: it will start with a full bucket.
Unknown == [tokens |-> Burst]

NewBucket == [tokens |-> Burst, idle |-> 0]

\* A plausible mistake, for the checks of the properties: a bucket may
\* overflow.
RefilledWithoutLimit(bucket) ==
  [tokens |-> bucket.tokens + Rate,
   idle |-> IF bucket.idle > IdleLimit THEN bucket.idle ELSE bucket.idle + 1]

Refilled(bucket) ==
  [tokens |-> IF bucket.tokens + Rate > Burst THEN Burst
              ELSE bucket.tokens + Rate,
   idle |-> IF bucket.idle > IdleLimit THEN bucket.idle ELSE bucket.idle + 1]

\* The map a tick later.
Elapsed(clients) ==
  [c \in Clients |-> IF clients[c] = Unknown THEN Unknown
                     ELSE Refilled(clients[c])]

\* A plausible mistake, for the checks of the properties: a known client is
\* not marked as seen.
SeenOnce(clients, c) ==
  IF clients[c] = Unknown THEN [clients EXCEPT ![c] = NewBucket] ELSE clients

\* getLimiter: the client's bucket, created when it is new.
Seen(clients, c) ==
  IF clients[c] = Unknown THEN [clients EXCEPT ![c] = NewBucket]
  ELSE [clients EXCEPT ![c].idle = 0]

\* Allow of the token bucket, on a map in which the client was just seen.
Allows(clients, c) == clients[c].tokens > 0
TokenTaken(clients, c) == [clients EXCEPT ![c].tokens = @ - 1]

\* One pass of cleanupLoop.
Evicted(clients) ==
  [c \in Clients |-> IF clients[c] # Unknown /\ clients[c].idle > IdleLimit
                     THEN Unknown ELSE clients[c]]

=============================================================================
