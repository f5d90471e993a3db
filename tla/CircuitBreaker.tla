--------------------------- MODULE CircuitBreaker ---------------------------
(***************************************************************************)
(* The circuit breaker of internal/shared/breaker/breaker.go as operators  *)
(* on its record; each of them is one critical section of its mutex.  The  *)
(* time stamp of the last change is kept as the age of an open circuit, up *)
(* to the first tick after RecoveryInterval, and the failures are counted  *)
(* up to FailureThreshold: the code asks for no more of either.            *)
(***************************************************************************)
EXTENDS Naturals

CONSTANTS FailureThreshold,  \* consecutive failures that open the circuit
          RecoveryInterval   \* how long it stays open before a trial

ASSUME BreakerAssumption == /\ FailureThreshold \in Nat \ {0}
                            /\ RecoveryInterval \in Nat \ {0}

Capped(n, limit) == IF n > limit THEN limit ELSE n

Breakers == [state : {"CLOSED", "HALF_OPEN", "OPEN"},
             consecutiveFails : 0..FailureThreshold,
             age : 0..(RecoveryInterval + 1)]

NewBreaker == [state |-> "CLOSED", consecutiveFails |-> 0, age |-> 0]

Moved(cb, to) == [cb EXCEPT !.state = to, !.age = 0]

Aged(cb) == IF cb.state = "OPEN"
            THEN [cb EXCEPT !.age = Capped(@ + 1, RecoveryInterval + 1)]
            ELSE cb

\* What allowRequest sees under the read lock: a circuit that rejects, or one
\* it will ask for a trial, under the write lock it takes afterwards.
Rejects(cb) == cb.state = "OPEN" /\ cb.age <= RecoveryInterval
TrialIsDue(cb) == cb.state = "OPEN" /\ cb.age > RecoveryInterval

\* The second half of allowRequest, which looks at the state again but not at
\* the time: another caller may have reopened the circuit meanwhile.
TrialTaken(cb) == IF cb.state = "OPEN" THEN Moved(cb, "HALF_OPEN") ELSE cb

\* A plausible mistake, for the checks of the properties: only a trial
\* clears the count.
HandleSuccessOfTrial(cb) ==
  IF cb.state = "HALF_OPEN"
  THEN [Moved(cb, "CLOSED") EXCEPT !.consecutiveFails = 0]
  ELSE cb

\* Another: a trial that succeeds leaves the circuit half-open.
HandleSuccessUnmoved(cb) ==
  IF cb.state = "OPEN" THEN cb ELSE [cb EXCEPT !.consecutiveFails = 0]

HandleSuccess(cb) ==
  CASE cb.state = "HALF_OPEN" ->
         [Moved(cb, "CLOSED") EXCEPT !.consecutiveFails = 0]
    [] cb.state = "CLOSED" -> [cb EXCEPT !.consecutiveFails = 0]
    [] OTHER -> cb

HandleFailure(cb) ==
  LET failed == [cb EXCEPT !.consecutiveFails = Capped(@ + 1, FailureThreshold)]
  IN  IF \/ cb.state = "HALF_OPEN"
         \/ cb.state = "CLOSED" /\ failed.consecutiveFails >= FailureThreshold
      THEN Moved(failed, "OPEN")
      ELSE failed

=============================================================================
