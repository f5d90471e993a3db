--------------------------- MODULE ExecutionGate ---------------------------
(***************************************************************************)
(* The CooldownManager shared by the recoveries of concurrent incidents.   *)
(* Each recovery takes the three calls the incident manager makes, each    *)
(* one critical section and nothing held in between:                       *)
(*   IsCoolingDown      the advisory check when the decision is made,      *)
(*   RecordRecovery     the advisory window, once a plan exists,           *)
(*   TryStartExecution  the check-and-claim of the service's slot.         *)
(* Time passes between any two calls.                                       *)
(***************************************************************************)
EXTENDS Cooldown

CONSTANTS Recoveries,  \* the recoveries that contend for the slots
          Windows,     \* the durations plans ask for
          MaxTime      \* bound on the clock, for model checking

ASSUME WindowsAssumption == Windows \subseteq Nat \ {0}

VARIABLES now,            \* the clock
          cooldownUntil,  \* CooldownManager.cooldownUntil
          pc,             \* where each recovery stands
          request,        \* the service, alert and window of each recovery
          claimedAt       \* when a granted recovery claimed its slot (history)

vars == <<now, cooldownUntil, pc, request, claimedAt>>

Requests == [service : Services, alertName : AlertNames, window : Windows]

TypeOK == /\ now \in Nat
          /\ cooldownUntil \in [Keys -> Nat]
          /\ pc \in [Recoveries -> {"check", "record", "try", "granted",
                                    "suppressed", "cooling"}]
          /\ request \in [Recoveries -> Requests]
          /\ claimedAt \in [Recoveries -> Nat]

Init == /\ now = 0
        /\ cooldownUntil = NoWindows
        /\ pc = [r \in Recoveries |-> "check"]
        /\ request \in [Recoveries -> Requests]
        /\ claimedAt = [r \in Recoveries |-> 0]

CheckCooldown(r) ==
  /\ pc[r] = "check"
  /\ pc' = [pc EXCEPT ![r] =
              IF IsCoolingDown(cooldownUntil, now, request[r].service,
                               request[r].alertName)
              THEN "cooling" ELSE "record"]
  /\ UNCHANGED <<now, cooldownUntil, request, claimedAt>>

RecordRecovery(r) ==
  /\ pc[r] = "record"
  /\ pc' = [pc EXCEPT ![r] = "try"]
  /\ cooldownUntil' = Recorded(cooldownUntil, now, request[r].service,
                               request[r].alertName, request[r].window)
  /\ UNCHANGED <<now, request, claimedAt>>

TryStartGranted(r) ==
  /\ pc[r] = "try"
  /\ SlotIsFree(cooldownUntil, now, request[r].service)
  /\ pc' = [pc EXCEPT ![r] = "granted"]
  /\ cooldownUntil' = SlotClaimed(cooldownUntil, now, request[r].service,
                                  request[r].window)
  /\ claimedAt' = [claimedAt EXCEPT ![r] = now]
  /\ UNCHANGED <<now, request>>

TryStartSuppressed(r) ==
  /\ pc[r] = "try"
  /\ ~SlotIsFree(cooldownUntil, now, request[r].service)
  /\ pc' = [pc EXCEPT ![r] = "suppressed"]
  /\ UNCHANGED <<now, cooldownUntil, request, claimedAt>>

Tick == /\ now < MaxTime
        /\ now' = now + 1
        /\ UNCHANGED <<cooldownUntil, pc, request, claimedAt>>

Step(r) == \/ CheckCooldown(r)
           \/ RecordRecovery(r)
           \/ TryStartGranted(r)
           \/ TryStartSuppressed(r)

Next == Tick \/ \E r \in Recoveries : Step(r)

Spec == Init /\ [][Next]_vars

-----------------------------------------------------------------------------
Granted(s) == {r \in Recoveries : pc[r] = "granted" /\ request[r].service = s}
WindowEnd(r) == claimedAt[r] + request[r].window

\* Two executions granted to one service never share a window, whatever
\* alerts asked for them and however their windows differ: the promise of
\* TryStartExecution (cooldown.go:54-60) that a recovery passes only "if no
\* recovery execution for the service has run within the window".
WindowsDisjoint ==
  \A s \in Services : \A r, q \in Granted(s) :
    r # q => WindowEnd(r) <= claimedAt[q] \/ WindowEnd(q) <= claimedAt[r]

\* A recovery is suppressed only for the sake of one that was granted: the
\* gate never locks a service nobody is recovering (the advisory windows that
\* live in the same map must not be mistaken for a claim).
SuppressedOnlyByGrant ==
  \A r \in Recoveries : pc[r] = "suppressed" => Granted(request[r].service) # {}

\* The map with its clock implements the abstract windows.
Remaining == [s \in Services |->
                IF SlotIsFree(cooldownUntil, now, s) THEN 0
                ELSE cooldownUntil[ExecKey(s)] - now]

Abstract == INSTANCE RecoveryWindows WITH remaining <- Remaining
ImplementsWindows == Abstract!Spec

=============================================================================
