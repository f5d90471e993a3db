--------------------------- MODULE DecisionEngine ---------------------------
(***************************************************************************)
(* The decision engine of internal/operator/decision/engine.go as          *)
(* operators: what MakeDecision answers for a firing alert.  The policy is *)
(* a record [action, maxRetries, ...] or NoPolicy.  The SRE reports enter  *)
(* as one of four signals, in the order the code tests them:               *)
(*   "low"        burn rate below 2 and availability not violated,         *)
(*   "critical"   the burn-rate report is a high alert,                    *)
(*   "exhausted"  no error budget left,                                    *)
(*   "unclear"    none of these, or the reports could not be computed.     *)
(* The rollback history is a sequence of [service, success], oldest first. *)
(***************************************************************************)
EXTENDS Naturals, Sequences, FiniteSets

RecoveryActions == {"PrepareRollback", "PrepareRestart", "PrepareScale"}
Actions == {"Ignore", "Wait", "Escalate"} \cup RecoveryActions
Signals == {"low", "critical", "exhausted", "unclear"}

NoPolicy == [action |-> "none"]

\* The counter the loop over ListRollbacks ends with.  It is reset by every
\* success it meets, so what it counts depends on the order of the list: the
\* in-memory store lists oldest first, and the loop ends with the failures
\* since the last success; Postgres lists newest first (ORDER BY start_time
\* DESC), and it ends with the failures before the first success.  (The start
\* of a recovery and its entry are taken to be in the same order.)
ConsecutiveFailures(rollbacks, service, newestFirst) ==
  LET Of == {i \in DOMAIN rollbacks : rollbacks[i].service = service}
      NotAfter(i) == IF newestFirst THEN {j \in Of : j <= i}
                                    ELSE {j \in Of : j >= i}
  IN  Cardinality({i \in Of : \A j \in NotAfter(i) : ~rollbacks[j].success})

\* What needs no look at the SRE state; "Evaluate" when that look is needed.
ShortCircuit(policy, isCoolingDown, recoveryAttempts) ==
  CASE policy = NoPolicy                                -> "Ignore"
    [] policy # NoPolicy /\ isCoolingDown               -> "Wait"
    [] /\ policy # NoPolicy /\ ~isCoolingDown
       /\ recoveryAttempts >= policy.maxRetries         -> "Escalate"
    [] /\ policy # NoPolicy /\ ~isCoolingDown
       /\ recoveryAttempts < policy.maxRetries          -> "Evaluate"

\* A plausible mistake, for the checks of the properties: one failure more.
WeighSignalsLate(policy, failures, signal) ==
  CASE failures > 2                                     -> "Escalate"
    [] failures <= 2 /\ signal = "low"                  -> "Wait"
    [] failures <= 2 /\ signal \in {"critical", "exhausted"}
                                                        -> "PrepareRollback"
    [] failures <= 2 /\ signal = "unclear"              -> policy.action

\* The rules on the history and the signals of the root-cause service.
WeighSignals(policy, failures, signal) ==
  CASE failures >= 2                                    -> "Escalate"
    [] failures < 2 /\ signal = "low"                   -> "Wait"
    [] failures < 2 /\ signal \in {"critical", "exhausted"}
                                                        -> "PrepareRollback"
    [] failures < 2 /\ signal = "unclear"               -> policy.action

=============================================================================
