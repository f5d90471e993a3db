----------------------------- MODULE SreSignals -----------------------------
(***************************************************************************)
(* The data engines the operator judges a service by (slo/engine.go,       *)
(* budget/manager.go, burnrate/engine.go), as functions of what Prometheus *)
(* answered: shares of requests in hundredths of a percent, latencies in   *)
(* milliseconds, traffic in requests per second.  The engines compare      *)
(* quotients; here both sides are multiplied out.                          *)
(***************************************************************************)
EXTENDS Naturals

CONSTANTS Services,
          SLOs       \* the objectives of the services that have any

All == 10000         \* a share of 100%
Objectives == [availability : 0..All, latency : Nat, errorRate : 0..All,
               throughput : Nat]
Readings == [availability : 0..All, latency : Nat, errorRate : 0..All,
             traffic : Nat]

ASSUME SloAssumption ==
  /\ DOMAIN SLOs \subseteq Services
  /\ \A s \in DOMAIN SLOs : SLOs[s] \in Objectives

\* Evaluate: without objectives it is an error, and its callers then differ.
HasSLO(s) == s \in DOMAIN SLOs

Violates(s, reading) ==
  \/ reading.availability < SLOs[s].availability
  \/ reading.latency > SLOs[s].latency
  \/ reading.errorRate > SLOs[s].errorRate
  \/ reading.traffic < SLOs[s].throughput /\ reading.traffic > 0

\* The share of requests that may fail: of a service without objectives 1% for
\* the budget, 0.1% for the burn rate.
BudgetOf(s) == All - (IF HasSLO(s) THEN SLOs[s].availability ELSE 9900)
BurnBasis(s) ==
  LET allowed == All - (IF HasSLO(s) THEN SLOs[s].availability ELSE 9990)
  IN  IF allowed = 0 THEN 10 ELSE allowed

Unspent(s, errorRate) ==
  IF errorRate > BudgetOf(s) THEN 0 ELSE BudgetOf(s) - errorRate

\* RemainingPercent < percent; the budget is whole where there is no traffic
\* or nothing may fail.
BudgetBelow(s, reading, percent) ==
  /\ reading.traffic > 0 /\ BudgetOf(s) > 0
  /\ 100 * Unspent(s, reading.errorRate) < percent * BudgetOf(s)

\* CurrentBurnRate > tenths / 10.
BurnAbove(s, reading, tenths) == 10 * reading.errorRate > tenths * BurnBasis(s)

\* IsHighAlert over one hour: the threshold of six hours applies to it too.
HighBurn(s, reading) == BurnAbove(s, reading, 60)

=============================================================================
